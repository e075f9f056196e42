----------------------------- MODULE FileProofs -----------------------------
(***************************************************************************)
(* The two ways of changing files on disk.                                 *)
(*                                                                         *)
(* RootedMutation: for any versions of the file that other programs save   *)
(* or write, one call of mutate_rooted_regular keeps the contract that the *)
(* batch of RootedTransaction relies on, and loses no saved version.       *)
(*                                                                         *)
(* ExistingTransaction: for every batch size, every set of no-op changes   *)
(* and every set of editor versions, the result of an existing-file batch  *)
(* is truthful, its residue is explained, and it overwrites editors only   *)
(* in its window.                                                          *)
(***************************************************************************)
EXTENDS RootedMutation, ExistingTransaction, TLAPS

-----------------------------------------------------------------------------
(* One rooted mutation.                                                    *)

\* Who has which content, whatever is written in place.
Holders ==
    /\ \A i \in Inodes : data[i] = "before" => i = "original"
    /\ \A i \in Inodes, f \in Foreign \ InPlace : data[i] = f => i = f

Temporary ==
    /\ pc \in {"open", "prepare", "recheck", "rename"} => dir.temp \in {"none", "prepared"}
    /\ pc \in {"identity", "unlink"} => dir.temp \in {"none", "original"}

Origins == Holders /\ Temporary /\ (world = "before" => unused = Foreign)

\* No other program has written into a file that it found there.
Quiet == InPlace \subseteq unused

Linked(i) == dir.target = i \/ dir.temp = i

Images ==
    /\ data["original"] = "before"
    /\ \A f \in Foreign : Linked(f) => f \notin unused /\ data[f] = f
    /\ pc # "done" /\ Linked("prepared") => data["prepared"] = "after"
    /\ dir.target = dir.temp => dir.target = "none"

\* The path holds what it would hold without the call.
Untouched == world = Content("target") /\ dir.target # "prepared"

\* Before the rename, or after a replace was undone.
Before ==
    pc \in {"open", "prepare", "recheck", "rename", "cleanup", "last_cleanup"} =>
        /\ Untouched /\ ~ exchanged
        /\ dir.temp = IF tempIsOurs THEN "prepared" ELSE "none"
        /\ pc \in {"open", "recheck"} => op # "create"
        /\ pc \in {"open", "prepare"} => ~ tempIsOurs
        /\ pc \in {"recheck", "rename"} => tempIsOurs = (op # "delete")
        /\ pc \in {"cleanup", "last_cleanup"} => tempIsOurs
        /\ pc \in {"prepare", "cleanup", "last_cleanup"} => op # "delete"
        /\ op # "create" /\ pc \in {"prepare", "recheck", "rename"} => opened = "original"
        /\ pc = "last_cleanup" => op = "replace"
        /\ pc = "cleanup" => ~ error.changed
        /\ pc = "last_cleanup" => error.changed

\* What the rename moved aside.
Moved == IF dir.temp = "none" THEN "before" ELSE data[dir.temp]

\* The target is as the rename left it, or has what somebody put there since.
Replaced ==
    /\ op = "create" /\ dir.target = "prepared" => world = "absent"
    /\ op = "replace" /\ dir.target = "prepared" => world = Moved
    /\ op = "delete" /\ dir.target = "none" => world \in {Moved, "absent"}
    /\ op = "delete" => dir.target # "prepared"
    /\ dir.target \notin {"prepared", "none"} => world = Content("target")
    /\ op # "delete" /\ dir.target = "none" => world = "absent"

After ==
    pc \in {"displaced", "identity", "unlink", "fsync", "verify", "rollback", "rollback_rename"} =>
        /\ Replaced /\ ~ tempIsOurs
        /\ dir.temp # "prepared"
        /\ op = "create" => pc \in {"identity", "fsync", "verify"} /\ dir.temp = "none"
        /\ op = "delete" => pc # "identity"
        /\ op # "create" => opened = "original"
        /\ op # "create" /\ pc \in {"identity", "unlink", "rollback_rename"} =>
              dir.temp = "original"
        /\ pc = "displaced" => dir.temp # "none"
        /\ pc \in {"fsync", "verify"} => dir.temp = "none"
        /\ op = "delete" /\ pc = "rollback" => dir.temp # "none"
        /\ exchanged = (op = "replace" \/ (op = "delete" /\ pc \notin {"fsync", "verify"}))
        /\ pc \in {"rollback", "rollback_rename"} => ~ error.changed

Undone ==
    pc = "rollback_verify" =>
        /\ op # "create" /\ opened = "original" /\ ~ error.changed
        /\ dir.target # "prepared"
        /\ op = "replace" =>
              /\ dir.temp \notin {"none", "original"}
              /\ \/ world = Content("target")
                 \/ dir.target = "original" /\ dir.temp # "prepared" /\ world = data[dir.temp]
        /\ op = "delete" =>
              /\ dir.temp = "none"
              /\ \/ world = Content("target")
                 \/ dir.target = "original" /\ world = "absent"

\* At every step, so that an interrupt may come.
Safe == Contract!NothingLost(Result) /\ Contract!Leftovers(Result)

Clean ==
    /\ dir.temp = "none"
    /\ \/ world = Content("target")
       \/ op = "delete" /\ world = "absent" /\ Content("target") = "before"

Exact ==
    /\ dir.temp = "none" /\ Content("target") = Goal
    /\ world \in {IF op = "create" THEN "absent" ELSE "before", Goal}

Ended ==
    pc = "done" =>
        /\ Safe
        /\ \/ outcome.status = "interrupted"
           \/ outcome.status = "refused" /\ outcome.changed = TRUE
           \/ outcome.status = "refused" /\ Clean
           \/ outcome.status = "committed" /\ outcome.changed = TRUE /\ Exact

Phases == Images /\ Before /\ After /\ Undone /\ Ended

MutationInv == TypeOK /\ Origins /\ (Quiet => Phases)

-----------------------------------------------------------------------------
(* What a step says of the variables, without the records. *)

Goes(label)           == pc' = label /\ error'.changed = error.changed
Fails(label, changed) == pc' = label /\ error'.changed = changed

Ends(how, changed) ==
    /\ pc' = "done" /\ error'.changed = error.changed
    /\ outcome'.status = how /\ outcome'.changed = changed

Entry == Inodes \cup {"none"}

LEMMA GotoFacts == \A label \in Labels : Goto(label) => Goes(label)
  BY DEF Goto, Goes

LEMMA HandleFacts ==
    \A label \in Labels : \A kind, changed : Handle(label, kind, changed) => Fails(label, changed)
  BY DEF Handle, Fails

LEMMA FinishFacts ==
    \A how, kind, changed : Finish(how, kind, changed) => Ends(how, changed)
  BY DEF Finish, Ends

LEMMA FinishChanged ==
    \A how, kind : Finish(how, kind, TRUE) =>
        outcome'.status = how /\ outcome'.changed = TRUE
  BY DEF Finish

LEMMA RelinkFacts == \A t, p : Relink(t, p) => dir'.target = t /\ dir'.temp = p
  BY DEF Relink

LEMMA RelinkType == \A t, p \in Entry : Relink(t, p) => dir' \in [target : Entry, temp : Entry]
  BY DEF Relink

OsErrorEnds ==
    \/ exchanged /\ Fails("rollback", FALSE)
    \/ ~ exchanged /\ tempIsOurs /\ Fails("cleanup", FALSE)
    \/ /\ ~ exchanged /\ ~ tempIsOurs
       /\ \/ (op = "create" \/ pc = "fsync") /\ Ends("refused", TRUE)
          \/ op # "create" /\ pc # "fsync" /\ Ends("refused", FALSE)

LEMMA OsErrorFacts == OsError => OsErrorEnds
  BY HandleFacts, FinishFacts DEF OsError, OsErrorEnds, Labels

RefuseEnds ==
    \/ tempIsOurs /\ Fails("cleanup", FALSE)
    \/ ~ tempIsOurs /\ Ends("refused", FALSE)

LEMMA RefuseFacts == \A kind : Refuse(kind) => RefuseEnds
  BY HandleFacts, FinishFacts DEF Refuse, RefuseEnds, Labels

-----------------------------------------------------------------------------
LEMMA InitHolds == Init => MutationInv
<1> SUFFICES ASSUME Init PROVE MutationInv
  OBVIOUS
<1> USE ForeignAssumption, OperationsAssumption
<1>1. TypeOK
  BY DEF Init, TypeOK, Labels, Inodes, Contents, NoError
<1>2. Origins
  BY DEF Init, Origins, Holders, Temporary, Inodes
<1>3. Images
  BY DEF Init, Images, Linked, Names, Inodes
<1>4. Before
  BY DEF Init, Before, Untouched, Content, Inodes
<1>5. After /\ Undone /\ Ended
  BY DEF Init, After, Undone, Ended
<1>. QED BY <1>1, <1>2, <1>3, <1>4, <1>5 DEF MutationInv, Phases

-----------------------------------------------------------------------------
\* A step that touches no file may only go to a label that there is, with or
\* without an error.
Controlled == pc' \in Labels /\ error'.changed \in BOOLEAN

LEMMA ControlledType ==
    ASSUME TypeOK, Controlled, Frame,
           UNCHANGED <<dir, data, opened, exchanged, tempIsOurs>>
    PROVE  TypeOK'
  BY DEF TypeOK, Controlled, Frame

LEMMA RelinkedType ==
    ASSUME TypeOK, Controlled, Frame, UNCHANGED <<data, opened, exchanged>>,
           \/ UNCHANGED dir
           \/ Relink(dir.target, "none")
           \/ Relink(dir.temp, dir.target),
           tempIsOurs' \in BOOLEAN
    PROVE  TypeOK'
<1>1. dir' \in [target : Entry, temp : Entry]
  BY RelinkType DEF TypeOK, Entry
<1>. QED
  BY <1>1 DEF TypeOK, Controlled, Frame, Entry

LEMMA GotoControlled == ASSUME TypeOK, NEW label \in Labels, Goto(label) PROVE Controlled
  BY DEF TypeOK, Goto, Controlled

LEMMA HandleControlled ==
    ASSUME NEW label \in Labels, NEW kind, NEW changed \in BOOLEAN, Handle(label, kind, changed)
    PROVE  Controlled
  BY DEF Handle, Controlled

LEMMA FinishControlled ==
    ASSUME TypeOK, NEW how, NEW kind, NEW changed, Finish(how, kind, changed) PROVE Controlled
  BY DEF TypeOK, Finish, Controlled, Labels

LEMMA OsErrorControlled == ASSUME TypeOK, OsError PROVE Controlled
  BY HandleControlled, FinishControlled DEF OsError, Labels

LEMMA RefuseControlled == ASSUME TypeOK, NEW kind, Refuse(kind) PROVE Controlled
<1>1. CASE tempIsOurs
  <2>1. Handle("cleanup", kind, FALSE) /\ "cleanup" \in Labels
    BY <1>1 DEF Refuse, Labels
  <2>. QED BY <2>1, HandleControlled
<1>2. CASE ~ tempIsOurs
  BY <1>2, FinishControlled DEF Refuse
<1>. QED BY <1>1, <1>2

LEMMA TypeStep == TypeOK /\ Origins /\ [Next]_vars => TypeOK'
<1> SUFFICES ASSUME TypeOK, Origins, [Next]_vars PROVE TypeOK'
  OBVIOUS
<1> USE ForeignAssumption, OperationsAssumption
<1> USE GotoFacts, HandleFacts, FinishFacts, RelinkFacts, RelinkType, OsErrorFacts, RefuseFacts
<1> USE DEF TypeOK, Labels, Inodes, Contents, Frame, Goes, Fails, Ends, OsErrorEnds,
            RefuseEnds, UnlinkExact, RollbackFailed, Entry
<1>1. CASE Open
  BY <1>1 DEF Open, Content, Origins, Holders
<1>2. CASE Prepare
  BY <1>2 DEF Prepare
<1>3. CASE Recheck
  BY ONLY TypeOK, <1>3, ControlledType, GotoControlled, OsErrorControlled,
     RefuseControlled DEF Recheck, Labels
<1>4. CASE Rename
  <2>1. CASE RenameCreate
    BY <1>4, <2>1 DEF Rename, RenameCreate
  <2>2. CASE RenameReplace
    BY <1>4, <2>2 DEF Rename, RenameReplace
  <2>3. CASE RenameDelete
    BY <1>4, <2>3 DEF Rename, RenameDelete
  <2>. QED BY <1>4, <2>1, <2>2, <2>3 DEF Rename
<1>5. CASE CheckDisplaced
  BY ONLY TypeOK, <1>5, ControlledType, GotoControlled, OsErrorControlled,
     HandleControlled DEF CheckDisplaced, Labels
<1>6. CASE CheckIdentity
  BY ONLY TypeOK, <1>6, ControlledType, GotoControlled, OsErrorControlled,
     FinishControlled DEF CheckIdentity, Labels
<1>7. CASE Unlink
  BY <1>7 DEF Unlink
<1>8. CASE FsyncParent
  BY ONLY TypeOK, <1>8, ControlledType, GotoControlled, OsErrorControlled
     DEF FsyncParent, Labels
<1>9. CASE Verify
  BY ONLY TypeOK, <1>9, ControlledType, FinishControlled DEF Verify, Labels
<1>10. CASE RollbackCheck
  BY ONLY TypeOK, <1>10, ControlledType, GotoControlled, FinishControlled
     DEF RollbackCheck, Labels, RollbackFailed
<1>11. CASE RollbackRename
  BY ONLY TypeOK, <1>11, RelinkedType, GotoControlled, FinishControlled
     DEF RollbackRename, Labels, RollbackFailed, TypeOK
<1>12. CASE RollbackVerify
  BY <1>12 DEF RollbackVerify
<1>13. CASE Cleanup
  BY <1>13 DEF Cleanup
<1>14. CASE LastCleanup
  <2>1. UNCHANGED dir \/ Relink(dir.target, "none")
    BY ONLY <1>14 DEF LastCleanup, UnlinkExact
  <2>2. tempIsOurs' \in BOOLEAN
    BY ONLY TypeOK, <1>14 DEF TypeOK, LastCleanup, UnlinkExact
  <2>. QED
    BY ONLY TypeOK, <1>14, <2>1, <2>2, RelinkedType, FinishControlled DEF LastCleanup
<1>15. CASE Interrupt
  BY <1>15 DEF Interrupt
<1>16. CASE Editors
  <2>1. PICK f \in Foreign : ForeignSave(f) \/ ForeignWrite(f) \/ ForeignDelete(f)
    BY <1>16 DEF Editors
  <2>2. CASE ForeignSave(f)
    BY <2>2 DEF ForeignSave, ForeignFrame
  <2>3. CASE ForeignWrite(f)
    BY <2>3 DEF ForeignWrite, ForeignFrame
  <2>4. CASE ForeignDelete(f)
    BY <2>4 DEF ForeignDelete, ForeignFrame
  <2>. QED BY <2>1, <2>2, <2>3, <2>4
<1>17. CASE Done \/ UNCHANGED vars
  BY <1>17 DEF Done, vars
<1>. QED
  BY <1>1, <1>2, <1>3, <1>4, <1>5, <1>6, <1>7, <1>8, <1>9, <1>10, <1>11, <1>12, <1>13,
     <1>14, <1>15, <1>16, <1>17 DEF Next, Call

LEMMA HoldersStep == TypeOK /\ Holders /\ [Next]_vars => Holders'
<1> SUFFICES ASSUME TypeOK, Holders, [Next]_vars PROVE Holders'
  OBVIOUS
<1> USE ForeignAssumption DEF TypeOK, Holders, Inodes, Contents
<1>1. CASE UNCHANGED data
  BY <1>1
<1>2. CASE Prepare
  BY <1>2 DEF Prepare
<1>3. CASE Interrupt
  BY <1>3 DEF Interrupt
<1>4. CASE Editors
  <2>1. PICK f \in Foreign : ForeignSave(f) \/ ForeignWrite(f) \/ ForeignDelete(f)
    BY <1>4 DEF Editors
  <2>2. CASE ForeignSave(f)
    BY <2>2 DEF ForeignSave
  <2>3. CASE ForeignWrite(f)
    BY <2>3 DEF ForeignWrite
  <2>. QED BY <1>1, <2>1, <2>2, <2>3 DEF ForeignDelete
<1>. QED
  BY <1>1, <1>2, <1>3, <1>4 DEF Next, Call, Open, Recheck, Rename, CheckDisplaced,
     CheckIdentity, Unlink, FsyncParent, Verify, RollbackCheck, RollbackRename, RollbackVerify,
     Cleanup, LastCleanup, Done, vars

LEMMA TemporaryStep == TypeOK /\ Holders /\ Temporary /\ [Next]_vars => Temporary'
<1> SUFFICES ASSUME TypeOK, Holders, Temporary, [Next]_vars PROVE Temporary'
  OBVIOUS
<1> USE GotoFacts, HandleFacts, FinishFacts, RelinkFacts, OsErrorFacts, RefuseFacts
<1> USE DEF TypeOK, Labels, Temporary, Goes, Fails, Ends, OsErrorEnds, RefuseEnds, RollbackFailed
<1>1. CASE Open
  BY <1>1 DEF Open
<1>2. CASE Prepare
  BY <1>2 DEF Prepare
<1>3. CASE Recheck
  BY <1>3 DEF Recheck
<1>4. CASE Rename
  BY <1>4 DEF Rename, RenameCreate, RenameReplace, RenameDelete
<1>5. CASE CheckDisplaced
  BY <1>5 DEF CheckDisplaced, Holders, Inodes
<1>6. CASE CheckIdentity
  BY <1>6 DEF CheckIdentity
<1>7. CASE Unlink
  BY <1>7 DEF Unlink
<1>8. CASE FsyncParent
  BY <1>8 DEF FsyncParent
<1>9. CASE Verify
  BY <1>9 DEF Verify
<1>10. CASE RollbackCheck
  BY <1>10 DEF RollbackCheck
<1>11. CASE RollbackRename
  BY <1>11 DEF RollbackRename
<1>12. CASE RollbackVerify
  BY <1>12 DEF RollbackVerify
<1>13. CASE Cleanup
  BY <1>13 DEF Cleanup
<1>14. CASE LastCleanup
  BY <1>14 DEF LastCleanup
<1>15. CASE Interrupt
  BY <1>15 DEF Interrupt
<1>16. CASE Editors
  BY <1>16 DEF Editors, ForeignSave, ForeignWrite, ForeignDelete, ForeignFrame
<1>17. CASE Done \/ UNCHANGED vars
  BY <1>17 DEF Done, vars
<1>. QED
  BY <1>1, <1>2, <1>3, <1>4, <1>5, <1>6, <1>7, <1>8, <1>9, <1>10, <1>11, <1>12, <1>13,
     <1>14, <1>15, <1>16, <1>17 DEF Next, Call

LEMMA OriginsStep == TypeOK /\ Origins /\ [Next]_vars => Origins'
<1> SUFFICES ASSUME TypeOK, Origins, [Next]_vars PROVE Origins'
  OBVIOUS
<1>1. Holders' /\ Temporary'
  BY HoldersStep, TemporaryStep DEF Origins
<1>2. world' = "before" => unused' = Foreign
  <2>1. CASE UNCHANGED <<world, unused>>
    BY <2>1 DEF Origins
  <2>2. CASE Editors
    BY <2>2, ForeignAssumption DEF Editors, ForeignSave, ForeignWrite, ForeignDelete
  <2>. QED
    BY <2>1, <2>2 DEF Next, Call, Frame, Open, Prepare, Recheck, Rename, CheckDisplaced,
       CheckIdentity, Unlink, FsyncParent, Verify, RollbackCheck, RollbackRename,
       RollbackVerify, Cleanup, LastCleanup, Interrupt, Done, vars
<1>. QED BY <1>1, <1>2 DEF Origins

-----------------------------------------------------------------------------
(* The contract, in terms of the variables. *)

Preserved ==
    \/ world \in {Content("target"), Content("temp"), "absent"}
    \/ Content("target") = Goal /\ world = IF op = "create" THEN "absent" ELSE "before"

Explained ==
    /\ Content("target") \in {"absent", "before", Goal, world} \cup (Foreign \ unused)
    /\ op = "create" => Content("target") \in {"absent", Goal, world} \cup (Foreign \ unused)
    /\ Content("temp") \in {"absent", "before", "partial", Goal} \cup (Foreign \ unused)
    /\ op = "create" => Content("temp") # "before"
    /\ Content("temp") # "absent" => Content("temp") # Content("target")

LEMMA SafeIs == Preserved /\ Explained => Safe
  BY DEF Preserved, Explained, Safe, Result, Contract!NothingLost, Contract!Leftovers

LEMMA RunningIsSafe ==
    ASSUME TypeOK, Phases, pc # "done" PROVE Safe
<1> USE ForeignAssumption, OperationsAssumption
<1> USE DEF Phases, TypeOK, Inodes, Contents, Content, Goal
<1>1. Preserved
  <2>1. CASE pc \in {"open", "prepare", "recheck", "rename", "cleanup", "last_cleanup"}
    BY <2>1 DEF Preserved, Before, Untouched
  <2>2. CASE pc \in {"displaced", "identity", "unlink", "fsync", "verify", "rollback",
                     "rollback_rename"}
    BY <2>2 DEF Preserved, After, Replaced, Moved, Images, Linked
  <2>3. CASE pc = "rollback_verify"
    BY <2>3 DEF Preserved, Undone
  <2>. QED BY <2>1, <2>2, <2>3 DEF Labels
<1>2. Explained
  <2>1. CASE pc \in {"open", "prepare", "recheck", "rename", "cleanup", "last_cleanup"}
    BY <2>1 DEF Explained, Before, Untouched, Images, Linked
  <2>2. CASE pc \in {"displaced", "identity", "unlink", "fsync", "verify", "rollback",
                     "rollback_rename"}
    BY <2>2 DEF Explained, After, Replaced, Moved, Images, Linked
  <2>3. CASE pc = "rollback_verify"
    BY <2>3 DEF Explained, Undone, Images, Linked
  <2>. QED BY <2>1, <2>2, <2>3 DEF Labels
<1>. QED BY <1>1, <1>2, SafeIs

LEMMA EndedIsKept == Ended => (pc = "done" => Contract!Holds(Result))
<1> SUFFICES ASSUME Ended, pc = "done" PROVE Contract!Holds(Result)
  OBVIOUS
<1>1. Contract!NothingLost(Result) /\ Contract!Leftovers(Result)
  BY DEF Ended, Safe
<1>2. Contract!Committed(Result)
  BY DEF Ended, Exact, Result, Content, Contract!Committed
<1>3. Contract!CleanRefusal(Result)
  BY DEF Ended, Clean, Result, Content, Goal, Contract!CleanRefusal
<1>. QED BY <1>1, <1>2, <1>3 DEF Contract!Holds
-----------------------------------------------------------------------------
(* The steps. *)

LEMMA SafeStays == Safe /\ UNCHANGED <<op, dir, data, unused, world>> => Safe'
  BY DEF Safe, Result, Content, Goal, Contract!NothingLost, Contract!Leftovers

LEMMA SafeIsNext == Preserved' /\ Explained' => Safe'
  BY DEF Preserved, Explained, Safe, Result, Contract!NothingLost, Contract!Leftovers

\* Whatever becomes of the private file, the path holds what it would without the call.
LEMMA PrivateIsSafe ==
    ASSUME TypeOK, TypeOK', Images, Untouched, op # "delete", UNCHANGED <<op, unused, world>>,
           dir'.target = dir.target,
           \/ dir'.temp = "none" /\ UNCHANGED data
           \/ dir'.temp = "prepared" /\ data' = [data EXCEPT !["prepared"] = "partial"]
    PROVE  Safe'
<1> USE ForeignAssumption, OperationsAssumption
<1> USE DEF TypeOK, Inodes, Contents, Content, Untouched, Goal
<1>1. Content("target")' = Content("target") /\ world' = Content("target")'
  <2>1. dir.target # "none" => data'[dir.target] = data[dir.target]
    OBVIOUS
  <2>. QED BY <2>1
<1>2. Preserved'
  BY <1>1 DEF Preserved
<1>3. Explained'
  BY <1>1 DEF Explained, Images, Linked
<1>. QED BY <1>2, <1>3, SafeIsNext

LEMMA OpenStep ==
    ASSUME TypeOK, TypeOK', Holders, Phases, Open PROVE Phases'
<1> USE ForeignAssumption, OperationsAssumption
<1> USE GotoFacts, HandleFacts, FinishFacts, RelinkFacts, OsErrorFacts, RefuseFacts
<1> USE DEF TypeOK, Labels, Inodes, Contents, Phases, Frame, Goes, Fails, Ends, OsErrorEnds,
            RefuseEnds, UnlinkExact, RollbackFailed, Content
<1>1. Images'
  BY DEF Open, Images, Linked, Before, Untouched
<1>2. Before'
  BY DEF Open, Images, Before, Untouched
<1>3. After'
  BY DEF Open, Images, Linked, Before, Untouched, After, Replaced, Moved
<1>4. Undone'
  BY DEF Open, Images, Linked, Before, Untouched, Undone
<1>5. Ended'
  <2> SUFFICES ASSUME pc' = "done" PROVE Ended'
    BY DEF Ended
  <2>1. UNCHANGED <<op, dir, data, unused, world>>
    BY DEF Open
  <2>2. Safe'
    BY <2>1, RunningIsSafe, SafeStays DEF Open
  <2>. QED BY <2>1, <2>2 DEF Open, Ended, Clean, Exact, Before, Untouched
<1>. QED BY <1>1, <1>2, <1>3, <1>4, <1>5

LEMMA PrepareStep ==
    ASSUME TypeOK, TypeOK', Holders, Phases, Prepare PROVE Phases'
<1> USE ForeignAssumption, OperationsAssumption
<1> USE GotoFacts, HandleFacts, FinishFacts, RelinkFacts, OsErrorFacts, RefuseFacts
<1> USE DEF TypeOK, Labels, Inodes, Contents, Phases, Frame, Goes, Fails, Ends, OsErrorEnds,
            RefuseEnds, UnlinkExact, RollbackFailed, Content
<1>1. Images'
  <2>1. dir.temp = "none" /\ dir.target # "prepared"
    BY DEF Prepare, Before, Untouched
  <2>2. CASE UNCHANGED <<dir, data>>
    BY <2>2 DEF Prepare, Images, Linked
  <2>3. CASE Relink(dir.target, "prepared") /\ UNCHANGED unused
    <3>1. CASE data' = [data EXCEPT !["prepared"] = "after"]
      BY <2>1, <2>3, <3>1 DEF Images, Linked
    <3>2. CASE data' = [data EXCEPT !["prepared"] = "partial"] /\ pc' = "done"
      BY <2>1, <2>3, <3>2 DEF Images, Linked
    <3>. QED BY <2>2, <3>1, <3>2 DEF Prepare
  <2>. QED BY <2>2, <2>3 DEF Prepare
<1>2. Before'
  <2> SUFFICES ASSUME pc' # "done" PROVE Before'
    BY DEF Before
  <2>1. /\ Relink(dir.target, "prepared") /\ data' = [data EXCEPT !["prepared"] = "after"]
        /\ tempIsOurs' = TRUE /\ op # "delete"
        /\ pc' = IF op = "create" THEN "rename" ELSE "recheck"
    BY DEF Prepare, Before
  <2>2. Untouched' /\ ~ exchanged'
    BY <2>1 DEF Prepare, Before, Untouched
  <2>3. dir'.temp = "prepared" /\ (op # "create" => opened' = "original") /\ op' = op
    BY <2>1 DEF Prepare, Before
  <2>4. pc' \in {"recheck", "rename"} /\ (pc' = "recheck" => op # "create")
    BY <2>1
  <2>. QED BY <2>1, <2>2, <2>3, <2>4 DEF Before
<1>3. After'
  BY DEF Prepare, Images, Linked, Before, Untouched, After, Replaced, Moved
<1>4. Undone'
  BY DEF Prepare, Images, Linked, Before, Untouched, Undone
<1>5. Ended'
  <2> SUFFICES ASSUME pc' = "done" PROVE Ended'
    BY DEF Ended
  <2>1. Untouched /\ op # "delete" /\ UNCHANGED <<op, unused, world>>
    BY DEF Prepare, Before
  <2>2. CASE UNCHANGED <<dir, data>>
    <3>1. Safe'
      BY <2>1, <2>2, RunningIsSafe, SafeStays DEF Prepare
    <3>2. outcome'.status = "refused"
      BY DEF Prepare
    <3>3. dir.temp = "none"
      BY DEF Prepare, Before
    <3>4. CASE outcome'.changed = TRUE
      BY <3>1, <3>2, <3>4 DEF Ended
    <3>. QED BY <2>1, <2>2, <3>1, <3>2, <3>3 DEF Ended, Clean, Untouched
  <2>3. CASE /\ Relink(dir.target, "prepared") /\ data' = [data EXCEPT !["prepared"] = "partial"]
             /\ Finish("refused", "mutation_failed", TRUE)
    <3>1. Safe'
      BY <2>1, <2>3, PrivateIsSafe
    <3>2. outcome'.status = "refused" /\ outcome'.changed = TRUE
      BY <2>3, FinishChanged
    <3>. QED BY <3>1, <3>2 DEF Ended
  <2>. QED BY <2>2, <2>3 DEF Prepare
<1>. QED BY <1>1, <1>2, <1>3, <1>4, <1>5

LEMMA RecheckStep ==
    ASSUME TypeOK, TypeOK', Holders, Phases, Recheck PROVE Phases'
<1> USE ForeignAssumption, OperationsAssumption
<1> USE GotoFacts, HandleFacts, FinishFacts, RelinkFacts, OsErrorFacts, RefuseFacts
<1> USE DEF TypeOK, Labels, Inodes, Contents, Phases, Frame, Goes, Fails, Ends, OsErrorEnds,
            RefuseEnds, UnlinkExact, RollbackFailed, Content
<1>1. Images'
  BY DEF Recheck, Images, Linked, Before, Untouched
<1>2. Before'
  BY DEF Recheck, Images, Before, Untouched
<1>3. After'
  BY DEF Recheck, Images, Linked, Before, Untouched, After, Replaced, Moved
<1>4. Undone'
  BY DEF Recheck, Images, Linked, Before, Untouched, Undone
<1>5. Ended'
  <2> SUFFICES ASSUME pc' = "done" PROVE Ended'
    BY DEF Ended
  <2>1. UNCHANGED <<op, dir, data, unused, world>>
    BY DEF Recheck
  <2>2. Safe'
    BY <2>1, RunningIsSafe, SafeStays DEF Recheck
  <2>. QED BY <2>1, <2>2 DEF Recheck, Ended, Clean, Exact, Before, Untouched
<1>. QED BY <1>1, <1>2, <1>3, <1>4, <1>5

LEMMA RenameStep ==
    ASSUME TypeOK, TypeOK', Holders, Phases, Rename PROVE Phases'
<1> USE ForeignAssumption, OperationsAssumption
<1> USE GotoFacts, HandleFacts, FinishFacts, RelinkFacts, OsErrorFacts, RefuseFacts
<1> USE DEF TypeOK, Labels, Inodes, Contents, Phases, Frame, Goes, Fails, Ends, OsErrorEnds,
            RefuseEnds, UnlinkExact, RollbackFailed, Content
<1>1. Images'
  <2> USE DEF Rename, RenameCreate, RenameReplace, RenameDelete
  <2>1. CASE UNCHANGED dir
    BY <2>1 DEF Images, Linked
  <2>2. CASE op = "create" /\ Relink("prepared", "none")
    <3>1. dir.temp = "prepared"
      BY <2>2 DEF Before
    <3>. QED BY <2>2, <3>1 DEF Images, Linked
  <2>3. CASE op = "replace" /\ Relink(dir.temp, dir.target)
    BY <2>3 DEF Images, Linked, Before, Untouched
  <2>4. CASE op = "delete" /\ Relink("none", dir.target)
    BY <2>4 DEF Images, Linked, Before, Untouched
  <2>. QED BY <2>1, <2>2, <2>3, <2>4
<1>2. Before'
  BY DEF Rename, RenameCreate, RenameReplace, RenameDelete,
     Images, Before, Untouched
<1>3. After'
  BY DEF Rename, RenameCreate, RenameReplace, RenameDelete,
     Images, Linked, Before, Untouched, After, Replaced, Moved
<1>4. Undone'
  BY DEF Rename, RenameCreate, RenameReplace, RenameDelete,
     Images, Linked, Before, Untouched, Undone
<1>5. Ended'
  <2> SUFFICES ASSUME pc' = "done" PROVE Ended'
    BY DEF Ended
  <2>1. UNCHANGED <<op, dir, data, unused, world>>
    BY DEF Rename, RenameCreate, RenameReplace, RenameDelete
  <2>2. Safe'
    BY <2>1, RunningIsSafe, SafeStays DEF Rename, RenameCreate, RenameReplace, RenameDelete
  <2>. QED
    BY <2>1, <2>2 DEF Rename, RenameCreate, RenameReplace, RenameDelete,
       Ended, Clean, Exact, Before, Untouched
<1>. QED BY <1>1, <1>2, <1>3, <1>4, <1>5

LEMMA CheckDisplacedStep ==
    ASSUME TypeOK, TypeOK', Holders, Phases, CheckDisplaced PROVE Phases'
<1> USE ForeignAssumption, OperationsAssumption
<1> USE GotoFacts, HandleFacts, FinishFacts, RelinkFacts, OsErrorFacts, RefuseFacts
<1> USE DEF TypeOK, Labels, Inodes, Contents, Phases, Frame, Goes, Fails, Ends, OsErrorEnds,
            RefuseEnds, UnlinkExact, RollbackFailed, Content
<1>1. Images'
  BY DEF CheckDisplaced, Images, Linked, After, Replaced, Moved
<1>2. Before'
  BY DEF CheckDisplaced, Images, After, Replaced, Moved, Before, Untouched
<1>3. After'
  BY DEF CheckDisplaced, Images, Linked, After, Replaced, Moved
<1>4. Undone'
  BY DEF CheckDisplaced, Images, Linked, After, Replaced, Moved, Undone
<1>5. Ended'
  <2> SUFFICES ASSUME pc' = "done" PROVE Ended'
    BY DEF Ended
  <2>1. UNCHANGED <<op, dir, data, unused, world>>
    BY DEF CheckDisplaced
  <2>2. Safe'
    BY <2>1, RunningIsSafe, SafeStays DEF CheckDisplaced
  <2>. QED BY <2>1, <2>2 DEF CheckDisplaced, Ended, Clean, Exact, After, Replaced, Moved
<1>. QED BY <1>1, <1>2, <1>3, <1>4, <1>5

LEMMA CheckIdentityStep ==
    ASSUME TypeOK, TypeOK', Holders, Phases, CheckIdentity PROVE Phases'
<1> USE ForeignAssumption, OperationsAssumption
<1> USE GotoFacts, HandleFacts, FinishFacts, RelinkFacts, OsErrorFacts, RefuseFacts
<1> USE DEF TypeOK, Labels, Inodes, Contents, Phases, Frame, Goes, Fails, Ends, OsErrorEnds,
            RefuseEnds, UnlinkExact, RollbackFailed, Content
<1>1. Images'
  BY DEF CheckIdentity, Images, Linked, After, Replaced, Moved
<1>2. Before'
  BY DEF CheckIdentity, Images, After, Replaced, Moved, Before, Untouched
<1>3. After'
  BY DEF CheckIdentity, Images, Linked, After, Replaced, Moved
<1>4. Undone'
  BY DEF CheckIdentity, Images, Linked, After, Replaced, Moved, Undone
<1>5. Ended'
  <2> SUFFICES ASSUME pc' = "done" PROVE Ended'
    BY DEF Ended
  <2>1. Safe'
    BY RunningIsSafe, SafeStays DEF CheckIdentity
  <2>2. outcome'.status = "refused" /\ outcome'.changed = TRUE
    BY FinishChanged DEF CheckIdentity, After
  <2>. QED BY <2>1, <2>2 DEF Ended
<1>. QED BY <1>1, <1>2, <1>3, <1>4, <1>5

LEMMA UnlinkStep ==
    ASSUME TypeOK, TypeOK', Holders, Phases, Unlink PROVE Phases'
<1> USE ForeignAssumption, OperationsAssumption
<1> USE GotoFacts, HandleFacts, FinishFacts, RelinkFacts, OsErrorFacts, RefuseFacts
<1> USE DEF TypeOK, Labels, Inodes, Contents, Phases, Frame, Goes, Fails, Ends, OsErrorEnds,
            RefuseEnds, UnlinkExact, RollbackFailed, Content
<1>1. Images'
  BY DEF Unlink, Images, Linked, After, Replaced, Moved
<1>2. Before'
  BY DEF Unlink, Images, After, Replaced, Moved, Before, Untouched
<1>3. After'
  BY DEF Unlink, Images, Linked, After, Replaced, Moved
<1>4. Undone'
  BY DEF Unlink, Images, Linked, After, Replaced, Moved, Undone
<1>5. Ended'
  <2> SUFFICES ASSUME pc' = "done" PROVE Ended'
    BY DEF Ended
  <2>1. UNCHANGED <<op, dir, data, unused, world>>
    BY DEF Unlink
  <2>2. Safe'
    BY <2>1, RunningIsSafe, SafeStays DEF Unlink
  <2>. QED BY <2>1, <2>2 DEF Unlink, Ended, Clean, Exact, After, Replaced, Moved
<1>. QED BY <1>1, <1>2, <1>3, <1>4, <1>5

LEMMA FsyncParentStep ==
    ASSUME TypeOK, TypeOK', Holders, Phases, FsyncParent PROVE Phases'
<1> USE ForeignAssumption, OperationsAssumption
<1> USE GotoFacts, HandleFacts, FinishFacts, RelinkFacts, OsErrorFacts, RefuseFacts
<1> USE DEF TypeOK, Labels, Inodes, Contents, Phases, Frame, Goes, Fails, Ends, OsErrorEnds,
            RefuseEnds, UnlinkExact, RollbackFailed, Content
<1>1. Images'
  BY DEF FsyncParent, Images, Linked, After, Replaced, Moved
<1>2. Before'
  BY DEF FsyncParent, Images, After, Replaced, Moved, Before, Untouched
<1>3. After'
  BY DEF FsyncParent, Images, Linked, After, Replaced, Moved
<1>4. Undone'
  BY DEF FsyncParent, Images, Linked, After, Replaced, Moved, Undone
<1>5. Ended'
  <2> SUFFICES ASSUME pc' = "done" PROVE Ended'
    BY DEF Ended
  <2>1. UNCHANGED <<op, dir, data, unused, world>>
    BY DEF FsyncParent
  <2>2. Safe'
    BY <2>1, RunningIsSafe, SafeStays DEF FsyncParent
  <2>. QED BY <2>1, <2>2 DEF FsyncParent, Ended, Clean, Exact, After, Replaced, Moved
<1>. QED BY <1>1, <1>2, <1>3, <1>4, <1>5

LEMMA VerifyStep ==
    ASSUME TypeOK, TypeOK', Holders, Phases, Verify PROVE Phases'
<1> USE ForeignAssumption, OperationsAssumption
<1> USE GotoFacts, HandleFacts, FinishFacts, RelinkFacts, OsErrorFacts, RefuseFacts
<1> USE DEF TypeOK, Labels, Inodes, Contents, Phases, Frame, Goes, Fails, Ends, OsErrorEnds,
            RefuseEnds, UnlinkExact, RollbackFailed, Content
<1>1. Images'
  BY DEF Verify, Images, Linked, After, Replaced, Moved
<1>2. Before'
  BY DEF Verify, Images, After, Replaced, Moved, Before, Untouched
<1>3. After'
  BY DEF Verify, Images, Linked, After, Replaced, Moved
<1>4. Undone'
  BY DEF Verify, Images, Linked, After, Replaced, Moved, Undone
<1>5. Ended'
  <2> SUFFICES ASSUME pc' = "done" PROVE Ended'
    BY DEF Ended
  <2>1. Safe'
    BY RunningIsSafe, SafeStays DEF Verify
  <2>2. /\ outcome'.status \in {"refused", "committed"} /\ outcome'.changed = TRUE
        /\ UNCHANGED <<op, dir, data, world>>
    BY FinishChanged DEF Verify
  <2>3. outcome'.status = "committed" => Exact
    <3> SUFFICES ASSUME outcome'.status = "committed" PROVE Exact
      OBVIOUS
    <3>1. \A kind, changed : ~ Finish("refused", kind, changed)
      BY FinishFacts
    <3>2. /\ Content("target") = Goal
          /\ op # "delete" => dir.target = "prepared"
      BY <3>1 DEF Verify
    <3>3. /\ dir.temp = "none" /\ Replaced
          /\ Images
      BY DEF Verify, After
    <3>4. Moved = "before"
      BY <3>3 DEF Moved
    <3>5. op = "delete" => dir.target = "none"
      BY <3>2, <3>3 DEF Goal, Images, Linked, Replaced
    <3>6. world \in {IF op = "create" THEN "absent" ELSE "before", Goal}
      BY <3>2, <3>3, <3>4, <3>5 DEF Replaced, Goal
    <3>. QED
      BY <3>2, <3>3, <3>6 DEF Exact
  <2>. QED BY <2>1, <2>2, <2>3 DEF Ended, Exact, Goal
<1>. QED BY <1>1, <1>2, <1>3, <1>4, <1>5

LEMMA RollbackCheckStep ==
    ASSUME TypeOK, TypeOK', Holders, Phases, RollbackCheck PROVE Phases'
<1> USE ForeignAssumption, OperationsAssumption
<1> USE GotoFacts, HandleFacts, FinishFacts, RelinkFacts, OsErrorFacts, RefuseFacts
<1> USE DEF TypeOK, Labels, Inodes, Contents, Phases, Frame, Goes, Fails, Ends, OsErrorEnds,
            RefuseEnds, UnlinkExact, RollbackFailed, Content
<1>1. Images'
  BY DEF RollbackCheck, Images, Linked, After, Replaced, Moved
<1>2. Before'
  BY DEF RollbackCheck, Images, After, Replaced, Moved, Before, Untouched
<1>3. After'
  BY DEF RollbackCheck, Images, Linked, After, Replaced, Moved
<1>4. Undone'
  BY DEF RollbackCheck, Images, Linked, After, Replaced, Moved, Undone
<1>5. Ended'
  <2> SUFFICES ASSUME pc' = "done" PROVE Ended'
    BY DEF Ended
  <2>1. Safe'
    BY RunningIsSafe, SafeStays DEF RollbackCheck
  <2>2. outcome'.status = "refused" /\ outcome'.changed = TRUE
    BY FinishChanged DEF RollbackCheck
  <2>. QED BY <2>1, <2>2 DEF Ended
<1>. QED BY <1>1, <1>2, <1>3, <1>4, <1>5

LEMMA RollbackRenameStep ==
    ASSUME TypeOK, TypeOK', Holders, Phases, RollbackRename PROVE Phases'
<1> USE ForeignAssumption, OperationsAssumption
<1> USE GotoFacts, HandleFacts, FinishFacts, RelinkFacts, OsErrorFacts, RefuseFacts
<1> USE DEF TypeOK, Labels, Inodes, Contents, Phases, Frame, Goes, Fails, Ends, OsErrorEnds,
            RefuseEnds, UnlinkExact, RollbackFailed, Content
<1>1. Images'
  <2>1. CASE UNCHANGED dir
    BY <2>1 DEF RollbackRename, Images, Linked
  <2>2. CASE Relink(dir.temp, dir.target) /\ pc' # "done"
    BY <2>2 DEF RollbackRename, Images, Linked, After
  <2>. QED BY <2>1, <2>2 DEF RollbackRename
<1>2. Before'
  BY DEF RollbackRename, Images, After, Replaced, Moved, Before, Untouched
<1>3. After'
  BY DEF RollbackRename, Images, Linked, After, Replaced, Moved
<1>4. Undone'
  <2> SUFFICES ASSUME pc' = "rollback_verify" PROVE Undone'
    BY DEF Undone
  <2>1. Relink(dir.temp, dir.target) /\ error'.changed = error.changed
    BY DEF RollbackRename
  <2>2. op # "create" /\ dir.temp = "original" /\ dir.target # "original"
    BY DEF RollbackRename, After, Images
  <2>3. CASE op = "replace"
    BY <2>1, <2>2, <2>3 DEF RollbackRename, Undone, After, Replaced, Moved, Images, Linked
  <2>4. CASE op = "delete"
    <3>1. dir.target = "none" /\ UNCHANGED <<op, data, world, opened>> /\ ~ error.changed
      BY <2>4 DEF RollbackRename, After
    <3>2. dir'.target = "original" /\ dir'.temp = "none"
      BY <2>1, <2>2, <3>1
    <3>3. world \in {data["original"], "absent"}
      BY <2>2, <2>4, <3>1 DEF RollbackRename, After, Replaced, Moved
    <3>4. opened = "original"
      BY <2>2 DEF RollbackRename, After
    <3>5. Content("target")' = data["original"]
      BY <3>1, <3>2
    <3>. QED
      BY <2>1, <2>4, <3>1, <3>2, <3>3, <3>4, <3>5 DEF Undone
  <2>. QED BY <2>2, <2>3, <2>4
<1>5. Ended'
  <2> SUFFICES ASSUME pc' = "done" PROVE Ended'
    BY DEF Ended
  <2>1. Safe'
    BY RunningIsSafe, SafeStays DEF RollbackRename
  <2>2. outcome'.status = "refused" /\ outcome'.changed = TRUE
    BY FinishChanged DEF RollbackRename
  <2>. QED BY <2>1, <2>2 DEF Ended
<1>. QED BY <1>1, <1>2, <1>3, <1>4, <1>5

LEMMA RollbackVerifyStep ==
    ASSUME TypeOK, TypeOK', Holders, Phases, RollbackVerify PROVE Phases'
<1> USE ForeignAssumption, OperationsAssumption
<1> USE GotoFacts, HandleFacts, FinishFacts, RelinkFacts, OsErrorFacts, RefuseFacts
<1> USE DEF TypeOK, Labels, Inodes, Contents, Phases, Frame, Goes, Fails, Ends, OsErrorEnds,
            RefuseEnds, UnlinkExact, RollbackFailed, Content
<1>1. Images'
  BY DEF RollbackVerify, Images, Linked, Undone
<1>2. Before'
  BY DEF RollbackVerify, Images, Undone, Before, Untouched
<1>3. pc' \in {"cleanup", "done"}
  BY ONLY RollbackVerify DEF RollbackVerify, RollbackFailed, Goto, Finish
<1>4. After' /\ Undone'
  BY ONLY <1>3 DEF After, Undone
<1>5. Ended'
  <2> SUFFICES ASSUME pc' = "done" PROVE Ended'
    BY DEF Ended
  <2>1. Safe'
    BY RunningIsSafe, SafeStays DEF RollbackVerify
  <2>2. CASE RollbackFailed
    <3>1. outcome'.status = "refused" /\ outcome'.changed = TRUE
      BY <2>2, FinishChanged
    <3>. QED BY <2>1, <3>1 DEF Ended
  <2>3. CASE dir.target = opened /\ op = "delete"
    <3>1. outcome'.status = "refused" /\ UNCHANGED <<op, dir, data, world>>
      BY <2>3 DEF RollbackVerify
    <3>2. Clean
      BY <2>3 DEF RollbackVerify, Clean, Undone, Images, Linked
    <3>. QED BY <2>1, <3>1, <3>2 DEF Ended, Clean
  <2>. QED BY <2>2, <2>3 DEF RollbackVerify, Undone
<1>. QED BY <1>1, <1>2, <1>3, <1>4, <1>5

LEMMA CleanupStep ==
    ASSUME TypeOK, TypeOK', Holders, Phases, Cleanup PROVE Phases'
<1> USE ForeignAssumption, OperationsAssumption
<1> USE GotoFacts, HandleFacts, FinishFacts, RelinkFacts, OsErrorFacts, RefuseFacts
<1> USE DEF TypeOK, Labels, Inodes, Contents, Phases, Frame, Goes, Fails, Ends, OsErrorEnds,
            RefuseEnds, UnlinkExact, RollbackFailed, Content
<1>1. Images'
  <2>1. dir.temp = "prepared" /\ dir.target # "prepared"
    BY DEF Cleanup, Before, Untouched
  <2>2. dir'.target = dir.target /\ dir'.temp \in {"none", "prepared"}
    <3>1. CASE UnlinkExact
      BY <3>1
    <3>2. CASE UNCHANGED dir
      BY <2>1, <3>2
    <3>. QED BY <3>1, <3>2 DEF Cleanup
  <2>. QED BY <2>1, <2>2 DEF Cleanup, Images, Linked
<1>2. Before'
  <2> SUFFICES ASSUME pc' # "done" PROVE Before'
    BY DEF Before
  <2>1. op = "replace" /\ Fails("last_cleanup", TRUE) /\ UNCHANGED <<dir, tempIsOurs>>
    BY DEF Cleanup
  <2>. QED BY <2>1 DEF Cleanup, Before, Untouched
<1>3. pc' \in {"last_cleanup", "done"}
  BY ONLY Cleanup DEF Cleanup, Handle, Finish
<1>4. After' /\ Undone'
  BY ONLY <1>3 DEF After, Undone
<1>5. Ended'
  <2> SUFFICES ASSUME pc' = "done" PROVE Ended'
    BY DEF Ended
  <2>1. /\ Untouched /\ op # "delete" /\ dir.temp = "prepared"
        /\ UNCHANGED <<op, unused, world, data>> /\ outcome'.status = "refused"
    BY DEF Cleanup, Before
  <2>2. CASE UnlinkExact
    <3>1. Safe'
      BY <2>1, <2>2, PrivateIsSafe
    <3>2. Clean'
      BY <2>1, <2>2 DEF Clean, Untouched
    <3>. QED BY <2>1, <3>1, <3>2 DEF Ended
  <2>3. CASE UNCHANGED dir /\ Finish("refused", error.kind, TRUE)
    <3>1. Safe'
      BY <2>1, <2>3, RunningIsSafe, SafeStays DEF Cleanup
    <3>2. outcome'.changed = TRUE
      BY <2>3, FinishChanged
    <3>. QED BY <2>1, <3>1, <3>2 DEF Ended
  <2>. QED BY <2>2, <2>3 DEF Cleanup
<1>. QED BY <1>1, <1>2, <1>3, <1>4, <1>5

LEMMA LastCleanupStep ==
    ASSUME TypeOK, TypeOK', Holders, Phases, LastCleanup PROVE Phases'
<1> USE ForeignAssumption, OperationsAssumption
<1> USE GotoFacts, HandleFacts, FinishFacts, RelinkFacts, OsErrorFacts, RefuseFacts
<1> USE DEF TypeOK, Labels, Inodes, Contents, Phases, Frame, Goes, Fails, Ends, OsErrorEnds,
            RefuseEnds, UnlinkExact, RollbackFailed, Content
<1>1. Images'
  <2>1. dir.temp = "prepared" /\ dir.target # "prepared"
    BY DEF LastCleanup, Before, Untouched
  <2>2. dir'.target = dir.target /\ dir'.temp \in {"none", "prepared"}
    <3>1. CASE UnlinkExact
      BY <3>1
    <3>2. CASE UNCHANGED dir
      BY <2>1, <3>2
    <3>. QED BY <3>1, <3>2 DEF LastCleanup
  <2>. QED BY <2>1, <2>2 DEF LastCleanup, Images, Linked
<1>2. Before'
  BY DEF LastCleanup, Images, Before, Untouched
<1>3. After'
  BY DEF LastCleanup, Images, Linked, Before, Untouched, After, Replaced, Moved
<1>4. Undone'
  BY DEF LastCleanup, Images, Linked, Before, Untouched, Undone
<1>5. Ended'
  <2>1. /\ Untouched /\ op # "delete" /\ dir.temp = "prepared"
        /\ UNCHANGED <<op, unused, world, data>> /\ outcome'.status = "refused"
        /\ error.changed = TRUE
    BY DEF LastCleanup, Before
  <2>2. outcome'.changed = TRUE
    BY <2>1, FinishChanged DEF LastCleanup
  <2>3. Safe'
    <3>1. CASE UnlinkExact
      BY <2>1, <3>1, PrivateIsSafe
    <3>2. CASE UNCHANGED dir
      BY <2>1, <3>2, RunningIsSafe, SafeStays DEF LastCleanup
    <3>. QED BY <3>1, <3>2 DEF LastCleanup
  <2>. QED BY <2>1, <2>2, <2>3 DEF Ended
<1>. QED BY <1>1, <1>2, <1>3, <1>4, <1>5

LEMMA InterruptStep ==
    ASSUME TypeOK, TypeOK', Holders, Phases, Interrupt PROVE Phases'
<1> USE ForeignAssumption, OperationsAssumption
<1> USE GotoFacts, HandleFacts, FinishFacts, RelinkFacts, OsErrorFacts, RefuseFacts
<1> USE DEF TypeOK, Labels, Inodes, Contents, Phases, Frame, Goes, Fails, Ends, OsErrorEnds,
            RefuseEnds, UnlinkExact, RollbackFailed, Content
<1>1. Images'
  <2>1. CASE UNCHANGED <<dir, data>>
    BY <2>1 DEF Interrupt, Images, Linked
  <2>2. CASE UnlinkExact /\ UNCHANGED data
    BY <2>2 DEF Interrupt, Images, Linked
  <2>3. CASE /\ pc = "prepare" /\ Relink(dir.target, "prepared")
             /\ data' = [data EXCEPT !["prepared"] = "partial"]
    <3>1. dir.target # "prepared"
      BY <2>3 DEF Before, Untouched
    <3>2. dir'.target = dir.target /\ dir'.temp = "prepared"
      BY <2>3
    <3>3. pc' = "done" /\ UNCHANGED unused
      BY DEF Interrupt
    <3>. QED BY <2>3, <3>1, <3>2, <3>3 DEF Images, Linked
  <2>. QED BY <2>1, <2>2, <2>3 DEF Interrupt
<1>2. Before'
  BY DEF Interrupt, Images, Before, Untouched, After, Replaced, Moved, Undone
<1>3. After'
  BY DEF Interrupt, Images, Linked, Before, Untouched, After, Replaced, Moved, Undone
<1>4. Undone'
  BY DEF Interrupt, Images, Linked, Before, Untouched, After, Replaced, Moved, Undone
<1>5. Ended'
  <2>1. pc # "done" /\ outcome'.status = "interrupted" /\ UNCHANGED <<op, unused, world>>
    BY DEF Interrupt
  <2>2. CASE UNCHANGED <<dir, data>>
    BY <2>1, <2>2, RunningIsSafe, SafeStays DEF Ended
  <2>3. CASE op = "replace" /\ UnlinkExact /\ UNCHANGED data
    <3>1. Untouched
      BY <2>1, <2>3 DEF Before, After, Undone, Untouched
    <3>. QED BY <2>1, <2>3, <3>1, PrivateIsSafe DEF Ended
  <2>4. CASE /\ pc = "prepare" /\ Relink(dir.target, "prepared")
             /\ data' = [data EXCEPT !["prepared"] = "partial"]
    <3>1. Untouched /\ op # "delete"
      BY <2>4 DEF Before
    <3>. QED BY <2>1, <2>4, <3>1, PrivateIsSafe DEF Ended
  <2>. QED BY <2>2, <2>3, <2>4 DEF Interrupt
<1>. QED BY <1>1, <1>2, <1>3, <1>4, <1>5

LEMMA EditorsStep ==
    ASSUME TypeOK, TypeOK', Holders, Phases, Quiet', Editors PROVE Phases'
<1>1. PICK f \in Foreign : ForeignSave(f) \/ ForeignDelete(f)
  BY DEF Editors, ForeignWrite, Quiet
<1>2. pc # "done" /\ pc' = pc /\ f \in unused /\ unused' = unused \ {f}
      /\ UNCHANGED <<op, opened, exchanged, tempIsOurs, error>>
  BY <1>1 DEF ForeignSave, ForeignDelete, ForeignFrame
<1>3. dir'.temp = dir.temp /\ dir.temp # f /\ dir.target # f
  BY <1>1, <1>2, RelinkFacts DEF ForeignSave, ForeignDelete, Phases, Images, Linked
<1>4. \A i \in Inodes : i # f => data'[i] = data[i]
  BY <1>1 DEF ForeignSave, ForeignDelete, TypeOK
<1>5. \/ dir'.target = f /\ data'[f] = f /\ world' = f
      \/ dir'.target = "none" /\ world' = "absent"
  BY <1>1, RelinkFacts DEF ForeignSave, ForeignDelete, TypeOK, Inodes
<1> USE <1>1, <1>2, <1>3, <1>4, <1>5, ForeignAssumption, OperationsAssumption
<1> USE DEF TypeOK, Inodes, Phases, Content
<1>6. Images'
  <2> USE DEF Images, Linked
  <2>1. data'["original"] = "before" /\ (Linked("prepared")' => data'["prepared"] = "after")
    OBVIOUS
  <2>2. ASSUME NEW g \in Foreign, Linked(g)' PROVE g \notin unused' /\ data'[g] = g
    <3>1. CASE g = f
      BY <2>2, <3>1
    <3>2. CASE g # f
      <4>1. Linked(g)
        BY <2>2, <3>2
      <4>. QED BY <3>2, <4>1
    <3>. QED BY <3>1, <3>2
  <2>3. dir'.target = dir'.temp => dir'.target = "none"
    OBVIOUS
  <2>. QED BY <2>1, <2>2, <2>3
<1>7. Before'
  BY DEF Before, Untouched
<1>8. After'
  BY DEF After, Replaced, Moved
<1>9. Undone'
  BY DEF Undone
<1>10. Ended'
  BY DEF Ended
<1>. QED BY <1>6, <1>7, <1>8, <1>9, <1>10

LEMMA InvStep == MutationInv /\ [Next]_vars => MutationInv'
<1> SUFFICES ASSUME MutationInv, [Next]_vars PROVE MutationInv'
  OBVIOUS
<1>1. TypeOK /\ Origins /\ TypeOK' /\ Origins' /\ Holders
  BY TypeStep, OriginsStep DEF MutationInv, Origins
<1>2. ASSUME Quiet' PROVE Phases'
  <2>1. unused' \subseteq unused
    BY DEF Next, Call, Editors, ForeignSave, ForeignWrite, ForeignDelete, Frame, Open, Prepare,
       Recheck, Rename, CheckDisplaced, CheckIdentity, Unlink, FsyncParent, Verify,
       RollbackCheck, RollbackRename, RollbackVerify, Cleanup, LastCleanup, Interrupt, Done, vars
  <2>2. Phases
    BY <1>2, <2>1 DEF Quiet, MutationInv
  <2>3. CASE Call
    BY <1>1, <2>2, <2>3, OpenStep, PrepareStep, RecheckStep, RenameStep, CheckDisplacedStep,
       CheckIdentityStep, UnlinkStep, FsyncParentStep, VerifyStep, RollbackCheckStep,
       RollbackRenameStep, RollbackVerifyStep, CleanupStep, LastCleanupStep, InterruptStep
       DEF Call
  <2>4. CASE Editors
    BY <1>1, <1>2, <2>2, <2>4, EditorsStep
  <2>5. CASE UNCHANGED vars
    BY <2>2, <2>5 DEF vars, Phases, Images, Linked, Before, Untouched, After, Replaced, Moved,
       Undone, Ended, Safe, Result, Content, Goal, Clean, Exact, Contract!NothingLost,
       Contract!Leftovers
  <2>. QED BY <2>3, <2>4, <2>5 DEF Next, Done
<1>. QED BY <1>1, <1>2 DEF MutationInv

\* The invariant of the call: where the file, its before image and the prepared
\* file are at each step, as long as nobody writes into the file in place.
THEOREM MutationInvariance == Spec => []MutationInv
  BY InitHolds, InvStep, PTL DEF Spec

\* However many versions of the file other programs save meanwhile, whichever
\* call of the operating system fails and wherever an interrupt comes,
\* mutate_rooted_regular ends as MutationContract says.
THEOREM ContractKept == Spec => []KeepsContract
<1>1. MutationInv => KeepsContract
  BY EndedIsKept DEF MutationInv, Quiet, Phases, KeepsContract
<1>. QED BY <1>1, MutationInvariance, PTL

LEMMA SafeIsKept == TypeOK /\ Safe => BeforeImageKept
  BY ForeignAssumption DEF Safe, Result, BeforeImageKept, Reachable, Names, Content, Goal,
     Contract!NothingLost

\* A saved version is in the inode of that name and nowhere else.
LEMMA ReachableIsLinked ==
    ASSUME TypeOK, Holders, NEW f \in Foreign \ InPlace
    PROVE  Reachable(f) <=> Linked(f) /\ data[f] = f
  BY ForeignAssumption DEF TypeOK, Holders, Reachable, Linked, Content, Names, Inodes

LEMMA CallKeepsLinks ==
    ASSUME TypeOK, Temporary, Call, NEW f \in Foreign, Linked(f) PROVE Linked(f)'
<1> USE RelinkFacts, ForeignAssumption DEF TypeOK, Linked, Temporary, Inodes
<1>1. CASE UNCHANGED dir
  BY <1>1
<1>2. CASE Prepare
  BY <1>2 DEF Prepare
<1>3. CASE Rename
  BY <1>3 DEF Rename, RenameCreate, RenameReplace, RenameDelete
<1>4. CASE Unlink
  BY <1>4 DEF Unlink
<1>5. CASE RollbackRename
  BY <1>5 DEF RollbackRename
<1>6. CASE Cleanup \/ LastCleanup \/ Interrupt
  BY <1>6 DEF Cleanup, LastCleanup, Interrupt, UnlinkExact
<1>. QED
  BY <1>1, <1>2, <1>3, <1>4, <1>5, <1>6 DEF Call, Open, Recheck, CheckDisplaced,
     CheckIdentity, FsyncParent, Verify, RollbackCheck, RollbackVerify

LEMMA CallKeepsSaved ==
    ASSUME TypeOK, Call, NEW f \in Foreign PROVE data'[f] = data[f]
  BY ForeignAssumption DEF TypeOK, Inodes, Call, Open, Prepare, Recheck, Rename,
     CheckDisplaced, CheckIdentity, Unlink, FsyncParent, Verify, RollbackCheck,
     RollbackRename, RollbackVerify, Cleanup, LastCleanup, Interrupt

\* No step of the call destroys the before image or a version that another
\* program saved, wherever the call fails or is interrupted.
THEOREM NoVersionLost == Spec => VersionsKept
<1>1. MutationInv => BeforeImageKept
  <2> SUFFICES ASSUME MutationInv, world = "before" PROVE BeforeImageKept
    BY DEF BeforeImageKept
  <2>1. TypeOK /\ Phases
    BY OperationsAssumption DEF MutationInv, Origins, Quiet
  <2>2. Safe
    BY <2>1, RunningIsSafe DEF Phases, Ended
  <2>. QED BY <2>1, <2>2, SafeIsKept
<1>2. ASSUME MutationInv, MutationInv', Call
      PROVE  \A f \in Foreign \ InPlace : Reachable(f) => Reachable(f)'
  <2> TAKE f \in Foreign \ InPlace
  <2>1. TypeOK /\ Holders /\ Temporary /\ TypeOK' /\ Holders'
    BY <1>2 DEF MutationInv, Origins
  <2>2. Reachable(f) => Linked(f) /\ data[f] = f
    BY <2>1, ReachableIsLinked
  <2>3. Linked(f)' /\ data'[f] = f => Reachable(f)'
    BY ForeignAssumption DEF Linked, Reachable, Content, Names
  <2>. QED BY <1>2, <2>1, <2>2, <2>3, CallKeepsLinks, CallKeepsSaved
<1>3. MutationInv /\ MutationInv' /\ [Next]_vars
      => [Call => \A f \in Foreign \ InPlace : Reachable(f) => Reachable(f)']_vars
  BY <1>2
<1>. QED BY <1>1, <1>3, MutationInvariance, PTL DEF Spec, VersionsKept

-----------------------------------------------------------------------------
(* A batch of existing files.                                              *)

Committing == {"read", "write", "verify"}
Undoing    == {"undo_read", "undo_write"}

\* Where the loops are: which variables each phase has not used yet.
PhaseInv ==
    /\ step # "done" => status = "none"
    /\ step \in {"preflight", "scan"} \cup Committing => cursor \in File
    /\ step \in {"preflight"} \cup Committing \cup Undoing => paths = {}
    /\ step \in {"preflight", "scan"} \cup Committing => undo = {}
    /\ step = "preflight" => committed = {}
    /\ step \in {"preflight", "read"} => attempted = 0
    /\ step \in {"write", "verify"} => attempted = cursor /\ cursor \notin Noop

\* Before and during the commit loop every file no editor touched holds the
\* image the loop believes it holds.
CommitInv ==
    /\ step = "preflight" =>
           \A i \in File : content[i] \in {"before"} \cup Others
    /\ step = "preflight" =>
           \A i \in 1..(cursor - 1) : i \notin dirty => content[i] = "before"
    /\ step \in Committing =>
           /\ \A i \in 1..(cursor - 1) : i \in committed \cup Noop
           /\ \A i \in committed : i < cursor
           /\ \A i \in File \ dirty :
                  content[i] = IF \/ i \in committed
                                  \/ step = "verify" /\ i = cursor
                               THEN "after" ELSE "before"

\* During compensation every unharmed file is back, or still to be visited; the
\* file about to be restored holds the after image unless an editor wrote it.
UndoInv ==
    /\ step \in Undoing =>
           \A i \in File \ harmed :
               content[i] \in {"before", "after"} /\
               (i \notin undo => content[i] = "before")
    /\ step = "undo_write" =>
           \A j \in File \ dirty : IsNextUndo(j) => content[j] = "after"
    /\ step = "scan" => \A i \in File \ harmed : content[i] = "before"
    /\ step = "scan" =>
           \A i \in 1..(cursor - 1) :
               i \notin dirty \cup paths => content[i] = "before"

Inv == BatchTypeOK /\ PhaseInv /\ CommitInv /\ UndoInv
           /\ TruthfulResult /\ ResidueExplained

-----------------------------------------------------------------------------
LEMMA InitInv == BatchInit => Inv
  BY BatchAssumption
  DEF BatchInit, Inv, BatchTypeOK, PhaseInv, CommitInv, UndoInv, TruthfulResult,
      ResidueExplained, File, FileContents, Committing, Undoing

\* Every way out of the commit loop into compensation: nothing written, or the
\* file under the cursor torn by a write that failed.
LEMMA CompensateStep ==
  ASSUME Inv, step \in Committing, Compensate, unwritten' = unwritten,
         \/ Saw(cursor) \/ Failed(cursor)
         \/ UNCHANGED <<dirty, harmed>>
         \/ dirty' = dirty /\ harmed' = harmed \cup {cursor},
         \/ content' = content
         \/ /\ content' = [content EXCEPT ![cursor] = "torn"]
            /\ cursor \in harmed'
  PROVE  Inv'
<1>1. /\ step' = "undo_read" /\ paths' = {} /\ status' = "none"
      /\ cursor \in File /\ attempted \in {0, cursor}
      /\ step # "read" => attempted = cursor
  BY DEF Inv, PhaseInv, Compensate, Committing
<1>2. undo' = committed \cup (IF attempted = 0 THEN {} ELSE {attempted})
  BY DEF Compensate
<1>3. /\ harmed \subseteq harmed' /\ harmed' \subseteq File
      /\ dirty' \subseteq harmed'
      /\ dirty \subseteq harmed
  BY <1>1 DEF Inv, BatchTypeOK, Saw, Failed
<1>4. undo' \subseteq File
  BY <1>2 DEF Inv, BatchTypeOK
<1>5. content' \in [File -> FileContents]
  BY DEF Inv, BatchTypeOK, FileContents
<1>6. BatchTypeOK'
  BY <1>1, <1>3, <1>4, <1>5 DEF Inv, BatchTypeOK, Compensate
<1>7. \A i \in File \ harmed' :
          /\ content'[i] \in {"before", "after"}
          /\ i \notin undo' => content'[i] = "before"
  <2> SUFFICES ASSUME NEW i \in File \ harmed'
               PROVE  /\ content'[i] \in {"before", "after"}
                      /\ i \notin undo' => content'[i] = "before"
    OBVIOUS
  <2>1. content'[i] = content[i]
    BY <1>1 DEF Inv, BatchTypeOK
  <2>2. content[i] = IF i \in committed \/ (step = "verify" /\ i = cursor)
                     THEN "after" ELSE "before"
    BY <1>3 DEF Inv, CommitInv
  <2>3. i \notin undo' => ~ (i \in committed \/ (step = "verify" /\ i = cursor))
    BY <1>1, <1>2 DEF File
  <2>. QED BY <2>1, <2>2, <2>3
<1>8. PhaseInv' /\ CommitInv'
  BY <1>1 DEF PhaseInv, CommitInv, Committing, Undoing
<1>9. UndoInv'
  BY <1>1, <1>7 DEF UndoInv, Undoing
<1>10. TruthfulResult' /\ ResidueExplained'
  BY <1>1 DEF TruthfulResult, ResidueExplained
<1>. QED BY <1>6, <1>8, <1>9, <1>10 DEF Inv

LEMMA PreflightStep == Inv /\ Preflight => Inv'
<1> SUFFICES ASSUME Inv, Preflight PROVE Inv'
  OBVIOUS
<1>1. /\ step = "preflight" /\ status = "none" /\ cursor \in 1..N
      /\ committed = {} /\ paths = {} /\ undo = {} /\ attempted = 0
      /\ UNCHANGED <<content, committed, attempted, undo, paths, unwritten>>
  BY DEF Preflight, Inv, PhaseInv, File, Committing, Undoing
<1>2. dirty' \subseteq File /\ harmed' \subseteq File /\ dirty' \subseteq harmed'
  BY <1>1 DEF Preflight, Saw, Failed, Inv, BatchTypeOK, File
<1>3. CASE step' = "done"
  <2>1. status' = "stale" /\ cursor' = cursor
    BY <1>1, <1>3 DEF Preflight, Return
  <2>. QED
    BY <1>1, <1>2, <1>3, <2>1
    DEF Inv, BatchTypeOK, PhaseInv, CommitInv, UndoInv, TruthfulResult,
        ResidueExplained, File, Committing, Undoing
<1>4. CASE step' # "done"
  <2>1. /\ content[cursor] = "before" /\ dirty' = dirty \ {cursor}
        /\ status' = "none"
        /\ IF cursor = N THEN cursor' = 1 /\ step' = "read"
                         ELSE cursor' = cursor + 1 /\ step' = "preflight"
    BY <1>1, <1>4 DEF Preflight, Return, Saw
  <2>2. cursor' \in 1..N /\ step' \in {"preflight", "read"}
    BY <1>1, <2>1, BatchAssumption
  <2>3. BatchTypeOK'
    BY <1>1, <1>2, <2>1, <2>2, BatchAssumption DEF Inv, BatchTypeOK, File
  <2>7. PhaseInv'
    <3>1. cursor' \in File /\ status' = "none"
      BY <2>1, <2>2 DEF File
    <3>2. paths' = {} /\ undo' = {} /\ committed' = {} /\ attempted' = 0
      BY <1>1
    <3>. QED BY <2>2, <3>1, <3>2 DEF PhaseInv
  <2>4. \A i \in 1..cursor : i \notin dirty' => content[i] = "before"
    BY <1>1, <2>1 DEF Inv, CommitInv
  <2>8. \A i \in File : content[i] \in {"before"} \cup Others
    BY <1>1 DEF Inv, CommitInv
  <2>5. CommitInv'
    <3>1. CASE cursor = N
      <4>1. cursor' = 1 /\ step' = "read" /\ UNCHANGED <<content, committed>>
        BY <1>1, <2>1, <3>1
      <4>2. \A i \in File \ dirty' : content[i] = "before"
        BY <2>4, <3>1 DEF File
      <4>3. \A i \in 1..(cursor' - 1) : FALSE
        BY <4>1
      <4>. QED BY <1>1, <4>1, <4>2, <4>3 DEF CommitInv, Committing
    <3>2. CASE cursor # N
      <4>1. cursor' - 1 = cursor /\ step' = "preflight"
        BY <1>1, <2>1, <3>2
      <4>. QED BY <1>1, <2>4, <2>8, <4>1 DEF CommitInv, Committing
    <3>. QED BY <3>1, <3>2
  <2>6. UndoInv' /\ TruthfulResult' /\ ResidueExplained'
    BY <1>1, <2>1, <2>2 DEF UndoInv, TruthfulResult, ResidueExplained, Undoing
  <2>. QED BY <2>3, <2>5, <2>6, <2>7 DEF Inv
<1>. QED BY <1>3, <1>4

\* The commit loop moving past a change that is a no-op or now verified.
LEMMA AdvanceStep ==
  ASSUME Inv, step \in Committing, Advance,
         UNCHANGED <<content, undo, paths, unwritten, harmed>>,
         dirty' \subseteq dirty, attempted' = 0,
         committed' \subseteq File \ Noop, committed \subseteq committed',
         \A i \in committed' : i <= cursor,
         cursor \in committed' \cup Noop,
         \A i \in File \ dirty' :
             content[i] = IF i \in committed' THEN "after" ELSE "before"
  PROVE  Inv'
<1>1. cursor \in 1..N /\ status = "none" /\ paths = {} /\ undo = {}
  BY DEF Inv, PhaseInv, File, Committing
<1>2. dirty' \subseteq File /\ dirty' \subseteq harmed'
  BY DEF Inv, BatchTypeOK
<1>3. /\ cursor' = cursor + 1
      /\ IF cursor = N THEN step' = "done" /\ status' = "committed"
                       ELSE step' = "read" /\ status' = status
  BY DEF Advance, Return
<1>4. BatchTypeOK'
  BY <1>1, <1>2, <1>3, BatchAssumption DEF Inv, BatchTypeOK, File
<1>5. PhaseInv'
  BY <1>1, <1>3, BatchAssumption DEF PhaseInv, File, Committing, Undoing
<1>6. \A i \in 1..cursor : i \in committed' \cup Noop
  BY <1>1 DEF Inv, CommitInv
<1>7. CommitInv'
  BY <1>1, <1>3, <1>6, BatchAssumption DEF CommitInv, Committing, File
<1>8. UndoInv' /\ ResidueExplained'
  BY <1>1, <1>3 DEF UndoInv, ResidueExplained, Undoing
<1>9. TruthfulResult'
  <2>1. ASSUME cursor = N, NEW i \in File \ dirty'
        PROVE  content'[i] = Target(i)
    BY <1>1, <1>6, <2>1 DEF Target, File
  <2>. QED BY <1>1, <1>3, <2>1 DEF TruthfulResult
<1>. QED BY <1>4, <1>5, <1>7, <1>8, <1>9 DEF Inv

LEMMA CommitLoopStep ==
  Inv /\ (SkipNoop \/ ReadBefore \/ Write \/ VerifyAfter \/ CtrlC) => Inv'
<1> SUFFICES ASSUME Inv,
                    SkipNoop \/ ReadBefore \/ Write \/ VerifyAfter \/ CtrlC
             PROVE  Inv'
  OBVIOUS
<1>1. /\ step \in Committing /\ cursor \in 1..N /\ cursor \in File
      /\ status = "none" /\ paths = {} /\ undo = {}
  BY DEF SkipNoop, ReadBefore, Write, VerifyAfter, CtrlC, Inv, PhaseInv,
         Committing, File
<1>2. /\ committed \subseteq File \ Noop /\ dirty \subseteq harmed
      /\ harmed \subseteq File /\ content \in [File -> FileContents]
      /\ \A i \in committed : i < cursor
  BY <1>1 DEF Inv, BatchTypeOK, CommitInv
<1>3. \A i \in File \ dirty :
          content[i] = IF i \in committed \/ (step = "verify" /\ i = cursor)
                       THEN "after" ELSE "before"
  BY <1>1 DEF Inv, CommitInv
<1>4. CASE SkipNoop
  <2>1. attempted' = 0 /\ step = "read" /\ UNCHANGED committed
    BY <1>4 DEF SkipNoop, Inv, PhaseInv
  <2>2. \A i \in committed' : i <= cursor
    BY <1>1, <1>2, <2>1 DEF File
  <2>3. \A i \in File \ dirty' :
            content[i] = IF i \in committed' THEN "after" ELSE "before"
    BY <1>3, <1>4, <2>1 DEF SkipNoop
  <2>. QED BY <1>1, <1>2, <1>4, <2>1, <2>2, <2>3, AdvanceStep DEF SkipNoop
<1>5. CASE ReadBefore
  <2>1. CASE Compensate
    BY <1>1, <1>5, <2>1, CompensateStep DEF ReadBefore
  <2>2. CASE ~ Compensate
    <3>1. /\ step = "read" /\ step' = "write" /\ attempted' = cursor
          /\ cursor \notin Noop /\ content[cursor] = "before"
          /\ dirty' = dirty \ {cursor} /\ harmed' = harmed
          /\ UNCHANGED <<content, unwritten, cursor, committed, undo, paths, status>>
      BY <1>5, <2>2 DEF ReadBefore, Saw
    <3>2. BatchTypeOK'
      BY <1>1, <1>2, <3>1 DEF Inv, BatchTypeOK
    <3>3. PhaseInv' /\ UndoInv' /\ TruthfulResult' /\ ResidueExplained'
      BY <1>1, <3>1 DEF PhaseInv, UndoInv, TruthfulResult, ResidueExplained,
                        Committing, Undoing
    <3>4. CommitInv'
      BY <1>1, <1>2, <1>3, <3>1 DEF Inv, CommitInv, Committing, File
    <3>. QED BY <3>2, <3>3, <3>4 DEF Inv
  <2>. QED BY <2>1, <2>2
<1>6. CASE Write
  <2>1. CASE Compensate
    <3>1. \/ content' = content
          \/ /\ content' = [content EXCEPT ![cursor] = "torn"]
             /\ cursor \in harmed'
      BY <1>6, <2>1 DEF Write, Compensate, Failed
    <3>2. Failed(cursor) /\ unwritten' = unwritten
      BY <1>6, <2>1 DEF Write, Compensate
    <3>. QED BY <1>1, <2>1, <3>1, <3>2, CompensateStep
  <2>2. CASE ~ Compensate
    <3>1. /\ step = "write" /\ step' = "verify"
          /\ content' = [content EXCEPT ![cursor] = "after"]
          /\ UNCHANGED <<cursor, committed, attempted, undo, paths, status,
                         unwritten, dirty, harmed>>
      BY <1>6, <2>2 DEF Write
    <3>2. content' \in [File -> FileContents]
      BY <1>2, <3>1 DEF FileContents
    <3>3. BatchTypeOK'
      BY <3>1, <3>2 DEF Inv, BatchTypeOK
    <3>4. PhaseInv' /\ UndoInv' /\ TruthfulResult' /\ ResidueExplained'
      BY <1>1, <3>1 DEF Inv, PhaseInv, UndoInv, TruthfulResult,
                        ResidueExplained, Committing, Undoing
    <3>5. \A i \in File \ dirty' :
              content'[i] = IF i \in committed \/ i = cursor
                            THEN "after" ELSE "before"
      BY <1>1, <1>2, <1>3, <3>1
    <3>6. CommitInv'
      BY <1>1, <3>1, <3>5 DEF Inv, CommitInv, Committing
    <3>. QED BY <3>3, <3>4, <3>6 DEF Inv
  <2>. QED BY <2>1, <2>2
<1>7. CASE VerifyAfter
  <2>1. CASE Compensate
    BY <1>1, <1>7, <2>1, CompensateStep DEF VerifyAfter, Compensate
  <2>2. CASE ~ Compensate
    <3>1. /\ step = "verify" /\ content[cursor] = "after"
          /\ dirty' = dirty \ {cursor} /\ harmed' = harmed
          /\ committed' = committed \cup {cursor} /\ attempted' = 0
          /\ Advance /\ UNCHANGED <<content, undo, paths, unwritten>>
      BY <1>7, <2>2 DEF VerifyAfter, Saw
    <3>2. cursor \notin Noop
      BY <3>1 DEF Inv, PhaseInv
    <3>3. \A i \in File \ dirty' :
              content[i] = IF i \in committed' THEN "after" ELSE "before"
      BY <1>3, <3>1
    <3>4. \A i \in committed' : i <= cursor
      BY <1>1, <1>2, <3>1 DEF File
    <3>. QED BY <1>1, <1>2, <3>1, <3>2, <3>3, <3>4, AdvanceStep
  <2>. QED BY <2>1, <2>2
<1>8. CASE CtrlC
  BY <1>1, <1>8, CompensateStep DEF CtrlC
<1>. QED BY <1>4, <1>5, <1>6, <1>7, <1>8

LEMMA UndoReadStep ==
  ASSUME Inv, NEW j \in File, UndoRead(j)
  PROVE  Inv'
<1>1. /\ step = "undo_read" /\ status = "none" /\ paths = {} /\ IsNextUndo(j)
      /\ UNCHANGED <<content, cursor, committed, attempted, paths, status, unwritten>>
  BY DEF UndoRead, Inv, PhaseInv, Undoing
<1>2. /\ step' \in Undoing /\ undo' \subseteq undo
      /\ dirty' \subseteq dirty /\ harmed \subseteq harmed'
      /\ harmed' \subseteq File /\ undo' \subseteq File
      /\ dirty' \subseteq harmed'
  BY <1>1 DEF UndoRead, Saw, Failed, Undoing, Inv, BatchTypeOK
<1>3. BatchTypeOK'
  BY <1>1, <1>2 DEF Inv, BatchTypeOK, Undoing
<1>4. PhaseInv' /\ CommitInv' /\ TruthfulResult' /\ ResidueExplained'
  BY <1>1, <1>2 DEF PhaseInv, CommitInv, TruthfulResult, ResidueExplained,
                    Committing, Undoing
<1>5. \A i \in File \ harmed' :
          /\ content[i] \in {"before", "after"}
          /\ i \notin undo' => content[i] = "before"
  <2>1. \A i \in File \ harmed :
            /\ content[i] \in {"before", "after"}
            /\ i \notin undo => content[i] = "before"
    BY <1>1 DEF Inv, UndoInv, Undoing
  <2>2. undo' = undo \/ (undo' = undo \ {j} /\ (content[j] # "after" \/ j \in harmed'))
    BY DEF UndoRead, Failed
  <2>. QED BY <1>2, <2>1, <2>2
<1>6. step' = "undo_write" =>
          \A k \in File \ dirty' : IsNextUndo(k)' => content[k] = "after"
  <2> SUFFICES ASSUME step' = "undo_write", NEW k \in File, IsNextUndo(k)'
               PROVE  content[k] = "after"
    OBVIOUS
  <2>1. undo' = undo /\ content[j] = "after"
    BY <1>1 DEF UndoRead
  <2>2. k <= j /\ j <= k
    BY <1>1, <2>1 DEF IsNextUndo
  <2>3. k = j
    BY <2>2, BatchAssumption DEF File
  <2>. QED BY <2>1, <2>3
<1>7. UndoInv'
  BY <1>1, <1>2, <1>5, <1>6 DEF UndoInv, Undoing
<1>. QED BY <1>3, <1>4, <1>7 DEF Inv

LEMMA UndoWriteStep ==
  ASSUME Inv, NEW j \in File, UndoWrite(j)
  PROVE  Inv'
<1>1. /\ step = "undo_write" /\ step' = "undo_read" /\ status = "none" /\ paths = {}
      /\ undo' = undo \ {j}
      /\ UNCHANGED <<cursor, committed, attempted, paths, status, unwritten>>
  BY DEF UndoWrite, Inv, PhaseInv, Undoing
<1>2. /\ harmed \subseteq harmed' /\ harmed' \subseteq File
      /\ dirty' = dirty /\ dirty \subseteq harmed
  BY DEF UndoWrite, Failed, Inv, BatchTypeOK
<1>3. content' \in [File -> FileContents]
  BY DEF UndoWrite, Inv, BatchTypeOK, FileContents
<1>4. BatchTypeOK'
  BY <1>1, <1>2, <1>3 DEF Inv, BatchTypeOK
<1>5. PhaseInv' /\ CommitInv' /\ TruthfulResult' /\ ResidueExplained'
  BY <1>1 DEF PhaseInv, CommitInv, TruthfulResult, ResidueExplained,
              Committing, Undoing
<1>6. \A i \in File \ harmed' :
          /\ content'[i] \in {"before", "after"}
          /\ i \notin undo' => content'[i] = "before"
  <2> SUFFICES ASSUME NEW i \in File \ harmed'
               PROVE  /\ content'[i] \in {"before", "after"}
                      /\ i \notin undo' => content'[i] = "before"
    OBVIOUS
  <2>1. /\ content[i] \in {"before", "after"}
        /\ i \notin undo => content[i] = "before"
    BY <1>1, <1>2 DEF Inv, UndoInv, Undoing
  <2>2. i = j => content'[i] = "before"
    BY DEF UndoWrite, Failed, Inv, BatchTypeOK
  <2>3. i # j => content'[i] = content[i]
    BY DEF UndoWrite, Inv, BatchTypeOK
  <2>. QED BY <1>1, <2>1, <2>2, <2>3
<1>7. UndoInv'
  BY <1>1, <1>6 DEF UndoInv, Undoing
<1>. QED BY <1>4, <1>5, <1>7 DEF Inv

LEMMA ScanStep == Inv /\ (StartScan \/ Scan) => Inv'
<1> SUFFICES ASSUME Inv, StartScan \/ Scan PROVE Inv'
  OBVIOUS
<1>1. CASE StartScan
  <2>1. /\ step = "undo_read" /\ undo = {} /\ step' = "scan" /\ cursor' = 1
        /\ paths = {} /\ status = "none"
        /\ UNCHANGED <<content, committed, attempted, undo, paths, status,
                       unwritten, dirty, harmed>>
    BY <1>1 DEF StartScan, Inv, PhaseInv, Undoing
  <2>2. 1 \in File
    BY BatchAssumption DEF File
  <2>3. BatchTypeOK'
    BY <2>1, BatchAssumption DEF Inv, BatchTypeOK
  <2>4. PhaseInv' /\ CommitInv' /\ TruthfulResult' /\ ResidueExplained'
    BY <2>1, <2>2 DEF PhaseInv, CommitInv, TruthfulResult, ResidueExplained,
                      Committing, Undoing
  <2>5. \A i \in File \ harmed : content[i] = "before"
    BY <2>1 DEF Inv, UndoInv, Undoing
  <2>6. \A i \in 1..0 : FALSE
    OBVIOUS
  <2>7. UndoInv'
    BY <2>1, <2>5, <2>6 DEF UndoInv, Undoing
  <2>. QED BY <2>3, <2>4, <2>7 DEF Inv
<1>2. CASE Scan
  <2>1. /\ step = "scan" /\ status = "none" /\ undo = {} /\ cursor \in 1..N
        /\ cursor' = cursor + 1
        /\ UNCHANGED <<content, committed, attempted, undo, unwritten>>
    BY <1>2 DEF Scan, Inv, PhaseInv, File
  <2>2. /\ paths \subseteq harmed /\ paths \subseteq File
        /\ \A i \in File \ harmed : content[i] = "before"
        /\ \A i \in 1..(cursor - 1) :
               i \notin dirty \cup paths => content[i] = "before"
    BY <2>1 DEF Inv, BatchTypeOK, UndoInv, ResidueExplained
  <2>3. /\ paths \subseteq paths' /\ paths' \subseteq File
        /\ paths' \subseteq harmed'
        /\ dirty' \subseteq dirty /\ harmed \subseteq harmed'
        /\ harmed' \subseteq File /\ dirty' \subseteq harmed'
    BY <1>2, <2>1, <2>2 DEF Scan, Saw, Failed, Inv, BatchTypeOK, File
  <2>4. \A i \in 1..cursor : i \notin dirty' \cup paths' => content[i] = "before"
    <3>1. content[cursor] = "before" \/ cursor \in paths'
      BY <1>2 DEF Scan
    <3>2. dirty' = dirty \/ dirty' = dirty \ {cursor}
      BY <1>2 DEF Scan, Saw, Failed
    <3>. QED BY <2>1, <2>2, <2>3, <3>1, <3>2
  <2>5. IF cursor = N
           THEN /\ step' = "done"
                /\ status' = IF paths' = {} THEN "rolled_back"
                                            ELSE "rollback_failed"
           ELSE step' = "scan" /\ status' = "none"
    BY <1>2, <2>1 DEF Scan, Return
  <2>6. BatchTypeOK'
    BY <2>1, <2>3, <2>5, BatchAssumption DEF Inv, BatchTypeOK
  <2>7. PhaseInv' /\ CommitInv'
    BY <2>1, <2>5, BatchAssumption
    DEF PhaseInv, CommitInv, Committing, Undoing, File
  <2>8. UndoInv'
    BY <2>1, <2>2, <2>3, <2>4, <2>5 DEF UndoInv, Undoing
  <2>9. TruthfulResult'
    <3>1. CASE cursor = N
      BY <2>1, <2>4, <2>5, <3>1 DEF TruthfulResult, File
    <3>2. CASE cursor # N
      BY <2>5, <3>2 DEF TruthfulResult
    <3>. QED BY <3>1, <3>2
  <2>10. ResidueExplained'
    BY <2>3 DEF ResidueExplained
  <2>. QED BY <2>6, <2>7, <2>8, <2>9, <2>10 DEF Inv
<1>. QED BY <1>1, <1>2

LEMMA AbandonStep == Inv /\ Abandon => Inv'
  BY DEF Abandon, Return, Inv, BatchTypeOK, PhaseInv, CommitInv, UndoInv,
         TruthfulResult, ResidueExplained, Committing, Undoing

LEMMA EditStep ==
  ASSUME Inv, NEW i \in File, NEW f \in Others, Edit(i, f)
  PROVE  Inv'
<1>1. /\ step # "done" /\ status = "none"
      /\ content' = [content EXCEPT ![i] = f]
      /\ dirty' = dirty \cup {i} /\ harmed' = harmed \cup {i}
      /\ unwritten' \subseteq unwritten
      /\ UNCHANGED <<step, cursor, committed, attempted, undo, paths, status>>
  BY DEF Edit, Inv, PhaseInv
<1>2. content' \in [File -> FileContents]
  BY <1>1 DEF Inv, BatchTypeOK, FileContents
<1>3. BatchTypeOK'
  BY <1>1, <1>2 DEF Inv, BatchTypeOK
<1>4. PhaseInv' /\ TruthfulResult' /\ ResidueExplained'
  BY <1>1 DEF Inv, PhaseInv, TruthfulResult, ResidueExplained
<1>5. \A k \in File : content'[k] = IF k = i THEN f ELSE content[k]
  BY <1>1 DEF Inv, BatchTypeOK
<1>6. CommitInv'
  <2>1. \A k \in File : k \notin dirty' => k \notin dirty /\ content'[k] = content[k]
    BY <1>1, <1>5
  <2>2. step = "preflight" => \A k \in File : content'[k] \in {"before"} \cup Others
    BY <1>1, <1>5 DEF Inv, CommitInv
  <2>3. step = "preflight" =>
            \A k \in 1..(cursor - 1) : k \notin dirty' => content'[k] = "before"
    BY <1>1, <2>1, BatchAssumption DEF Inv, CommitInv, PhaseInv, File
  <2>4. step \in Committing =>
            \A k \in File \ dirty' :
                content'[k] = IF k \in committed \/ (step = "verify" /\ k = cursor)
                              THEN "after" ELSE "before"
    BY <2>1 DEF Inv, CommitInv
  <2>. QED BY <1>1, <2>2, <2>3, <2>4 DEF Inv, CommitInv
<1>7. UndoInv'
  <2>1. \A k \in File \ harmed' : k \notin harmed /\ content'[k] = content[k]
    BY <1>1, <1>5
  <2>2. \A k \in File \ dirty' : k \notin dirty /\ content'[k] = content[k]
    BY <1>1, <1>5
  <2>3. \A k \in File : IsNextUndo(k)' = IsNextUndo(k)
    BY <1>1 DEF IsNextUndo
  <2>4. step = "scan" => cursor \in File
    BY DEF Inv, PhaseInv
  <2>5. step = "scan" =>
            \A k \in 1..(cursor - 1) :
                k \notin dirty' \cup paths => content'[k] = "before"
    BY <2>2, <2>4, BatchAssumption DEF Inv, UndoInv, File
  <2>. QED BY <1>1, <2>1, <2>2, <2>3, <2>5 DEF Inv, UndoInv
<1>. QED BY <1>3, <1>4, <1>6, <1>7 DEF Inv

\* Inv is inductive: no step of the batch, of an editor or of nobody leaves it.
LEMMA StepInv == Inv /\ [BatchNext]_batchVars => Inv'
<1> SUFFICES ASSUME Inv, [BatchNext]_batchVars PROVE Inv'
  OBVIOUS
<1>1. CASE UNCHANGED batchVars
  BY <1>1 DEF batchVars, Inv, BatchTypeOK, PhaseInv, CommitInv, UndoInv, TruthfulResult,
              ResidueExplained, IsNextUndo
<1>2. CASE Batch
  BY <1>2, PreflightStep, CommitLoopStep, ScanStep, AbandonStep, UndoReadStep,
     UndoWriteStep DEF Batch
<1>3. CASE OtherEdits
  BY <1>3, EditStep DEF OtherEdits
<1>. QED BY <1>1, <1>2, <1>3 DEF BatchNext, BatchDone

LEMMA InvAlways == BatchSpec => []Inv
<1>. QED BY InitInv, StepInv, PTL DEF BatchSpec

\* The variables keep their types for every batch and every set of editors.
THEOREM TypeCorrect == BatchSpec => []BatchTypeOK
<1>1. Inv => BatchTypeOK
  BY DEF Inv
<1>. QED BY <1>1, InvAlways, PTL

\* The TextTransactionResult tells the truth about every file that no editor
\* has touched since the batch last read it.
THEOREM ResultIsTruthful == BatchSpec => []TruthfulResult
<1>1. Inv => TruthfulResult
  BY DEF Inv
<1>. QED BY <1>1, InvAlways, PTL

\* Only files that an editor wrote or a call failed on are reported changed.
THEOREM ResidueIsExplained == BatchSpec => []ResidueExplained
<1>1. Inv => ResidueExplained
  BY DEF Inv
<1>. QED BY <1>1, InvAlways, PTL

\* The batch overwrites an editor's version only if it was written after the
\* read that precedes the batch's write of that file.
THEOREM WindowOnly == BatchSpec => EditsLostOnlyInWindow
<1>1. Inv /\ Batch =>
        \A i \in File :
            content[i] \in Others /\ content'[i] # content[i] => i \in dirty
  <2> SUFFICES ASSUME Inv, Batch, NEW i \in File,
                      content[i] \in Others, content'[i] # content[i],
                      i \notin dirty
               PROVE  FALSE
    OBVIOUS
  <2>1. content \in [File -> FileContents]
    BY DEF Inv, BatchTypeOK
  <2>2. CASE Write \/ CtrlC
    <3>1. i = cursor /\ step = "write" /\ attempted = cursor
      BY <2>1, <2>2 DEF Write, CtrlC, Inv, PhaseInv
    <3>2. i \notin committed
      BY <3>1, BatchAssumption DEF Inv, CommitInv, Committing, File
    <3>3. content[i] = "before"
      BY <3>1, <3>2 DEF Inv, CommitInv, Committing
    <3>. QED BY <3>3, BatchAssumption
  <2>3. CASE \E j \in File : UndoWrite(j)
    <3>1. step = "undo_write" /\ IsNextUndo(i)
      BY <2>1, <2>3 DEF UndoWrite
    <3>2. content[i] = "after"
      BY <3>1 DEF Inv, UndoInv
    <3>. QED BY <3>2, BatchAssumption
  <2>4. CASE UNCHANGED content
    BY <2>4
  <2>. QED
    BY <2>2, <2>3, <2>4
    DEF Batch, Preflight, SkipNoop, ReadBefore, VerifyAfter, StartScan, Scan,
        Abandon, UndoRead
<1>. QED BY <1>1, InvAlways, PTL DEF BatchSpec, EditsLostOnlyInWindow
=============================================================================
