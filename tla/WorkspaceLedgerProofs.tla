------------------------ MODULE WorkspaceLedgerProofs ------------------------
(***************************************************************************)
(* For any workspace, any calls and any number of faults: a step of an     *)
(* append only touches the tail of the journal, and every append reports   *)
(* the truth; the tools use the journal as PatchJournal says, no record is *)
(* rolled back twice, an editor's text is replaced unseen only where files *)
(* are written in place and only if it came after the last look, and       *)
(* between two calls the files hold what the journal says of them.         *)
(***************************************************************************)
EXTENDS WorkspaceLedger, TLAPS

-----------------------------------------------------------------------------
(* The journal by itself. *)

Active == {"temp", "replace", "observe", "undo_temp", "undo", "final"}

JournalFiles == Seq(Records) \cup {Missing}

Shape ==
    /\ journal \in JournalFiles
    /\ before \in [Writer -> JournalFiles]
    /\ pc \in [Writer -> Active \cup {"read", "done"}]
    /\ result \in [Writer -> {"none", "appended", "raised", "restored",
                              "indeterminate", "indeterminate_persisted"}]

\* One call at a time; while it runs, the journal is what it read, with or
\* without its record, and it knows which.
Turn ==
    \A w \in Writer :
        /\ pc[w] # "done" => result[w] = "none"
        /\ pc[w] = "read" => ~ Holds(journal, w)
        /\ pc[w] \in Active =>
              /\ \A v \in Writer \ {w} : pc[v] \notin Active
              /\ ~ Holds(before[w], w)
              /\ journal \in {before[w], After(w)}
        /\ pc[w] \in {"temp", "replace"} => journal = before[w]
        /\ pc[w] \in {"undo_temp", "undo"} => journal = After(w)

JournalInv == Shape /\ Turn /\ ReportTruthful

-----------------------------------------------------------------------------
\* Adding a record to a text, and the membership in it.
LEMMA Added ==
  ASSUME NEW j \in JournalFiles, NEW w \in Writer
  PROVE  /\ Text(j) \in Seq(Records)
         /\ Append(Text(j), w) \in Seq(Records) \ {Missing}
         /\ Holds(Append(Text(j), w), w)
         /\ \A v \in Writer \ {w} : Holds(Append(Text(j), w), v) <=> Holds(j, v)
<1>1. Text(j) \in Seq(Records)
  BY DEF Text, JournalFiles
<1>2. Append(Text(j), w) \in Seq(Records) \ {Missing}
  <2>1. w \in Records
    BY DEF Records
  <2>2. Append(Text(j), w) \in Seq(Records)
    BY <1>1, <2>1
  <2>. QED BY <2>2, JournalAssumption
<1> DEFINE s == Text(j)  t == Append(s, w)
<1>3. /\ DOMAIN t = 1..(Len(s) + 1) /\ DOMAIN s = 1..Len(s) /\ Len(s) \in Nat
      /\ \A i \in 1..Len(s) : t[i] = s[i]
      /\ t[Len(s) + 1] = w
  BY <1>1 DEF Records
<1>4. w \in ToSet(t)
  <2>1. Len(s) + 1 \in DOMAIN t
    BY <1>3
  <2>. QED BY <1>3, <2>1 DEF ToSet
<1>5. ASSUME NEW v \in Writer \ {w}
      PROVE  Holds(t, v) <=> Holds(j, v)
  <2>1. v \in ToSet(t) <=> v \in ToSet(s)
    BY <1>3 DEF ToSet
  <2>2. v \in ToSet(s) <=> Holds(j, v)
    BY DEF Text, Holds, ToSet
  <2>. QED BY <1>2, <2>1, <2>2 DEF Holds
<1>. QED BY <1>1, <1>2, <1>4, <1>5 DEF Holds

LEMMA JournalInit == Init => JournalInv
<1> SUFFICES ASSUME Init PROVE JournalInv
  OBVIOUS
<1>1. journal \in JournalFiles
  <2>1. Old \in Records
    BY DEF Records
  <2>2. <<Old>> \in Seq(Records)
    BY <2>1
  <2>. QED BY <2>2 DEF Init, JournalFiles
<1>2. \A w \in Writer : ~ Holds(journal, w)
  BY JournalAssumption DEF Init, Holds, ToSet
<1>. QED BY <1>1, <1>2 DEF Init, JournalInv, Shape, Turn, ReportTruthful, Active, JournalFiles

\* A call that neither changes the journal nor learns anything new about it.
LEMMA QuietStep ==
  ASSUME JournalInv, NEW w \in Writer, pc[w] \in Active, UNCHANGED <<journal, before>>,
         NEW label \in Active \cup {"done"}, pc' = [pc EXCEPT ![w] = label],
         NEW outcome \in {"none", "raised", "restored", "indeterminate",
                          "indeterminate_persisted"},
         result' = [result EXCEPT ![w] = outcome],
         label # "done" => outcome = "none",
         label \in {"temp", "replace"} => journal = before[w],
         label \in {"undo_temp", "undo"} => journal = After(w),
         outcome \in {"raised", "restored"} => journal = before[w],
         outcome = "indeterminate_persisted" => journal = After(w)
  PROVE  JournalInv'
<1>1. \A v \in Writer \ {w} : /\ pc'[v] = pc[v] /\ result'[v] = result[v]
                              /\ pc[v] \notin Active
  BY DEF JournalInv, Shape, Turn
<1>2. pc'[w] = label /\ result'[w] = outcome
  BY DEF JournalInv, Shape
<1>3. Shape'
  BY DEF JournalInv, Shape
<1>4. ~ Holds(before[w], w) /\ journal \in {before[w], After(w)}
  BY DEF JournalInv, Turn
<1>5. Turn'
  <2> SUFFICES ASSUME NEW v \in Writer
               PROVE  Turn!(v)'
    BY DEF Turn
  <2>1. CASE v = w
    BY <1>1, <1>2, <1>4, <2>1 DEF Active, After
  <2>2. CASE v # w
    BY <1>1, <2>2 DEF JournalInv, Turn, Active
  <2>. QED BY <2>1, <2>2
<1>6. ReportTruthful'
  <2> SUFFICES ASSUME NEW v \in Writer
               PROVE  ReportTruthful!(v)'
    BY DEF ReportTruthful
  <2>1. CASE v = w
    <3>1. before[w] \in JournalFiles
      BY DEF JournalInv, Shape
    <3>2. Holds(After(w), w)
      BY <3>1, Added DEF After
    <3>3. CASE outcome \in {"raised", "restored"}
      BY <1>2, <1>4, <2>1, <3>3
    <3>4. CASE outcome = "indeterminate_persisted"
      BY <1>2, <2>1, <3>2, <3>4
    <3>5. CASE outcome \in {"none", "indeterminate"}
      BY <1>2, <2>1, <3>5
    <3>. QED BY <3>3, <3>4, <3>5
  <2>2. CASE v # w
    BY <1>1, <2>2 DEF JournalInv, ReportTruthful
  <2>. QED BY <2>1, <2>2
<1>. QED BY <1>3, <1>5, <1>6 DEF JournalInv

LEMMA ReadStep == ASSUME JournalInv, NEW w \in Writer, Read(w) PROVE JournalInv'
<1>1. /\ pc[w] = "read" /\ \A v \in Writer : pc[v] \notin Active
      /\ before' = [before EXCEPT ![w] = journal]
      /\ pc' = [pc EXCEPT ![w] = "temp"]
      /\ UNCHANGED <<journal, result>>
  BY DEF Read, Goto, Active
<1>2. Shape'
  BY <1>1 DEF JournalInv, Shape, Active
<1>3. /\ pc'[w] = "temp" /\ before'[w] = journal /\ ~ Holds(journal, w)
      /\ result[w] = "none"
      /\ \A v \in Writer \ {w} : pc'[v] = pc[v] /\ before'[v] = before[v]
  BY <1>1 DEF JournalInv, Shape, Turn
<1>4. Turn'
  <2> SUFFICES ASSUME NEW v \in Writer
               PROVE  Turn!(v)'
    BY DEF Turn
  <2>1. CASE v = w
    BY <1>1, <1>3, <2>1 DEF Active
  <2>2. CASE v # w
    BY <1>1, <1>3, <2>2 DEF JournalInv, Turn, Active
  <2>. QED BY <2>1, <2>2
<1>5. ReportTruthful'
  BY <1>1 DEF JournalInv, ReportTruthful
<1>. QED BY <1>2, <1>4, <1>5 DEF JournalInv

\* The journal gains or loses the record of w, and w knows it.
LEMMA TurningStep ==
  ASSUME JournalInv, NEW w \in Writer, pc[w] \in Active, UNCHANGED before,
         NEW label \in {"done", "observe", "final"}, pc' = [pc EXCEPT ![w] = label],
         NEW outcome \in {"none", "appended"}, result' = [result EXCEPT ![w] = outcome],
         label # "done" => outcome = "none",
         journal' \in {before[w], After(w)},
         outcome = "appended" => journal' = After(w)
  PROVE  JournalInv'
<1>1. \A v \in Writer \ {w} : /\ pc'[v] = pc[v] /\ result'[v] = result[v]
                              /\ pc[v] \notin Active
  BY DEF JournalInv, Shape, Turn
<1>2. pc'[w] = label /\ result'[w] = outcome
  BY DEF JournalInv, Shape
<1>3. before[w] \in JournalFiles /\ journal \in {before[w], After(w)} /\ ~ Holds(before[w], w)
  BY DEF JournalInv, Shape, Turn
<1>4. /\ After(w) \in JournalFiles /\ Holds(After(w), w)
      /\ \A v \in Writer \ {w} : Holds(After(w), v) <=> Holds(before[w], v)
  BY <1>3, Added DEF After, JournalFiles
<1>5. \A v \in Writer \ {w} : Holds(journal', v) <=> Holds(journal, v)
  BY <1>3, <1>4
<1>6. Shape'
  BY <1>3, <1>4 DEF JournalInv, Shape, Active
<1>7. Turn'
  <2> SUFFICES ASSUME NEW v \in Writer
               PROVE  Turn!(v)'
    BY DEF Turn
  <2>1. CASE v = w
    BY <1>1, <1>2, <1>3, <2>1 DEF Active, After
  <2>2. CASE v # w
    BY <1>1, <1>5, <2>2 DEF JournalInv, Turn, Active
  <2>. QED BY <2>1, <2>2
<1>8. ReportTruthful'
  <2> SUFFICES ASSUME NEW v \in Writer
               PROVE  ReportTruthful!(v)'
    BY DEF ReportTruthful
  <2>1. CASE v = w
    BY <1>2, <1>4, <2>1
  <2>2. CASE v # w
    BY <1>1, <1>5, <2>2 DEF JournalInv, ReportTruthful
  <2>. QED BY <2>1, <2>2
<1>. QED BY <1>6, <1>7, <1>8 DEF JournalInv

LEMMA ReplaceStep == ASSUME JournalInv, NEW w \in Writer, Replace(w) PROVE JournalInv'
<1>1. pc[w] = "replace" /\ pc[w] \in Active /\ UNCHANGED before /\ journal = before[w]
      /\ result[w] = "none" /\ result = [result EXCEPT ![w] = "none"]
  BY DEF Replace, Active, JournalInv, Turn, Shape
<1>2. CASE journal' = After(w) /\ Finish(w, "appended")
  BY <1>1, <1>2, TurningStep DEF Finish
<1>3. CASE journal' = After(w) /\ Goto(w, "observe")
  BY <1>1, <1>3, TurningStep DEF Goto
<1>4. CASE UNCHANGED journal /\ Goto(w, "observe")
  BY <1>1, <1>4, TurningStep DEF Goto
<1>. QED BY <1>2, <1>3, <1>4 DEF Replace

LEMMA UndoStep == ASSUME JournalInv, NEW w \in Writer, Undo(w) PROVE JournalInv'
<1>1. pc[w] = "undo" /\ pc[w] \in Active /\ UNCHANGED before /\ journal = After(w)
      /\ result = [result EXCEPT ![w] = "none"] /\ Goto(w, "final")
      /\ journal' \in {before[w], After(w)}
  BY DEF Undo, Active, JournalInv, Turn, Shape
<1>. QED BY <1>1, TurningStep DEF Goto

LEMMA OtherSteps ==
  ASSUME JournalInv, NEW w \in Writer,
         WriteTemporary(w) \/ Observe(w) \/ PrepareUndo(w) \/ Final(w)
  PROVE  JournalInv'
<1>1. pc[w] \in Active /\ UNCHANGED <<journal, before>>
      /\ journal \in {before[w], After(w)} /\ result = [result EXCEPT ![w] = "none"]
  BY DEF WriteTemporary, Observe, PrepareUndo, Final, Active, JournalInv, Turn, Shape
<1>2. CASE WriteTemporary(w)
  <2>1. journal = before[w]
    BY <1>2 DEF WriteTemporary, JournalInv, Turn
  <2>2. CASE Goto(w, "replace")
    <3>1. pc' = [pc EXCEPT ![w] = "replace"] /\ result' = [result EXCEPT ![w] = "none"]
      BY <1>1, <2>2 DEF Goto
    <3>2. "replace" \in Active \cup {"done"} /\ "replace" \notin {"undo_temp", "undo"}
      BY DEF Active
    <3>. QED BY <1>1, <2>1, <3>1, <3>2, QuietStep, ZenonT(60)
  <2>3. CASE Finish(w, "raised")
    BY <1>1, <2>1, <2>3, QuietStep DEF Finish
  <2>. QED BY <1>2, <2>2, <2>3 DEF WriteTemporary
<1>3. CASE Observe(w)
  <2>1. CASE journal = After(w) /\ Goto(w, "undo_temp")
    <3>1. pc' = [pc EXCEPT ![w] = "undo_temp"] /\ result' = [result EXCEPT ![w] = "none"]
      BY <1>1, <2>1 DEF Goto
    <3>2. "undo_temp" \in Active \cup {"done"} /\ "undo_temp" \notin {"temp", "replace"}
      BY DEF Active
    <3>. QED BY <1>1, <2>1, <3>1, <3>2, QuietStep, ZenonT(60)
  <2>2. CASE journal = before[w] /\ Finish(w, "restored")
    BY <1>1, <2>2, QuietStep DEF Finish
  <2>3. CASE Finish(w, "indeterminate")
    BY <1>1, <2>3, QuietStep DEF Finish
  <2>. QED BY <1>1, <1>3, <2>1, <2>2, <2>3 DEF Observe
<1>4. CASE PrepareUndo(w)
  <2>1. journal = After(w)
    BY <1>4 DEF PrepareUndo, JournalInv, Turn
  <2>2. Goto(w, "undo") \/ Goto(w, "final")
    BY <1>4 DEF PrepareUndo
  <2>. QED BY <1>1, <2>1, <2>2, QuietStep DEF Goto, Active
<1>5. CASE Final(w)
  <2>1. CASE journal = before[w] /\ Finish(w, "restored")
    BY <1>1, <2>1, QuietStep DEF Finish
  <2>2. CASE journal # before[w] /\ journal = After(w) /\ Finish(w, "indeterminate_persisted")
    BY <1>1, <2>2, QuietStep DEF Finish
  <2>3. CASE Finish(w, "indeterminate")
    BY <1>1, <2>3, QuietStep DEF Finish
  <2>. QED BY <1>1, <1>5, <2>1, <2>2, <2>3 DEF Final
<1>. QED BY <1>2, <1>3, <1>4, <1>5

LEMMA CrashStep == ASSUME JournalInv, NEW w \in Writer, Crash(w) PROVE JournalInv'
<1>1. /\ pc[w] # "done" /\ pc' = [pc EXCEPT ![w] = "done"]
      /\ result' = [result EXCEPT ![w] = "none"] /\ UNCHANGED <<journal, before>>
      /\ result[w] = "none"
  BY DEF Crash, Finish, JournalInv, Turn
<1>2. /\ pc'[w] = "done" /\ result'[w] = "none"
      /\ \A v \in Writer \ {w} : pc'[v] = pc[v] /\ result'[v] = result[v]
  BY <1>1 DEF JournalInv, Shape
<1>3. Shape'
  BY <1>1 DEF JournalInv, Shape
<1>4. Turn'
  BY <1>1, <1>2 DEF JournalInv, Turn, Active, After
<1>5. ReportTruthful'
  BY <1>1, <1>2 DEF JournalInv, ReportTruthful
<1>. QED BY <1>3, <1>4, <1>5 DEF JournalInv

LEMMA JournalStep == JournalInv /\ [Next]_vars => JournalInv'
<1> SUFFICES ASSUME JournalInv, [Next]_vars PROVE JournalInv'
  OBVIOUS
<1>1. CASE UNCHANGED vars
  BY <1>1 DEF vars, JournalInv, Shape, Turn, ReportTruthful, After
<1>2. ASSUME NEW w \in Writer, Step(w) PROVE JournalInv'
  BY <1>2, ReadStep, ReplaceStep, UndoStep, OtherSteps, CrashStep DEF Step
<1>. QED BY <1>1, <1>2 DEF Next, Done

LEMMA JournalAlways == Spec => []JournalInv
<1>. QED BY JournalInit, JournalStep, PTL DEF Spec

\* The step of a call moves no other call, and no other call's record.
LEMMA StepIsOwn ==
  ASSUME JournalInv, NEW w \in Writer, Step(w)
  PROVE  /\ pc[w] # "done"
         /\ \A v \in Writer \ {w} : /\ pc'[v] = pc[v] /\ result'[v] = result[v]
                                    /\ Holds(journal', v) <=> Holds(journal, v)
<1> USE DEF Goto, Finish
<1>1. pc[w] # "done"
  BY DEF Step, Read, WriteTemporary, Replace, Observe, PrepareUndo, Undo, Final, Crash
<1>2. \E label, outcome : /\ pc' = [pc EXCEPT ![w] = label]
                          /\ \/ result' = [result EXCEPT ![w] = outcome]
                             \/ UNCHANGED result
  BY DEF Step, Read, WriteTemporary, Replace, Observe, PrepareUndo, Undo, Final, Crash
<1>3. \A v \in Writer \ {w} : pc'[v] = pc[v] /\ result'[v] = result[v]
  BY <1>2 DEF JournalInv, Shape
<1>4. \/ UNCHANGED journal
      \/ pc[w] \in Active /\ journal' \in {before[w], After(w)}
  BY DEF Step, Read, WriteTemporary, Replace, Observe, PrepareUndo, Undo, Final, Crash, Active
<1>5. ASSUME pc[w] \in Active, journal' \in {before[w], After(w)}, NEW v \in Writer \ {w}
      PROVE  Holds(journal', v) <=> Holds(journal, v)
  <2>1. before[w] \in JournalFiles /\ journal \in {before[w], After(w)}
    BY <1>5 DEF JournalInv, Shape, Turn
  <2>2. Holds(After(w), v) <=> Holds(before[w], v)
    BY <2>1, Added DEF After
  <2>. QED BY <1>5, <2>1, <2>2
<1>. QED BY <1>1, <1>3, <1>4, <1>5

-----------------------------------------------------------------------------
\* A step of append_patch_record only adds a record at the end of the journal
\* or withdraws the last one.
THEOREM TailOnly == Spec => OnlyTheTailChanges
<1>1. JournalInv /\ [Next]_vars =>
        [journal' # journal =>
             \E w \in Writer : \/ journal' = Append(Text(journal), w)
                              \/ Text(journal) = Append(Text(journal'), w)]_vars
  <2> SUFFICES ASSUME JournalInv, [Next]_vars, journal' # journal
               PROVE  \E w \in Writer : \/ journal' = Append(Text(journal), w)
                                        \/ Text(journal) = Append(Text(journal'), w)
    OBVIOUS
  <2>1. PICK w \in Writer : Step(w)
    BY DEF Next, Done, vars
  <2>2. CASE Replace(w)
    BY <2>2 DEF Replace, JournalInv, Turn, After
  <2>3. CASE Undo(w)
    <3>1. journal = After(w) /\ journal' = before[w] /\ before[w] \in JournalFiles
      BY <2>3 DEF Undo, JournalInv, Turn, Shape
    <3>2. Text(journal) = Append(Text(journal'), w)
      BY <3>1, Added DEF After, Text
    <3>. QED BY <3>2
  <2>. QED BY <2>1, <2>2, <2>3
           DEF Step, Read, WriteTemporary, Observe, PrepareUndo, Final, Crash
<1>. QED BY <1>1, JournalAlways, PTL DEF Spec, OnlyTheTailChanges

\* A call that reports its record as written, or as not written, is right.
THEOREM ReportsAreTrue == Spec => []ReportTruthful
<1>1. JournalInv => ReportTruthful
  BY DEF JournalInv
<1>. QED BY <1>1, JournalAlways, PTL

-----------------------------------------------------------------------------
(* The tools. *)

Stages == {"idle", "planned", "change", "write", "check", "journal", "undo", "over"}

Types ==
    /\ files = [f \in File |-> files[f]]
    /\ stage \in [Writer -> Stages]
    /\ job \in [Writer -> Jobs]
    /\ known = [w \in Writer |-> known[w]]
    /\ undoes \in [Writer -> Writer]
    /\ reply = [w \in Writer |-> reply[w]]
    /\ edits \in Nat

\* What a call knows, and how far it and its append are.
Progress ==
    \A w \in Writer :
        /\ stage[w] # "idle" /\ ~ Undoing(w) => DOMAIN known[w] = Scope(job[w])
        /\ stage[w] = "idle" => Undoing(w)
        /\ stage[w] = "planned" => ~ Undoing(w)
        /\ stage[w] \in {"idle", "planned", "change", "write", "check"} => pc[w] = "read"

Alone == \A r, s \in Writer : Running(r) /\ Running(s) => r = s

\* The record that a running rollback undoes is undone by no record yet.
UndoneByNone ==
    \A r \in Writer : Undoing(r) /\ Running(r) =>
        \A s \in Writer \ {r} :
            Undoing(s) /\ undoes[s] = undoes[r] => ~ Holds(journal, s)

LedgerInv ==
    JournalInv /\ Types /\ Progress /\ Alone /\ UndoneByNone /\ RolledBackOnce

-----------------------------------------------------------------------------
\* A step of the tools is a step of the journal or leaves it alone.
LEMMA StepsAreAppends == [Steps]_all => [Next]_vars
<1> SUFFICES ASSUME [Steps]_all PROVE [Next]_vars
  OBVIOUS
<1>1. ASSUME NEW w \in Writer, Call(w) PROVE [Next]_vars
  <2>1. CASE Record(w)
    BY <2>1 DEF Record, Next
  <2>2. CASE Plan(w) \/ RollbackPatch(w) \/ Look(w) \/ Transact(w) \/ WriteOrUnlink(w)
             \/ CheckSnapshot(w) \/ React(w) \/ Interrupt(w) \/ Restore(w)
    BY <2>2 DEF Plan, RollbackPatch, Look, Transact, WriteOrUnlink, CheckSnapshot, React,
                Interrupt, Restore
  <2>3. CASE PatchFile(w) \/ WriteFile(w) \/ ApplyWorkspaceEdit(w) \/ CommitStaged(w)
    BY <2>3 DEF PatchFile, WriteFile, ApplyWorkspaceEdit, CommitStaged, Begin, Refuse
  <2>. QED BY <1>1, <2>1, <2>2, <2>3 DEF Call
<1>2. ASSUME NEW f \in File, Edit(f) PROVE [Next]_vars
  BY <1>2 DEF Edit
<1>3. CASE Over \/ UNCHANGED all
  BY <1>3 DEF Over, all
<1>. QED BY <1>1, <1>2, <1>3 DEF Steps

\* A call that goes on without touching the journal.
LEMMA CallStep ==
  ASSUME LedgerInv, NEW w \in Writer,
         NEW t \in Stages \ {"idle", "planned"},
         stage' = [stage EXCEPT ![w] = t], stage[w] # "idle",
         UNCHANGED <<vars, job, known, undoes, edits>>,
         files' = [f \in File |-> files'[f]],
         reply' = [v \in Writer |-> reply'[v]],
         t \in {"change", "write", "check"} => pc[w] = "read",
         Running(w) \/ t = "over" \/ (Quiet /\ ~ Undoing(w))
  PROVE  LedgerInv'
<1> USE DEF LedgerInv
<1>1. stage'[w] = t /\ \A v \in Writer \ {w} : stage'[v] = stage[v]
  BY DEF Types
<1>2. JournalInv'
  BY DEF vars, JournalInv, Shape, Turn, ReportTruthful, After
<1>3. Types'
  BY DEF Types, Stages
<1>4. \A v \in Writer : Undoing(v)' <=> Undoing(v)
  BY DEF Undoing
<1>5. Progress'
  BY <1>1, <1>4 DEF Progress, vars, Scope, Stages
<1>6. \A v \in Writer : Running(v)' => v = w \/ Running(v)
  BY <1>1 DEF Running, Dead, vars, Stages
<1>7. \A v \in Writer : Running(v)' /\ ~ Running(v) => v = w /\ Quiet /\ ~ Undoing(w)
  BY <1>1, <1>6 DEF Running, Dead, vars
<1>8. Alone'
  BY <1>6, <1>7 DEF Alone, Quiet
<1>9. UndoneByNone'
  BY <1>4, <1>6, <1>7 DEF UndoneByNone, vars
<1>10. RolledBackOnce'
  BY <1>4 DEF RolledBackOnce, vars
<1>. QED BY <1>2, <1>3, <1>5, <1>8, <1>9, <1>10

LEMMA PlanStep == ASSUME LedgerInv, NEW w \in Writer, Plan(w) PROVE LedgerInv'
<1> USE DEF LedgerInv
<1>1. PICK j \in Jobs \ {Rollback} : job' = [job EXCEPT ![w] = j]
  BY DEF Plan
<1>2. /\ stage[w] = "idle" /\ Quiet
      /\ stage' = [stage EXCEPT ![w] = "planned"]
      /\ known' = [known EXCEPT ![w] = [f \in Scope(job'[w]) |-> files[f]]]
      /\ UNCHANGED <<vars, files, undoes, reply, edits>>
  BY DEF Plan
<1>3. /\ stage'[w] = "planned" /\ job'[w] = j /\ DOMAIN known'[w] = Scope(job'[w])
      /\ \A v \in Writer \ {w} : /\ stage'[v] = stage[v] /\ job'[v] = job[v]
                                 /\ known'[v] = known[v]
  BY <1>1, <1>2 DEF Types
<1>4. JournalInv'
  BY <1>2 DEF vars, JournalInv, Shape, Turn, ReportTruthful, After
<1>5. Types'
  BY <1>1, <1>2 DEF Types, Stages
<1>6. ~ Undoing(w)' /\ \A v \in Writer \ {w} : Undoing(v)' <=> Undoing(v)
  BY <1>3 DEF Undoing
<1>7. Progress'
  BY <1>2, <1>3, <1>6 DEF Progress, vars, Scope
<1>8. \A v \in Writer : ~ Running(v)'
  BY <1>2, <1>3 DEF Quiet, Running, Dead, vars
<1>9. RolledBackOnce'
  BY <1>2, <1>6 DEF RolledBackOnce, vars
<1>. QED BY <1>4, <1>5, <1>7, <1>8, <1>9 DEF Alone, UndoneByNone

LEMMA RollbackStep == ASSUME LedgerInv, NEW w \in Writer, RollbackPatch(w) PROVE LedgerInv'
<1> USE DEF LedgerInv
<1>1. PICK v \in Writer : /\ Candidate(v)
                          /\ undoes' = [undoes EXCEPT ![w] = v]
                          /\ \/ stage' = [stage EXCEPT ![w] = "change"] /\ UNCHANGED reply
                             \/ Say(w, "refused")
  BY DEF RollbackPatch
<1>2. stage[w] = "idle" /\ Quiet /\ UNCHANGED <<vars, files, job, known, edits>>
  BY DEF RollbackPatch
<1>3. /\ stage'[w] \in {"change", "over"} /\ undoes'[w] = v
      /\ \A u \in Writer \ {w} : stage'[u] = stage[u] /\ undoes'[u] = undoes[u]
  BY <1>1 DEF Types, Say
<1>4. JournalInv'
  BY <1>2 DEF vars, JournalInv, Shape, Turn, ReportTruthful, After
<1>5. Types'
  BY <1>1, <1>2 DEF Types, Stages, Say
<1>6. pc[w] = "read" /\ ~ Holds(journal, w)
  BY <1>2 DEF Progress, JournalInv, Turn
<1>7. \A u \in Writer : Undoing(u)' <=> Undoing(u)
  BY <1>2 DEF Undoing
<1>8. Undoing(w)
  BY <1>2 DEF Progress
<1>9. Progress'
  BY <1>2, <1>3, <1>6, <1>7, <1>8 DEF Progress, vars
<1>10. \A u \in Writer : Running(u)' => u = w
  BY <1>2, <1>3 DEF Quiet, Running, Dead, vars
<1>11. \A u \in Writer : Undoing(u) /\ undoes[u] = v => ~ Holds(journal, u)
  BY <1>1 DEF Candidate, RolledBack
<1>12. UndoneByNone'
  BY <1>2, <1>3, <1>7, <1>10, <1>11 DEF UndoneByNone, vars
<1>13. RolledBackOnce'
  BY <1>2, <1>3, <1>6, <1>7 DEF RolledBackOnce, vars
<1>. QED BY <1>4, <1>5, <1>9, <1>10, <1>12, <1>13 DEF Alone

LEMMA RecordStep == ASSUME LedgerInv, NEW w \in Writer, Record(w) PROVE LedgerInv'
<1> USE DEF LedgerInv
<1>1. /\ stage[w] = "journal" /\ Step(w)
      /\ UNCHANGED <<files, stage, job, known, undoes, reply, edits>>
  BY DEF Record, ledger
<1>2. /\ pc[w] # "done"
      /\ \A v \in Writer \ {w} : /\ pc'[v] = pc[v] /\ result'[v] = result[v]
                                 /\ Holds(journal', v) <=> Holds(journal, v)
  BY <1>1, StepIsOwn
<1>3. JournalInv'
  <2>1. Next
    BY <1>1 DEF Next
  <2>. QED BY <2>1, JournalStep
<1>4. Types'
  BY <1>1 DEF Types
<1>5. \A v \in Writer : Undoing(v)' <=> Undoing(v)
  BY <1>1 DEF Undoing
<1>6. Progress'
  BY <1>1, <1>2, <1>5 DEF Progress, Scope
<1>7. Running(w)
  BY <1>1, <1>2 DEF Running, Dead
<1>8. \A v \in Writer : Running(v)' => v = w
  <2>1. \A v \in Writer \ {w} : Running(v)' <=> Running(v)
    BY <1>1, <1>2 DEF Running, Dead
  <2>. QED BY <1>7, <2>1 DEF Alone
<1>9. UndoneByNone'
  BY <1>1, <1>2, <1>5, <1>7, <1>8 DEF UndoneByNone
<1>10. RolledBackOnce'
  <2> SUFFICES ASSUME NEW r \in Writer, NEW s \in Writer, Undoing(r), Undoing(s),
                      undoes[r] = undoes[s], Holds(journal', r), Holds(journal', s),
                      r # s
               PROVE  FALSE
    BY <1>1, <1>5 DEF RolledBackOnce
  <2>1. CASE r # w /\ s # w
    BY <1>2, <2>1 DEF RolledBackOnce
  <2>2. CASE r = w
    BY <1>2, <1>7, <2>2 DEF UndoneByNone
  <2>3. CASE s = w
    BY <1>2, <1>7, <2>3 DEF UndoneByNone
  <2>. QED BY <2>1, <2>2, <2>3
<1>. QED BY <1>3, <1>4, <1>6, <1>8, <1>9, <1>10 DEF Alone

\* An editor touches nothing but the files.
LEMMA EditStep == ASSUME LedgerInv, NEW f \in File, Edit(f) PROVE LedgerInv'
<1> USE DEF LedgerInv
<1>1. /\ UNCHANGED <<vars, stage, job, known, undoes, reply>> /\ edits' = edits + 1
      /\ \E text : files' = [files EXCEPT ![f] = text]
  BY DEF Edit
<1>2. JournalInv'
  BY <1>1 DEF vars, JournalInv, Shape, Turn, ReportTruthful, After
<1>3. Types'
  BY <1>1 DEF Types
<1>4. \A v \in Writer : /\ Undoing(v)' <=> Undoing(v)
                        /\ Running(v)' <=> Running(v)
  BY <1>1 DEF Undoing, Running, Dead, vars
<1>5. Progress'
  BY <1>1, <1>4 DEF Progress, vars, Scope
<1>6. Alone' /\ UndoneByNone' /\ RolledBackOnce'
  BY <1>1, <1>4 DEF Alone, UndoneByNone, RolledBackOnce, vars
<1>. QED BY <1>2, <1>3, <1>5, <1>6

LEMMA LedgerStep == LedgerInv /\ [Steps]_all => LedgerInv'
<1> SUFFICES ASSUME LedgerInv, [Steps]_all PROVE LedgerInv'
  OBVIOUS
<1> USE DEF LedgerInv
<1>1. CASE UNCHANGED all
  <2>1. UNCHANGED <<vars, files, stage, job, known, undoes, reply, edits>>
    BY <1>1 DEF all, ledger
  <2>2. JournalInv'
    BY <2>1 DEF vars, JournalInv, Shape, Turn, ReportTruthful, After
  <2>3. Types'
    BY <2>1 DEF Types
  <2>4. \A v \in Writer : /\ Undoing(v)' <=> Undoing(v)
                          /\ Running(v)' <=> Running(v)
    BY <2>1 DEF Undoing, Running, Dead, vars
  <2>5. Progress'
    BY <2>1, <2>4 DEF Progress, vars, Scope
  <2>6. Alone' /\ UndoneByNone' /\ RolledBackOnce'
    BY <2>1, <2>4 DEF Alone, UndoneByNone, RolledBackOnce, vars
  <2>. QED BY <2>2, <2>3, <2>5, <2>6
<1>2. ASSUME NEW w \in Writer, Plan(w) \/ RollbackPatch(w) \/ Record(w)
      PROVE  LedgerInv'
  BY <1>2, PlanStep, RollbackStep, RecordStep
<1>3. ASSUME NEW w \in Writer,
             PatchFile(w) \/ WriteFile(w) \/ ApplyWorkspaceEdit(w) \/ CommitStaged(w)
      PROVE  LedgerInv'
  <2>1. /\ stage[w] = "planned" /\ Quiet /\ ~ Undoing(w) /\ pc[w] = "read"
        /\ UNCHANGED <<vars, files, job, known, undoes, edits>>
    BY <1>3 DEF PatchFile, WriteFile, ApplyWorkspaceEdit, CommitStaged, Called,
                Begin, Refuse, Progress
  <2>2. \/ stage' = [stage EXCEPT ![w] = "change"] /\ UNCHANGED reply
        \/ stage' = [stage EXCEPT ![w] = "over"] /\ reply' = [reply EXCEPT ![w] = "refused"]
    BY <1>3 DEF PatchFile, WriteFile, ApplyWorkspaceEdit, CommitStaged, Begin, Refuse, Say
  <2>3. /\ files' = [f \in File |-> files'[f]]
        /\ reply' = [v \in Writer |-> reply'[v]]
    BY <2>1, <2>2 DEF Types
  <2>4. PICK t \in {"change", "over"} : stage' = [stage EXCEPT ![w] = t]
    BY <2>2
  <2>5. t \in Stages \ {"idle", "planned"}
    BY DEF Stages
  <2>6. stage[w] # "idle" /\ Quiet /\ ~ Undoing(w) /\ pc[w] = "read"
    BY <2>1
  <2>. QED BY <2>1, <2>3, <2>4, <2>5, <2>6, CallStep
<1>4. ASSUME NEW w \in Writer,
             \/ Look(w) \/ Transact(w) \/ WriteOrUnlink(w) \/ CheckSnapshot(w)
             \/ React(w) \/ Interrupt(w) \/ Restore(w)
      PROVE  LedgerInv'
  <2>1. UNCHANGED <<vars, job, known, undoes, edits>>
    BY <1>4 DEF Look, Transact, WriteOrUnlink, CheckSnapshot, React, Interrupt, Restore
  <2>2. /\ Running(w) /\ stage[w] # "idle"
        /\ stage[w] \in {"change", "write"} => pc[w] = "read"
    BY <1>4 DEF Look, Transact, WriteOrUnlink, CheckSnapshot, React, Interrupt, Restore,
                Running, Dead, Progress
  <2>3. PICK t \in Stages \ {"idle", "planned", "change"} :
           /\ stage' = [stage EXCEPT ![w] = t]
           /\ t \in {"write", "check"} => stage[w] \in {"change", "write"}
    <3>1. CASE CheckSnapshot(w) \/ React(w) \/ Interrupt(w)
      <4>1. \/ stage' = [stage EXCEPT ![w] = "journal"]
            \/ stage' = [stage EXCEPT ![w] = "undo"]
            \/ stage' = [stage EXCEPT ![w] = "over"]
        BY <3>1 DEF CheckSnapshot, React, Interrupt, TurnBack, Say
      <4>. QED BY <4>1 DEF Stages
    <3>2. CASE Look(w) \/ Transact(w) \/ WriteOrUnlink(w) \/ Restore(w)
      BY <3>2 DEF Look, Transact, WriteOrUnlink, Restore, Say, Stages
    <3>. QED BY <1>4, <3>1, <3>2
  <2>4. files' = [f \in File |-> files'[f]]
    BY <1>4 DEF Look, Transact, WriteOrUnlink, CheckSnapshot, React, Interrupt, Restore,
                TurnBack, PutAll, PutSome, With, Types
  <2>5. reply' = [v \in Writer |-> reply'[v]]
    BY <1>4 DEF Look, Transact, WriteOrUnlink, CheckSnapshot, React, Interrupt, Restore,
                TurnBack, Say, Types
  <2>. QED BY <2>1, <2>2, <2>3, <2>4, <2>5, CallStep
<1>5. ASSUME NEW f \in File, Edit(f) PROVE LedgerInv'
  BY <1>5, EditStep
<1>. QED BY <1>1, <1>2, <1>3, <1>4, <1>5 DEF Steps, Call, Over

LEMMA LedgerStart == Start => LedgerInv
<1> SUFFICES ASSUME Start PROVE LedgerInv
  OBVIOUS
<1>1. JournalInv
  BY JournalInit DEF Start
<1>2. Types
  BY LedgerAssumption DEF Start, Types, Stages
<1>3. Progress
  BY DEF Start, Init, Progress, Undoing
<1>4. \A w \in Writer : ~ Running(w) /\ ~ Holds(journal, w)
  BY DEF Start, Running, Holds
<1>. QED BY <1>1, <1>2, <1>3, <1>4 DEF LedgerInv, Alone, UndoneByNone, RolledBackOnce

LEMMA LedgerAlways == LedgerSpec => []LedgerInv
<1>. QED BY LedgerStart, LedgerStep, PTL DEF LedgerSpec

-----------------------------------------------------------------------------
\* The tools together implement the journal: whatever they do, their appends
\* follow one another as PatchJournal says (append_patch_record).
THEOREM LedgerIsJournal == LedgerSpec => Spec
<1>1. Start => Init
  BY DEF Start
<1>. QED BY <1>1, StepsAreAppends, PTL DEF LedgerSpec, Spec

\* Hence, in a run of the tools, every append reports what became of its record.
THEOREM LedgerReports == LedgerSpec => []ReportTruthful
<1>. QED BY LedgerIsJournal, ReportsAreTrue

\* And the tools only ever add a record to the journal or withdraw the last one.
THEOREM LedgerTail == LedgerSpec => OnlyTheTailChanges
<1>. QED BY LedgerIsJournal, TailOnly

\* No record is rolled back twice (_find_rollback_record).
THEOREM NeverRolledBackTwice == LedgerSpec => []RolledBackOnce
<1>1. LedgerInv => RolledBackOnce
  BY DEF LedgerInv
<1>. QED BY <1>1, LedgerAlways, PTL

\* The files of a call are among those it knows what to expect in.
LEMMA Expected ==
  ASSUME LedgerInv, NEW w \in Writer, Running(w), NEW f \in Files(w)
  PROVE  f \in DOMAIN Expect(w) /\ f \in File
<1>1. CASE Undoing(w)
  <2>1. undoes[w] \in Writer /\ job[undoes[w]] \in Jobs
    BY DEF LedgerInv, Types
  <2>. QED BY <1>1, <2>1, LedgerAssumption DEF Files, Expect, New
<1>2. CASE ~ Undoing(w)
  <2>1. job[w] \in Jobs /\ DOMAIN known[w] = Scope(job[w])
    BY <1>2 DEF LedgerInv, Types, Progress, Running
  <2>. QED BY <1>2, <2>1, LedgerAssumption DEF Files, Expect, Scope
<1>. QED BY <1>1, <1>2

-----------------------------------------------------------------------------
(* What the ledger says of a file.  A record counts once its call is over, so *)
(* that nothing said of a file changes while one call is at work.             *)

Kept(v) == Holds(journal, v) /\ ~ Running(v)

Undone(v) == \E r \in Writer : Undoing(r) /\ undoes[r] = v /\ Kept(r)

Firm(v, f) == Kept(v) /\ ~ Undoing(v) /\ ~ Undone(v) /\ f \in Files(v)

\* The last patch of a file, or the file's first content, gives x.
Says(f, x) ==
    \/ \E u \in Writer :
          /\ Firm(u, f) /\ x = New(u)[f]
          /\ \A t \in Writer : Firm(t, f) => t = u \/ Earlier(t, u)
    \/ x = First(f) /\ ~ \E u \in Writer : Firm(u, f)

\* The last one before v does.
SaysBelow(v, f, x) ==
    \/ \E u \in Writer :
          /\ Firm(u, f) /\ Earlier(u, v) /\ x = New(u)[f]
          /\ \A t \in Writer : Firm(t, f) /\ Earlier(t, v) => t = u \/ Earlier(t, u)
    \/ x = First(f) /\ ~ \E u \in Writer : Firm(u, f) /\ Earlier(u, v)

\* Each patch found the file as the one before it had left it.
Chain(f) == \A v \in Writer : Firm(v, f) => SaysBelow(v, f, seen[v][f])

\* A call has changed its files and is not over; what it replaced there.
Changing(w) == stage[w] \in {"check", "journal", "undo"} /\ ~ Dead(w)
Prior(w)    == IF Undoing(w) THEN New(undoes[w]) ELSE seen[w]

Changed(w, f) ==
    /\ files[f] = Image(w)[f]
    /\ ~ (Undoing(w) /\ Blind(w)) => Says(f, Prior(w)[f])
    /\ ~ Blind(w) => Expect(w)[f] = Prior(w)[f]

Sound(f) ==
    /\ Chain(f)
    /\ (\A w \in Writer : Changing(w) => f \notin Files(w)) => Says(f, files[f])
    /\ \A w \in Writer : Changing(w) /\ f \in Files(w) => Changed(w, f)
    /\ \A w \in Writer : stage[w] \in {"change", "write"} /\ f \in Files(w) /\ ~ Undoing(w) =>
          seen[w][f] = files[f] \/ (seen[w][f] = known[w][f] /\ ~ Blind(w))

Settle ==
    /\ seen = [w \in Writer |-> seen[w]]
    /\ \A w \in Writer :
          /\ pc[w] \in Active => stage[w] = "journal"
          /\ stage[w] \in {"journal", "undo"} /\ pc[w] # "read" /\ ~ Dead(w) =>
                journal \in {before[w], After(w)} /\ ~ Holds(before[w], w)
          /\ Undoing(w) /\ stage[w] # "idle" =>
                ~ Undoing(undoes[w]) /\ Kept(undoes[w])
          /\ stage[w] # "over" => reply[w] = "none"
          /\ stage[w] \in {"write", "check", "undo"} => ~ Blind(w)

\* What a call saw when it looked is still there, but for what editors wrote since.
Windows ==
    /\ late \subseteq edited
    /\ \A w \in Writer : \A f \in Files(w) \ late :
          /\ stage[w] = "write" => files[f] = Expect(w)[f]
          /\ stage[w] = "undo" => files[f] = Image(w)[f]
          /\ stage[w] = "change" /\ Blind(w) =>
                files[f] = IF Undoing(w) THEN Expect(w)[f] ELSE "absent"

Ordered == \A r, s \in Writer : ~ (Earlier(r, s) /\ Earlier(s, r))

ExplainedInv ==
    LedgerInv /\ Settle /\ Windows /\ Ordered /\ \A f \in File : Sound(f) \/ Excused(f)

-----------------------------------------------------------------------------
Precedes(j, r, s) == \E i, k \in DOMAIN j : i < k /\ j[i] = r /\ j[k] = s

\* The order of the records, when one is added at the end.
LEMMA AtTheEnd ==
  ASSUME NEW j \in JournalFiles, NEW w \in Writer, ~ Holds(j, w)
  PROVE  /\ \A r, q \in Writer : q # w =>
               (Precedes(Append(Text(j), w), r, q) <=> Precedes(Text(j), r, q))
         /\ \A q \in Writer : /\ ~ Precedes(Append(Text(j), w), w, q)
                              /\ ~ Precedes(Text(j), w, q)
         /\ \A r \in Writer : Holds(j, r) => Precedes(Append(Text(j), w), r, w)
<1> DEFINE s == Text(j)  t == Append(s, w)
<1>1. s \in Seq(Records) /\ w \in Records
  BY Added DEF Records
<1>2. /\ DOMAIN t = 1..(Len(s) + 1) /\ DOMAIN s = 1..Len(s) /\ Len(s) \in Nat
      /\ \A i \in 1..Len(s) : t[i] = s[i]
      /\ t[Len(s) + 1] = w
  BY <1>1
<1>3. \A i \in 1..Len(s) : s[i] # w
  BY <1>2 DEF Holds, Text, ToSet
<1> HIDE DEF t
<1>4. ASSUME NEW r \in Writer, NEW q \in Writer, q # w
      PROVE  Precedes(t, r, q) <=> Precedes(s, r, q)
  <2>1. ASSUME Precedes(t, r, q) PROVE Precedes(s, r, q)
    <3>1. PICK i \in DOMAIN t, k \in DOMAIN t : i < k /\ t[i] = r /\ t[k] = q
      BY <2>1 DEF Precedes
    <3>2. k # Len(s) + 1
      BY <1>2, <1>4, <3>1
    <3>3. i \in 1..Len(s) /\ k \in 1..Len(s)
      BY <1>2, <3>1, <3>2
    <3>. QED BY <1>2, <3>1, <3>3 DEF Precedes
  <2>2. ASSUME Precedes(s, r, q) PROVE Precedes(t, r, q)
    <3>1. PICK i \in DOMAIN s, k \in DOMAIN s : i < k /\ s[i] = r /\ s[k] = q
      BY <2>2 DEF Precedes
    <3>2. i \in DOMAIN t /\ k \in DOMAIN t /\ t[i] = r /\ t[k] = q
      BY <1>2, <3>1
    <3>. QED BY <3>1, <3>2 DEF Precedes
  <2>. QED BY <2>1, <2>2
<1>5. ASSUME NEW q \in Writer
      PROVE  ~ Precedes(t, w, q) /\ ~ Precedes(s, w, q)
  <2>1. ~ Precedes(s, w, q)
    BY <1>2, <1>3 DEF Precedes
  <2>2. ASSUME NEW i \in DOMAIN t, NEW k \in DOMAIN t, i < k, t[i] = w PROVE FALSE
    <3>1. i \in 1..Len(s)
      BY <1>2, <2>2
    <3>. QED BY <1>2, <1>3, <2>2, <3>1
  <2>. QED BY <2>1, <2>2 DEF Precedes
<1>6. ASSUME NEW r \in Writer, Holds(j, r)
      PROVE  Precedes(t, r, w)
  <2>1. PICK i \in DOMAIN s : s[i] = r
    BY <1>6 DEF Holds, Text, ToSet
  <2>2. i \in DOMAIN t /\ Len(s) + 1 \in DOMAIN t /\ i < Len(s) + 1 /\ t[i] = r
    BY <1>2, <2>1
  <2>. QED BY <1>2, <2>2 DEF Precedes
<1>7. \A r, q \in Writer : q # w => (Precedes(t, r, q) <=> Precedes(s, r, q))
  BY <1>4
<1>8. \A q \in Writer : ~ Precedes(t, w, q) /\ ~ Precedes(s, w, q)
  BY <1>5
<1>9. \A r \in Writer : Holds(j, r) => Precedes(t, r, w)
  BY <1>6
<1>. QED BY <1>7, <1>8, <1>9 DEF t

\* Of two records in the journal one is the earlier.
LEMMA Total ==
  ASSUME journal \in JournalFiles, NEW r \in Writer, NEW s \in Writer, r # s,
         Holds(journal, r), Holds(journal, s)
  PROVE  Earlier(r, s) \/ Earlier(s, r)
<1>1. Text(journal) \in Seq(Records)
  BY Added DEF Text, JournalFiles
<1>2. PICK i \in DOMAIN Text(journal), k \in DOMAIN Text(journal) :
         Text(journal)[i] = r /\ Text(journal)[k] = s
  BY DEF Holds, Text, ToSet
<1>3. i \in Nat /\ k \in Nat /\ i # k
  BY <1>1, <1>2
<1>4. i < k \/ k < i
  BY <1>3
<1>. QED BY <1>2, <1>4 DEF Earlier

LEMMA EarlierHeld ==
  ASSUME NEW r, NEW s, Earlier(r, s)
  PROVE  Holds(journal, r) /\ Holds(journal, s)
<1>1. PICK i \in DOMAIN Text(journal), k \in DOMAIN Text(journal) :
         Text(journal)[i] = r /\ Text(journal)[k] = s
  BY DEF Earlier
<1>2. journal # Missing
  BY <1>1 DEF Text
<1>. QED BY <1>1, <1>2 DEF Holds, Text, ToSet

\* The record of a call that is at work is the last one.
LEMMA LastRecord ==
  ASSUME LedgerInv, Settle, NEW w \in Writer,
         pc[w] = "read" \/ (stage[w] \in {"journal", "undo"} /\ ~ Dead(w))
  PROVE  /\ \A q \in Writer : ~ Earlier(w, q)
         /\ ~ Kept(w)
         /\ Holds(journal, w) => \A r \in Writer \ {w} : Holds(journal, r) => Earlier(r, w)
<1>1. CASE ~ Holds(journal, w)
  BY <1>1, EarlierHeld DEF Kept
<1>2. CASE Holds(journal, w)
  <2>1. pc[w] # "read" /\ stage[w] \in {"journal", "undo"} /\ ~ Dead(w) /\ before[w] \in JournalFiles
    BY <1>2 DEF LedgerInv, JournalInv, Turn, Shape
  <2>2. journal = After(w) /\ ~ Holds(before[w], w)
    BY <1>2, <2>1 DEF Settle
  <2>3. /\ Text(journal) = Append(Text(before[w]), w)
        /\ \A r \in Writer \ {w} : Holds(journal, r) => Holds(before[w], r)
    BY <2>1, <2>2, Added DEF After, Text
  <2>4. \A r, q \in Writer : Earlier(r, q) <=> Precedes(Text(journal), r, q)
    BY DEF Earlier, Precedes
  <2>5. Running(w)
    BY <2>1 DEF Running
  <2>. QED BY <2>1, <2>2, <2>3, <2>4, <2>5, AtTheEnd DEF Kept
<1>. QED BY <1>1, <1>2

\* A call that acts changes nothing of the others and is still open.
LEMMA OwnOnly ==
  ASSUME LedgerInv, Settle, NEW w \in Writer, Call(w)
  PROVE  /\ edited' = edited
         /\ seen' = [v \in Writer |-> seen'[v]]
         /\ pc[w] = "read" \/ (stage[w] \in {"journal", "undo"} /\ ~ Dead(w))
         /\ stage[w] # "over" /\ reply[w] = "none"
         /\ stage[w] # "idle" => /\ job'[w] = job[w] /\ undoes'[w] = undoes[w]
                                 /\ known'[w] = known[w]
         /\ stage[w] \notin {"idle", "planned"} => seen'[w] = seen[w]
         /\ stage'[w] # "idle"
         /\ \A v \in Writer \ {w} :
               /\ stage'[v] = stage[v] /\ job'[v] = job[v] /\ known'[v] = known[v]
               /\ seen'[v] = seen[v] /\ undoes'[v] = undoes[v] /\ reply'[v] = reply[v]
               /\ pc'[v] = pc[v] /\ result'[v] = result[v]
               /\ Holds(journal', v) <=> Holds(journal, v)
<1> USE DEF LedgerInv, Types
<1>1. CASE Plan(w)
  <2>1. pc[w] = "read"
    BY <1>1 DEF Plan, Progress
  <2>. QED BY <1>1, <2>1 DEF Plan, Settle, vars
<1>2. CASE RollbackPatch(w)
  <2>1. pc[w] = "read"
    BY <1>2 DEF RollbackPatch, Progress
  <2>. QED BY <1>2, <2>1 DEF RollbackPatch, Say, Settle, vars
<1>3. CASE PatchFile(w) \/ WriteFile(w) \/ ApplyWorkspaceEdit(w) \/ CommitStaged(w)
  <2>1. stage[w] = "planned" /\ pc[w] = "read"
    BY <1>3 DEF PatchFile, WriteFile, ApplyWorkspaceEdit, CommitStaged, Called, Progress
  <2>2. \/ Refuse(w)
        \/ \E images : Begin(w, images)
    BY <1>3 DEF PatchFile, WriteFile, ApplyWorkspaceEdit, CommitStaged
  <2>. QED BY <2>1, <2>2 DEF Refuse, Begin, Say, Settle, vars
<1>4. CASE \/ Look(w) \/ Transact(w) \/ WriteOrUnlink(w) \/ CheckSnapshot(w)
           \/ React(w) \/ Interrupt(w) \/ Restore(w)
  <2>1. /\ stage[w] \in {"change", "write", "check", "journal", "undo"} /\ ~ Dead(w)
        /\ stage[w] \in {"change", "write", "check"} => pc[w] = "read"
    BY <1>4 DEF Look, Transact, WriteOrUnlink, CheckSnapshot, React, Interrupt, Restore,
                Dead, Progress
  <2>2. UNCHANGED <<vars, job, known, seen, undoes, edited>>
    BY <1>4 DEF Look, Transact, WriteOrUnlink, CheckSnapshot, React, Interrupt, Restore
  <2>3. \E t \in Stages \ {"idle"} : stage' = [stage EXCEPT ![w] = t]
    <3>1. CASE CheckSnapshot(w) \/ React(w) \/ Interrupt(w)
      BY <3>1 DEF CheckSnapshot, React, Interrupt, TurnBack, Say, Stages
    <3>2. CASE Look(w) \/ Transact(w) \/ WriteOrUnlink(w) \/ Restore(w)
      BY <3>2 DEF Look, Transact, WriteOrUnlink, Restore, Say, Stages
    <3>. QED BY <1>4, <3>1, <3>2
  <2>4. \/ UNCHANGED reply
        \/ \E a : reply' = [reply EXCEPT ![w] = a]
    BY <1>4 DEF Look, Transact, WriteOrUnlink, CheckSnapshot, React, Interrupt, Restore,
                TurnBack, Say
  <2>. QED BY <2>1, <2>2, <2>3, <2>4 DEF Settle, vars
<1>5. CASE Record(w)
  <2>1. /\ stage[w] = "journal" /\ Step(w)
        /\ UNCHANGED <<stage, job, known, seen, undoes, reply, edited>>
    BY <1>5 DEF Record, ledger
  <2>2. /\ pc[w] # "done"
        /\ \A v \in Writer \ {w} : /\ pc'[v] = pc[v] /\ result'[v] = result[v]
                                   /\ Holds(journal', v) <=> Holds(journal, v)
    BY <2>1, StepIsOwn
  <2>. QED BY <2>1, <2>2 DEF Settle, Dead
<1>. QED BY <1>1, <1>2, <1>3, <1>4, <1>5 DEF Call

\* Its steps do not reorder what comes before its record.
LEMMA OrderStays ==
  ASSUME LedgerInv, Settle, NEW w \in Writer, Call(w)
  PROVE  /\ \A r, q \in Writer : q # w => (Earlier(r, q)' <=> Earlier(r, q))
         /\ \A q \in Writer : ~ Earlier(w, q) /\ ~ Earlier(w, q)'
<1>1. pc[w] = "read" \/ (stage[w] \in {"journal", "undo"} /\ ~ Dead(w))
  BY OwnOnly
<1>2. \A q \in Writer : ~ Earlier(w, q)
  BY <1>1, LastRecord
<1>3. CASE journal' = journal
  BY <1>2, <1>3 DEF Earlier, Text
<1>4. CASE journal' # journal
  <2>1. Record(w)
    BY <1>4 DEF Call, Plan, RollbackPatch, PatchFile, WriteFile, ApplyWorkspaceEdit,
                CommitStaged, Begin, Refuse, Look, Transact, WriteOrUnlink, CheckSnapshot,
                React, Interrupt, Restore, vars
  <2>2. pc[w] \in Active /\ journal' \in {before[w], After(w)}
    BY <1>4, <2>1 DEF Record, Step, Read, WriteTemporary, Replace, Observe, PrepareUndo,
                      Undo, Final, Crash, Active
  <2>3. journal \in {before[w], After(w)} /\ ~ Holds(before[w], w) /\ before[w] \in JournalFiles
    BY <2>2 DEF LedgerInv, JournalInv, Turn, Shape
  <2>4. Text(After(w)) = Append(Text(before[w]), w)
    BY <2>3, Added DEF After, Text
  <2>5. Text(journal) \in {Text(before[w]), Append(Text(before[w]), w)}
    BY <2>3, <2>4
  <2>6. Text(journal') \in {Text(before[w]), Append(Text(before[w]), w)}
    BY <2>2, <2>4
  <2>7. /\ \A r, q \in Writer : Earlier(r, q) <=> Precedes(Text(journal), r, q)
        /\ \A r, q \in Writer : Earlier(r, q)' <=> Precedes(Text(journal'), r, q)
    BY DEF Earlier, Precedes, Text
  <2> DEFINE old == Text(before[w])  full == Append(Text(before[w]), w)
  <2>8. /\ \A r, q \in Writer : q # w => (Precedes(full, r, q) <=> Precedes(old, r, q))
        /\ \A q \in Writer : ~ Precedes(full, w, q) /\ ~ Precedes(old, w, q)
    BY <2>3, AtTheEnd
  <2>9. Text(journal) \in {old, full} /\ Text(journal') \in {old, full}
    BY <2>5, <2>6
  <2> HIDE DEF old, full
  <2>. QED BY <2>7, <2>8, <2>9
<1>. QED BY <1>3, <1>4

LEMMA OrderedStep ==
  ASSUME LedgerInv, Settle, Ordered, NEW w \in Writer, Call(w)
  PROVE  Ordered'
<1> SUFFICES ASSUME NEW r \in Writer, NEW s \in Writer, Earlier(r, s)', Earlier(s, r)'
             PROVE  FALSE
  BY DEF Ordered
<1>1. r # w /\ s # w
  BY OrderStays
<1>2. Earlier(r, s) /\ Earlier(s, r)
  BY <1>1, OrderStays
<1>. QED BY <1>2 DEF Ordered

\* What a call is about stays the same while another call acts.
LEMMA OthersStay ==
  ASSUME LedgerInv, Settle, NEW w \in Writer, Call(w)
  PROVE  /\ ~ Kept(w)
         /\ \A v \in Writer \ {w} : /\ Kept(v)' <=> Kept(v)
                                    /\ Running(v)' <=> Running(v)
                                    /\ Changing(v)' <=> Changing(v)
                                    /\ Dead(v)' <=> Dead(v)
                                    /\ Undoing(v)' <=> Undoing(v)
                                    /\ New(v)' = New(v)
         /\ stage[w] # "idle" => (Undoing(w)' <=> Undoing(w)) /\ New(w)' = New(w)
         /\ \A v \in Writer : stage[v] # "idle" => /\ Files(v)' = Files(v)
                                                   /\ Blind(v)' <=> Blind(v)
                                                   /\ Expect(v)' = Expect(v)
                                                   /\ Undoing(v) => undoes[v] # w
         /\ \A v \in Writer : stage[v] # "idle" /\ (v = w => stage[v] # "planned") =>
               Image(v)' = Image(v) /\ Prior(v)' = Prior(v)
<1>1. ~ Kept(w)
  BY OwnOnly, LastRecord
<1>2. \A v \in Writer \ {w} : /\ Kept(v)' <=> Kept(v)
                              /\ Running(v)' <=> Running(v)
                              /\ Changing(v)' <=> Changing(v)
                              /\ Dead(v)' <=> Dead(v)
                              /\ Undoing(v)' <=> Undoing(v)
                              /\ New(v)' = New(v)
  BY OwnOnly DEF Kept, Running, Dead, Changing, Undoing, New
<1>3. stage[w] # "idle" => (Undoing(w)' <=> Undoing(w)) /\ New(w)' = New(w)
  BY OwnOnly DEF Undoing, New
<1>4. ASSUME NEW v \in Writer, stage[v] # "idle"
      PROVE  /\ Files(v)' = Files(v) /\ (Blind(v)' <=> Blind(v)) /\ Expect(v)' = Expect(v)
             /\ Undoing(v) => undoes[v] # w
             /\ (v = w => stage[v] # "planned") => Image(v)' = Image(v) /\ Prior(v)' = Prior(v)
  <2>1. /\ job'[v] = job[v] /\ undoes'[v] = undoes[v] /\ known'[v] = known[v]
        /\ (v = w => stage[v] # "planned") => seen'[v] = seen[v]
    BY <1>4, OwnOnly
  <2>2. CASE Undoing(v)
    <3>1. undoes[v] \in Writer /\ undoes[v] # w
      BY <1>1, <1>4, <2>2 DEF Settle, LedgerInv, Types
    <3>2. /\ job'[undoes[v]] = job[undoes[v]] /\ seen'[undoes[v]] = seen[undoes[v]]
      BY <3>1, OwnOnly
    <3>. QED BY <2>1, <2>2, <3>1, <3>2 DEF Undoing, Files, Kind, Blind, Expect, Image, New, Prior
  <2>3. CASE ~ Undoing(v)
    BY <2>1, <2>3 DEF Undoing, Files, Kind, Blind, Expect, Image, New, Prior
  <2>. QED BY <2>2, <2>3
<1>. QED BY <1>1, <1>2, <1>3, <1>4

\* Where the ledger need not explain a file, it need not ever after.
LEMMA ExcuseStays ==
  ASSUME LedgerInv, Settle, NEW w \in Writer, Call(w), NEW f, Excused(f)
  PROVE  Excused(f)'
<1>1. CASE f \in edited
  BY <1>1, OwnOnly DEF Excused
<1>2. ASSUME NEW v \in Writer, f \in Files(v), Open(v) \/ Ghost(v)
      PROVE  Excused(f)'
  <2>1. v # w /\ stage[v] # "idle"
    BY <1>2, OwnOnly DEF Open, Ghost, Settle, Dead
  <2>2. Files(v)' = Files(v)
    BY <2>1, OthersStay
  <2>3. (Open(v) \/ Ghost(v))'
    BY <1>2, <2>1, OwnOnly, OthersStay DEF Open, Ghost
  <2>. QED BY <1>2, <2>2, <2>3 DEF Excused
<1>3. CASE Skipped(f)
  <2>1. PICK v \in Writer, u \in Writer :
           /\ Undoing(v) /\ reply[v] = "applied" /\ ~ Undoing(u)
           /\ f \in Files(v) /\ f \in Files(u)
           /\ Earlier(undoes[v], u) /\ Earlier(u, v)
           /\ ~ \E r \in Writer : Undoing(r) /\ undoes[r] = u /\ Earlier(r, v)
    BY <1>3 DEF Skipped
  <2>2. v # w /\ u # w /\ stage[v] # "idle" /\ undoes[v] \in Writer
    BY <2>1, OwnOnly, OrderStays DEF Settle, LedgerInv, Types
  <2>3. /\ Undoing(v)' /\ reply'[v] = "applied" /\ undoes'[v] = undoes[v] /\ ~ Undoing(u)'
        /\ f \in Files(v)' /\ f \in Files(u)'
    <3>1. job'[u] = job[u]
      BY <2>2, OwnOnly
    <3>. QED BY <2>1, <2>2, <3>1, OwnOnly, OthersStay DEF Files, Undoing
  <2>4. Earlier(undoes[v], u)' /\ Earlier(u, v)'
    <3>1. PICK c \in Writer : c = undoes[v]
      BY <2>2
    <3>2. Earlier(c, u)' /\ Earlier(u, v)'
      BY <2>1, <2>2, <3>1, OrderStays
    <3>. QED BY <2>3, <3>1, <3>2 DEF Earlier
  <2>5. ASSUME NEW r \in Writer, Undoing(r)', undoes'[r] = u, Earlier(r, v)'
        PROVE  FALSE
    <3>1. r # w /\ Earlier(r, v)
      BY <2>2, <2>5, OrderStays
    <3>2. Undoing(r) /\ undoes[r] = u
      BY <2>5, <3>1, OwnOnly, OthersStay
    <3>. QED BY <2>1, <3>1, <3>2
  <2>. QED BY <2>3, <2>4, <2>5 DEF Excused, Skipped
<1>. QED BY <1>1, <1>2, <1>3 DEF Excused

\* What the ledger says of a file does not change unless the call that acts ends
\* with its record in the journal, and has changed the file.
LEMMA ViewStays ==
  ASSUME LedgerInv, Settle, NEW w \in Writer, Call(w), NEW f,
         Kept(w)' => stage[w] # "idle" /\ f \notin Files(w)
  PROVE  /\ \A v \in Writer : Firm(v, f)' <=> Firm(v, f)
         /\ \A x : Says(f, x)' <=> Says(f, x)
         /\ Chain(f) => Chain(f)'
<1>1. ~ Kept(w)
  BY OthersStay
<1>2. \A v \in Writer \ {w} : /\ Kept(v)' <=> Kept(v)
                              /\ Undoing(v)' <=> Undoing(v)
                              /\ New(v)' = New(v)
                              /\ seen'[v] = seen[v] /\ undoes'[v] = undoes[v]
  BY OthersStay, OwnOnly
<1>3. \A v \in Writer : Kept(v) => stage[v] # "idle"
  BY DEF Kept, LedgerInv, Progress, JournalInv, Turn
<1>4. \A v \in Writer : Kept(v) => v # w /\ Files(v)' = Files(v)
  BY <1>1, <1>3, OthersStay
<1>5. ASSUME NEW v \in Writer, Kept(v), ~ Undoing(v), f \in Files(v)
      PROVE  Undone(v)' <=> Undone(v)
  <2>1. ASSUME Kept(w)', Undoing(w)', undoes'[w] = v PROVE FALSE
    <3>1. Files(w)' = Files(w) /\ stage[w] # "idle"
      BY <2>1, OthersStay
    <3>2. Files(w)' = Files(v)'
      <4>1. ~ Undoing(v)'
        BY <1>2, <1>4, <1>5
      <4>. QED BY <2>1, <4>1 DEF Files, Undoing
    <3>. QED BY <1>4, <1>5, <2>1, <3>1, <3>2
  <2>. QED BY <1>1, <1>2, <2>1 DEF Undone
<1>6. ASSUME NEW v \in Writer
      PROVE  Firm(v, f)' <=> Firm(v, f)
  <2>1. CASE v = w
    <3>1. ~ Firm(v, f)
      BY <1>1, <2>1 DEF Firm
    <3>2. ~ Firm(v, f)'
      BY <2>1, OthersStay DEF Firm
    <3>. QED BY <3>1, <3>2
  <2>2. CASE v # w
    BY <1>2, <1>4, <1>5, <2>2 DEF Firm
  <2>. QED BY <2>1, <2>2
<1>7. \A v \in Writer : Firm(v, f) => v # w /\ New(v)' = New(v) /\ seen'[v] = seen[v]
  BY <1>1, <1>2 DEF Firm
<1>8. \A r, q \in Writer : q # w => (Earlier(r, q)' <=> Earlier(r, q))
  BY OrderStays
<1>9. ASSUME NEW x PROVE Says(f, x)' <=> Says(f, x)
  BY <1>6, <1>7, <1>8 DEF Says
<1>10. ASSUME Chain(f) PROVE Chain(f)'
  <2> SUFFICES ASSUME NEW v \in Writer, Firm(v, f)' PROVE SaysBelow(v, f, seen[v][f])'
    BY DEF Chain
  <2>1. Firm(v, f) /\ v # w /\ seen'[v] = seen[v]
    BY <1>6, <1>7
  <2>2. SaysBelow(v, f, seen[v][f])
    BY <1>10, <2>1 DEF Chain
  <2>. QED BY <1>6, <1>7, <1>8, <2>1, <2>2 DEF SaysBelow
<1>. QED BY <1>6, <1>9, <1>10

LEMMA SettleStep ==
  ASSUME LedgerInv, LedgerInv', Settle, NEW w \in Writer, Call(w)
  PROVE  Settle'
<1> DEFINE One(v) ==
      /\ pc[v] \in Active => stage[v] = "journal"
      /\ stage[v] \in {"journal", "undo"} /\ pc[v] # "read" /\ ~ Dead(v) =>
            journal \in {before[v], After(v)} /\ ~ Holds(before[v], v)
      /\ Undoing(v) /\ stage[v] # "idle" => ~ Undoing(undoes[v]) /\ Kept(undoes[v])
      /\ stage[v] # "over" => reply[v] = "none"
      /\ stage[v] \in {"write", "check", "undo"} => ~ Blind(v)
<1>1. \A v \in Writer : Kept(v) => v # w /\ Kept(v)' /\ (Undoing(v)' <=> Undoing(v))
  BY OthersStay
<1>2. ASSUME NEW v \in Writer, Undoing(v), stage[v] # "idle", undoes'[v] = undoes[v]
      PROVE  ~ Undoing(undoes[v])' /\ Kept(undoes[v])'
  <2>1. PICK c \in Writer : c = undoes[v]
    BY DEF LedgerInv, Types
  <2>2. Kept(c) /\ ~ Undoing(c)
    BY <1>2, <2>1 DEF Settle
  <2>3. Kept(c)' /\ ~ Undoing(c)' /\ c = undoes'[v]
    BY <1>1, <1>2, <2>1, <2>2
  <2>. QED BY <2>3 DEF Kept, Undoing, Running, Dead
<1>3. ASSUME NEW v \in Writer \ {w} PROVE One(v)'
  <2>1. /\ stage'[v] = stage[v] /\ pc'[v] = pc[v] /\ undoes'[v] = undoes[v]
        /\ reply'[v] = reply[v] /\ (Undoing(v)' <=> Undoing(v)) /\ (Dead(v)' <=> Dead(v))
    BY OwnOnly, OthersStay
  <2>2. stage[v] \in {"journal", "undo"} /\ pc[v] # "read" /\ ~ Dead(v) =>
           journal' \in {before'[v], After(v)'} /\ ~ Holds(before'[v], v)
    <3>1. SUFFICES ASSUME stage[v] \in {"journal", "undo"}, pc[v] # "read", ~ Dead(v)
                   PROVE  UNCHANGED <<journal, before>>
      BY DEF Settle, After
    <3>2. ~ Running(w)
      BY <3>1 DEF Running, LedgerInv, Alone
    <3>3. ~ Record(w)
      BY <3>2, StepIsOwn DEF Record, Running, Dead, LedgerInv
    <3>. QED BY <3>3 DEF Call, Plan, RollbackPatch, PatchFile, WriteFile, ApplyWorkspaceEdit,
                CommitStaged, Begin, Refuse, Look, Transact, WriteOrUnlink, CheckSnapshot,
                React, Interrupt, Restore, vars
  <2>3. stage[v] \in {"write", "check", "undo"} => (Blind(v)' <=> Blind(v))
    BY OthersStay
  <2>4. One(v)
    BY DEF Settle
  <2>. QED BY <1>2, <2>1, <2>2, <2>3, <2>4
<1>4. One(w)'
  <2>1. CASE Plan(w)
    <3>1. stage'[w] = "planned" /\ UNCHANGED <<pc, reply>> /\ pc[w] = "read" /\ reply[w] = "none"
      BY <2>1, OwnOnly DEF Plan, LedgerInv, Types, Progress, vars
    <3>2. ~ Undoing(w)'
      BY <3>1 DEF LedgerInv, Progress
    <3>. QED BY <3>1, <3>2 DEF Active
  <2>2. CASE RollbackPatch(w)
    <3>1. PICK v \in Writer : /\ Candidate(v) /\ undoes'[w] = v
                              /\ stage'[w] \in {"change", "over"}
                              /\ stage'[w] = "over" \/ reply'[w] = "none"
      BY <2>2, OwnOnly DEF RollbackPatch, Say, LedgerInv, Types
    <3>2. pc'[w] = "read"
      BY <2>2 DEF RollbackPatch, LedgerInv, Progress, vars
    <3>3. Kept(v) /\ ~ Undoing(v)
      BY <2>2, <3>1 DEF RollbackPatch, Quiet, Candidate, Kept
    <3>4. Kept(v)' /\ ~ Undoing(v)'
      BY <1>1, <3>3
    <3>5. ~ Undoing(undoes[w])' /\ Kept(undoes[w])'
      BY <3>1, <3>4 DEF Kept, Undoing, Running, Dead
    <3>. QED BY <3>1, <3>2, <3>5 DEF Active
  <2>3. CASE PatchFile(w) \/ WriteFile(w) \/ ApplyWorkspaceEdit(w) \/ CommitStaged(w)
    <3>1. stage[w] = "planned"
      BY <2>3 DEF PatchFile, WriteFile, ApplyWorkspaceEdit, CommitStaged, Called
    <3>2. Refuse(w) \/ \E images : Begin(w, images)
      BY <2>3 DEF PatchFile, WriteFile, ApplyWorkspaceEdit, CommitStaged
    <3>3. /\ stage'[w] \in {"change", "over"}
          /\ stage'[w] = "over" \/ reply'[w] = "none"
          /\ UNCHANGED <<pc, job>> /\ pc[w] = "read"
      BY <3>1, <3>2, OwnOnly DEF Refuse, Begin, Say, LedgerInv, Types, Progress, vars
    <3>4. ~ Undoing(w)'
      BY <3>1, <3>3 DEF LedgerInv, Progress, Undoing
    <3>. QED BY <3>3, <3>4 DEF Active
  <2>4. CASE \/ Look(w) \/ Transact(w) \/ WriteOrUnlink(w) \/ CheckSnapshot(w)
             \/ React(w) \/ Interrupt(w) \/ Restore(w)
    <3>1. /\ stage[w] \in {"change", "write", "check", "journal", "undo"} /\ ~ Dead(w)
          /\ stage[w] \in {"change", "write", "check"} => pc[w] = "read"
      BY <2>4 DEF Look, Transact, WriteOrUnlink, CheckSnapshot, React, Interrupt, Restore,
                  Dead, LedgerInv, Progress
    <3>2. UNCHANGED <<vars, job, undoes>>
      BY <2>4 DEF Look, Transact, WriteOrUnlink, CheckSnapshot, React, Interrupt, Restore
    <3>3. \/ stage'[w] = "over"
          \/ /\ stage'[w] \in {"write", "check", "journal", "undo"} /\ UNCHANGED reply
             /\ stage'[w] \in {"write", "check", "journal"} => pc[w] = "read"
             /\ stage'[w] \in {"write", "check"} => ~ Blind(w)
      <4>1. CASE CheckSnapshot(w) \/ React(w) \/ Interrupt(w)
        BY <3>1, <4>1 DEF CheckSnapshot, React, Interrupt, TurnBack, Say, LedgerInv, Types
      <4>2. CASE Look(w) \/ WriteOrUnlink(w) \/ Restore(w)
        BY <3>1, <4>2 DEF Look, WriteOrUnlink, Restore, Say, LedgerInv, Types
      <4>3. CASE Transact(w)
        BY <3>1, <4>3 DEF Transact, Say, LedgerInv, Types, Settle
      <4>. QED BY <2>4, <4>1, <4>2, <4>3
    <3>4. stage'[w] = "undo" => ~ Blind(w)
      <4>1. ASSUME stage'[w] = "undo"
            PROVE  CheckSnapshot(w) \/ React(w) \/ Interrupt(w)
        BY <2>4, <4>1 DEF Look, Transact, WriteOrUnlink, Restore, Say, LedgerInv, Types
      <4>2. stage'[w] = "undo" => stage[w] = "check" \/ ~ Blind(w)
        BY <4>1 DEF CheckSnapshot, React, Interrupt, Say, LedgerInv, Types, Rooted, Blind
      <4>. QED BY <4>2 DEF Settle
    <3>5. Undoing(w)' => ~ Undoing(undoes[w])' /\ Kept(undoes[w])'
      BY <1>2, <3>1, <3>2 DEF Undoing
    <3>6. pc[w] \notin Active /\ pc' = pc
      <4>1. stage[w] = "journal" => pc[w] = "done"
        BY <2>4 DEF Look, Transact, WriteOrUnlink, CheckSnapshot, React, Interrupt, Restore
      <4>. QED BY <3>1, <3>2, <4>1 DEF Settle, Active, vars
    <3>7. Blind(w)' <=> Blind(w)
      BY <3>1, OthersStay
    <3>8. stage'[w] # "over" => reply'[w] = "none"
      BY <3>3, OwnOnly
    <3>9. stage'[w] \in {"journal", "undo"} /\ pc'[w] # "read" =>
             /\ journal' \in {before'[w], After(w)'} /\ ~ Holds(before'[w], w)
      <4>1. stage'[w] = "undo" /\ pc[w] # "read" => stage[w] = "journal"
        BY <2>4, <3>1 DEF Look, Transact, WriteOrUnlink, CheckSnapshot, React, Interrupt,
                          Restore, Say, LedgerInv, Types
      <4>2. stage'[w] \in {"journal", "undo"} /\ pc[w] # "read" =>
               journal \in {before[w], After(w)} /\ ~ Holds(before[w], w)
        BY <3>1, <3>3, <4>1 DEF Settle
      <4>. QED BY <3>2, <3>6, <4>2 DEF vars, After
    <3>. QED BY <3>3, <3>4, <3>5, <3>6, <3>7, <3>8, <3>9
  <2>5. CASE Record(w)
    <3>1. /\ stage[w] = "journal" /\ Step(w)
          /\ UNCHANGED <<stage, job, known, seen, undoes, reply, edited>>
      BY <2>5 DEF Record, ledger
    <3>2. Undoing(w)' => ~ Undoing(undoes[w])' /\ Kept(undoes[w])'
      BY <1>2, <3>1 DEF Undoing
    <3>3. pc'[w] \in Active => journal' \in {before'[w], After(w)'} /\ ~ Holds(before'[w], w)
      BY DEF LedgerInv, JournalInv, Turn
    <3>4. pc'[w] = "done" /\ ~ Dead(w)' =>
             journal' \in {before'[w], After(w)'} /\ ~ Holds(before'[w], w)
      <4>1. SUFFICES ASSUME pc'[w] = "done", ~ Dead(w)'
                     PROVE  /\ UNCHANGED before /\ journal' \in {before[w], After(w)}
                            /\ ~ Holds(before[w], w)
        BY DEF After
      <4>2. result'[w] # "none"
        BY <3>1, <4>1 DEF Dead
      <4>3. ~ Crash(w) /\ ~ Read(w)
        BY <4>1, <4>2 DEF Crash, Read, Finish, Goto, LedgerInv, JournalInv, Shape
      <4>4. /\ pc[w] \in Active /\ UNCHANGED before
            /\ UNCHANGED journal \/ journal' \in {before[w], After(w)}
        BY <3>1, <4>3 DEF Step, WriteTemporary, Replace, Observe, PrepareUndo, Undo, Final, Active
      <4>. QED BY <4>4 DEF LedgerInv, JournalInv, Turn
    <3>5. pc'[w] \in Active \cup {"read", "done"}
      BY DEF LedgerInv, JournalInv, Shape
    <3>. QED BY <3>1, <3>2, <3>3, <3>4, <3>5, OwnOnly
  <2>. QED BY <2>1, <2>2, <2>3, <2>4, <2>5 DEF Call
<1>5. seen' = [v \in Writer |-> seen'[v]]
  BY OwnOnly
<1> HIDE DEF One
<1>6. \A v \in Writer : One(v)'
  BY <1>3, <1>4
<1>. QED BY <1>5, <1>6 DEF Settle, One

\* While a call acts, no other one is at work.
LEMMA OnlyOne ==
  ASSUME LedgerInv, NEW w \in Writer, Call(w), NEW v \in Writer \ {w}
  PROVE  ~ Running(v) /\ ~ Changing(v) /\ stage[v] \notin {"change", "write", "undo"}
<1>1. Quiet \/ Running(w)
  <2>1. Record(w) => pc[w] # "done"
    BY StepIsOwn DEF Record, LedgerInv
  <2>. QED BY <2>1 DEF Call, Plan, RollbackPatch, PatchFile, WriteFile, ApplyWorkspaceEdit,
              CommitStaged, Called, Look, Transact, WriteOrUnlink, CheckSnapshot, Record,
              React, Interrupt, Restore, Running, Dead
<1>2. ~ Running(v)
  BY <1>1 DEF Quiet, LedgerInv, Alone
<1>. QED BY <1>2 DEF Running, Changing, Dead

\* Between its look and its writes nobody but an editor changes the files of a call.
LEMMA WindowsStep ==
  ASSUME LedgerInv, Settle, Windows, NEW w \in Writer, Call(w)
  PROVE  Windows'
<1> DEFINE One(v) ==
      \A f \in Files(v) \ late :
          /\ stage[v] = "write" => files[f] = Expect(v)[f]
          /\ stage[v] = "undo" => files[f] = Image(v)[f]
          /\ stage[v] = "change" /\ Blind(v) =>
                files[f] = IF Undoing(v) THEN Expect(v)[f] ELSE "absent"
<1>1. late' \subseteq edited'
  <2>1. edited' = edited
    BY OwnOnly
  <2>2. late' \in {late, {}}
    BY DEF Call, Plan, PatchFile, WriteFile, ApplyWorkspaceEdit, CommitStaged,
           RollbackPatch, Look, Transact, WriteOrUnlink, CheckSnapshot, Record, React,
           Interrupt, Restore, TurnBack, Begin, Refuse, ledger
  <2>. QED BY <2>1, <2>2 DEF Windows
<1>2. ASSUME NEW v \in Writer \ {w} PROVE One(v)'
  <2>1. stage'[v] \notin {"change", "write", "undo"}
    BY OnlyOne, OwnOnly
  <2>. QED BY <2>1
<1>3. One(w)'
  <2>1. CASE RollbackPatch(w)
    <3>1. PICK v \in Writer :
             /\ undoes' = [undoes EXCEPT ![w] = v]
             /\ RollbackAllowed(v) \/ Say(w, "refused")
             /\ stage'[w] \in {"change", "over"}
      BY <2>1 DEF RollbackPatch, Say, LedgerInv, Types
    <3>2. Undoing(w)' /\ undoes'[w] = v /\ UNCHANGED <<files, job>>
      BY <2>1, <3>1 DEF RollbackPatch, LedgerInv, Progress, Undoing, Types
    <3>3. /\ Files(w)' = DOMAIN job[v].images /\ Expect(w)' = New(v)
          /\ Blind(w)' => job[v].kind = "write"
      BY <3>2 DEF Files, Expect, New, Blind, Kind, Undoing
    <3>4. CASE RollbackAllowed(v)
      <4>1. ASSUME Blind(w)', NEW f \in Files(w)' PROVE files'[f] = Expect(w)'[f]
        BY <3>2, <3>3, <3>4, <4>1 DEF RollbackAllowed
      <4>. QED BY <3>1, <3>2, <4>1
    <3>5. CASE Say(w, "refused")
      BY <3>5 DEF Say, LedgerInv, Types
    <3>. QED BY <3>1, <3>4, <3>5
  <2>2. CASE PatchFile(w) \/ WriteFile(w) \/ ApplyWorkspaceEdit(w) \/ CommitStaged(w)
    <3>1. stage[w] = "planned" /\ ~ Undoing(w)
      BY <2>2 DEF PatchFile, WriteFile, ApplyWorkspaceEdit, CommitStaged, Called,
                  LedgerInv, Progress
    <3>2. Files(w)' = Files(w) /\ (Blind(w)' <=> Blind(w)) /\ ~ Undoing(w)'
      BY <3>1, OthersStay
    <3>3. UNCHANGED files /\ stage'[w] \in {"change", "over"}
      BY <2>2 DEF PatchFile, WriteFile, ApplyWorkspaceEdit, CommitStaged, Begin, Refuse,
                  Say, LedgerInv, Types
    <3>4. stage'[w] = "change" /\ Blind(w) => \A f \in Files(w) : files[f] = "absent"
      BY <2>2 DEF PatchFile, WriteFile, ApplyWorkspaceEdit, CommitStaged, Called, Blind,
                  Refuse, Say, LedgerInv, Types
    <3>. QED BY <3>2, <3>3, <3>4
  <2>3. CASE \/ Look(w) \/ Transact(w) \/ WriteOrUnlink(w) \/ CheckSnapshot(w)
             \/ React(w) \/ Interrupt(w) \/ Restore(w)
    <3>1. stage[w] \notin {"idle", "planned"}
      BY <2>3 DEF Look, Transact, WriteOrUnlink, CheckSnapshot, React, Interrupt, Restore
    <3>2. Files(w)' = Files(w) /\ Expect(w)' = Expect(w) /\ Image(w)' = Image(w)
      BY <3>1, OthersStay
    <3>3. /\ stage'[w] # "change"
          /\ stage'[w] = "write" => Holding(w, Expect(w)) /\ UNCHANGED files
          /\ stage'[w] = "undo" => Holding(w, Image(w)) /\ UNCHANGED files
      <4>1. CASE Look(w) \/ Transact(w) \/ WriteOrUnlink(w) \/ Restore(w)
        BY <4>1 DEF Look, Transact, WriteOrUnlink, Restore, Say, LedgerInv, Types
      <4>2. CASE CheckSnapshot(w) \/ React(w) \/ Interrupt(w)
        BY <4>2 DEF CheckSnapshot, React, Interrupt, TurnBack, Say, LedgerInv, Types
      <4>. QED BY <2>3, <4>1, <4>2
    <3>. QED BY <3>2, <3>3 DEF Holding
  <2>4. CASE Plan(w)
    BY <2>4 DEF Plan, LedgerInv, Types
  <2>5. CASE Record(w)
    BY <2>5 DEF Record, ledger
  <2>. QED BY <2>1, <2>2, <2>3, <2>4, <2>5 DEF Call
<1> HIDE DEF One
<1>4. \A v \in Writer : One(v)'
  BY <1>2, <1>3
<1>. QED BY <1>1, <1>4 DEF Windows, One

\* What remains to be shown of the call that acts.
LEMMA StillSound ==
  ASSUME LedgerInv, Settle, NEW w \in Writer, Call(w), NEW f, Sound(f),
         Kept(w)' => stage[w] # "idle" /\ f \notin Files(w),
         Changing(w)' /\ f \in Files(w)' =>
            /\ files'[f] = Image(w)'[f]
            /\ ~ (Undoing(w)' /\ Blind(w)') => \E x : x = Prior(w)'[f] /\ Says(f, x)
            /\ ~ Blind(w)' => Expect(w)'[f] = Prior(w)'[f],
         ~ (Changing(w)' /\ f \in Files(w)') => \E x : x = files'[f] /\ Says(f, x),
         stage'[w] \in {"change", "write"} /\ f \in Files(w)' /\ ~ Undoing(w)' =>
            seen'[w][f] = files'[f] \/ (seen'[w][f] = known'[w][f] /\ ~ Blind(w)')
  PROVE  Sound(f)'
<1>1. Chain(f)' /\ \A x : Says(f, x)' <=> Says(f, x)
  BY ViewStays DEF Sound
<1>2. \A v \in Writer \ {w} : ~ Changing(v)' /\ stage'[v] \notin {"change", "write"}
  BY OnlyOne, OwnOnly, OthersStay
<1>3. ASSUME NEW x, x = files'[f], Says(f, x) PROVE Says(f, files[f])'
  <2>1. Says(f, x)'
    BY <1>1, <1>3
  <2>. QED BY <1>3, <2>1 DEF Says
<1>4. ASSUME NEW x, x = Prior(w)'[f], Says(f, x) PROVE Says(f, Prior(w)[f])'
  <2>1. Says(f, x)'
    BY <1>1, <1>4
  <2>. QED BY <1>4, <2>1 DEF Says
<1>5. Changing(w)' /\ f \in Files(w)' => Changed(w, f)'
  BY <1>4 DEF Changed
<1>6. (\A v \in Writer : Changing(v) => f \notin Files(v))' => Says(f, files[f])'
  BY <1>3
<1>. QED BY <1>1, <1>2, <1>5, <1>6 DEF Sound

LEMMA BeginSound ==
  ASSUME LedgerInv, Settle, NEW w \in Writer, Call(w), NEW f \in File, Sound(f),
         \/ Plan(w) \/ RollbackPatch(w) \/ PatchFile(w) \/ WriteFile(w)
         \/ ApplyWorkspaceEdit(w) \/ CommitStaged(w)
  PROVE  Sound(f)'
<1>1. /\ Quiet /\ stage[w] \in {"idle", "planned"} /\ pc[w] = "read"
      /\ UNCHANGED <<vars, files>> /\ stage'[w] \in {"planned", "change", "over"}
  <2>1. Quiet /\ stage[w] \in {"idle", "planned"} /\ UNCHANGED <<vars, files>>
    BY DEF Plan, RollbackPatch, PatchFile, WriteFile, ApplyWorkspaceEdit, CommitStaged,
           Called, Begin, Refuse
  <2>2. stage'[w] \in {"planned", "change", "over"}
    BY DEF Plan, RollbackPatch, PatchFile, WriteFile, ApplyWorkspaceEdit, CommitStaged,
           Begin, Refuse, Say, LedgerInv, Types
  <2>. QED BY <2>1, <2>2 DEF LedgerInv, Progress
<1>2. Says(f, files[f])
  BY <1>1 DEF Quiet, Running, Changing, Sound
<1>3. ~ Kept(w)' /\ ~ Changing(w)'
  <2>1. ~ Holds(journal, w)
    BY <1>1 DEF LedgerInv, JournalInv, Turn
  <2>. QED BY <1>1, <2>1 DEF Kept, Changing, vars
<1>4. ASSUME stage'[w] \in {"change", "write"}, f \in Files(w)', ~ Undoing(w)'
      PROVE  seen'[w][f] = files'[f] \/ (seen'[w][f] = known'[w][f] /\ ~ Blind(w)')
  <2>1. ~ Plan(w)
    BY <1>4 DEF Plan, LedgerInv, Types
  <2>2. ~ RollbackPatch(w)
    BY <1>4 DEF RollbackPatch, LedgerInv, Progress, Undoing
  <2>3. \/ PatchFile(w) \/ WriteFile(w) \/ ApplyWorkspaceEdit(w) \/ CommitStaged(w)
    BY <2>1, <2>2
  <2>4. stage[w] = "planned"
    BY <2>3 DEF PatchFile, WriteFile, ApplyWorkspaceEdit, CommitStaged, Called
  <2>5. Files(w)' = Files(w) /\ (Blind(w)' <=> Blind(w)) /\ known'[w] = known[w]
    BY <2>4, OthersStay, OwnOnly
  <2>6. ~ Refuse(w)
    BY <1>4 DEF Refuse, Say, LedgerInv, Types
  <2>7. CASE PatchFile(w)
    BY <1>1, <1>4, <2>5, <2>6, <2>7 DEF PatchFile, Begin, Settle
  <2>8. CASE WriteFile(w)
    BY <1>1, <1>4, <2>5, <2>6, <2>8 DEF WriteFile, Begin, Settle
  <2>9. CASE ApplyWorkspaceEdit(w)
    BY <1>1, <1>4, <2>5, <2>9 DEF ApplyWorkspaceEdit, Called, Blind, Begin, Settle
  <2>10. CASE CommitStaged(w)
    BY <1>1, <1>4, <2>5, <2>6, <2>10 DEF CommitStaged, Begin, Settle
  <2>. QED BY <2>3, <2>7, <2>8, <2>9, <2>10
<1>. QED BY <1>1, <1>2, <1>3, <1>4, StillSound

\* A transaction that has looked goes on, or refuses.
LEMMA LookSound ==
  ASSUME LedgerInv, Settle, NEW w \in Writer, Call(w), NEW f \in File, Sound(f), Look(w)
  PROVE  Sound(f)'
<1>1. stage[w] = "change" /\ stage'[w] \in {"write", "over"} /\ UNCHANGED <<vars, files>>
  BY DEF Look, Say, LedgerInv, Types
<1>2. ~ Kept(w)' /\ ~ Changing(w)'
  <2>1. ~ Holds(journal, w)
    BY <1>1 DEF LedgerInv, Progress, JournalInv, Turn
  <2>. QED BY <1>1, <2>1 DEF Kept, Changing, vars
<1>3. Says(f, files[f])
  <2>1. \A v \in Writer : ~ Changing(v)
    BY <1>1, OnlyOne DEF Changing
  <2>. QED BY <2>1 DEF Sound
<1>4. /\ Files(w)' = Files(w) /\ (Blind(w)' <=> Blind(w)) /\ (Undoing(w)' <=> Undoing(w))
      /\ known'[w] = known[w] /\ seen'[w] = seen[w]
  BY <1>1, OthersStay, OwnOnly
<1>5. f \in Files(w) /\ ~ Undoing(w) =>
         seen[w][f] = files[f] \/ (seen[w][f] = known[w][f] /\ ~ Blind(w))
  BY <1>1 DEF Sound
<1>. QED BY <1>1, <1>2, <1>3, <1>4, <1>5, StillSound

\* The writes of a call reach its own files only.
LEMMA Untouched ==
  ASSUME NEW w \in Writer, NEW from, NEW to, NEW f \in File,
         \/ PutAll(w, from, to) \/ PutSome(w, from, to)
         \/ files' \in {files, With(to, Files(w))} /\ files = [g \in File |-> files[g]]
  PROVE  f \notin Files(w) => files'[f] = files[f]
BY DEF PutAll, PutSome, Reached, With

LEMMA ChangeSound ==
  ASSUME LedgerInv, Settle, Windows, NEW w \in Writer, Call(w), NEW f \in File \ edited,
         Sound(f), Transact(w) \/ WriteOrUnlink(w)
  PROVE  Sound(f)' \/ Excused(f)'
<1>1. /\ stage[w] \in {"change", "write"} /\ pc[w] = "read" /\ UNCHANGED vars
      /\ ~ Holds(journal, w) /\ Running(w)
  <2>1. stage[w] \in {"change", "write"} /\ UNCHANGED vars
    BY DEF Transact, WriteOrUnlink
  <2>2. pc[w] = "read"
    BY <2>1 DEF LedgerInv, Progress
  <2>3. ~ Holds(journal, w)
    BY <2>2 DEF LedgerInv, JournalInv, Turn
  <2>4. Running(w)
    BY <2>1 DEF Running, Dead
  <2>. QED BY <2>1, <2>2, <2>3, <2>4
<1>2. ~ Kept(w)'
  BY <1>1 DEF Kept, vars
<1>3. Says(f, files[f])
  <2>1. \A v \in Writer : ~ Changing(v)
    BY <1>1, OnlyOne DEF Changing
  <2>. QED BY <2>1 DEF Sound
<1>4. /\ Files(w)' = Files(w) /\ (Blind(w)' <=> Blind(w)) /\ Expect(w)' = Expect(w)
      /\ Image(w)' = Image(w) /\ Prior(w)' = Prior(w) /\ (Undoing(w)' <=> Undoing(w))
      /\ known'[w] = known[w] /\ seen'[w] = seen[w]
  BY <1>1, OthersStay, OwnOnly
<1>5. f \notin Files(w) => files'[f] = files[f]
  <2>1. CASE Transact(w)
    BY <2>1, Untouched DEF Transact
  <2>2. CASE WriteOrUnlink(w)
    <3>1. files' \in {files, With(Image(w), Files(w))}
      BY <2>2 DEF WriteOrUnlink
    <3>. QED BY <3>1 DEF With
  <2>. QED BY <2>1, <2>2
<1>6. Transact(w) /\ f \in Files(w) => files[f] = Expect(w)[f]
  <2>1. f \notin late
    BY DEF Windows
  <2>. QED BY <2>1 DEF Windows, Transact
<1>7. CASE stage'[w] \in {"check", "journal"}
  <2>1. f \in Files(w) => files'[f] = Image(w)[f]
    BY <1>7 DEF Transact, WriteOrUnlink, PutAll, Say, With, LedgerInv, Types
  <2>2. ~ Blind(w) /\ f \in Files(w) => files[f] = Expect(w)[f]
    BY <1>6 DEF WriteOrUnlink
  <2>3. ASSUME f \in Files(w)
        PROVE  /\ files'[f] = Image(w)'[f]
               /\ ~ (Undoing(w)' /\ Blind(w)') => Prior(w)'[f] = files[f]
               /\ ~ Blind(w)' => Expect(w)'[f] = Prior(w)'[f]
    <3>1. files'[f] = Image(w)'[f]
      BY <1>4, <2>1, <2>3
    <3>2. CASE Undoing(w)
      BY <1>4, <2>2, <2>3, <3>1, <3>2 DEF Prior, Expect
    <3>3. CASE ~ Undoing(w)
      <4>1. seen[w][f] = files[f] \/ (seen[w][f] = known[w][f] /\ ~ Blind(w))
        BY <1>1, <2>3, <3>3 DEF Sound
      <4>2. Expect(w) = known[w] /\ Prior(w) = seen[w]
        BY <3>3 DEF Expect, Prior
      <4>. QED BY <1>4, <2>2, <2>3, <3>1, <4>1, <4>2
    <3>. QED BY <3>2, <3>3
  <2>4. stage'[w] \notin {"change", "write"}
    BY <1>7
  <2>5. Changing(w)'
    BY <1>1, <1>7 DEF Changing, Dead, vars
  <2>. QED BY <1>2, <1>3, <1>4, <1>5, <2>3, <2>4, <2>5, StillSound
<1>8. CASE stage'[w] = "over"
  <2>1. ~ Changing(w)'
    BY <1>8 DEF Changing
  <2>2. CASE files'[f] = files[f]
    BY <1>2, <1>3, <1>8, <2>1, <2>2, StillSound
  <2>3. CASE files'[f] # files[f]
    <3>1. f \in Files(w)
      BY <1>5, <2>3
    <3>2. reply'[w] \in {"indeterminate", "died", "error"}
      <4>1. CASE Transact(w)
        <5>1. Say(w, Measured(w, Files(w))) \/ Say(w, "died")
          BY <1>8, <4>1 DEF Transact, LedgerInv, Types
        <5>2. ~ Restored(w, Files(w))
          BY <1>6, <2>3, <3>1, <4>1 DEF Restored
        <5>. QED BY <5>1, <5>2 DEF Measured, Say, LedgerInv, Types
      <4>2. CASE WriteOrUnlink(w)
        BY <1>8, <4>2 DEF WriteOrUnlink, Say, LedgerInv, Types
      <4>. QED BY <4>1, <4>2
    <3>. QED BY <1>4, <3>1, <3>2 DEF Excused, Open
  <2>. QED BY <2>2, <2>3
<1>9. stage'[w] \in {"check", "journal", "over"}
  BY DEF Transact, WriteOrUnlink, Say, LedgerInv, Types
<1>. QED BY <1>7, <1>8, <1>9

\* A call that ends leaves the files that are not its own as they are.
LEMMA OverSound ==
  ASSUME LedgerInv, Settle, NEW w \in Writer, Call(w), NEW f \in File, Sound(f),
         Changing(w), stage'[w] \in {"journal", "over"}, ~ Changing(w)',
         f \notin Files(w), files'[f] = files[f]
  PROVE  Sound(f)'
<1>1. \A v \in Writer : Changing(v) => v = w
  BY OnlyOne
<1>2. Says(f, files[f])
  BY <1>1 DEF Sound
<1>3. stage[w] # "idle"
  BY DEF Changing
<1>. QED BY <1>2, <1>3, StillSound

LEMMA RecordSound ==
  ASSUME LedgerInv, Settle, NEW w \in Writer, Call(w), NEW f \in File, Sound(f), Record(w)
  PROVE  Sound(f)' \/ Excused(f)'
<1>1. /\ stage[w] = "journal" /\ pc[w] # "done"
      /\ UNCHANGED <<files, stage, job, known, seen, undoes, reply>>
  BY StepIsOwn DEF Record, ledger, LedgerInv
<1>2. Changing(w)
  BY <1>1 DEF Changing, Dead
<1>3. /\ Files(w)' = Files(w) /\ (Blind(w)' <=> Blind(w)) /\ Expect(w)' = Expect(w)
      /\ Image(w)' = Image(w) /\ Prior(w)' = Prior(w) /\ (Undoing(w)' <=> Undoing(w))
  BY <1>1, OthersStay
<1>4. CASE f \in Files(w) /\ Dead(w)'
  BY <1>3, <1>4 DEF Excused, Open
<1>5. CASE f \in Files(w) /\ ~ Dead(w)'
  <2>1. Changing(w)' /\ ~ Kept(w)'
    BY <1>1, <1>5 DEF Changing, Kept, Running
  <2>2. Changed(w, f)
    BY <1>2, <1>5 DEF Sound
  <2>. QED BY <1>1, <1>3, <1>5, <2>1, <2>2, StillSound DEF Changed
<1>6. CASE f \notin Files(w)
  <2>1. \A v \in Writer : Changing(v) => v = w
    BY OnlyOne
  <2>2. Says(f, files[f])
    BY <1>6, <2>1 DEF Sound
  <2>. QED BY <1>1, <1>3, <1>6, <2>2, StillSound
<1>. QED BY <1>4, <1>5, <1>6

\* A call that has given its files back, or not, and measured them, ends.
LEMMA MeasuredSound ==
  ASSUME LedgerInv, Settle, NEW w \in Writer, Call(w), NEW f \in File, Sound(f),
         Changing(w), ~ Blind(w), UNCHANGED vars,
         f \notin Files(w) => files'[f] = files[f],
         Say(w, Measured(w, DOMAIN Expect(w))) \/ Say(w, "interrupted")
  PROVE  Sound(f)' \/ Excused(f)'
<1> DEFINE back == Restored(w, DOMAIN Expect(w))
<1>1. /\ stage'[w] = "over" /\ ~ Changing(w)' /\ ~ Running(w)'
      /\ \/ reply'[w] = "interrupted"
         \/ reply'[w] = IF back THEN "restored" ELSE "indeterminate"
  BY DEF Say, Measured, Changing, Running, LedgerInv, Types
<1>2. stage[w] \notin {"idle", "planned"} /\ Running(w)
  BY DEF Changing, Running
<1>3. Files(w)' = Files(w)
  BY <1>2, OthersStay
<1>4. CASE f \notin Files(w)
  BY <1>1, <1>4, OverSound
<1>5. CASE f \in Files(w) /\ (~ back \/ reply'[w] = "interrupted")
  BY <1>1, <1>3, <1>5 DEF Excused, Open
<1>6. CASE f \in Files(w) /\ reply'[w] = "restored" /\ Holds(journal, w)
  BY <1>1, <1>3, <1>6 DEF Excused, Ghost, vars
<1>7. CASE f \in Files(w) /\ back /\ ~ Holds(journal, w)
  <2>1. files'[f] = Expect(w)[f]
    BY <1>2, <1>7, Expected DEF Restored
  <2>2. Says(f, Prior(w)[f]) /\ Expect(w)[f] = Prior(w)[f]
    BY <1>7 DEF Sound, Changed
  <2>3. ~ Kept(w)'
    BY <1>7 DEF Kept, vars
  <2>. QED BY <1>1, <2>1, <2>2, <2>3, StillSound
<1>. QED BY <1>1, <1>4, <1>5, <1>6, <1>7

\* A call that has changed its files goes on with them as they are.
LEMMA OnSound ==
  ASSUME LedgerInv, Settle, NEW w \in Writer, Call(w), NEW f \in File, Sound(f),
         Changing(w), UNCHANGED <<vars, files>>, stage'[w] \in {"journal", "undo"},
         Changing(w)'
  PROVE  Sound(f)'
<1>1. /\ stage[w] \notin {"idle", "planned"} /\ Running(w)'
  BY DEF Changing, Running
<1>2. /\ Files(w)' = Files(w) /\ (Blind(w)' <=> Blind(w)) /\ Expect(w)' = Expect(w)
      /\ Image(w)' = Image(w) /\ Prior(w)' = Prior(w) /\ (Undoing(w)' <=> Undoing(w))
  BY <1>1, OthersStay
<1>3. ~ Kept(w)'
  BY <1>1 DEF Kept
<1>4. CASE f \in Files(w)
  <2>1. Changed(w, f)
    BY <1>4 DEF Sound
  <2>. QED BY <1>2, <1>3, <1>4, <2>1, StillSound DEF Changed
<1>5. CASE f \notin Files(w)
  <2>1. \A v \in Writer : Changing(v) => v = w
    BY OnlyOne
  <2>2. Says(f, files[f])
    BY <1>5, <2>1 DEF Sound
  <2>. QED BY <1>2, <1>3, <1>5, <2>2, StillSound
<1>. QED BY <1>4, <1>5

LEMMA TurnBackSound ==
  ASSUME LedgerInv, Settle, NEW w \in Writer, Call(w), NEW f \in File, Sound(f),
         Changing(w), ~ Blind(w), UNCHANGED vars, TurnBack(w)
  PROVE  Sound(f)' \/ Excused(f)'
<1>1. UNCHANGED files
  BY DEF TurnBack
<1>2. CASE stage' = [stage EXCEPT ![w] = "undo"]
  <2>1. stage'[w] = "undo" /\ Changing(w)'
    BY <1>2 DEF Changing, Dead, LedgerInv, Types
  <2>. QED BY <1>1, <2>1, OnSound
<1>3. CASE Say(w, Measured(w, DOMAIN Expect(w)))
  BY <1>1, <1>3, MeasuredSound
<1>. QED BY <1>2, <1>3 DEF TurnBack

LEMMA RestoreSound ==
  ASSUME LedgerInv, Settle, NEW w \in Writer, Call(w), NEW f \in File, Sound(f), Restore(w)
  PROVE  Sound(f)' \/ Excused(f)'
<1>1. stage[w] = "undo" /\ UNCHANGED vars
  BY DEF Restore
<1>2. Changing(w) /\ ~ Blind(w)
  BY <1>1 DEF Changing, Dead, Settle
<1>3. f \notin Files(w) => files'[f] = files[f]
  BY Untouched DEF Restore
<1>4. Say(w, Measured(w, DOMAIN Expect(w))) \/ Say(w, "interrupted")
  BY DEF Restore
<1>. QED BY <1>1, <1>2, <1>3, <1>4, MeasuredSound

LEMMA CheckSound ==
  ASSUME LedgerInv, Settle, NEW w \in Writer, Call(w), NEW f \in File, Sound(f),
         CheckSnapshot(w)
  PROVE  Sound(f)' \/ Excused(f)'
<1>1. /\ stage[w] = "check" /\ pc[w] = "read" /\ UNCHANGED vars
  <2>1. stage[w] = "check" /\ UNCHANGED vars
    BY DEF CheckSnapshot
  <2>. QED BY <2>1 DEF LedgerInv, Progress
<1>2. Changing(w) /\ ~ Blind(w)
  BY <1>1 DEF Changing, Dead, Settle
<1>3. CASE stage' = [stage EXCEPT ![w] = "journal"] /\ UNCHANGED files
  <2>1. stage'[w] = "journal" /\ Changing(w)'
    BY <1>1, <1>3 DEF Changing, Dead, vars, LedgerInv, Types
  <2>. QED BY <1>1, <1>2, <1>3, <2>1, OnSound
<1>4. CASE TurnBack(w)
  BY <1>1, <1>2, <1>4, TurnBackSound
<1>. QED BY <1>3, <1>4 DEF CheckSnapshot

\* A call that says its change is in the journal ends there.
Applied(w) ==
    /\ React(w)
    /\ result[w] = "appended"

LEMMA AppliedView ==
  ASSUME LedgerInv, Settle, Ordered, NEW w \in Writer, Call(w), Applied(w)
  PROVE  /\ UNCHANGED <<vars, files, job, seen, undoes>>
         /\ stage[w] = "journal" /\ stage'[w] = "over" /\ reply'[w] = "applied"
         /\ Changing(w) /\ ~ Kept(w) /\ Kept(w)' /\ ~ Changing(w)'
         /\ \A v \in Writer \ {w} : Kept(v)' <=> Kept(v)
         /\ \A v \in Writer : /\ (Undoing(v)' <=> Undoing(v)) /\ New(v)' = New(v)
                              /\ Files(v)' = Files(v)
         /\ \A r, q \in Writer : Earlier(r, q)' <=> Earlier(r, q)
         /\ \A q \in Writer : ~ Earlier(w, q)
         /\ \A r \in Writer \ {w} : Holds(journal, r) => Earlier(r, w)
<1>1. /\ UNCHANGED <<vars, job, known, seen, undoes>> /\ UNCHANGED files
      /\ stage[w] = "journal" /\ pc[w] = "done"
      /\ stage'[w] = "over" /\ reply'[w] = "applied"
  BY DEF Applied, React, Say, LedgerInv, Types
<1>2. Holds(journal, w)
  BY DEF Applied, LedgerInv, JournalInv, ReportTruthful
<1>3. Changing(w) /\ ~ Changing(w)' /\ Kept(w)'
  BY <1>1, <1>2 DEF Applied, Changing, Dead, Kept, Running, vars
<1>4. /\ ~ Kept(w)
      /\ \A v \in Writer \ {w} : Kept(v)' <=> Kept(v)
  BY OthersStay
<1>5. \A v \in Writer : /\ (Undoing(v)' <=> Undoing(v)) /\ New(v)' = New(v)
                        /\ Files(v)' = Files(v)
  BY <1>1 DEF Undoing, New, Files
<1>6. \A r, q \in Writer : Earlier(r, q)' <=> Earlier(r, q)
  BY <1>1 DEF Earlier, Text, vars
<1>7. /\ \A q \in Writer : ~ Earlier(w, q)
      /\ \A r \in Writer \ {w} : Holds(journal, r) => Earlier(r, w)
  BY <1>1, <1>2, <1>3, LastRecord DEF Changing
<1>. QED BY <1>1, <1>3, <1>4, <1>5, <1>6, <1>7

\* A patch is now the last of its files, and found them as the one before left them.
LEMMA PatchedSound ==
  ASSUME LedgerInv, Settle, Ordered, NEW w \in Writer, Call(w), NEW f \in File, Sound(f),
         Applied(w), ~ Undoing(w), f \in Files(w)
  PROVE  Sound(f)'
<1>1. Changed(w, f)
  BY AppliedView DEF Sound
<1>2. Says(f, seen[w][f]) /\ files[f] = New(w)[f]
  BY <1>1 DEF Changed, Prior, Image
<1>3. ASSUME NEW r \in Writer, Undoing(r), undoes[r] = w PROVE ~ Kept(r)
  <2>1. ASSUME Kept(r) PROVE FALSE
    <3>1. stage[r] # "idle"
      BY <2>1 DEF Kept, LedgerInv, Progress, JournalInv, Turn
    <3>2. Kept(w)
      BY <1>3, <3>1 DEF Settle
    <3>. QED BY <3>2, AppliedView
  <2>. QED BY <2>1
<1>4. \A v \in Writer : Undone(v)' <=> Undone(v)
  BY AppliedView DEF Undone
<1>5. \A v \in Writer : Firm(v, f)' <=> Firm(v, f) \/ v = w
  <2>1. ~ Undone(w)
    BY <1>3 DEF Undone
  <2>. QED BY <1>4, <2>1, AppliedView DEF Firm
<1>6. \A v \in Writer : Firm(v, f) => Earlier(v, w) /\ v # w
  BY AppliedView DEF Firm, Kept
<1>7. Says(f, files[f])'
  BY <1>2, <1>5, <1>6, AppliedView DEF Says
<1>8. Chain(f)'
  <2> SUFFICES ASSUME NEW v \in Writer, Firm(v, f)' PROVE SaysBelow(v, f, seen[v][f])'
    BY DEF Chain
  <2>1. CASE v = w
    BY <1>2, <1>5, <1>6, <2>1, AppliedView DEF Says, SaysBelow
  <2>2. CASE v # w
    <3>1. SaysBelow(v, f, seen[v][f])
      BY <1>5, <2>2 DEF Sound, Chain
    <3>. QED BY <1>5, <2>2, <3>1, AppliedView DEF SaysBelow
  <2>. QED BY <2>1, <2>2
<1>9. \A v \in Writer : ~ Changing(v)' /\ stage'[v] \notin {"change", "write"}
  BY AppliedView, OnlyOne, OwnOnly, OthersStay
<1>. QED BY <1>7, <1>8, <1>9 DEF Sound

\* A rollback of the last patch gives back what that one found.
LEMMA UndoneSound ==
  ASSUME LedgerInv, Settle, Ordered, NEW w \in Writer, Call(w), NEW f \in File, Sound(f),
         Applied(w), Undoing(w), f \in Files(w)
  PROVE  Sound(f)' \/ Excused(f)'
<1>1. PICK c \in Writer : c = undoes[w]
  BY DEF LedgerInv, Types
<1>2. c # w /\ Kept(c) /\ ~ Undoing(c)
  BY <1>1, AppliedView DEF Settle
<1>3. Firm(c, f)
  <2>1. Files(w) = Files(c)
    BY <1>1, <1>2 DEF Files
  <2>2. ~ Undone(c)
    <3>1. Running(w)
      BY AppliedView DEF Changing, Running
    <3>2. \A r \in Writer \ {w} : Undoing(r) /\ undoes[r] = c => ~ Holds(journal, r)
      BY <1>1, <3>1 DEF LedgerInv, UndoneByNone
    <3>. QED BY <3>2, AppliedView DEF Undone, Kept
  <2>. QED BY <1>2, <2>1, <2>2 DEF Firm
<1>4. \A v \in Writer : Undone(v)' <=> Undone(v) \/ v = c
  BY <1>1, AppliedView DEF Undone
<1>5. \A v \in Writer : Firm(v, f)' <=> Firm(v, f) /\ v # c
  BY <1>4, AppliedView DEF Firm
<1>6. CASE \E u \in Writer : Firm(u, f) /\ Earlier(c, u)
  <2>1. PICK u \in Writer : Firm(u, f) /\ Earlier(c, u)
    BY <1>6
  <2>2. u # w /\ u # c /\ Earlier(u, w)
    BY <2>1, AppliedView DEF Firm, Kept, Ordered
  <2>3. ASSUME NEW r \in Writer, Undoing(r), undoes[r] = u, Earlier(r, w) PROVE FALSE
    <3>1. r # w
      BY <1>1, <2>2, <2>3
    <3>2. Kept(r)
      BY <2>3, <3>1, EarlierHeld, OnlyOne DEF Kept
    <3>. QED BY <2>1, <2>3, <3>2 DEF Firm, Undone
  <2>4. Skipped(f)'
    <3>1. undoes' = undoes /\ Earlier(c, u)' /\ Earlier(u, w)'
      BY <2>1, <2>2, AppliedView
    <3>2. Earlier(undoes[w], u)'
      BY <1>1, <3>1 DEF Earlier
    <3>3. ~ \E r \in Writer : Undoing(r)' /\ undoes'[r] = u /\ Earlier(r, w)'
      BY <2>3, <3>1, AppliedView
    <3>4. f \in Files(u) /\ ~ Undoing(u)
      BY <2>1 DEF Firm
    <3>. QED BY <3>1, <3>2, <3>3, <3>4, AppliedView DEF Skipped
  <2>. QED BY <2>4 DEF Excused
<1>7. CASE ~ \E u \in Writer : Firm(u, f) /\ Earlier(c, u)
  <2>1. \A t \in Writer : Firm(t, f) /\ t # c => Earlier(t, c)
    BY <1>2, <1>7, Total DEF Firm, Kept, LedgerInv, JournalInv, Shape
  <2>2. \A t \in Writer : Firm(t, f) /\ Earlier(t, c) => t # c /\ Firm(t, f)'
    BY <1>5 DEF Ordered
  <2>3. files'[f] = seen[c][f]
    <3>1. Changed(w, f)
      BY AppliedView DEF Sound
    <3>. QED BY <1>1, <3>1, AppliedView DEF Changed, Image
  <2>4. SaysBelow(c, f, seen[c][f])
    BY <1>3 DEF Sound, Chain
  <2>5. Says(f, files[f])'
    BY <1>5, <2>1, <2>2, <2>3, <2>4, AppliedView DEF Says, SaysBelow
  <2>6. Chain(f)'
    <3> SUFFICES ASSUME NEW v \in Writer, Firm(v, f)' PROVE SaysBelow(v, f, seen[v][f])'
      BY DEF Chain
    <3>1. Firm(v, f) /\ v # c /\ ~ Earlier(c, v)
      BY <1>5, <1>7
    <3>2. SaysBelow(v, f, seen[v][f])
      BY <3>1 DEF Sound, Chain
    <3>. QED BY <1>5, <3>1, <3>2, AppliedView DEF SaysBelow
  <2>7. \A v \in Writer : ~ Changing(v)' /\ stage'[v] \notin {"change", "write"}
    BY AppliedView, OnlyOne, OwnOnly, OthersStay
  <2>. QED BY <2>5, <2>6, <2>7 DEF Sound
<1>. QED BY <1>6, <1>7

LEMMA EndSound ==
  ASSUME LedgerInv, Settle, Ordered, NEW w \in Writer, Call(w), NEW f \in File, Sound(f),
         React(w) \/ Interrupt(w)
  PROVE  Sound(f)' \/ Excused(f)'
<1>1. stage[w] = "journal" /\ UNCHANGED vars
  BY DEF React, Interrupt
<1>2. Changing(w)
  BY <1>1, OwnOnly DEF Changing, LedgerInv, Progress, Dead
<1>3. CASE Applied(w)
  <2>1. CASE f \in Files(w)
    BY <1>3, <2>1, PatchedSound, UndoneSound
  <2>2. CASE f \notin Files(w)
    <3>1. stage'[w] = "over" /\ ~ Changing(w)' /\ files' = files
      BY <1>3, AppliedView
    <3>. QED BY <1>2, <2>2, <3>1, OverSound
  <2>. QED BY <2>1, <2>2
<1>4. CASE \E answer \in {"error", "interrupted"} : Say(w, answer) /\ UNCHANGED files
  <2>1. stage'[w] = "over" /\ ~ Changing(w)' /\ reply'[w] \in {"error", "interrupted"}
    BY <1>4 DEF Say, Changing, LedgerInv, Types
  <2>2. Files(w)' = Files(w)
    BY <1>1, OthersStay
  <2>3. CASE f \in Files(w)
    BY <2>1, <2>2, <2>3 DEF Excused, Open
  <2>4. CASE f \notin Files(w)
    BY <1>2, <1>4, <2>1, <2>4, OverSound
  <2>. QED BY <2>3, <2>4
<1>5. CASE ~ Blind(w) /\ TurnBack(w)
  BY <1>1, <1>2, <1>5, TurnBackSound
<1>. QED BY <1>3, <1>4, <1>5 DEF React, Interrupt, Applied, Blind, Rooted

\* An editor, or nobody, acts.
LEMMA IdleSound ==
  ASSUME LedgerInv, Settle, Ordered, edited \subseteq edited',
         UNCHANGED <<journal, pc, before, result, stage, job, known, seen, undoes, reply>>,
         \A f \in File : f \notin edited' => files'[f] = files[f]
  PROVE  /\ Settle' /\ Ordered'
         /\ \A f \in File : Sound(f) \/ Excused(f) => Sound(f)' \/ Excused(f)'
<1>1. UNCHANGED <<journal, pc, before, result, stage, job, known, seen, undoes, reply>>
  OBVIOUS
<1>2. \A v \in Writer : /\ Undoing(v)' <=> Undoing(v)
                        /\ Files(v)' = Files(v) /\ New(v)' = New(v)
                        /\ Image(v)' = Image(v) /\ Expect(v)' = Expect(v)
                        /\ Prior(v)' = Prior(v) /\ (Blind(v)' <=> Blind(v))
                        /\ (Dead(v)' <=> Dead(v)) /\ (Running(v)' <=> Running(v))
                        /\ (Kept(v)' <=> Kept(v)) /\ (Changing(v)' <=> Changing(v))
                        /\ (Open(v)' <=> Open(v)) /\ (Ghost(v)' <=> Ghost(v))
  BY <1>1 DEF Undoing, Files, New, Image, Expect, Prior, Blind, Kind, Dead, Running, Kept,
              Changing, Open, Ghost
<1>3. \A r, q : Earlier(r, q)' <=> Earlier(r, q)
  BY <1>1 DEF Earlier, Text
<1>4. Settle' /\ Ordered'
  <2>1. Ordered'
    BY <1>3 DEF Ordered
  <2>2. \A v \in Writer : Undoing(v) /\ stage[v] # "idle" =>
                            ~ Undoing(undoes[v])' /\ Kept(undoes[v])'
    BY <1>1 DEF Settle, Undoing, Kept, Running, Dead
  <2>. QED BY <1>1, <1>2, <2>1, <2>2 DEF Settle, After
<1>5. ASSUME NEW f \in File, Excused(f) PROVE Excused(f)'
  <2>1. Skipped(f) => Skipped(f)'
    <3>1. \A w, u \in Writer : Earlier(undoes[w], u)' <=> Earlier(undoes[w], u)
      BY <1>1 DEF Earlier, Text
    <3>. QED BY <1>1, <1>2, <1>3, <3>1 DEF Skipped
  <2>. QED BY <1>1, <1>2, <1>5, <2>1 DEF Excused
<1>6. ASSUME NEW f \in File, Sound(f), f \notin edited' PROVE Sound(f)'
  <2>1. files'[f] = files[f]
    BY <1>1, <1>6
  <2>2. \A v \in Writer : Firm(v, f)' <=> Firm(v, f)
    BY <1>1, <1>2 DEF Firm, Undone
  <2>3. \A x : Says(f, x)' <=> Says(f, x)
    BY <1>2, <1>3, <2>2 DEF Says
  <2>4. Chain(f)'
    BY <1>1, <1>2, <1>3, <1>6, <2>2 DEF Sound, Chain, SaysBelow
  <2>5. Says(f, files[f]) => Says(f, files[f])'
    BY <1>2, <1>3, <2>1, <2>2 DEF Says
  <2>6. \A v \in Writer : Changed(v, f) => Changed(v, f)'
    <3>1. \A v \in Writer : Says(f, Prior(v)[f]) => Says(f, Prior(v)[f])'
      BY <1>2, <1>3, <2>2 DEF Says
    <3>. QED BY <1>2, <2>1, <3>1 DEF Changed
  <2>. QED BY <1>1, <1>2, <1>6, <2>1, <2>4, <2>5, <2>6 DEF Sound
<1>7. ASSUME NEW f \in File, f \in edited' PROVE Excused(f)'
  BY <1>7 DEF Excused
<1>. QED BY <1>4, <1>5, <1>6, <1>7

\* Every step keeps to the windows.
LEMMA WindowsAlways ==
  ASSUME LedgerInv, Settle, Windows, [Steps]_all
  PROVE  Windows'
<1>1. ASSUME NEW f \in File, Edit(f) PROVE Windows'
  <2>1. /\ UNCHANGED <<stage, job, known, seen, undoes>>
        /\ late' = late \cup {f} /\ edited' = edited \cup {f}
        /\ \A g : g # f => files'[g] = files[g]
    BY <1>1 DEF Edit, LedgerInv, Types
  <2>2. \A w \in Writer : /\ Files(w)' = Files(w) /\ Expect(w)' = Expect(w)
                          /\ Image(w)' = Image(w) /\ (Blind(w)' <=> Blind(w))
                          /\ (Undoing(w)' <=> Undoing(w))
    BY <2>1 DEF Files, Expect, Image, New, Blind, Kind, Undoing
  <2>. QED BY <2>1, <2>2 DEF Windows
<1>2. ASSUME Over \/ UNCHANGED all PROVE Windows'
  <2>1. UNCHANGED <<files, stage, job, known, seen, undoes, late, edited>>
    BY <1>2 DEF Over, all, ledger
  <2>. QED BY <2>1 DEF Windows, Files, Expect, Image, New, Blind, Kind, Undoing
<1>. QED BY <1>1, <1>2, WindowsStep DEF Steps

LEMMA ExplainedStep == ExplainedInv /\ [Steps]_all => ExplainedInv'
<1> SUFFICES ASSUME ExplainedInv, [Steps]_all PROVE ExplainedInv'
  OBVIOUS
<1>1. LedgerInv /\ Settle /\ Windows /\ Ordered /\ LedgerInv'
  BY LedgerStep DEF ExplainedInv
<1>5. Windows'
  BY <1>1, WindowsAlways
<1>2. ASSUME NEW w \in Writer, Call(w) PROVE ExplainedInv'
  <2>1. Settle' /\ Ordered'
    BY <1>1, <1>2, SettleStep, OrderedStep
  <2>2. ASSUME NEW f \in File PROVE Sound(f)' \/ Excused(f)'
    <3>1. CASE Excused(f)
      BY <1>1, <1>2, <3>1, ExcuseStays
    <3>2. CASE Sound(f)
      <4>1. CASE \/ Plan(w) \/ RollbackPatch(w) \/ PatchFile(w) \/ WriteFile(w)
                 \/ ApplyWorkspaceEdit(w) \/ CommitStaged(w)
        BY <1>1, <1>2, <3>2, <4>1, BeginSound
      <4>2. CASE Transact(w) \/ WriteOrUnlink(w)
        <5>1. f \in edited => Excused(f)
          BY DEF Excused
        <5>. QED BY <1>1, <1>2, <3>2, <4>2, <5>1, ChangeSound, ExcuseStays
      <4>3. CASE Record(w)
        BY <1>1, <1>2, <3>2, <4>3, RecordSound
      <4>4. CASE CheckSnapshot(w)
        BY <1>1, <1>2, <3>2, <4>4, CheckSound
      <4>5. CASE React(w) \/ Interrupt(w)
        BY <1>1, <1>2, <3>2, <4>5, EndSound
      <4>6. CASE Look(w)
        BY <1>1, <1>2, <3>2, <4>6, LookSound
      <4>7. CASE Restore(w)
        BY <1>1, <1>2, <3>2, <4>7, RestoreSound
      <4>. QED BY <1>2, <4>1, <4>2, <4>3, <4>4, <4>5, <4>6, <4>7 DEF Call
    <3>. QED BY <3>1, <3>2 DEF ExplainedInv
  <2>. QED BY <1>1, <1>5, <2>1, <2>2 DEF ExplainedInv
<1>3. ASSUME NEW e \in File, Edit(e) PROVE ExplainedInv'
  <2>1. /\ UNCHANGED <<journal, pc, before, result, stage, job, known, seen, undoes, reply>>
        /\ edited' = edited \cup {e}
        /\ \A f \in File : f # e => files'[f] = files[f]
    BY <1>1, <1>3 DEF Edit, vars, LedgerInv, Types
  <2>. QED BY <1>1, <1>5, <2>1, IdleSound DEF ExplainedInv
<1>4. CASE Over \/ UNCHANGED all
  <2>1. UNCHANGED <<journal, pc, before, result, files, stage, job, known, seen, undoes,
                    reply, edited>>
    BY <1>4 DEF Over, all, vars, ledger
  <2>. QED BY <1>1, <1>5, <2>1, IdleSound DEF ExplainedInv
<1>. QED BY <1>2, <1>3, <1>4 DEF Steps

LEMMA ExplainedStart == Start => ExplainedInv
<1> SUFFICES ASSUME Start PROVE ExplainedInv
  OBVIOUS
<1>1. LedgerInv
  BY LedgerStart
<1>2. \A w \in Writer : /\ stage[w] = "idle" /\ pc[w] = "read" /\ reply[w] = "none"
                        /\ ~ Holds(journal, w)
  BY DEF Start, Init, Holds
<1>3. seen = [w \in Writer |-> seen[w]]
  BY DEF Start
<1>4. Settle
  BY <1>2, <1>3 DEF Settle, Active
<1>5. Ordered /\ Windows
  BY <1>2, EarlierHeld DEF Ordered, Windows, Start
<1>6. ASSUME NEW f \in File PROVE Sound(f)
  <2>1. \A w \in Writer : ~ Firm(w, f) /\ ~ Changing(w)
    BY <1>2 DEF Firm, Kept, Changing
  <2>2. files[f] = First(f)
    BY DEF Start, First
  <2>. QED BY <1>2, <2>1, <2>2 DEF Sound, Chain, Says
<1>. QED BY <1>1, <1>4, <1>5, <1>6 DEF ExplainedInv

LEMMA ExplainedAlways == LedgerSpec => []ExplainedInv
<1>. QED BY ExplainedStart, ExplainedStep, PTL DEF LedgerSpec

\* "workspace and journal aligned" (tests/test_patch_journal.py:112): between
\* two calls, a file no editor has written holds what the ledger says of it,
\* whatever was applied, rolled back or failed before, unless a call left it
\* open, left a record of a change it had undone, or went past a later patch.
THEOREM FilesAreExplained == LedgerSpec => []FilesExplained
<1>1. ExplainedInv => FilesExplained
  <2> SUFFICES ASSUME ExplainedInv, Quiet, NEW f \in File, ~ Excused(f)
               PROVE  Explained(f)
    BY DEF FilesExplained
  <2>1. \A w \in Writer : ~ Changing(w)
    BY DEF Quiet, Running, Changing, Dead
  <2>2. Says(f, files[f])
    BY <2>1 DEF ExplainedInv, Sound
  <2>3. \A v \in Writer : Kept(v) <=> Holds(journal, v)
    BY DEF Quiet, Kept
  <2>4. \A v \in Writer : Firm(v, f) <=> Stands(v, f)
    BY <2>3 DEF Firm, Undone, Stands, Candidate, RolledBack
  <2>. QED BY <2>2, <2>4 DEF Says, Explained, Latest
<1>. QED BY <1>1, ExplainedAlways, PTL

\* A text an editor wrote is replaced only by a call that was shown it, or that
\* had put it there, or, where files are written in place, by one that had looked
\* before the editor wrote; a staged output never replaces another one's text.
THEOREM EditsAreSeen == LedgerSpec => EditsSeen
<1> DEFINE Allowed(f) ==
      \E w \in Writer : /\ Running(w)
                        /\ f \in Files(w)
                        /\ \/ Expect(w)[f] = "edited"
                           \/ Image(w)[f] = "edited"
                           \/ ~ Rooted(w) /\ f \in late
<1>1. ASSUME ExplainedInv, [Steps]_all, NEW f \in File,
             files[f] = "edited", files'[f] # "edited", edits' = edits
      PROVE  Allowed(f)
  <2> USE <1>1
  <2>1. LedgerInv /\ Windows
    BY DEF ExplainedInv
  <2>2. PICK w \in Writer : Call(w)
    <3>1. ASSUME NEW g \in File, Edit(g) PROVE FALSE
      BY <2>1, <3>1 DEF Edit, LedgerInv, Types
    <3>. QED BY <3>1 DEF Steps, Over, all, ledger
  <2>3. Transact(w) \/ WriteOrUnlink(w) \/ Restore(w)
    BY <2>2 DEF Call, Plan, PatchFile, WriteFile, ApplyWorkspaceEdit, CommitStaged, Look,
                RollbackPatch, Record, CheckSnapshot, React, Interrupt, TurnBack, Begin,
                Refuse, ledger
  <2>4. Running(w)
    BY <2>3 DEF Transact, WriteOrUnlink, Restore, Running, Dead
  <2>5. CASE Transact(w)
    <3>1. f \in Files(w) /\ (Rooted(w) => files[f] = Expect(w)[f])
      BY <2>5 DEF Transact, PutAll, PutSome, Reached, With
    <3>2. f \notin late => files[f] = Expect(w)[f]
      BY <2>1, <2>5, <3>1 DEF Windows, Transact
    <3>. QED BY <2>4, <3>1, <3>2
  <2>6. CASE Restore(w)
    <3>1. f \in Files(w) /\ (Rooted(w) => files[f] = Image(w)[f])
      BY <2>6 DEF Restore, PutAll, PutSome, Reached, With
    <3>2. f \notin late => files[f] = Image(w)[f]
      BY <2>1, <2>6, <3>1 DEF Windows, Restore
    <3>. QED BY <2>4, <3>1, <3>2
  <2>7. CASE WriteOrUnlink(w)
    <3>1. f \in Files(w) /\ ~ Rooted(w)
      BY <2>7 DEF WriteOrUnlink, With, Blind, Rooted
    <3>2. f \notin late => files[f] = IF Undoing(w) THEN Expect(w)[f] ELSE "absent"
      BY <2>1, <2>7, <3>1 DEF Windows, WriteOrUnlink
    <3>. QED BY <2>4, <3>1, <3>2
  <2>. QED BY <2>3, <2>5, <2>6, <2>7
<1>2. ExplainedInv /\ [Steps]_all =>
        [\A f \in File :
            files[f] = "edited" /\ files'[f] # "edited" =>
                \/ edits' # edits
                \/ \E w \in Writer :
                      /\ Running(w)
                      /\ f \in Files(w)
                      /\ \/ Expect(w)[f] = "edited"
                         \/ Image(w)[f] = "edited"
                         \/ ~ Rooted(w) /\ f \in late]_all
  BY <1>1
<1>. QED BY <1>2, ExplainedAlways, PTL DEF LedgerSpec, EditsSeen
==============================================================================
