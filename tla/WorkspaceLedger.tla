--------------------------- MODULE WorkspaceLedger --------------------------
(***************************************************************************)
(* The tools that change files and keep a ledger of what they did:         *)
(* apply_patch, write_file, apply_workspace_edit, the commit of a staged   *)
(* container output, and rollback_patch, which undoes one of the others.   *)
(* Each changes its files with a text transaction first and then appends   *)
(* one record to the patch journal (PatchJournal, step by step); when the  *)
(* record fails, most of them apply the inverse transaction.  A            *)
(* transaction is two steps here, its last look at the files and its       *)
(* writes; ExistingTransaction and RootedTransaction have all of them.     *)
(* Editors outside the program write at any time, between the two as well; *)
(* below a rooted directory they save by renaming (RootedMutation).        *)
(*                                                                         *)
(* A writer of PatchJournal is one call, and its name also stands for the  *)
(* new text it writes and for the id of its record.                        *)
(***************************************************************************)
EXTENDS PatchJournal, FiniteSets

CONSTANTS
    File,       \* the files of the workspace
    Present,    \* those that exist at first
    Jobs,       \* what a call may be asked to do: [kind, images] records
    MaxTrouble  \* bound: writes by editors outside the program, transactions
                \* that fail half-way and appends that do not simply succeed

Content == Writer \cup {"absent", "original", "edited"}
Rollback == [kind |-> "rollback", images |-> <<>>]

ASSUME LedgerAssumption ==
    /\ Present \subseteq File
    /\ Rollback \in Jobs
    /\ \A j \in Jobs : DOMAIN j.images \subseteq File

VARIABLES
    files,    \* file -> its content
    stage,    \* call -> "idle", "planned", "change", "write", "check", "journal",
              \* "undo", "over"
    job,      \* call -> what it was asked to do
    known,    \* call -> file -> what it expects to find there
    seen,     \* call -> file -> the before image it puts into its record
    undoes,   \* call -> the call whose record a rollback undoes, or itself
    reply,    \* call -> what it told the model
    edited,   \* history: the files that an editor has written
    late,     \* history: those it has written since the last call to look did so
    edits,    \* the number of those writes
    faults    \* the faults so far

ledger == <<files, stage, job, known, seen, undoes, reply, edited, late, edits,
            faults>>
all    == <<vars, ledger>>

Start ==
    /\ Init
    /\ journal = Missing
    /\ files = [f \in File |-> IF f \in Present THEN "original" ELSE "absent"]
    /\ stage = [w \in Writer |-> "idle"]
    /\ job = [w \in Writer |-> Rollback]
    /\ known = [w \in Writer |-> <<>>]
    /\ seen = [w \in Writer |-> <<>>]
    /\ undoes = [w \in Writer |-> w]
    /\ reply = [w \in Writer |-> "none"]
    /\ edited = {} /\ late = {}
    /\ edits = 0
    /\ faults = 0

Undoing(w) == job[w] = Rollback

\* The files of a call, what it expects in them and what it puts there.
Files(w) == DOMAIN (IF Undoing(w) THEN job[undoes[w]] ELSE job[w]).images

New(w) == [f \in DOMAIN job[w].images |-> IF job[w].images[f] = "new" THEN w ELSE "absent"]

Expect(w) == IF Undoing(w) THEN New(undoes[w]) ELSE known[w]
Image(w)  == IF Undoing(w) THEN seen[undoes[w]] ELSE New(w)

Kind(w) == (IF Undoing(w) THEN job[undoes[w]] ELSE job[w]).kind

\* write_file and the rollback of its record work on the path itself; the
\* others go through a text transaction.
Blind(w) == Kind(w) = "write"

\* A staged output and its rollback work below one directory, by renaming.
Rooted(w) == Kind(w) = "stage"

\* What is looked at: a staged output is compared with the whole workspace.
Scope(j) == IF j.kind = "stage" THEN File ELSE DOMAIN j.images

With(image, S) == [f \in File |-> IF f \in S THEN image[f] ELSE files[f]]

Holding(w, image) == \A f \in Files(w) : files[f] = image[f]

Dead(w)    == stage[w] = "journal" /\ pc[w] = "done" /\ result[w] = "none"
Running(w) == stage[w] \in {"change", "write", "check", "journal", "undo"} /\ ~ Dead(w)
Quiet      == \A w \in Writer : ~ Running(w)

BadAppends ==
    {w \in Writer : \/ pc[w] \in {"observe", "undo_temp", "undo", "final"}
                    \/ pc[w] = "done" /\ result[w] # "appended"}

Trouble == edits + faults + Cardinality(BadAppends)

Say(w, answer) ==
    /\ stage' = [stage EXCEPT ![w] = "over"]
    /\ reply' = [reply EXCEPT ![w] = answer]

-----------------------------------------------------------------------------
(* The ledger read back. *)

RolledBack(v) == \E r \in Writer : Undoing(r) /\ undoes[r] = v /\ Holds(journal, r)

\* Faulty: the record of any patch will do.
AnyApplied(v) == Holds(journal, v) /\ ~ Undoing(v)

\* _find_rollback_record: an apply record that nothing has rolled back.
Candidate(v) == Holds(journal, v) /\ ~ Undoing(v) /\ ~ RolledBack(v)

-----------------------------------------------------------------------------
(* The steps of a call. *)

\* The model reads the files, or a preview stores a plan; the call comes later.
\* A preview reads every file it is about, and an output deletes what was there.
Plan(w) ==
    /\ stage[w] = "idle"
    /\ Quiet
    /\ \E j \in Jobs \ {Rollback} :
          /\ \A f \in DOMAIN j.images :
                j.kind = "edit" \/ j.images[f] = "gone" => files[f] # "absent"
          /\ job' = [job EXCEPT ![w] = j]
    /\ stage' = [stage EXCEPT ![w] = "planned"]
    /\ known' = [known EXCEPT ![w] = [f \in Scope(job'[w]) |-> files[f]]]
    /\ UNCHANGED <<vars, files, seen, undoes, reply, edited, late, edits, faults>>

Begin(w, images) ==
    /\ seen' = [seen EXCEPT ![w] = images]
    /\ stage' = [stage EXCEPT ![w] = "change"]
    /\ late' = {}
    /\ UNCHANGED <<vars, files, job, known, undoes, reply, edited, edits, faults>>

Refuse(w) ==
    /\ Say(w, "refused")
    /\ UNCHANGED <<vars, files, job, known, seen, undoes, edited, late, edits, faults>>

Called(w, kind) == stage[w] = "planned" /\ Kind(w) = kind /\ Quiet

\* apply_patch: the file must exist; its text is read for the record, apart
\* from the read that the patch is then compared with.
PatchFile(w) ==
    /\ Called(w, "patch")
    /\ IF \E f \in Files(w) : files[f] = "absent" THEN Refuse(w)
       ELSE Begin(w, [f \in Files(w) |-> files[f]])

\* write_file: the file must not exist.
WriteFile(w) ==
    /\ Called(w, "write")
    /\ IF \E f \in Files(w) : files[f] # "absent" THEN Refuse(w)
       ELSE Begin(w, [f \in Files(w) |-> "absent"])

\* apply_workspace_edit: the stored plan carries its before images.
ApplyWorkspaceEdit(w) ==
    /\ Called(w, "edit")
    /\ Begin(w, [f \in Files(w) |-> known[w][f]])

\* commit_container_workspace_output: the snapshot taken before the command ran
\* must still be the workspace's.
CommitStaged(w) ==
    /\ Called(w, "stage")
    /\ IF \E f \in File : files[f] # known[w][f] THEN Refuse(w)
       ELSE Begin(w, [f \in Files(w) |-> known[w][f]])

\* A record of one file is refused when the file is not what the patch left;
\* for the others the transaction looks.
RollbackAllowed(v) ==
    job[v].kind \in {"patch", "write"} => \A f \in DOMAIN job[v].images : files[f] = New(v)[f]

\* rollback_patch finds its record, by id or the last one.
RollbackPatch(w) ==
    /\ stage[w] = "idle"
    /\ Quiet
    /\ \E v \in Writer :
          /\ Candidate(v)
          /\ undoes' = [undoes EXCEPT ![w] = v]
          /\ IF RollbackAllowed(v)
             THEN stage' = [stage EXCEPT ![w] = "change"] /\ UNCHANGED reply
             ELSE Say(w, "refused")
    /\ late' = {}
    /\ UNCHANGED <<vars, files, job, known, seen, edited, edits, faults>>

\* Faulty: the transaction does not compare what it finds.
LookAway(w) ==
    /\ stage[w] = "change"
    /\ ~ Blind(w)
    /\ \/ stage' = [stage EXCEPT ![w] = "write"] /\ UNCHANGED reply
       \/ Say(w, "refused")
    /\ late' = {}
    /\ UNCHANGED <<vars, files, job, known, seen, undoes, edited, edits, faults>>

\* A text transaction looks at every file, and refuses the change when one is not
\* as expected, or cannot be read.
Look(w) ==
    /\ stage[w] = "change"
    /\ ~ Blind(w)
    /\ \/ /\ Holding(w, Expect(w))
          /\ stage' = [stage EXCEPT ![w] = "write"]
          /\ UNCHANGED reply
       \/ Say(w, "refused")
    /\ late' = {}
    /\ UNCHANGED <<vars, files, job, known, seen, undoes, edited, edits, faults>>

\* What its writes reach.  A rooted transaction exchanges a file only for what it
\* expects there; the other one writes over whatever came since it looked.
Reached(w, from) == {f \in Files(w) : Rooted(w) => files[f] = from[f]}

\* It writes every file.
PutAll(w, from, to) ==
    /\ Reached(w, from) = Files(w)
    /\ files' = With(to, Files(w))
    /\ UNCHANGED faults

\* Or it fails, or notices another's text, and puts back what it can: all of it,
\* unless a call fails.
PutSome(w, from, to) ==
    \E left \in SUBSET Reached(w, from) : \E back \in SUBSET Reached(w, from) :
        /\ \/ left = {} /\ ~ Holding(w, from) /\ UNCHANGED faults
           \/ Trouble < MaxTrouble /\ faults' = faults + 1
        /\ files' = [f \in File |-> IF f \in left THEN to[f]
                                   ELSE IF f \in back THEN from[f] ELSE files[f]]

\* The residual scan of the files in S: they are as they were.
Restored(w, S) == \A f \in S : files'[f] = Expect(w)[f]

Measured(w, S) == IF Restored(w, S) THEN "restored" ELSE "indeterminate"

\* A text transaction carries the change out, or fails and measures what it has
\* left; the process may be interrupted, or die, in it.
Transact(w) ==
    /\ stage[w] = "write"
    /\ \/ /\ PutAll(w, Expect(w), Image(w))
          /\ stage' = [stage EXCEPT ![w] = IF job[w].kind = "stage" THEN "check"
                                                                    ELSE "journal"]
          /\ UNCHANGED reply
       \/ /\ PutSome(w, Expect(w), Image(w))
          /\ Say(w, Measured(w, Files(w))) \/ Say(w, "died")
    /\ UNCHANGED <<vars, job, known, seen, undoes, edited, late, edits>>

\* write_file writes, or the rollback of its record unlinks, whatever the
\* check before has seen.
WriteOrUnlink(w) ==
    /\ stage[w] = "change"
    /\ Blind(w)
    /\ \/ /\ files' = With(Image(w), Files(w))
          /\ stage' = [stage EXCEPT ![w] = "journal"]
          /\ UNCHANGED <<reply, faults>>
       \/ /\ Trouble < MaxTrouble
          /\ faults' = faults + 1
          /\ files' \in {files, With(Image(w), Files(w))}
          /\ Say(w, "error")
    /\ UNCHANGED <<vars, job, known, seen, undoes, edited, late, edits>>

\* One step of append_patch_record, its death included.
Record(w) ==
    /\ stage[w] = "journal"
    /\ Step(w)
    /\ UNCHANGED ledger
    /\ Trouble' <= MaxTrouble

\* restore_existing_text_transaction, restore_rooted_text_transaction: the inverse
\* looks at every file, and does nothing if one is not what the call wrote, or
\* cannot be read; the scan follows.
TurnBack(w) ==
    /\ late' = {}
    /\ UNCHANGED files
    /\ \/ /\ Holding(w, Image(w))
          /\ stage' = [stage EXCEPT ![w] = "undo"]
          /\ UNCHANGED reply
       \/ Say(w, Measured(w, DOMAIN Expect(w)))

\* The inverse writes, or fails half-way, and the scan measures what has become
\* of the files; an interrupt ends the call without an answer.
Restore(w) ==
    /\ stage[w] = "undo"
    /\ \/ PutAll(w, Image(w), Expect(w)) \/ PutSome(w, Image(w), Expect(w))
    /\ Say(w, Measured(w, DOMAIN Expect(w))) \/ Say(w, "interrupted")
    /\ UNCHANGED <<vars, job, known, seen, undoes, edited, late, edits>>

\* The workspace is compared with what the staged output should have made of it;
\* it may differ, or be unreadable.
CheckSnapshot(w) ==
    /\ stage[w] = "check"
    /\ \/ /\ files = [f \in File |-> IF f \in Files(w) THEN Image(w)[f] ELSE known[w][f]]
          /\ stage' = [stage EXCEPT ![w] = "journal"]
          /\ UNCHANGED <<files, reply, late>>
       \/ TurnBack(w)
    /\ UNCHANGED <<vars, job, known, seen, undoes, edited, edits, faults>>

\* Faulty: a call that could not record its change leaves it.
ReactLeaving(w) ==
    /\ stage[w] = "journal"
    /\ pc[w] = "done"
    /\ result[w] # "none"
    /\ Say(w, IF result[w] = "appended" THEN "applied" ELSE "restored")
    /\ UNCHANGED <<vars, files, job, known, seen, undoes, edited, late, edits, faults>>

\* Back from append_patch_record.  write_file and the rollback of its record
\* pass an error on; the others restore.
React(w) ==
    /\ stage[w] = "journal"
    /\ pc[w] = "done"
    /\ \/ result[w] = "appended" /\ Say(w, "applied") /\ UNCHANGED <<files, late>>
       \/ result[w] \notin {"none", "appended"} /\ ~ Blind(w) /\ TurnBack(w)
       \/ /\ result[w] \notin {"none", "appended"}
          /\ Blind(w)
          /\ Say(w, "error")
          /\ UNCHANGED <<files, late>>
    /\ UNCHANGED <<vars, job, known, seen, undoes, edited, edits, faults>>

\* An interrupt in append_patch_record, or on the way back from it.  Only a
\* staged output is restored, its commit even after the record was written.
Interrupt(w) ==
    /\ stage[w] = "journal"
    /\ pc[w] = "done"
    /\ result[w] # "none"
    /\ IF Rooted(w) /\ (result[w] = "appended" => ~ Undoing(w))
       THEN TurnBack(w)
       ELSE Say(w, "interrupted") /\ UNCHANGED <<files, late>>
    /\ UNCHANGED <<vars, job, known, seen, undoes, edited, edits, faults>>

\* An editor saves a file, with another text or with the one it had at first.
\* It commutes with the steps of the journal, and so happens around them.
Edit(f) ==
    /\ \A w \in Writer : stage[w] = "journal" => pc[w] \in {"read", "done"}
    /\ Trouble < MaxTrouble
    /\ \E text \in {"edited", "original"} \ {files[f]} : files' = [files EXCEPT ![f] = text]
    /\ edits' = edits + 1
    /\ edited' = edited \cup {f} /\ late' = late \cup {f}
    /\ UNCHANGED <<vars, stage, job, known, seen, undoes, reply, faults>>

Over ==
    /\ Quiet
    /\ \A w \in Writer : stage[w] \notin {"idle", "planned"}
    /\ UNCHANGED all

Call(w) == \/ Plan(w) \/ PatchFile(w) \/ WriteFile(w) \/ ApplyWorkspaceEdit(w)
           \/ CommitStaged(w) \/ RollbackPatch(w) \/ Look(w) \/ Transact(w)
           \/ WriteOrUnlink(w) \/ CheckSnapshot(w) \/ Record(w) \/ React(w)
           \/ Interrupt(w) \/ Restore(w)

Steps == (\E w \in Writer : Call(w)) \/ (\E f \in File : Edit(f)) \/ Over

LedgerSpec == Start /\ [][Steps]_all

-----------------------------------------------------------------------------
(* Properties. *)

\* Calls that end without an answer about their files, or with one that says
\* they are not what was asked for.
Open(w) == reply[w] \in {"indeterminate", "error", "died", "interrupted"} \/ Dead(w)

\* Calls that undid their change although their record stays in the journal.
Ghost(w) == reply[w] = "restored" /\ Holds(journal, w)

\* What the ledger says of a file: that it holds what the last of its patches
\* put there that nothing has rolled back, or what it held at first.
Stands(v, f) == Candidate(v) /\ f \in Files(v)

Earlier(r, s) ==
    \E i, k \in DOMAIN Text(journal) : i < k /\ Text(journal)[i] = r /\ Text(journal)[k] = s

Latest(v, f) == Stands(v, f) /\ \A u \in Writer : Stands(u, f) => u = v \/ Earlier(u, v)

First(f) == IF f \in Present THEN "original" ELSE "absent"

Explained(f) ==
    \/ \E v \in Writer : Latest(v, f) /\ files[f] = New(v)[f]
    \/ files[f] = First(f) /\ ~ \E v \in Writer : Stands(v, f)

\* A rollback of an older patch gave a file back what it held before that patch,
\* although a later patch of it still stood: both had left the same.
Skipped(f) ==
    \E w, u \in Writer :
        /\ Undoing(w) /\ reply[w] = "applied" /\ ~ Undoing(u)
        /\ f \in Files(w) /\ f \in Files(u)
        /\ Earlier(undoes[w], u) /\ Earlier(u, w)
        /\ ~ \E r \in Writer : Undoing(r) /\ undoes[r] = u /\ Earlier(r, w)

Excused(f) ==
    \/ f \in edited
    \/ \E w \in Writer : f \in Files(w) /\ (Open(w) \/ Ghost(w))
    \/ Skipped(f)

\* "workspace and journal aligned" (tests/test_patch_journal.py:112): between
\* two calls, a file no editor has written holds what the ledger says of it,
\* unless a call left it open, or left a record of a change it had undone, or a
\* rollback went past a later patch.
FilesExplained == Quiet => \A f \in File : Explained(f) \/ Excused(f)

\* No record is rolled back twice, whichever of the earlier attempts changed
\* files without a record or left a record without a change
\* (_find_rollback_record).
RolledBackOnce ==
    \A r, s \in Writer :
        Undoing(r) /\ Undoing(s) /\ undoes[r] = undoes[s]
            /\ Holds(journal, r) /\ Holds(journal, s) => r = s

\* A text an editor wrote is replaced only by a call that was shown it, by one
\* that had put it there itself, or, where files are written in place, by one that
\* had looked before the editor wrote: never by the commit or the rollback of a
\* staged output, and by no call that came after the editor.
EditsSeen ==
    [][\A f \in File :
          files[f] = "edited" /\ files'[f] # "edited" =>
              \/ edits' # edits
              \/ \E w \in Writer :
                    /\ Running(w)
                    /\ f \in Files(w)
                    /\ \/ Expect(w)[f] = "edited"
                       \/ Image(w)[f] = "edited"
                       \/ ~ Rooted(w) /\ f \in late]_all

=============================================================================
