--------------------------- MODULE WorkspaceMove ---------------------------
(***************************************************************************)
(* /move and the changes of the workspace roots: a session goes to another *)
(* primary workspace, with the files that hold it.  Each primary has a     *)
(* state directory; the session's log, todo list and patch journal move    *)
(* from one to the other one file after another (workspace/migration.py),  *)
(* then the process is pointed there and the move is recorded in the log   *)
(* (runtime/workspace.py).  An exception is compensated step by step; a    *)
(* signal or a crash is not, and the next process opens whatever it finds  *)
(* in the state directory it was started with (session/jsonl_store.py).    *)
(*                                                                         *)
(* A file is the sequence of its records.  Any write and any rename may    *)
(* fail, before or after it has taken effect.                              *)
(***************************************************************************)
EXTENDS Integers, SequencesExt

CONSTANTS
    Dir,         \* the primary workspaces, each with its state directory
    Missing,     \* there is no such file
    MaxRecords,  \* bound: records that turns and starts of a process write
    MaxChanges,  \* bound: moves and changes of the roots
    MaxTrouble   \* bound: failing calls, signals and crashes

Artifacts == {"sessions", "todos", "patches"}

Records == [a : Artifacts, t : {"note", "half", "roots", "event"}, n : Nat, at : Dir \cup {0}]

ASSUME MoveAssumption ==
    /\ {MaxRecords, MaxChanges, MaxTrouble} \subseteq Nat
    /\ Missing \notin Seq(Records)

VARIABLES
    pc,       \* where the process is
    disk,     \* what each state directory holds of the session
    at,       \* the primary: its context, state directory and tool context
    store,    \* the state directory whose log the session store appends to
    rev,      \* the revision of the roots
    op,       \* the move, change or rewriting of the todo list under way
    report,   \* what was said of the last one, until something else is done
    spent,    \* what has happened of each bounded kind
    before,   \* history: the files and the process when that one began
    kept,     \* history: the records that were written without an error
    split,    \* history: a move was cut by a signal or a crash, a rename took
              \* effect and failed, or a compensation was said to have failed
    wiped     \* history: the files that were cut while they were rewritten

vars == <<pc, disk, at, store, rev, op, report, spent, before, kept, split, wiped>>

-----------------------------------------------------------------------------
\* They are moved in this order, and taken back in the other.
Order == [sessions |-> 1, todos |-> 2, patches |-> 3]

First(a, S) == a \in S /\ \A b \in S : Order[a] <= Order[b]
Final(a, S) == a \in S /\ \A b \in S : Order[b] <= Order[a]

Record(a, t, n, d) == [a |-> a, t |-> t, n |-> n, at |-> d]
Half               == Record("sessions", "half", 0, 0)
Note(a, n)         == Record(a, "note", n, 0)
Roots(n, d)        == Record("sessions", "roots", n, d)

NoOp         == [kind |-> "none"]
There(d, a)  == disk[d][a] # Missing
Bytes(f)     == IF f = Missing THEN <<>> ELSE f
Log(d)       == Bytes(disk[d]["sessions"])
Readable(s)  == Half \notin ToSet(s)
BeingRewritten(a) == (a = "sessions" /\ pc = "bytes") \/ (a = "todos" /\ pc = "saving")
Process      == [at |-> at, store |-> store, rev |-> rev]

\* The roots that a process with the primary d takes from the log s.
Restored(s, d) ==
    LET latest == {i \in DOMAIN s : s[i].t = "roots" /\ \A j \in DOMAIN s :
                                       s[j].t = "roots" => j <= i} IN
    IF \E i \in latest : s[i].at = d THEN s[CHOOSE i \in latest : TRUE].n ELSE 0

Forget       == report' = "none" /\ before' = [disk |-> NoOp, process |-> NoOp]
Trouble      == spent.trouble < MaxTrouble
Troubled     == spent' = [spent EXCEPT !.trouble = @ + 1]
Put(d, a, f) == disk' = [disk EXCEPT ![d][a] = f]

Moved(a, d, e) == [disk EXCEPT ![d][a] = Missing, ![e][a] = disk[d][a]]

\* One record more, without an error.
Written(r) == Put(store, "sessions", Append(Log(store), r)) /\ kept' = kept \cup {r}

\* Nothing, half a line or the line is written, and the call raises.
Unwritten(r) ==
    /\ Trouble
    /\ \E tail \in {<<>>, <<Half>>, <<r>>} :
          IF tail = <<>> THEN disk' = disk ELSE Put(store, "sessions", Log(store) \o tail)

-----------------------------------------------------------------------------
(* A turn writes to the log and through a tool to the todo list or the     *)
(* patch journal, wherever the process thinks they are.                    *)

Turn ==
    /\ pc = "idle" /\ spent.records < MaxRecords
    /\ Written(Note("sessions", spent.records + 1))
    /\ spent' = [spent EXCEPT !.records = @ + 1]
    /\ pc' \in {"todos", "patches"}
    /\ Forget
    /\ UNCHANGED <<at, store, rev, op, split, wiped>>

\* The list is read, and one item is added or changed; then write_text opens
\* the file, which empties or creates it.
SaveTodos ==
    /\ pc = "todos" /\ disk[at]["todos"] # <<>>
    /\ LET items == Bytes(disk[at]["todos"]) IN
       \E list \in {items, Append(items, Note("todos", spent.records))} \ {<<>>} :
          op' = [kind |-> "todos", bytes |-> list]
    /\ Put(at, "todos", <<>>)
    /\ pc' = "saving"
    /\ UNCHANGED <<at, store, rev, report, spent, before, kept, split, wiped>>

\* An empty file is no list, and no todo tool can read it.
TodosFail ==
    /\ pc = "todos"
    /\ IF disk[at]["todos"] = <<>> THEN UNCHANGED spent ELSE Trouble /\ Troubled
    /\ pc' = "idle"
    /\ UNCHANGED <<disk, at, store, rev, op, report, before, kept, split, wiped>>

WriteTodos ==
    /\ pc = "saving"
    /\ Put(at, "todos", op.bytes) /\ kept' = kept \cup {r \in ToSet(op.bytes) : r.a = "todos"}
    /\ pc' = "idle" /\ op' = NoOp
    /\ UNCHANGED <<at, store, rev, report, spent, before, split, wiped>>

WriteTodosFails ==
    /\ pc = "saving" /\ Trouble /\ Troubled
    /\ wiped' = wiped \cup {"todos"}
    /\ pc' = "idle" /\ op' = NoOp
    /\ UNCHANGED <<disk, at, store, rev, report, before, kept, split>>

\* The journal only gets longer.
AppendPatch ==
    /\ pc = "patches"
    /\ LET r == Note("patches", spent.records)
           added == Put(at, "patches", Append(Bytes(disk[at]["patches"]), r)) IN
          \/ added /\ kept' = kept \cup {r} /\ UNCHANGED spent
          \/ Trouble /\ Troubled /\ (added \/ UNCHANGED disk) /\ UNCHANGED kept
    /\ pc' = "idle"
    /\ UNCHANGED <<at, store, rev, op, report, before, split, wiped>>

\* The record of a turn fails; nobody takes it back.
TurnFails ==
    /\ pc = "idle"
    /\ Unwritten(Note("sessions", spent.records + 1)) /\ Troubled
    /\ Forget
    /\ UNCHANGED <<pc, at, store, rev, op, kept, split, wiped>>

-----------------------------------------------------------------------------
(* What a move and a change of the roots share: what is remembered, the    *)
(* record, and the old bytes of the log written back when it fails.        *)

Open(kind, d, moves) ==
    /\ spent.changes < MaxChanges /\ There(store, "sessions")
    /\ op' = [kind |-> kind, to |-> d, was |-> Process, rest |-> moves, done |-> {},
              error |-> FALSE, bytes |-> Log(store)]
    /\ before' = [disk |-> disk, process |-> Process]
    /\ spent' = [spent EXCEPT !.changes = @ + 1]

Answer(r) == pc' = "idle" /\ report' = r /\ op' = NoOp

\* It failed, and so did taking it back.
AnswerTorn == Answer("torn") /\ split' = TRUE

\* Faulty: the process goes on in the new directory.
StayThere == UNCHANGED <<at, store, rev>>

GoBack == at' = op.was.at /\ store' = op.was.store /\ rev' = op.was.rev

ChangeRoots ==
    /\ pc = "idle" /\ Open("roots", at, {})
    /\ pc' = "record" /\ report' = "none"
    /\ UNCHANGED <<disk, at, store, rev, kept, split, wiped>>

\* The log cannot be read for its old bytes: an OSError, which is nobody's
\* either, see DropEvidenceFails.
ChangeRootsEscapes ==
    /\ pc = "idle" /\ ~ There(store, "sessions")
    /\ pc' \in {"idle", "down"} /\ Forget
    /\ UNCHANGED <<disk, at, store, rev, op, spent, kept, split, wiped>>

RecordChange ==
    /\ pc = "record"
    /\ Written(Roots(op.was.rev + 1, at))
    /\ rev' = op.was.rev + 1
    /\ pc' = "evidence"
    /\ UNCHANGED <<at, store, op, report, spent, before, split, wiped>>

RecordFails ==
    /\ pc = "record"
    /\ Unwritten(Roots(op.was.rev + 1, at)) /\ Troubled
    /\ pc' = IF op.kind = "move" THEN "undo" ELSE "rewrite"
    /\ UNCHANGED <<at, store, rev, op, report, before, kept, split, wiped>>

\* write_bytes opens the file, which empties or creates it, and then writes.
RewriteLog ==
    /\ pc = "rewrite"
    /\ Put(op.was.store, "sessions", <<>>)
    /\ pc' = "bytes"
    /\ UNCHANGED <<at, store, rev, op, report, spent, before, kept, split, wiped>>

RewriteLogFails ==
    /\ pc = "rewrite" /\ Trouble /\ Troubled
    /\ AnswerTorn /\ GoBack
    /\ UNCHANGED <<disk, before, kept, wiped>>

WriteBytes ==
    /\ pc = "bytes"
    /\ Put(op.was.store, "sessions", op.bytes)
    /\ Answer("undone") /\ GoBack
    /\ UNCHANGED <<spent, before, kept, split, wiped>>

WriteBytesFails ==
    /\ pc = "bytes" /\ Trouble /\ Troubled
    /\ \E f \in {<<>>, <<Half>>} : Put(op.was.store, "sessions", f)
    /\ wiped' = wiped \cup {"sessions"}
    /\ AnswerTorn /\ GoBack
    /\ UNCHANGED <<before, kept>>

\* After the commit: the evidence of earlier turns is dropped, and that is
\* recorded if there was any.  Here an exception is nobody's: it ends the
\* chat, or the worker of the TUI reports a failure.
DropEvidence ==
    /\ pc = "evidence"
    /\ \/ Written(Record("sessions", "event", spent.changes, at))
       \/ UNCHANGED <<disk, kept>>
    /\ pc' = "announce"
    /\ UNCHANGED <<at, store, rev, op, report, spent, before, split, wiped>>

DropEvidenceFails ==
    /\ pc = "evidence"
    /\ Unwritten(Record("sessions", "event", spent.changes, at)) /\ Troubled
    /\ pc' \in {"idle", "down"} /\ Forget /\ op' = NoOp
    /\ UNCHANGED <<at, store, rev, kept, split, wiped>>

\* After a change of the roots, so is one of the search for path rules.
RefreshFails ==
    /\ pc = "announce" /\ op.kind = "roots" /\ Trouble /\ Troubled
    /\ pc' \in {"idle", "down"} /\ Forget /\ op' = NoOp
    /\ UNCHANGED <<disk, at, store, rev, kept, split, wiped>>

\* The change is announced; a failure of that is swallowed, half a line too.
Announce ==
    /\ pc = "announce"
    /\ \/ Written(Record("sessions", "event", spent.changes, at)) /\ UNCHANGED spent
       \/ Unwritten(Record("sessions", "event", spent.changes, at)) /\ Troubled /\ UNCHANGED kept
    /\ Answer("ok")
    /\ UNCHANGED <<at, store, rev, before, split, wiped>>

-----------------------------------------------------------------------------
(* Moving the files. *)

\* Faulty: what is at the target is overwritten.
NoConflict(d, moves) == FALSE

Conflict(d, moves) == \E a \in moves : There(d, a)

Move(d) ==
    /\ pc = "idle" /\ d # at
    /\ LET moves == {a \in Artifacts : There(at, a)} IN
       /\ Open("move", d, moves)
       /\ ~ Conflict(d, moves) /\ "sessions" \in moves
    /\ pc' = "files" /\ report' = "none"
    /\ UNCHANGED <<disk, at, store, rev, kept, split, wiped>>

\* The target holds something of this session, or the log is not here.
MoveRefused(d) ==
    /\ pc = "idle" /\ d # at
    /\ LET moves == {a \in Artifacts : There(at, a)} IN
          \/ Conflict(d, moves)
          \/ "sessions" \notin moves
    /\ report' = "refused" /\ before' = [disk |-> disk, process |-> Process]
    /\ UNCHANGED <<pc, disk, at, store, rev, op, spent, kept, split, wiped>>

MoveFile ==
    /\ pc = "files"
    /\ \E a \in Artifacts :
          /\ First(a, op.rest)
          /\ disk' = Moved(a, op.was.at, op.to)
          /\ op' = [op EXCEPT !.done = @ \cup {a}, !.rest = @ \ {a}]
    /\ UNCHANGED <<pc, at, store, rev, report, spent, before, kept, split, wiped>>

\* os.replace raises, before or after it has taken effect.
MoveFileFails ==
    /\ pc = "files" /\ Trouble /\ Troubled
    /\ \E a \in Artifacts, late \in BOOLEAN :
          /\ First(a, op.rest)
          /\ disk' = IF late THEN Moved(a, op.was.at, op.to) ELSE disk
          /\ split' = (split \/ late)
    /\ pc' = "undo"
    /\ UNCHANGED <<at, store, rev, op, report, before, kept, wiped>>

\* The store, the context and the tools are pointed to the target, and the
\* language servers are closed.
Commit ==
    /\ pc = "files" /\ op.rest = {}
    /\ at' = op.to /\ store' = op.to /\ rev' = op.was.rev + 1
    /\ pc' = "record"
    /\ UNCHANGED <<disk, op, report, spent, before, kept, split, wiped>>

CommitFails ==
    /\ pc = "files" /\ op.rest = {} /\ Trouble /\ Troubled
    /\ at' = op.to /\ store' = op.to /\ rev' = op.was.rev + 1
    /\ pc' = "undo"
    /\ UNCHANGED <<disk, op, report, before, kept, split, wiped>>

\* Faulty: the first error ends the rollback, and is not told.
StopAtError(a, error) ==
    op' = [op EXCEPT !.done = IF error THEN {} ELSE @ \ {a}]

\* The others are taken back all the same.
TakenBack(a, error) ==
    op' = [op EXCEPT !.done = @ \ {a}, !.error = @ \/ error]

UndoFile ==
    /\ pc = "undo"
    /\ \E a \in Artifacts :
       /\ Final(a, op.done)
       /\ \/ /\ There(op.to, a) /\ ~ There(op.was.at, a)
             /\ disk' = Moved(a, op.to, op.was.at)
             /\ TakenBack(a, FALSE)
             /\ UNCHANGED spent
          \/ /\ ~ There(op.to, a) \/ There(op.was.at, a)
             /\ TakenBack(a, TRUE)
             /\ UNCHANGED <<disk, spent>>
          \/ /\ Trouble /\ Troubled
             /\ There(op.to, a) /\ ~ There(op.was.at, a)
             /\ disk' \in {disk, Moved(a, op.to, op.was.at)}
             /\ TakenBack(a, TRUE)
    /\ UNCHANGED <<pc, at, store, rev, report, before, kept, split, wiped>>

\* The log's bytes are written back if the process had got past the files.
Undone ==
    /\ pc = "undo" /\ op.done = {}
    /\ \/ op.error /\ AnswerTorn /\ GoBack
       \/ ~ op.error /\ op.rest # {} /\ Answer("undone") /\ GoBack /\ UNCHANGED split
       \/ /\ ~ op.error /\ op.rest = {}
          /\ pc' = "rewrite"
          /\ UNCHANGED <<at, store, rev, op, report, split>>
    /\ UNCHANGED <<disk, spent, before, kept, wiped>>

-----------------------------------------------------------------------------
(* The process ends, by itself, by a signal or a crash; another one starts *)
(* in one of the workspaces and resumes the session it finds there.        *)

Quit ==
    /\ pc = "idle"
    /\ pc' = "down" /\ Forget
    /\ UNCHANGED <<disk, at, store, rev, op, spent, kept, split, wiped>>

Stop ==
    /\ pc # "down" /\ Trouble /\ Troubled
    /\ pc' = "down" /\ Forget /\ op' = NoOp
    /\ \/ UNCHANGED disk
       \/ /\ pc \in {"idle", "record", "evidence", "announce"}
          /\ Put(store, "sessions", Append(Log(store), Half))
    /\ split' = (split \/ pc \in {"files", "undo"})
    /\ wiped' = wiped \cup {a \in Artifacts : BeingRewritten(a)}
    /\ UNCHANGED <<at, store, rev, kept>>

Start(d) ==
    /\ pc = "down" /\ spent.records < MaxRecords
    /\ There(d, "sessions") /\ Readable(Log(d))
    /\ pc' = "idle" /\ at' = d /\ store' = d /\ rev' = Restored(Log(d), d)
    /\ LET r == Note("sessions", spent.records + 1) IN
          Put(d, "sessions", Append(Log(d), r)) /\ kept' = kept \cup {r}
    /\ spent' = [spent EXCEPT !.records = @ + 1]
    /\ Forget
    /\ UNCHANGED <<op, split, wiped>>

-----------------------------------------------------------------------------
Init ==
    /\ pc = "idle" /\ at \in Dir /\ store = at /\ rev = 0
    /\ disk = [d \in Dir |-> [a \in Artifacts |->
                  IF d = at /\ a = "sessions" THEN <<Note(a, 0)>> ELSE Missing]]
    /\ op = NoOp /\ report = "none"
    /\ spent = [records |-> 0, changes |-> 0, trouble |-> 0]
    /\ before = [disk |-> NoOp, process |-> NoOp]
    /\ kept = {Note("sessions", 0)} /\ split = FALSE /\ wiped = {}

Next ==
    \/ Turn \/ TurnFails
    \/ SaveTodos \/ TodosFail \/ WriteTodos \/ WriteTodosFails \/ AppendPatch
    \/ ChangeRoots \/ ChangeRootsEscapes \/ RecordChange \/ RecordFails
    \/ RewriteLog \/ RewriteLogFails \/ WriteBytes \/ WriteBytesFails
    \/ DropEvidence \/ DropEvidenceFails \/ RefreshFails \/ Announce
    \/ \E d \in Dir : Move(d) \/ MoveRefused(d) \/ Start(d)
    \/ MoveFile \/ MoveFileFails \/ Commit \/ CommitFails \/ UndoFile \/ Undone
    \/ Quit \/ Stop

Spec == Init /\ [][Next]_vars

-----------------------------------------------------------------------------
Operations == {"idle", "down", "todos", "saving", "patches", "record", "rewrite", "bytes",
               "evidence", "announce", "files", "undo"}

TypeOK ==
    /\ pc \in Operations
    /\ at \in Dir /\ store \in Dir /\ rev \in 0..MaxChanges
    /\ \A d \in Dir, a \in Artifacts :
          There(d, a) => \A i \in DOMAIN disk[d][a] : disk[d][a][i].a = a
    /\ report \in {"none", "ok", "refused", "undone", "torn"}
    /\ split \in BOOLEAN /\ wiped \subseteq {"sessions", "todos"}

\* What is said of a move or a change is what happened.  A refused or failed
\* one that names no error of its rollback has left every file and the
\* process as they were; one that succeeded has left nothing at the old
\* place, and its record is in the log the process writes to
\* (WorkspaceLifecycle.move_workspace, migrate_session_artifacts).  An
\* exception after the commit (DropEvidenceFails, RefreshFails) reports a
\* failure of the command, or ends the chat, although the change stands: that
\* is no report of the move here.
ReportIsTrue ==
    /\ report = "refused" \/ (report = "undone" /\ ~ split) =>
          disk = before.disk /\ Process = before.process
    /\ report = "ok" =>
          /\ Roots(rev, at) \in ToSet(Log(store))
          /\ \A d \in Dir \ {at}, a \in Artifacts :
                There(d, a) => disk[d][a] = before.disk[d][a] /\ d # before.process.at

\* The bytes of a record that was written without an error are in some file of
\* the session until the end of time, whatever moves, fails and dies, except
\* that those of the log may go when a process dies, or fails, while it writes
\* back the log's old bytes, and those of the todo list when it does so while
\* it writes the list: write_bytes and write_text empty the file first
\* (move_workspace, record_workspace_roots_change, _save_todos).
NoRecordLost ==
    \A r \in kept :
        \/ \E d \in Dir : r \in ToSet(Bytes(disk[d][r.a]))
        \/ r.a \in wiped \/ BeingRewritten(r.a)

\* The files of the session are in one state directory, that of the process,
\* whenever no move is under way: unless a move was cut by a signal or a
\* crash, a rename raised although it had taken effect, or the user was told
\* that taking the move back had failed (migrate_session_artifacts,
\* rollback_session_artifacts).
NotSplit ==
    pc \in {"idle", "down"} /\ ~ split =>
        \E home \in Dir : /\ \A d \in Dir \ {home}, a \in Artifacts : ~ There(d, a)
                          /\ pc = "idle" => home = at /\ home = store

=============================================================================
