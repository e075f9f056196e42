------------------------ MODULE ExistingTransaction ------------------------
(***************************************************************************)
(* apply_existing_text_transaction: a batch of changes to existing files,  *)
(* each written in place, checked by reading back, and compensated in      *)
(* reverse order when anything goes wrong.  Reads and writes are separate  *)
(* steps, so editors may write between them; any read or write may fail; a *)
(* write that fails may leave the file torn; Ctrl-C may arrive anywhere.   *)
(*                                                                         *)
(* Changes are numbered in the order of the batch.  A file's content is    *)
(* its before image, its after image, a torn write, or a version written   *)
(* by an editor.                                                           *)
(***************************************************************************)
EXTENDS Integers

CONSTANTS
    N,        \* number of changes in the batch
    Noop,     \* the changes whose before and after images are equal
    Others    \* versions that editors may write

ASSUME BatchAssumption ==
    /\ N \in Nat \ {0}
    /\ Noop \subseteq 1..N
    /\ Others \cap {"before", "after", "torn"} = {}

File         == 1..N
FileContents == {"before", "after", "torn"} \cup Others

VARIABLES
    content,    \* file -> content
    step,       \* the next step
    cursor,     \* the change the current loop has reached
    committed,  \* the changes written and verified
    attempted,  \* the change being written, 0 for none
    undo,       \* the changes compensation still has to visit
    paths,      \* the changed paths found by the residual scan
    status,     \* the TextTransactionResult status, "none" until the return
    unwritten,  \* editor versions not yet written
    dirty,      \* history: files an editor wrote since the batch last read them
    harmed      \* history: files an editor wrote or an I/O call failed on

batchVars == <<content, step, cursor, committed, attempted, undo, paths,
               status, unwritten, dirty, harmed>>

BatchTypeOK ==
    /\ content \in [File -> FileContents]
    /\ step \in {"preflight", "read", "write", "verify", "undo_read",
               "undo_write", "scan", "done"}
    /\ cursor \in 1..(N + 1)
    /\ committed \subseteq File \ Noop
    /\ attempted \in File \cup {0}
    /\ undo \subseteq File
    /\ paths \subseteq File
    /\ status \in {"none", "committed", "stale", "rolled_back",
                   "rollback_failed", "abandoned"}
    /\ unwritten \subseteq Others
    /\ dirty \subseteq File
    /\ harmed \subseteq File
    /\ dirty \subseteq harmed

BatchInit ==
    /\ content = [i \in File |-> "before"]
    /\ step = "preflight"
    /\ cursor = 1
    /\ committed = {}
    /\ attempted = 0
    /\ undo = {}
    /\ paths = {}
    /\ status = "none"
    /\ unwritten = Others
    /\ dirty = {}
    /\ harmed = {}

-----------------------------------------------------------------------------
(* Parts of the steps below. *)

\* The batch reads file i and sees its content.
Saw(i) == dirty' = dirty \ {i} /\ UNCHANGED harmed

\* A call on file i fails.
Failed(i) == harmed' = harmed \cup {i} /\ UNCHANGED dirty

Return(s) == step' = "done" /\ status' = s

\* Faulty: compensation visits the committed changes only.
CompensateCommitted ==
    /\ step' = "undo_read"
    /\ undo' = committed
    /\ UNCHANGED <<cursor, committed, attempted, paths, status>>

\* _compensate starts with the attempted change and the committed ones.
Compensate ==
    /\ step' = "undo_read"
    /\ undo' = committed \cup (IF attempted = 0 THEN {} ELSE {attempted})
    /\ UNCHANGED <<cursor, committed, attempted, paths, status>>

\* The commit loop moves on to the next change.
Advance ==
    /\ cursor' = cursor + 1
    /\ IF cursor = N THEN Return("committed")
                     ELSE step' = "read" /\ UNCHANGED status

-----------------------------------------------------------------------------
(* The batch. *)

\* _validate_changes and _preflight: every before image must match.
Preflight ==
    /\ step = "preflight"
    /\ \/ /\ content[cursor] = "before"
          /\ Saw(cursor)
          /\ IF cursor = N THEN cursor' = 1 /\ step' = "read"
                           ELSE cursor' = cursor + 1 /\ UNCHANGED step
          /\ UNCHANGED status
       \/ /\ content[cursor] # "before"
          /\ Saw(cursor)
          /\ Return("stale") /\ UNCHANGED cursor
       \/ Failed(cursor) /\ Return("stale") /\ UNCHANGED cursor
    /\ UNCHANGED <<content, committed, attempted, undo, paths, unwritten>>

SkipNoop ==
    /\ step = "read"
    /\ cursor \in Noop
    /\ Advance
    /\ UNCHANGED <<content, committed, attempted, undo, paths, unwritten, dirty,
                   harmed>>

\* The re-read immediately before the write.
ReadBefore ==
    /\ step = "read"
    /\ cursor \notin Noop
    /\ \/ /\ content[cursor] = "before"
          /\ Saw(cursor)
          /\ step' = "write"
          /\ attempted' = cursor
          /\ UNCHANGED <<cursor, committed, undo, paths, status>>
       \/ content[cursor] # "before" /\ Saw(cursor) /\ Compensate
       \/ Failed(cursor) /\ Compensate
    /\ UNCHANGED <<content, unwritten>>

Write ==
    /\ step = "write"
    /\ \/ /\ content' = [content EXCEPT ![cursor] = "after"]
          /\ step' = "verify"
          /\ UNCHANGED <<cursor, committed, attempted, undo, paths, status,
                         dirty, harmed>>
       \/ /\ content' = [content EXCEPT ![cursor] = "torn"]
          /\ Failed(cursor) /\ Compensate
       \/ UNCHANGED content /\ Failed(cursor) /\ Compensate
    /\ UNCHANGED unwritten

VerifyAfter ==
    /\ step = "verify"
    /\ \/ /\ content[cursor] = "after"
          /\ Saw(cursor)
          /\ committed' = committed \cup {cursor}
          /\ attempted' = 0
          /\ Advance
          /\ UNCHANGED <<undo, paths>>
       \/ content[cursor] # "after" /\ Saw(cursor) /\ Compensate
       \/ Failed(cursor) /\ Compensate
    /\ UNCHANGED <<content, unwritten>>

\* Ctrl-C in the commit loop: compensate, attach the result, re-raise.
CtrlC ==
    /\ step \in {"read", "write", "verify"}
    /\ Compensate
    /\ \/ UNCHANGED <<content, harmed>>
       \/ /\ step = "write"
          /\ content' = [content EXCEPT ![cursor] = "torn"]
          /\ harmed' = harmed \cup {cursor}
    /\ UNCHANGED <<unwritten, dirty>>

-----------------------------------------------------------------------------
(* Compensation: the attempted change first, the committed ones reversed. *)

IsNextUndo(j) == j \in undo /\ \A k \in undo : k <= j

\* Faulty: compensation writes over whatever the file holds.
UndoBlindly(j) ==
    /\ step = "undo_read"
    /\ IsNextUndo(j)
    /\ Saw(j)
    /\ step' = "undo_write"
    /\ UNCHANGED <<undo, content, cursor, committed, attempted, paths, status, unwritten>>

UndoRead(j) ==
    /\ step = "undo_read"
    /\ IsNextUndo(j)
    /\ \/ /\ content[j] = "after"
          /\ Saw(j)
          /\ step' = "undo_write"
          /\ UNCHANGED undo
       \/ content[j] # "after" /\ Saw(j) /\ undo' = undo \ {j} /\ UNCHANGED step
       \/ Failed(j) /\ undo' = undo \ {j} /\ UNCHANGED step
    /\ UNCHANGED <<content, cursor, committed, attempted, paths, status,
                   unwritten>>

UndoWrite(j) ==
    /\ step = "undo_write"
    /\ IsNextUndo(j)
    /\ undo' = undo \ {j}
    /\ step' = "undo_read"
    /\ \/ /\ content' = [content EXCEPT ![j] = "before"]
          /\ UNCHANGED <<dirty, harmed>>
       \/ content' = [content EXCEPT ![j] = "torn"] /\ Failed(j)
       \/ UNCHANGED content /\ Failed(j)
    /\ UNCHANGED <<cursor, committed, attempted, paths, status, unwritten>>

StartScan ==
    /\ step = "undo_read"
    /\ undo = {}
    /\ step' = "scan"
    /\ cursor' = 1
    /\ UNCHANGED <<content, committed, attempted, undo, paths, status, unwritten,
                   dirty, harmed>>

\* Faulty: a file that cannot be read counts as unchanged.
ScanReadable ==
    /\ step = "scan"
    /\ \/ /\ Saw(cursor)
          /\ paths' = IF content[cursor] = "before" THEN paths
                                                    ELSE paths \cup {cursor}
       \/ Failed(cursor) /\ UNCHANGED paths
    /\ cursor' = cursor + 1
    /\ IF cursor = N
          THEN Return(IF paths' = {} THEN "rolled_back" ELSE "rollback_failed")
          ELSE UNCHANGED <<step, status>>
    /\ UNCHANGED <<content, committed, attempted, undo, unwritten>>

\* _changed_paths, one file at a time, over the whole batch.
Scan ==
    /\ step = "scan"
    /\ \/ /\ Saw(cursor)
          /\ paths' = IF content[cursor] = "before" THEN paths
                                                    ELSE paths \cup {cursor}
       \/ Failed(cursor) /\ paths' = paths \cup {cursor}
    /\ cursor' = cursor + 1
    /\ IF cursor = N
          THEN Return(IF paths' = {} THEN "rolled_back" ELSE "rollback_failed")
          ELSE UNCHANGED <<step, status>>
    /\ UNCHANGED <<content, committed, attempted, undo, unwritten>>

\* Ctrl-C in the preflight, or a second one inside _compensate, leaves without
\* any result.
Abandon ==
    /\ step \in {"preflight", "undo_read", "undo_write", "scan"}
    /\ Return("abandoned")
    /\ UNCHANGED <<content, cursor, committed, attempted, undo, paths, unwritten,
                   dirty, harmed>>

-----------------------------------------------------------------------------
\* An editor writes version f to file i.
Edit(i, f) ==
    /\ step # "done"
    /\ f \in unwritten
    /\ unwritten' = unwritten \ {f}
    /\ content' = [content EXCEPT ![i] = f]
    /\ dirty' = dirty \cup {i}
    /\ harmed' = harmed \cup {i}
    /\ UNCHANGED <<step, cursor, committed, attempted, undo, paths, status>>

Batch ==
    \/ Preflight \/ SkipNoop \/ ReadBefore \/ Write \/ VerifyAfter
    \/ CtrlC \/ StartScan \/ Scan \/ Abandon
    \/ \E j \in File : UndoRead(j) \/ UndoWrite(j)

OtherEdits == \E i \in File, f \in Others : Edit(i, f)

BatchDone == step = "done" /\ UNCHANGED batchVars

BatchNext == Batch \/ OtherEdits \/ BatchDone

BatchSpec == BatchInit /\ [][BatchNext]_batchVars

-----------------------------------------------------------------------------
(* Properties. *)

Target(i) == IF i \in Noop THEN "before" ELSE "after"

\* The result tells the truth about every file no editor has touched since the
\* batch last read it: committed means all after images, rolled_back all before
\* images, and rollback_failed names every file that is not back.  A batch refused
\* as stale has written nothing at all.
TruthfulResult ==
    /\ status = "committed" =>
           \A i \in File \ dirty : content[i] = Target(i)
    /\ status = "rolled_back" =>
           \A i \in File \ dirty : content[i] = "before"
    /\ status = "rollback_failed" =>
           /\ paths # {}
           /\ \A i \in File \ (dirty \cup paths) : content[i] = "before"
    /\ status = "stale" =>
           \A i \in File : content[i] \in {"before"} \cup Others

\* Compensation is complete: a file is reported as changed only if an editor
\* wrote it or a call on it failed, whatever happened to the other files.
ResidueExplained == paths \subseteq harmed

\* The batch overwrites an editor's version only if the editor wrote it after
\* the read that precedes the write: the window the in-place writer leaves.
EditsLostOnlyInWindow ==
    [][Batch => \A i \in File :
           content[i] \in Others /\ content'[i] # content[i] => i \in dirty]_batchVars
=============================================================================
