------------------------- MODULE RootedTransaction -------------------------
(***************************************************************************)
(* apply_rooted_text_transaction: a batch of creates, replaces and deletes *)
(* below one directory, each done by mutate_rooted_regular, compensated in *)
(* reverse order with the inverse mutations.  One mutation is one step     *)
(* here, with any effect MutationContract allows, at most one editor's     *)
(* version arriving while it runs.  Of a file that is written in place     *)
(* while it is being mutated nothing is assumed: see RootedMutation.       *)
(***************************************************************************)
EXTENDS Integers

CONSTANTS
    N,        \* number of changes in the batch
    Kind,     \* change -> "create", "replace" or "delete"
    Foreign,  \* versions that editors may write
    InPlace   \* those written into the file that is there, not renamed over it

File == 1..N

ASSUME BatchAssumption ==
    /\ N \in Nat \ {0}
    /\ Kind \in [File -> {"create", "replace", "delete"}]
    /\ Foreign \cap {"absent", "before", "after", "partial"} = {}
    /\ InPlace \subseteq Foreign

Before(i) == IF Kind[i] = "create" THEN "absent" ELSE "before"
After(i)  == IF Kind[i] = "delete" THEN "absent" ELSE "after"
Contents  == {"absent", "before", "after", "partial"} \cup Foreign

VARIABLES
    content,    \* file -> content at its path
    strays,     \* file -> contents of the private entries left beside it
    pc,         \* the next step
    cursor,     \* the change the current loop has reached
    committed,  \* the changes mutated successfully
    undo,       \* the changes compensation still has to visit
    paths,      \* the changed paths found by the residual scan
    status,     \* the TextTransactionResult status, "none" until the return
    unused,     \* editor versions not yet written
    dirty,      \* history: files an editor wrote since the batch last read them
    harmed      \* history: files an editor wrote or a call failed on

vars == <<content, strays, pc, cursor, committed, undo, paths, status, unused,
          dirty, harmed>>

Init ==
    /\ content = [i \in File |-> Before(i)]
    /\ strays = [i \in File |-> {}]
    /\ pc = "preflight"
    /\ cursor = 1
    /\ committed = {} /\ undo = {} /\ paths = {}
    /\ status = "none"
    /\ unused = Foreign
    /\ dirty = {} /\ harmed = {}

-----------------------------------------------------------------------------
(* Parts of the steps below. *)

Saw(i)    == dirty' = dirty \ {i} /\ UNCHANGED harmed
Failed(i) == harmed' = harmed \cup {i} /\ UNCHANGED dirty
Return(s) == pc' = "done" /\ status' = s

Contract == INSTANCE MutationContract

\* mutate_rooted_regular asked to turn file i from one image into another; race
\* holds the version an editor wrote meanwhile, if any.  The contract is kept
\* unless it was written in place (RootedMutation.KeepsContract).
MutateRooted(i, from, to, race, result, changed) ==
    \E target, stray \in {from, to, content[i], "absent", "partial"} \cup race :
        /\ \/ race \cap InPlace # {}
           \/ Contract!Holds(
                [from |-> from, to |-> to, status |-> result, changed |-> changed,
                 target |-> target, stray |-> stray, seen |-> race,
                 world |-> IF race = {} THEN content[i] ELSE CHOOSE f \in race : TRUE])
        /\ content' = [content EXCEPT ![i] = target]
        /\ strays' = [strays EXCEPT ![i] = @ \cup ({stray} \ {"absent"})]
        /\ unused' = unused \ race
        /\ IF result = "committed" /\ race \cap InPlace = {}
              THEN Saw(i)
              ELSE /\ harmed' = harmed \cup {i}
                   /\ dirty' = IF race = {} THEN dirty ELSE dirty \cup {i}

Races == {{}} \cup {{f} : f \in unused}

\* _compensate_rooted starts; the attempted change only if it may have changed.
Compensate(attempted) ==
    /\ pc' = "undo"
    /\ undo' = committed \cup attempted
    /\ UNCHANGED <<cursor, committed, paths, status>>

-----------------------------------------------------------------------------
(* The batch. *)

\* _preflight_rooted: every before image must match.
Preflight ==
    /\ pc = "preflight"
    /\ \/ /\ content[cursor] = Before(cursor)
          /\ Saw(cursor)
          /\ IF cursor = N THEN cursor' = 1 /\ pc' = "mutate"
                           ELSE cursor' = cursor + 1 /\ UNCHANGED pc
          /\ UNCHANGED status
       \/ /\ content[cursor] # Before(cursor)
          /\ Saw(cursor)
          /\ Return("stale") /\ UNCHANGED cursor
       \/ Failed(cursor) /\ Return("stale") /\ UNCHANGED cursor
    /\ UNCHANGED <<content, strays, committed, undo, paths, unused>>

Commit == committed' = committed \cup {cursor}

Mutate ==
    /\ pc = "mutate"
    /\ \E race \in Races, changed \in BOOLEAN :
        LET Call(result) ==
                MutateRooted(cursor, Before(cursor), After(cursor), race,
                             result, changed)
        IN  \/ /\ Call("committed")
               /\ Commit
               /\ cursor' = cursor + 1
               /\ IF cursor = N THEN Return("committed")
                                ELSE UNCHANGED <<pc, status>>
               /\ UNCHANGED <<undo, paths>>
            \/ /\ Call("refused")
               /\ Compensate(IF changed THEN {cursor} ELSE {})
            \/ /\ Call("interrupted")
               /\ Compensate({cursor})

\* Faulty: a failure ends the whole compensation, not only that of its change.
UndoGivingUp(j) ==
    /\ pc = "undo"
    /\ j \in undo /\ \A k \in undo : k <= j
    /\ \/ /\ content[j] # After(j)
          /\ Saw(j) /\ undo' = undo \ {j}
          /\ UNCHANGED <<content, strays, unused>>
       \/ /\ Failed(j) /\ undo' = {}
          /\ UNCHANGED <<content, strays, unused>>
       \/ /\ content[j] = After(j)
          /\ \E race \in Races, changed \in BOOLEAN,
                result \in {"committed", "refused"} :
                /\ MutateRooted(j, After(j), Before(j), race, result, changed)
                /\ undo' = IF result = "committed" THEN undo \ {j} ELSE {}
    /\ UNCHANGED <<pc, cursor, committed, paths, status>>

\* Compensation of one change: skipped unless the path holds the after image,
\* else the inverse mutation, whose failure is swallowed.
Undo(j) ==
    /\ pc = "undo"
    /\ j \in undo /\ \A k \in undo : k <= j
    /\ undo' = undo \ {j}
    /\ \/ /\ content[j] # After(j)
          /\ Saw(j)
          /\ UNCHANGED <<content, strays, unused>>
       \/ /\ Failed(j)
          /\ UNCHANGED <<content, strays, unused>>
       \/ /\ content[j] = After(j)
          /\ \E race \in Races, changed \in BOOLEAN,
                result \in {"committed", "refused"} :
                MutateRooted(j, After(j), Before(j), race, result, changed)
    /\ UNCHANGED <<pc, cursor, committed, paths, status>>

StartScan ==
    /\ pc = "undo"
    /\ undo = {}
    /\ pc' = "scan"
    /\ cursor' = 1
    /\ UNCHANGED <<content, strays, committed, undo, paths, status, unused,
                   dirty, harmed>>

\* Faulty: a file that cannot be read counts as unchanged.
ScanReadable ==
    /\ pc = "scan"
    /\ \/ /\ Saw(cursor)
          /\ paths' = IF content[cursor] = Before(cursor) THEN paths
                                                          ELSE paths \cup {cursor}
       \/ Failed(cursor) /\ UNCHANGED paths
    /\ cursor' = cursor + 1
    /\ IF cursor = N
          THEN Return(IF paths' = {} THEN "rolled_back" ELSE "rollback_failed")
          ELSE UNCHANGED <<pc, status>>
    /\ UNCHANGED <<content, strays, committed, undo, unused>>

\* _rooted_changed_paths, one file at a time, over the whole batch.
Scan ==
    /\ pc = "scan"
    /\ \/ /\ Saw(cursor)
          /\ paths' = IF content[cursor] = Before(cursor) THEN paths
                                                          ELSE paths \cup {cursor}
       \/ Failed(cursor) /\ paths' = paths \cup {cursor}
    /\ cursor' = cursor + 1
    /\ IF cursor = N
          THEN Return(IF paths' = {} THEN "rolled_back" ELSE "rollback_failed")
          ELSE UNCHANGED <<pc, status>>
    /\ UNCHANGED <<content, strays, committed, undo, unused>>

\* Ctrl-C outside the commit loop, or a second one inside _compensate_rooted,
\* leaves without any result.
Abandon ==
    /\ pc \in {"preflight", "undo", "scan"}
    /\ Return("abandoned")
    /\ UNCHANGED <<content, strays, cursor, committed, undo, paths, unused,
                   dirty, harmed>>

-----------------------------------------------------------------------------
\* An editor saves version f of file i between two mutations.
Edit(i, f) ==
    /\ pc # "done"
    /\ f \in unused
    /\ unused' = unused \ {f}
    /\ content' = [content EXCEPT ![i] = f]
    /\ dirty' = dirty \cup {i}
    /\ harmed' = harmed \cup {i}
    /\ UNCHANGED <<strays, pc, cursor, committed, undo, paths, status>>

Batch == \/ Preflight \/ Mutate \/ StartScan \/ Scan \/ Abandon
         \/ \E j \in File : Undo(j)

Editors == \E i \in File, f \in Foreign : Edit(i, f)

Done == pc = "done" /\ UNCHANGED vars

Next == Batch \/ Editors \/ Done

Spec == Init /\ [][Next]_vars

-----------------------------------------------------------------------------
(* Properties. *)

\* The result tells the truth about every file no editor has touched since the
\* batch last read it.
TruthfulResult ==
    /\ status = "committed" =>
           \A i \in File \ dirty : content[i] = After(i) /\ strays[i] = {}
    /\ status = "rolled_back" =>
           \A i \in File \ dirty : content[i] = Before(i)
    /\ status = "rollback_failed" =>
           /\ paths # {}
           /\ \A i \in File \ (dirty \cup paths) : content[i] = Before(i)
    /\ status = "stale" =>
           \A i \in File : content[i] \in {Before(i)} \cup Foreign /\ strays[i] = {}

\* Compensation is complete: without an editor and without a failed call on a
\* file, the file is neither reported as changed nor left with a private entry.
ResidueExplained == paths \cup {i \in File : strays[i] # {}} \subseteq harmed

=============================================================================
