--------------------------- MODULE RootedMutation ---------------------------
(***************************************************************************)
(* One call of mutate_rooted_regular: create, replace or delete one        *)
(* regular file through atomic renames, while editors outside the program  *)
(* change the same path and any system call may fail.                      *)
(*                                                                         *)
(* The directory holds two names: the target, and the private              *)
(* ".lca-mutation-<uuid>" entry (temp) that nobody else touches.  A name   *)
(* maps to an inode and an inode to a content.  Every external operation   *)
(* takes a fresh member of Foreign, which names both the inode it creates  *)
(* and the content it writes.  One action is one system call that changes  *)
(* the directory, or one check that the code makes of it; a check made of  *)
(* several stats is taken at its last stat, which decides it.              *)
(***************************************************************************)
CONSTANTS
    Foreign,          \* versions external editors may write, each at most once
    InPlace,          \* those an editor writes into the file it finds there
    Operations        \* the operations requested of mutate_rooted_regular

ASSUME ForeignAssumption ==
    Foreign \cap {"none", "original", "prepared",
                  "absent", "before", "after", "partial"} = {}

ASSUME OperationsAssumption ==
    /\ Operations \subseteq {"create", "replace", "delete"}
    /\ InPlace \subseteq Foreign

Names    == {"target", "temp"}
Inodes   == {"original", "prepared"} \cup Foreign
Contents == {"absent", "before", "after", "partial"} \cup Foreign

NoError    == [kind |-> "none", changed |-> FALSE]
NoOutcome  == [status |-> "running", kind |-> "none", changed |-> FALSE]

VARIABLES
    op,         \* the operation requested
    pc,         \* the next step of the call
    dir,        \* directory entries: name -> inode, or "none"
    data,       \* inode -> content
    opened,     \* the inode of the descriptor opened on the before image
    exchanged,  \* replace: exchanged; delete: moved
    tempIsOurs, \* temporary_contains_prepared / temporary_present
    error,      \* the exception being handled: its kind and workspace_changed
    outcome,    \* what the caller sees
    unused,     \* external versions not yet written
    world       \* history: the target's content had this call never run

vars == <<op, pc, dir, data, opened, exchanged, tempIsOurs, error, outcome,
          unused, world>>

Content(name) == IF dir[name] = "none" THEN "absent" ELSE data[dir[name]]

Goal == IF op = "delete" THEN "absent" ELSE "after"

Reachable(c) == \E n \in Names : Content(n) = c

Init ==
    /\ op \in Operations
    /\ pc = IF op = "create" THEN "prepare" ELSE "open"
    /\ dir = [target |-> IF op = "create" THEN "none" ELSE "original",
              temp   |-> "none"]
    /\ data = [i \in Inodes |-> IF i = "original" THEN "before" ELSE "absent"]
    /\ opened = "none"
    /\ exchanged = FALSE
    /\ tempIsOurs = FALSE
    /\ error = NoError
    /\ outcome = NoOutcome
    /\ unused = Foreign
    /\ world = IF op = "create" THEN "absent" ELSE "before"

-----------------------------------------------------------------------------
(* Parts of the steps below. *)

Goto(label) == pc' = label /\ UNCHANGED <<error, outcome>>

Finish(how, kind, changed) ==
    /\ pc' = "done"
    /\ outcome' = [status |-> how, kind |-> kind, changed |-> changed]
    /\ UNCHANGED error

Handle(label, kind, changed) ==
    /\ pc' = label
    /\ error' = [kind |-> kind, changed |-> changed]
    /\ UNCHANGED outcome

Frame == UNCHANGED <<op, unused, world>>

Relink(target, temp) == dir' = [target |-> target, temp |-> temp]

\* An OSError of a call made after the preparation.
OsError ==
    \/ exchanged /\ Handle("rollback", "mutation_failed", FALSE)
    \/ ~ exchanged /\ tempIsOurs /\ Handle("cleanup", "mutation_failed", FALSE)
    \/ /\ ~ exchanged /\ ~ tempIsOurs
       /\ \/ (op = "create" \/ pc = "fsync") /\ Finish("refused", "mutation_failed", TRUE)
          \/ op # "create" /\ pc # "fsync" /\ Finish("refused", "mutation_failed", FALSE)

\* A RootedFileError raised before the target was touched.
Refuse(kind) ==
    IF tempIsOurs THEN Handle("cleanup", kind, FALSE)
                  ELSE Finish("refused", kind, FALSE)

-----------------------------------------------------------------------------
(* The call. *)

\* Opens the target and reads the before image through the descriptor.
Open ==
    /\ pc = "open"
    /\ \/ /\ Content("target") = "before"
          /\ opened' = dir.target
          /\ Goto(IF op = "delete" THEN "recheck" ELSE "prepare")
       \/ /\ Content("target") # "before"
          /\ opened' = "none"
          /\ Finish("refused",
                    IF dir.target = "none" THEN "mutation_failed"
                                           ELSE "stale_before_image", FALSE)
       \/ /\ opened' = "none"
          /\ Finish("refused", "mutation_failed", FALSE)
    /\ UNCHANGED <<dir, data, exchanged, tempIsOurs>> /\ Frame

\* Faulty: a short write goes unnoticed.
PrepareShort ==
    /\ pc = "prepare"
    /\ Relink(dir.target, "prepared")
    /\ \E c \in {"after", "partial"} : data' = [data EXCEPT !["prepared"] = c]
    /\ tempIsOurs' = TRUE
    /\ Goto(IF op = "create" THEN "rename" ELSE "recheck")
    /\ UNCHANGED <<opened, exchanged>> /\ Frame

\* Writes and syncs the prepared file under the private name.
Prepare ==
    /\ pc = "prepare"
    /\ \/ /\ Relink(dir.target, "prepared")
          /\ data' = [data EXCEPT !["prepared"] = "after"]
          /\ tempIsOurs' = TRUE
          /\ Goto(IF op = "create" THEN "rename" ELSE "recheck")
       \/ /\ Finish("refused", "mutation_failed", FALSE)
          /\ UNCHANGED <<dir, data, tempIsOurs>>
       \/ /\ Relink(dir.target, "prepared")
          /\ data' = [data EXCEPT !["prepared"] = "partial"]
          /\ Finish("refused", "mutation_failed", TRUE)
          /\ UNCHANGED tempIsOurs
    /\ UNCHANGED <<opened, exchanged>> /\ Frame

\* assert_open_regular_unchanged, then the directory authority.
Recheck ==
    /\ pc = "recheck"
    /\ \/ /\ dir.target = opened
          /\ data[opened] = "before"
          /\ Goto("rename")
       \/ /\ ~ (dir.target = opened /\ data[opened] = "before")
          /\ Refuse("stale_before_image")
       \/ OsError
    /\ UNCHANGED <<dir, data, opened, exchanged, tempIsOurs>>
    /\ Frame

RenameCreate ==
    /\ op = "create"
    /\ \/ /\ dir.target = "none"
          /\ Relink("prepared", "none")
          /\ tempIsOurs' = FALSE
          /\ Goto("identity")
       \/ /\ dir.target # "none"
          /\ Refuse("stale_before_image")
          /\ UNCHANGED <<dir, tempIsOurs>>
       \/ /\ OsError
          /\ UNCHANGED <<dir, tempIsOurs>>
    /\ UNCHANGED exchanged

RenameReplace ==
    /\ op = "replace"
    /\ \/ /\ dir.target # "none"
          /\ Relink(dir.temp, dir.target)
          /\ exchanged' = TRUE
          /\ tempIsOurs' = FALSE
          /\ Goto("displaced")
       \/ /\ OsError
          /\ UNCHANGED <<dir, exchanged, tempIsOurs>>

RenameDelete ==
    /\ op = "delete"
    /\ \/ /\ dir.target # "none"
          /\ Relink("none", dir.target)
          /\ exchanged' = TRUE
          /\ Goto("displaced")
       \/ /\ OsError
          /\ UNCHANGED <<dir, exchanged>>
    /\ UNCHANGED tempIsOurs

\* The atomic rename: no-replace for create and delete, exchange for replace.
Rename ==
    /\ pc = "rename"
    /\ RenameCreate \/ RenameReplace \/ RenameDelete
    /\ UNCHANGED <<data, opened>> /\ Frame

\* Faulty: what the rename moved aside is not compared with the before image.
TrustDisplaced ==
    /\ pc = "displaced"
    /\ Goto(IF op = "delete" THEN "unlink" ELSE "identity") \/ OsError
    /\ UNCHANGED <<dir, data, opened, exchanged, tempIsOurs>>
    /\ Frame

\* assert_displaced_regular_matches_before, on the entry the rename moved.
CheckDisplaced ==
    /\ pc = "displaced"
    /\ \/ /\ dir.temp = opened
          /\ data[opened] = "before"
          /\ Goto(IF op = "delete" THEN "unlink" ELSE "identity")
       \/ /\ ~ (dir.temp = opened /\ data[opened] = "before")
          /\ Handle("rollback", "stale_before_image", FALSE)
       \/ OsError
    /\ UNCHANGED <<dir, data, opened, exchanged, tempIsOurs>>
    /\ Frame

\* _assert_path_identity: the target must still be the prepared inode.
CheckIdentity ==
    /\ pc = "identity"
    /\ \/ /\ dir.target = "prepared"
          /\ Goto(IF op = "create" THEN "fsync" ELSE "unlink")
       \/ /\ dir.target \notin {"prepared", "none"}
          /\ Finish("refused", "path_identity_changed", TRUE)
       \/ OsError
    /\ UNCHANGED <<dir, data, opened, exchanged, tempIsOurs>>
    /\ Frame

\* Removes the displaced before image.
Unlink ==
    /\ pc = "unlink"
    /\ \/ /\ Relink(dir.target, "none")
          /\ exchanged' = (op = "replace")
          /\ Goto("fsync")
       \/ /\ OsError
          /\ UNCHANGED <<dir, exchanged>>
    /\ UNCHANGED <<data, opened, tempIsOurs>> /\ Frame

FsyncParent ==
    /\ pc = "fsync"
    /\ Goto("verify") \/ OsError
    /\ UNCHANGED <<dir, data, opened, exchanged, tempIsOurs>>
    /\ Frame

\* mutate_rooted_regular reads the target back after the rename sequence.
Verify ==
    /\ pc = "verify"
    /\ \/ /\ Content("target") = Goal
          /\ op # "delete" => dir.target = "prepared"
          /\ Finish("committed", "none", TRUE)
       \/ /\ ~ (/\ Content("target") = Goal
                /\ op # "delete" => dir.target = "prepared")
          /\ Finish("refused", "write_verification_failed", TRUE)
       \/ Finish("refused", "mutation_failed", TRUE)
    /\ UNCHANGED <<dir, data, opened, exchanged, tempIsOurs>>
    /\ Frame

-----------------------------------------------------------------------------
(* Handlers. *)

\* Faulty: a failed rollback is reported as if nothing had changed.
RollbackHushed == Finish("refused", error.kind, FALSE)

RollbackFailed == Finish("refused", error.kind, TRUE)

\* The identities _rollback_exchange and _rollback_move demand beforehand.
RollbackCheck ==
    /\ pc = "rollback"
    /\ \/ /\ dir.temp = opened
          /\ op = "replace" => dir.target = "prepared"
          /\ Goto("rollback_rename")
       \/ RollbackFailed
    /\ UNCHANGED <<dir, data, opened, exchanged, tempIsOurs>>
    /\ Frame

\* The reverse rename.
RollbackRename ==
    /\ pc = "rollback_rename"
    /\ \/ /\ IF op = "replace" THEN dir.target # "none" ELSE dir.target = "none"
          /\ Relink(dir.temp, dir.target)
          /\ Goto("rollback_verify")
       \/ /\ RollbackFailed
          /\ UNCHANGED dir
    /\ UNCHANGED <<data, opened, exchanged, tempIsOurs>> /\ Frame

\* The identities demanded afterwards, and the fsync.
RollbackVerify ==
    /\ pc = "rollback_verify"
    /\ \/ /\ dir.target = opened
          /\ op = "replace" => dir.temp = "prepared"
          /\ exchanged' = FALSE
          /\ tempIsOurs' = (op = "replace")
          /\ IF op = "replace" THEN Goto("cleanup")
                               ELSE Finish("refused", error.kind, error.changed)
       \/ /\ RollbackFailed
          /\ UNCHANGED <<exchanged, tempIsOurs>>
    /\ UNCHANGED <<dir, data, opened>> /\ Frame

\* _unlink_exact on the private entry.
UnlinkExact ==
    /\ dir.temp = "prepared"
    /\ Relink(dir.target, "none")
    /\ tempIsOurs' = FALSE

Cleanup ==
    /\ pc = "cleanup"
    /\ \/ /\ UnlinkExact
          /\ Finish("refused", error.kind, error.changed)
       \/ /\ IF op = "replace"
                THEN Handle("last_cleanup", error.kind, TRUE)
                ELSE Finish("refused", error.kind, TRUE)
          /\ UNCHANGED <<dir, tempIsOurs>>
    /\ UNCHANGED <<data, opened, exchanged>> /\ Frame

\* The retries in the handler and in the finally clause of _replace_regular.
LastCleanup ==
    /\ pc = "last_cleanup"
    /\ UnlinkExact \/ UNCHANGED <<dir, tempIsOurs>>
    /\ Finish("refused", error.kind, error.changed)
    /\ UNCHANGED <<data, opened, exchanged>> /\ Frame

\* KeyboardInterrupt: only the finally clause of _replace_regular runs.
Interrupt ==
    /\ pc # "done"
    /\ Finish("interrupted", "none", FALSE)
    /\ \/ UNCHANGED <<dir, data, tempIsOurs>>
       \/ op = "replace" /\ tempIsOurs /\ UnlinkExact /\ UNCHANGED data
       \/ /\ pc = "prepare"
          /\ Relink(dir.target, "prepared")
          /\ data' = [data EXCEPT !["prepared"] = "partial"]
          /\ UNCHANGED tempIsOurs
    /\ UNCHANGED <<opened, exchanged>> /\ Frame

-----------------------------------------------------------------------------
(* Editors outside the program. *)

ForeignFrame == UNCHANGED <<op, pc, opened, exchanged, tempIsOurs, error,
                            outcome>>

\* An editor that saves by renaming a new file over the target.
ForeignSave(f) ==
    /\ pc # "done"
    /\ f \in unused \ InPlace
    /\ unused' = unused \ {f}
    /\ Relink(f, dir.temp)
    /\ data' = [data EXCEPT ![f] = f]
    /\ world' = f
    /\ ForeignFrame

\* An editor that writes into the file it finds at the target.
ForeignWrite(f) ==
    /\ pc # "done"
    /\ f \in unused \cap InPlace
    /\ dir.target # "none"
    /\ unused' = unused \ {f}
    /\ data' = [data EXCEPT ![dir.target] = f]
    /\ world' = f
    /\ UNCHANGED dir /\ ForeignFrame

\* Somebody removes the target.
ForeignDelete(f) ==
    /\ pc # "done"
    /\ f \in unused \ InPlace
    /\ dir.target # "none"
    /\ unused' = unused \ {f}
    /\ Relink("none", dir.temp)
    /\ world' = "absent"
    /\ UNCHANGED data /\ ForeignFrame

Call ==
    \/ Open \/ Prepare \/ Recheck \/ Rename \/ CheckDisplaced
    \/ CheckIdentity \/ Unlink \/ FsyncParent \/ Verify
    \/ RollbackCheck \/ RollbackRename \/ RollbackVerify
    \/ Cleanup \/ LastCleanup \/ Interrupt

Editors == \E f \in Foreign : ForeignSave(f) \/ ForeignWrite(f) \/ ForeignDelete(f)

Done == pc = "done" /\ UNCHANGED vars

Next == Call \/ Editors \/ Done

Spec == Init /\ [][Next]_vars

-----------------------------------------------------------------------------
(* Properties. *)

Labels ==
    {"open", "prepare", "recheck", "rename", "displaced", "identity", "unlink", "fsync",
     "verify", "rollback", "rollback_rename", "rollback_verify", "cleanup", "last_cleanup",
     "done"}

TypeOK ==
    /\ op \in Operations /\ pc \in Labels
    /\ dir \in [target : Inodes \cup {"none"}, temp : Inodes \cup {"none"}]
    /\ data \in [Inodes -> Contents]
    /\ opened \in {"none", "original"}
    /\ exchanged \in BOOLEAN /\ tempIsOurs \in BOOLEAN
    /\ error.changed \in BOOLEAN
    /\ unused \subseteq Foreign /\ world \in Contents

Contract == INSTANCE MutationContract

Result == [from |-> IF op = "create" THEN "absent" ELSE "before", to |-> Goal,
           status |-> outcome.status, changed |-> outcome.changed,
           target |-> Content("target"), stray |-> Content("temp"),
           world |-> world, seen |-> Foreign \ unused]

\* The finished call keeps the contract the batch relies on: a commit is exact,
\* a refusal that reports an unchanged workspace left neither a change nor a
\* private entry, and nothing an editor wrote last is missing.  Nobody can
\* promise that of a file written in place meanwhile: see ConcurrentWriteKept.
KeepsContract == pc = "done" /\ InPlace \subseteq unused => Contract!Holds(Result)

\* Unless an editor changed the target, the before image stays in the
\* directory until the target holds the requested result.
BeforeImageKept ==
    world = "before" => Reachable("before") \/ Content("target") = Goal

\* Also when the call is interrupted at any step or its cleanup fails, no
\* version of the file is lost: the before image is kept, and a version an
\* editor saved by renaming a file over the target and that can be found in
\* the directory before a step of the call can be found after it.  LCA may move
\* it aside, never destroy it (rooted_mutation.py, _replace and its rollback).
VersionsKept ==
    /\ []BeforeImageKept
    /\ [][Call => \A f \in Foreign \ InPlace : Reachable(f) => Reachable(f)']_vars

\* What test_same_inode_concurrent_change_is_stale_before_truncate expects of a
\* replace that reports an unchanged workspace: the path still holds what the
\* other program wrote there.
ConcurrentWriteKept ==
    outcome.status = "refused" /\ ~ outcome.changed /\ op = "replace" =>
        Content("target") = world
=============================================================================
