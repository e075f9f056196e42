-------------------------- MODULE ContainerStaging --------------------------
(***************************************************************************)
(* Commands run in a container against a staged copy of the workspace.     *)
(* Several sessions share one staging directory, guarded by a file lock,   *)
(* and one container engine.  A session that wants to run a command first  *)
(* recovers what an earlier attempt left, then stages its own attempt: a   *)
(* journal record, a directory, a volume for every workspace root, a       *)
(* preparation container that fills the volumes, and the container that    *)
(* runs the command.  It closes these in order and writes the progress in  *)
(* the record before each step that a crash could leave half done.         *)
(*                                                                         *)
(* The engine carries out a create request some time after it was made,    *)
(* even when the session that made it has given up or died.                *)
(***************************************************************************)
EXTENDS Integers, Sequences

CONSTANTS
    Hosts,         \* the sessions that share the staging directory
    NoHost,        \* nobody
    NRoots,        \* workspace roots, each with a volume
    MaxAttempts,   \* bound: attempts that get a record
    MaxFaults,     \* bound: failed calls, interrupts and crashes
    MaxRevision    \* bound: changes of a session's workspace roots

ASSUME StagingAssumption ==
    /\ NoHost \notin Hosts
    /\ NRoots \in Nat \ {0}
    /\ MaxAttempts \in Nat /\ MaxFaults \in Nat /\ MaxRevision \in Nat

VARIABLES
    pc,          \* session -> its next step
    revision,    \* session -> revision of its workspace roots
    lock,        \* the session whose descriptor holds the file lock
    recovering,  \* whether the session with the lock recovers an old attempt
    handle,      \* the state that session believes the record is in
    todo,        \* resources it still has to create, or to close
    after,       \* its next step once they are closed
    record,      \* the journal record
    stray,       \* a temporary journal file was left behind
    dirs,        \* attempts whose directory exists
    live,        \* volumes and containers that exist
    landing,     \* resources the engine was asked for and may still create
    attempts,    \* attempts so far
    faults       \* faults so far

hand   == <<lock, recovering, handle, todo, after>>
disk   == <<record, stray, dirs>>
engine == <<live, landing>>
vars   == <<pc, revision, hand, disk, engine, attempts, faults>>

-----------------------------------------------------------------------------
(* The journal record and the resources of its attempt.                    *)

States == {"reserved", "allocated", "prepared", "create_possible",
           "execution_create_possible", "execution_absent",
           "container_absent", "cleanup_started"}

Transitions ==
    {<<"reserved", "allocated">>,
     <<"allocated", "prepared">>,
     <<"allocated", "container_absent">>,
     <<"prepared", "create_possible">>,
     <<"prepared", "container_absent">>,
     <<"create_possible", "execution_create_possible">>,
     <<"create_possible", "container_absent">>,
     <<"execution_create_possible", "execution_absent">>,
     <<"execution_absent", "container_absent">>,
     <<"container_absent", "cleanup_started">>}

NoRecord == [attempt |-> 0, state |-> "none", revision |-> 0]

Resource == [attempt : 1..MaxAttempts, kind : {"prep", "exec", "volume"},
             root : 0..NRoots]

Prep      == [attempt |-> record.attempt, kind |-> "prep", root |-> 0]
Exec      == [attempt |-> record.attempt, kind |-> "exec", root |-> 0]
Volume(i) == [attempt |-> record.attempt, kind |-> "volume", root |-> i]

VolumesUpward      == [i \in 1..NRoots |-> Volume(i)]
VolumesDownFrom(k) == [i \in 1..k |-> Volume(k + 1 - i)]

Present == record.attempt \in dirs
Empty   == record = NoRecord /\ dirs = {} /\ ~stray

-----------------------------------------------------------------------------
(* Control flow shared by the steps.                                       *)

Fault   == faults < MaxFaults /\ faults' = faults + 1
NoFault == UNCHANGED faults

Go(h, next) == pc' = [pc EXCEPT ![h] = next]

Forget == /\ recovering' = FALSE /\ handle' = "none"
          /\ todo' = <<>> /\ after' = "none"

(* The lease is closed, and with it the lock; what exists stays recorded.  *)
Release(h, next) == Go(h, next) /\ lock' = NoHost /\ Forget

(* The session ends its call with the lease still open.                    *)
Leak(h) == Go(h, "idle") /\ lock' = h /\ Forget

(* Close resources one after the other, then continue with next.           *)
Close(h, resources, next) ==
    /\ Go(h, "sight") /\ todo' = resources /\ after' = next
    /\ UNCHANGED <<lock, recovering, handle>>

(* The record is replaced: _transition and write_staging_record.           *)
Mark(state) ==
    /\ handle = record.state
    /\ <<record.state, state>> \in Transitions
    /\ record' = [record EXCEPT !.state = state]
    /\ NoFault

(* The write fails, before or after the file was replaced, or is refused   *)
(* because an earlier failure left the session with a stale handle.        *)
MarkFails(state) ==
    \/ /\ handle # record.state
       /\ UNCHANGED record /\ NoFault
    \/ /\ handle = record.state
       /\ <<record.state, state>> \in Transitions
       /\ record' \in {record, [record EXCEPT !.state = state]}
       /\ Fault

-----------------------------------------------------------------------------
\* Faulty: every recovery looks for the preparation container.
ResumeWithPrep(h) ==
    /\ Present
    /\ Go(h, "sight") /\ todo' = <<Prep>> \o VolumesUpward
    /\ after' = "absent"

(* recover_staging_authority, up to the point where it has decided what to *)
(* do.  When it can do nothing it answers an error and changes nothing:    *)
(* the lock is taken, a stray file or a directory without record is there, *)
(* the roots have changed since, or the directory of a reserved record     *)
(* exists without its identity.                                            *)
Resume(h) ==
    \/ /\ ~Present
       /\ record.state \in {"reserved", "allocated", "prepared",
                            "container_absent", "cleanup_started"}
       /\ Go(h, "unlink") /\ todo' = <<>> /\ after' = "none"
    \/ /\ Present
       /\ record.state \in {"allocated", "prepared"}
       /\ Go(h, "absent") /\ todo' = <<>> /\ after' = "none"
    \/ /\ record.state = "create_possible"
       /\ Go(h, "sight") /\ todo' = <<Prep>> \o VolumesUpward
       /\ after' = "absent"
    \/ /\ record.state = "execution_create_possible"
       /\ Go(h, "sight") /\ todo' = <<Exec>> \o VolumesUpward
       /\ after' = "execution_gone"
    \/ /\ record.state = "execution_absent"
       /\ Go(h, "sight") /\ todo' = VolumesUpward /\ after' = "absent"
    \/ /\ Present
       /\ record.state = "container_absent"
       /\ Go(h, "cleanup") /\ todo' = <<>> /\ after' = "none"
    \/ /\ Present
       /\ record.state = "cleanup_started"
       /\ Go(h, "rmdir") /\ todo' = <<>> /\ after' = "none"

Recover(h) ==
    /\ pc[h] = "idle" /\ lock = NoHost
    /\ ~stray
    /\ dirs \subseteq {record.attempt}
    /\ \/ /\ record = NoRecord
          /\ Go(h, "ready") /\ UNCHANGED hand
       \/ /\ record # NoRecord
          /\ record.revision = revision[h]
          /\ lock' = h /\ recovering' = TRUE /\ handle' = record.state
          /\ Resume(h)
    /\ UNCHANGED <<revision, disk, engine, attempts, faults>>

-----------------------------------------------------------------------------
(* stage_workspace_snapshots.                                              *)

(* The snapshots cannot be taken, or another session has the lock.         *)
StageRefused(h) ==
    /\ pc[h] = "ready"
    /\ Go(h, "idle")
    /\ UNCHANGED <<revision, hand, disk, engine, attempts, faults>>

(* The lock is taken.  When the staging directory is not empty any more,   *)
(* the call ends in an error, and nothing closes the lease.                *)
Acquire(h) ==
    /\ pc[h] = "ready" /\ lock = NoHost
    /\ attempts < MaxAttempts
    /\ \/ /\ Empty
          /\ Go(h, "reserve") /\ lock' = h
          /\ UNCHANGED <<recovering, handle, todo, after>>
       \/ ~Empty /\ Leak(h)
    /\ UNCHANGED <<revision, disk, engine, attempts, faults>>

Reserved(h) == [attempt |-> attempts + 1, state |-> "reserved",
                revision |-> revision[h]]

(* The record is linked into the journal.  An error, before or after the   *)
(* link, leaves the lease open as well.                                    *)
Reserve(h) ==
    /\ pc[h] = "reserve"
    /\ \/ /\ record' = Reserved(h) /\ NoFault
          /\ Go(h, "mkdir") /\ handle' = "reserved"
          /\ UNCHANGED <<lock, recovering, todo, after>>
       \/ /\ record' \in {NoRecord, Reserved(h)} /\ Fault
          /\ Leak(h)
    /\ attempts' = IF record' = NoRecord THEN attempts ELSE attempts + 1
    /\ UNCHANGED <<revision, stray, dirs, engine>>

(* A directory that was made but could not be opened is not removed.       *)
MakeDirectory(h) ==
    /\ pc[h] = "mkdir"
    /\ \/ /\ dirs' = dirs \cup {record.attempt} /\ NoFault
          /\ Go(h, "allocate") /\ UNCHANGED hand
       \/ /\ Fault /\ UNCHANGED dirs
          /\ Go(h, "unlink") /\ UNCHANGED hand
       \/ /\ dirs' = dirs \cup {record.attempt} /\ Fault
          /\ Release(h, "idle")
    /\ UNCHANGED <<revision, record, stray, engine, attempts>>

(* A step of the staging that fails discards the attempt again.            *)
MarkWhileStaging(h, at, state, next) ==
    /\ pc[h] = at
    /\ \/ Mark(state) /\ Go(h, next) /\ handle' = state
       \/ MarkFails(state) /\ Go(h, "rmdir") /\ UNCHANGED handle
    /\ UNCHANGED <<revision, lock, recovering, todo, after, stray, dirs,
                   engine, attempts>>

MarkAllocated(h) == MarkWhileStaging(h, "allocate", "allocated", "prepare")
MarkPrepared(h)  == MarkWhileStaging(h, "prepare", "prepared", "probe")

-----------------------------------------------------------------------------
(* ContainerExecutionRuntime._execute_transport.                           *)

(* The engine and the image are inspected; without them nothing was        *)
(* created and the attempt is closed.                                      *)
Probe(h) ==
    /\ pc[h] = "probe"
    /\ \/ Go(h, "allow_volumes") /\ NoFault
       \/ Go(h, "absent") /\ Fault
    /\ UNCHANGED <<revision, hand, disk, engine, attempts>>

MarkCreatePossible(h) ==
    /\ pc[h] = "allow_volumes"
    /\ \/ /\ Mark("create_possible")
          /\ Go(h, "create") /\ handle' = "create_possible"
          /\ todo' = VolumesUpward \o <<Prep>>
       \/ /\ MarkFails("create_possible")
          /\ Go(h, "absent") /\ UNCHANGED <<handle, todo>>
    /\ UNCHANGED <<revision, lock, recovering, after, stray, dirs, engine,
                   attempts>>

(* The staged copy changed before the first volume was asked for.          *)
StagedCopyChanged(h) ==
    /\ pc[h] = "create" /\ Head(todo) = Volume(1)
    /\ Fault
    /\ Go(h, "absent") /\ todo' = <<>>
    /\ UNCHANGED <<revision, lock, recovering, handle, after, disk, engine,
                   attempts>>

Create(h) ==
    /\ pc[h] = "create"
    /\ landing' = landing \cup {Head(todo)}
    /\ Go(h, "await")
    /\ UNCHANGED <<revision, hand, disk, live, attempts, faults>>

(* Cancelled, or out of time, before the command's container was asked     *)
(* for: there is nothing to remove.                                        *)
ExecutionNotCreated(h) ==
    /\ pc[h] = "create" /\ Head(todo) = Exec
    /\ Fault
    /\ Go(h, "execution_gone") /\ todo' = <<>>
    /\ UNCHANGED <<revision, lock, recovering, handle, after, disk, engine,
                   attempts>>

Created(h) ==
    /\ pc[h] = "await" /\ Head(todo) \in live
    /\ Go(h, "use")
    /\ UNCHANGED <<revision, hand, disk, engine, attempts, faults>>

(* No usable answer: the request was lost, or it may still be carried out, *)
(* or it was and the answer was lost.  The command's container is looked   *)
(* for, the others are left to a recovery.                                 *)
CreateUnknown(h) ==
    /\ pc[h] = "await"
    /\ IF Head(todo) \in live \cup landing THEN Fault ELSE NoFault
    /\ IF Head(todo) = Exec
       THEN Close(h, <<Exec>>, "execution_gone")
       ELSE Release(h, "idle")
    /\ UNCHANGED <<revision, disk, engine, attempts>>

(* A volume is inspected.  When the inspection was not run, the volumes    *)
(* made so far are closed.                                                 *)
UseVolume(h) ==
    /\ pc[h] = "use" /\ Head(todo).kind = "volume"
    /\ \/ /\ NoFault
          /\ Go(h, "create") /\ todo' = Tail(todo)
          /\ UNCHANGED <<lock, recovering, handle, after>>
       \/ /\ Fault
          /\ Close(h, VolumesDownFrom(Head(todo).root), "absent")
    /\ UNCHANGED <<revision, disk, engine, attempts>>

(* The preparation container is inspected, the staged copy is copied       *)
(* through it into the volumes, and it is closed.                          *)
UsePrep(h) ==
    /\ pc[h] = "use" /\ Head(todo) = Prep
    /\ \/ NoFault /\ Close(h, <<Prep>>, "allow_execution")
       \/ Fault /\ Close(h, <<Prep>> \o VolumesDownFrom(NRoots), "absent")
    /\ UNCHANGED <<revision, disk, engine, attempts>>

MarkExecutionCreatePossible(h) ==
    /\ pc[h] = "allow_execution"
    /\ \/ /\ Mark("execution_create_possible")
          /\ Go(h, "create") /\ handle' = "execution_create_possible"
          /\ todo' = <<Exec>>
          /\ UNCHANGED <<lock, recovering, after>>
       \/ /\ MarkFails("execution_create_possible")
          /\ Close(h, VolumesDownFrom(NRoots), "retain")
    /\ UNCHANGED <<revision, stray, dirs, engine, attempts>>

(* run_created_container_protocol: however the command ends, its container *)
(* is closed.                                                              *)
RunCommand(h) ==
    /\ pc[h] = "use" /\ Head(todo) = Exec
    /\ Close(h, <<Exec>>, "execution_gone")
    /\ UNCHANGED <<revision, disk, engine, attempts, faults>>

-----------------------------------------------------------------------------
(* Closing the resources in todo, by the session that made them or by a    *)
(* recovery.                                                               *)

Closed(h) ==
    \/ /\ Len(todo) > 1
       /\ Go(h, "sight") /\ todo' = Tail(todo)
       /\ UNCHANGED <<lock, recovering, handle, after>>
    \/ /\ Len(todo) = 1 /\ after = "retain"
       /\ Release(h, "idle")
    \/ /\ Len(todo) = 1 /\ after # "retain"
       /\ Go(h, after) /\ todo' = <<>> /\ after' = "none"
       /\ UNCHANGED <<lock, recovering, handle>>

\* Faulty: a recovery takes anything that is missing for removed.
AbsenceAlwaysAllowed == recovering

(* A resource must be seen before it is removed: it may be missing only    *)
(* because its creation is late.  A recovery takes a missing volume for    *)
(* removed once the record says that the command's container is gone.      *)
AbsenceAllowed == recovering /\ record.state = "execution_absent"

Sight(h) ==
    /\ pc[h] = "sight"
    /\ \/ /\ Head(todo) \in live
          /\ Go(h, "remove") /\ UNCHANGED hand
       \/ Head(todo) \notin live /\ AbsenceAllowed /\ Closed(h)
       \/ Head(todo) \notin live /\ ~AbsenceAllowed /\ Release(h, "idle")
    /\ UNCHANGED <<revision, disk, engine, attempts, faults>>

Remove(h) ==
    /\ pc[h] = "remove"
    /\ live' = live \ {Head(todo)}
    /\ Go(h, "check")
    /\ UNCHANGED <<revision, hand, disk, landing, attempts, faults>>

CheckRemoved(h) ==
    /\ pc[h] = "check"
    /\ Head(todo) \notin live
    /\ Closed(h)
    /\ UNCHANGED <<revision, disk, engine, attempts, faults>>

(* A call to the engine fails, or an exception ends the attempt or the     *)
(* recovery: the lease is closed and everything is left as it is.          *)
GiveUp(h) ==
    /\ pc[h] \in {"create", "await", "use", "sight", "remove", "check",
                  "allow_execution", "execution_gone"}
    /\ Fault
    /\ Release(h, "idle")
    /\ UNCHANGED <<revision, disk, engine, attempts>>

-----------------------------------------------------------------------------
(* The end of an attempt.                                                  *)

MarkExecutionAbsent(h) ==
    /\ pc[h] = "execution_gone"
    /\ \/ /\ Mark("execution_absent") /\ handle' = "execution_absent"
          /\ \/ /\ recovering
                /\ Go(h, "absent") /\ UNCHANGED <<todo, after>>
             \/ /\ ~recovering
                /\ Go(h, "sight") /\ after' = "absent"
                /\ todo' = VolumesDownFrom(NRoots)
          /\ UNCHANGED <<lock, recovering>>
       \/ MarkFails("execution_absent") /\ Release(h, "idle")
    /\ UNCHANGED <<revision, stray, dirs, engine, attempts>>

(* After an exception, and in a recovery, the output is not looked at.     *)
MarkContainerAbsent(h) ==
    /\ pc[h] = "absent"
    /\ \/ /\ Mark("container_absent") /\ handle' = "container_absent"
          /\ \/ Go(h, "cleanup")
             \/ ~recovering /\ Go(h, "output")
          /\ UNCHANGED <<lock, recovering, todo, after>>
       \/ MarkFails("container_absent") /\ Release(h, "idle")
    /\ UNCHANGED <<revision, stray, dirs, engine, attempts>>

ObserveOutput(h) ==
    /\ pc[h] = "output"
    /\ Go(h, "cleanup")
    /\ UNCHANGED <<revision, hand, disk, engine, attempts, faults>>

MarkCleanupStarted(h) ==
    /\ pc[h] = "cleanup"
    /\ \/ /\ Mark("cleanup_started") /\ handle' = "cleanup_started"
          /\ Go(h, "rmdir") /\ UNCHANGED <<lock, recovering, todo, after>>
       \/ MarkFails("cleanup_started") /\ Release(h, "idle")
    /\ UNCHANGED <<revision, stray, dirs, engine, attempts>>

RemoveDirectory(h) ==
    /\ pc[h] = "rmdir"
    /\ \/ /\ dirs' = dirs \ {record.attempt} /\ NoFault
          /\ Go(h, "unlink") /\ UNCHANGED hand
       \/ /\ UNCHANGED dirs /\ Fault
          /\ Release(h, "idle")
    /\ UNCHANGED <<revision, record, stray, engine, attempts>>

(* The record is unlinked unless the handle is stale; an error may come    *)
(* before or after.                                                        *)
RemoveRecord(h) ==
    /\ pc[h] = "unlink"
    /\ \/ /\ handle = record.state
          /\ record' = NoRecord /\ NoFault
          /\ Release(h, IF recovering THEN "ready" ELSE "idle")
       \/ /\ handle = record.state
          /\ record' \in {record, NoRecord} /\ Fault
          /\ Release(h, "idle")
       \/ /\ handle # record.state
          /\ UNCHANGED record /\ NoFault
          /\ Release(h, "idle")
    /\ UNCHANGED <<revision, stray, dirs, engine, attempts>>

-----------------------------------------------------------------------------
(* The death of a session, its workspace roots, and the engine.            *)

Writing == {"reserve", "allocate", "prepare", "allow_volumes",
            "allow_execution", "execution_gone", "absent", "cleanup"}

(* The lock goes with the process.  A temporary file stays behind when the *)
(* process dies while it writes the record.  The session is resumed later. *)
Crash(h) ==
    /\ pc[h] # "idle" \/ lock = h
    /\ Fault
    /\ Go(h, "idle")
    /\ \/ lock = h /\ lock' = NoHost /\ Forget
       \/ lock # h /\ UNCHANGED hand
    /\ \/ UNCHANGED <<record, stray, attempts>>
       \/ /\ pc[h] \in Writing \ {"reserve"}
          /\ stray' = TRUE /\ UNCHANGED <<record, attempts>>
       \/ /\ pc[h] = "reserve"
          /\ stray' = TRUE
          /\ \/ UNCHANGED <<record, attempts>>
             \/ record' = Reserved(h) /\ attempts' = attempts + 1
    /\ UNCHANGED <<revision, dirs, engine>>

(* WorkspaceContext: every change of the roots makes a new revision.       *)
ChangeRoots(h) ==
    /\ pc[h] = "idle" /\ revision[h] < MaxRevision
    /\ revision' = [revision EXCEPT ![h] = @ + 1]
    /\ UNCHANGED <<pc, hand, disk, engine, attempts, faults>>

Land ==
    \E r \in landing :
        /\ live' = live \cup {r}
        /\ landing' = landing \ {r}
        /\ UNCHANGED <<pc, revision, hand, disk, attempts, faults>>

Drop ==
    \E r \in landing :
        /\ landing' = landing \ {r}
        /\ UNCHANGED <<pc, revision, hand, disk, live, attempts, faults>>

-----------------------------------------------------------------------------
Init ==
    /\ pc = [h \in Hosts |-> "idle"]
    /\ revision = [h \in Hosts |-> 0]
    /\ lock = NoHost /\ recovering = FALSE /\ handle = "none"
    /\ todo = <<>> /\ after = "none"
    /\ record = NoRecord /\ stray = FALSE /\ dirs = {}
    /\ live = {} /\ landing = {}
    /\ attempts = 0 /\ faults = 0

Session(h) ==
    \/ Recover(h) \/ StageRefused(h) \/ Acquire(h) \/ Reserve(h)
    \/ MakeDirectory(h) \/ MarkAllocated(h) \/ MarkPrepared(h)
    \/ Probe(h) \/ MarkCreatePossible(h) \/ StagedCopyChanged(h)
    \/ Create(h) \/ ExecutionNotCreated(h) \/ Created(h) \/ CreateUnknown(h)
    \/ UseVolume(h) \/ UsePrep(h) \/ MarkExecutionCreatePossible(h)
    \/ RunCommand(h) \/ Sight(h) \/ Remove(h) \/ CheckRemoved(h)
    \/ MarkExecutionAbsent(h) \/ MarkContainerAbsent(h) \/ ObserveOutput(h)
    \/ MarkCleanupStarted(h) \/ RemoveDirectory(h) \/ RemoveRecord(h)

Next ==
    \/ \E h \in Hosts : Session(h) \/ GiveUp(h) \/ Crash(h) \/ ChangeRoots(h)
    \/ Land \/ Drop

(* A session goes on running commands and does not stop in the middle of   *)
(* one, and the engine carries out what it was asked for or gives up on    *)
(* it.  Nothing makes a fault, a crash or a change of roots happen.        *)
Fairness == /\ \A h \in Hosts : WF_vars(Session(h))
            /\ WF_vars(Land \/ Drop)

Spec == Init /\ [][Next]_vars /\ Fairness

-----------------------------------------------------------------------------

(* Everything the attempts leave on the machine is owed by the recorded    *)
(* attempt until nothing of it is left.                                    *)
Held ==
    live \cup landing
        \cup {[attempt |-> a, kind |-> "directory", root |-> 0] : a \in dirs}

Obligation == INSTANCE StagingObligation
    WITH owner <- record.attempt, held <- Held, last <- attempts

(* The staging journal implements the obligation: no container, volume,    *)
(* directory or late create outlives the record of its attempt, and no     *)
(* second attempt starts before the first is cleaned up, whatever fails    *)
(* and whoever recovers.  Code: recover_staging_authority and              *)
(* require_empty_staging_authority around the whole life of an attempt.    *)
ImplementsObligation == Obligation!Spec

Containers == {r \in live : r.kind \in {"prep", "exec"}}

(* docs/platform-capabilities-100-plan.md:112: after a timeout, a cancel   *)
(* or a parent exception the container is eventually closed.               *)
ContainerClosed == (Containers # {}) ~> (Containers = {})

Leaked         == lock # NoHost /\ pc[lock] = "idle"
NobodyRecovers == \A h \in Hosts : revision[h] # record.revision

(* The same as far as the code keeps it: every container, also one that    *)
(* was created late or whose session died, is eventually removed as long   *)
(* as sessions go on running commands, unless a lease was left open or     *)
(* every session has changed its roots since.  Hazard: a recovery that can *)
(* never find what it has to remove.                                       *)
ContainerClosedIfRecoverable ==
    (Containers # {}) ~> (Containers = {} \/ Leaked \/ NobodyRecovers)
=============================================================================
