--------------------------- MODULE SessionProofs ---------------------------
(***************************************************************************)
(* Proofs about what is kept of a session.  First WorkspaceMove: for any   *)
(* workspaces, moves, changes of the roots and troubles, what is said of a *)
(* move is what happened, no record is lost, and the files of the session  *)
(* stay together.  Then SessionHistory: for a window of any size and any   *)
(* number of runs, replies, calls, compactions and troubles, the provider  *)
(* gets well-formed requests, and the log gives back the answers that the  *)
(* user was told, and no others.                                           *)
(***************************************************************************)
EXTENDS WorkspaceMove, SessionHistory, FiniteSetTheorems, SequenceTheorems,
        WellFoundedInduction, TLAPS

-----------------------------------------------------------------------------
(* WorkspaceMove. *)

Files == Seq(Records) \cup {Missing}

Disks == [Dir -> [Artifacts -> Files]]

Processes == [at : Dir, store : Dir, rev : Nat]

Changes ==
    [kind : {"move", "roots"}, to : Dir, was : Processes, rest : SUBSET Artifacts,
     done : SUBSET Artifacts, error : BOOLEAN, bytes : Seq(Records)]

Types ==
    /\ pc \in Operations
    /\ disk \in Disks
    /\ at \in Dir /\ store = at /\ rev \in Nat
    /\ spent \in [records : Nat, changes : Nat, trouble : Nat]
    /\ kept \subseteq Records
    /\ split \in BOOLEAN /\ wiped \subseteq {"sessions", "todos"}

\* A move or a change that is not taken back, and one that is over but for
\* what follows the commit.
Pending == pc \in {"files", "record", "undo", "rewrite", "bytes"}
Done    == pc \in {"evidence", "announce"}

Source == op.was.at
Target == op.to

\* What a move or a change remembers.
Remembered ==
    Pending \/ Done =>
        /\ op \in Changes
        /\ op.was.store = Source
        /\ op.kind = "roots" => Target = Source /\ op.rest = {} /\ op.done = {}
        /\ op.kind = "move" => Target # Source
        /\ before.process = op.was
        /\ before.disk \in Disks
        /\ before.disk[Source]["sessions"] = op.bytes
        /\ op.rest \cap op.done = {}
        /\ \A a \in op.rest \cup op.done : op.kind = "move" => before.disk[Target][a] = Missing
        /\ \A d \in Dir \ {Source, Target}, a \in Artifacts : disk[d][a] = before.disk[d][a]

\* While the todo list is rewritten, the process has all of it.
Saved ==
    /\ op.bytes \in Seq(Records)
    /\ \A r \in kept : r.a = "todos" =>
          \/ "todos" \in wiped
          \/ r \in ToSet(op.bytes)
          \/ \E d \in Dir \ {at} : r \in ToSet(Bytes(disk[d]["todos"]))

\* Where it is with them at each step.
Steps ==
    /\ pc = "saving" => Saved
    /\ pc = "files" => op.kind = "move" /\ at = Source /\ ~ op.error
    /\ pc = "files" => \A a \in Artifacts : There(Source, a) => a \in op.rest
    /\ pc = "files" => \A a \in op.rest : ~ There(Target, a)
    /\ pc \in {"record", "rewrite", "bytes"} => op.rest = {} /\ ~ op.error
    /\ pc \in {"files", "record"} /\ op.kind = "move" => "sessions" \in op.rest \cup op.done
    /\ pc = "undo" => op.kind = "move"
    /\ pc \in {"rewrite", "bytes"} => op.done = {}
    /\ pc \in {"record", "evidence", "announce"} =>
          at = Target /\ (op.kind = "move" => \A a \in Artifacts : ~ There(Source, a))
    /\ Done => Roots(rev, at) \in ToSet(Log(store))

\* The log's records are in the bytes that may be written back.
Backed ==
    Pending => \A r \in kept : r.a = "sessions" =>
        \/ "sessions" \in wiped
        \/ r \in ToSet(op.bytes)
        \/ \E d \in Dir \ {Source, Target} : r \in ToSet(Bytes(disk[d]["sessions"]))

\* What there is, if all went as it was told: the files that were moved are
\* there, the others here, and only the log may have got a line more.
Expected(d, a) ==
    IF a \in op.done /\ d = Source THEN Missing
    ELSE IF a \in op.done /\ d = Target THEN before.disk[Source][a] ELSE before.disk[d][a]

LogAt == IF "sessions" \in op.done THEN Target ELSE Source

Exact ==
    Pending /\ ~ split /\ ~ op.error =>
        \A d \in Dir, a \in Artifacts :
            \/ disk[d][a] = Expected(d, a)
            \/ a = "sessions" /\ op.rest = {} /\ d = LogAt

Alone(files, h) == \A d \in Dir \ {h}, a \in Artifacts : files[d][a] = Missing

Together ==
    ~ split =>
        /\ pc = "down" => \E h \in Dir : Alone(disk, h)
        /\ pc \in {"idle", "todos", "saving", "patches"} \/ Done => Alone(disk, at)
        /\ Pending => Alone(before.disk, Source)

Told == pc # "idle" => report = "none"

MoveInv ==
    /\ Types /\ Remembered /\ Steps /\ Backed /\ Exact /\ Together /\ Told
    /\ NoRecordLost /\ ReportIsTrue

-----------------------------------------------------------------------------
(* Files, and changes of them. *)

LEMMA FileFacts ==
    ASSUME NEW f \in Files
    PROVE  Bytes(f) \in Seq(Records) /\ (f # Missing => f \in Seq(Records) /\ Bytes(f) = f)
  BY DEF Files, Bytes

LEMMA Adding ==
    ASSUME NEW s \in Seq(Records), NEW r \in Records
    PROVE  /\ Append(s, r) \in Seq(Records) /\ ToSet(Append(s, r)) = ToSet(s) \cup {r}
           /\ s \o <<r>> = Append(s, r)
<1> DEFINE u == Append(s, r)
<1>1. /\ u \in Seq(Records) /\ Len(s) \in Nat /\ DOMAIN s = 1..Len(s)
      /\ DOMAIN u = 1..(Len(s) + 1) /\ u[Len(s) + 1] = r
      /\ \A i \in 1..Len(s) : u[i] = s[i]
  OBVIOUS
<1>2. ToSet(u) = ToSet(s) \cup {r}
  <2>1. ASSUME NEW x \in ToSet(u) PROVE x \in ToSet(s) \cup {r}
    <3>1. PICK i \in 1..(Len(s) + 1) : x = u[i]
      BY <1>1, <2>1 DEF ToSet
    <3>2. CASE i = Len(s) + 1
      BY <1>1, <3>1, <3>2
    <3>3. CASE i # Len(s) + 1
      <4>1. i \in 1..Len(s)
        BY <1>1, <3>1, <3>3
      <4>. QED BY <1>1, <3>1, <4>1 DEF ToSet
    <3>. QED BY <3>2, <3>3
  <2>2. ASSUME NEW x \in ToSet(s) PROVE x \in ToSet(u)
    <3>1. PICK i \in 1..Len(s) : x = s[i]
      BY <1>1, <2>2 DEF ToSet
    <3>2. i \in DOMAIN u /\ u[i] = x
      BY <1>1, <3>1
    <3>. QED BY <3>2 DEF ToSet
  <2>3. r \in ToSet(u)
    <3>1. Len(s) + 1 \in DOMAIN u
      BY <1>1
    <3>. QED BY <1>1, <3>1 DEF ToSet
  <2>. QED BY <2>1, <2>2, <2>3
<1>3. s \o <<r>> = u
  OBVIOUS
<1>. QED BY <1>1, <1>2, <1>3

LEMMA PutFacts ==
    ASSUME disk \in Disks, NEW d \in Dir, NEW a \in Artifacts, NEW f \in Files, Put(d, a, f)
    PROVE  /\ disk' \in Disks /\ disk'[d][a] = f
           /\ \A e \in Dir, b \in Artifacts : e # d \/ b # a => disk'[e][b] = disk[e][b]
  BY DEF Disks, Put

LEMMA MovedFacts ==
    ASSUME disk \in Disks, NEW a \in Artifacts, NEW d \in Dir, NEW e \in Dir \ {d},
           disk' = Moved(a, d, e)
    PROVE  /\ disk' \in Disks /\ disk'[d][a] = Missing /\ disk'[e][a] = disk[d][a]
           /\ \A c \in Dir, b \in Artifacts :
                 b # a \/ c \notin {d, e} => disk'[c][b] = disk[c][b]
<1>1. /\ disk[d] \in [Artifacts -> Files] /\ disk[e] \in [Artifacts -> Files]
      /\ Missing \in Files /\ e # d
  BY DEF Disks, Files
<1> DEFINE left   == [disk[d] EXCEPT ![a] = Missing]
           came   == [disk[e] EXCEPT ![a] = disk[d][a]]
<1>2. left \in [Artifacts -> Files] /\ came \in [Artifacts -> Files]
  BY <1>1
<1>3. disk' = [[disk EXCEPT ![d] = left] EXCEPT ![e] = came]
  BY <1>1 DEF Disks, Moved
<1>4. disk' \in Disks /\ disk'[d] = left /\ disk'[e] = came
  BY <1>1, <1>2, <1>3, ZenonT(20) DEF Disks
<1>5. \A c \in Dir : c \notin {d, e} => disk'[c] = disk[c]
  BY <1>3 DEF Disks
<1>. QED BY <1>1, <1>4, <1>5

\* The log in d has the same records and maybe others.
Grown(d) ==
    \/ disk' = disk
    \/ \E s \in Seq(Records) : Put(d, "sessions", s) /\ ToSet(Log(d)) \subseteq ToSet(s)

LEMMA LogTyped == ASSUME Types, NEW d \in Dir PROVE Log(d) \in Seq(Records)
  BY FileFacts DEF Types, Log, Disks, Artifacts

LEMMA Longer ==
    ASSUME Types, NEW d \in Dir, NEW r \in Records, Put(d, "sessions", Append(Log(d), r))
    PROVE  Grown(d) /\ r \in ToSet(Bytes(disk'[d]["sessions"]))
<1>1. Log(d) \in Seq(Records) /\ disk \in Disks
  BY LogTyped DEF Types
<1>2. /\ Append(Log(d), r) \in Seq(Records)
      /\ ToSet(Append(Log(d), r)) = ToSet(Log(d)) \cup {r}
  BY <1>1, Adding
<1>3. Append(Log(d), r) \in Files /\ "sessions" \in Artifacts
  BY <1>2 DEF Files, Artifacts
<1>4. disk'[d]["sessions"] = Append(Log(d), r)
  BY <1>1, <1>3, PutFacts
<1>5. Append(Log(d), r) # Missing
  BY <1>2, MoveAssumption
<1>. QED BY <1>2, <1>4, <1>5 DEF Grown, Bytes

LEMMA RecordsTyped ==
    /\ Half \in Records /\ Half.a = "sessions"
    /\ \A a \in Artifacts, n \in Nat : Note(a, n) \in Records /\ Note(a, n).a = a
    /\ \A n \in Nat, d \in Dir : Roots(n, d) \in Records /\ Roots(n, d).a = "sessions"
    /\ \A n \in Nat, d \in Dir : /\ Record("sessions", "event", n, d) \in Records
                               /\ Record("sessions", "event", n, d).a = "sessions"
  BY DEF Half, Note, Roots, Record, Records, Artifacts

LEMMA UnwrittenGrows ==
    ASSUME Types, NEW r \in Records, Unwritten(r)
    PROVE  Grown(store)
<1>1. Log(store) \in Seq(Records) /\ store \in Dir
  BY LogTyped DEF Types
<1>2. PICK tail \in {<<>>, <<Half>>, <<r>>} :
          IF tail = <<>> THEN disk' = disk ELSE Put(store, "sessions", Log(store) \o tail)
  BY DEF Unwritten
<1>3. CASE tail = <<>>
  BY <1>2, <1>3 DEF Grown
<1>4. ASSUME NEW q \in {Half, r}, Put(store, "sessions", Log(store) \o <<q>>)
      PROVE  Grown(store)
  <2>1. q \in Records
    BY RecordsTyped
  <2>. QED BY <1>1, <1>4, <2>1, Adding DEF Grown
<1>5. tail # <<>> => \E q \in {Half, r} : tail = <<q>>
  BY <1>2
<1>. QED BY <1>2, <1>3, <1>4, <1>5

LEMMA GrownFacts ==
    ASSUME Types, NEW h \in Dir, Grown(h)
    PROVE  /\ disk' \in Disks
           /\ \A d \in Dir, a \in Artifacts :
                 d # h \/ a # "sessions" => disk'[d][a] = disk[d][a]
           /\ ToSet(Log(h)) \subseteq ToSet(Bytes(disk'[h]["sessions"]))
<1>1. disk \in Disks /\ "sessions" \in Artifacts
  BY DEF Types, Artifacts
<1>2. CASE disk' = disk
  BY <1>1, <1>2 DEF Log
<1>3. ASSUME NEW s \in Seq(Records), Put(h, "sessions", s),
             ToSet(Log(h)) \subseteq ToSet(s)
      PROVE  /\ disk' \in Disks
             /\ \A d \in Dir, a \in Artifacts :
                   d # h \/ a # "sessions" => disk'[d][a] = disk[d][a]
             /\ ToSet(Log(h)) \subseteq ToSet(Bytes(disk'[h]["sessions"]))
  <2>1. s \in Files /\ Bytes(s) = s
    BY FileFacts, MoveAssumption DEF Files, Bytes
  <2>. QED BY <1>1, <1>3, <2>1, PutFacts
<1>. QED BY <1>2, <1>3 DEF Grown

\* The files stay alone where they are while the log there grows.
LEMMA GrownAlone ==
    ASSUME Types, NEW h \in Dir, Grown(h), Alone(disk, h)
    PROVE  Alone(disk', h)
  BY GrownFacts DEF Alone

\* A file that was being rewritten still is, or is known to be lost.
Excused ==
    /\ wiped \subseteq wiped'
    /\ \A a \in Artifacts : BeingRewritten(a) => a \in wiped' \/ BeingRewritten(a)'

LEMMA NotRewriting ==
    ASSUME pc \notin {"bytes", "saving"}, UNCHANGED wiped
    PROVE  Excused
  BY DEF Excused, BeingRewritten

\* No record is lost where each one stays in some file.
LEMMA StillKept ==
    ASSUME Types, NoRecordLost, Excused,
           \A r \in kept' : \/ \E d \in Dir : r \in ToSet(Bytes(disk'[d][r.a]))
                           \/ /\ r \in kept
                              /\ \A d \in Dir : r \notin ToSet(Bytes(disk[d][r.a]))
    PROVE  NoRecordLost'
<1>1. \A r \in kept : r.a \in Artifacts
  BY DEF Types, Records
<1>. QED BY <1>1 DEF NoRecordLost, Excused

\* No record is lost by a step that leaves the files alone.
LEMMA SameKept ==
    ASSUME Types, NoRecordLost, Excused, UNCHANGED <<disk, kept>>
    PROVE  NoRecordLost'
  BY StillKept

\* No record is lost by a longer log, nor the one that is written there.
LEMMA GrownKept ==
    ASSUME Types, NEW h \in Dir, Grown(h), NoRecordLost, Excused,
           \A r \in kept' : \/ r \in kept
                            \/ r \in ToSet(Bytes(disk'[h]["sessions"])) /\ r.a = "sessions"
    PROVE  NoRecordLost'
<1> SUFFICES ASSUME NEW r \in kept
             PROVE  \/ \E d \in Dir : r \in ToSet(Bytes(disk'[d][r.a]))
                    \/ \A d \in Dir : r \notin ToSet(Bytes(disk[d][r.a]))
  BY StillKept
<1>1. r.a \in Artifacts
  BY DEF Types, Records
<1>2. ASSUME NEW d \in Dir, r \in ToSet(Bytes(disk[d][r.a]))
      PROVE  r \in ToSet(Bytes(disk'[d][r.a]))
  BY <1>1, <1>2, GrownFacts DEF Log
<1>. QED BY <1>2

\* No record is lost where a file is written that has what it had, or is about
\* to have it.
LEMMA PutKept ==
    ASSUME Types, NoRecordLost, Excused, NEW d \in Dir, NEW a \in Artifacts,
           NEW f \in Seq(Records), Put(d, a, f),
           \A r \in kept' : r.a # a => r \in kept,
           \A r \in kept' : r.a = a =>
               \/ r \in ToSet(f)
               \/ a \in wiped' \/ BeingRewritten(a)'
               \/ \E e \in Dir \ {d} : r \in ToSet(Bytes(disk[e][a]))
    PROVE  /\ NoRecordLost'
           /\ disk' \in Disks /\ disk'[d][a] = f
           /\ \A e \in Dir, b \in Artifacts : e # d \/ b # a => disk'[e][b] = disk[e][b]
<1>1. f \in Files /\ Bytes(f) = f /\ disk \in Disks
  BY FileFacts, MoveAssumption DEF Files, Bytes, Types
<1>2. /\ disk' \in Disks /\ disk'[d][a] = f
      /\ \A e \in Dir, b \in Artifacts : e # d \/ b # a => disk'[e][b] = disk[e][b]
  BY <1>1, PutFacts
<1>3. NoRecordLost'
  <2> SUFFICES ASSUME NEW r \in kept'
               PROVE  \/ \E e \in Dir : r \in ToSet(Bytes(disk'[e][r.a]))
                      \/ r.a \in wiped' \/ BeingRewritten(r.a)'
    BY DEF NoRecordLost
  <2>1. CASE r.a = a
    BY <1>1, <1>2, <2>1
  <2>2. CASE r.a # a
    <3>1. r \in kept /\ r.a \in Artifacts
      BY <2>2 DEF Types, Records
    <3>2. \/ \E e \in Dir : r \in ToSet(Bytes(disk[e][r.a]))
          \/ r.a \in wiped \/ BeingRewritten(r.a)
      BY <3>1 DEF NoRecordLost
    <3>. QED BY <1>2, <2>2, <3>1, <3>2 DEF Excused
  <2>. QED BY <2>1, <2>2
<1>. QED BY <1>2, <1>3

\* Nothing is under way after a step: what remains to be shown of it.
LEMMA AtRest ==
    ASSUME pc' \in {"idle", "down", "todos", "saving", "patches"},
           Types', NoRecordLost', ReportIsTrue',
           pc' # "idle" => report' = "none",
           pc' = "saving" => Saved',
           ~ split' => /\ pc' = "down" => \E h \in Dir : Alone(disk', h)
                       /\ pc' # "down" => Alone(disk', at')
    PROVE  MoveInv'
<1>1. ~ Pending' /\ ~ Done'
  BY DEF Pending, Done
<1>2. Remembered' /\ Backed' /\ Exact'
  BY <1>1 DEF Remembered, Backed, Exact
<1>3. Steps'
  BY <1>1 DEF Steps, Done
<1>4. Together' /\ Told'
  BY <1>1 DEF Together, Told, Alone
<1>. QED BY <1>2, <1>3, <1>4 DEF MoveInv

\* Nothing is said of a move: there is nothing to be true.
LEMMA Silent == ASSUME report' = "none" PROVE ReportIsTrue' /\ Told'
  BY DEF ReportIsTrue, Told

-----------------------------------------------------------------------------
(* What the processes' steps have in common. *)

\* The files are where the process is, unless one was split.
LEMMA AtHome ==
    ASSUME MoveInv, ~ split,
           pc \in {"idle", "todos", "saving", "patches", "record", "evidence", "announce"}
    PROVE  Alone(disk, at)
<1>1. CASE pc # "record"
  BY <1>1 DEF MoveInv, Together, Done
<1>2. CASE pc = "record"
  <2>1. Pending
    BY <1>2 DEF Pending
  <2>2. /\ Alone(before.disk, Source) /\ at = Target
        /\ op.kind = "move" => \A a \in Artifacts : disk[Source][a] = Missing
        /\ \A d \in Dir \ {Source, Target}, a \in Artifacts : disk[d][a] = before.disk[d][a]
        /\ op.kind \in {"move", "roots"} /\ (op.kind = "roots" => Target = Source)
    BY <1>2, <2>1 DEF MoveInv, Together, Steps, Remembered, There, Changes
  <2>. QED BY <2>2 DEF Alone
<1>. QED BY <1>1, <1>2

\* Nothing is under way and at most the log gets longer.
LEMMA RestGrown ==
    ASSUME MoveInv, Excused, Grown(store), pc' \in {"idle", "down"}, report' = "none",
           pc \in {"idle", "todos", "saving", "evidence", "announce"} \/ split',
           UNCHANGED <<at, store, rev, kept>>, wiped' \subseteq {"sessions", "todos"},
           split' \in BOOLEAN, split => split',
           spent' \in [records : Nat, changes : Nat, trouble : Nat]
    PROVE  MoveInv'
<1>1. Types /\ store \in Dir /\ store = at
  BY DEF MoveInv, Types
<1>2. Types'
  BY <1>1, GrownFacts DEF Types, Operations
<1>3. NoRecordLost'
  BY <1>1, GrownKept DEF MoveInv
<1>4. ~ split' => Alone(disk', at')
  BY <1>1, AtHome, GrownAlone DEF MoveInv, Types
<1>5. at' \in Dir
  BY <1>2 DEF Types
<1>. QED BY <1>2, <1>3, <1>4, <1>5, Silent, AtRest

LEMMA SpentTyped ==
    ASSUME Types
    PROVE  /\ spent.records \in Nat /\ spent.changes \in Nat /\ spent.trouble \in Nat
           /\ Troubled => spent' \in [records : Nat, changes : Nat, trouble : Nat]
           /\ [spent EXCEPT !.records = @ + 1] \in [records : Nat, changes : Nat, trouble : Nat]
           /\ [spent EXCEPT !.changes = @ + 1] \in [records : Nat, changes : Nat, trouble : Nat]
  BY DEF Types, Troubled

LEMMA TurnFailsStep == ASSUME MoveInv, TurnFails PROVE MoveInv'
<1>1. Types /\ spent.records + 1 \in Nat
  BY SpentTyped DEF MoveInv
<1>2. Grown(store)
  BY <1>1, RecordsTyped, UnwrittenGrows DEF TurnFails, Artifacts
<1>3. split \in BOOLEAN /\ wiped' \subseteq {"sessions", "todos"} /\ Excused
  BY <1>1, NotRewriting DEF Types, TurnFails
<1>. QED BY <1>1, <1>2, <1>3, SpentTyped, RestGrown DEF TurnFails, Forget

LEMMA ChangeRootsEscapesStep == ASSUME MoveInv, ChangeRootsEscapes PROVE MoveInv'
<1>1. Types /\ split \in BOOLEAN /\ spent \in [records : Nat, changes : Nat, trouble : Nat]
  BY DEF MoveInv, Types
<1>2. Excused /\ wiped' \subseteq {"sessions", "todos"}
  BY <1>1, NotRewriting DEF ChangeRootsEscapes, Types
<1>. QED BY <1>1, <1>2, RestGrown DEF ChangeRootsEscapes, Forget, Grown

LEMMA QuitStep == ASSUME MoveInv, Quit PROVE MoveInv'
<1>1. Types /\ split \in BOOLEAN /\ spent \in [records : Nat, changes : Nat, trouble : Nat]
  BY DEF MoveInv, Types
<1>2. Excused /\ wiped' \subseteq {"sessions", "todos"}
  BY <1>1, NotRewriting DEF Quit, Types
<1>. QED BY <1>1, <1>2, RestGrown DEF Quit, Forget, Grown

LEMMA DropEvidenceFailsStep == ASSUME MoveInv, DropEvidenceFails PROVE MoveInv'
<1>1. Types /\ split \in BOOLEAN /\ spent.changes \in Nat /\ at \in Dir
  BY SpentTyped DEF MoveInv, Types
<1>2. Grown(store)
  BY <1>1, RecordsTyped, UnwrittenGrows DEF DropEvidenceFails
<1>3. Excused /\ wiped' \subseteq {"sessions", "todos"}
  BY <1>1, NotRewriting DEF DropEvidenceFails, Types
<1>. QED BY <1>1, <1>2, <1>3, SpentTyped, RestGrown DEF DropEvidenceFails, Forget

LEMMA RefreshFailsStep == ASSUME MoveInv, RefreshFails PROVE MoveInv'
<1>1. Types /\ split \in BOOLEAN
  BY DEF MoveInv, Types
<1>2. Excused /\ wiped' \subseteq {"sessions", "todos"}
  BY <1>1, NotRewriting DEF RefreshFails, Types
<1>. QED BY <1>1, <1>2, SpentTyped, RestGrown DEF RefreshFails, Forget, Grown

LEMMA TodosFailStep == ASSUME MoveInv, TodosFail PROVE MoveInv'
<1>1. Types /\ split \in BOOLEAN /\ spent \in [records : Nat, changes : Nat, trouble : Nat]
  BY DEF MoveInv, Types
<1>2. Excused /\ wiped' \subseteq {"sessions", "todos"}
  BY <1>1, NotRewriting DEF TodosFail, Types
<1>3. report' = "none"
  BY DEF MoveInv, Told, TodosFail
<1>. QED BY <1>1, <1>2, <1>3, SpentTyped, RestGrown DEF TodosFail, Grown

LEMMA WriteTodosFailsStep == ASSUME MoveInv, WriteTodosFails PROVE MoveInv'
<1>1. Types /\ split \in BOOLEAN
  BY DEF MoveInv, Types
<1>2. Excused /\ wiped' \subseteq {"sessions", "todos"}
  BY <1>1 DEF WriteTodosFails, Types, Excused, BeingRewritten
<1>3. report' = "none"
  BY DEF MoveInv, Told, WriteTodosFails
<1>. QED BY <1>1, <1>2, <1>3, SpentTyped, RestGrown DEF WriteTodosFails, Grown

LEMMA MoveRefusedStep == ASSUME MoveInv, NEW d \in Dir, MoveRefused(d) PROVE MoveInv'
<1>1. /\ pc = "idle" /\ report' = "refused" /\ before' = [disk |-> disk, process |-> Process]
      /\ UNCHANGED <<pc, disk, at, store, rev, op, spent, kept, split, wiped>>
  BY DEF MoveRefused
<1>2. Types'
  BY <1>1 DEF MoveInv, Types
<1>3. NoRecordLost'
  BY <1>1, NotRewriting, SameKept DEF MoveInv
<1>4. ~ split' => Alone(disk', at')
  BY <1>1, AtHome DEF Alone
<1>5. ReportIsTrue'
  <2>1. before'.disk = disk' /\ before'.process = Process'
    BY <1>1 DEF Process
  <2>. QED BY <1>1, <2>1 DEF ReportIsTrue
<1>. QED BY <1>1, <1>2, <1>3, <1>4, <1>5, AtRest

LEMMA TurnStep == ASSUME MoveInv, Turn PROVE MoveInv'
<1> DEFINE r == Note("sessions", spent.records + 1)
<1>1. /\ pc = "idle" /\ pc' \in {"todos", "patches"} /\ Written(r) /\ Forget
      /\ spent' = [spent EXCEPT !.records = @ + 1]
      /\ UNCHANGED <<at, store, rev, op, split, wiped>>
  BY DEF Turn
<1>2. Types /\ at \in Dir /\ store = at /\ r \in Records /\ r.a = "sessions"
  BY SpentTyped, RecordsTyped DEF MoveInv, Types, Artifacts
<1> HIDE DEF r
<1>3. Grown(at) /\ r \in ToSet(Bytes(disk'[at]["sessions"])) /\ kept' = kept \cup {r}
  BY <1>1, <1>2, Longer DEF Written
<1>4. Types'
  BY <1>1, <1>2, <1>3, GrownFacts, SpentTyped DEF Types, Operations
<1>5. NoRecordLost'
  BY <1>1, <1>2, <1>3, NotRewriting, GrownKept DEF MoveInv
<1>6. ~ split' => Alone(disk', at')
  BY <1>1, <1>2, <1>3, AtHome, GrownAlone
<1>. QED BY <1>1, <1>4, <1>5, <1>6, AtRest, Silent DEF Forget

LEMMA SaveTodosStep == ASSUME MoveInv, SaveTodos PROVE MoveInv'
<1> DEFINE items == Bytes(disk[at]["todos"])
           r     == Note("todos", spent.records)
<1>1. PICK list \in {items, Append(items, r)} : op' = [kind |-> "todos", bytes |-> list]
  BY DEF SaveTodos
<1>2. /\ pc = "todos" /\ pc' = "saving" /\ Put(at, "todos", <<>>)
      /\ UNCHANGED <<at, store, rev, report, spent, before, kept, split, wiped>>
  BY DEF SaveTodos
<1>3. /\ Types /\ at \in Dir /\ "todos" \in Artifacts /\ disk \in Disks /\ r \in Records
      /\ report' = "none"
  BY <1>2, SpentTyped, RecordsTyped DEF MoveInv, Types, Artifacts, Told
<1>4. items \in Seq(Records)
  BY <1>3, FileFacts DEF Disks
<1> HIDE DEF items, r
<1>5. list \in Seq(Records) /\ ToSet(items) \subseteq ToSet(list) /\ op'.bytes = list
  BY <1>1, <1>3, <1>4, Adding
<1>6. BeingRewritten("todos")' /\ Excused
  BY <1>2, NotRewriting DEF BeingRewritten
<1>7. <<>> \in Seq(Records)
  OBVIOUS
<1>8. /\ NoRecordLost' /\ disk' \in Disks
      /\ \A e \in Dir, b \in Artifacts : e # at \/ b # "todos" => disk'[e][b] = disk[e][b]
  <2>1. NoRecordLost /\ Put(at, "todos", <<>>)
    BY <1>2 DEF MoveInv
  <2>2. \A q \in kept' : q.a # "todos" => q \in kept
    BY <1>2
  <2>3. \A q \in kept' : q.a = "todos" =>
            \/ q \in ToSet(<<>>)
            \/ "todos" \in wiped' \/ BeingRewritten("todos")'
            \/ \E e \in Dir \ {at} : q \in ToSet(Bytes(disk[e]["todos"]))
    BY <1>6
  <2>. QED BY <1>3, <1>6, <1>7, <2>1, <2>2, <2>3, PutKept
<1>9. Types'
  BY <1>2, <1>3, <1>8 DEF Types, Operations
<1>10. Saved'
  <2> SUFFICES ASSUME NEW q \in kept, q.a = "todos", "todos" \notin wiped, q \notin ToSet(list)
               PROVE  \E d \in Dir \ {at} : q \in ToSet(Bytes(disk'[d]["todos"]))
    BY <1>2, <1>5 DEF Saved
  <2>1. PICK d \in Dir : q \in ToSet(Bytes(disk[d]["todos"]))
    BY <1>2 DEF MoveInv, NoRecordLost, BeingRewritten
  <2>2. d # at
    BY <1>5, <2>1 DEF items
  <2>. QED BY <1>3, <1>8, <2>1, <2>2
<1>11. ~ split' => Alone(disk', at')
  BY <1>2, <1>8, AtHome DEF Alone
<1>. QED BY <1>2, <1>3, <1>8, <1>9, <1>10, <1>11, AtRest, Silent

LEMMA WriteTodosStep == ASSUME MoveInv, WriteTodos PROVE MoveInv'
<1> DEFINE items == {r \in ToSet(op.bytes) : r.a = "todos"}
<1>1. /\ pc = "saving" /\ pc' = "idle" /\ Put(at, "todos", op.bytes) /\ kept' = kept \cup items
      /\ UNCHANGED <<at, store, rev, report, spent, before, split, wiped>>
  BY DEF WriteTodos
<1>2. /\ Types /\ at \in Dir /\ "todos" \in Artifacts /\ report' = "none"
      /\ Saved /\ NoRecordLost
  BY <1>1 DEF MoveInv, Types, Artifacts, Told, Steps
<1>3. op.bytes \in Seq(Records) /\ items \subseteq Records
  BY <1>2 DEF Saved, ToSet
<1>4. \A r \in items : r \in ToSet(op.bytes) /\ r.a = "todos"
  OBVIOUS
<1> HIDE DEF items
<1>5. /\ \A r \in kept' : r.a # "todos" => r \in kept
      /\ \A r \in kept' : r.a = "todos" =>
            \/ r \in ToSet(op.bytes)
            \/ "todos" \in wiped'
            \/ \E e \in Dir \ {at} : r \in ToSet(Bytes(disk[e]["todos"]))
  BY <1>1, <1>2, <1>4 DEF Saved
<1>6. NoRecordLost'
  <2> DEFINE f == op.bytes
  <2>1. /\ disk' \in Disks /\ disk'[at]["todos"] = f /\ Bytes(f) = f
        /\ \A e \in Dir, b \in Artifacts : e # at \/ b # "todos" => disk'[e][b] = disk[e][b]
    BY <1>1, <1>2, <1>3, FileFacts, PutFacts, MoveAssumption DEF Files, Types, Bytes
  <2>2. ASSUME NEW r \in kept', r.a = "todos"
        PROVE  "todos" \in wiped' \/ \E e \in Dir : r \in ToSet(Bytes(disk'[e]["todos"]))
    BY <1>2, <1>5, <2>1, <2>2
  <2>3. ASSUME NEW r \in kept', r.a # "todos"
        PROVE  r.a \in wiped' \/ \E e \in Dir : r \in ToSet(Bytes(disk'[e][r.a]))
    <3>1. r \in kept /\ r.a \in Artifacts
      BY <1>2, <1>5, <2>3 DEF Types, Records
    <3>2. r.a \in wiped \/ \E e \in Dir : r \in ToSet(Bytes(disk[e][r.a]))
      BY <1>1, <1>2, <2>3, <3>1 DEF NoRecordLost, BeingRewritten
    <3>. QED BY <1>1, <2>1, <2>3, <3>1, <3>2
  <2>. QED BY <2>2, <2>3 DEF NoRecordLost
<1>7. /\ disk' \in Disks
      /\ \A e \in Dir, b \in Artifacts : e # at \/ b # "todos" => disk'[e][b] = disk[e][b]
  BY <1>1, <1>2, <1>3, PutFacts DEF Files, Types
<1>8. Types'
  BY <1>1, <1>2, <1>3, <1>7 DEF Types, Operations
<1>9. ~ split' => Alone(disk', at')
  BY <1>1, <1>7, AtHome DEF Alone
<1>. QED BY <1>1, <1>2, <1>6, <1>8, <1>9, AtRest, Silent

LEMMA AppendPatchStep == ASSUME MoveInv, AppendPatch PROVE MoveInv'
<1> DEFINE r == Note("patches", spent.records)
           s == Bytes(disk[at]["patches"])
<1>1. /\ pc = "patches" /\ pc' = "idle"
      /\ \/ Put(at, "patches", Append(s, r)) /\ kept' = kept \cup {r} /\ UNCHANGED spent
         \/ /\ Troubled /\ UNCHANGED kept
            /\ Put(at, "patches", Append(s, r)) \/ UNCHANGED disk
      /\ UNCHANGED <<at, store, rev, op, report, before, split, wiped>>
  BY DEF AppendPatch
<1>2. /\ Types /\ at \in Dir /\ "patches" \in Artifacts /\ report' = "none"
      /\ disk \in Disks /\ r \in Records /\ r.a = "patches" /\ NoRecordLost
      /\ spent \in [records : Nat, changes : Nat, trouble : Nat]
  BY <1>1, SpentTyped, RecordsTyped DEF MoveInv, Types, Artifacts, Told
<1>3. s \in Seq(Records)
  BY <1>2, FileFacts DEF Disks
<1>4. Append(s, r) \in Seq(Records) /\ ToSet(Append(s, r)) = ToSet(s) \cup {r}
  BY <1>2, <1>3, Adding
<1>5. Excused
  BY <1>1, NotRewriting
<1>6. /\ NoRecordLost' /\ disk' \in Disks
      /\ \A e \in Dir, b \in Artifacts : e # at => disk'[e][b] = disk[e][b]
  <2>1. CASE UNCHANGED <<disk, kept>>
    BY <1>2, <1>5, <2>1, SameKept
  <2>2. CASE Put(at, "patches", Append(s, r)) /\ kept' \in {kept, kept \cup {r}}
    <3> DEFINE f == Append(s, r)
    <3>1. \A q \in kept' : q.a # "patches" => q \in kept
      BY <1>2, <2>2
    <3>2. ASSUME NEW q \in kept', q.a = "patches"
          PROVE  \/ q \in ToSet(Append(s, r))
                 \/ \E e \in Dir \ {at} : q \in ToSet(Bytes(disk[e]["patches"]))
      <4>1. CASE q \in kept
        <5>1. PICK d \in Dir : q \in ToSet(Bytes(disk[d]["patches"]))
          BY <1>1, <1>2, <3>2, <4>1 DEF NoRecordLost, BeingRewritten, Types
        <5>. QED BY <1>4, <5>1
      <4>2. CASE q = r
        BY <1>4, <4>2
      <4>. QED BY <2>2, <4>1, <4>2
    <3>3. f \in Seq(Records) /\ Put(at, "patches", f)
      BY <1>4, <2>2
    <3>4. \A q \in kept' : q.a = "patches" =>
              \/ q \in ToSet(f)
              \/ "patches" \in wiped' \/ BeingRewritten("patches")'
              \/ \E e \in Dir \ {at} : q \in ToSet(Bytes(disk[e]["patches"]))
      BY <3>2
    <3> HIDE DEF f, r, s
    <3>5. /\ NoRecordLost' /\ disk' \in Disks
          /\ \A e \in Dir, b \in Artifacts : e # at \/ b # "patches" => disk'[e][b] = disk[e][b]
      BY <1>2, <1>5, <3>1, <3>3, <3>4, PutKept
    <3>. QED BY <3>5
  <2>. QED BY <1>1, <2>1, <2>2
<1>7. Types'
  <2>1. kept' \subseteq Records /\ spent' \in [records : Nat, changes : Nat, trouble : Nat]
    BY <1>1, <1>2, SpentTyped DEF Types
  <2>. QED BY <1>1, <1>2, <1>6, <2>1 DEF Types, Operations
<1>8. ~ split' => Alone(disk', at')
  BY <1>1, <1>6, AtHome DEF Alone
<1>. QED BY <1>1, <1>2, <1>6, <1>7, <1>8, AtRest, Silent

LEMMA RestoredTyped ==
    ASSUME NEW s \in Seq(Records), NEW d \in Dir
    PROVE  Restored(s, d) \in Nat
<1> DEFINE newest == {i \in DOMAIN s : s[i].t = "roots" /\ \A j \in DOMAIN s :
                                          s[j].t = "roots" => j <= i}
           i == CHOOSE i \in newest : TRUE
<1>1. CASE \E j \in newest : s[j].at = d
  <2>1. i \in newest
    BY <1>1
  <2>2. s[i] \in Records
    BY <2>1
  <2>3. s[i].n \in Nat
    BY <2>2 DEF Records
  <2>. QED BY <1>1, <2>3 DEF Restored
<1>2. CASE ~ \E j \in newest : s[j].at = d
  BY <1>2 DEF Restored
<1>. QED BY <1>1, <1>2

LEMMA StartStep == ASSUME MoveInv, NEW d \in Dir, Start(d) PROVE MoveInv'
<1> DEFINE r == Note("sessions", spent.records + 1)
<1>1. /\ pc = "down" /\ There(d, "sessions")
      /\ pc' = "idle" /\ at' = d /\ store' = d /\ rev' = Restored(Log(d), d)
      /\ Put(d, "sessions", Append(Log(d), r)) /\ kept' = kept \cup {r}
      /\ spent' = [spent EXCEPT !.records = @ + 1] /\ Forget
      /\ UNCHANGED <<op, split, wiped>>
  BY DEF Start
<1>2. Types /\ r \in Records /\ r.a = "sessions" /\ Log(d) \in Seq(Records)
      /\ "sessions" \in Artifacts
  BY SpentTyped, RecordsTyped, LogTyped DEF MoveInv, Artifacts
<1> HIDE DEF r
<1>3. Grown(d) /\ r \in ToSet(Bytes(disk'[d]["sessions"])) /\ disk' \in Disks
  BY <1>1, <1>2, Longer, GrownFacts
<1>4. rev' \in Nat
  BY <1>1, <1>2, RestoredTyped
<1>5. Types'
  BY <1>1, <1>2, <1>3, <1>4, SpentTyped DEF Types, Operations
<1>6. NoRecordLost'
  <2>1. Excused /\ NoRecordLost
    BY <1>1, NotRewriting DEF MoveInv
  <2>2. \A q \in kept' : \/ q \in kept
                         \/ q \in ToSet(Bytes(disk'[d]["sessions"])) /\ q.a = "sessions"
    BY <1>1, <1>2, <1>3
  <2>. QED BY <1>2, <1>3, <2>1, <2>2, GrownKept
<1>7. ~ split' => Alone(disk', d)
  <2>1. ~ split => \E h \in Dir : Alone(disk, h)
    BY <1>1 DEF MoveInv, Together
  <2>2. ~ split => Alone(disk, d)
    BY <1>1, <1>2, <2>1 DEF There, Alone
  <2>. QED BY <1>1, <1>2, <1>3, <2>2, GrownAlone
<1>. QED BY <1>1, <1>5, <1>6, <1>7, AtRest, Silent DEF Forget

-----------------------------------------------------------------------------
(* Steps that end a move or a change. *)

\* What a move or a change under way knows of itself.
LEMMA UnderWay ==
    ASSUME MoveInv, Pending \/ Done
    PROVE  /\ op \in Changes /\ Source \in Dir /\ Target \in Dir /\ op.bytes \in Seq(Records)
           /\ op.was \in Processes /\ op.was.store = Source /\ op.was.rev \in Nat
           /\ before.process = op.was /\ before.disk \in Disks
           /\ disk \in Disks /\ report = "none"
<1>1. /\ op \in Changes /\ op.was.store = Source
      /\ before.process = op.was /\ before.disk \in Disks
  BY DEF MoveInv, Remembered
<1>2. disk \in Disks /\ report = "none"
  BY DEF MoveInv, Types, Told, Pending, Done
<1>. QED BY <1>1, <1>2 DEF Changes, Processes, Source, Target

\* An error that is told as such: the files may be anywhere.
LEMMA TornStep ==
    ASSUME MoveInv, Pending, AnswerTorn, GoBack, disk' \in Disks, NoRecordLost',
           UNCHANGED kept, wiped' \subseteq {"sessions", "todos"},
           spent' \in [records : Nat, changes : Nat, trouble : Nat]
    PROVE  MoveInv'
<1>1. at' = Source /\ store' = Source /\ rev' = op.was.rev /\ Source \in Dir /\ op.was.rev \in Nat
  BY UnderWay DEF GoBack, Source
<1>2. pc' = "idle" /\ report' = "torn" /\ split' = TRUE
  BY DEF AnswerTorn, Answer
<1>3. Types'
  BY <1>1, <1>2 DEF MoveInv, Types, Operations
<1>4. ReportIsTrue'
  BY <1>2 DEF ReportIsTrue
<1>. QED BY <1>2, <1>3, <1>4, AtRest

LEMMA RewriteLogFailsStep == ASSUME MoveInv, RewriteLogFails PROVE MoveInv'
<1>1. /\ pc = "rewrite" /\ Troubled /\ AnswerTorn /\ GoBack
      /\ UNCHANGED <<disk, before, kept, wiped>>
  BY DEF RewriteLogFails
<1>2. Types /\ Pending /\ disk' \in Disks /\ wiped' \subseteq {"sessions", "todos"}
  BY <1>1 DEF MoveInv, Types, Pending
<1>3. NoRecordLost'
  BY <1>1, NotRewriting, SameKept DEF MoveInv
<1>. QED BY <1>1, <1>2, <1>3, SpentTyped, TornStep

LEMMA WriteBytesFailsStep == ASSUME MoveInv, WriteBytesFails PROVE MoveInv'
<1>1. /\ pc = "bytes" /\ Troubled /\ AnswerTorn /\ GoBack
      /\ wiped' = wiped \cup {"sessions"} /\ UNCHANGED <<before, kept>>
  BY DEF WriteBytesFails
<1>2. PICK f \in {<<>>, <<Half>>} : Put(op.was.store, "sessions", f)
  BY DEF WriteBytesFails
<1>3. Types /\ Pending /\ disk \in Disks /\ "sessions" \in Artifacts
  BY <1>1 DEF MoveInv, Types, Pending, Artifacts
<1>4. f \in Files
  <2>1. <<>> \in Seq(Records)
    OBVIOUS
  <2>2. <<Half>> \in Seq(Records)
    BY RecordsTyped
  <2>. QED BY <2>1, <2>2 DEF Files
<1>5. Source \in Dir /\ Put(Source, "sessions", f)
  BY <1>2, <1>3, UnderWay
<1>6. /\ disk' \in Disks
      /\ \A d \in Dir, a \in Artifacts : a # "sessions" => disk'[d][a] = disk[d][a]
  BY <1>3, <1>4, <1>5, PutFacts
<1>7. NoRecordLost'
  <2> SUFFICES ASSUME NEW r \in kept, r.a # "sessions", r.a \notin wiped
               PROVE  \E d \in Dir : r \in ToSet(Bytes(disk'[d][r.a]))
    BY <1>1 DEF NoRecordLost
  <2>1. r.a \in Artifacts
    BY <1>3 DEF Types, Records
  <2>2. \E d \in Dir : r \in ToSet(Bytes(disk[d][r.a]))
    BY <1>1 DEF MoveInv, NoRecordLost, BeingRewritten
  <2>. QED BY <1>6, <2>1, <2>2
<1>8. wiped' \subseteq {"sessions", "todos"}
  BY <1>1, <1>3 DEF Types
<1>. QED BY <1>1, <1>3, <1>6, <1>7, <1>8, SpentTyped, TornStep

\* It is undone: the files and the process are what they were.
LEMMA UndoneStep ==
    ASSUME MoveInv, Pending, Answer("undone"), GoBack, disk' \in Disks, NoRecordLost',
           ~ split => disk' = before.disk,
           UNCHANGED <<spent, before, kept, split, wiped>>
    PROVE  MoveInv'
<1>1. /\ at' = Source /\ store' = Source /\ rev' = op.was.rev /\ Source \in Dir
      /\ op.was \in Processes /\ op.was.store = Source /\ before.process = op.was
  BY UnderWay DEF GoBack, Source
<1>2. pc' = "idle" /\ report' = "undone"
  BY DEF Answer
<1>3. Types'
  BY <1>1, <1>2 DEF MoveInv, Types, Operations, Processes
<1>4. Process' = before'.process
  <2>1. Process' = [at |-> op.was.at, store |-> op.was.store, rev |-> op.was.rev]
    BY <1>1 DEF Process, Source
  <2>. QED BY <1>1, <2>1 DEF Processes
<1>5. ReportIsTrue'
  BY <1>2, <1>4 DEF ReportIsTrue
<1>6. ~ split' => Alone(disk', at')
  BY <1>1 DEF MoveInv, Together
<1>. QED BY <1>2, <1>3, <1>5, <1>6, AtRest

LEMMA SameDisk ==
    ASSUME NEW x \in Disks, NEW y \in Disks, \A d \in Dir, a \in Artifacts : x[d][a] = y[d][a]
    PROVE  x = y
<1>1. \A d \in Dir : x[d] = y[d]
  BY DEF Disks
<1>. QED BY <1>1 DEF Disks

LEMMA WriteBytesStep == ASSUME MoveInv, WriteBytes PROVE MoveInv'
<1>1. /\ pc = "bytes" /\ Put(op.was.store, "sessions", op.bytes)
      /\ Answer("undone") /\ GoBack /\ UNCHANGED <<spent, before, kept, split, wiped>>
  BY DEF WriteBytes
<1>2. Pending /\ "sessions" \in Artifacts /\ disk \in Disks /\ Types
  BY <1>1 DEF Pending, Artifacts, MoveInv, Types
<1>3. /\ Source \in Dir /\ Put(Source, "sessions", op.bytes) /\ op.bytes \in Seq(Records)
      /\ before.disk \in Disks /\ before.disk[Source]["sessions"] = op.bytes
  BY <1>1, <1>2, UnderWay DEF MoveInv, Remembered
<1>4. op.bytes \in Files /\ Bytes(op.bytes) = op.bytes
  BY <1>3, MoveAssumption DEF Files, Bytes
<1>5. /\ disk' \in Disks /\ disk'[Source]["sessions"] = op.bytes
      /\ \A d \in Dir, a \in Artifacts :
            d # Source \/ a # "sessions" => disk'[d][a] = disk[d][a]
  BY <1>2, <1>3, <1>4, PutFacts
<1>6. NoRecordLost'
  <2> SUFFICES ASSUME NEW r \in kept
               PROVE  \/ \E d \in Dir : r \in ToSet(Bytes(disk'[d][r.a]))
                      \/ r.a \in wiped
    BY <1>1 DEF NoRecordLost
  <2>1. CASE r.a = "sessions"
    <3>1. \/ "sessions" \in wiped
          \/ r \in ToSet(op.bytes)
          \/ \E d \in Dir \ {Source, Target} : r \in ToSet(Bytes(disk[d]["sessions"]))
      BY <1>2, <2>1 DEF MoveInv, Backed
    <3>. QED BY <1>2, <1>3, <1>4, <1>5, <2>1, <3>1
  <2>2. CASE r.a # "sessions"
    <3>1. r.a \in Artifacts
      BY <1>2 DEF Types, Records
    <3>2. r.a \in wiped \/ \E d \in Dir : r \in ToSet(Bytes(disk[d][r.a]))
      BY <1>1, <2>2 DEF MoveInv, NoRecordLost, BeingRewritten
    <3>. QED BY <1>5, <2>2, <3>1, <3>2
  <2>. QED BY <2>1, <2>2
<1>7. ASSUME ~ split PROVE disk' = before.disk
  <2>1. op.done = {} /\ ~ op.error /\ op.rest = {}
    BY <1>1 DEF MoveInv, Steps
  <2>2. \A d \in Dir, a \in Artifacts :
           disk[d][a] = before.disk[d][a] \/ (a = "sessions" /\ d = Source)
    <3>1. LogAt = Source
      BY <2>1 DEF LogAt
    <3>2. ASSUME NEW d \in Dir, NEW a \in Artifacts PROVE Expected(d, a) = before.disk[d][a]
      BY <2>1 DEF Expected
    <3>. QED BY <1>2, <1>7, <2>1, <3>1, <3>2 DEF MoveInv, Exact
  <2>3. \A d \in Dir, a \in Artifacts : disk'[d][a] = before.disk[d][a]
    BY <1>3, <1>5, <2>2
  <2>. QED BY <1>3, <1>5, <2>3, SameDisk
<1>. QED BY <1>1, <1>2, <1>5, <1>6, <1>7, UndoneStep

LEMMA AnnounceStep == ASSUME MoveInv, Announce PROVE MoveInv'
<1> DEFINE r == Record("sessions", "event", spent.changes, at)
<1>1. /\ pc = "announce" /\ Answer("ok")
      /\ UNCHANGED <<at, store, rev, before, split, wiped>>
      /\ \/ Written(r) /\ UNCHANGED spent
         \/ Unwritten(r) /\ Troubled /\ UNCHANGED kept
  BY DEF Announce
<1>2. /\ Types /\ spent.changes \in Nat /\ at \in Dir /\ store = at /\ Done /\ Excused
      /\ kept \subseteq Records
  BY <1>1, NotRewriting, SpentTyped DEF MoveInv, Types, Done
<1>3. r \in Records /\ r.a = "sessions"
  BY <1>2, RecordsTyped
<1> HIDE DEF r
<1>4. Grown(at) /\ \A q \in kept' : \/ q \in kept
                                    \/ q \in ToSet(Bytes(disk'[at]["sessions"])) /\ q.a = "sessions"
  BY <1>1, <1>2, <1>3, Longer, UnwrittenGrows DEF Written
<1>5. /\ kept' \subseteq Records
      /\ spent' \in [records : Nat, changes : Nat, trouble : Nat]
  BY <1>1, <1>2, <1>3, SpentTyped DEF Written, Types
<1>6. Types'
  BY <1>1, <1>2, <1>4, <1>5, GrownFacts DEF Types, Operations, Answer
<1>7. NoRecordLost'
  BY <1>1, <1>2, <1>4, GrownKept DEF MoveInv
<1>8. ~ split' => Alone(disk', at')
  BY <1>1, <1>2, <1>4, AtHome, GrownAlone
<1>9. ReportIsTrue'
  <2>1. /\ at = Target /\ (op.kind = "move" => \A a \in Artifacts : ~ There(Source, a))
        /\ Roots(rev, at) \in ToSet(Log(store))
    BY <1>1, <1>2 DEF MoveInv, Steps
  <2>2. /\ before.process = op.was /\ op.kind \in {"move", "roots"}
        /\ op.kind = "roots" => Target = Source
        /\ \A d \in Dir \ {Source, Target}, a \in Artifacts : disk[d][a] = before.disk[d][a]
    BY <1>2 DEF MoveInv, Remembered, Changes
  <2>3. /\ \A d \in Dir \ {at}, a \in Artifacts : disk'[d][a] = disk[d][a]
        /\ ToSet(Log(at)) \subseteq ToSet(Bytes(disk'[at]["sessions"]))
    BY <1>2, <1>4, GrownFacts
  <2>4. Roots(rev, at)' \in ToSet(Log(store))'
    BY <1>1, <1>2, <2>1, <2>3 DEF Log, Roots, Record
  <2>5. ASSUME NEW d \in Dir \ {at}, NEW a \in Artifacts, disk'[d][a] # Missing
        PROVE  disk'[d][a] = before.disk[d][a] /\ d # before.process.at
    BY <2>1, <2>2, <2>3, <2>5 DEF There, Source
  <2>. QED BY <1>1, <2>4, <2>5 DEF ReportIsTrue, Answer, There
<1>. QED BY <1>1, <1>6, <1>7, <1>8, <1>9, AtRest DEF Answer

LEMMA UndoneIdleStep == ASSUME MoveInv, Undone, pc' = "idle" PROVE MoveInv'
<1>1. /\ pc = "undo" /\ op.done = {} /\ UNCHANGED <<disk, spent, before, kept, wiped>>
      /\ \/ op.error /\ AnswerTorn /\ GoBack
         \/ ~ op.error /\ op.rest # {} /\ Answer("undone") /\ GoBack /\ UNCHANGED split
  BY DEF Undone
<1>2. Pending /\ disk' \in Disks /\ wiped' \subseteq {"sessions", "todos"} /\ Types
      /\ spent' \in [records : Nat, changes : Nat, trouble : Nat]
  BY <1>1 DEF MoveInv, Types, Pending
<1>3. NoRecordLost'
  BY <1>1, <1>2, NotRewriting, SameKept DEF MoveInv
<1>4. CASE AnswerTorn /\ GoBack
  BY <1>1, <1>2, <1>3, <1>4, TornStep
<1>5. CASE ~ op.error /\ op.rest # {} /\ Answer("undone") /\ GoBack /\ UNCHANGED split
  <2>1. ASSUME ~ split PROVE disk' = before.disk
    <3>1. \A d \in Dir, a \in Artifacts : disk[d][a] = before.disk[d][a]
      BY <1>1, <1>2, <1>5, <2>1 DEF MoveInv, Exact, Expected
    <3>2. disk \in Disks /\ before.disk \in Disks
      BY <1>2, UnderWay
    <3>. QED BY <1>1, <3>1, <3>2, SameDisk
  <2>. QED BY <1>1, <1>2, <1>3, <1>5, <2>1, UndoneStep
<1>. QED BY <1>1, <1>4, <1>5

-----------------------------------------------------------------------------
(* Steps of a move or a change that goes on. *)

LEMMA OpenHolds ==
    ASSUME MoveInv, pc = "idle", NEW kind, NEW d \in Dir, NEW moves \in SUBSET Artifacts,
           Open(kind, d, moves), report' = "none",
           UNCHANGED <<disk, at, store, rev, kept, split, wiped>>,
           \/ kind = "roots" /\ d = at /\ moves = {} /\ pc' = "record"
           \/ /\ kind = "move" /\ d # at /\ pc' = "files" /\ ~ Conflict(d, moves)
              /\ moves = {a \in Artifacts : There(at, a)}
    PROVE  MoveInv'
<1>1. /\ Types /\ disk \in Disks /\ at \in Dir /\ store = at /\ rev \in Nat
      /\ "sessions" \in Artifacts /\ There(at, "sessions")
  BY DEF MoveInv, Types, Artifacts, Open
<1>2. /\ op' = [kind |-> kind, to |-> d, was |-> Process, rest |-> moves, done |-> {},
                error |-> FALSE, bytes |-> Log(at)]
      /\ before' = [disk |-> disk, process |-> Process]
      /\ spent' = [spent EXCEPT !.changes = @ + 1]
  BY <1>1 DEF Open
<1>3. Process \in Processes /\ Process.at = at /\ Process.store = at
  BY <1>1 DEF Process, Processes
<1>4. Log(at) \in Seq(Records) /\ disk[at]["sessions"] = Log(at)
  BY <1>1, LogTyped DEF Log, Bytes, There
<1>5. Types'
  BY <1>1, <1>2, SpentTyped DEF Types, Operations
<1>6. /\ op'.kind = kind /\ op'.to = d /\ op'.was = Process /\ op'.rest = moves
      /\ op'.done = {} /\ op'.error = FALSE /\ op'.bytes = Log(at)
      /\ before'.disk = disk /\ before'.process = Process
      /\ Source' = at /\ Target' = d
  BY <1>2, <1>3 DEF Source, Target
<1>7. op' \in Changes
  BY <1>1, <1>2, <1>3, <1>4 DEF Changes
<1>8. Remembered'
  <2>1. \A a \in moves : kind = "move" => disk[d][a] = Missing
    BY DEF Conflict, There
  <2>2. ~ Done'
    BY DEF Done
  <2>. QED BY <1>1, <1>3, <1>4, <1>6, <1>7, <2>1, <2>2 DEF Remembered, Source, Target
<1>9. Steps'
  <2>1. ~ Done' /\ pc' \in {"record", "files"}
    BY DEF Done
  <2>2. CASE kind = "roots"
    BY <1>6, <2>1, <2>2 DEF Steps
  <2>3. CASE kind = "move"
    BY <1>1, <1>6, <2>1, <2>3 DEF Steps, There, Conflict
  <2>. QED BY <2>2, <2>3
<1>10. NoRecordLost'
  BY <1>1, NotRewriting, SameKept DEF MoveInv
<1>11. Backed'
  <2> SUFFICES ASSUME NEW r \in kept, r.a = "sessions"
               PROVE  \/ "sessions" \in wiped
                      \/ r \in ToSet(Log(at))
                      \/ \E e \in Dir \ {at, d} : r \in ToSet(Bytes(disk[e]["sessions"]))
    BY <1>6 DEF Backed
  <2>1. "sessions" \in wiped \/ \E e \in Dir : r \in ToSet(Bytes(disk[e]["sessions"]))
    BY DEF MoveInv, NoRecordLost, BeingRewritten
  <2>2. d # at => disk[d]["sessions"] = Missing
    BY <1>1 DEF Conflict, There
  <2>3. ToSet(Bytes(Missing)) = {}
    BY DEF Bytes, ToSet
  <2>. QED BY <2>1, <2>2, <2>3 DEF Log
<1>12. Exact'
  <2>1. ASSUME NEW e \in Dir, NEW a \in Artifacts PROVE Expected(e, a)' = disk[e][a]
    BY <1>6 DEF Expected
  <2>. QED BY <2>1 DEF Exact
<1>13. Together'
  <2>1. ~ split => Alone(disk, at)
    BY AtHome
  <2>2. ~ Done' /\ pc' \notin {"idle", "down", "todos", "saving", "patches"}
    BY DEF Done
  <2>. QED BY <1>6, <2>1, <2>2 DEF Together, Alone
<1>. QED BY <1>5, <1>8, <1>9, <1>10, <1>11, <1>12, <1>13, Silent DEF MoveInv

LEMMA ChangeRootsStep == ASSUME MoveInv, ChangeRoots PROVE MoveInv'
<1>1. at \in Dir
  BY DEF MoveInv, Types
<1>. QED BY <1>1, OpenHolds DEF ChangeRoots

LEMMA MoveOpens == ASSUME MoveInv, NEW d \in Dir, Move(d) PROVE MoveInv'
<1> DEFINE moves == {a \in Artifacts : There(at, a)}
<1>1. /\ pc = "idle" /\ d # at /\ Open("move", d, moves) /\ ~ Conflict(d, moves)
      /\ pc' = "files" /\ report' = "none"
      /\ UNCHANGED <<disk, at, store, rev, kept, split, wiped>>
  BY DEF Move
<1>2. moves \in SUBSET Artifacts
  OBVIOUS
<1>3. moves = {a \in Artifacts : There(at, a)}
  OBVIOUS
<1> HIDE DEF moves
<1>. QED BY <1>1, <1>2, <1>3, OpenHolds

\* What is remembered stays so while only the log at the target gets longer.
LEMMA GrownRemembered ==
    ASSUME MoveInv, Pending \/ Done, Grown(store), at = Target, UNCHANGED <<op, before>>
    PROVE  Remembered'
<1>1. Types /\ store \in Dir /\ store = Target /\ Remembered
  BY DEF MoveInv, Types
<1>2. \A d \in Dir \ {Source, Target}, a \in Artifacts : disk'[d][a] = before.disk[d][a]
  BY <1>1, GrownFacts DEF Remembered
<1>. QED BY <1>1, <1>2 DEF Remembered, Source, Target

LEMMA RecordAt ==
    ASSUME MoveInv, pc \in {"record", "evidence", "announce"}
    PROVE  /\ Pending \/ Done
           /\ at = Target /\ store = at /\ at \in Dir /\ Types /\ kept \subseteq Records
           /\ op.kind = "move" => Source # Target /\ \A a \in Artifacts : disk[Source][a] = Missing
           /\ op.kind \in {"move", "roots"} /\ Source \in Dir
           /\ op.kind = "roots" => Source = Target /\ op.done = {}
<1>1. Pending \/ Done
  BY DEF Pending, Done
<1>2. Types /\ Remembered /\ Steps
  BY DEF MoveInv
<1>. QED BY <1>1, <1>2, UnderWay DEF Types, Remembered, Steps, There, Changes

LEMMA RecordChangeStep == ASSUME MoveInv, RecordChange PROVE MoveInv'
<1> DEFINE r == Roots(op.was.rev + 1, at)
<1>1. /\ pc = "record" /\ Written(r) /\ rev' = op.was.rev + 1 /\ pc' = "evidence"
      /\ UNCHANGED <<at, store, op, report, spent, before, split, wiped>>
  BY DEF RecordChange
<1>2. /\ Pending /\ Types /\ at \in Dir /\ store = at /\ at = Target /\ Source \in Dir
      /\ op.was.rev + 1 \in Nat
      /\ op.kind = "move" => Source # Target /\ \A a \in Artifacts : disk[Source][a] = Missing
  BY <1>1, RecordAt, UnderWay DEF Pending
<1>3. r \in Records /\ r.a = "sessions" /\ kept' = kept \cup {r}
  BY <1>1, <1>2, RecordsTyped DEF Written
<1>4. r' = Roots(rev', at')
  BY <1>1
<1>5. r' = r
  BY <1>1 DEF Roots, Record
<1> HIDE DEF r
<1>6. Grown(at) /\ r \in ToSet(Bytes(disk'[at]["sessions"]))
  BY <1>1, <1>2, <1>3, Longer DEF Written
<1>7. Types'
  BY <1>1, <1>2, <1>3, <1>6, GrownFacts DEF Types, Operations
<1>8. Remembered'
  BY <1>1, <1>2, <1>6, GrownRemembered
<1>9. Steps'
  <2>1. op.kind = "move" => \A a \in Artifacts : disk'[Source][a] = Missing
    BY <1>2, <1>6, GrownFacts
  <2>2. Roots(rev, at)' \in ToSet(Log(store))'
    BY <1>1, <1>2, <1>4, <1>5, <1>6 DEF Log, Roots, Record
  <2>. QED BY <1>1, <1>2, <2>1, <2>2 DEF Steps, There, Source, Target
<1>10. Backed' /\ Exact'
  BY <1>1 DEF Backed, Exact, Pending
<1>11. Together'
  <2>1. ~ split => Alone(disk', at)
    BY <1>1, <1>2, <1>6, AtHome, GrownAlone
  <2>. QED BY <1>1, <2>1 DEF Together, Alone, Pending
<1>12. NoRecordLost'
  BY <1>1, <1>2, <1>3, <1>6, NotRewriting, GrownKept DEF MoveInv
<1>13. report' = "none"
  BY <1>1, <1>2, UnderWay
<1>. QED BY <1>7, <1>8, <1>9, <1>10, <1>11, <1>12, <1>13, Silent DEF MoveInv

LEMMA DropEvidenceStep == ASSUME MoveInv, DropEvidence PROVE MoveInv'
<1> DEFINE r == Record("sessions", "event", spent.changes, at)
<1>1. /\ pc = "evidence" /\ pc' = "announce"
      /\ Written(r) \/ UNCHANGED <<disk, kept>>
      /\ UNCHANGED <<at, store, rev, op, report, spent, before, split, wiped>>
  BY DEF DropEvidence
<1>2. /\ Done /\ Types /\ at \in Dir /\ store = at /\ at = Target /\ Source \in Dir
      /\ spent.changes \in Nat /\ kept \subseteq Records
      /\ op.kind = "move" => Source # Target /\ \A a \in Artifacts : disk[Source][a] = Missing
  BY <1>1, RecordAt, SpentTyped DEF Done
<1>3. r \in Records /\ r.a = "sessions"
  BY <1>2, RecordsTyped
<1> HIDE DEF r
<1>4. /\ Grown(at) /\ kept' \subseteq Records
      /\ \A q \in kept' : \/ q \in kept
                          \/ q \in ToSet(Bytes(disk'[at]["sessions"])) /\ q.a = "sessions"
  <2>1. CASE Written(r)
    BY <1>2, <1>3, <2>1, Longer DEF Written
  <2>2. CASE UNCHANGED <<disk, kept>>
    BY <1>2, <2>2 DEF Grown
  <2>. QED BY <1>1, <2>1, <2>2
<1>5. Types'
  BY <1>1, <1>2, <1>4, GrownFacts DEF Types, Operations
<1>6. Remembered'
  BY <1>1, <1>2, <1>4, GrownRemembered
<1>7. Steps'
  <2>1. op.kind = "move" => \A a \in Artifacts : disk'[Source][a] = Missing
    BY <1>2, <1>4, GrownFacts
  <2>2. Roots(rev, at) \in ToSet(Log(store))
    BY <1>2 DEF MoveInv, Steps
  <2>3. Roots(rev, at)' \in ToSet(Log(store))'
    BY <1>1, <1>2, <1>4, <2>2, GrownFacts DEF Log, Roots, Record
  <2>. QED BY <1>1, <1>2, <2>1, <2>3 DEF Steps, There, Source, Target
<1>8. Backed' /\ Exact'
  BY <1>1 DEF Backed, Exact, Pending
<1>9. Together'
  <2>1. ~ split => Alone(disk', at)
    BY <1>1, <1>2, <1>4, AtHome, GrownAlone
  <2>. QED BY <1>1, <2>1 DEF Together, Alone, Pending
<1>10. NoRecordLost'
  BY <1>1, <1>2, <1>4, NotRewriting, GrownKept DEF MoveInv
<1>11. report' = "none"
  BY <1>1, <1>2, UnderWay
<1>. QED BY <1>5, <1>6, <1>7, <1>8, <1>9, <1>10, <1>11, Silent DEF MoveInv

\* The old bytes hold the log's records still, if only files of the target
\* and the source have changed.
LEMMA BackedStays ==
    ASSUME MoveInv, Pending, op'.bytes = op.bytes, Source' = Source, Target' = Target,
           UNCHANGED kept, wiped \subseteq wiped',
           \A d \in Dir \ {Source, Target} : disk'[d]["sessions"] = disk[d]["sessions"]
    PROVE  Backed'
  BY DEF MoveInv, Backed

LEMMA RecordFailsStep == ASSUME MoveInv, RecordFails PROVE MoveInv'
<1>1. /\ pc = "record" /\ Unwritten(Roots(op.was.rev + 1, at)) /\ Troubled
      /\ pc' = IF op.kind = "move" THEN "undo" ELSE "rewrite"
      /\ UNCHANGED <<at, store, rev, op, report, before, kept, split, wiped>>
  BY DEF RecordFails
<1>2. /\ Pending /\ Types /\ at \in Dir /\ store = at /\ at = Target
      /\ op.was.rev + 1 \in Nat /\ op.kind \in {"move", "roots"}
      /\ op.kind = "roots" => Source = Target /\ op.done = {}
  BY <1>1, RecordAt, UnderWay DEF Pending
<1>3. Grown(at)
  BY <1>1, <1>2, RecordsTyped, UnwrittenGrows
<1>4. /\ disk' \in Disks
      /\ \A d \in Dir, a \in Artifacts :
            d # Target \/ a # "sessions" => disk'[d][a] = disk[d][a]
  BY <1>2, <1>3, GrownFacts
<1>5. Types'
  BY <1>1, <1>2, <1>4, SpentTyped DEF Types, Operations
<1>6. Remembered'
  BY <1>1, <1>2, <1>3, GrownRemembered
<1>7. op.rest = {} /\ ~ op.error /\ (op.kind = "move" => "sessions" \in op.done)
  BY <1>1 DEF MoveInv, Steps
<1>8. Steps'
  BY <1>1, <1>2, <1>7 DEF Steps, Done
<1>9. Source' = Source /\ Target' = Target
  BY <1>1 DEF Source, Target
<1>10. Backed'
  BY <1>1, <1>2, <1>4, <1>9, BackedStays DEF Artifacts
<1>11. Exact'
  <2> SUFFICES ASSUME ~ split, NEW d \in Dir, NEW a \in Artifacts
               PROVE  disk'[d][a] = Expected(d, a)' \/ (a = "sessions" /\ d = LogAt')
    BY <1>1, <1>7 DEF Exact
  <2>1. LogAt' = LogAt /\ LogAt = Target /\ Expected(d, a)' = Expected(d, a)
    BY <1>1, <1>2, <1>7, <1>9 DEF LogAt, Expected
  <2>2. disk[d][a] = Expected(d, a) \/ (a = "sessions" /\ d = LogAt)
    BY <1>2, <1>7 DEF MoveInv, Exact
  <2>. QED BY <1>4, <2>1, <2>2
<1>12. Together'
  BY <1>1, <1>2, <1>9 DEF MoveInv, Together, Alone, Done
<1>13. NoRecordLost'
  BY <1>1, <1>2, <1>3, NotRewriting, GrownKept DEF MoveInv
<1>14. report' = "none"
  BY <1>1, <1>2, UnderWay
<1>. QED BY <1>5, <1>6, <1>8, <1>10, <1>11, <1>12, <1>13, <1>14, Silent DEF MoveInv

LEMMA RewriteLogStep == ASSUME MoveInv, RewriteLog PROVE MoveInv'
<1>1. /\ pc = "rewrite" /\ Put(op.was.store, "sessions", <<>>) /\ pc' = "bytes"
      /\ UNCHANGED <<at, store, rev, op, report, spent, before, kept, split, wiped>>
  BY DEF RewriteLog
<1>2. Pending /\ Types /\ disk \in Disks /\ "sessions" \in Artifacts /\ Source \in Dir
      /\ Put(Source, "sessions", <<>>)
  BY <1>1, UnderWay DEF Pending, MoveInv, Artifacts
<1>3. <<>> \in Files
  <2>1. <<>> \in Seq(Records)
    OBVIOUS
  <2>. QED BY <2>1 DEF Files
<1>4. /\ disk' \in Disks
      /\ \A d \in Dir, a \in Artifacts :
            d # Source \/ a # "sessions" => disk'[d][a] = disk[d][a]
  BY <1>2, <1>3, PutFacts
<1>5. Types'
  BY <1>1, <1>2, <1>4 DEF Types, Operations
<1>6. Source' = Source /\ Target' = Target
  BY <1>1 DEF Source, Target
<1>7. Remembered'
  <2>1. Remembered
    BY DEF MoveInv
  <2>2. \A d \in Dir \ {Source, Target}, a \in Artifacts : disk'[d][a] = before.disk[d][a]
    BY <1>2, <1>4, <2>1 DEF Remembered
  <2>. QED BY <1>1, <1>2, <1>6, <2>1, <2>2 DEF Remembered
<1>8. op.rest = {} /\ ~ op.error /\ op.done = {}
  BY <1>1 DEF MoveInv, Steps
<1>9. Steps'
  BY <1>1, <1>8 DEF Steps, Done
<1>10. Backed'
  BY <1>1, <1>2, <1>4, <1>6, BackedStays
<1>11. Exact'
  <2> SUFFICES ASSUME ~ split, NEW d \in Dir, NEW a \in Artifacts
               PROVE  disk'[d][a] = Expected(d, a)' \/ (a = "sessions" /\ d = LogAt')
    BY <1>1, <1>8 DEF Exact
  <2>1. LogAt' = LogAt /\ LogAt = Source /\ Expected(d, a)' = Expected(d, a)
    BY <1>1, <1>6, <1>8 DEF LogAt, Expected
  <2>2. disk[d][a] = Expected(d, a) \/ (a = "sessions" /\ d = LogAt)
    BY <1>2, <1>8 DEF MoveInv, Exact
  <2>. QED BY <1>4, <2>1, <2>2
<1>12. Together'
  BY <1>1, <1>2, <1>6 DEF MoveInv, Together, Alone, Done
<1>13. NoRecordLost'
  <2>1. BeingRewritten("sessions")' /\ Excused /\ <<>> \in Seq(Records) /\ kept' = kept
    BY <1>1, NotRewriting DEF BeingRewritten
  <2>. QED BY <1>2, <2>1, PutKept DEF MoveInv
<1>14. report' = "none"
  BY <1>1, <1>2, UnderWay
<1>. QED BY <1>5, <1>7, <1>9, <1>10, <1>11, <1>12, <1>13, <1>14, Silent DEF MoveInv

-----------------------------------------------------------------------------
(* The files on their way. *)

\* A file that moves where there is none of its kind: no record is lost.
LEMMA MovedKept ==
    ASSUME Types, NoRecordLost, Excused, NEW a \in Artifacts, NEW d \in Dir,
           NEW e \in Dir \ {d}, disk' = Moved(a, d, e), disk[e][a] = Missing,
           UNCHANGED kept
    PROVE  NoRecordLost'
<1> SUFFICES ASSUME NEW r \in kept
             PROVE  \/ \E c \in Dir : r \in ToSet(Bytes(disk'[c][r.a]))
                    \/ \A c \in Dir : r \notin ToSet(Bytes(disk[c][r.a]))
  BY StillKept
<1>1. r.a \in Artifacts /\ disk \in Disks
  BY DEF Types, Records
<1>3. ASSUME NEW c \in Dir, r \in ToSet(Bytes(disk[c][r.a]))
      PROVE  \E b \in Dir : r \in ToSet(Bytes(disk'[b][r.a]))
  <2>1. CASE r.a # a \/ c \notin {d, e}
    BY <1>1, <1>3, <2>1, MovedFacts
  <2>2. CASE r.a = a /\ c = d
    BY <1>1, <1>3, <2>2, MovedFacts
  <2>3. CASE r.a = a /\ c = e
    <3>1. ToSet(Bytes(disk[c][r.a])) = {}
      BY <2>3 DEF Bytes, ToSet
    <3>. QED BY <1>3, <3>1
  <2>. QED BY <2>1, <2>2, <2>3
<1>. QED BY <1>3

\* What is remembered stays so while files move between source and target.
LEMMA MovedRemembered ==
    ASSUME MoveInv, Pending, UNCHANGED before, op' \in Changes,
           op'.kind = op.kind, op'.to = op.to, op'.was = op.was, op'.bytes = op.bytes,
           op.kind = "move", op'.rest \cap op'.done = {},
           op'.rest \cup op'.done \subseteq op.rest \cup op.done,
           \A d \in Dir \ {Source, Target}, a \in Artifacts : disk'[d][a] = disk[d][a]
    PROVE  Remembered'
<1>1. Source' = Source /\ Target' = Target
  BY DEF Source, Target
<1>2. Remembered
  BY DEF MoveInv
<1>. QED BY <1>1, <1>2 DEF Remembered

\* While the files move, the target has none of those that remain.
LEMMA FilesAt ==
    ASSUME MoveInv, pc = "files"
    PROVE  /\ Pending /\ Types /\ disk \in Disks /\ op \in Changes
           /\ op.kind = "move" /\ Source \in Dir /\ Target \in Dir \ {Source}
           /\ at = Source /\ ~ op.error
           /\ \A a \in Artifacts : disk[Source][a] # Missing => a \in op.rest
           /\ \A a \in op.rest : disk[Target][a] = Missing
           /\ "sessions" \in op.rest \cup op.done /\ op.rest \cap op.done = {}
           /\ op.rest \subseteq Artifacts
<1>1. Pending /\ Types /\ Remembered /\ Steps
  BY DEF Pending, MoveInv
<1>2. op.rest \subseteq Artifacts
  BY <1>1 DEF Remembered, Changes
<1>. QED BY <1>1, <1>2, UnderWay DEF Types, Remembered, Steps, There

LEMMA MoveFileStep == ASSUME MoveInv, MoveFile PROVE MoveInv'
<1>1. PICK a \in Artifacts : /\ First(a, op.rest)
                             /\ disk' = Moved(a, op.was.at, op.to)
                             /\ op' = [op EXCEPT !.done = @ \cup {a}, !.rest = @ \ {a}]
  BY DEF MoveFile
<1>2. /\ pc = "files"
      /\ UNCHANGED <<pc, at, store, rev, report, spent, before, kept, split, wiped>>
  BY DEF MoveFile
<1>3. /\ Pending /\ Types /\ disk \in Disks /\ op \in Changes
      /\ op.kind = "move" /\ Source \in Dir /\ Target \in Dir \ {Source}
      /\ at = Source /\ ~ op.error
      /\ \A b \in Artifacts : disk[Source][b] # Missing => b \in op.rest
      /\ \A b \in op.rest : disk[Target][b] = Missing
      /\ "sessions" \in op.rest \cup op.done /\ op.rest \cap op.done = {}
      /\ op.rest \subseteq Artifacts
  BY <1>2, FilesAt
<1>4. disk' = Moved(a, Source, Target) /\ a \in op.rest
  BY <1>1 DEF Source, Target, First
<1>5. /\ disk' \in Disks /\ disk'[Source][a] = Missing
      /\ disk'[Target][a] = disk[Source][a]
      /\ \A c \in Dir, b \in Artifacts :
            b # a \/ c \notin {Source, Target} => disk'[c][b] = disk[c][b]
  BY <1>3, <1>4, MovedFacts
<1>6. /\ op' \in Changes /\ op'.kind = op.kind /\ op'.to = op.to /\ op'.was = op.was
      /\ op'.bytes = op.bytes /\ op'.error = op.error
      /\ op'.done = op.done \cup {a} /\ op'.rest = op.rest \ {a}
  BY <1>1, <1>3 DEF Changes
<1>7. Source' = Source /\ Target' = Target
  BY <1>6 DEF Source, Target
<1>8. Types'
  BY <1>2, <1>3, <1>5 DEF Types
<1>9. Remembered'
  BY <1>2, <1>3, <1>4, <1>5, <1>6, MovedRemembered
<1>10. Steps'
  BY <1>2, <1>3, <1>4, <1>5, <1>6, <1>7 DEF Steps, There, Done
<1>11. Backed'
  BY <1>2, <1>3, <1>5, <1>6, <1>7, BackedStays DEF Artifacts
<1>12. Exact'
  <2> SUFFICES ASSUME ~ split, NEW d \in Dir, NEW b \in Artifacts
               PROVE  disk'[d][b] = Expected(d, b)'
    BY <1>2 DEF Exact
  <2>1. disk[d][b] = Expected(d, b) /\ disk[d][a] = Expected(d, a)
        /\ disk[Source][a] = Expected(Source, a)
    BY <1>3, <1>4 DEF MoveInv, Exact
  <2>2. before' = before
    BY <1>2
  <2>3. CASE b = a
    <3>1. disk[Source][a] = before.disk[Source][a]
      BY <1>3, <1>4, <2>1 DEF Expected
    <3>2. d \notin {Source, Target} => disk[d][a] = before.disk[d][a]
      BY <2>1 DEF Expected
    <3>. QED BY <1>3, <1>5, <1>6, <1>7, <2>2, <2>3, <3>1, <3>2 DEF Expected
  <2>4. CASE b # a
    BY <1>5, <1>6, <1>7, <2>1, <2>2, <2>4 DEF Expected
  <2>. QED BY <2>3, <2>4
<1>13. Together'
  BY <1>2, <1>3, <1>7 DEF MoveInv, Together, Alone, Done
<1>14. NoRecordLost'
  BY <1>2, <1>3, <1>4, NotRewriting, MovedKept DEF MoveInv
<1>15. report' = "none"
  BY <1>2, <1>3, UnderWay
<1>. QED BY <1>8, <1>9, <1>10, <1>11, <1>12, <1>13, <1>14, <1>15, Silent DEF MoveInv

LEMMA MoveFileFailsStep == ASSUME MoveInv, MoveFileFails PROVE MoveInv'
<1>1. PICK a \in Artifacts, late \in BOOLEAN :
          /\ First(a, op.rest)
          /\ disk' = IF late THEN Moved(a, op.was.at, op.to) ELSE disk
          /\ split' = (split \/ late)
  BY DEF MoveFileFails
<1>2. /\ pc = "files" /\ pc' = "undo" /\ Troubled
      /\ UNCHANGED <<at, store, rev, op, report, before, kept, wiped>>
  BY DEF MoveFileFails
<1>3. /\ Pending /\ Types /\ disk \in Disks /\ op \in Changes
      /\ op.kind = "move" /\ Source \in Dir /\ Target \in Dir \ {Source}
      /\ \A b \in op.rest : disk[Target][b] = Missing
      /\ op.rest \cap op.done = {}
  BY <1>2, FilesAt
<1>4. disk' = (IF late THEN Moved(a, Source, Target) ELSE disk) /\ a \in op.rest
  BY <1>1 DEF Source, Target, First
<1>5. /\ disk' \in Disks
      /\ \A c \in Dir, b \in Artifacts : c \notin {Source, Target} => disk'[c][b] = disk[c][b]
  <2>1. CASE late
    BY <1>3, <1>4, <2>1, MovedFacts
  <2>2. CASE ~ late
    BY <1>3, <1>4, <2>2
  <2>. QED BY <2>1, <2>2
<1>6. Source' = Source /\ Target' = Target
  BY <1>2 DEF Source, Target
<1>7. Types'
  <2>1. split' \in BOOLEAN
    BY <1>1, <1>3 DEF Types
  <2>. QED BY <1>2, <1>3, <1>5, <2>1, SpentTyped DEF Types, Operations
<1>8. Remembered'
  BY <1>2, <1>3, <1>5, MovedRemembered
<1>9. Steps'
  BY <1>2, <1>3 DEF Steps, Done
<1>10. Backed'
  BY <1>2, <1>3, <1>5, <1>6, BackedStays DEF Artifacts
<1>11. Exact'
  <2> SUFFICES ASSUME ~ split', ~ op.error, NEW d \in Dir, NEW b \in Artifacts
               PROVE  disk'[d][b] = Expected(d, b)'
    BY <1>2 DEF Exact
  <2>1. ~ split /\ disk' = disk
    BY <1>1, <1>4
  <2>2. Expected(d, b)' = Expected(d, b)
    BY <1>2, <1>6 DEF Expected
  <2>3. disk[d][b] = Expected(d, b)
    BY <1>3, <1>4, <2>1 DEF MoveInv, Exact
  <2>. QED BY <2>1, <2>2, <2>3
<1>12. Together'
  <2>1. ~ split' => ~ split
    BY <1>1
  <2>. QED BY <1>2, <1>3, <1>6, <2>1 DEF MoveInv, Together, Alone, Done
<1>13. NoRecordLost'
  <2>1. CASE late
    BY <1>2, <1>3, <1>4, <2>1, NotRewriting, MovedKept DEF MoveInv
  <2>2. CASE ~ late
    BY <1>2, <1>3, <1>4, <2>2, NotRewriting, SameKept DEF MoveInv
  <2>. QED BY <2>1, <2>2
<1>14. report' = "none"
  BY <1>2, <1>3, UnderWay
<1>. QED BY <1>7, <1>8, <1>9, <1>10, <1>11, <1>12, <1>13, <1>14, Silent DEF MoveInv

\* Only the process changes: it goes to the target.
LEMMA CommitHolds ==
    ASSUME MoveInv, pc = "files", op.rest = {}, at' = op.to, store' = op.to,
           rev' = op.was.rev + 1, pc' \in {"record", "undo"},
           UNCHANGED <<disk, op, report, before, kept, split, wiped>>,
           spent' \in [records : Nat, changes : Nat, trouble : Nat]
    PROVE  MoveInv'
<1>1. /\ Pending /\ Types /\ op.kind = "move" /\ Target \in Dir /\ ~ op.error
      /\ \A a \in Artifacts : disk[Source][a] # Missing => a \in op.rest
      /\ "sessions" \in op.rest \cup op.done
  BY FilesAt
<1>2. op.was.rev + 1 \in Nat
  BY <1>1, UnderWay
<1>3. Source' = Source /\ Target' = Target /\ at' = Target /\ store' = Target
  BY DEF Source, Target
<1>4. Types'
  BY <1>1, <1>2, <1>3 DEF Types, Operations
<1>5. Remembered'
  BY <1>1, <1>3 DEF MoveInv, Remembered
<1>6. Steps'
  BY <1>1, <1>3 DEF Steps, There, Done
<1>7. Backed'
  BY <1>1, <1>3 DEF MoveInv, Backed
<1>8. Exact'
  <2>1. LogAt' = LogAt /\ \A d \in Dir, a \in Artifacts : Expected(d, a)' = Expected(d, a)
    BY <1>3 DEF LogAt, Expected
  <2>. QED BY <1>1, <2>1 DEF MoveInv, Exact
<1>9. Together'
  BY <1>1, <1>3 DEF MoveInv, Together, Alone, Done
<1>10. NoRecordLost'
  BY <1>1, NotRewriting, SameKept DEF MoveInv
<1>11. report' = "none"
  BY <1>1, UnderWay
<1>. QED BY <1>4, <1>5, <1>6, <1>7, <1>8, <1>9, <1>10, <1>11, Silent DEF MoveInv

LEMMA CommitStep == ASSUME MoveInv, Commit \/ CommitFails PROVE MoveInv'
<1>1. Types /\ spent \in [records : Nat, changes : Nat, trouble : Nat]
  BY DEF MoveInv, Types
<1>2. CASE Commit
  BY <1>1, <1>2, CommitHolds DEF Commit
<1>3. CASE CommitFails
  BY <1>1, <1>3, SpentTyped, CommitHolds DEF CommitFails
<1>. QED BY <1>2, <1>3

LEMMA UndoFileStep == ASSUME MoveInv, UndoFile PROVE MoveInv'
<1>1. PICK a \in Artifacts :
       /\ Final(a, op.done)
       /\ \/ /\ There(op.to, a) /\ ~ There(op.was.at, a)
             /\ disk' = Moved(a, op.to, op.was.at)
             /\ TakenBack(a, FALSE)
             /\ UNCHANGED spent
          \/ /\ ~ There(op.to, a) \/ There(op.was.at, a)
             /\ TakenBack(a, TRUE)
             /\ UNCHANGED <<disk, spent>>
          \/ /\ Trouble /\ Troubled
             /\ There(op.to, a) /\ ~ There(op.was.at, a)
             /\ disk' \in {disk, Moved(a, op.to, op.was.at)}
             /\ TakenBack(a, TRUE)
  BY DEF UndoFile
<1>2. /\ pc = "undo"
      /\ UNCHANGED <<pc, at, store, rev, report, before, kept, split, wiped>>
  BY DEF UndoFile
<1>3. /\ Pending /\ Types /\ disk \in Disks /\ op \in Changes
      /\ op.kind = "move" /\ Source \in Dir /\ Target \in Dir \ {Source}
      /\ op.rest \cap op.done = {} /\ op.done \subseteq Artifacts /\ a \in op.done
      /\ spent \in [records : Nat, changes : Nat, trouble : Nat]
  <2>1. Pending /\ Types /\ Remembered /\ Steps
    BY <1>2 DEF Pending, MoveInv
  <2>2. a \in op.done
    BY <1>1 DEF Final
  <2>. QED BY <1>2, <2>1, <2>2, UnderWay DEF Types, Remembered, Steps, Changes
<1>4. PICK error \in BOOLEAN :
         /\ TakenBack(a, error)
         /\ \/ disk' = disk /\ error
            \/ disk' = Moved(a, Target, Source) /\ disk[Source][a] = Missing
         /\ Troubled \/ UNCHANGED spent
  BY <1>1 DEF Source, Target, There
<1>5. /\ disk' \in Disks
      /\ \A c \in Dir, b \in Artifacts : c \notin {Source, Target} => disk'[c][b] = disk[c][b]
  <2>1. CASE disk' = disk
    BY <1>3, <2>1
  <2>2. CASE disk' = Moved(a, Target, Source)
    BY <1>3, <2>2, MovedFacts
  <2>. QED BY <1>4, <2>1, <2>2
<1>6. /\ op' \in Changes /\ op'.kind = op.kind /\ op'.to = op.to /\ op'.was = op.was
      /\ op'.bytes = op.bytes /\ op'.rest = op.rest
      /\ op'.done = op.done \ {a} /\ op'.error = (op.error \/ error)
  BY <1>3, <1>4 DEF TakenBack, Changes
<1>7. Source' = Source /\ Target' = Target
  BY <1>6 DEF Source, Target
<1>8. Types'
  BY <1>2, <1>3, <1>4, <1>5, SpentTyped DEF Types
<1>9. Remembered'
  BY <1>2, <1>3, <1>5, <1>6, MovedRemembered
<1>10. Steps'
  BY <1>2, <1>3, <1>6 DEF Steps, Done
<1>11. Backed'
  BY <1>2, <1>3, <1>5, <1>6, <1>7, BackedStays DEF Artifacts
<1>12. Exact'
  <2> SUFFICES ASSUME ~ split, ~ op'.error, NEW d \in Dir, NEW b \in Artifacts
               PROVE  \/ disk'[d][b] = Expected(d, b)'
                      \/ b = "sessions" /\ op.rest = {} /\ d = LogAt'
    BY <1>2, <1>6 DEF Exact
  <2>1. ~ error /\ ~ op.error
    BY <1>6
  <2>2. /\ disk'[Target][a] = Missing /\ disk'[Source][a] = disk[Target][a]
        /\ \A c \in Dir, e \in Artifacts :
              e # a \/ c \notin {Source, Target} => disk'[c][e] = disk[c][e]
    BY <1>3, <1>4, <2>1, MovedFacts
  <2>3. \A c \in Dir, e \in Artifacts :
           \/ disk[c][e] = Expected(c, e)
           \/ e = "sessions" /\ op.rest = {} /\ c = LogAt
    BY <1>3, <2>1 DEF MoveInv, Exact
  <2>4. before' = before /\ before.disk[Target][a] = Missing
    BY <1>2, <1>3 DEF MoveInv, Remembered
  <2>5. CASE b # a
    <3>1. Expected(d, b)' = Expected(d, b) /\ (b = "sessions" => LogAt' = LogAt)
      BY <1>6, <1>7, <2>4, <2>5 DEF Expected, LogAt
    <3>. QED BY <2>2, <2>3, <2>5, <3>1
  <2>6. CASE b = a /\ d = Target
    BY <1>3, <1>6, <1>7, <2>2, <2>4, <2>6 DEF Expected
  <2>7. CASE b = a /\ d = Source
    <3>1. Expected(d, b)' = before.disk[Source][a] /\ Expected(Target, a) = before.disk[Source][a]
      BY <1>3, <1>6, <1>7, <2>4, <2>7 DEF Expected
    <3>2. a = "sessions" => LogAt' = Source
      BY <1>6, <1>7 DEF LogAt
    <3>3. \/ disk[Target][a] = before.disk[Source][a]
          \/ a = "sessions" /\ op.rest = {}
      BY <1>3, <2>3, <3>1
    <3>. QED BY <2>2, <2>7, <3>1, <3>2, <3>3
  <2>8. CASE b = a /\ d \notin {Source, Target}
    <3>1. Expected(d, b)' = before.disk[d][b] /\ Expected(d, b) = before.disk[d][b]
      BY <1>6, <1>7, <2>4, <2>8 DEF Expected
    <3>2. LogAt \in {Source, Target}
      BY DEF LogAt
    <3>. QED BY <2>2, <2>3, <2>8, <3>1, <3>2
  <2>. QED BY <2>5, <2>6, <2>7, <2>8
<1>13. Together'
  BY <1>2, <1>3, <1>7 DEF MoveInv, Together, Alone, Done
<1>14. NoRecordLost'
  <2>1. CASE disk' = disk
    BY <1>2, <1>3, <2>1, NotRewriting, SameKept DEF MoveInv
  <2>2. CASE disk' = Moved(a, Target, Source) /\ disk[Source][a] = Missing
    BY <1>2, <1>3, <2>2, NotRewriting, MovedKept DEF MoveInv
  <2>. QED BY <1>4, <2>1, <2>2
<1>15. report' = "none"
  BY <1>2, <1>3, UnderWay
<1>. QED BY <1>8, <1>9, <1>10, <1>11, <1>12, <1>13, <1>14, <1>15, Silent DEF MoveInv

LEMMA UndoneStepOn == ASSUME MoveInv, Undone, pc' # "idle" PROVE MoveInv'
<1>1. /\ pc = "undo" /\ op.done = {} /\ ~ op.error /\ op.rest = {} /\ pc' = "rewrite"
      /\ UNCHANGED <<disk, at, store, rev, op, report, spent, before, kept, split, wiped>>
  BY DEF Undone, AnswerTorn, Answer
<1>2. Pending /\ Types
  BY <1>1 DEF Pending, MoveInv
<1>3. Source' = Source /\ Target' = Target
  BY <1>1 DEF Source, Target
<1>4. Types' /\ Remembered' /\ Backed'
  BY <1>1, <1>2, <1>3 DEF MoveInv, Types, Operations, Remembered, Backed
<1>9. NoRecordLost'
  BY <1>1, <1>2, NotRewriting, SameKept DEF MoveInv
<1>5. Steps'
  BY <1>1 DEF Steps, Done
<1>6. Exact'
  <2>1. LogAt' = LogAt /\ \A d \in Dir, a \in Artifacts : Expected(d, a)' = Expected(d, a)
    BY <1>1, <1>3 DEF LogAt, Expected
  <2>. QED BY <1>1, <1>2, <2>1 DEF MoveInv, Exact
<1>7. Together'
  BY <1>1, <1>2, <1>3 DEF MoveInv, Together, Alone, Done
<1>8. report' = "none"
  BY <1>1, <1>2, UnderWay
<1>. QED BY <1>4, <1>5, <1>6, <1>7, <1>8, <1>9, Silent DEF MoveInv

\* The process dies.
LEMMA StopStep == ASSUME MoveInv, Stop PROVE MoveInv'
<1>1. /\ pc # "down" /\ Troubled /\ pc' = "down" /\ report' = "none"
      /\ \/ UNCHANGED disk
         \/ /\ pc \in {"idle", "record", "evidence", "announce"}
            /\ Put(store, "sessions", Append(Log(store), Half))
      /\ split' = (split \/ pc \in {"files", "undo"})
      /\ wiped' = wiped \cup {a \in Artifacts : BeingRewritten(a)}
      /\ UNCHANGED <<at, store, rev, kept>>
  BY DEF Stop, Forget
<1>2. /\ Types /\ store \in Dir /\ store = at /\ split' \in BOOLEAN /\ pc \in Operations
      /\ wiped' \subseteq {"sessions", "todos"} /\ Excused
  BY <1>1 DEF MoveInv, Types, BeingRewritten, Excused
<1>3. Grown(at)
  BY <1>1, <1>2, RecordsTyped, Longer DEF Grown
<1>4. Types'
  BY <1>1, <1>2, <1>3, SpentTyped, GrownFacts DEF Types, Operations
<1>5. NoRecordLost'
  BY <1>1, <1>2, <1>3, GrownKept DEF MoveInv
<1>6. ASSUME ~ split' PROVE \E h \in Dir : Alone(disk', h)
  <2>1. ~ split /\ pc \notin {"files", "undo"}
    BY <1>1, <1>6
  <2>2. CASE pc \in {"idle", "todos", "saving", "patches", "record", "evidence", "announce"}
    BY <1>2, <1>3, <2>1, <2>2, AtHome, GrownAlone
  <2>3. CASE pc \in {"rewrite", "bytes"}
    <3>1. Pending /\ op.done = {} /\ ~ op.error /\ disk' = disk
      BY <1>1, <2>3 DEF Pending, MoveInv, Steps
    <3>2. Source \in Dir /\ Alone(before.disk, Source)
      BY <2>1, <3>1, UnderWay DEF MoveInv, Together
    <3>3. LogAt = Source
      BY <3>1 DEF LogAt
    <3>4. ASSUME NEW d \in Dir, NEW a \in Artifacts PROVE Expected(d, a) = before.disk[d][a]
      BY <3>1 DEF Expected
    <3>5. \A d \in Dir, a \in Artifacts :
             disk[d][a] = before.disk[d][a] \/ (a = "sessions" /\ d = Source)
      BY <2>1, <3>1, <3>3, <3>4 DEF MoveInv, Exact
    <3>. QED BY <3>1, <3>2, <3>5 DEF Alone
  <2>. QED BY <1>1, <1>2, <2>1, <2>2, <2>3 DEF Operations
<1>. QED BY <1>1, <1>4, <1>5, <1>6, Silent, AtRest

-----------------------------------------------------------------------------
(* The theorems. *)

LEMMA InitHolds == ASSUME Init PROVE MoveInv
<1>1. /\ pc = "idle" /\ at \in Dir /\ store = at /\ rev = 0
      /\ disk = [d \in Dir |-> [a \in Artifacts |->
                    IF d = at /\ a = "sessions" THEN <<Note(a, 0)>> ELSE Missing]]
      /\ report = "none" /\ spent = [records |-> 0, changes |-> 0, trouble |-> 0]
      /\ kept = {Note("sessions", 0)} /\ split = FALSE /\ wiped = {}
  BY DEF Init
<1>2. Note("sessions", 0) \in Records /\ Note("sessions", 0).a = "sessions"
      /\ "sessions" \in Artifacts
  BY RecordsTyped DEF Artifacts
<1>3. /\ <<Note("sessions", 0)>> \in Seq(Records)
      /\ Note("sessions", 0) \in ToSet(<<Note("sessions", 0)>>)
  BY <1>2 DEF ToSet
<1>4. /\ disk \in Disks /\ disk[at]["sessions"] = <<Note("sessions", 0)>>
      /\ \A d \in Dir \ {at}, a \in Artifacts : disk[d][a] = Missing
  BY <1>1, <1>2, <1>3 DEF Disks, Files
<1>5. Types
  BY <1>1, <1>2, <1>4 DEF Types, Operations
<1>6. NoRecordLost
  BY <1>1, <1>2, <1>3, <1>4, MoveAssumption DEF NoRecordLost, Bytes
<1>7. ~ Pending /\ ~ Done
  BY <1>1 DEF Pending, Done
<1>8. Remembered /\ Backed /\ Exact /\ Steps
  BY <1>1, <1>7 DEF Remembered, Backed, Exact, Steps
<1>9. Together /\ Told /\ ReportIsTrue
  BY <1>1, <1>4, <1>7 DEF Together, Told, ReportIsTrue, Alone
<1>. QED BY <1>5, <1>6, <1>8, <1>9 DEF MoveInv

LEMMA MoveStep == ASSUME MoveInv, [Next]_vars PROVE MoveInv'
<1>1. CASE Turn \/ SaveTodos \/ TodosFail \/ WriteTodos \/ WriteTodosFails \/ AppendPatch
  BY <1>1, TurnStep, SaveTodosStep, TodosFailStep, WriteTodosStep, WriteTodosFailsStep,
     AppendPatchStep
<1>2. ASSUME NEW d \in Dir, Move(d) \/ MoveRefused(d) \/ Start(d) PROVE MoveInv'
  BY <1>2, MoveOpens, MoveRefusedStep, StartStep
<1>3. CASE TurnFails \/ ChangeRoots \/ ChangeRootsEscapes \/ RecordChange \/ RecordFails
  BY <1>3, TurnFailsStep, ChangeRootsStep, ChangeRootsEscapesStep, RecordChangeStep,
     RecordFailsStep
<1>4. CASE RewriteLog \/ RewriteLogFails \/ WriteBytes \/ WriteBytesFails
  BY <1>4, RewriteLogStep, RewriteLogFailsStep, WriteBytesStep, WriteBytesFailsStep
<1>5. CASE DropEvidence \/ DropEvidenceFails \/ RefreshFails \/ Announce
  BY <1>5, DropEvidenceStep, DropEvidenceFailsStep, RefreshFailsStep, AnnounceStep
<1>6. CASE MoveFile \/ MoveFileFails \/ Commit \/ CommitFails \/ UndoFile
  BY <1>6, MoveFileStep, MoveFileFailsStep, CommitStep, UndoFileStep
<1>7. CASE Undone
  BY <1>7, UndoneIdleStep, UndoneStepOn
<1>8. CASE Quit \/ Stop
  BY <1>8, QuitStep, StopStep
<1>9. CASE UNCHANGED vars
  BY <1>9 DEF vars, MoveInv, Types, Remembered, Steps, Backed, Exact, Expected, LogAt, Together,
     Alone, Told, Saved, BeingRewritten, NoRecordLost, ReportIsTrue, Pending, Done, Source, Target, There, Log,
     Process, Roots, Record
<1>. QED BY <1>1, <1>2, <1>3, <1>4, <1>5, <1>6, <1>7, <1>8, <1>9 DEF Next

\* What a move, a change of the roots and the process remember of each other,
\* and what the files are at each step of them: migrate_session_artifacts,
\* rollback_session_artifacts, WorkspaceLifecycle.move_workspace and
\* record_workspace_roots_change never leave it.
THEOREM MoveInvariance == Spec => []MoveInv
<1>1. Init => MoveInv
  BY InitHolds
<1>2. MoveInv /\ [Next]_vars => MoveInv'
  BY MoveStep
<1>. QED BY <1>1, <1>2, PTL DEF Spec

\* What the user is told of a move or a change of the roots is what happened
\* (WorkspaceLifecycle.move_workspace).
THEOREM ReportsAreTrue == Spec => []ReportIsTrue
<1>1. MoveInv => ReportIsTrue
  BY DEF MoveInv
<1>. QED BY <1>1, MoveInvariance, PTL

\* No record that was written without an error is lost, but for those of a
\* log that is cut while its old bytes are written back, and of a todo list
\* that is cut while it is written (migrate_session_artifacts,
\* rollback_session_artifacts, record_workspace_roots_change, _save_todos).
THEOREM RecordsSurvive == Spec => []NoRecordLost
<1>1. MoveInv => NoRecordLost
  BY DEF MoveInv
<1>. QED BY <1>1, MoveInvariance, PTL

\* The files of the session are together, where the process is, whenever no
\* move is under way (migrate_session_artifacts, rollback_session_artifacts).
THEOREM FilesStayTogether == Spec => []NotSplit
<1>1. MoveInv => NotSplit
  <2> SUFFICES ASSUME MoveInv, pc \in {"idle", "down"}, ~ split
               PROVE  \E home \in Dir :
                         /\ \A d \in Dir \ {home}, a \in Artifacts : disk[d][a] = Missing
                         /\ pc = "idle" => home = at /\ home = store
    BY DEF NotSplit, There
  <2>1. at \in Dir /\ store = at
    BY DEF MoveInv, Types
  <2>2. CASE pc = "idle"
    BY <2>1, <2>2 DEF MoveInv, Together, Alone
  <2>3. CASE pc = "down"
    BY <2>3 DEF MoveInv, Together, Alone
  <2>. QED BY <2>2, <2>3
<1>. QED BY <1>1, MoveInvariance, PTL

-----------------------------------------------------------------------------
(* SessionHistory. *)

Texts   == {"user", "steer", "summary", "calls", "draft", "result", "answer", "settlement", "half"}
Msg     == [t : Texts, run : Nat, id : Nat, k : Nat, form : {"plain", "live", "cut"}]
Line    == Msg \cup [t : {"checkpoint"}, msgs : Seq(Msg)]
Replays == [msgs : Seq(Msg), drafts : SUBSET Nat, settled : Seq(Msg), bad : SUBSET Nat, seen : Seq(Line)]

\* What a process makes of the log, before it looks which answers to keep.
Past == Replayed(log)

HistoryTypeOK ==
    /\ stage \in {"idle", "asking", "model", "logging", "batch", "joining", "answer", "settle",
                  "settling", "failed", "down", "refused"}
    /\ live \in Seq(Msg) /\ log \in Seq(Line)
    /\ run \in Nat /\ replies \in Nat /\ next \in Nat \ {0} /\ latest \in Nat
    /\ batch \in [id : Nat, n : Nat, done : Nat]
    /\ counts \in [compactions : Nat, troubles : Nat]
    /\ torn \in [crash : Nat, signal : Nat, loads : Nat]
    /\ told \in Seq({"nothing", "answer", "stopped"}) /\ Len(told) = run
    /\ gone \subseteq Nat
    /\ Past \in Replays

Dead    == stage \in {"down", "refused"}
Asking  == stage \in {"asking", "model", "logging", "batch", "joining", "answer", "settle"}
InRun   == Asking \/ stage = "failed"

\* Where the process is, and what it has there.
Staged ==
    /\ stage \notin {"logging", "batch", "joining"} => batch = NoBatch
    /\ stage \in {"batch", "joining"} => batch.id # 0 /\ latest = 0
    /\ stage = "joining" => batch.done < batch.n
    /\ batch.done <= batch.n
    /\ stage = "logging" =>
         /\ live # <<>>
         /\ \/ batch = NoBatch /\ latest # 0 /\ Last(live) = Draft(latest)
            \/ batch.id # 0 /\ batch.done = 0 /\ latest = 0 /\ Last(live) = Calls(batch.id, batch.n)
    /\ InRun => run # 0 /\ \E m \in ToSet(live) : FromUser(m)
    /\ Dead => live = <<>>
    /\ stage \in {"idle", "asking", "down", "refused"} => latest = 0
    /\ ~ Dead => Unbroken
    /\ torn.crash = 0 => torn.loads = 0

\* A run that has answered has its last draft in the process, and once it is
\* written, in the log.
Drafted ==
    /\ Asking \/ stage = "settling" => (latest # 0 => Draft(latest) \in ToSet(live))
    /\ Asking /\ stage # "logging" => (latest # 0 => latest \in Past.drafts)

\* The results of the calls of s[i] follow it at once, and in order.
ResultAt(s, i, k)  == /\ i + k <= Len(s) /\ IsResult(s[i + k])
                      /\ s[i + k].id = s[i].id /\ s[i + k].k = k
OfCalls(s, j)      == \E i \in DOMAIN s : /\ s[i].t = "calls" /\ s[i].id = s[j].id
                                          /\ s[j].k \in 1..s[i].k /\ j = i + s[j].k
Results(s)         == \A j \in DOMAIN s : IsResult(s[j]) => OfCalls(s, j)
AnsweredBut(s, o)  == \A i \in DOMAIN s : s[i].t = "calls" /\ i # o => \A k \in 1..s[i].k : ResultAt(s, i, k)
Blocks(s)          == Results(s) /\ AnsweredBut(s, 0)
\* ... but those of the last one, of which there are d.
Unfinished(s, d)   == /\ d < Len(s) /\ Results(s) /\ AnsweredBut(s, Len(s) - d)
                      /\ s[Len(s) - d].t = "calls" /\ d <= s[Len(s) - d].k
                      /\ \A k \in 1..d : ResultAt(s, Len(s) - d, k)
InBatch(s, d)      == Unfinished(s, d) /\ s[Len(s) - d].id = batch.id /\ s[Len(s) - d].k = batch.n

LiveShape ==
    torn.signal = 0 /\ torn.loads <= 1 /\ ~ Dead =>
        IF batch.id # 0 THEN InBatch(live, batch.done) ELSE Blocks(live)

LogShape ==
    /\ torn.signal = 0 /\ torn.crash = 0 =>
          IF stage \in {"batch", "joining"}
          THEN InBatch(Past.msgs, IF stage = "joining" THEN batch.done + 1 ELSE batch.done)
          ELSE Blocks(Past.msgs)
    /\ torn.signal = 0 /\ torn.crash # 0 /\ torn.loads = 0 =>
          Dead /\ \E d \in Nat : Unfinished(Past.msgs, d)

\* What a log gives back: no drafts, and answers with their settlements.
Settlements == {e \in ToSet(log) : e.t = "settlement"}
Sourced ==
    /\ ToSet(Past.settled) = Settlements
    /\ \A m \in ToSet(Past.msgs) :
          /\ m.t # "draft"
          /\ m.t = "answer" => [m EXCEPT !.t = "settlement"] \in Settlements

\* A run is settled once, and not before it ends.
Settled ==
    /\ \A i, j \in DOMAIN Past.settled : Past.settled[i].run = Past.settled[j].run => i = j
    /\ \A e \in Settlements : e.run \in 1..run /\ (InRun => e.run # run)
    /\ Past.bad \subseteq {e.run : e \in Settlements}

\* The answers that were told and must not be lost.
Owed == {r \in DOMAIN told : told[r] = "answer" /\ r \notin gone}
AnswerIn(s, r) == \E m \in ToSet(s) : m.t = "answer" /\ m.run = r

Survive ==
    /\ Clean => \A r \in Owed : /\ AnswerIn(Past.msgs, r) /\ r \notin Past.bad
                                /\ ~ Dead => AnswerIn(live, r) \/ (stage = "settling" /\ r = run)
    /\ InRun => run \notin Owed

HistoryInv ==
    /\ HistoryTypeOK /\ Staged /\ Drafted /\ LiveShape /\ LogShape /\ Sourced /\ Settled /\ Survive

-----------------------------------------------------------------------------
(* Induction over the naturals, in the form of sets. *)

\* A set that has 0 and with each number the next one has all of them.
LEMMA Counted ==
  ASSUME NEW S, 0 \in S, \A n \in Nat : n \in S => n + 1 \in S
  PROVE  Nat \subseteq S
<1> SUFFICES ASSUME Nat \ S # {} PROVE FALSE
  OBVIOUS
<1>1. PICK x \in Nat \ S : \A y \in Nat \ S : ~ (<<y, x>> \in OpToRel(<, Nat))
  BY NatLessThanWellFounded, WFMin
<1>2. \A y \in Nat \ S : ~ (y < x)
  BY <1>1 DEF OpToRel
<1>3. x # 0 /\ x \in Nat
  OBVIOUS
<1>4. x - 1 \in Nat /\ x - 1 < x /\ x = (x - 1) + 1
  BY <1>3
<1>. QED BY <1>2, <1>4

-----------------------------------------------------------------------------
(* Filters. *)

\* The filter of the first n messages of s, for each n.
Filter(f, s, S, m) ==
    f = [n \in 0..m |-> IF n = 0 THEN <<>>
                        ELSE IF s[n] \in S THEN Append(f[n - 1], s[n]) ELSE f[n - 1]]

\* The table of the filters of s exists for any length.
LEMMA FilterExists ==
  ASSUME NEW s, NEW S
  PROVE  \A m \in Nat : \E f : Filter(f, s, S, m)
<1> DEFINE T == {m \in Nat : \E f : Filter(f, s, S, m)}
<1>1. 0 \in T
  <2> DEFINE f == [n \in 0..0 |-> <<>>]
  <2>1. Filter(f, s, S, 0)
    BY DEF Filter
  <2>. QED BY <2>1
<1>2. ASSUME NEW m \in Nat, m \in T PROVE m + 1 \in T
  <2>1. PICK f : Filter(f, s, S, m)
    BY <1>2
  <2> DEFINE e == IF s[m + 1] \in S THEN Append(f[m], s[m + 1]) ELSE f[m]
  <2> DEFINE g == [n \in 0..(m + 1) |-> IF n = m + 1 THEN e ELSE f[n]]
  <2> HIDE DEF e
  <2>2. \A n \in 0..m : g[n] = f[n]
    OBVIOUS
  <2>3. \A n \in 0..(m + 1) :
          g[n] = IF n = 0 THEN <<>>
                 ELSE IF s[n] \in S THEN Append(g[n - 1], s[n]) ELSE g[n - 1]
    <3> TAKE n \in 0..(m + 1)
    <3>1. CASE n = m + 1
      BY <2>2, <3>1 DEF e
    <3>2. CASE n # m + 1
      <4>1. n \in 0..m /\ (n # 0 => n - 1 \in 0..m)
        BY <3>2
      <4>2. f[n] = IF n = 0 THEN <<>>
                   ELSE IF s[n] \in S THEN Append(f[n - 1], s[n]) ELSE f[n - 1]
        BY <2>1, <4>1 DEF Filter
      <4>. QED BY <2>2, <4>1, <4>2
    <3>. QED BY <3>1, <3>2
  <2>4. Filter(g, s, S, m + 1)
    BY <2>3 DEF Filter
  <2>. QED BY <2>4
<1>. QED BY <1>1, <1>2, Counted

\* Only is an entry of this table.
LEMMA OnlyIs ==
  ASSUME NEW X, NEW s \in Seq(X), NEW S
  PROVE  \E f : Filter(f, s, S, Len(s)) /\ Only(s, S) = f[Len(s)]
<1> DEFINE F == CHOOSE f : Filter(f, s, S, Len(s))
<1>1. \E f : Filter(f, s, S, Len(s))
  <2>1. Len(s) \in Nat
    OBVIOUS
  <2>. QED BY <2>1, FilterExists
<1>2. Filter(F, s, S, Len(s))
  BY <1>1, Zenon
<1>3. Only(s, S) = F[Len(s)]
  BY Zenon DEF Filter, Only
<1>. QED BY <1>2, <1>3

\* Where the messages of t are in s, of which it has those of the first m that
\* are in S.
Embeds(g, t, s, m, S) ==
    /\ g \in [DOMAIN t -> 1..m]
    /\ \A j \in DOMAIN t : t[j] = s[g[j]] /\ s[g[j]] \in S
    /\ \A i, j \in DOMAIN t : i < j => g[i] < g[j]
    /\ \A i \in 1..m : s[i] \in S => \E j \in DOMAIN t : g[j] = i

\* One more message that passes: the embedding grows with the filter.
LEMMA OneMore ==
  ASSUME NEW X, NEW s \in Seq(X), NEW S, NEW m \in Nat, m + 1 <= Len(s),
         NEW t \in Seq(X), NEW g, Embeds(g, t, s, m, S), s[m + 1] \in S
  PROVE  /\ Append(t, s[m + 1]) \in Seq(X)
         /\ \E h : Embeds(h, Append(t, s[m + 1]), s, m + 1, S)
<1> DEFINE u == Append(t, s[m + 1])
<1> DEFINE h == [j \in DOMAIN u |-> IF j = Len(t) + 1 THEN m + 1 ELSE g[j]]
<1>1. s[m + 1] \in X
  OBVIOUS
<1>2. /\ u \in Seq(X) /\ Len(u) = Len(t) + 1 /\ DOMAIN u = 1..(Len(t) + 1) /\ DOMAIN t = 1..Len(t)
      /\ \A j \in DOMAIN t : u[j] = t[j]
      /\ u[Len(t) + 1] = s[m + 1]
  BY <1>1
<1>10. DOMAIN h = DOMAIN u /\ \A j \in DOMAIN u : h[j] = IF j = Len(t) + 1 THEN m + 1 ELSE g[j]
  OBVIOUS
<1> HIDE DEF u, h
<1>3. \A j \in DOMAIN t : j \in DOMAIN u /\ j # Len(t) + 1 /\ h[j] = g[j] /\ g[j] \in 1..m
  BY <1>2, <1>10 DEF Embeds
<1>4. Len(t) + 1 \in DOMAIN u /\ h[Len(t) + 1] = m + 1
  BY <1>2, <1>10
<1>5. \A j \in DOMAIN u : j \in DOMAIN t \/ j = Len(t) + 1
  BY <1>2
<1>6. h \in [DOMAIN u -> 1..(m + 1)]
  <2>1. h = [j \in DOMAIN u |-> h[j]]
    BY DEF h
  <2>2. \A j \in DOMAIN u : h[j] \in 1..(m + 1)
    BY <1>3, <1>4, <1>5
  <2>. QED BY <2>1, <2>2
<1>7. \A j \in DOMAIN u : u[j] = s[h[j]] /\ s[h[j]] \in S
  BY <1>2, <1>3, <1>4, <1>5 DEF Embeds
<1>8. \A i, j \in DOMAIN u : i < j => h[i] < h[j]
  <2> TAKE i, j \in DOMAIN u
  <2> HAVE i < j
  <2>1. i \in DOMAIN t
    BY <1>2, <1>5
  <2>2. CASE j \in DOMAIN t
    BY <1>3, <2>1, <2>2 DEF Embeds
  <2>3. CASE j = Len(t) + 1
    BY <1>3, <1>4, <2>1, <2>3
  <2>. QED BY <1>5, <2>2, <2>3
<1>9. \A i \in 1..(m + 1) : s[i] \in S => \E j \in DOMAIN u : h[j] = i
  <2> TAKE i \in 1..(m + 1)
  <2> HAVE s[i] \in S
  <2>1. CASE i = m + 1
    BY <1>4, <2>1
  <2>2. CASE i \in 1..m
    <3>1. PICK j \in DOMAIN t : g[j] = i
      BY <2>2 DEF Embeds
    <3>. QED BY <1>3, <3>1
  <2>. QED BY <2>1, <2>2
<1>11. Embeds(h, u, s, m + 1, S)
  BY <1>6, <1>7, <1>8, <1>9 DEF Embeds
<1>. QED BY <1>2, <1>11 DEF u

\* A filter has what it lets through, in order.
LEMMA OnlyEmbeds ==
  ASSUME NEW X, NEW s \in Seq(X), NEW S
  PROVE  Only(s, S) \in Seq(X) /\ \E g : Embeds(g, Only(s, S), s, Len(s), S)
<1>1. PICK f : Filter(f, s, S, Len(s)) /\ Only(s, S) = f[Len(s)]
  BY OnlyIs
<1> DEFINE Good(n) == n <= Len(s) => f[n] \in Seq(X) /\ \E g : Embeds(g, f[n], s, n, S)
<1> DEFINE T == {n \in Nat : Good(n)}
<1>2. 0 \in T
  <2>1. f[0] = <<>>
    BY <1>1 DEF Filter
  <2>2. Embeds(<<>>, <<>>, s, 0, S)
    BY DEF Embeds
  <2>3. Good(0)
    BY <2>1, <2>2
  <2>. QED BY <2>3
<1>3. ASSUME NEW n \in Nat, n \in T PROVE n + 1 \in T
  <2> SUFFICES ASSUME n + 1 <= Len(s) PROVE Good(n + 1)
    OBVIOUS
  <2>1. f[n] \in Seq(X) /\ \E g : Embeds(g, f[n], s, n, S)
    BY <1>3
  <2>2. PICK g : Embeds(g, f[n], s, n, S)
    BY <2>1
  <2>3. f[n + 1] = IF s[n + 1] \in S THEN Append(f[n], s[n + 1]) ELSE f[n]
    <3>1. n + 1 \in 0..Len(s) /\ n + 1 # 0 /\ (n + 1) - 1 = n
      OBVIOUS
    <3>. QED BY <1>1, <3>1 DEF Filter
  <2>4. CASE s[n + 1] \in S
    BY <2>1, <2>2, <2>3, <2>4, OneMore
  <2>5. CASE s[n + 1] \notin S
    <3>1. Embeds(g, f[n], s, n + 1, S)
      BY <2>2, <2>5 DEF Embeds
    <3>. QED BY <2>1, <2>3, <2>5, <3>1
  <2>. QED BY <2>4, <2>5
<1>4. Len(s) \in T
  <2>1. Len(s) \in Nat
    OBVIOUS
  <2> HIDE DEF T
  <2>. QED BY <1>2, <1>3, <2>1, Counted
<1>. QED BY <1>1, <1>4

\* A filter keeps the messages of the set, and no others.
LEMMA OnlyHas ==
  ASSUME NEW X, NEW s \in Seq(X), NEW S
  PROVE  Only(s, S) \in Seq(X) /\ ToSet(Only(s, S)) = ToSet(s) \cap S
<1>1. PICK g : Embeds(g, Only(s, S), s, Len(s), S)
  BY OnlyEmbeds
<1>2. Only(s, S) \in Seq(X)
  BY OnlyEmbeds
<1>3. DOMAIN s = 1..Len(s)
  OBVIOUS
<1>. QED BY <1>1, <1>2, <1>3 DEF ToSet, Embeds

-----------------------------------------------------------------------------
(* The replay of a log is that of the log before its last line, and then   *)
(* of this line.                                                           *)

\* The replays of the beginnings of a log.
Builds(f, lines, m) ==
    f = [n \in 0..m |-> IF n = 0 THEN Nothing ELSE Replay(f[n - 1], lines[n])]

\* The table of what is replayed line by line exists for any length.
LEMMA BuildsExists ==
  ASSUME NEW lines
  PROVE  \A m \in Nat : \E f : Builds(f, lines, m)
<1> DEFINE T == {m \in Nat : \E f : Builds(f, lines, m)}
<1>1. 0 \in T
  <2> DEFINE f == [n \in 0..0 |-> Nothing]
  <2>1. Builds(f, lines, 0)
    BY DEF Builds
  <2>. QED BY <2>1
<1>2. ASSUME NEW m \in Nat, m \in T PROVE m + 1 \in T
  <2>1. PICK f : Builds(f, lines, m)
    BY <1>2
  <2> DEFINE e == Replay(f[m], lines[m + 1])
  <2> DEFINE g == [n \in 0..(m + 1) |-> IF n = m + 1 THEN e ELSE f[n]]
  <2> HIDE DEF e
  <2>2. \A n \in 0..m : g[n] = f[n]
    OBVIOUS
  <2>3. \A n \in 0..(m + 1) : g[n] = IF n = 0 THEN Nothing ELSE Replay(g[n - 1], lines[n])
    <3> TAKE n \in 0..(m + 1)
    <3>1. CASE n = m + 1
      BY <2>2, <3>1 DEF e
    <3>2. CASE n # m + 1
      <4>1. n \in 0..m /\ (n # 0 => n - 1 \in 0..m)
        BY <3>2
      <4>2. f[n] = IF n = 0 THEN Nothing ELSE Replay(f[n - 1], lines[n])
        BY <2>1, <4>1 DEF Builds
      <4>. QED BY <2>2, <4>1, <4>2
    <3>. QED BY <3>1, <3>2
  <2>4. Builds(g, lines, m + 1)
    BY <2>3 DEF Builds
  <2>. QED BY <2>4
<1>. QED BY <1>1, <1>2, Counted

\* Replayed is an entry of this table.
LEMMA ReplayedIs ==
  ASSUME NEW lines \in Seq(Line)
  PROVE  \E f : Builds(f, lines, Len(lines)) /\ Replayed(lines) = f[Len(lines)]
<1> DEFINE F == CHOOSE f : Builds(f, lines, Len(lines))
<1>1. \E f : Builds(f, lines, Len(lines))
  <2>1. Len(lines) \in Nat
    OBVIOUS
  <2>. QED BY <2>1, BuildsExists
<1>2. Builds(F, lines, Len(lines))
  BY <1>1, Zenon
<1>3. Replayed(lines) = F[Len(lines)]
  BY Zenon DEF Builds, Replayed
<1>. QED BY <1>2, <1>3

\* An empty log gives nothing.
LEMMA ReplayedNone == Replayed(<<>>) = Nothing
<1>1. <<>> \in Seq(Line) /\ Len(<<>>) = 0
  OBVIOUS
<1>2. PICK f : Builds(f, <<>>, 0) /\ Replayed(<<>>) = f[0]
  BY <1>1, ReplayedIs
<1>. QED BY <1>2 DEF Builds

\* One more line is replayed after all the others.
LEMMA ReplayedMore ==
  ASSUME NEW lines \in Seq(Line), NEW e \in Line
  PROVE  Replayed(Append(lines, e)) = Replay(Replayed(lines), e)
<1> DEFINE more == Append(lines, e)
<1> DEFINE N == Len(lines)
<1>1. /\ more \in Seq(Line) /\ Len(more) = N + 1 /\ N \in Nat
      /\ \A n \in 1..N : more[n] = lines[n]
      /\ more[N + 1] = e
  OBVIOUS
<1>2. PICK f : Builds(f, lines, N) /\ Replayed(lines) = f[N]
  BY ReplayedIs
<1>3. PICK g : Builds(g, more, N + 1) /\ Replayed(more) = g[N + 1]
  BY <1>1, ReplayedIs
<1> HIDE DEF more, N
<1> DEFINE T == {n \in Nat : n <= N => g[n] = f[n]}
<1>4. 0 \in T
  BY <1>1, <1>2, <1>3 DEF Builds
<1>5. ASSUME NEW n \in Nat, n \in T PROVE n + 1 \in T
  <2> SUFFICES ASSUME n + 1 <= N PROVE g[n + 1] = f[n + 1]
    OBVIOUS
  <2>1. n + 1 \in 0..N /\ n + 1 \in 0..(N + 1) /\ n + 1 # 0 /\ (n + 1) - 1 = n /\ n + 1 \in 1..N
    BY <1>1
  <2>2. f[n + 1] = Replay(f[n], lines[n + 1])
    BY <1>2, <2>1 DEF Builds
  <2>3. g[n + 1] = Replay(g[n], more[n + 1])
    BY <1>3, <2>1 DEF Builds
  <2>. QED BY <1>1, <1>5, <2>1, <2>2, <2>3
<1>6. N \in T
  <2> HIDE DEF T
  <2>. QED BY <1>1, <1>4, <1>5, Counted
<1>7. g[N + 1] = Replay(g[N], more[N + 1])
  <2>1. N + 1 \in 0..(N + 1) /\ N + 1 # 0 /\ (N + 1) - 1 = N
    BY <1>1
  <2>. QED BY <1>3, <2>1 DEF Builds
<1>. QED BY <1>1, <1>2, <1>3, <1>6, <1>7 DEF more

\* What a line of each kind does.
Same(w, h)  == w.settled = h.settled /\ w.bad = h.bad

\* A line that is no checkpoint is a message.
LEMMA Messages ==
  ASSUME NEW e \in Line
  PROVE  /\ e.t # "checkpoint" => e \in Msg /\ e.id \in Nat /\ e.run \in Nat
                                  /\ [e EXCEPT !.t = "answer"] \in Msg
         /\ e.t = "checkpoint" => e.msgs \in Seq(Msg)
<1>1. CASE e \in Msg
  BY <1>1 DEF Msg, Texts
<1>2. CASE e \in [t : {"checkpoint"}, msgs : Seq(Msg)]
  BY <1>2
<1>. QED BY <1>1, <1>2 DEF Line

\* What a replay is made of.
LEMMA ReplaysIs ==
  ASSUME NEW h \in Replays
  PROVE  /\ h.msgs \in Seq(Msg) /\ h.drafts \in SUBSET Nat /\ h.settled \in Seq(Msg)
         /\ h.bad \in SUBSET Nat /\ h.seen \in Seq(Line)
         /\ DOMAIN h = {"msgs", "drafts", "settled", "bad", "seen"}
BY DEF Replays

\* A line is also counted as seen.
LEMMA SeenMore ==
  ASSUME NEW v \in Replays, NEW e \in Line, NEW w, w = [v EXCEPT !.seen = Append(@, e)]
  PROVE  w \in Replays /\ w.msgs = v.msgs /\ w.drafts = v.drafts /\ Same(w, v)
<1>1. Append(v.seen, e) \in Seq(Line)
  BY ReplaysIs
<1>. QED BY <1>1, ReplaysIs DEF Replays, Same

\* A prompt, a call or a result is history at once ...
LEMMA ReplayAdds ==
  ASSUME NEW h \in Replays, NEW e \in Line, e.t \in {"user", "calls", "result"}
  PROVE  LET w == Replay(h, e) IN
         /\ w \in Replays /\ w.msgs = Append(h.msgs, e) /\ w.drafts = h.drafts /\ Same(w, h)
<1> DEFINE v == [h EXCEPT !.msgs = Append(@, e)]
<1>1. Replay(h, e) = [v EXCEPT !.seen = Append(@, e)]
  BY DEF Replay
<1>2. e \in Msg
  BY Messages
<1>3. Append(h.msgs, e) \in Seq(Msg) /\ Append(h.seen, e) \in Seq(Line)
  BY <1>2, ReplaysIs
<1>4. v \in Replays /\ v.msgs = Append(h.msgs, e) /\ v.drafts = h.drafts /\ Same(v, h) /\ v.seen = h.seen
  BY <1>3, ReplaysIs DEF Replays, Same
<1> HIDE DEF v
<1>. QED BY <1>1, <1>4, SeenMore DEF Same

\* ... a draft is noted ...
LEMMA ReplayDraft ==
  ASSUME NEW h \in Replays, NEW e \in Line, e.t = "draft"
  PROVE  LET w == Replay(h, e) IN
         /\ w \in Replays /\ w.msgs = h.msgs /\ w.drafts = h.drafts \cup {e.id} /\ Same(w, h)
<1> DEFINE v == [h EXCEPT !.drafts = @ \cup {e.id}]
<1>1. Replay(h, e) = [v EXCEPT !.seen = Append(@, e)]
  BY DEF Replay
<1>2. e.id \in Nat
  BY Messages
<1>3. h.drafts \cup {e.id} \in SUBSET Nat /\ Append(h.seen, e) \in Seq(Line)
  BY <1>2, ReplaysIs
<1>4. v \in Replays /\ v.msgs = h.msgs /\ v.drafts = h.drafts \cup {e.id} /\ Same(v, h) /\ v.seen = h.seen
  BY <1>3, ReplaysIs DEF Replays, Same
<1> HIDE DEF v
<1>. QED BY <1>1, <1>4, SeenMore DEF Same

\* ... a settlement delivers its draft, if there is one ...
LEMMA ReplaySettles ==
  ASSUME NEW h \in Replays, NEW e \in Line, e.t = "settlement"
  PROVE  LET w == Replay(h, e) IN
         /\ w \in Replays /\ w.drafts = h.drafts /\ w.settled = Append(h.settled, e)
         /\ IF e.id = 0 \/ e.id \in h.drafts
            THEN w.msgs = Append(h.msgs, [e EXCEPT !.t = "answer"]) /\ w.bad = h.bad
            ELSE w.msgs = h.msgs /\ w.bad = h.bad \cup {e.run}
<1> DEFINE c == [h EXCEPT !.settled = Append(@, e)]
<1> DEFINE a == [e EXCEPT !.t = "answer"]
<1> DEFINE v == Deliver(h, e)
<1>1. Replay(h, e) = [v EXCEPT !.seen = Append(@, e)]
  BY DEF Replay
<1>2. e \in Msg /\ e.id \in Nat /\ e.run \in Nat /\ a \in Msg
  BY Messages
<1>3. Append(h.seen, e) \in Seq(Line) /\ Append(h.settled, e) \in Seq(Msg)
  BY <1>2, ReplaysIs
<1>4. /\ c \in Replays /\ c.msgs = h.msgs /\ c.drafts = h.drafts /\ c.settled = Append(h.settled, e)
      /\ c.bad = h.bad /\ c.seen = h.seen
  BY <1>3, ReplaysIs DEF Replays
<1> HIDE DEF c, a
<1>5. v = IF e.id = 0 \/ e.id \in h.drafts THEN [c EXCEPT !.msgs = Append(@, a)]
          ELSE [c EXCEPT !.bad = @ \cup {e.run}]
  BY DEF Deliver, c, a
<1> HIDE DEF v
<1>6. Append(c.msgs, a) \in Seq(Msg) /\ c.bad \cup {e.run} \in SUBSET Nat
  BY <1>2, <1>4, ReplaysIs
<1>7. /\ v \in Replays /\ v.drafts = h.drafts /\ v.settled = Append(h.settled, e) /\ v.seen = h.seen
      /\ IF e.id = 0 \/ e.id \in h.drafts
         THEN v.msgs = Append(h.msgs, a) /\ v.bad = h.bad
         ELSE v.msgs = h.msgs /\ v.bad = h.bad \cup {e.run}
  BY <1>4, <1>5, <1>6 DEF Replays
<1>8. LET w == Replay(h, e) IN
         /\ w \in Replays /\ w.drafts = h.drafts /\ w.settled = Append(h.settled, e)
         /\ IF e.id = 0 \/ e.id \in h.drafts
            THEN w.msgs = Append(h.msgs, a) /\ w.bad = h.bad
            ELSE w.msgs = h.msgs /\ w.bad = h.bad \cup {e.run}
  BY <1>1, <1>7, SeenMore DEF Same
<1>. QED BY <1>8 DEF a

\* ... a checkpoint that is vouched for replaces everything ...
LEMMA ReplayChecks ==
  ASSUME NEW h \in Replays, NEW e \in Line, e.t = "checkpoint"
  PROVE  LET w == Replay(h, e) IN
         /\ w \in Replays /\ Same(w, h)
         /\ \/ Vouched(h, e.msgs) /\ w.msgs = e.msgs /\ w.drafts = {}
            \/ w.msgs = h.msgs /\ w.drafts = h.drafts
<1> DEFINE v == IF Vouched(h, e.msgs) THEN [h EXCEPT !.msgs = e.msgs, !.drafts = {}] ELSE h
<1>1. Replay(h, e) = [v EXCEPT !.seen = Append(@, e)]
  BY DEF Replay
<1>2. e.msgs \in Seq(Msg)
  BY Messages
<1>3. Append(h.seen, e) \in Seq(Line)
  BY ReplaysIs
<1>4. /\ v \in Replays /\ Same(v, h) /\ v.seen = h.seen
      /\ \/ Vouched(h, e.msgs) /\ v.msgs = e.msgs /\ v.drafts = {}
         \/ v.msgs = h.msgs /\ v.drafts = h.drafts
  BY <1>2, ReplaysIs DEF Replays, Same
<1> HIDE DEF v
<1>. QED BY <1>1, <1>4, SeenMore DEF Same

\* ... and the rest is passed over.
LEMMA ReplayOther ==
  ASSUME NEW h \in Replays, NEW e \in Line, e.t \in {"half", "answer", "steer", "summary"}
  PROVE  LET w == Replay(h, e) IN
         /\ w \in Replays /\ Same(w, h) /\ w.msgs = h.msgs /\ w.drafts = h.drafts
<1>1. Replay(h, e) = [h EXCEPT !.seen = Append(@, e)]
  BY DEF Replay
<1>. QED BY <1>1, SeenMore

\* A line of any kind leaves a replay.
LEMMA ReplayTyped ==
  ASSUME NEW h \in Replays, NEW e \in Line
  PROVE  Replay(h, e) \in Replays
<1>1. CASE e.t \in {"user", "calls", "result"}
  BY <1>1, ReplayAdds
<1>2. CASE e.t = "draft"
  BY <1>2, ReplayDraft
<1>3. CASE e.t = "settlement"
  BY <1>3, ReplaySettles
<1>4. CASE e.t = "checkpoint"
  BY <1>4, ReplayChecks
<1>5. CASE e.t \in {"half", "answer", "steer", "summary"}
  BY <1>5, ReplayOther
<1>6. e.t \in Texts \cup {"checkpoint"}
  BY DEF Line, Msg
<1>. QED BY <1>1, <1>2, <1>3, <1>4, <1>5, <1>6 DEF Texts

-----------------------------------------------------------------------------
(* Calls and their results. *)

\* All calls of s have their results, but those at o, which have d.
Complete(s, o, d) ==
    /\ Results(s) /\ AnsweredBut(s, o)
    /\ o # 0 => /\ o \in DOMAIN s /\ s[o].t = "calls" /\ o + d = Len(s) /\ d <= s[o].k
                /\ \A k \in 1..d : ResultAt(s, o, k)

\* Both shapes are cases of one.
LEMMA CompleteIs ==
  ASSUME NEW s \in Seq(Msg)
  PROVE  /\ Blocks(s) <=> Complete(s, 0, 0)
         /\ \A d \in Nat : Unfinished(s, d) <=> d < Len(s) /\ Complete(s, Len(s) - d, d)
<1>1. Blocks(s) <=> Complete(s, 0, 0)
  BY DEF Blocks, Complete
<1>2. ASSUME NEW d \in Nat PROVE Unfinished(s, d) <=> d < Len(s) /\ Complete(s, Len(s) - d, d)
  <2>1. d < Len(s) => Len(s) - d # 0 /\ Len(s) - d \in DOMAIN s /\ (Len(s) - d) + d = Len(s)
    OBVIOUS
  <2>. QED BY <2>1 DEF Unfinished, Complete
<1>. QED BY <1>1, <1>2

\* The numbers in a history.
LEMMA Numbers ==
  ASSUME NEW s \in Seq(Msg)
  PROVE  /\ Len(s) \in Nat /\ DOMAIN s = 1..Len(s)
         /\ \A i \in 1..Len(s) : s[i] \in Msg /\ s[i].k \in Nat /\ s[i].id \in Nat
<1>1. \A m \in Msg : m.k \in Nat /\ m.id \in Nat
  BY DEF Msg
<1>. QED BY <1>1

\* With a result there are those before it.
LEMMA UpTo ==
  ASSUME NEW s \in Seq(Msg), NEW o \in Nat, NEW d \in Nat, Complete(s, o, d),
         NEW i \in 1..Len(s), s[i].t = "calls", NEW k \in 1..s[i].k, i + k <= Len(s)
  PROVE  \A l \in 1..k : ResultAt(s, i, l)
<1>1. CASE i # o
  <2>1. \A l \in 1..s[i].k : ResultAt(s, i, l)
    BY <1>1, Numbers DEF Complete, AnsweredBut
  <2>2. s[i].k \in Nat
    BY Numbers
  <2>. QED BY <2>1, <2>2
<1>2. CASE i = o
  <2>1. k <= d
    BY <1>2, Numbers DEF Complete
  <2>. QED BY <1>2, <2>1, Numbers DEF Complete
<1>. QED BY <1>1, <1>2

\* The n messages after s[p] pass a filter.
Pass(s, S, p, n) == \A k \in 1..n : p + k <= Len(s) /\ s[p + k] \in S

\* The calls of s[i] have at least n results.
Has(s, i, n) == \A k \in 1..n : ResultAt(s, i, k)

\* Neighbours that pass a filter stay neighbours.
LEMMA Neighbours ==
  ASSUME NEW s \in Seq(Msg), NEW t \in Seq(Msg), NEW S, NEW g, Embeds(g, t, s, Len(s), S),
         NEW i \in 1..Len(t), NEW n \in Nat, Pass(s, S, g[i], n)
  PROVE  \A k \in 0..n : i + k <= Len(t) /\ g[i + k] = g[i] + k
<1> DEFINE T == {k \in Nat : k <= n => i + k <= Len(t) /\ g[i + k] = g[i] + k}
<1>1. /\ Len(t) \in Nat /\ DOMAIN t = 1..Len(t) /\ Len(s) \in Nat
      /\ \A j \in 1..Len(t) : g[j] \in 1..Len(s)
  BY Numbers DEF Embeds
<1>2. 0 \in T
  BY <1>1
<1>3. ASSUME NEW k \in Nat, k \in T PROVE k + 1 \in T
  <2> SUFFICES ASSUME k + 1 <= n PROVE i + (k + 1) <= Len(t) /\ g[i + (k + 1)] = g[i] + (k + 1)
    OBVIOUS
  <2>1. i + k \in 1..Len(t) /\ g[i + k] = g[i] + k
    BY <1>1, <1>3
  <2>2. g[i] + (k + 1) \in 1..Len(s) /\ s[g[i] + (k + 1)] \in S
    <3>1. k + 1 \in 1..n
      OBVIOUS
    <3>. QED BY <1>1, <3>1 DEF Pass
  <2>3. PICK j \in 1..Len(t) : g[j] = g[i] + (k + 1)
    BY <1>1, <2>2 DEF Embeds
  <2>4. i + k < j
    <3>1. ASSUME j < i + k PROVE FALSE
      <4>1. g[j] < g[i + k]
        BY <1>1, <2>1, <3>1 DEF Embeds
      <4>. QED BY <1>1, <2>1, <2>3, <4>1
    <3>2. j # i + k
      <4>1. g[i] \in Nat
        BY <1>1
      <4>2. ASSUME j = i + k PROVE FALSE
        <5>1. g[j] = g[i + k]
          BY <4>2
        <5>. QED BY <2>1, <2>3, <4>1, <5>1
      <4>. QED BY <4>2
    <3>. QED BY <3>1, <3>2
  <2>5. i + (k + 1) \in 1..Len(t) /\ i + k < i + (k + 1)
    BY <1>1, <2>4
  <2>6. g[i + k] < g[i + (k + 1)]
    BY <1>1, <2>1, <2>5 DEF Embeds
  <2>7. CASE j = i + (k + 1)
    BY <2>3, <2>5, <2>7
  <2>8. CASE i + (k + 1) < j
    <3>1. g[i + (k + 1)] < g[j]
      BY <1>1, <2>5, <2>8 DEF Embeds
    <3>2. g[i] \in Nat /\ g[i + (k + 1)] \in Nat
      BY <1>1, <2>5
    <3>3. g[i] + k < g[i + (k + 1)] /\ g[i + (k + 1)] < g[i] + (k + 1)
      BY <2>1, <2>3, <2>6, <3>1
    <3>. QED BY <3>2, <3>3
  <2>. QED BY <2>4, <2>7, <2>8
<1>4. Nat \subseteq T
  <2> HIDE DEF T
  <2>. QED BY <1>2, <1>3, Counted
<1>. QED BY <1>4

\* A filter that lets calls and results through leaves them together.
LEMMA OnlyComplete ==
  ASSUME NEW s \in Seq(Msg), NEW S, NEW o \in Nat, NEW d \in Nat, Complete(s, o, d),
         \A m \in ToSet(s) : m.t \in {"calls", "result"} => m \in S
  PROVE  IF o = 0 THEN Blocks(Only(s, S)) ELSE Unfinished(Only(s, S), d)
<1> DEFINE t == Only(s, S)
<1>1. t \in Seq(Msg)
  BY OnlyEmbeds
<1>2. PICK g : Embeds(g, t, s, Len(s), S)
  BY OnlyEmbeds
<1> HIDE DEF t
<1>3. /\ Len(t) \in Nat /\ DOMAIN t = 1..Len(t) /\ Len(s) \in Nat /\ DOMAIN s = 1..Len(s)
      /\ \A j \in 1..Len(t) : g[j] \in 1..Len(s) /\ t[j] = s[g[j]]
  BY <1>1, <1>2, Numbers DEF Embeds
<1>4. \A p \in 1..Len(s) : s[p].t \in {"calls", "result"} => s[p] \in S /\ \E j \in 1..Len(t) : g[j] = p
  <2>1. \A p \in 1..Len(s) : s[p] \in ToSet(s)
    BY <1>3 DEF ToSet
  <2>. QED BY <1>2, <1>3, <2>1 DEF Embeds
<1>5. ASSUME NEW i \in 1..Len(t), NEW n \in Nat, Has(s, g[i], n)
      PROVE  \A k \in 1..n : ResultAt(t, i, k) /\ g[i + k] = g[i] + k
  <2>1. \A k \in 1..n : g[i] + k \in 1..Len(s) /\ s[g[i] + k].t = "result"
    BY <1>3, <1>5 DEF Has, ResultAt, IsResult
  <2>2. Pass(s, S, g[i], n)
    BY <1>4, <2>1 DEF Pass
  <2>3. \A k \in 0..n : i + k <= Len(t) /\ g[i + k] = g[i] + k
    BY <1>1, <1>2, <2>2, Neighbours
  <2>4. ASSUME NEW k \in 1..n PROVE ResultAt(t, i, k) /\ g[i + k] = g[i] + k
    <3>1. i + k \in 1..Len(t) /\ g[i + k] = g[i] + k
      <4>1. k \in 0..n /\ k \in Nat /\ i \in Nat
        BY <1>3
      <4>2. i + k <= Len(t) /\ g[i + k] = g[i] + k
        BY <2>3, <4>1
      <4>. QED BY <1>3, <4>1, <4>2
    <3>2. t[i + k] = s[g[i] + k] /\ t[i] = s[g[i]]
      BY <1>3, <3>1
    <3>. QED BY <1>5, <3>1, <3>2 DEF Has, ResultAt
  <2>. QED BY <2>4
<1>6. Results(t)
  <2> SUFFICES ASSUME NEW j \in 1..Len(t), IsResult(t[j]) PROVE OfCalls(t, j)
    BY <1>3 DEF Results
  <2> DEFINE q == g[j]
  <2>1. q \in 1..Len(s) /\ t[j] = s[q] /\ IsResult(s[q])
    BY <1>3
  <2> HIDE DEF q
  <2>2. PICK p \in 1..Len(s) : /\ s[p].t = "calls" /\ s[p].id = s[q].id
                               /\ s[q].k \in 1..s[p].k /\ q = p + s[q].k
    BY <1>3, <2>1 DEF Complete, Results, OfCalls
  <2>3. PICK i \in 1..Len(t) : g[i] = p
    BY <1>4, <2>2
  <2> DEFINE n == s[q].k
  <2>4. n \in Nat /\ n \in 1..s[p].k /\ s[p].k \in Nat /\ q = p + n
    BY <2>1, <2>2, Numbers
  <2> HIDE DEF n
  <2>5. Has(s, g[i], n)
    <3>1. p + n <= Len(s) /\ s[p].t = "calls" /\ n \in 1..s[p].k
      BY <1>3, <2>1, <2>2, <2>4
    <3>2. \A l \in 1..n : ResultAt(s, p, l)
      BY <3>1, UpTo
    <3>. QED BY <2>3, <3>2 DEF Has
  <2>6. ResultAt(t, i, n) /\ g[i + n] = q
    <3>1. n \in 1..n
      BY <2>4
    <3>. QED BY <1>5, <2>3, <2>4, <2>5, <3>1
  <2>7. i + n \in 1..Len(t)
    BY <1>3, <2>4, <2>6 DEF ResultAt
  <2>8. j = i + n
    <3>1. PICK r \in 1..Len(t) : r = i + n
      BY <2>7
    <3>2. g[j] = q /\ g[r] = q /\ q \in Nat
      BY <1>3, <2>1, <2>6, <3>1 DEF q
    <3>3. \A x, y \in 1..Len(t) : x < y => g[x] < g[y]
      BY <1>2, <1>3 DEF Embeds
    <3>4. ~ (j < r) /\ ~ (r < j)
      BY <3>2, <3>3
    <3>. QED BY <1>3, <3>1, <3>4
  <2>9. t[i] = s[p]
    BY <1>3, <2>3
  <2>. QED BY <1>3, <2>1, <2>2, <2>4, <2>8, <2>9 DEF OfCalls, n
<1>7. ASSUME NEW i \in 1..Len(t), t[i].t = "calls", g[i] # o PROVE \A k \in 1..t[i].k : ResultAt(t, i, k)
  <2>1. g[i] \in 1..Len(s) /\ t[i] = s[g[i]] /\ t[i].k \in Nat
    BY <1>1, <1>3, Numbers
  <2>2. \A k \in 1..t[i].k : ResultAt(s, g[i], k)
    BY <1>3, <1>7, <2>1 DEF Complete, AnsweredBut
  <2>3. Has(s, g[i], t[i].k)
    BY <2>2 DEF Has
  <2>. QED BY <1>5, <2>1, <2>3
<1>8. CASE o = 0
  <2>1. AnsweredBut(t, 0)
    BY <1>3, <1>7, <1>8 DEF AnsweredBut
  <2>. QED BY <1>6, <1>8, <2>1 DEF Blocks, t
<1>9. CASE o # 0
  <2>1. /\ o \in 1..Len(s) /\ s[o].t = "calls" /\ o + d = Len(s) /\ d <= s[o].k
        /\ \A k \in 1..d : ResultAt(s, o, k)
    BY <1>3, <1>9 DEF Complete
  <2>2. PICK i \in 1..Len(t) : g[i] = o
    BY <1>4, <2>1
  <2>3. t[i] = s[o] /\ \A k \in 1..d : ResultAt(t, i, k) /\ g[i + k] = o + k
    <3>1. Has(s, g[i], d)
      BY <2>1, <2>2 DEF Has
    <3>. QED BY <1>3, <1>5, <2>2, <3>1
  <2>4. i + d \in 1..Len(t) /\ g[i + d] = Len(s)
    <3>1. CASE d = 0
      BY <1>3, <2>1, <2>2, <3>1
    <3>2. CASE d # 0
      <4>1. d \in 1..d
        BY <3>2
      <4>. QED BY <1>3, <2>1, <2>3, <4>1 DEF ResultAt
    <3>. QED BY <3>1, <3>2
  <2>5. i + d = Len(t)
    <3>1. ASSUME i + d < Len(t) PROVE FALSE
      <4>1. g[i + d] < g[Len(t)] /\ g[Len(t)] <= Len(s)
        BY <1>2, <1>3, <2>4, <3>1 DEF Embeds
      <4>. QED BY <1>3, <2>4, <4>1
    <3>. QED BY <2>4, <3>1
  <2>6. \A j \in 1..Len(t) : j # i => g[j] # o
    <3> TAKE j \in 1..Len(t)
    <3> HAVE j # i
    <3>1. g[j] < g[i] \/ g[i] < g[j]
      BY <1>2, <1>3 DEF Embeds
    <3>. QED BY <1>3, <2>2, <3>1
  <2>7. AnsweredBut(t, i)
    BY <1>3, <1>7, <2>6 DEF AnsweredBut
  <2>8. Len(t) - d = i /\ d < Len(t)
    <3>1. Len(t) \in Nat /\ i \in 1..Len(t)
      BY <1>3
    <3>. QED BY <2>5, <3>1
  <2>9. Unfinished(t, d)
    BY <1>6, <2>1, <2>3, <2>7, <2>8 DEF Unfinished
  <2>. QED BY <1>9, <2>9 DEF t
<1>. QED BY <1>8, <1>9

\* t has the messages of s from the a-th to the b-th.
Part(t, s, a, b) ==
    /\ a \in Nat \ {0} /\ b \in 0..Len(s) /\ a <= b + 1
    /\ t \in Seq(Msg) /\ Len(t) = b - a + 1
    /\ \A i \in 1..Len(t) : t[i] = s[i + a - 1]

\* A subsequence is a part ...
LEMMA PartIs ==
  ASSUME NEW s \in Seq(Msg), NEW a \in Nat \ {0}, NEW b \in 0..Len(s), a <= b + 1
  PROVE  Part(SubSeq(s, a, b), s, a, b)
BY DEF Part

\* ... and a part of a part is one.
LEMMA PartOfPart ==
  ASSUME NEW s \in Seq(Msg), NEW a, NEW b, NEW t, Part(t, s, a, b), NEW c, NEW d, NEW u, Part(u, t, c, d)
  PROVE  Part(u, s, c + a - 1, d + a - 1)
<1>1. /\ Len(s) \in Nat /\ a \in Nat /\ b \in Nat /\ Len(t) \in Nat /\ c \in Nat /\ d \in Nat
      /\ Len(u) \in Nat /\ u \in Seq(Msg)
      /\ 1 <= a /\ b <= Len(s) /\ a <= b + 1 /\ Len(t) = b - a + 1
      /\ 1 <= c /\ d <= Len(t) /\ c <= d + 1 /\ Len(u) = d - c + 1
  BY DEF Part
<1>2. /\ c + a - 1 \in Nat \ {0} /\ d + a - 1 \in 0..Len(s) /\ c + a - 1 <= (d + a - 1) + 1
      /\ Len(u) = (d + a - 1) - (c + a - 1) + 1
  BY <1>1
<1>3. ASSUME NEW i \in 1..Len(u) PROVE u[i] = s[i + (c + a - 1) - 1]
  <2>1. i + c - 1 \in 1..Len(t)
    BY <1>1
  <2>2. u[i] = t[i + c - 1] /\ t[i + c - 1] = s[(i + c - 1) + a - 1]
    BY <2>1 DEF Part
  <2>3. (i + c - 1) + a - 1 = i + (c + a - 1) - 1
    BY <1>1
  <2>. QED BY <2>2, <2>3
<1>. QED BY <1>1, <1>2, <1>3 DEF Part

\* The results of the calls before a do not reach it, as s[a] is none.
LEMMA NotBeyond ==
  ASSUME NEW s \in Seq(Msg), NEW o \in Nat, NEW d \in Nat, Complete(s, o, d),
         NEW a \in 1..Len(s), ~ IsResult(s[a]),
         NEW p \in 1..Len(s), s[p].t = "calls", p < a, NEW k \in 1..s[p].k, p + k <= Len(s)
  PROVE  p + k < a
<1>1. /\ Len(s) \in Nat /\ a \in Nat /\ p \in Nat /\ s[p].k \in Nat /\ k \in Nat
  BY Numbers
<1> SUFFICES ASSUME a <= p + k PROVE FALSE
  BY <1>1
<1>2. \A l \in 1..k : ResultAt(s, p, l)
  BY UpTo
<1>3. a - p \in 1..k /\ p + (a - p) = a
  BY <1>1
<1>. QED BY <1>2, <1>3 DEF ResultAt

\* What is left of the calls when s begins at a, and not with a result.
LEMMA Suffix ==
  ASSUME NEW s \in Seq(Msg), NEW o \in Nat, NEW d \in Nat, Complete(s, o, d),
         NEW a \in 1..Len(s), ~ IsResult(s[a]), NEW t, Part(t, s, a, Len(s))
  PROVE  IF o < a THEN Blocks(t) ELSE Complete(t, o - a + 1, d)
<1>1. /\ Len(s) \in Nat /\ a \in Nat /\ a # 0 /\ DOMAIN s = 1..Len(s)
      /\ t \in Seq(Msg) /\ Len(t) \in Nat /\ Len(t) = Len(s) - a + 1 /\ DOMAIN t = 1..Len(t)
      /\ \A i \in 1..Len(t) : t[i] = s[i + a - 1] /\ i + a - 1 \in 1..Len(s)
  <2>1. t \in Seq(Msg) /\ Len(t) = Len(s) - a + 1 /\ \A i \in 1..Len(t) : t[i] = s[i + a - 1]
    BY DEF Part
  <2>. QED BY <2>1, Numbers
<1>2. ASSUME NEW i \in 1..Len(t), NEW k \in Nat, ResultAt(s, i + a - 1, k) PROVE ResultAt(t, i, k)
  <2>1. (i + a - 1) + k \in 1..Len(s) /\ i + k \in 1..Len(t) /\ (i + k) + a - 1 = (i + a - 1) + k
    BY <1>1, <1>2 DEF ResultAt
  <2>2. t[i + k] = s[(i + a - 1) + k] /\ t[i] = s[i + a - 1]
    BY <1>1, <2>1
  <2>. QED BY <1>1, <1>2, <2>1, <2>2 DEF ResultAt
<1>4. Results(t)
  <2> SUFFICES ASSUME NEW j \in 1..Len(t), IsResult(t[j]) PROVE OfCalls(t, j)
    BY <1>1 DEF Results
  <2>1. PICK q \in 1..Len(s) : q = j + a - 1 /\ t[j] = s[q] /\ IsResult(s[q]) /\ a <= q
    BY <1>1
  <2>2. PICK p \in 1..Len(s) : /\ s[p].t = "calls" /\ s[p].id = s[q].id
                               /\ s[q].k \in 1..s[p].k /\ q = p + s[q].k
    BY <1>1, <2>1 DEF Complete, Results, OfCalls
  <2>3. PICK n \in Nat : n = s[q].k
    BY Numbers
  <2>4. p \in Nat /\ q \in Nat /\ j \in Nat /\ q = p + n /\ n \in 1..s[p].k /\ q <= Len(s)
    BY <1>1, <2>2, <2>3
  <2>5. a <= p
    <3>1. ASSUME p < a PROVE FALSE
      <4>1. p + n < a
        BY <2>2, <2>3, <2>4, <3>1, NotBeyond
      <4>. QED BY <1>1, <2>1, <2>4, <4>1
    <3>. QED BY <1>1, <2>4, <3>1
  <2>6. PICK i \in 1..Len(t) : i + a - 1 = p
    <3>0. a \in Nat /\ a # 0 /\ Len(t) \in Nat /\ Len(t) = Len(s) - a + 1 /\ Len(s) \in Nat /\ p <= Len(s)
      BY <1>1, Numbers
    <3>1. p - a + 1 \in 1..Len(t) /\ (p - a + 1) + a - 1 = p
      BY <2>4, <2>5, <3>0
    <3>. QED BY <3>1
  <2>7. t[i] = s[p] /\ j = i + n
    <3>1. t[i] = s[p]
      BY <1>1, <2>6
    <3>0. i \in Nat
      BY <1>1
    <3>2. i \in Nat /\ j \in Nat /\ a \in Nat /\ n \in Nat /\ j + a - 1 = (i + a - 1) + n
      BY <2>1, <2>4, <2>6, <3>0
    <3>3. j = i + n
      BY <3>2
    <3>. QED BY <3>1, <3>3
  <2>. QED BY <1>1, <2>1, <2>2, <2>3, <2>7 DEF OfCalls
<1>5. ASSUME NEW i \in 1..Len(t), t[i].t = "calls", i + a - 1 # o PROVE \A k \in 1..t[i].k : ResultAt(t, i, k)
  <2>1. i + a - 1 \in 1..Len(s) /\ t[i] = s[i + a - 1] /\ t[i].k \in Nat
    BY <1>1, Numbers
  <2>2. \A k \in 1..t[i].k : ResultAt(s, i + a - 1, k)
    BY <1>1, <1>5, <2>1 DEF Complete, AnsweredBut
  <2>. QED BY <1>2, <2>1, <2>2
<1>6. CASE o < a
  <2>1. \A i \in 1..Len(t) : i + a - 1 # o
    BY <1>1, <1>6
  <2>2. AnsweredBut(t, 0)
    BY <1>1, <1>5, <2>1 DEF AnsweredBut
  <2>. QED BY <1>4, <1>6, <2>2 DEF Blocks
<1>7. CASE a <= o
  <2>0. o # 0
    BY <1>1, <1>7
  <2>1. o \in 1..Len(s) /\ s[o].t = "calls" /\ o + d = Len(s) /\ d <= s[o].k
        /\ \A k \in 1..d : ResultAt(s, o, k)
    BY <1>1, <2>0 DEF Complete
  <2>2. PICK i \in 1..Len(t) : i = o - a + 1 /\ i + a - 1 = o /\ i # 0 /\ i + d = Len(t)
    <3>0. /\ a \in Nat /\ a # 0 /\ Len(t) \in Nat /\ Len(t) = Len(s) - a + 1 /\ Len(s) \in Nat
          /\ o + d = Len(s)
      BY <1>1, <2>1
    <3>1. o - a + 1 \in 1..Len(t) /\ (o - a + 1) + a - 1 = o /\ o - a + 1 # 0 /\ (o - a + 1) + d = Len(t)
      BY <1>7, <3>0
    <3>. QED BY <3>1
  <2>3. t[i] = s[o]
    BY <1>1, <2>2
  <2>4. \A k \in 1..d : ResultAt(t, i, k)
    <3>1. \A k \in 1..d : k \in Nat /\ ResultAt(s, i + a - 1, k)
      BY <2>1, <2>2
    <3>. QED BY <1>2, <3>1
  <2>5. AnsweredBut(t, i)
    <3>1. \A l \in 1..Len(t) : l # i => l + a - 1 # o
      BY <1>1, <2>2
    <3>. QED BY <1>1, <1>5, <3>1 DEF AnsweredBut
  <2>6. Complete(t, i, d)
    BY <1>1, <1>4, <2>1, <2>2, <2>3, <2>4, <2>5 DEF Complete
  <2>7. ~ (o < a)
    BY <1>1, <1>7
  <2>. QED BY <2>2, <2>6, <2>7
<1>. QED BY <1>1, <1>6, <1>7

\* ... and when it ends before one that is no result.
LEMMA Prefix ==
  ASSUME NEW s \in Seq(Msg), NEW o \in Nat, NEW d \in Nat, Complete(s, o, d),
         NEW b \in Nat, b < Len(s), ~ IsResult(s[b + 1]), o = 0 \/ b < o, NEW t, Part(t, s, 1, b)
  PROVE  Blocks(t)
<1>1. /\ Len(s) \in Nat /\ DOMAIN s = 1..Len(s)
      /\ t \in Seq(Msg) /\ Len(t) = b /\ DOMAIN t = 1..b
      /\ \A i \in 1..b : t[i] = s[i] /\ i \in 1..Len(s)
  <2>1. t \in Seq(Msg) /\ Len(t) = b - 1 + 1 /\ \A i \in 1..Len(t) : t[i] = s[i + 1 - 1]
    BY DEF Part
  <2>. QED BY <2>1, Numbers
<1>2. Results(t)
  <2> SUFFICES ASSUME NEW j \in 1..b, IsResult(t[j]) PROVE OfCalls(t, j)
    BY <1>1 DEF Results
  <2>1. j \in 1..Len(s) /\ t[j] = s[j] /\ IsResult(s[j])
    BY <1>1
  <2>2. PICK p \in 1..Len(s) : /\ s[p].t = "calls" /\ s[p].id = s[j].id
                               /\ s[j].k \in 1..s[p].k /\ j = p + s[j].k
    BY <1>1, <2>1 DEF Complete, Results, OfCalls
  <2>3. s[j].k \in Nat
    BY <2>1, Numbers
  <2>4. p \in 1..b /\ t[p] = s[p]
    <3>1. p \in 1..b
      BY <1>1, <2>2, <2>3
    <3>. QED BY <1>1, <3>1
  <2>. QED BY <1>1, <2>1, <2>2, <2>4 DEF OfCalls
<1>3. ASSUME NEW i \in 1..b, t[i].t = "calls", NEW k \in 1..t[i].k PROVE ResultAt(t, i, k)
  <2>1. i \in 1..Len(s) /\ t[i] = s[i] /\ t[i].k \in Nat /\ i # o /\ k \in Nat /\ i \in Nat
    BY <1>1, Numbers
  <2>2. \A l \in 1..s[i].k : ResultAt(s, i, l)
    BY <1>1, <1>3, <2>1 DEF Complete, AnsweredBut
  <2>3. ResultAt(s, i, k)
    BY <2>1, <2>2
  <2>4. i + k <= b
    <3>1. b + 1 \in 1..Len(s) /\ i < b + 1 /\ i + k <= Len(s)
      BY <1>1, <2>1, <2>3 DEF ResultAt
    <3>2. i + k < b + 1
      BY <1>3, <2>1, <3>1, NotBeyond
    <3>. QED BY <1>1, <2>1, <3>2
  <2>5. i + k \in 1..b /\ t[i + k] = s[i + k]
    BY <1>1, <2>1, <2>4
  <2>. QED BY <1>1, <2>1, <2>3, <2>5 DEF ResultAt
<1>4. AnsweredBut(t, 0)
  BY <1>1, <1>3 DEF AnsweredBut
<1>. QED BY <1>2, <1>4 DEF Blocks

\* What two sequences of messages have of calls and results stays when they are joined.
LEMMA Stays ==
  ASSUME NEW s \in Seq(Msg), NEW t \in Seq(Msg)
  PROVE  /\ s \o t \in Seq(Msg) /\ Len(s \o t) = Len(s) + Len(t)
         /\ \A i \in 1..Len(s) : i \in 1..Len(s \o t) /\ (s \o t)[i] = s[i]
         /\ \A i \in 1..Len(t) : Len(s) + i \in 1..Len(s \o t) /\ (s \o t)[Len(s) + i] = t[i]
         /\ \A i \in 1..Len(s \o t) : i \in 1..Len(s) \/ \E j \in 1..Len(t) : i = Len(s) + j
         /\ \A i \in 1..Len(s), k \in Nat : ResultAt(s, i, k) => ResultAt(s \o t, i, k)
         /\ \A i \in 1..Len(t), k \in Nat : ResultAt(t, i, k) => ResultAt(s \o t, Len(s) + i, k)
         /\ \A j \in 1..Len(s) : OfCalls(s, j) => OfCalls(s \o t, j)
         /\ \A j \in 1..Len(t) : OfCalls(t, j) => OfCalls(s \o t, Len(s) + j)
<1> DEFINE u == s \o t
<1> DEFINE n == Len(s)
<1>1. /\ u \in Seq(Msg) /\ n \in Nat /\ Len(t) \in Nat /\ Len(u) = n + Len(t) /\ n = Len(s)
      /\ DOMAIN s = 1..n /\ DOMAIN t = 1..Len(t) /\ DOMAIN u = 1..Len(u)
  OBVIOUS
<1>2. \A i \in 1..n : i \in 1..Len(u) /\ u[i] = s[i]
  OBVIOUS
<1>3. \A i \in 1..Len(t) : n + i \in 1..Len(u) /\ u[n + i] = t[i]
  OBVIOUS
<1>4. \A i \in 1..Len(u) : i \in 1..n \/ \E j \in 1..Len(t) : i = n + j
  <2> TAKE i \in 1..Len(u)
  <2>1. CASE n < i
    <3>1. i - n \in 1..Len(t) /\ i = n + (i - n)
      BY <1>1, <2>1
    <3>. QED BY <3>1
  <2>. QED BY <1>1, <2>1
<1> HIDE DEF u, n
<1>5. ASSUME NEW i \in 1..n, NEW k \in Nat, ResultAt(s, i, k) PROVE ResultAt(u, i, k)
  <2>1. i + k \in 1..n /\ i + k <= Len(u)
    BY <1>1, <1>5 DEF ResultAt
  <2>. QED BY <1>2, <1>5, <2>1 DEF ResultAt
<1>6. ASSUME NEW i \in 1..Len(t), NEW k \in Nat, ResultAt(t, i, k) PROVE ResultAt(u, n + i, k)
  <2>1. i + k \in 1..Len(t) /\ (n + i) + k = n + (i + k) /\ (n + i) + k <= Len(u)
    BY <1>1, <1>6 DEF ResultAt
  <2>. QED BY <1>3, <1>6, <2>1 DEF ResultAt
<1>7. ASSUME NEW j \in 1..n, OfCalls(s, j) PROVE OfCalls(u, j)
  BY <1>1, <1>2, <1>7 DEF OfCalls
<1>8. ASSUME NEW j \in 1..Len(t), OfCalls(t, j) PROVE OfCalls(u, n + j)
  <2>1. PICK i \in 1..Len(t) : /\ t[i].t = "calls" /\ t[i].id = t[j].id
                               /\ t[j].k \in 1..t[i].k /\ j = i + t[j].k
    BY <1>1, <1>8 DEF OfCalls
  <2>2. t[j].k \in Nat
    BY Numbers
  <2>3. n + i \in DOMAIN u /\ u[n + i] = t[i] /\ u[n + j] = t[j]
    BY <1>1, <1>3
  <2>4. n + j = (n + i) + t[j].k
    <3>1. n \in Nat /\ i \in Nat /\ j \in Nat
      BY <1>1
    <3>. QED BY <2>1, <2>2, <3>1
  <2>. QED BY <2>1, <2>3, <2>4 DEF OfCalls
<1>. QED BY <1>1, <1>2, <1>3, <1>4, <1>5, <1>6, <1>7, <1>8 DEF u, n

\* Two well-formed histories, one after the other, are one.
LEMMA JoinedBlocks ==
  ASSUME NEW s \in Seq(Msg), NEW t \in Seq(Msg), Blocks(s), Blocks(t)
  PROVE  Blocks(s \o t)
<1> DEFINE u == s \o t
<1> DEFINE n == Len(s)
<1>1. /\ u \in Seq(Msg) /\ n \in Nat /\ n = Len(s)
      /\ DOMAIN s = 1..n /\ DOMAIN t = 1..Len(t) /\ DOMAIN u = 1..Len(u)
  BY Stays
<1>2. /\ \A i \in 1..n : u[i] = s[i]
      /\ \A i \in 1..Len(t) : u[n + i] = t[i]
      /\ \A i \in 1..Len(u) : i \in 1..n \/ \E j \in 1..Len(t) : i = n + j
  BY Stays
<1>3. /\ \A i \in 1..n, k \in Nat : ResultAt(s, i, k) => ResultAt(u, i, k)
      /\ \A i \in 1..Len(t), k \in Nat : ResultAt(t, i, k) => ResultAt(u, n + i, k)
      /\ \A j \in 1..n : OfCalls(s, j) => OfCalls(u, j)
      /\ \A j \in 1..Len(t) : OfCalls(t, j) => OfCalls(u, n + j)
  BY Stays
<1> HIDE DEF u, n
<1>4. Results(u)
  <2> SUFFICES ASSUME NEW j \in 1..Len(u), IsResult(u[j]) PROVE OfCalls(u, j)
    BY <1>1 DEF Results
  <2>1. CASE j \in 1..n
    BY <1>1, <1>2, <1>3, <2>1 DEF Blocks, Results
  <2>2. ASSUME NEW i \in 1..Len(t), j = n + i PROVE OfCalls(u, j)
    BY <1>1, <1>2, <1>3, <2>2 DEF Blocks, Results
  <2>. QED BY <1>2, <2>1, <2>2
<1>5. ASSUME NEW i \in 1..Len(u), u[i].t = "calls", NEW k \in 1..u[i].k PROVE ResultAt(u, i, k)
  <2>1. k \in Nat
    BY <1>1, Numbers
  <2>2. CASE i \in 1..n
    <3>0. i \in DOMAIN s /\ s[i].t = "calls" /\ k \in 1..s[i].k /\ i # 0
      BY <1>1, <1>2, <1>5, <2>2
    <3>1. ResultAt(s, i, k)
      BY <3>0 DEF Blocks, AnsweredBut
    <3>. QED BY <1>3, <2>1, <2>2, <3>1
  <2>3. ASSUME NEW j \in 1..Len(t), i = n + j PROVE ResultAt(u, i, k)
    <3>0. u[i] = t[j] /\ j # 0 /\ j \in DOMAIN t
      BY <1>1, <1>2, <2>3
    <3>2. t[j].t = "calls" /\ k \in 1..t[j].k
      BY <1>5, <3>0
    <3>1. ResultAt(t, j, k)
      BY <3>0, <3>2 DEF Blocks, AnsweredBut
    <3>. QED BY <1>3, <2>1, <2>3, <3>1
  <2>. QED BY <1>2, <2>2, <2>3
<1>6. Blocks(u)
  BY <1>1, <1>4, <1>5 DEF Blocks, AnsweredBut
<1>. QED BY <1>6 DEF u

\* A text is a well-formed history ...
LEMMA SingleBlocks ==
  ASSUME NEW m \in Msg, m.t \notin {"calls", "result"}
  PROVE  <<m>> \in Seq(Msg) /\ Blocks(<<m>>)
<1>1. <<m>> \in Seq(Msg) /\ DOMAIN <<m>> = {1} /\ <<m>>[1] = m
  OBVIOUS
<1>. QED BY <1>1 DEF Blocks, Results, AnsweredBut, IsResult

\* The end of a sequence with one message more.
LEMMA OneLonger ==
  ASSUME NEW s \in Seq(Msg), NEW m \in Msg
  PROVE  /\ Append(s, m) = s \o <<m>> /\ Append(s, m) \in Seq(Msg) /\ Len(Append(s, m)) = Len(s) + 1
         /\ Append(s, m)[Len(s) + 1] = m /\ DOMAIN Append(s, m) = 1..(Len(s) + 1)
         /\ \A i \in 1..Len(s) : Append(s, m)[i] = s[i]
         /\ \A i \in 1..Len(s), k \in Nat : ResultAt(s, i, k) => ResultAt(Append(s, m), i, k)
         /\ \A j \in 1..Len(s) : OfCalls(s, j) => OfCalls(Append(s, m), j)
<1>1. Append(s, m) = s \o <<m>> /\ <<m>> \in Seq(Msg)
  OBVIOUS
<1>2. /\ Append(s, m) \in Seq(Msg) /\ Len(Append(s, m)) = Len(s) + 1
      /\ Append(s, m)[Len(s) + 1] = m /\ DOMAIN Append(s, m) = 1..(Len(s) + 1)
      /\ \A i \in 1..Len(s) : Append(s, m)[i] = s[i]
  OBVIOUS
<1>3. /\ \A i \in 1..Len(s), k \in Nat : ResultAt(s, i, k) => ResultAt(s \o <<m>>, i, k)
      /\ \A j \in 1..Len(s) : OfCalls(s, j) => OfCalls(s \o <<m>>, j)
  BY <1>1, Stays
<1>. QED BY <1>1, <1>2, <1>3

\* ... and one more text leaves one.
LEMMA MoreBlocks ==
  ASSUME NEW s \in Seq(Msg), NEW m \in Msg, Blocks(s), m.t \notin {"calls", "result"}
  PROVE  Blocks(Append(s, m))
BY OneLonger, SingleBlocks, JoinedBlocks

\* A message with calls opens a batch ...
LEMMA MoreCalls ==
  ASSUME NEW s \in Seq(Msg), NEW m \in Msg, Blocks(s), m.t = "calls"
  PROVE  Unfinished(Append(s, m), 0) /\ Append(s, m)[Len(Append(s, m)) - 0] = m
<1> DEFINE u == Append(s, m)
<1> DEFINE n == Len(s)
<1>1. /\ u \in Seq(Msg) /\ n \in Nat /\ Len(u) = n + 1 /\ u[n + 1] = m /\ DOMAIN u = 1..(n + 1)
      /\ DOMAIN s = 1..n /\ \A i \in 1..n : u[i] = s[i]
      /\ \A i \in 1..n, k \in Nat : ResultAt(s, i, k) => ResultAt(u, i, k)
      /\ \A j \in 1..n : OfCalls(s, j) => OfCalls(u, j)
  BY OneLonger, Numbers
<1> HIDE DEF u, n
<1>2. Results(u)
  BY <1>1 DEF Blocks, Results, IsResult
<1>3. ASSUME NEW i \in 1..n, u[i].t = "calls", NEW k \in 1..u[i].k PROVE ResultAt(u, i, k)
  <2>1. k \in Nat /\ i \in DOMAIN u
    BY <1>1, Numbers
  <2>2. ResultAt(s, i, k)
    BY <1>1, <1>3 DEF Blocks, AnsweredBut
  <2>. QED BY <1>1, <2>1, <2>2
<1>4. AnsweredBut(u, n + 1)
  <2>1. \A i \in 1..(n + 1) : i # n + 1 => i \in 1..n
    BY <1>1
  <2>. QED BY <1>1, <1>3, <2>1 DEF AnsweredBut
<1>5. Len(u) - 0 = n + 1 /\ m.k \in Nat
  BY <1>1 DEF Msg
<1>6. Unfinished(u, 0) /\ u[Len(u) - 0] = m
  BY <1>1, <1>2, <1>4, <1>5 DEF Unfinished
<1>. QED BY <1>6 DEF u

\* ... each result of it brings it further ...
LEMMA MoreResults ==
  ASSUME NEW s \in Seq(Msg), NEW m \in Msg, NEW d \in Nat, Unfinished(s, d),
         IsResult(m), m.id = s[Len(s) - d].id, m.k = d + 1, d < s[Len(s) - d].k
  PROVE  Unfinished(Append(s, m), d + 1) /\ Append(s, m)[Len(Append(s, m)) - (d + 1)] = s[Len(s) - d]
<1> DEFINE u == Append(s, m)
<1> DEFINE n == Len(s)
<1>1. /\ u \in Seq(Msg) /\ n \in Nat /\ Len(u) = n + 1 /\ u[n + 1] = m /\ DOMAIN u = 1..(n + 1)
      /\ DOMAIN s = 1..n /\ \A i \in 1..n : u[i] = s[i]
      /\ \A i \in 1..n, k \in Nat : ResultAt(s, i, k) => ResultAt(u, i, k)
      /\ \A j \in 1..n : OfCalls(s, j) => OfCalls(u, j)
  BY OneLonger, Numbers
<1>2. n = Len(s)
  OBVIOUS
<1> HIDE DEF u, n
<1>3. PICK o \in 1..n : o = n - d /\ o + d = n
  <2>1. n - d \in 1..n /\ (n - d) + d = n
    BY <1>1, <1>2 DEF Unfinished
  <2>. QED BY <2>1
<1>4. /\ Results(s) /\ AnsweredBut(s, o) /\ s[o].t = "calls" /\ d < s[o].k
      /\ \A k \in 1..d : ResultAt(s, o, k)
      /\ m.id = s[o].id
  BY <1>2, <1>3 DEF Unfinished
<1>5. u[o] = s[o] /\ s[o].k \in Nat /\ o \in Nat /\ n + 1 = o + (d + 1)
  BY <1>1, <1>2, <1>3, Numbers
<1>6. OfCalls(u, n + 1)
  <2>1. o \in DOMAIN u /\ u[o].t = "calls" /\ u[o].id = u[n + 1].id
    BY <1>1, <1>4, <1>5
  <2>2. u[n + 1].k \in 1..u[o].k /\ n + 1 = o + u[n + 1].k
    <3>1. u[n + 1].k = d + 1 /\ d + 1 \in 1..s[o].k
      BY <1>1, <1>4, <1>5
    <3>. QED BY <1>5, <3>1
  <2>. QED BY <2>1, <2>2 DEF OfCalls
<1>7. Results(u)
  <2>1. \A j \in 1..(n + 1) : j = n + 1 \/ j \in 1..n
    BY <1>1
  <2>. QED BY <1>1, <1>4, <1>6, <2>1 DEF Results
<1>8. ResultAt(u, o, d + 1)
  <2>1. o + (d + 1) <= Len(u) /\ u[o + (d + 1)] = m
    BY <1>1, <1>5
  <2>. QED BY <1>4, <1>5, <2>1 DEF ResultAt
<1>9. \A k \in 1..(d + 1) : ResultAt(u, o, k)
  <2>1. \A k \in 1..(d + 1) : k = d + 1 \/ k \in 1..d
    OBVIOUS
  <2>2. \A k \in 1..d : ResultAt(u, o, k)
    BY <1>1, <1>4
  <2>. QED BY <1>8, <2>1, <2>2
<1>10. ASSUME NEW i \in 1..n, i # o, u[i].t = "calls", NEW k \in 1..u[i].k PROVE ResultAt(u, i, k)
  <2>1. k \in Nat /\ i \in DOMAIN u
    BY <1>1, Numbers
  <2>2. ResultAt(s, i, k)
    BY <1>1, <1>4, <1>10 DEF AnsweredBut
  <2>. QED BY <1>1, <2>1, <2>2
<1>11. AnsweredBut(u, o)
  <2>1. \A i \in 1..(n + 1) : i = n + 1 \/ i \in 1..n
    BY <1>1
  <2>2. u[n + 1].t # "calls"
    BY <1>1 DEF IsResult
  <2>. QED BY <1>1, <1>10, <2>1, <2>2 DEF AnsweredBut
<1>12. Len(u) - (d + 1) = o /\ d + 1 < Len(u) /\ d + 1 <= s[o].k
  BY <1>1, <1>4, <1>5
<1>13. Unfinished(u, d + 1) /\ u[Len(u) - (d + 1)] = s[o]
  BY <1>4, <1>5, <1>7, <1>9, <1>11, <1>12 DEF Unfinished
<1>. QED BY <1>2, <1>3, <1>13 DEF u

\* The last call is answered, too.
LEMMA AllAnswered ==
  ASSUME NEW s \in Seq(Msg), NEW d \in Nat, Unfinished(s, d), d = s[Len(s) - d].k
  PROVE  Blocks(s)
<1>1. Len(s) - d \in DOMAIN s /\ Len(s) - d # 0
  BY Numbers DEF Unfinished
<1>2. AnsweredBut(s, 0)
  BY <1>1 DEF Unfinished, AnsweredBut
<1>. QED BY <1>2 DEF Unfinished, Blocks

\* Only what the messages are called counts, and not their form.
LEMMA ShortenedIs ==
  ASSUME NEW s \in Seq(Msg)
  PROVE  /\ Shorten(s) \in Seq(Msg) /\ Len(Shorten(s)) = Len(s)
         /\ \A i \in 1..Len(s) : /\ Shorten(s)[i].t = s[i].t /\ Shorten(s)[i].id = s[i].id
                                 /\ Shorten(s)[i].k = s[i].k
                                 /\ (~ IsResult(s[i]) => Shorten(s)[i] = s[i])
<1>1. \A m \in Msg : LET w == IF IsResult(m) THEN [m EXCEPT !.form = "cut"] ELSE m IN
                     /\ w \in Msg /\ w.t = m.t /\ w.id = m.id /\ w.k = m.k /\ (~ IsResult(m) => w = m)
  BY DEF Msg
<1>2. DOMAIN s = 1..Len(s) /\ Len(s) \in Nat /\ \A i \in 1..Len(s) : s[i] \in Msg
  OBVIOUS
<1>3. Shorten(s) = [i \in 1..Len(s) |-> IF IsResult(s[i]) THEN [s[i] EXCEPT !.form = "cut"] ELSE s[i]]
  BY <1>2 DEF Shorten
<1>4. Shorten(s) \in [1..Len(s) -> Msg]
  BY <1>1, <1>2, <1>3
<1>5. Shorten(s) \in Seq(Msg) /\ Len(Shorten(s)) = Len(s)
  BY <1>2, <1>4
<1>. QED BY <1>1, <1>2, <1>3, <1>5

\* A shortened result is still a result of its call.
LEMMA ShortenedBlocks ==
  ASSUME NEW s \in Seq(Msg), Blocks(s)
  PROVE  Blocks(Shorten(s))
<1> DEFINE t == Shorten(s)
<1>1. /\ t \in Seq(Msg) /\ Len(t) = Len(s) /\ DOMAIN s = 1..Len(s) /\ DOMAIN t = 1..Len(s) /\ Len(s) \in Nat
      /\ \A i \in 1..Len(s) : t[i].t = s[i].t /\ t[i].id = s[i].id /\ t[i].k = s[i].k
  BY ShortenedIs
<1> HIDE DEF t
<1>2. ASSUME NEW i \in 1..Len(s), NEW k \in Nat, ResultAt(s, i, k) PROVE ResultAt(t, i, k)
  <2>1. i + k \in 1..Len(s)
    BY <1>1, <1>2 DEF ResultAt
  <2>. QED BY <1>1, <1>2, <2>1 DEF ResultAt, IsResult
<1>3. Results(t)
  <2> SUFFICES ASSUME NEW j \in 1..Len(s), IsResult(t[j]) PROVE OfCalls(t, j)
    BY <1>1 DEF Results
  <2>1. OfCalls(s, j)
    BY <1>1 DEF Blocks, Results, IsResult
  <2>. QED BY <1>1, <2>1 DEF OfCalls
<1>4. ASSUME NEW i \in 1..Len(s), t[i].t = "calls", NEW k \in 1..t[i].k PROVE ResultAt(t, i, k)
  <2>1. k \in Nat
    BY <1>1, Numbers
  <2>2. i \in DOMAIN s /\ s[i].t = "calls" /\ k \in 1..s[i].k /\ i # 0
    BY <1>1, <1>4
  <2>3. ResultAt(s, i, k)
    BY <2>2 DEF Blocks, AnsweredBut
  <2>. QED BY <1>2, <2>1, <2>3
<1>5. Blocks(t)
  BY <1>1, <1>3, <1>4 DEF Blocks, AnsweredBut
<1>. QED BY <1>5 DEF t

-----------------------------------------------------------------------------
(* Windows. *)

\* The least and the greatest of some numbers.
LEMMA Least ==
  ASSUME NEW S, S \subseteq Nat, S # {}
  PROVE  Min(S) \in S /\ \A y \in S : Min(S) <= y
<1>1. PICK x \in S : \A y \in S : ~ (<<y, x>> \in OpToRel(<, Nat))
  BY NatLessThanWellFounded, WFMin
<1>2. \A y \in S : ~ (y < x)
  BY <1>1 DEF OpToRel
<1>3. \A y \in S : x <= y
  BY <1>2
<1>. QED BY <1>3 DEF Min

\* They have a greatest one if there are finitely many.
LEMMA Greatest ==
  ASSUME NEW n \in Nat, NEW S, S \subseteq 0..n, S # {}
  PROVE  Max(S) \in S /\ \A y \in S : y <= Max(S)
<1> DEFINE T == {x \in Nat : \A y \in S : y <= x}
<1>1. n \in T /\ T \subseteq Nat
  OBVIOUS
<1>2. PICK x \in T : \A y \in T : x <= y
  <2> HIDE DEF T
  <2>. QED BY <1>1, Least
<1>3. x \in S
  <2> SUFFICES ASSUME x \notin S PROVE FALSE
    OBVIOUS
  <2>1. \A y \in S : y \in Nat /\ y <= x /\ y # x
    OBVIOUS
  <2>4. x \in Nat
    OBVIOUS
  <2>2. x # 0 /\ x \in Nat
    <3>1. PICK y \in S : TRUE
      OBVIOUS
    <3>. QED BY <2>1, <2>4, <3>1
  <2>3. x - 1 \in T
    BY <2>1, <2>2
  <2>. QED BY <1>2, <2>2, <2>3
<1>4. \A y \in S : x >= y
  OBVIOUS
<1>5. Max(S) \in S /\ \A y \in S : Max(S) >= y
  BY <1>3, <1>4 DEF Max
<1>. QED BY <1>5

\* A part has no messages of its own.
LEMMA PartHas ==
  ASSUME NEW s \in Seq(Msg), NEW a, NEW b, NEW t, Part(t, s, a, b)
  PROVE  t \in Seq(Msg) /\ ToSet(t) \subseteq ToSet(s)
<1>1. \A i \in 1..Len(t) : i + a - 1 \in 1..Len(s) /\ t[i] = s[i + a - 1]
  <2>1. /\ a \in Nat /\ a # 0 /\ b \in Nat /\ b <= Len(s) /\ Len(s) \in Nat /\ Len(t) = b - a + 1
        /\ a <= b + 1
    BY DEF Part
  <2>2. \A i \in 1..Len(t) : i + a - 1 \in 1..Len(s)
    BY <2>1
  <2>. QED BY <2>2 DEF Part
<1>2. t \in Seq(Msg) /\ DOMAIN t = 1..Len(t) /\ DOMAIN s = 1..Len(s)
  BY DEF Part
<1>. QED BY <1>1, <1>2 DEF ToSet

\* The newest messages are a part at the end.
LEMMA NewestIs ==
  ASSUME NEW s \in Seq(Msg), NEW n \in Nat
  PROVE  /\ Newest(s, n) \in Seq(Msg) /\ ToSet(Newest(s, n)) \subseteq ToSet(s)
         /\ \E a : Part(Newest(s, n), s, a, Len(s))
<1>1. \E a : Part(Newest(s, n), s, a, Len(s))
  <2>1. CASE n >= Len(s)
    <3>1. Part(s, s, 1, Len(s))
      BY DEF Part
    <3>. QED BY <2>1, <3>1 DEF Newest
  <2>2. CASE ~ (n >= Len(s))
    <3>1. Len(s) - n + 1 \in Nat \ {0} /\ Len(s) \in 0..Len(s) /\ Len(s) - n + 1 <= Len(s) + 1
      BY <2>2
    <3>2. Part(SubSeq(s, Len(s) - n + 1, Len(s)), s, Len(s) - n + 1, Len(s))
      BY <3>1, PartIs
    <3>. QED BY <2>2, <3>2 DEF Newest
  <2>. QED BY <2>1, <2>2
<1>. QED BY <1>1, PartHas

\* What is left when the leading results are dropped.
LEMMA LeadingIs ==
  ASSUME NEW t \in Seq(Msg)
  PROVE  LET u == DropLeadingResults(t) IN
         \/ u = <<>> /\ \A i \in 1..Len(t) : IsResult(t[i])
         \/ \E a \in 1..Len(t) : /\ Part(u, t, a, Len(t)) /\ ~ IsResult(t[a])
                                 /\ \A i \in 1..Len(t) : i < a => IsResult(t[i])
<1> DEFINE first == {i \in DOMAIN t : ~ IsResult(t[i])}
<1>1. DropLeadingResults(t) = IF first = {} THEN <<>> ELSE SubSeq(t, Min(first), Len(t))
  BY DEF DropLeadingResults
<1>2. DOMAIN t = 1..Len(t) /\ Len(t) \in Nat
  OBVIOUS
<1>3. CASE first = {}
  BY <1>1, <1>2, <1>3
<1>4. CASE first # {}
  <2>1. first \subseteq Nat
    BY <1>2
  <2>2. PICK a \in first : a = Min(first) /\ \A y \in first : a <= y
    <3> HIDE DEF first
    <3>. QED BY <1>4, <2>1, Least
  <2>3. a \in 1..Len(t) /\ a \in Nat \ {0} /\ ~ IsResult(t[a])
    BY <1>2
  <2>4. \A i \in 1..Len(t) : i < a => IsResult(t[i])
    <3> TAKE i \in 1..Len(t)
    <3> HAVE i < a
    <3> SUFFICES ASSUME ~ IsResult(t[i]) PROVE FALSE
      OBVIOUS
    <3>1. i \in first /\ i \in Nat /\ a \in Nat
      BY <1>2, <2>3
    <3> HIDE DEF first
    <3>. QED BY <2>2, <3>1
  <2>5. Part(SubSeq(t, a, Len(t)), t, a, Len(t))
    <3>1. Len(t) \in 0..Len(t) /\ a <= Len(t) + 1
      BY <1>2, <2>3
    <3>. QED BY <2>3, <3>1, PartIs
  <2>. QED BY <1>1, <1>4, <2>2, <2>3, <2>4, <2>5
<1>. QED BY <1>3, <1>4

\* Dropping a trailing batch adds no message.
LEMMA TrailingIs ==
  ASSUME NEW u \in Seq(Msg)
  PROVE  DropTrailingUnpaired(u) \in Seq(Msg) /\ ToSet(DropTrailingUnpaired(u)) \subseteq ToSet(u)
<1> DEFINE withCalls == {i \in DOMAIN u : u[i].t = "calls"}
<1> DEFINE cut == {i \in withCalls : \A j \in withCalls : j >= i => ~ Paired(u, j)}
<1>1. DropTrailingUnpaired(u) = IF cut = {} THEN u ELSE SubSeq(u, 1, Min(cut) - 1)
  BY DEF DropTrailingUnpaired
<1>2. CASE cut # {}
  <2>1. cut \subseteq 1..Len(u) /\ cut \subseteq Nat
    OBVIOUS
  <2>2. Min(cut) \in 1..Len(u)
    <3> HIDE DEF cut
    <3>. QED BY <1>2, <2>1, Least
  <2>3. Min(cut) - 1 \in 0..Len(u) /\ 1 <= (Min(cut) - 1) + 1 /\ 1 \in Nat \ {0}
    BY <2>2
  <2>4. Part(SubSeq(u, 1, Min(cut) - 1), u, 1, Min(cut) - 1)
    BY <2>3, PartIs
  <2>. QED BY <1>1, <1>2, <2>4, PartHas
<1>. QED BY <1>1, <1>2

\* Nor does the repair of a window.
LEMMA ValidIs ==
  ASSUME NEW t \in Seq(Msg)
  PROVE  Valid(t) \in Seq(Msg) /\ ToSet(Valid(t)) \subseteq ToSet(t)
<1> DEFINE u == DropLeadingResults(t)
<1>1. u \in Seq(Msg) /\ ToSet(u) \subseteq ToSet(t)
  <2>1. CASE u = <<>>
    BY <2>1 DEF ToSet
  <2>2. ASSUME NEW a \in 1..Len(t), Part(u, t, a, Len(t)) PROVE u \in Seq(Msg) /\ ToSet(u) \subseteq ToSet(t)
    BY <2>2, PartHas
  <2>. QED BY <2>1, <2>2, LeadingIs
<1> HIDE DEF u
<1>2. DropTrailingUnpaired(u) \in Seq(Msg) /\ ToSet(DropTrailingUnpaired(u)) \subseteq ToSet(u)
  BY <1>1, TrailingIs
<1>. QED BY <1>1, <1>2 DEF Valid, u

\* Calls with all their results are not dropped.
LEMMA PairedIs ==
  ASSUME NEW s \in Seq(Msg), NEW i \in 1..Len(s), s[i].t = "calls", Has(s, i, s[i].k)
  PROVE  Paired(s, i)
<1>1. s[i].k \in Nat /\ i \in Nat /\ Len(s) \in Nat
  BY Numbers
<1>2. ASSUME NEW k \in 1..s[i].k
      PROVE  \E j \in (i + 1)..Len(s) : /\ IsResult(s[j]) /\ s[j].id = s[i].id /\ s[j].k = k
                                        /\ \A l \in (i + 1)..j : s[l].t # "calls"
  <2>1. k \in Nat /\ k # 0 /\ ResultAt(s, i, k)
    BY <1>1 DEF Has
  <2>2. i + k \in (i + 1)..Len(s)
    BY <1>1, <2>1 DEF ResultAt
  <2>3. ASSUME NEW l \in (i + 1)..(i + k) PROVE s[l].t # "calls"
    <3>1. l - i \in 1..s[i].k /\ i + (l - i) = l
      BY <1>1, <2>1
    <3>2. ResultAt(s, i, l - i)
      BY <3>1 DEF Has
    <3>. QED BY <3>1, <3>2 DEF ResultAt, IsResult
  <2>. QED BY <2>1, <2>2, <2>3 DEF ResultAt
<1>. QED BY <1>2 DEF Paired

\* The calls that lack a result are cut off, and no others.
LEMMA TrailingCuts ==
  ASSUME NEW u \in Seq(Msg), NEW o \in Nat, NEW d \in Nat, Complete(u, o, d)
  PROVE  /\ Blocks(DropTrailingUnpaired(u))
         /\ o = 0 => DropTrailingUnpaired(u) = u
<1> DEFINE withCalls == {i \in DOMAIN u : u[i].t = "calls"}
<1> DEFINE cut == {i \in withCalls : \A j \in withCalls : j >= i => ~ Paired(u, j)}
<1>1. DropTrailingUnpaired(u) = IF cut = {} THEN u ELSE SubSeq(u, 1, Min(cut) - 1)
  BY DEF DropTrailingUnpaired
<1>2. DOMAIN u = 1..Len(u) /\ Len(u) \in Nat
  OBVIOUS
<1>3. \A i \in cut : i \in 1..Len(u) /\ u[i].t = "calls" /\ ~ Paired(u, i)
  BY <1>2
<1> HIDE DEF cut
<1>4. ASSUME NEW i \in 1..Len(u), u[i].t = "calls", i # o PROVE Paired(u, i)
  <2>1. Has(u, i, u[i].k)
    BY <1>2, <1>4 DEF Complete, AnsweredBut, Has
  <2>. QED BY <1>4, <2>1, PairedIs
<1>5. \A i \in cut : i = o
  BY <1>3, <1>4
<1>6. CASE cut = {}
  <2>1. Blocks(u)
    <3>1. CASE o = 0
      BY <3>1 DEF Complete, Blocks
    <3>2. CASE o # 0
      <4>1. o \in 1..Len(u) /\ u[o].t = "calls" /\ o + d = Len(u) /\ d <= u[o].k /\ Has(u, o, d)
        BY <1>2, <3>2 DEF Complete, Has
      <4>2. u[o].k \in Nat
        BY <4>1, Numbers
      <4>3. ~ (\A j \in withCalls : j >= o => ~ Paired(u, j))
        BY <1>2, <1>6, <4>1 DEF cut
      <4>4. Paired(u, o)
        <5>1. PICK j \in 1..Len(u) : u[j].t = "calls" /\ j >= o /\ Paired(u, j)
          BY <1>2, <4>3
        <5>2. ASSUME j # o PROVE FALSE
          <6>1. j - o \in 1..d /\ o + (j - o) = j
            BY <4>1, <5>1, <5>2
          <6>. QED BY <4>1, <5>1, <6>1 DEF Has, ResultAt, IsResult
        <5>. QED BY <5>1, <5>2
      <4>5. d = u[o].k
        <5> SUFFICES ASSUME d < u[o].k PROVE FALSE
          BY <4>1, <4>2
        <5>1. d + 1 \in 1..u[o].k
          BY <4>2
        <5>2. PICK j \in (o + 1)..Len(u) : u[j].k = d + 1
          BY <4>4, <5>1 DEF Paired
        <5>3. j - o \in 1..d /\ o + (j - o) = j
          BY <4>1, <5>2
        <5>4. u[j].k = j - o
          BY <4>1, <5>3 DEF Has, ResultAt
        <5>. QED BY <5>2, <5>3, <5>4
      <4>6. AnsweredBut(u, 0)
        BY <4>1, <4>5 DEF Complete, AnsweredBut, Has
      <4>. QED BY <4>6 DEF Blocks, Complete
    <3>. QED BY <3>1, <3>2
  <2>. QED BY <1>1, <1>6, <2>1
<1>7. CASE cut # {}
  <2>1. o \in cut /\ cut = {o}
    BY <1>5, <1>7
  <2>2. o \in 1..Len(u) /\ u[o].t = "calls"
    BY <1>3, <2>1
  <2>3. Min(cut) = o
    <3>1. cut \subseteq Nat
      BY <2>1
    <3>2. Min(cut) \in cut
      BY <1>7, <3>1, Least
    <3>. QED BY <1>5, <3>2
  <2>4. Part(SubSeq(u, 1, o - 1), u, 1, o - 1)
    <3>1. 1 \in Nat \ {0} /\ o - 1 \in 0..Len(u) /\ 1 <= (o - 1) + 1
      BY <2>2
    <3>. QED BY <3>1, PartIs
  <2>5. o - 1 \in Nat /\ o - 1 < Len(u) /\ (o - 1) + 1 = o /\ o - 1 < o
    BY <2>2
  <2>6. Blocks(SubSeq(u, 1, o - 1))
    <3>1. ~ IsResult(u[(o - 1) + 1])
      BY <2>2, <2>5 DEF IsResult
    <3>. QED BY <2>4, <2>5, <3>1, Prefix
  <2>. QED BY <1>1, <1>7, <2>2, <2>3, <2>6
<1>. QED BY <1>6, <1>7

\* An empty history is well-formed.
LEMMA NoneBlocks == <<>> \in Seq(Msg) /\ Blocks(<<>>)
<1>1. <<>> \in Seq(Msg) /\ DOMAIN <<>> = {}
  OBVIOUS
<1>. QED BY <1>1 DEF Blocks, Results, AnsweredBut

\* What is left of a window has all its results, and no result is left over.
LEMMA ValidBlocks ==
  ASSUME NEW s \in Seq(Msg), NEW o \in Nat, NEW d \in Nat, Complete(s, o, d),
         NEW t, NEW a, Part(t, s, a, Len(s))
  PROVE  /\ Blocks(Valid(t))
         /\ o = 0 => \A m \in ToSet(t) : ~ IsResult(m) => m \in ToSet(Valid(t))
<1> DEFINE u == DropLeadingResults(t)
<1>1. t \in Seq(Msg) /\ DOMAIN t = 1..Len(t) /\ Len(t) \in Nat
  BY DEF Part
<1>2. Valid(t) = DropTrailingUnpaired(u)
  BY DEF Valid
<1> HIDE DEF u
<1>3. CASE u = <<>> /\ \A i \in 1..Len(t) : IsResult(t[i])
  <2>1. u \in Seq(Msg) /\ Complete(u, 0, 0)
    BY <1>3, NoneBlocks, CompleteIs
  <2>2. Blocks(DropTrailingUnpaired(u))
    BY <2>1, TrailingCuts
  <2>. QED BY <1>1, <1>2, <1>3, <2>2 DEF ToSet
<1>4. ASSUME NEW c \in 1..Len(t), Part(u, t, c, Len(t)), ~ IsResult(t[c]),
             \A i \in 1..Len(t) : i < c => IsResult(t[i])
      PROVE  /\ Blocks(DropTrailingUnpaired(u))
             /\ o = 0 => \A m \in ToSet(t) : ~ IsResult(m) => m \in ToSet(DropTrailingUnpaired(u))
  <2>1. Part(u, s, c + a - 1, Len(t) + a - 1)
    BY <1>4, PartOfPart
  <2>2. /\ a \in Nat /\ a # 0 /\ Len(s) \in Nat /\ a <= Len(s) + 1 /\ Len(t) = Len(s) - a + 1
        /\ t[c] = s[c + a - 1] /\ c \in Nat
    BY DEF Part
  <2>3. PICK b \in 1..Len(s) : b = c + a - 1 /\ Len(t) + a - 1 = Len(s)
    <3>1. c + a - 1 \in 1..Len(s) /\ Len(t) + a - 1 = Len(s)
      BY <1>1, <2>2
    <3>. QED BY <3>1
  <2>4. IF o < b THEN Blocks(u) ELSE Complete(u, o - b + 1, d)
    BY <1>4, <2>1, <2>2, <2>3, Suffix
  <2>5. u \in Seq(Msg)
    BY <1>1, <1>4, PartHas
  <2>6. CASE o < b
    <3>1. Complete(u, 0, 0)
      BY <2>4, <2>5, <2>6, CompleteIs
    <3>2. Blocks(DropTrailingUnpaired(u)) /\ DropTrailingUnpaired(u) = u
      BY <2>5, <3>1, TrailingCuts
    <3>3. ASSUME NEW i \in 1..Len(t), ~ IsResult(t[i]) PROVE t[i] \in ToSet(u)
      <4>1. c <= i /\ c \in Nat /\ i \in Nat
        BY <1>4, <2>2, <3>3
      <4>2. Len(u) = Len(t) - c + 1 /\ \A l \in 1..Len(u) : u[l] = t[l + c - 1]
        BY <1>4 DEF Part
      <4>3. i - c + 1 \in 1..Len(u) /\ (i - c + 1) + c - 1 = i
        BY <1>1, <4>1, <4>2
      <4>4. u[i - c + 1] = t[(i - c + 1) + c - 1]
        BY <4>2, <4>3
      <4>5. u[i - c + 1] = t[i]
        BY <4>3, <4>4
      <4>6. i - c + 1 \in DOMAIN u
        BY <2>5, <4>3
      <4>. QED BY <4>5, <4>6 DEF ToSet
    <3>. QED BY <1>1, <3>2, <3>3 DEF ToSet
  <2>7. CASE ~ (o < b)
    <3>1. o - b + 1 \in Nat /\ o # 0
      BY <2>7
    <3>. QED BY <2>4, <2>5, <2>7, <3>1, TrailingCuts
  <2>. QED BY <2>6, <2>7
<1>. QED BY <1>1, <1>2, <1>3, <1>4, LeadingIs DEF u

-----------------------------------------------------------------------------
(* What a compaction keeps, and what a resumed session gets. *)

\* The messages around the last word of the user are well-formed if the history is.
LEMMA RecentIs ==
  ASSUME NEW s \in Seq(Msg), \E m \in ToSet(s) : FromUser(m), NEW c \in Nat, c # 0
  PROVE  /\ Recent(s, c) \in Seq(Msg) /\ ToSet(Recent(s, c)) \subseteq ToSet(s)
         /\ Blocks(s) => Blocks(Recent(s, c))
<1> DEFINE U == {i \in DOMAIN s : FromUser(s[i])}
<1> DEFINE u == Max(U)
<1> DEFINE s1 == SubSeq(s, u + 1, Len(s))
<1> DEFINE t1 == Newest(s1, c - 1)
<1> DEFINE after == Valid(t1)
<1> DEFINE n == Max({0, c - 1 - Len(after)})
<1> DEFINE s2 == SubSeq(s, 1, u - 1)
<1> DEFINE t2 == Newest(s2, n)
<1> DEFINE before1 == Valid(t2)
<1>1. Recent(s, c) = before1 \o <<s[u]>> \o after
  BY DEF Recent
<1>2. DOMAIN s = 1..Len(s) /\ Len(s) \in Nat /\ \A i \in 1..Len(s) : s[i] \in ToSet(s) /\ s[i] \in Msg
  BY DEF ToSet
<1>3. u \in 1..Len(s) /\ FromUser(s[u])
  <2>1. U \subseteq 0..Len(s) /\ U # {}
    BY <1>2 DEF ToSet
  <2>2. u \in U
    <3> HIDE DEF U
    <3>. QED BY <1>2, <2>1, Greatest
  <2>. QED BY <1>2, <2>2
<1> HIDE DEF u
<1>4. Part(s1, s, u + 1, Len(s))
  <2>1. u + 1 \in Nat \ {0} /\ Len(s) \in 0..Len(s) /\ u + 1 <= Len(s) + 1
    BY <1>2, <1>3
  <2>. QED BY <2>1, PartIs
<1>5. Part(s2, s, 1, u - 1)
  <2>1. 1 \in Nat \ {0} /\ u - 1 \in 0..Len(s) /\ 1 <= (u - 1) + 1
    BY <1>2, <1>3
  <2>. QED BY <2>1, PartIs
<1> HIDE DEF s1, s2
<1>6. s1 \in Seq(Msg) /\ ToSet(s1) \subseteq ToSet(s) /\ s2 \in Seq(Msg) /\ ToSet(s2) \subseteq ToSet(s)
  BY <1>4, <1>5, PartHas
<1>7. PICK a1 : t1 \in Seq(Msg) /\ ToSet(t1) \subseteq ToSet(s1) /\ Part(t1, s1, a1, Len(s1))
  <2>1. c - 1 \in Nat
    OBVIOUS
  <2>. QED BY <1>6, <2>1, NewestIs
<1> HIDE DEF t1
<1>8. after \in Seq(Msg) /\ ToSet(after) \subseteq ToSet(t1)
  BY <1>7, ValidIs
<1> HIDE DEF after
<1>9. n \in Nat
  <2>1. Len(after) \in Nat
    BY <1>8
  <2>2. \E x \in {0, c - 1 - Len(after)} : \A y \in {0, c - 1 - Len(after)} : x >= y
    BY <2>1
  <2>3. n \in {0, c - 1 - Len(after)} /\ n >= 0
    BY <2>2 DEF Max
  <2>. QED BY <2>1, <2>3
<1> HIDE DEF n
<1>10. PICK a2 : t2 \in Seq(Msg) /\ ToSet(t2) \subseteq ToSet(s2) /\ Part(t2, s2, a2, Len(s2))
  BY <1>6, <1>9, NewestIs
<1> HIDE DEF t2
<1>11. before1 \in Seq(Msg) /\ ToSet(before1) \subseteq ToSet(t2)
  BY <1>10, ValidIs
<1> HIDE DEF before1
<1>12. <<s[u]>> \in Seq(Msg) /\ ToSet(<<s[u]>>) = {s[u]}
  <2>1. DOMAIN <<s[u]>> = {1} /\ <<s[u]>>[1] = s[u]
    OBVIOUS
  <2>. QED BY <1>2, <1>3, <2>1 DEF ToSet
<1>13. /\ (before1 \o <<s[u]>>) \in Seq(Msg) /\ (before1 \o <<s[u]>>) \o after \in Seq(Msg)
       /\ ToSet((before1 \o <<s[u]>>) \o after) \subseteq ToSet(before1) \cup {s[u]} \cup ToSet(after)
  <2>1. \A x, y \in Seq(Msg) : x \o y \in Seq(Msg) /\ ToSet(x \o y) \subseteq ToSet(x) \cup ToSet(y)
    <3> TAKE x, y \in Seq(Msg)
    <3>1. /\ x \o y \in Seq(Msg) /\ DOMAIN x = 1..Len(x) /\ DOMAIN y = 1..Len(y)
          /\ DOMAIN (x \o y) = 1..Len(x \o y)
          /\ \A i \in 1..Len(x) : (x \o y)[i] = x[i]
          /\ \A i \in 1..Len(y) : (x \o y)[Len(x) + i] = y[i]
          /\ \A i \in 1..Len(x \o y) : i \in 1..Len(x) \/ \E j \in 1..Len(y) : i = Len(x) + j
      BY Stays
    <3>2. ASSUME NEW i \in 1..Len(x \o y) PROVE (x \o y)[i] \in ToSet(x) \cup ToSet(y)
      <4>1. CASE i \in 1..Len(x)
        BY <3>1, <4>1 DEF ToSet
      <4>2. ASSUME NEW j \in 1..Len(y), i = Len(x) + j PROVE (x \o y)[i] \in ToSet(y)
        BY <3>1, <4>2 DEF ToSet
      <4>. QED BY <3>1, <4>1, <4>2
    <3>3. ToSet(x \o y) \subseteq ToSet(x) \cup ToSet(y)
      <4> SUFFICES ASSUME NEW e \in ToSet(x \o y) PROVE e \in ToSet(x) \cup ToSet(y)
        OBVIOUS
      <4>1. PICK i \in 1..Len(x \o y) : e = (x \o y)[i]
        BY <3>1 DEF ToSet
      <4>. QED BY <3>2, <4>1
    <3>. QED BY <3>1, <3>3
  <2>2. (before1 \o <<s[u]>>) \in Seq(Msg)
    BY <1>11, <1>12, <2>1
  <2>. QED BY <1>8, <1>11, <1>12, <2>1, <2>2
<1>14. ToSet(Recent(s, c)) \subseteq ToSet(s) /\ Recent(s, c) \in Seq(Msg)
  BY <1>1, <1>2, <1>3, <1>6, <1>7, <1>8, <1>10, <1>11, <1>13
<1>15. ASSUME Blocks(s) PROVE Blocks(Recent(s, c))
  <2>1. Complete(s, 0, 0)
    BY <1>15, CompleteIs
  <2>2. Blocks(after)
    <3>1. Part(t1, s, a1 + (u + 1) - 1, Len(s1) + (u + 1) - 1)
      BY <1>4, <1>7, PartOfPart
    <3>2. Len(s1) + (u + 1) - 1 = Len(s)
      BY <1>2, <1>3, <1>4 DEF Part
    <3>3. Part(t1, s, a1 + (u + 1) - 1, Len(s))
      BY <3>1, <3>2
    <3>. QED BY <2>1, <3>3, ValidBlocks DEF after
  <2>3. Blocks(s2)
    <3>1. u - 1 \in Nat /\ u - 1 < Len(s) /\ (u - 1) + 1 = u
      BY <1>2, <1>3
    <3>2. ~ IsResult(s[(u - 1) + 1])
      BY <1>3, <3>1 DEF IsResult, FromUser
    <3>. QED BY <1>5, <2>1, <3>1, <3>2, Prefix
  <2>4. Blocks(before1)
    <3>1. Complete(s2, 0, 0)
      BY <1>6, <2>3, CompleteIs
    <3>. QED BY <1>6, <1>10, <3>1, ValidBlocks DEF before1
  <2>5. Blocks(<<s[u]>>)
    <3>1. s[u] \in Msg /\ s[u].t \notin {"calls", "result"}
      BY <1>2, <1>3 DEF FromUser
    <3>. QED BY <3>1, SingleBlocks
  <2>6. Blocks(before1 \o <<s[u]>>)
    BY <1>11, <1>12, <2>4, <2>5, JoinedBlocks
  <2>. QED BY <1>1, <1>8, <1>13, <2>2, <2>6, JoinedBlocks
<1>. QED BY <1>14, <1>15

\* The messages after a compaction of s.
Kept(s, c, shorten) ==
    <<Summary>> \o (IF shorten THEN Shorten(Recent(s, c)) ELSE Recent(s, c))

\* The messages that the process makes.
LEMMA Formed ==
  /\ Summary \in Msg /\ FromUser(Summary) /\ HalfLine \in Line /\ HalfLine.t = "half"
  /\ run \in Nat =>
       /\ User \in Msg /\ FromUser(User) /\ User.t = "user" /\ Steer \in Msg /\ Steer.t = "steer"
       /\ \A id, k \in Nat :
            /\ Calls(id, k) \in Msg /\ Calls(id, k).t = "calls" /\ Calls(id, k).id = id /\ Calls(id, k).k = k
            /\ Draft(id) \in Msg /\ Draft(id).t = "draft" /\ Draft(id).run = run /\ Draft(id).id = id
            /\ Result(id, k) \in Msg /\ IsResult(Result(id, k))
            /\ Result(id, k).id = id /\ Result(id, k).k = k
            /\ LET w == [Result(id, k) EXCEPT !.form = "live"] IN
               w \in Msg /\ IsResult(w) /\ w.id = id /\ w.k = k
  /\ \A r, id \in Nat :
       /\ Delivered(r, id) \in Msg /\ Delivered(r, id).t = "answer" /\ Delivered(r, id).run = r
       /\ Settlement(r, id) \in Msg /\ Settlement(r, id).t = "settlement"
       /\ Settlement(r, id).run = r /\ Settlement(r, id).id = id
       /\ [Settlement(r, id) EXCEPT !.t = "answer"] = Delivered(r, id)
       /\ [Delivered(r, id) EXCEPT !.t = "settlement"] = Settlement(r, id)
<1>1. Summary \in Msg /\ FromUser(Summary) /\ HalfLine \in Line /\ HalfLine.t = "half"
  BY DEF Summary, HalfLine, Message, Msg, Line, Texts, FromUser
<1>2. ASSUME run \in Nat
      PROVE  User \in Msg /\ FromUser(User) /\ User.t = "user" /\ Steer \in Msg /\ Steer.t = "steer"
  BY <1>2 DEF User, Steer, Message, Msg, Texts, FromUser
<1>3. ASSUME run \in Nat, NEW id \in Nat, NEW k \in Nat
      PROVE  /\ Calls(id, k) \in Msg /\ Calls(id, k).t = "calls" /\ Calls(id, k).id = id /\ Calls(id, k).k = k
             /\ Draft(id) \in Msg /\ Draft(id).t = "draft" /\ Draft(id).run = run /\ Draft(id).id = id
  BY <1>3 DEF Calls, Draft, Message, Msg, Texts
<1>4. ASSUME run \in Nat, NEW id \in Nat, NEW k \in Nat
      PROVE  /\ Result(id, k) \in Msg /\ IsResult(Result(id, k))
             /\ Result(id, k).id = id /\ Result(id, k).k = k
             /\ LET w == [Result(id, k) EXCEPT !.form = "live"] IN
                w \in Msg /\ IsResult(w) /\ w.id = id /\ w.k = k
  BY <1>4 DEF Result, IsResult, Message, Msg, Texts
<1>5. ASSUME NEW r \in Nat, NEW id \in Nat
      PROVE  /\ Delivered(r, id) \in Msg /\ Delivered(r, id).t = "answer" /\ Delivered(r, id).run = r
             /\ Settlement(r, id) \in Msg /\ Settlement(r, id).t = "settlement"
             /\ Settlement(r, id).run = r /\ Settlement(r, id).id = id
             /\ [Settlement(r, id) EXCEPT !.t = "answer"] = Delivered(r, id)
             /\ [Delivered(r, id) EXCEPT !.t = "settlement"] = Settlement(r, id)
  BY <1>5 DEF Delivered, Settlement, Message, Msg, Texts
<1>. QED BY <1>1, <1>2, <1>3, <1>4, <1>5

\* And so are those that a compaction keeps.
LEMMA KeptIs ==
  ASSUME NEW s \in Seq(Msg), \E m \in ToSet(s) : FromUser(m), \A m \in ToSet(s) : m.t # "draft",
         NEW c \in Nat, c # 0, NEW shorten \in BOOLEAN
  PROVE  /\ Kept(s, c, shorten) \in Seq(Msg) /\ \E m \in ToSet(Kept(s, c, shorten)) : FromUser(m)
         /\ \A m \in ToSet(Kept(s, c, shorten)) : m.t # "draft"
         /\ Blocks(s) => Blocks(Kept(s, c, shorten))
<1> DEFINE r == Recent(s, c)
<1> DEFINE k == IF shorten THEN Shorten(r) ELSE r
<1>1. r \in Seq(Msg) /\ ToSet(r) \subseteq ToSet(s) /\ (Blocks(s) => Blocks(r))
  BY RecentIs
<1> HIDE DEF r
<1>2. k \in Seq(Msg) /\ (Blocks(s) => Blocks(k)) /\ \A m \in ToSet(k) : m.t # "draft"
  <2>1. CASE shorten
    <3>1. /\ Shorten(r) \in Seq(Msg) /\ Len(Shorten(r)) = Len(r)
          /\ \A i \in 1..Len(r) : Shorten(r)[i].t = r[i].t
      BY <1>1, ShortenedIs
    <3>2. DOMAIN r = 1..Len(r) /\ DOMAIN Shorten(r) = 1..Len(r)
      BY <1>1, <3>1
    <3>3. \A m \in ToSet(Shorten(r)) : m.t # "draft"
      BY <1>1, <3>1, <3>2 DEF ToSet
    <3>. QED BY <1>1, <2>1, <3>1, <3>3, ShortenedBlocks
  <2>2. CASE ~ shorten
    BY <1>1, <2>2
  <2>. QED BY <2>1, <2>2
<1> HIDE DEF k
<1>3. Summary \in Msg /\ FromUser(Summary)
  BY Formed
<1>4. <<Summary>> \in Seq(Msg) /\ Blocks(<<Summary>>)
  BY <1>3, SingleBlocks DEF FromUser
<1>5. /\ <<Summary>> \o k \in Seq(Msg) /\ (Blocks(s) => Blocks(<<Summary>> \o k))
  BY <1>2, <1>4, Stays, JoinedBlocks
<1>6. \A m \in ToSet(<<Summary>> \o k) : m = Summary \/ m \in ToSet(k)
  <2>1. /\ DOMAIN k = 1..Len(k) /\ DOMAIN (<<Summary>> \o k) = 1..Len(<<Summary>> \o k)
        /\ Len(<<Summary>>) = 1 /\ <<Summary>>[1] = Summary
    BY <1>2, <1>5
  <2>2. /\ \A i \in 1..Len(<<Summary>>) : (<<Summary>> \o k)[i] = <<Summary>>[i]
        /\ \A i \in 1..Len(k) : (<<Summary>> \o k)[Len(<<Summary>>) + i] = k[i]
        /\ \A i \in 1..Len(<<Summary>> \o k) :
             i \in 1..Len(<<Summary>>) \/ \E j \in 1..Len(k) : i = Len(<<Summary>>) + j
    BY <1>2, <1>4, Stays
  <2>. QED BY <2>1, <2>2 DEF ToSet
<1>7. Summary \in ToSet(<<Summary>> \o k)
  <2>1. (<<Summary>> \o k)[1] = Summary /\ 1 \in DOMAIN (<<Summary>> \o k)
    BY <1>2, <1>4
  <2>. QED BY <2>1 DEF ToSet
<1>8. Summary.t # "draft"
  BY <1>3 DEF FromUser
<1>. QED BY <1>2, <1>3, <1>5, <1>6, <1>7, <1>8 DEF Kept, k, r

-----------------------------------------------------------------------------
(* Steps. *)

\* One more message, as sets.
LEMMA OneMoreHas ==
  ASSUME NEW X, NEW s \in Seq(X), NEW e \in X
  PROVE  ToSet(Append(s, e)) = ToSet(s) \cup {e}
<1>1. /\ DOMAIN s = 1..Len(s) /\ DOMAIN Append(s, e) = 1..(Len(s) + 1) /\ Len(s) \in Nat
      /\ \A i \in 1..Len(s) : Append(s, e)[i] = s[i]
      /\ Append(s, e)[Len(s) + 1] = e
  OBVIOUS
<1>2. \A i \in 1..(Len(s) + 1) : i \in 1..Len(s) \/ i = Len(s) + 1
  BY <1>1
<1>3. 1..Len(s) \subseteq 1..(Len(s) + 1) /\ Len(s) + 1 \in 1..(Len(s) + 1)
  BY <1>1
<1>4. ToSet(Append(s, e)) \subseteq ToSet(s) \cup {e}
  BY <1>1, <1>2 DEF ToSet
<1>5. ToSet(s) \cup {e} \subseteq ToSet(Append(s, e))
  BY <1>1, <1>3 DEF ToSet
<1>. QED BY <1>4, <1>5

\* A line more.
LEMMA LogMore ==
  ASSUME HistoryTypeOK, NEW e, e \in Line, log' = Append(log, e)
  PROVE  /\ Past' = Replay(Past, e) /\ log' \in Seq(Line)
         /\ ToSet(log') = ToSet(log) \cup {e}
<1>1. log \in Seq(Line)
  BY DEF HistoryTypeOK
<1>2. Replayed(Append(log, e)) = Replay(Replayed(log), e)
  BY <1>1, ReplayedMore
<1>3. Past' = Replayed(log') /\ Past = Replayed(log)
  BY DEF Past
<1>. QED BY <1>1, <1>2, <1>3, OneMoreHas

\* What the types say of the variables.
LEMMA Typed ==
  ASSUME HistoryTypeOK
  PROVE  /\ live \in Seq(Msg) /\ log \in Seq(Line) /\ Past \in Replays
         /\ run \in Nat /\ replies \in Nat /\ next \in Nat /\ next # 0 /\ latest \in Nat
         /\ batch \in [id : Nat, n : Nat, done : Nat]
         /\ batch.id \in Nat /\ batch.n \in Nat /\ batch.done \in Nat
         /\ counts \in [compactions : Nat, troubles : Nat]
         /\ torn \in [crash : Nat, signal : Nat, loads : Nat]
         /\ torn.crash \in Nat /\ torn.signal \in Nat /\ torn.loads \in Nat
         /\ told \in Seq({"nothing", "answer", "stopped"}) /\ Len(told) = run /\ DOMAIN told = 1..run
         /\ gone \subseteq Nat
BY DEF HistoryTypeOK

\* What may be written to the log.
LEMMA LinesAre == Msg \subseteq Line /\ \A msgs \in Seq(Msg) : Checkpoint(msgs) \in Line
BY DEF Line, Checkpoint

\* What is visible of a process that has no draft of the run.
LEMMA VisibleIs ==
  ASSUME HistoryTypeOK, ~ HasDraft, \E m \in ToSet(live) : FromUser(m)
  PROVE  LET s == Visible(live, run) IN
         /\ s \in Seq(Msg) /\ \E m \in ToSet(s) : FromUser(m)
         /\ \A m \in ToSet(s) : m.t # "draft"
         /\ Blocks(live) => Blocks(s)
<1> DEFINE S == {m \in ToSet(live) : m.t = "draft" => m.run = run}
<1> DEFINE s == Visible(live, run)
<1>1. live \in Seq(Msg)
  BY DEF HistoryTypeOK
<1>2. s = Only(live, S)
  BY DEF Visible
<1>3. s \in Seq(Msg) /\ ToSet(s) = ToSet(live) \cap S
  BY <1>1, <1>2, OnlyHas
<1>4. \A m \in ToSet(live) : FromUser(m) => m \in S
  BY DEF FromUser
<1>5. \A m \in ToSet(live) : ~ (m.t = "draft" /\ m.run = run)
  BY DEF HasDraft, ToSet
<1>6. ASSUME Blocks(live) PROVE Blocks(s)
  <2>1. Complete(live, 0, 0)
    BY <1>1, <1>6, CompleteIs
  <2>2. \A m \in ToSet(live) : m.t \in {"calls", "result"} => m \in S
    OBVIOUS
  <2> HIDE DEF S
  <2>3. Blocks(Only(live, S))
    BY <1>1, <2>1, <2>2, OnlyComplete
  <2>. QED BY <1>2, <2>3
<1>7. \A m \in ToSet(s) : m \in ToSet(live) /\ m \in S
  BY <1>3
<1>8. \A m \in ToSet(s) : m.t # "draft"
  BY <1>5, <1>7
<1>9. \E m \in ToSet(s) : FromUser(m)
  BY <1>3, <1>4
<1>. QED BY <1>3, <1>6, <1>8, <1>9

\* A compaction, seen from the process and from the log.
LEMMA CompactIs ==
  ASSUME HistoryTypeOK, Staged, Compact
  PROVE  /\ stage = "model" /\ stage' = "model" /\ latest' = latest /\ batch' = batch /\ run' = run
         /\ torn' = torn /\ told' = told /\ next' = next /\ replies' = replies
         /\ live' \in Seq(Msg) /\ \E m \in ToSet(live') : FromUser(m)
         /\ \A m \in ToSet(live') : m.t # "draft"
         /\ Blocks(live) => Blocks(live')
         /\ Checkpoint(live') \in Line /\ log' = Append(log, Checkpoint(live'))
         /\ gone' = gone \cup {live[i].run : i \in {j \in DOMAIN live : live[j].t = "answer"}}
         /\ counts' = [counts EXCEPT !.compactions = @ + 1]
<1> DEFINE s == Visible(live, run)
<1>1. /\ stage = "model" /\ stage' = "model" /\ latest' = latest /\ batch' = batch /\ run' = run
      /\ torn' = torn /\ told' = told /\ next' = next /\ replies' = replies /\ ~ HasDraft
  BY DEF Compact
<1>2. \E m \in ToSet(live) : FromUser(m)
  BY <1>1 DEF Staged, InRun, Asking
<1>3. /\ s \in Seq(Msg) /\ \E m \in ToSet(s) : FromUser(m)
      /\ \A m \in ToSet(s) : m.t # "draft"
      /\ Blocks(live) => Blocks(s)
  BY <1>1, <1>2, VisibleIs
<1>4. PICK c \in 1..Len(live), shorten \in BOOLEAN : Install(Kept(s, c, shorten))
  BY DEF Compact, Kept
<1> HIDE DEF s
<1>5. c \in Nat /\ c # 0
  <2>1. Len(live) \in Nat
    BY DEF HistoryTypeOK
  <2>. QED BY <2>1
<1>6. /\ Kept(s, c, shorten) \in Seq(Msg) /\ \E m \in ToSet(Kept(s, c, shorten)) : FromUser(m)
      /\ \A m \in ToSet(Kept(s, c, shorten)) : m.t # "draft"
      /\ Blocks(s) => Blocks(Kept(s, c, shorten))
  BY <1>3, <1>5, KeptIs
<1>7. /\ live' = Kept(s, c, shorten) /\ log' = Append(log, Checkpoint(Kept(s, c, shorten)))
      /\ gone' = gone \cup {live[i].run : i \in {j \in DOMAIN live : live[j].t = "answer"}}
      /\ counts' = [counts EXCEPT !.compactions = @ + 1]
  BY <1>4 DEF Install
<1>. QED BY <1>1, <1>3, <1>6, <1>7, LinesAre

\* What a resumed session gets.
LEMMA LoadIs ==
  ASSUME HistoryTypeOK
  PROVE  /\ Load(log) \in Seq(Msg) /\ History(log) \in Seq(Msg)
         /\ ToSet(History(log)) = {m \in ToSet(Past.msgs) : m.t = "answer" => SettledOnce(Past, m.run)}
         /\ ToSet(Newest(History(log), Window)) \subseteq ToSet(History(log))
         /\ ToSet(Load(log)) \subseteq ToSet(History(log))
         /\ Blocks(Past.msgs) =>
              /\ Blocks(Load(log))
              /\ \A m \in ToSet(Newest(History(log), Window)) : ~ IsResult(m) => m \in ToSet(Load(log))
         /\ \A d \in Nat : Unfinished(Past.msgs, d) => Blocks(Load(log))
<1> DEFINE p == Past.msgs
<1> DEFINE S == {m \in ToSet(p) : m.t = "answer" => SettledOnce(Past, m.run)}
<1> DEFINE h == History(log)
<1> DEFINE w == Newest(h, Window)
<1>1. p \in Seq(Msg)
  BY ReplaysIs DEF HistoryTypeOK
<1>2. h = Only(p, S)
  BY DEF History, Past
<1>3. S \subseteq ToSet(p) /\ \A m \in ToSet(p) : m.t \in {"calls", "result"} => m \in S
  OBVIOUS
<1>4. Load(log) = Valid(w)
  BY DEF Load
<1>5. Window \in Nat
  BY HistoryAssumption
<1> HIDE DEF S, h, w, p
<1>6. h \in Seq(Msg) /\ ToSet(h) = S
  <2>1. Only(p, S) \in Seq(Msg) /\ ToSet(Only(p, S)) = ToSet(p) \cap S
    BY <1>1, OnlyHas
  <2>. QED BY <1>2, <1>3, <2>1
<1>7. PICK a : w \in Seq(Msg) /\ ToSet(w) \subseteq ToSet(h) /\ Part(w, h, a, Len(h))
  BY <1>5, <1>6, NewestIs DEF w
<1>8. Valid(w) \in Seq(Msg) /\ ToSet(Valid(w)) \subseteq ToSet(w)
  BY <1>7, ValidIs
<1>9. ASSUME Blocks(p)
      PROVE  Blocks(Valid(w)) /\ \A m \in ToSet(w) : ~ IsResult(m) => m \in ToSet(Valid(w))
  <2>1. Complete(p, 0, 0)
    BY <1>1, <1>9, CompleteIs
  <2>2. Blocks(h)
    BY <1>1, <1>2, <1>3, <2>1, OnlyComplete
  <2>3. Complete(h, 0, 0)
    BY <1>6, <2>2, CompleteIs
  <2>. QED BY <1>6, <1>7, <2>3, ValidBlocks
<1>10. ASSUME NEW d \in Nat, Unfinished(p, d) PROVE Blocks(Valid(w))
  <2>1. d < Len(p) /\ Complete(p, Len(p) - d, d) /\ Len(p) \in Nat
    BY <1>1, <1>10, CompleteIs
  <2>2. Len(p) - d \in Nat /\ Len(p) - d # 0
    BY <2>1
  <2>3. Unfinished(h, d)
    BY <1>1, <1>2, <1>3, <2>1, <2>2, OnlyComplete
  <2>4. d < Len(h) /\ Complete(h, Len(h) - d, d) /\ Len(h) - d \in Nat
    BY <1>6, <2>3, CompleteIs
  <2>. QED BY <1>6, <1>7, <2>4, ValidBlocks
<1>. QED BY <1>4, <1>6, <1>7, <1>8, <1>9, <1>10 DEF S, h, w, p

\* What a step does to the log: nothing, or a line more, or a new session.
LEMMA LogSteps ==
  ASSUME HistoryTypeOK, Staged, HistoryNext
  PROVE  /\ log' \in Seq(Line) /\ Past' \in Replays
         /\ \/ log' = log /\ Past' = Past
            \/ NewSession /\ log' = <<>> /\ Past' = Nothing
            \/ \E e \in Line : /\ log' = Append(log, e) /\ Past' = Replay(Past, e)
                               /\ ToSet(log') = ToSet(log) \cup {e}
                               /\ e.t = "half" => Crash
<1> DEFINE Goes == \/ log' = log
                   \/ NewSession /\ log' = <<>>
                   \/ \E e \in Line : log' = Append(log, e) /\ (e.t = "half" => Crash)
<1>1. /\ live \in Seq(Msg) /\ log \in Seq(Line) /\ Past \in Replays /\ run \in Nat /\ latest \in Nat
      /\ batch.id \in Nat /\ batch.done \in Nat /\ batch.n \in Nat
  BY Typed
<1>2. Goes
  <2>1. CASE LogPrompt
    <3>1. User \in Msg /\ User.t = "user" /\ log' = Append(log, User)
      BY <1>1, <2>1 DEF LogPrompt, User, Message, Msg, Texts
    <3>. QED BY <3>1, LinesAre
  <2>2. CASE Compact
    <3>1. Checkpoint(live') \in Line /\ log' = Append(log, Checkpoint(live'))
      BY <2>2, CompactIs
    <3>. QED BY <3>1 DEF Checkpoint
  <2>3. CASE LogReply
    <3>1. live # <<>>
      BY <2>3 DEF LogReply, Staged
    <3>2. Last(live) \in Msg
      BY <1>1, <3>1 DEF Last
    <3>3. Last(live) \in {Draft(latest), Calls(batch.id, batch.n)}
      BY <2>3 DEF LogReply, Staged
    <3>4. Draft(latest).t = "draft" /\ Calls(batch.id, batch.n).t = "calls"
      BY DEF Draft, Calls, Message
    <3>5. Last(live).t # "half" /\ log' = Append(log, Last(live))
      BY <2>3, <3>3, <3>4 DEF LogReply
    <3>. QED BY <3>2, <3>5, LinesAre
  <2>4. CASE LogResult
    <3>1. batch.done + 1 \in Nat
      BY <1>1
    <3>2. Result(batch.id, batch.done + 1) \in Msg /\ IsResult(Result(batch.id, batch.done + 1))
      BY <1>1, <3>1, Formed
    <3>. QED BY <2>4, <3>2, LinesAre DEF LogResult, IsResult
  <2>5. CASE RecordSettlement
    <3>1. Settlement(run, latest) \in Msg /\ Settlement(run, latest).t = "settlement"
      BY <1>1, Formed
    <3>. QED BY <2>5, <3>1, LinesAre DEF RecordSettlement
  <2>6. CASE Crash
    <3>1. HalfLine \in Line
      BY Formed
    <3>. QED BY <2>6, <3>1 DEF Crash
  <2>7. CASE NewSession
    BY <2>7 DEF NewSession
  <2>8. CASE Submit \/ ReplyCalls \/ ReplyText \/ NoReply \/ JoinResult \/ EndBatch \/ Rewrite
    BY <2>8 DEF Submit, ReplyCalls, ReplyText, NoReply, JoinResult, EndBatch, Rewrite
  <2>9. CASE InstallSettlement \/ Signal \/ Resume
    BY <2>9 DEF InstallSettlement, Signal, Resume
  <2>. QED BY <2>1, <2>2, <2>3, <2>4, <2>5, <2>6, <2>7, <2>8, <2>9 DEF HistoryNext
<1>3. CASE log' = log
  <2>1. Past' = Past
    BY <1>3 DEF Past
  <2>. QED BY <1>1, <1>3, <2>1
<1>4. CASE NewSession /\ log' = <<>>
  <2>1. Past' = Nothing
    BY <1>4, ReplayedNone DEF Past
  <2>2. Nothing \in Replays
    BY DEF Nothing, Replays
  <2>3. <<>> \in Seq(Line)
    OBVIOUS
  <2>. QED BY <1>4, <2>1, <2>2, <2>3
<1>5. ASSUME NEW e \in Line, log' = Append(log, e), e.t = "half" => Crash
      PROVE  /\ log' \in Seq(Line) /\ Past' \in Replays /\ Past' = Replay(Past, e)
             /\ ToSet(log') = ToSet(log) \cup {e}
  <2>1. /\ Past' = Replay(Past, e) /\ log' \in Seq(Line) /\ ToSet(log') = ToSet(log) \cup {e}
    BY <1>5, LogMore
  <2>2. Replay(Past, e) \in Replays
    BY <1>1, ReplayTyped
  <2>. QED BY <2>1, <2>2
<1>. QED BY <1>2, <1>3, <1>4, <1>5

\* The messages of the process, after any step.
LEMMA LiveTyped ==
  ASSUME HistoryTypeOK, Staged, HistoryNext
  PROVE  live' \in Seq(Msg)
<1>1. /\ live \in Seq(Msg) /\ run \in Nat /\ latest \in Nat /\ next \in Nat
      /\ batch.id \in Nat /\ batch.done \in Nat /\ batch.done + 1 \in Nat
  BY Typed
<1>2. CASE Submit
  <2>1. run' \in Nat
    BY <1>1, <1>2 DEF Submit
  <2>2. User' \in Msg
    BY <2>1 DEF User, Message, Msg, Texts
  <2>. QED BY <1>1, <1>2, <2>2 DEF Submit
<1>3. CASE Compact
  BY <1>3, CompactIs
<1>4. CASE ReplyCalls
  <2>1. PICK n \in 1..MaxCalls : live' = Append(live, Calls(next, n))
    BY <1>4 DEF ReplyCalls
  <2>2. n \in Nat
    BY HistoryAssumption
  <2>3. Calls(next, n) \in Msg
    BY <1>1, <2>2, Formed
  <2>. QED BY <1>1, <2>1, <2>3
<1>5. CASE ReplyText
  <2>1. Draft(next) \in Msg
    BY <1>1, Formed
  <2>. QED BY <1>1, <1>5, <2>1 DEF ReplyText
<1>6. CASE JoinResult
  <2>1. [Result(batch.id, batch.done + 1) EXCEPT !.form = "live"] \in Msg
    BY <1>1, Formed
  <2>. QED BY <1>1, <1>6, <2>1 DEF JoinResult
<1>7. CASE EndBatch \/ Rewrite
  <2>1. Steer \in Msg
    BY <1>1, Formed
  <2>2. Append(live, Steer) \in Seq(Msg)
    BY <1>1, <2>1
  <2>3. live' \in {live, Append(live, Steer)}
    BY <1>7 DEF EndBatch, Rewrite
  <2>. QED BY <1>1, <2>2, <2>3
<1>8. CASE InstallSettlement
  <2>1. Delivered(run, latest) \in Msg
    BY <1>1, Formed
  <2> DEFINE S == {m \in ToSet(live) : ~ (m.t = "draft" /\ m.run = run)}
  <2>2. live' = Append(Only(live, S), Delivered(run, latest))
    BY <1>8 DEF InstallSettlement
  <2> HIDE DEF S
  <2>3. Only(live, S) \in Seq(Msg)
    BY <1>1, OnlyHas
  <2>. QED BY <2>1, <2>2, <2>3
<1>9. CASE Resume
  <2>1. Load(log) \in Seq(Msg) /\ <<>> \in Seq(Msg)
    BY LoadIs
  <2>2. live' = <<>> \/ live' = Load(log)
    BY <1>9 DEF Resume
  <2>. QED BY <2>1, <2>2
<1>10. CASE Crash \/ NewSession
  <2>1. live' = <<>>
    BY <1>10 DEF Crash, NewSession
  <2>. QED BY <2>1
<1>11. CASE LogPrompt \/ NoReply \/ LogReply \/ LogResult \/ RecordSettlement \/ Signal
  BY <1>1, <1>11 DEF LogPrompt, NoReply, LogReply, LogResult, RecordSettlement, Signal
<1>. QED BY <1>2, <1>3, <1>4, <1>5, <1>6, <1>7, <1>8, <1>9, <1>10, <1>11 DEF HistoryNext

Stages == {"idle", "asking", "model", "logging", "batch", "joining", "answer", "settle",
           "settling", "failed", "down", "refused"}

\* The stage and the counters, after any step.
LEMMA PlaceTyped ==
  ASSUME HistoryTypeOK, HistoryNext, Staged
  PROVE  /\ stage' \in Stages /\ run' \in Nat /\ replies' \in Nat /\ next' \in Nat \ {0} /\ latest' \in Nat
         /\ batch' \in [id : Nat, n : Nat, done : Nat]
         /\ counts' \in [compactions : Nat, troubles : Nat]
         /\ torn' \in [crash : Nat, signal : Nat, loads : Nat]
<1>1. /\ run \in Nat /\ replies \in Nat /\ next \in Nat /\ next # 0 /\ latest \in Nat
      /\ batch \in [id : Nat, n : Nat, done : Nat] /\ NoBatch \in [id : Nat, n : Nat, done : Nat]
      /\ counts \in [compactions : Nat, troubles : Nat]
      /\ torn \in [crash : Nat, signal : Nat, loads : Nat]
      /\ Whole \in [crash : Nat, signal : Nat, loads : Nat]
      /\ stage \in Stages
  BY Typed DEF HistoryTypeOK, Stages, NoBatch, Whole
<1>2. /\ [counts EXCEPT !.compactions = @ + 1] \in [compactions : Nat, troubles : Nat]
      /\ [counts EXCEPT !.troubles = @ + 1] \in [compactions : Nat, troubles : Nat]
  BY <1>1
<1>3. /\ [torn EXCEPT !.crash = @ + 1] \in [crash : Nat, signal : Nat, loads : Nat]
      /\ [torn EXCEPT !.signal = @ + 1] \in [crash : Nat, signal : Nat, loads : Nat]
      /\ \A n \in Nat : [torn EXCEPT !.loads = n] \in [crash : Nat, signal : Nat, loads : Nat]
  BY <1>1
<1>4. [batch EXCEPT !.done = @ + 1] \in [id : Nat, n : Nat, done : Nat]
  BY <1>1
<1>5. run + 1 \in Nat /\ next + 1 \in Nat \ {0} /\ replies + 1 \in Nat
  BY <1>1
<1>6. CASE Submit
  BY <1>1, <1>5, <1>6 DEF Submit, Stages
<1>7. CASE Compact
  BY <1>1, <1>2, <1>7 DEF Compact, Install, Stages
<1>8. CASE ReplyCalls
  <2>1. PICK n \in 1..MaxCalls : batch' = [id |-> next, n |-> n, done |-> 0]
    BY <1>8 DEF ReplyCalls
  <2>2. n \in Nat
    BY HistoryAssumption
  <2>3. batch' \in [id : Nat, n : Nat, done : Nat]
    BY <1>1, <2>1, <2>2
  <2>. QED BY <1>1, <1>5, <1>8, <2>3 DEF ReplyCalls, Stages
<1>9. CASE ReplyText \/ NoReply
  <2>1. CASE ReplyText
    BY <1>1, <1>5, <2>1 DEF ReplyText, Stages
  <2>2. CASE NoReply
    BY <1>1, <2>2 DEF NoReply, Stages
  <2>. QED BY <1>9, <2>1, <2>2
<1>10. CASE LogPrompt \/ LogReply \/ LogResult
  BY <1>1, <1>10 DEF LogPrompt, LogReply, LogResult, Stages
<1>11. CASE JoinResult \/ EndBatch \/ Rewrite
  BY <1>1, <1>4, <1>11 DEF JoinResult, EndBatch, Rewrite, Stages
<1>12. CASE RecordSettlement \/ InstallSettlement
  <2>1. CASE RecordSettlement
    <3>1. stage' \in {"settling", "idle"} /\ latest' \in {0, latest} /\ replies' \in {0, replies}
      BY <2>1 DEF RecordSettlement, Idle
    <3>2. run' = run /\ next' = next /\ batch' = batch /\ counts' = counts /\ torn' = torn
      BY <2>1 DEF RecordSettlement
    <3>. QED BY <1>1, <3>1, <3>2 DEF Stages
  <2>2. CASE InstallSettlement
    BY <1>1, <2>2 DEF InstallSettlement, Idle, Stages
  <2>. QED BY <1>12, <2>1, <2>2
<1>13. CASE Signal
  <2>1. torn' \in [crash : Nat, signal : Nat, loads : Nat]
    BY <1>1, <1>3, <1>13 DEF Signal
  <2>2. latest' \in Nat /\ stage' \in Stages /\ replies' \in Nat
    BY <1>1, <1>13 DEF Signal, Idle, Stages
  <2>. QED BY <1>1, <1>2, <1>13, <2>1, <2>2 DEF Signal
<1>14. CASE Crash
  <2>1. torn' \in [crash : Nat, signal : Nat, loads : Nat]
    BY <1>1, <1>3, <1>14 DEF Crash
  <2>. QED BY <1>1, <1>2, <1>14, <2>1 DEF Crash, Stages
<1>15. CASE Resume
  <2> DEFINE S == {2, torn.loads + 1}
  <2>1. Min(S) \in Nat
    <3>1. S \subseteq Nat /\ S # {}
      BY <1>1
    <3> HIDE DEF S
    <3>2. Min(S) \in S
      BY <3>1, Least
    <3>. QED BY <3>1, <3>2
  <2>2. torn' = [torn EXCEPT !.loads = IF torn.crash = 0 THEN 0 ELSE Min(S)]
    BY <1>15 DEF Resume
  <2> HIDE DEF S
  <2>3. torn' \in [crash : Nat, signal : Nat, loads : Nat]
    BY <1>3, <2>1, <2>2
  <2>. QED BY <1>1, <1>15, <2>3 DEF Resume, Stages
<1>16. CASE NewSession
  BY <1>1, <1>16 DEF NewSession, Stages
<1>. QED BY <1>6, <1>7, <1>8, <1>9, <1>10, <1>11, <1>12, <1>13, <1>14, <1>15, <1>16 DEF HistoryNext

\* What the user was told, after any step.
LEMMA ToldTyped ==
  ASSUME HistoryTypeOK, HistoryNext, Staged
  PROVE  told' \in Seq({"nothing", "answer", "stopped"}) /\ Len(told') = run' /\ gone' \subseteq Nat
<1> DEFINE W == {"nothing", "answer", "stopped"}
<1>1. told \in Seq(W) /\ Len(told) = run /\ gone \subseteq Nat /\ run \in Nat
  BY DEF HistoryTypeOK
<1>2. \A w \in W : [told EXCEPT ![run] = w] \in Seq(W) /\ Len([told EXCEPT ![run] = w]) = run
  <2>1. told \in [1..run -> W]
    BY <1>1
  <2>2. \A w \in W : [told EXCEPT ![run] = w] \in [1..run -> W]
    BY <2>1
  <2>. QED BY <1>1, <2>2
<1>3. CASE Submit
  BY <1>1, <1>3 DEF Submit
<1>4. CASE Compact
  <2>1. gone' = gone \cup {live[i].run : i \in {j \in DOMAIN live : live[j].t = "answer"}}
    BY <1>4, CompactIs
  <2>2. \A i \in DOMAIN live : live[i] \in Msg
    BY DEF HistoryTypeOK
  <2>3. \A i \in DOMAIN live : live[i].run \in Nat
    BY <2>2 DEF Msg
  <2>4. told' = told /\ run' = run
    BY <1>4 DEF Compact
  <2>. QED BY <1>1, <2>1, <2>3, <2>4
<1>5. CASE RecordSettlement
  <2>1. Ended \in W
    BY DEF Ended
  <2>2. told' = [told EXCEPT ![run] = Ended] /\ run' = run /\ gone' = gone
    BY <1>5 DEF RecordSettlement
  <2>. QED BY <1>1, <1>2, <2>1, <2>2
<1>6. CASE Signal
  BY <1>1, <1>2, <1>6 DEF Signal
<1>7. CASE Resume
  <2>1. History(log) \in Seq(Msg)
    BY LoadIs
  <2>2. \A m \in ToSet(History(log)) : m.run \in Nat
    <3>1. \A m \in ToSet(History(log)) : m \in Msg
      BY <2>1 DEF ToSet
    <3>. QED BY <3>1 DEF Msg
  <2>3. LeftOut(History(log)) \subseteq Nat
    BY <2>2 DEF LeftOut
  <2>4. told' = told /\ run' = run /\ (gone' = gone \/ gone' = gone \cup LeftOut(History(log)))
    BY <1>7 DEF Resume
  <2>. QED BY <1>1, <2>3, <2>4
<1>8. CASE NewSession
  <2>1. told' = [r \in DOMAIN told |-> "nothing"] /\ run' = run /\ gone' = {}
    BY <1>8 DEF NewSession
  <2>2. DOMAIN told = 1..run
    BY <1>1
  <2>. QED BY <1>1, <2>1, <2>2
<1>9. CASE ReplyCalls \/ ReplyText \/ NoReply \/ LogReply \/ LogResult \/ JoinResult \/ EndBatch
  BY <1>1, <1>9 DEF ReplyCalls, ReplyText, NoReply, LogReply, LogResult, JoinResult, EndBatch
<1>10. CASE LogPrompt \/ Rewrite \/ InstallSettlement \/ Crash
  BY <1>1, <1>10 DEF LogPrompt, Rewrite, InstallSettlement, Crash
<1>. QED BY <1>3, <1>4, <1>5, <1>6, <1>7, <1>8, <1>9, <1>10 DEF HistoryNext

\* Every step keeps the types.
LEMMA TypeKept ==
  ASSUME HistoryTypeOK, Staged, HistoryNext
  PROVE  HistoryTypeOK'
BY LogSteps, LiveTyped, PlaceTyped, ToldTyped DEF HistoryTypeOK, Stages

\* What is added to the process.
LEMMA LiveGrows ==
  ASSUME HistoryTypeOK, Staged, HistoryNext
  PROVE  /\ Submit \/ ReplyCalls \/ ReplyText \/ JoinResult \/ Rewrite =>
              \E m \in Msg : live' = Append(live, m) /\ ToSet(live') = ToSet(live) \cup {m}
         /\ EndBatch => live' = live \/ \E m \in Msg : /\ live' = Append(live, m) /\ m.t = "steer"
                                                       /\ ToSet(live') = ToSet(live) \cup {m}
         /\ LogPrompt \/ NoReply \/ LogReply \/ LogResult \/ RecordSettlement \/ Signal => live' = live
<1>1. live \in Seq(Msg) /\ run \in Nat
  BY Typed
<1>2. \A m \in Msg : ToSet(Append(live, m)) = ToSet(live) \cup {m}
  BY <1>1, OneMoreHas
<1>3. ASSUME Submit \/ ReplyCalls \/ ReplyText \/ JoinResult \/ Rewrite PROVE \E m : live' = Append(live, m)
  BY <1>3 DEF Submit, ReplyCalls, ReplyText, JoinResult, Rewrite
<1>4. \A m : live' = Append(live, m) => m \in Msg
  <2> TAKE m
  <2> HAVE live' = Append(live, m)
  <2>1. live' \in Seq(Msg)
    BY LiveTyped
  <2>2. Len(live') = Len(live) + 1 /\ live'[Len(live) + 1] = m /\ Len(live) \in Nat
    BY <1>1
  <2>. QED BY <2>1, <2>2
<1>5. Steer \in Msg /\ Steer.t = "steer"
  BY <1>1, Formed
<1>6. EndBatch => live' \in {live, Append(live, Steer)}
  BY DEF EndBatch
<1>7. LogPrompt \/ NoReply \/ LogReply \/ LogResult \/ RecordSettlement \/ Signal => live' = live
  BY DEF LogPrompt, NoReply, LogReply, LogResult, RecordSettlement, Signal
<1>. QED BY <1>2, <1>3, <1>4, <1>5, <1>6, <1>7

\* The place of the process: the batch, the text, the counts of what was torn.
Placed ==
    /\ stage \notin {"logging", "batch", "joining"} => batch = NoBatch
    /\ stage \in {"batch", "joining"} => batch.id # 0 /\ latest = 0
    /\ stage = "joining" => batch.done < batch.n
    /\ batch.done <= batch.n
    /\ Dead => live = <<>>
    /\ stage \in {"idle", "asking", "down", "refused"} => latest = 0
    /\ torn.crash = 0 => torn.loads = 0

\* Every step keeps what a stage says of the batch and of the draft.
LEMMA PlaceKept ==
  ASSUME HistoryTypeOK, Staged, HistoryNext
  PROVE  Placed'
<1>1. /\ run \in Nat /\ next \in Nat /\ next # 0 /\ latest \in Nat
      /\ batch \in [id : Nat, n : Nat, done : Nat]
      /\ batch.id \in Nat /\ batch.n \in Nat /\ batch.done \in Nat
      /\ torn \in [crash : Nat, signal : Nat, loads : Nat]
      /\ torn.crash \in Nat /\ torn.signal \in Nat /\ torn.loads \in Nat
  BY Typed
<1>2. NoBatch.id = 0 /\ NoBatch.done <= NoBatch.n
  BY DEF NoBatch
<1>3. CASE Submit
  BY <1>1, <1>2, <1>3 DEF Submit, Staged, Placed, Dead
<1>4. CASE Compact
  <2>1. /\ stage = "model" /\ stage' = "model" /\ latest' = latest /\ batch' = batch /\ torn' = torn
    BY <1>4, CompactIs
  <2>. QED BY <1>1, <1>2, <2>1 DEF Staged, Placed, Dead
<1>5. CASE ReplyCalls
  <2>1. PICK n \in 1..MaxCalls : batch' = [id |-> next, n |-> n, done |-> 0]
    BY <1>5 DEF ReplyCalls
  <2>2. n \in Nat
    BY HistoryAssumption
  <2>3. batch'.id # 0 /\ batch'.done <= batch'.n
    BY <1>1, <2>1, <2>2
  <2>. QED BY <1>1, <1>5, <2>3 DEF ReplyCalls, Staged, Placed, Dead
<1>6. CASE ReplyText
  BY <1>1, <1>2, <1>6 DEF ReplyText, Staged, Placed, Dead
<1>7. CASE LogPrompt \/ NoReply
  BY <1>1, <1>2, <1>7 DEF LogPrompt, NoReply, Staged, Placed, Dead
<1>8. CASE LogReply
  <2>1. Calls(batch.id, batch.n).t = "calls" /\ Draft(latest).t = "draft"
    BY DEF Draft, Calls, Message
  <2>2. \/ stage' = "answer" /\ batch = NoBatch
        \/ stage' = "batch" /\ batch.id # 0 /\ latest = 0
    BY <1>8, <2>1 DEF LogReply, Staged
  <2>3. latest' = latest /\ batch' = batch /\ torn' = torn /\ batch.done <= batch.n
        /\ (torn.crash = 0 => torn.loads = 0)
    BY <1>8 DEF LogReply, Staged
  <2>. QED BY <2>2, <2>3 DEF Placed, Dead
<1>9. CASE LogResult
  BY <1>1, <1>2, <1>9 DEF LogResult, Staged, Placed, Dead
<1>10. CASE JoinResult
  <2>1. batch'.id = batch.id /\ batch'.n = batch.n /\ batch'.done = batch.done + 1
    BY <1>1, <1>10 DEF JoinResult
  <2>2. /\ stage = "joining" /\ stage' = "batch" /\ latest' = latest /\ torn' = torn
        /\ batch.id # 0 /\ latest = 0 /\ batch.done < batch.n /\ (torn.crash = 0 => torn.loads = 0)
    BY <1>10 DEF JoinResult, Staged
  <2>. QED BY <1>1, <2>1, <2>2 DEF Placed, Dead
<1>11. CASE EndBatch
  BY <1>1, <1>2, <1>11 DEF EndBatch, Staged, Placed, Dead
<1>12. CASE Rewrite
  BY <1>1, <1>2, <1>12 DEF Rewrite, Staged, Placed, Dead
<1>13. CASE RecordSettlement
  BY <1>1, <1>2, <1>13 DEF RecordSettlement, Idle, Staged, Placed, Dead
<1>14. CASE InstallSettlement
  BY <1>1, <1>2, <1>14 DEF InstallSettlement, Idle, Staged, Placed, Dead
<1>15. CASE Signal
  <2>1. torn'.crash = torn.crash /\ torn'.loads = torn.loads
    BY <1>1, <1>15 DEF Signal
  <2>2. batch' = NoBatch /\ ((stage' = "idle" /\ latest' = 0) \/ stage' = "failed")
    BY <1>15 DEF Signal, Idle
  <2>3. torn.crash = 0 => torn.loads = 0
    BY DEF Staged
  <2>. QED BY <1>2, <2>1, <2>2, <2>3 DEF Placed, Dead
<1>16. CASE Crash
  <2>1. torn'.crash \in {torn.crash, torn.crash + 1} /\ torn'.loads = torn.loads
    BY <1>1, <1>16 DEF Crash
  <2>2. batch' = NoBatch /\ stage' = "down" /\ live' = <<>> /\ latest' = 0
    BY <1>16 DEF Crash
  <2>3. torn.crash = 0 => torn.loads = 0
    BY DEF Staged
  <2>. QED BY <1>1, <1>2, <2>1, <2>2, <2>3 DEF Placed, Dead
<1>17. CASE Resume
  <2>1. torn'.crash = torn.crash /\ (torn.crash = 0 => torn'.loads = 0)
    <3> DEFINE S == {2, torn.loads + 1}
    <3>1. torn' = [torn EXCEPT !.loads = IF torn.crash = 0 THEN 0 ELSE Min(S)]
      BY <1>17 DEF Resume
    <3> HIDE DEF S
    <3>2. \A n : LET w == [torn EXCEPT !.loads = n] IN w.crash = torn.crash /\ w.loads = n
      BY <1>1
    <3>. QED BY <3>1, <3>2
  <2>2. batch' = batch /\ latest' = latest /\ stage \in {"down", "idle"}
    BY <1>17 DEF Resume
  <2>3. stage' = "idle" \/ (stage' = "refused" /\ live' = <<>>)
    BY <1>17 DEF Resume
  <2>. QED BY <1>2, <2>1, <2>2, <2>3 DEF Staged, Placed, Dead
<1>18. CASE NewSession
  <2>1. torn'.loads = 0
    BY <1>18 DEF NewSession, Whole
  <2>. QED BY <1>2, <1>18, <2>1 DEF NewSession, Staged, Placed, Dead
<1>. QED BY <1>3, <1>4, <1>5, <1>6, <1>7, <1>8, <1>9, <1>10, <1>11, <1>12, <1>13, <1>14, <1>15, <1>16,
            <1>17, <1>18 DEF HistoryNext

\* Where a run is going on, there is a word of the user.
LEMMA AskedKept ==
  ASSUME HistoryTypeOK, Staged, HistoryNext, InRun'
  PROVE  run' # 0 /\ \E m \in ToSet(live') : FromUser(m)
<1>1. run \in Nat /\ live \in Seq(Msg)
  BY Typed
<1>2. CASE Submit
  <2>1. run' = run + 1 /\ live' = Append(live, User')
    BY <1>2 DEF Submit
  <2>2. User' \in Msg /\ FromUser(User')
    <3>1. run' \in Nat
      BY <1>1, <2>1
    <3>. QED BY <3>1 DEF User, Message, Msg, Texts, FromUser
  <2>3. ToSet(live') = ToSet(live) \cup {User'}
    BY <1>1, <2>1, <2>2, OneMoreHas
  <2>. QED BY <1>1, <2>1, <2>2, <2>3
<1>3. CASE Compact
  <2>1. InRun
    BY <1>3 DEF Compact, InRun, Asking
  <2>. QED BY <1>3, <2>1, CompactIs DEF Staged
<1>4. CASE ReplyCalls \/ ReplyText \/ JoinResult \/ Rewrite \/ EndBatch
  <2>1. InRun /\ run' = run
    BY <1>4 DEF ReplyCalls, ReplyText, JoinResult, Rewrite, EndBatch, InRun, Asking
  <2>2. ToSet(live) \subseteq ToSet(live')
    BY <1>4, LiveGrows
  <2>. QED BY <2>1, <2>2 DEF Staged
<1>5. CASE LogPrompt \/ NoReply \/ LogReply \/ LogResult
  <2>1. InRun /\ run' = run /\ live' = live
    BY <1>5 DEF LogPrompt, NoReply, LogReply, LogResult, InRun, Asking
  <2>. QED BY <2>1 DEF Staged
<1>6. CASE RecordSettlement \/ InstallSettlement
  <2>1. stage' \in {"settling", "idle"}
    BY <1>6 DEF RecordSettlement, InstallSettlement, Idle
  <2>. QED BY <2>1 DEF InRun, Asking
<1>7. CASE Signal
  <2>1. stage # "settling"
    BY <1>7 DEF Signal, Idle, InRun, Asking
  <2>2. InRun /\ run' = run /\ live' = live
    BY <1>7, <2>1 DEF Signal, InRun, Asking
  <2>. QED BY <2>2 DEF Staged
<1>8. CASE Crash \/ Resume \/ NewSession
  <2>1. stage' \in {"down", "refused", "idle"}
    BY <1>8 DEF Crash, Resume, NewSession
  <2>. QED BY <2>1 DEF InRun, Asking
<1>. QED BY <1>2, <1>3, <1>4, <1>5, <1>6, <1>7, <1>8 DEF HistoryNext

\* A log with half a line is not written any more.
LEMMA UnbrokenKept ==
  ASSUME HistoryTypeOK, Staged, HistoryNext, ~ Dead'
  PROVE  Unbroken'
<1>1. HalfLine.t = "half"
  BY Formed
<1>2. CASE Resume
  BY <1>2 DEF Resume, Unbroken, Dead
<1>3. CASE NewSession
  <2>1. log' = <<>>
    BY <1>3 DEF NewSession
  <2>. QED BY <2>1 DEF Unbroken, ToSet
<1>4. CASE Crash
  BY <1>4 DEF Crash, Dead
<1>5. CASE ~ Resume /\ ~ NewSession /\ ~ Crash
  <2>1. Unbroken
    <3>1. stage \notin {"down", "refused"}
      BY <1>5 DEF HistoryNext, Submit, LogPrompt, Compact, ReplyCalls, ReplyText, NoReply, LogReply,
                  LogResult, JoinResult,
                  EndBatch, Rewrite, RecordSettlement, InstallSettlement, Signal
    <3>. QED BY <3>1 DEF Staged, Dead
  <2>2. \/ log' = log
        \/ \E e \in Line : ToSet(log') = ToSet(log) \cup {e} /\ e.t # "half"
    BY <1>5, LogSteps
  <2>. QED BY <1>1, <2>1, <2>2 DEF Unbroken
<1>. QED BY <1>2, <1>3, <1>4, <1>5

\* Between a reply and its line in the log, the process ends with it.
LEMMA LoggingKept ==
  ASSUME HistoryTypeOK, Staged, HistoryNext, stage' = "logging"
  PROVE  /\ live' # <<>>
         /\ \/ batch' = NoBatch /\ latest' # 0 /\ Last(live') = Draft(latest)'
            \/ /\ batch'.id # 0 /\ batch'.done = 0 /\ latest' = 0
               /\ Last(live') = Calls(batch.id, batch.n)'
<1>1. live \in Seq(Msg) /\ next \in Nat /\ next # 0 /\ run \in Nat
  BY Typed
<1>2. \A m : Append(live, m) # <<>> /\ Last(Append(live, m)) = m
  BY <1>1 DEF Last
<1>3. CASE ReplyCalls
  <2>1. PICK n \in 1..MaxCalls : /\ live' = Append(live, Calls(next, n))
                                 /\ batch' = [id |-> next, n |-> n, done |-> 0]
    BY <1>3 DEF ReplyCalls
  <2>2. latest' = 0 /\ run' = run
    BY <1>3 DEF ReplyCalls
  <2>3. Calls(batch.id, batch.n)' = Calls(next, n)
    BY <2>1, <2>2 DEF Calls, Message
  <2>. QED BY <1>1, <1>2, <2>1, <2>2, <2>3
<1>4. CASE ReplyText
  <2>1. live' = Append(live, Draft(next)) /\ latest' = next /\ batch' = batch /\ run' = run /\ stage = "model"
    BY <1>4 DEF ReplyText
  <2>2. Draft(latest)' = Draft(next)
    BY <2>1 DEF Draft, Message
  <2>3. batch = NoBatch
    BY <2>1 DEF Staged
  <2>. QED BY <1>1, <1>2, <2>1, <2>2, <2>3
<1>5. ReplyCalls \/ ReplyText
  BY DEF HistoryNext, Submit, LogPrompt, Compact, NoReply, LogReply, LogResult, JoinResult, EndBatch,
         Rewrite, RecordSettlement, InstallSettlement, Idle, Signal, Crash, Resume, NewSession
<1>. QED BY <1>3, <1>4, <1>5

\* Every step keeps what each stage says of the rest.
LEMMA StagedKept ==
  ASSUME HistoryTypeOK, Staged, HistoryNext
  PROVE  Staged'
<1>1. InRun' => run' # 0 /\ \E m \in ToSet(live') : FromUser(m)
  BY AskedKept
<1>2. ~ Dead' => Unbroken'
  BY UnbrokenKept
<1>3. stage' = "logging" =>
        /\ live' # <<>>
        /\ \/ batch' = NoBatch /\ latest' # 0 /\ Last(live') = Draft(latest)'
           \/ /\ batch'.id # 0 /\ batch'.done = 0 /\ latest' = 0
              /\ Last(live') = Calls(batch.id, batch.n)'
  BY LoggingKept
<1>. QED BY <1>1, <1>2, <1>3, PlaceKept DEF Staged, Placed, NoBatch

\* What the steps that write a line do to the history of the log.
LEMMA PromptPast ==
  ASSUME HistoryTypeOK, LogPrompt
  PROVE  /\ User \in Msg /\ User.t = "user" /\ live' = live /\ run' = run
         /\ Past'.msgs = Append(Past.msgs, User) /\ Past'.drafts = Past.drafts
         /\ Same(Past', Past) /\ ToSet(log') = ToSet(log) \cup {User}
<1>1. run \in Nat
  BY Typed
<1>2. User \in Msg /\ User.t = "user" /\ log' = Append(log, User) /\ live' = live /\ run' = run
  BY <1>1 DEF LogPrompt, User, Message, Msg, Texts
<1>3. User \in Line
  BY <1>2, LinesAre
<1>4. Past' = Replay(Past, User) /\ ToSet(log') = ToSet(log) \cup {User}
  BY <1>2, <1>3, LogMore
<1>. QED BY <1>2, <1>3, <1>4, Typed, ReplayAdds

\* A checkpoint either replaces what is replayed, or is passed over.
LEMMA CompactPast ==
  ASSUME HistoryTypeOK, Staged, Compact
  PROVE  /\ Same(Past', Past)
         /\ \/ Vouched(Past, live') /\ Past'.msgs = live' /\ Past'.drafts = {}
            \/ Past'.msgs = Past.msgs /\ Past'.drafts = Past.drafts
         /\ \E e \in Line : e.t = "checkpoint" /\ ToSet(log') = ToSet(log) \cup {e}
<1> DEFINE e == Checkpoint(live')
<1>1. e \in Line /\ log' = Append(log, e)
  BY CompactIs
<1>2. e.t = "checkpoint" /\ e.msgs = live'
  BY DEF Checkpoint
<1> HIDE DEF e
<1>3. Past' = Replay(Past, e) /\ ToSet(log') = ToSet(log) \cup {e}
  BY <1>1, LogMore
<1>4. LET w == Replay(Past, e) IN
      /\ Same(w, Past)
      /\ \/ Vouched(Past, live') /\ w.msgs = live' /\ w.drafts = {}
         \/ w.msgs = Past.msgs /\ w.drafts = Past.drafts
  BY <1>1, <1>2, Typed, ReplayChecks
<1>. QED BY <1>1, <1>2, <1>3, <1>4

\* A reply is noted as a draft, or opens a batch in the log.
LEMMA LogReplyPast ==
  ASSUME HistoryTypeOK, Staged, LogReply
  PROVE  /\ Same(Past', Past)
         /\ \/ /\ batch = NoBatch /\ latest # 0 /\ stage' = "answer"
               /\ Past'.msgs = Past.msgs /\ Past'.drafts = Past.drafts \cup {latest}
               /\ ToSet(log') = ToSet(log) \cup {Draft(latest)}
            \/ /\ batch.id # 0 /\ batch.done = 0 /\ latest = 0 /\ stage' = "batch"
               /\ Past'.msgs = Append(Past.msgs, Calls(batch.id, batch.n)) /\ Past'.drafts = Past.drafts
               /\ ToSet(log') = ToSet(log) \cup {Calls(batch.id, batch.n)}
<1>1. /\ run \in Nat /\ latest \in Nat /\ batch.id \in Nat /\ batch.n \in Nat /\ Past \in Replays
      /\ log' = Append(log, Last(live))
  BY Typed DEF LogReply
<1>2. CASE batch = NoBatch /\ latest # 0 /\ Last(live) = Draft(latest)
  <2>1. Draft(latest) \in Msg /\ Draft(latest).t = "draft" /\ Draft(latest).id = latest
    BY <1>1 DEF Draft, Message, Msg, Texts
  <2>2. Draft(latest) \in Line
    BY <2>1, LinesAre
  <2>3. Past' = Replay(Past, Draft(latest)) /\ ToSet(log') = ToSet(log) \cup {Draft(latest)}
    BY <1>1, <1>2, <2>2, LogMore
  <2>4. stage' = "answer"
    BY <1>2, <2>1 DEF LogReply
  <2>. QED BY <1>1, <1>2, <2>1, <2>2, <2>3, <2>4, ReplayDraft
<1>3. CASE batch.id # 0 /\ batch.done = 0 /\ latest = 0 /\ Last(live) = Calls(batch.id, batch.n)
  <2> DEFINE e == Calls(batch.id, batch.n)
  <2>1. e \in Msg /\ e.t = "calls"
    BY <1>1 DEF Calls, Message, Msg, Texts
  <2>2. e \in Line
    BY <2>1, LinesAre
  <2>3. Past' = Replay(Past, e) /\ ToSet(log') = ToSet(log) \cup {e}
    BY <1>1, <1>3, <2>2, LogMore
  <2>4. stage' = "batch"
    BY <1>3, <2>1 DEF LogReply
  <2> HIDE DEF e
  <2>5. /\ Replay(Past, e).msgs = Append(Past.msgs, e) /\ Replay(Past, e).drafts = Past.drafts
        /\ Same(Replay(Past, e), Past)
    BY <1>1, <2>1, <2>2, ReplayAdds
  <2>. QED BY <1>3, <2>3, <2>4, <2>5 DEF e
<1>. QED BY <1>2, <1>3 DEF LogReply, Staged

\* A result is added to it.
LEMMA LogResultPast ==
  ASSUME HistoryTypeOK, Staged, LogResult
  PROVE  LET e == Result(batch.id, batch.done + 1) IN
         /\ e \in Msg /\ IsResult(e) /\ e.id = batch.id /\ e.k = batch.done + 1
         /\ Same(Past', Past) /\ Past'.msgs = Append(Past.msgs, e) /\ Past'.drafts = Past.drafts
         /\ ToSet(log') = ToSet(log) \cup {e}
<1> DEFINE e == Result(batch.id, batch.done + 1)
<1>1. /\ run \in Nat /\ batch.id \in Nat /\ batch.done + 1 \in Nat /\ Past \in Replays
      /\ log' = Append(log, e)
  <2>1. run \in Nat /\ batch.id \in Nat /\ batch.done \in Nat /\ Past \in Replays
    BY Typed
  <2>2. log' = Append(log, e)
    BY DEF LogResult
  <2>. QED BY <2>1, <2>2
<1>2. e \in Msg /\ IsResult(e) /\ e.id = batch.id /\ e.k = batch.done + 1
  BY <1>1 DEF Result, Message, Msg, Texts, IsResult
<1> HIDE DEF e
<1>3. e \in Line /\ e.t = "result"
  BY <1>2, LinesAre DEF IsResult
<1>4. Past' = Replay(Past, e) /\ ToSet(log') = ToSet(log) \cup {e}
  BY <1>1, <1>3, LogMore
<1>5. /\ Replay(Past, e).msgs = Append(Past.msgs, e) /\ Replay(Past, e).drafts = Past.drafts
      /\ Same(Replay(Past, e), Past)
  BY <1>1, <1>3, ReplayAdds
<1>. QED BY <1>2, <1>4, <1>5 DEF e

\* A settlement of a draft that the log has delivers it.
LEMMA SettlementPast ==
  ASSUME HistoryTypeOK, log' = Append(log, Settlement(run, latest))
  PROVE  LET e == Settlement(run, latest)  a == Delivered(run, latest) IN
         /\ e \in Msg /\ e.t = "settlement" /\ e.run = run /\ a \in Msg /\ a.t = "answer" /\ a.run = run
         /\ [a EXCEPT !.t = "settlement"] = e
         /\ Past'.settled = Append(Past.settled, e) /\ Past'.drafts = Past.drafts
         /\ IF latest = 0 \/ latest \in Past.drafts
            THEN Past'.msgs = Append(Past.msgs, a) /\ Past'.bad = Past.bad
            ELSE Past'.msgs = Past.msgs /\ Past'.bad = Past.bad \cup {run}
         /\ ToSet(log') = ToSet(log) \cup {e}
<1> DEFINE e == Settlement(run, latest)
<1> DEFINE a == Delivered(run, latest)
<1>1. run \in Nat /\ latest \in Nat /\ Past \in Replays
  BY Typed
<1>2. /\ e \in Msg /\ e.t = "settlement" /\ e.run = run /\ e.id = latest
      /\ a \in Msg /\ a.t = "answer" /\ a.run = run
      /\ [a EXCEPT !.t = "settlement"] = e /\ [e EXCEPT !.t = "answer"] = a
  BY <1>1, Formed
<1>3. log' = Append(log, e)
  OBVIOUS
<1> HIDE DEF e, a
<1>4. e \in Line
  BY <1>2, LinesAre
<1>5. Past' = Replay(Past, e) /\ ToSet(log') = ToSet(log) \cup {e}
  BY <1>3, <1>4, LogMore
<1>6. LET w == Replay(Past, e) IN
         /\ w.drafts = Past.drafts /\ w.settled = Append(Past.settled, e)
         /\ IF e.id = 0 \/ e.id \in Past.drafts
            THEN w.msgs = Append(Past.msgs, [e EXCEPT !.t = "answer"]) /\ w.bad = Past.bad
            ELSE w.msgs = Past.msgs /\ w.bad = Past.bad \cup {e.run}
  BY <1>1, <1>2, <1>4, ReplaySettles
<1>7. LET w == Replay(Past, e) IN
         /\ w.drafts = Past.drafts /\ w.settled = Append(Past.settled, e)
         /\ IF latest = 0 \/ latest \in Past.drafts
            THEN w.msgs = Append(Past.msgs, a) /\ w.bad = Past.bad
            ELSE w.msgs = Past.msgs /\ w.bad = Past.bad \cup {run}
  BY <1>2, <1>6
<1>. QED BY <1>2, <1>5, <1>7 DEF e, a

\* Half a line is passed over.
LEMMA CrashPast ==
  ASSUME HistoryTypeOK, Crash
  PROVE  /\ Past'.msgs = Past.msgs /\ Past'.drafts = Past.drafts /\ Same(Past', Past)
         /\ ToSet(log') = ToSet(log) \/ ToSet(log') = ToSet(log) \cup {HalfLine}
<1>1. CASE log' = log
  <2>1. Past' = Past
    BY <1>1 DEF Past
  <2>. QED BY <1>1, <2>1 DEF Same
<1>2. CASE log' = Append(log, HalfLine)
  <2>1. HalfLine \in Line /\ HalfLine.t = "half"
    BY Formed
  <2>2. Past' = Replay(Past, HalfLine) /\ ToSet(log') = ToSet(log) \cup {HalfLine}
    BY <1>2, <2>1, LogMore
  <2>. QED BY <2>1, <2>2, Typed, ReplayOther
<1>. QED BY <1>1, <1>2 DEF Crash

\* A new session starts from nothing.
LEMMA NewPast ==
  ASSUME NewSession
  PROVE  Past' = Nothing /\ ToSet(log') = {} /\ ToSet(<<>>) = {} /\ Blocks(<<>>)
<1>1. log' = <<>>
  BY DEF NewSession
<1>2. Past' = Nothing
  BY <1>1, ReplayedNone DEF Past
<1>. QED BY <1>1, <1>2, NoneBlocks DEF ToSet

\* The steps that leave the log alone.
Quiet == \/ Submit \/ ReplyCalls \/ ReplyText \/ NoReply \/ JoinResult \/ EndBatch \/ Rewrite
          \/ InstallSettlement \/ Signal \/ Resume

\* The other steps leave the log alone.
LEMMA QuietPast ==
  ASSUME Quiet
  PROVE  Past' = Past /\ log' = log
<1>1. log' = log
  BY DEF Quiet, Submit, ReplyCalls, ReplyText, NoReply, JoinResult, EndBatch, Rewrite, InstallSettlement,
         Signal, Resume
<1>. QED BY <1>1 DEF Past

\* The draft that would be delivered stays where it is until it is delivered.
LEMMA DraftedKept ==
  ASSUME HistoryTypeOK, Staged, Drafted, HistoryNext
  PROVE  Drafted'
<1>1. live \in Seq(Msg) /\ run \in Nat /\ latest \in Nat /\ next \in Nat
  BY Typed
<1>2. CASE latest' = 0 \/ stage' \in {"idle", "failed", "down", "refused"}
  BY <1>2 DEF Drafted, Asking
<1>3. CASE Compact
  <2>1. /\ stage = "model" /\ latest' = latest /\ ~ HasDraft
    BY <1>3 DEF Compact
  <2>2. ASSUME latest # 0 PROVE FALSE
    <3>1. Draft(latest) \in ToSet(live)
      BY <2>1, <2>2 DEF Drafted, Asking
    <3>2. Draft(latest).t = "draft" /\ Draft(latest).run = run
      BY DEF Draft, Message
    <3>. QED BY <2>1, <3>1, <3>2 DEF HasDraft, ToSet
  <2>. QED BY <1>2, <2>1, <2>2
<1>4. CASE ReplyText
  <2>1. live' = Append(live, Draft(next)) /\ latest' = next /\ run' = run /\ stage' = "logging"
    BY <1>4 DEF ReplyText
  <2>2. Draft(latest)' = Draft(next)
    BY <2>1 DEF Draft, Message
  <2>3. Draft(next) \in Msg
    BY <1>1, Formed
  <2>4. Draft(next) \in ToSet(live')
    BY <1>1, <2>1, <2>3, OneMoreHas
  <2>. QED BY <2>1, <2>2, <2>4 DEF Drafted, Asking
<1>5. CASE NoReply
  <2>1. stage = "model" /\ latest' \in {0, latest} /\ live' = live /\ run' = run /\ stage' = "settle"
    BY <1>5 DEF NoReply
  <2>2. Past' = Past
    BY <1>5, QuietPast DEF Quiet
  <2>3. latest' = latest => Draft(latest)' = Draft(latest)
    BY <2>1 DEF Draft, Message
  <2>. QED BY <2>1, <2>2, <2>3 DEF Drafted, Asking
<1>6. CASE LogReply
  <2>1. stage = "logging" /\ latest' = latest /\ live' = live /\ run' = run
    BY <1>6 DEF LogReply
  <2>2. Draft(latest)' = Draft(latest)
    BY <2>1 DEF Draft, Message
  <2>3. latest # 0 => Past'.drafts = Past.drafts \cup {latest}
    BY <1>6, LogReplyPast
  <2>. QED BY <2>1, <2>2, <2>3 DEF Drafted, Asking
<1>7. CASE LogResult \/ JoinResult \/ EndBatch
  <2>1. stage \in {"batch", "joining"} /\ latest' = latest
    BY <1>7 DEF LogResult, JoinResult, EndBatch
  <2>. QED BY <1>2, <2>1 DEF Staged
<1>8. CASE Rewrite
  <2>1. stage = "answer" /\ latest' = latest /\ run' = run /\ stage' = "model"
    BY <1>8 DEF Rewrite
  <2>2. Past' = Past
    BY <1>8, QuietPast DEF Quiet
  <2>3. Draft(latest)' = Draft(latest)
    BY <2>1 DEF Draft, Message
  <2>4. ToSet(live) \subseteq ToSet(live')
    BY <1>8, LiveGrows
  <2>. QED BY <2>1, <2>2, <2>3, <2>4 DEF Drafted, Asking
<1>9. CASE RecordSettlement
  <2>1. CASE latest = 0 \/ Draft(latest) \in ToSet(live)
    <3>1. stage' = "settling" /\ latest' = latest /\ live' = live /\ run' = run
      BY <1>9, <2>1 DEF RecordSettlement
    <3>2. Draft(latest)' = Draft(latest)
      BY <3>1 DEF Draft, Message
    <3>. QED BY <2>1, <3>1, <3>2 DEF Drafted, Asking
  <2>2. CASE ~ (latest = 0 \/ Draft(latest) \in ToSet(live))
    BY <1>2, <1>9, <2>2 DEF RecordSettlement, Idle
  <2>. QED BY <2>1, <2>2
<1>10. CASE Submit \/ ReplyCalls \/ InstallSettlement \/ Crash \/ Resume \/ NewSession
  BY <1>2, <1>10 DEF Submit, ReplyCalls, InstallSettlement, Idle, Crash, Resume, NewSession
<1>11. CASE Signal
  BY <1>2, <1>11 DEF Signal, Idle
<1>12. CASE LogPrompt
  BY <1>2, <1>12 DEF LogPrompt, Staged
<1>. QED BY <1>3, <1>4, <1>5, <1>6, <1>7, <1>8, <1>9, <1>10, <1>11, <1>12 DEF HistoryNext

\* The counts of what was torn.
LEMMA TornGrows ==
  ASSUME HistoryTypeOK, Staged, HistoryNext, ~ NewSession
  PROVE  /\ torn'.signal = 0 => torn.signal = 0
         /\ torn'.crash = 0 => torn.crash = 0
         /\ Signal => (torn'.signal = 0 => batch.id = 0)
         /\ Crash => /\ torn'.crash = 0 => stage \notin {"batch", "joining"}
                     /\ torn'.loads = torn.loads
                     /\ stage \notin {"batch", "joining"} => torn' = torn
         /\ Resume => /\ torn'.crash = torn.crash
                      /\ torn'.loads = IF torn.crash = 0 THEN 0 ELSE Min({2, torn.loads + 1})
         /\ ~ Crash => torn'.crash = torn.crash
         /\ ~ Crash /\ ~ Resume => torn'.loads = torn.loads
<1>1. /\ torn \in [crash : Nat, signal : Nat, loads : Nat]
      /\ torn.crash \in Nat /\ torn.signal \in Nat /\ torn.loads \in Nat
  BY Typed
<1>2. Signal => /\ torn'.signal = (IF batch.id # 0 THEN torn.signal + 1 ELSE torn.signal)
                /\ torn'.crash = torn.crash /\ torn'.loads = torn.loads
  BY <1>1 DEF Signal
<1>3. Crash => torn' = IF stage \in {"batch", "joining"} THEN [torn EXCEPT !.crash = @ + 1] ELSE torn
  BY DEF Crash
<1>4. Crash => /\ torn'.crash = (IF stage \in {"batch", "joining"} THEN torn.crash + 1 ELSE torn.crash)
               /\ torn'.signal = torn.signal /\ torn'.loads = torn.loads
  BY <1>1, <1>3
<1>5. Resume => /\ torn'.crash = torn.crash /\ torn'.signal = torn.signal
                /\ torn'.loads = (IF torn.crash = 0 THEN 0 ELSE Min({2, torn.loads + 1}))
  <2> SUFFICES ASSUME Resume PROVE /\ torn'.crash = torn.crash /\ torn'.signal = torn.signal
                                   /\ torn'.loads = (IF torn.crash = 0 THEN 0 ELSE Min({2, torn.loads + 1}))
    OBVIOUS
  <2> DEFINE S == {2, torn.loads + 1}
  <2>1. torn' = [torn EXCEPT !.loads = IF torn.crash = 0 THEN 0 ELSE Min(S)]
    BY DEF Resume
  <2> HIDE DEF S
  <2>2. /\ torn'.crash = torn.crash /\ torn'.signal = torn.signal
        /\ torn'.loads = IF torn.crash = 0 THEN 0 ELSE Min(S)
    BY <1>1, <2>1
  <2>. QED BY <2>2 DEF S
<1>6. Signal \/ Crash \/ Resume \/ torn' = torn
  BY DEF HistoryNext, Submit, LogPrompt, Compact, ReplyCalls, ReplyText, NoReply, LogReply, LogResult,
         JoinResult, EndBatch, Rewrite, RecordSettlement, InstallSettlement
<1>. QED BY <1>1, <1>2, <1>3, <1>4, <1>5, <1>6

\* The last calls of s, with d results, are those of the batch b.
Serves(s, d, b) == Unfinished(s, d) /\ s[Len(s) - d].id = b.id /\ s[Len(s) - d].k = b.n

\* The batch of the process, and any other.
LEMMA InBatchIs == \A s, d : InBatch(s, d) <=> Serves(s, d, batch)
BY DEF InBatch, Serves

\* A result brings a batch further ...
LEMMA ServesMore ==
  ASSUME NEW s \in Seq(Msg), NEW d \in Nat, NEW b, Serves(s, d, b), d < b.n,
         NEW m \in Msg, IsResult(m), m.id = b.id, m.k = d + 1
  PROVE  Serves(Append(s, m), d + 1, b)
BY MoreResults DEF Serves

\* ... and the last one ends it.
LEMMA ServesAll ==
  ASSUME NEW s \in Seq(Msg), NEW b, b.n \in Nat, Serves(s, b.n, b)
  PROVE  Blocks(s)
BY AllAnswered DEF Serves

\* The shape of the log, as long as nothing was torn.
LogWhole == IF stage \in {"batch", "joining"}
            THEN Serves(Past.msgs, IF stage = "joining" THEN batch.done + 1 ELSE batch.done, batch)
            ELSE Blocks(Past.msgs)

\* Loads are counted up to two.
LEMMA MinTwo == \A n \in Nat : Min({2, n + 1}) # 0 /\ (Min({2, n + 1}) <= 1 => n = 0)
<1> TAKE n \in Nat
<1> DEFINE S == {2, n + 1}
<1>1. S \subseteq Nat /\ S # {} /\ \A y \in S : y # 0 /\ (y <= 1 => n = 0)
  OBVIOUS
<1> HIDE DEF S
<1>2. Min(S) \in S
  BY <1>1, Least
<1>. QED BY <1>1, <1>2 DEF S

\* The log of a session without a cut batch stays well-formed.
LEMMA LogWholeKept ==
  ASSUME HistoryTypeOK, Staged, LiveShape, LogShape, HistoryNext, torn'.signal = 0, torn'.crash = 0
  PROVE  LogWhole'
<1>1. /\ live \in Seq(Msg) /\ Past \in Replays /\ Past.msgs \in Seq(Msg)
      /\ batch.id \in Nat /\ batch.n \in Nat /\ batch.done \in Nat
      /\ batch \in [id : Nat, n : Nat, done : Nat]
  BY Typed, ReplaysIs
<1>2. CASE NewSession
  <2>1. Past' = Nothing /\ Blocks(<<>>) /\ Nothing.msgs = <<>> /\ stage' = "idle"
    BY <1>2, NewPast DEF NewSession, Nothing
  <2>. QED BY <2>1 DEF LogWhole
<1>. SUFFICES ASSUME ~ NewSession PROVE LogWhole'
  BY <1>2
<1>3. torn.signal = 0 /\ torn.crash = 0 /\ torn.loads = 0
  BY TornGrows DEF Staged
<1>4. LogWhole
  BY <1>3 DEF LogShape, LogWhole, InBatch, Serves
<1>5. CASE LogPrompt
  <2>1. stage = "asking" /\ stage' = "model"
    BY <1>5 DEF LogPrompt
  <2>2. User \in Msg /\ User.t = "user" /\ Past'.msgs = Append(Past.msgs, User)
    BY <1>5, PromptPast
  <2>3. Blocks(Past'.msgs)
    BY <1>1, <1>4, <2>1, <2>2, MoreBlocks DEF LogWhole
  <2>. QED BY <2>1, <2>3 DEF LogWhole
<1>6. CASE Compact
  <2>1. stage = "model" /\ stage' = "model" /\ (Blocks(live) => Blocks(live'))
    BY <1>6, CompactIs
  <2>2. batch = NoBatch /\ NoBatch.id = 0
    BY <2>1 DEF Staged, NoBatch
  <2>3. Blocks(live)
    BY <1>3, <2>1, <2>2 DEF LiveShape, Dead
  <2>4. Past'.msgs = live' \/ Past'.msgs = Past.msgs
    BY <1>6, CompactPast
  <2>. QED BY <1>4, <2>1, <2>3, <2>4 DEF LogWhole
<1>7. CASE Submit \/ ReplyCalls \/ ReplyText \/ NoReply \/ Rewrite \/ InstallSettlement \/ Resume
  <2>1. Past' = Past
    BY <1>7, QuietPast DEF Quiet
  <2>2. stage \notin {"batch", "joining"} /\ stage' \notin {"batch", "joining"}
    BY <1>7 DEF Submit, ReplyCalls, ReplyText, NoReply, Rewrite, InstallSettlement, Resume, Idle
  <2>. QED BY <1>4, <2>1, <2>2 DEF LogWhole
<1>8. CASE LogReply
  <2>1. stage = "logging" /\ batch' = batch
    BY <1>8 DEF LogReply
  <2>2. Blocks(Past.msgs)
    BY <1>4, <2>1 DEF LogWhole
  <2>3. CASE stage' = "answer" /\ Past'.msgs = Past.msgs
    BY <2>2, <2>3 DEF LogWhole
  <2>4. CASE /\ batch.done = 0 /\ stage' = "batch"
             /\ Past'.msgs = Append(Past.msgs, Calls(batch.id, batch.n))
    <3> DEFINE e == Calls(batch.id, batch.n)
    <3>1. e \in Msg /\ e.t = "calls" /\ e.id = batch.id /\ e.k = batch.n
      BY <1>1, Typed DEF Calls, Message, Msg, Texts
    <3> HIDE DEF e
    <3>2. Serves(Append(Past.msgs, e), 0, batch)
      BY <1>1, <2>2, <3>1, MoreCalls DEF Serves
    <3>. QED BY <2>1, <2>4, <3>2 DEF LogWhole, e
  <2>. QED BY <1>8, <2>3, <2>4, LogReplyPast
<1>9. CASE LogResult
  <2> DEFINE e == Result(batch.id, batch.done + 1)
  <2>1. stage = "batch" /\ stage' = "joining" /\ batch' = batch /\ batch.done < batch.n
    BY <1>9 DEF LogResult
  <2>2. /\ e \in Msg /\ IsResult(e) /\ e.id = batch.id /\ e.k = batch.done + 1
        /\ Past'.msgs = Append(Past.msgs, e)
    BY <1>9, LogResultPast
  <2> HIDE DEF e
  <2>3. Serves(Append(Past.msgs, e), batch.done + 1, batch)
    BY <1>1, <1>4, <2>1, <2>2, ServesMore DEF LogWhole
  <2>. QED BY <2>1, <2>2, <2>3 DEF LogWhole
<1>10. CASE JoinResult
  <2>1. stage = "joining" /\ stage' = "batch" /\ batch' = [batch EXCEPT !.done = @ + 1]
    BY <1>10 DEF JoinResult
  <2>2. batch'.id = batch.id /\ batch'.n = batch.n /\ batch'.done = batch.done + 1
    BY <1>1, <2>1
  <2>3. Past' = Past
    BY <1>10, QuietPast DEF Quiet
  <2>. QED BY <1>4, <2>1, <2>2, <2>3 DEF LogWhole, Serves
<1>11. CASE EndBatch
  <2>1. stage = "batch" /\ stage' \in {"model", "settle"} /\ batch.done = batch.n
    BY <1>11 DEF EndBatch
  <2>2. Past' = Past
    BY <1>11, QuietPast DEF Quiet
  <2>3. Blocks(Past.msgs)
    BY <1>1, <1>4, <2>1, ServesAll DEF LogWhole
  <2>. QED BY <2>1, <2>2, <2>3 DEF LogWhole
<1>12. CASE RecordSettlement
  <2>1. stage \in {"answer", "settle", "failed"} /\ stage' \in {"settling", "idle"}
    BY <1>12 DEF RecordSettlement, Idle
  <2>2. CASE log' = log
    <3>1. Past' = Past
      BY <2>2 DEF Past
    <3>. QED BY <1>4, <2>1, <3>1 DEF LogWhole
  <2>3. CASE log' = Append(log, Settlement(run, latest))
    <3> DEFINE a == Delivered(run, latest)
    <3>1. a \in Msg /\ a.t = "answer" /\ (Past'.msgs = Append(Past.msgs, a) \/ Past'.msgs = Past.msgs)
      BY <2>3, SettlementPast
    <3> HIDE DEF a
    <3>2. Blocks(Past'.msgs)
      BY <1>1, <1>4, <2>1, <3>1, MoreBlocks DEF LogWhole
    <3>. QED BY <2>1, <3>2 DEF LogWhole
  <2>. QED BY <1>12, <2>2, <2>3 DEF RecordSettlement
<1>13. CASE Signal
  <2>1. Past' = Past
    BY <1>13, QuietPast DEF Quiet
  <2>2. batch.id = 0
    BY <1>13, TornGrows
  <2>3. stage \notin {"batch", "joining"}
    BY <2>2 DEF Staged
  <2>4. stage' \in {"idle", "failed"}
    BY <1>13 DEF Signal, Idle
  <2>. QED BY <1>4, <2>1, <2>3, <2>4 DEF LogWhole
<1>14. CASE Crash
  <2>1. stage \notin {"batch", "joining"} /\ stage' = "down"
    BY <1>14, TornGrows DEF Crash
  <2>2. Past'.msgs = Past.msgs
    BY <1>14, CrashPast
  <2>. QED BY <1>4, <2>1, <2>2 DEF LogWhole
<1>. QED BY <1>5, <1>6, <1>7, <1>8, <1>9, <1>10, <1>11, <1>12, <1>13, <1>14 DEF HistoryNext

\* After one crash in a batch, the log lacks results of its last calls only.
LEMMA LogTornKept ==
  ASSUME HistoryTypeOK, Staged, LogShape, HistoryNext,
         torn'.signal = 0, torn'.crash # 0, torn'.loads = 0
  PROVE  Dead' /\ \E d \in Nat : Unfinished(Past.msgs, d)'
<1>1. ~ NewSession
  BY DEF NewSession, Whole
<1>2. torn.crash \in Nat /\ torn.loads \in Nat /\ batch.done \in Nat
  BY Typed
<1>3. torn.signal = 0
  BY <1>1, TornGrows
<1>4. CASE Crash
  <2>1. stage \notin {"down", "refused"} /\ stage' = "down"
    BY <1>4 DEF Crash
  <2>2. torn'.loads = torn.loads /\ (stage \notin {"batch", "joining"} => torn' = torn)
    BY <1>1, <1>4, TornGrows
  <2>3. torn.crash = 0
    BY <1>3, <2>1, <2>2 DEF LogShape, Dead
  <2>4. stage \in {"batch", "joining"}
    BY <2>2, <2>3
  <2>5. InBatch(Past.msgs, IF stage = "joining" THEN batch.done + 1 ELSE batch.done)
    BY <1>3, <2>3, <2>4 DEF LogShape
  <2>6. \E d \in Nat : Unfinished(Past.msgs, d)
    BY <1>2, <2>5 DEF InBatch
  <2>7. Past'.msgs = Past.msgs
    BY <1>4, CrashPast
  <2>8. \A d : Unfinished(Past.msgs, d)' <=> Unfinished(Past'.msgs, d)
    BY DEF Unfinished, Results, OfCalls, AnsweredBut, ResultAt
  <2>. QED BY <2>1, <2>6, <2>7, <2>8 DEF Dead
<1>5. CASE Resume
  <2>1. torn'.crash = torn.crash /\ torn'.loads = IF torn.crash = 0 THEN 0 ELSE Min({2, torn.loads + 1})
    BY <1>1, <1>5, TornGrows
  <2>. QED BY <1>2, <2>1, MinTwo
<1>6. CASE ~ Crash /\ ~ Resume
  <2>1. torn'.crash = torn.crash /\ torn'.loads = torn.loads
    BY <1>1, <1>6, TornGrows
  <2>2. Dead
    BY <1>3, <2>1 DEF LogShape
  <2>. QED BY <1>1, <1>6, <2>2
           DEF Dead, HistoryNext, Submit, LogPrompt, Compact, ReplyCalls, ReplyText, NoReply, LogReply,
               LogResult, JoinResult, EndBatch, Rewrite, RecordSettlement, InstallSettlement, Signal
<1>. QED BY <1>4, <1>5, <1>6

\* Every step keeps the shape of the log.
LEMMA LogKept ==
  ASSUME HistoryTypeOK, Staged, LiveShape, LogShape, HistoryNext
  PROVE  LogShape'
<1>1. torn'.signal = 0 /\ torn'.crash = 0 => LogWhole'
  BY LogWholeKept
<1>2. torn'.signal = 0 /\ torn'.crash # 0 /\ torn'.loads = 0 =>
         Dead' /\ \E d \in Nat : Unfinished(Past.msgs, d)'
  BY LogTornKept
<1>. QED BY <1>1, <1>2 DEF LogShape, LogWhole, InBatch, Serves

\* What the process has is whole, but for the batch that is being answered.
LiveWhole == IF batch.id # 0 THEN Serves(live, batch.done, batch) ELSE Blocks(live)

\* The runs that a process takes over have all their results.
LEMMA LoadWhole ==
  ASSUME HistoryTypeOK, Staged, LogShape, Resume, torn'.signal = 0, torn'.loads <= 1
  PROVE  Blocks(Load(log))
<1>1. torn.crash \in Nat /\ torn.loads \in Nat /\ stage \in {"down", "idle"}
  BY Typed DEF Resume
<1>2. ~ NewSession
  BY DEF Resume, NewSession
<1>3. torn.signal = 0 /\ torn'.loads = IF torn.crash = 0 THEN 0 ELSE Min({2, torn.loads + 1})
  BY <1>2, TornGrows DEF HistoryNext
<1>4. CASE torn.crash = 0
  <2>1. Blocks(Past.msgs)
    BY <1>1, <1>3, <1>4 DEF LogShape
  <2>. QED BY <2>1, LoadIs
<1>5. CASE torn.crash # 0
  <2>1. torn.loads = 0
    BY <1>1, <1>3, <1>5, MinTwo
  <2>2. \E d \in Nat : Unfinished(Past.msgs, d)
    BY <1>3, <1>5, <2>1 DEF LogShape
  <2>. QED BY <2>2, LoadIs
<1>. QED BY <1>4, <1>5

\* A filter of drafts leaves the calls with their results.
LEMMA OnlyBlocks ==
  ASSUME NEW s \in Seq(Msg), NEW S, Blocks(s), \A m \in ToSet(s) : m.t \in {"calls", "result"} => m \in S
  PROVE  Only(s, S) \in Seq(Msg) /\ Blocks(Only(s, S))
<1>1. Complete(s, 0, 0)
  BY CompleteIs
<1>2. Blocks(Only(s, S))
  BY <1>1, OnlyComplete
<1>. QED BY <1>2, OnlyHas

\* The messages of a process whose batches were not cut stay well-formed.
LEMMA LiveWholeKept ==
  ASSUME HistoryTypeOK, Staged, LiveShape, LogShape, HistoryNext,
         torn'.signal = 0, torn'.loads <= 1, ~ Dead'
  PROVE  LiveWhole'
<1>1. /\ live \in Seq(Msg) /\ run \in Nat /\ latest \in Nat /\ next \in Nat /\ next # 0
      /\ batch.id \in Nat /\ batch.n \in Nat /\ batch.done \in Nat
      /\ batch \in [id : Nat, n : Nat, done : Nat] /\ NoBatch.id = 0
  BY Typed DEF NoBatch
<1>2. CASE NewSession
  <2>1. live' = <<>> /\ batch' = batch /\ stage = "refused"
    BY <1>2 DEF NewSession
  <2>2. batch = NoBatch /\ Blocks(<<>>)
    BY <2>1, NoneBlocks DEF Staged
  <2>. QED BY <1>1, <2>1, <2>2 DEF LiveWhole
<1>3. CASE Resume
  <2>1. live' = Load(log) /\ batch' = batch /\ stage \in {"down", "idle"}
    BY <1>3 DEF Resume, Dead
  <2>2. batch = NoBatch /\ Blocks(Load(log))
    BY <1>3, <2>1, LoadWhole DEF Staged
  <2>. QED BY <1>1, <2>1, <2>2 DEF LiveWhole
<1>4. CASE Crash
  BY <1>4 DEF Crash, Dead
<1>. SUFFICES ASSUME ~ NewSession, ~ Resume, ~ Crash PROVE LiveWhole'
  BY <1>2, <1>3, <1>4
<1>5. torn.signal = 0 /\ torn.loads <= 1 /\ (Signal => batch.id = 0)
  BY TornGrows
<1>6. ~ Dead
  BY DEF Dead, HistoryNext, Submit, LogPrompt, Compact, ReplyCalls, ReplyText, NoReply, LogReply,
         LogResult, JoinResult, EndBatch, Rewrite, RecordSettlement, InstallSettlement, Signal
<1>7. LiveWhole
  BY <1>5, <1>6 DEF LiveShape, LiveWhole, InBatch, Serves
<1>8. CASE Submit
  <2>1. stage = "idle" /\ batch' = NoBatch
    BY <1>8 DEF Submit
  <2>2. batch = NoBatch
    BY <2>1 DEF Staged
  <2>3. User' \in Msg /\ User'.t = "user" /\ live' = Append(live, User')
    BY <1>1, <1>8 DEF Submit, User, Message, Msg, Texts
  <2>4. Blocks(live')
    BY <1>1, <1>7, <2>2, <2>3, MoreBlocks DEF LiveWhole
  <2>. QED BY <1>1, <2>1, <2>4 DEF LiveWhole
<1>9. CASE Compact
  <2>1. stage = "model" /\ batch' = batch /\ (Blocks(live) => Blocks(live'))
    BY <1>9, CompactIs
  <2>2. batch = NoBatch
    BY <2>1 DEF Staged
  <2>. QED BY <1>1, <1>7, <2>1, <2>2 DEF LiveWhole
<1>10. CASE ReplyCalls
  <2>1. PICK n \in 1..MaxCalls : /\ live' = Append(live, Calls(next, n))
                                 /\ batch' = [id |-> next, n |-> n, done |-> 0]
    BY <1>10 DEF ReplyCalls
  <2> DEFINE e == Calls(next, n)
  <2>2. n \in Nat
    BY HistoryAssumption
  <2>3. e \in Msg /\ e.t = "calls" /\ e.id = next /\ e.k = n
    BY <1>1, <2>2 DEF Calls, Message, Msg, Texts
  <2>4. live' = Append(live, e) /\ batch'.id = next /\ batch'.n = n /\ batch'.done = 0
    BY <2>1
  <2>5. batch = NoBatch
    BY <1>10 DEF ReplyCalls, Staged
  <2> HIDE DEF e
  <2>6. Unfinished(live', 0) /\ live'[Len(live') - 0] = e
    BY <1>1, <1>7, <2>3, <2>4, <2>5, MoreCalls DEF LiveWhole
  <2>. QED BY <1>1, <2>3, <2>4, <2>6 DEF LiveWhole, Serves
<1>11. CASE ReplyText
  <2>1. live' = Append(live, Draft(next)) /\ batch' = batch /\ stage = "model"
    BY <1>11 DEF ReplyText
  <2>2. Draft(next) \in Msg /\ Draft(next).t = "draft"
    BY <1>1 DEF Draft, Message, Msg, Texts
  <2>3. batch = NoBatch
    BY <2>1 DEF Staged
  <2>4. Blocks(live')
    BY <1>1, <1>7, <2>1, <2>2, <2>3, MoreBlocks DEF LiveWhole
  <2>. QED BY <1>1, <2>1, <2>3, <2>4 DEF LiveWhole
<1>12. CASE LogPrompt \/ NoReply \/ LogReply \/ LogResult \/ RecordSettlement
  <2>1. live' = live /\ batch' = batch
    BY <1>12 DEF LogPrompt, NoReply, LogReply, LogResult, RecordSettlement
  <2>. QED BY <1>7, <2>1 DEF LiveWhole
<1>13. CASE JoinResult
  <2> DEFINE e == [Result(batch.id, batch.done + 1) EXCEPT !.form = "live"]
  <2>1. stage = "joining" /\ live' = Append(live, e) /\ batch' = [batch EXCEPT !.done = @ + 1]
    BY <1>13 DEF JoinResult
  <2>2. batch'.id = batch.id /\ batch'.n = batch.n /\ batch'.done = batch.done + 1
    BY <1>1, <2>1
  <2>3. e \in Msg /\ IsResult(e) /\ e.id = batch.id /\ e.k = batch.done + 1
    <3>1. batch.done + 1 \in Nat
      BY <1>1
    <3>. QED BY <1>1, <3>1, Formed
  <2> HIDE DEF e
  <2>4. batch.id # 0 /\ batch.done < batch.n
    BY <2>1 DEF Staged
  <2>5. Serves(live', batch.done + 1, batch)
    BY <1>1, <1>7, <2>1, <2>3, <2>4, ServesMore DEF LiveWhole
  <2>. QED BY <2>2, <2>4, <2>5 DEF LiveWhole, Serves
<1>14. CASE EndBatch
  <2>1. stage = "batch" /\ batch.done = batch.n /\ batch' = NoBatch
    BY <1>14 DEF EndBatch
  <2>2. Blocks(live)
    BY <1>1, <1>7, <2>1, ServesAll DEF LiveWhole, Staged
  <2>3. live' = live \/ \E m \in Msg : live' = Append(live, m) /\ m.t = "steer"
    BY <1>14, LiveGrows
  <2>4. Blocks(live')
    BY <1>1, <2>2, <2>3, MoreBlocks
  <2>. QED BY <1>1, <2>1, <2>4 DEF LiveWhole
<1>15. CASE Rewrite
  <2>1. stage = "answer" /\ live' = Append(live, Steer) /\ batch' = batch
    BY <1>15 DEF Rewrite
  <2>2. batch = NoBatch
    BY <2>1 DEF Staged
  <2>3. Steer \in Msg /\ Steer.t = "steer"
    BY <1>1, Formed
  <2>4. Blocks(live')
    BY <1>1, <1>7, <2>1, <2>2, <2>3, MoreBlocks DEF LiveWhole
  <2>. QED BY <1>1, <2>1, <2>2, <2>4 DEF LiveWhole
<1>16. CASE InstallSettlement
  <2> DEFINE S == {m \in ToSet(live) : ~ (m.t = "draft" /\ m.run = run)}
  <2>1. stage = "settling" /\ live' = Append(Only(live, S), Delivered(run, latest)) /\ batch' = batch
    BY <1>16 DEF InstallSettlement
  <2>2. batch = NoBatch
    BY <2>1 DEF Staged
  <2>3. Delivered(run, latest) \in Msg /\ Delivered(run, latest).t = "answer"
    BY <1>1, Formed
  <2>4. \A m \in ToSet(live) : m.t \in {"calls", "result"} => m \in S
    OBVIOUS
  <2> HIDE DEF S
  <2>5. Only(live, S) \in Seq(Msg) /\ Blocks(Only(live, S))
    BY <1>1, <1>7, <2>2, <2>4, OnlyBlocks DEF LiveWhole
  <2>6. Blocks(live')
    BY <2>1, <2>3, <2>5, MoreBlocks
  <2>. QED BY <1>1, <2>1, <2>2, <2>6 DEF LiveWhole
<1>17. CASE Signal
  <2>1. live' = live /\ batch' = NoBatch
    BY <1>17 DEF Signal
  <2>. QED BY <1>1, <1>5, <1>7, <1>17, <2>1 DEF LiveWhole
<1>. QED BY <1>8, <1>9, <1>10, <1>11, <1>12, <1>13, <1>14, <1>15, <1>16, <1>17 DEF HistoryNext

\* Every step keeps the shape of what the process has.
LEMMA LiveKept ==
  ASSUME HistoryTypeOK, Staged, LiveShape, LogShape, HistoryNext
  PROVE  LiveShape'
BY LiveWholeKept DEF LiveShape, LiveWhole, InBatch, Serves

\* Every step keeps the sources of the answers: a checkpoint brings back only what was vouched for.
LEMMA SourcedKept ==
  ASSUME HistoryTypeOK, Staged, Sourced, HistoryNext
  PROVE  Sourced'
<1>1. /\ Past \in Replays /\ Past.msgs \in Seq(Msg) /\ Past.settled \in Seq(Msg)
      /\ run \in Nat /\ latest \in Nat /\ batch.id \in Nat /\ batch.n \in Nat
  BY Typed, ReplaysIs
<1>2. ASSUME Past'.settled = Past.settled,
             \/ Past'.msgs = Past.msgs
             \/ \E m \in Msg : Past'.msgs = Append(Past.msgs, m) /\ m.t \notin {"draft", "answer"},
             {e \in ToSet(log') : e.t = "settlement"} = Settlements
      PROVE  Sourced'
  <2>1. \A m \in ToSet(Past'.msgs) : m \in ToSet(Past.msgs) \/ m.t \notin {"draft", "answer"}
    <3>1. \A m \in Msg : ToSet(Append(Past.msgs, m)) = ToSet(Past.msgs) \cup {m}
      BY <1>1, OneMoreHas
    <3>. QED BY <1>2, <3>1
  <2>2. Settlements' = Settlements
    BY <1>2 DEF Settlements
  <2>. QED BY <1>2, <2>1, <2>2 DEF Sourced
<1>3. CASE LogPrompt
  <2>1. /\ User \in Msg /\ User.t = "user" /\ Past'.msgs = Append(Past.msgs, User)
        /\ Past'.settled = Past.settled /\ ToSet(log') = ToSet(log) \cup {User}
    BY <1>3, PromptPast DEF Same
  <2>2. {e \in ToSet(log') : e.t = "settlement"} = Settlements
    BY <2>1 DEF Settlements
  <2>. QED BY <1>2, <2>1, <2>2
<1>4. CASE Compact
  <2>1. /\ Past'.settled = Past.settled
        /\ (Vouched(Past, live') /\ Past'.msgs = live') \/ Past'.msgs = Past.msgs
    BY <1>4, CompactPast DEF Same
  <2>2. {e \in ToSet(log') : e.t = "settlement"} = Settlements
    <3>1. PICK e \in Line : e.t = "checkpoint" /\ ToSet(log') = ToSet(log) \cup {e}
      BY <1>4, CompactPast
    <3>. QED BY <3>1 DEF Settlements
  <2>3. CASE Past'.msgs = Past.msgs
    BY <1>2, <2>1, <2>2, <2>3
  <2>4. CASE Vouched(Past, live') /\ Past'.msgs = live'
    <3>1. \A m \in ToSet(live') : m.t # "draft"
      BY <1>4, CompactIs
    <3>2. \A m \in ToSet(live') : m.t = "answer" => [m EXCEPT !.t = "settlement"] \in ToSet(Past.settled)
      BY <2>4 DEF Vouched, ToSet
    <3>3. Settlements' = Settlements
      BY <2>2 DEF Settlements
    <3>. QED BY <2>1, <2>4, <3>1, <3>2, <3>3 DEF Sourced
  <2>. QED BY <2>1, <2>3, <2>4
<1>5. CASE LogReply
  <2>1. /\ Calls(batch.id, batch.n) \in Msg /\ Calls(batch.id, batch.n).t = "calls"
        /\ Draft(latest).t = "draft"
    BY <1>1 DEF Calls, Draft, Message, Msg, Texts
  <2>2. /\ Past'.settled = Past.settled
        /\ \/ Past'.msgs = Past.msgs /\ ToSet(log') = ToSet(log) \cup {Draft(latest)}
           \/ /\ Past'.msgs = Append(Past.msgs, Calls(batch.id, batch.n))
              /\ ToSet(log') = ToSet(log) \cup {Calls(batch.id, batch.n)}
    BY <1>5, LogReplyPast DEF Same
  <2>3. {e \in ToSet(log') : e.t = "settlement"} = Settlements
    BY <2>1, <2>2 DEF Settlements
  <2>. QED BY <1>2, <2>1, <2>2, <2>3
<1>6. CASE LogResult
  <2> DEFINE e == Result(batch.id, batch.done + 1)
  <2>1. /\ e \in Msg /\ e.t = "result" /\ Past'.settled = Past.settled
        /\ Past'.msgs = Append(Past.msgs, e) /\ ToSet(log') = ToSet(log) \cup {e}
    BY <1>6, LogResultPast DEF Same, IsResult
  <2> HIDE DEF e
  <2>2. {m \in ToSet(log') : m.t = "settlement"} = Settlements
    BY <2>1 DEF Settlements
  <2>. QED BY <1>2, <2>1, <2>2
<1>7. CASE RecordSettlement
  <2>1. CASE log' = log
    <3>1. Past' = Past
      BY <2>1 DEF Past
    <3>. QED BY <1>2, <2>1, <3>1 DEF Settlements
  <2>2. CASE log' = Append(log, Settlement(run, latest))
    <3> DEFINE e == Settlement(run, latest)
    <3> DEFINE a == Delivered(run, latest)
    <3>1. /\ e \in Msg /\ e.t = "settlement" /\ a \in Msg /\ a.t = "answer"
          /\ [a EXCEPT !.t = "settlement"] = e
          /\ Past'.settled = Append(Past.settled, e)
          /\ Past'.msgs = Append(Past.msgs, a) \/ Past'.msgs = Past.msgs
          /\ ToSet(log') = ToSet(log) \cup {e}
      BY <2>2, SettlementPast
    <3> HIDE DEF e, a
    <3>2. Settlements' = Settlements \cup {e}
      BY <3>1 DEF Settlements
    <3>3. ToSet(Past'.settled) = Settlements'
      BY <1>1, <3>1, <3>2, OneMoreHas DEF Sourced
    <3>4. \A m \in ToSet(Past'.msgs) : m \in ToSet(Past.msgs) \/ m = a
      <4>1. ToSet(Append(Past.msgs, a)) = ToSet(Past.msgs) \cup {a}
        BY <1>1, <3>1, OneMoreHas
      <4>. QED BY <3>1, <4>1
    <3>5. \A m \in ToSet(Past'.msgs) :
            /\ m.t # "draft"
            /\ m.t = "answer" => [m EXCEPT !.t = "settlement"] \in Settlements'
      BY <3>1, <3>2, <3>4 DEF Sourced
    <3>. QED BY <3>3, <3>5 DEF Sourced
  <2>. QED BY <1>7, <2>1, <2>2 DEF RecordSettlement
<1>8. CASE Crash
  <2>1. /\ Past'.msgs = Past.msgs /\ Past'.settled = Past.settled
        /\ ToSet(log') = ToSet(log) \/ ToSet(log') = ToSet(log) \cup {HalfLine}
    BY <1>8, CrashPast DEF Same
  <2>2. {m \in ToSet(log') : m.t = "settlement"} = Settlements
    BY <2>1, Formed DEF Settlements
  <2>. QED BY <1>2, <2>1, <2>2
<1>9. CASE NewSession
  <2>1. Past' = Nothing /\ ToSet(log') = {} /\ ToSet(<<>>) = {}
    BY <1>9, NewPast
  <2>2. Nothing.settled = <<>> /\ Nothing.msgs = <<>>
    BY DEF Nothing
  <2>. QED BY <2>1, <2>2 DEF Sourced, Settlements
<1>10. CASE Quiet
  <2>1. Past' = Past /\ log' = log
    BY <1>10, QuietPast
  <2>. QED BY <1>2, <2>1 DEF Settlements
<1>. QED BY <1>3, <1>4, <1>5, <1>6, <1>7, <1>8, <1>9, <1>10 DEF HistoryNext, Quiet

\* The lines that are no settlements leave the settlements alone.
LEMMA SettlementsAre ==
  ASSUME HistoryTypeOK, Staged, HistoryNext, ~ RecordSettlement, ~ NewSession
  PROVE  Settlements' = Settlements /\ Same(Past', Past)
<1>1. /\ run \in Nat /\ latest \in Nat /\ batch.id \in Nat /\ batch.n \in Nat
  BY Typed
<1>2. CASE LogPrompt
  BY <1>2, PromptPast DEF Settlements
<1>3. CASE Compact
  <2>1. Same(Past', Past)
    BY <1>3, CompactPast
  <2>2. PICK e \in Line : e.t = "checkpoint" /\ ToSet(log') = ToSet(log) \cup {e}
    BY <1>3, CompactPast
  <2>. QED BY <2>1, <2>2 DEF Settlements
<1>4. CASE LogReply
  <2>1. Calls(batch.id, batch.n).t = "calls" /\ Draft(latest).t = "draft"
    BY DEF Calls, Draft, Message
  <2>2. /\ Same(Past', Past)
        /\ \/ ToSet(log') = ToSet(log) \cup {Draft(latest)}
           \/ ToSet(log') = ToSet(log) \cup {Calls(batch.id, batch.n)}
    BY <1>4, LogReplyPast
  <2>. QED BY <2>1, <2>2 DEF Settlements
<1>5. CASE LogResult
  <2> DEFINE e == Result(batch.id, batch.done + 1)
  <2>1. Same(Past', Past) /\ e.t = "result" /\ ToSet(log') = ToSet(log) \cup {e}
    BY <1>5, LogResultPast DEF IsResult
  <2> HIDE DEF e
  <2>. QED BY <2>1 DEF Settlements
<1>6. CASE Crash
  <2>1. Same(Past', Past) /\ (ToSet(log') = ToSet(log) \/ ToSet(log') = ToSet(log) \cup {HalfLine})
    BY <1>6, CrashPast
  <2>. QED BY <2>1, Formed DEF Settlements
<1>7. CASE Quiet
  BY <1>7, QuietPast DEF Settlements, Same
<1>. QED BY <1>2, <1>3, <1>4, <1>5, <1>6, <1>7 DEF HistoryNext, Quiet

\* Every step leaves a run with one settlement at most.
LEMMA SettledKept ==
  ASSUME HistoryTypeOK, Staged, Sourced, Settled, HistoryNext
  PROVE  Settled'
<1>1. run \in Nat /\ latest \in Nat /\ Past.settled \in Seq(Msg)
  BY Typed, ReplaysIs
<1>2. CASE NewSession
  <2>1. Past' = Nothing /\ ToSet(log') = {}
    BY <1>2, NewPast
  <2>2. DOMAIN Nothing.settled = {} /\ Nothing.bad = {}
    BY DEF Nothing
  <2>. QED BY <2>1, <2>2 DEF Settled, Settlements
<1>3. CASE RecordSettlement
  <2>1. run' = run /\ stage' \in {"settling", "idle"} /\ InRun
    BY <1>3 DEF RecordSettlement, Idle, InRun, Asking
  <2>2. ~ InRun'
    BY <2>1 DEF InRun, Asking
  <2>3. CASE log' = log
    <3>1. Past' = Past /\ Settlements' = Settlements
      BY <2>3 DEF Past, Settlements
    <3>. QED BY <2>1, <2>2, <3>1 DEF Settled
  <2>4. CASE log' = Append(log, Settlement(run, latest))
    <3> DEFINE e == Settlement(run, latest)
    <3> DEFINE s == Past.settled
    <3>1. /\ e \in Msg /\ e.t = "settlement" /\ e.run = run
          /\ Past'.settled = Append(s, e)
          /\ Past'.bad \subseteq Past.bad \cup {run}
          /\ ToSet(log') = ToSet(log) \cup {e}
      BY <2>4, SettlementPast
    <3> HIDE DEF e
    <3>2. Settlements' = Settlements \cup {e}
      BY <3>1 DEF Settlements
    <3>3. \A i \in DOMAIN s : s[i].run # run
      BY <2>1 DEF Sourced, Settled, ToSet
    <3>4. /\ \A i, j \in DOMAIN s : s[i].run = s[j].run => i = j
          /\ \A x \in Settlements : x.run \in 1..run
          /\ Past.bad \subseteq {x.run : x \in Settlements}
      BY DEF Settled
    <3>5. s \in Seq(Msg)
      BY <1>1
    <3> HIDE DEF s
    <3>6. \A i, j \in DOMAIN Append(s, e) : Append(s, e)[i].run = Append(s, e)[j].run => i = j
      <4>1. /\ DOMAIN Append(s, e) = 1..(Len(s) + 1) /\ DOMAIN s = 1..Len(s) /\ Len(s) \in Nat
            /\ Append(s, e)[Len(s) + 1] = e /\ \A i \in 1..Len(s) : Append(s, e)[i] = s[i]
        BY <3>1, <3>5
      <4>2. \A i \in 1..(Len(s) + 1) : i = Len(s) + 1 \/ i \in 1..Len(s)
        BY <4>1
      <4>. QED BY <3>1, <3>3, <3>4, <4>1, <4>2
    <3>7. run \in 1..run
      BY <1>1, <2>1 DEF Staged
    <3>8. \A x \in Settlements' : x.run \in 1..run'
      BY <2>1, <3>1, <3>2, <3>4, <3>7
    <3>9. Past'.bad \subseteq {x.run : x \in Settlements'}
      BY <3>1, <3>2, <3>4
    <3>. QED BY <2>2, <3>1, <3>6, <3>8, <3>9 DEF Settled
  <2>. QED BY <1>3, <2>3, <2>4 DEF RecordSettlement
<1>. SUFFICES ASSUME ~ NewSession, ~ RecordSettlement PROVE Settled'
  BY <1>2, <1>3
<1>4. Settlements' = Settlements /\ Past'.settled = Past.settled /\ Past'.bad = Past.bad
  BY SettlementsAre DEF Same
<1>5. CASE Submit
  <2>1. run' = run + 1
    BY <1>5 DEF Submit
  <2>2. \A e \in Settlements' : e.run \in 1..run' /\ e.run # run'
    BY <1>1, <1>4, <2>1 DEF Settled
  <2>. QED BY <1>4, <2>2 DEF Settled
<1>6. CASE ~ Submit
  <2>1. run' = run
    BY <1>6 DEF HistoryNext, LogPrompt, Compact, ReplyCalls, ReplyText, NoReply, LogReply, LogResult, JoinResult,
                EndBatch, Rewrite, InstallSettlement, Signal, Crash, Resume
  <2>2. InRun' => InRun
    <3>1. CASE LogPrompt \/ Compact \/ ReplyCalls \/ ReplyText \/ NoReply \/ LogReply \/ LogResult \/ JoinResult
      BY <3>1 DEF LogPrompt, Compact, ReplyCalls, ReplyText, NoReply, LogReply, LogResult, JoinResult, InRun, Asking
    <3>2. CASE EndBatch \/ Rewrite
      BY <3>2 DEF EndBatch, Rewrite, InRun, Asking
    <3>3. CASE Signal
      BY <3>3 DEF Signal, Idle, InRun, Asking
    <3>4. CASE InstallSettlement \/ Crash \/ Resume
      BY <3>4 DEF InstallSettlement, Idle, Crash, Resume, InRun, Asking
    <3>. QED BY <1>6, <3>1, <3>2, <3>3, <3>4 DEF HistoryNext
  <2>. QED BY <1>4, <2>1, <2>2 DEF Settled
<1>. QED BY <1>5, <1>6

\* The answers a resumed session owes are among those it gets.
LEMMA LoadHas ==
  ASSUME HistoryTypeOK, Sourced, Settled, Blocks(Past.msgs), NEW r, AnswerIn(Past.msgs, r), r \notin Past.bad,
         r \notin LeftOut(History(log))
  PROVE  AnswerIn(Load(log), r)
<1>1. PICK m \in ToSet(Past.msgs) : m.t = "answer" /\ m.run = r
  BY DEF AnswerIn
<1>2. Past.settled \in Seq(Msg) /\ Past.msgs \in Seq(Msg)
  BY Typed, ReplaysIs
<1>3. m \in Msg
  BY <1>1, <1>2 DEF ToSet
<1>4. [m EXCEPT !.t = "settlement"] \in ToSet(Past.settled) /\ [m EXCEPT !.t = "settlement"].run = r
  BY <1>1, <1>3 DEF Sourced, Msg
<1>5. PICK i \in DOMAIN Past.settled : Past.settled[i].run = r
  BY <1>4 DEF ToSet
<1>6. {j \in DOMAIN Past.settled : Past.settled[j].run = r} = {i}
  BY <1>5 DEF Settled
<1>7. SettledOnce(Past, r)
  <2>1. Cardinality({i}) = 1
    BY FS_Singleton
  <2>. QED BY <1>6, <2>1 DEF SettledOnce
<1>8. m \in ToSet(History(log))
  BY <1>1, <1>7, LoadIs
<1>9. m \in ToSet(Newest(History(log), Window))
  BY <1>1, <1>8 DEF LeftOut
<1>10. m \in ToSet(Load(log))
  BY <1>1, <1>9, LoadIs DEF IsResult
<1>. QED BY <1>1, <1>10 DEF AnswerIn

\* Which answers are owed changes with a settlement, and where some are given up.
LEMMA OwedIs ==
  ASSUME HistoryTypeOK, Staged, HistoryNext
  PROVE  /\ Submit => Owed' \subseteq Owed /\ run' \notin Owed'
         /\ Compact => Owed' = Owed \ {live[i].run : i \in {j \in DOMAIN live : live[j].t = "answer"}}
         /\ Resume => Owed' \subseteq Owed /\ (stage' = "idle" => Owed' \cap LeftOut(History(log)) = {})
         /\ NewSession => Owed' = {}
         /\ RecordSettlement => Owed' \subseteq IF stage = "failed" THEN Owed \ {run} ELSE Owed \cup {run}
         /\ Signal => Owed' \subseteq IF stage = "settling" THEN Owed \ {run} ELSE Owed
         /\ ReplyCalls \/ ReplyText \/ NoReply \/ LogReply \/ LogResult \/ JoinResult => Owed' = Owed
         /\ LogPrompt \/ EndBatch \/ Rewrite \/ InstallSettlement \/ Crash => Owed' = Owed
<1>1. run \in Nat /\ told \in Seq({"nothing", "answer", "stopped"}) /\ Len(told) = run /\ DOMAIN told = 1..run
  BY Typed
<1>2. ASSUME told' = told, gone' = gone PROVE Owed' = Owed
  BY <1>2 DEF Owed
<1>3. ASSUME Submit PROVE Owed' \subseteq Owed /\ run' \notin Owed'
  <2>1. told' = Append(told, "nothing") /\ gone' = gone /\ run' = run + 1
    BY <1>3 DEF Submit
  <2>2. DOMAIN told' = 1..(run + 1) /\ told'[run + 1] = "nothing" /\ \A r \in 1..run : told'[r] = told[r]
    BY <1>1, <2>1
  <2>3. \A r \in 1..(run + 1) : r = run + 1 \/ r \in 1..run
    BY <1>1
  <2>. QED BY <1>1, <2>1, <2>2, <2>3 DEF Owed
<1>4. ASSUME Compact
      PROVE  Owed' = Owed \ {live[i].run : i \in {j \in DOMAIN live : live[j].t = "answer"}}
  <2>1. told' = told /\ gone' = gone \cup {live[i].run : i \in {j \in DOMAIN live : live[j].t = "answer"}}
    BY <1>4, CompactIs
  <2> DEFINE G == {live[i].run : i \in {j \in DOMAIN live : live[j].t = "answer"}}
  <2> HIDE DEF G
  <2>2. Owed' = Owed \ G
    BY <2>1 DEF Owed, G
  <2>. QED BY <2>2 DEF G
<1>5. ASSUME Resume
      PROVE  Owed' \subseteq Owed /\ (stage' = "idle" => Owed' \cap LeftOut(History(log)) = {})
  <2>1. /\ told' = told
        /\ \/ stage' = "refused" /\ gone' = gone
           \/ gone' = gone \cup LeftOut(History(log))
    BY <1>5 DEF Resume
  <2>. QED BY <2>1 DEF Owed
<1>6. ASSUME NewSession PROVE Owed' = {}
  BY <1>6 DEF NewSession, Owed
<1>7. ASSUME NEW w, told' = [told EXCEPT ![run] = w], gone' = gone
      PROVE  Owed' \subseteq IF w = "answer" THEN Owed \cup {run} ELSE Owed \ {run}
  <2>1. DOMAIN told' = DOMAIN told /\ \A r \in DOMAIN told : told'[r] = IF r = run THEN w ELSE told[r]
    BY <1>1, <1>7
  <2>. QED BY <1>7, <2>1 DEF Owed
<1>8. ASSUME RecordSettlement
      PROVE  Owed' \subseteq IF stage = "failed" THEN Owed \ {run} ELSE Owed \cup {run}
  <2>1. told' = [told EXCEPT ![run] = Ended] /\ gone' = gone
    BY <1>8 DEF RecordSettlement
  <2>2. CASE stage = "failed"
    <3>1. told' = [told EXCEPT ![run] = "stopped"]
      BY <2>1, <2>2 DEF Ended
    <3>2. "stopped" # "answer"
      OBVIOUS
    <3>. QED BY <1>7, <2>1, <2>2, <3>1, <3>2
  <2>3. CASE stage # "failed"
    <3>1. told' = [told EXCEPT ![run] = "answer"]
      BY <2>1, <2>3 DEF Ended
    <3>. QED BY <1>7, <2>1, <2>3, <3>1
  <2>. QED BY <2>2, <2>3
<1>9. ASSUME Signal PROVE Owed' \subseteq IF stage = "settling" THEN Owed \ {run} ELSE Owed
  <2>1. gone' = gone /\ IF stage = "settling" THEN told' = [told EXCEPT ![run] = "stopped"] ELSE told' = told
    BY <1>9 DEF Signal
  <2>. QED BY <1>2, <1>7, <2>1
<1>10. ASSUME ReplyCalls \/ ReplyText \/ NoReply \/ LogReply \/ LogResult \/ JoinResult PROVE Owed' = Owed
  BY <1>2, <1>10 DEF ReplyCalls, ReplyText, NoReply, LogReply, LogResult, JoinResult
<1>11. ASSUME LogPrompt \/ EndBatch \/ Rewrite \/ InstallSettlement \/ Crash PROVE Owed' = Owed
  BY <1>2, <1>11 DEF LogPrompt, EndBatch, Rewrite, InstallSettlement, Crash
<1>. QED BY <1>3, <1>4, <1>5, <1>6, <1>8, <1>9, <1>10, <1>11

\* The answer of a run is owed once the run has ended.
LEMMA UnansweredKept ==
  ASSUME HistoryTypeOK, Staged, Survive, HistoryNext, InRun'
  PROVE  run' \notin Owed'
<1>1. CASE Submit
  BY <1>1, OwedIs
<1>2. CASE Compact
  <2>1. InRun /\ run' = run
    BY <1>2, CompactIs DEF InRun, Asking
  <2>. QED BY <1>2, <2>1, OwedIs DEF Survive
<1>3. CASE ReplyCalls \/ ReplyText \/ NoReply \/ LogReply \/ LogResult \/ JoinResult
  <2>1. InRun /\ run' = run
    BY <1>3 DEF ReplyCalls, ReplyText, NoReply, LogReply, LogResult, JoinResult, InRun, Asking
  <2>. QED BY <1>3, <2>1, OwedIs DEF Survive
<1>4. CASE LogPrompt \/ EndBatch \/ Rewrite
  <2>1. InRun /\ run' = run
    BY <1>4 DEF LogPrompt, EndBatch, Rewrite, InRun, Asking
  <2>. QED BY <1>4, <2>1, OwedIs DEF Survive
<1>5. CASE Signal
  <2>1. InRun /\ run' = run /\ stage # "settling"
    BY <1>5 DEF Signal, Idle, InRun, Asking
  <2>. QED BY <1>5, <2>1, OwedIs DEF Survive
<1>6. CASE RecordSettlement \/ InstallSettlement \/ Crash \/ Resume \/ NewSession
  BY <1>6 DEF RecordSettlement, InstallSettlement, Idle, Crash, Resume, NewSession, InRun, Asking
<1>. QED BY <1>1, <1>2, <1>3, <1>4, <1>5, <1>6 DEF HistoryNext

\* What of the answers is in the log and in the process.
Held(r) == /\ AnswerIn(Past.msgs, r) /\ r \notin Past.bad
           /\ ~ Dead => AnswerIn(live, r) \/ (stage = "settling" /\ r = run)

\* An answer that is owed is held after the step, in the log and in the process.
LEMMA HeldKept ==
  ASSUME HistoryTypeOK, Staged, Drafted, LogShape, Sourced, Settled, Survive, HistoryNext, Clean',
         NEW r, r \in Owed'
  PROVE  Held(r)'
<1>1. /\ live \in Seq(Msg) /\ run \in Nat /\ latest \in Nat /\ batch.id \in Nat /\ batch.n \in Nat
      /\ Past.msgs \in Seq(Msg)
  BY Typed, ReplaysIs
<1>2. CASE NewSession
  BY <1>2, OwedIs
<1>. SUFFICES ASSUME ~ NewSession PROVE Held(r)'
  BY <1>2
<1>3. Clean
  BY TornGrows DEF Clean
<1>4. \A x \in Owed : Held(x)
  BY <1>3 DEF Survive, Held
<1>5. ASSUME NEW s, NEW t, ToSet(s) \subseteq ToSet(t), NEW x, AnswerIn(s, x) PROVE AnswerIn(t, x)
  BY <1>5 DEF AnswerIn
<1>6. CASE LogPrompt
  <2>1. /\ User \in Msg /\ live' = live /\ Past'.msgs = Append(Past.msgs, User)
        /\ Past'.bad = Past.bad
    BY <1>6, PromptPast DEF Same
  <2>2. ToSet(Past.msgs) \subseteq ToSet(Past'.msgs)
    BY <1>1, <2>1, OneMoreHas
  <2>3. stage = "asking" /\ r \in Owed
    BY <1>6, OwedIs DEF LogPrompt
  <2>4. AnswerIn(live, r) /\ AnswerIn(Past.msgs, r) /\ r \notin Past.bad
    BY <1>4, <2>3 DEF Held, Dead
  <2>5. AnswerIn(Past'.msgs, r)
    BY <1>5, <2>2, <2>4
  <2>. QED BY <2>1, <2>4, <2>5 DEF Held, AnswerIn
<1>7. CASE Compact
  <2>1. r \in Owed /\ r \notin {live[i].run : i \in {j \in DOMAIN live : live[j].t = "answer"}}
    BY <1>7, OwedIs
  <2>2. AnswerIn(live, r)
    BY <1>4, <1>7, <2>1 DEF Held, Dead, Compact
  <2>. QED BY <2>1, <2>2 DEF AnswerIn, ToSet
<1>8. CASE Submit \/ ReplyCalls \/ ReplyText \/ NoReply \/ JoinResult \/ EndBatch \/ Rewrite
  <2>1. Past' = Past
    BY <1>8, QuietPast DEF Quiet
  <2>2. ToSet(live) \subseteq ToSet(live') /\ r \in Owed
    BY <1>8, LiveGrows, OwedIs
  <2>3. stage \notin {"settling", "down", "refused"}
    BY <1>8 DEF Submit, ReplyCalls, ReplyText, NoReply, JoinResult, EndBatch, Rewrite
  <2>4. AnswerIn(live, r) /\ AnswerIn(Past.msgs, r) /\ r \notin Past.bad
    BY <1>4, <2>2, <2>3 DEF Held, Dead
  <2>5. AnswerIn(live', r)
    BY <1>5, <2>2, <2>4
  <2>. QED BY <2>1, <2>4, <2>5 DEF Held, AnswerIn
<1>9. CASE LogReply
  <2>1. Calls(batch.id, batch.n) \in Msg
    BY <1>1 DEF Calls, Message, Msg, Texts
  <2>2. /\ Past'.bad = Past.bad
        /\ Past'.msgs = Past.msgs \/ Past'.msgs = Append(Past.msgs, Calls(batch.id, batch.n))
    BY <1>9, LogReplyPast DEF Same
  <2>3. ToSet(Past.msgs) \subseteq ToSet(Past'.msgs)
    <3>1. ToSet(Append(Past.msgs, Calls(batch.id, batch.n)))
             = ToSet(Past.msgs) \cup {Calls(batch.id, batch.n)}
      BY <1>1, <2>1, OneMoreHas
    <3>. QED BY <2>2, <3>1
  <2>4. live' = live /\ r \in Owed /\ stage = "logging"
    BY <1>9, OwedIs DEF LogReply
  <2>5. AnswerIn(live, r) /\ AnswerIn(Past.msgs, r) /\ r \notin Past.bad
    BY <1>4, <2>4 DEF Held, Dead
  <2>6. AnswerIn(Past'.msgs, r)
    BY <1>5, <2>3, <2>5
  <2>. QED BY <2>2, <2>4, <2>5, <2>6 DEF Held, AnswerIn
<1>10. CASE LogResult
  <2> DEFINE e == Result(batch.id, batch.done + 1)
  <2>1. e \in Msg /\ Past'.bad = Past.bad /\ Past'.msgs = Append(Past.msgs, e)
    BY <1>10, LogResultPast DEF Same
  <2> HIDE DEF e
  <2>2. ToSet(Past.msgs) \subseteq ToSet(Past'.msgs)
    BY <1>1, <2>1, OneMoreHas
  <2>3. live' = live /\ r \in Owed /\ stage = "batch"
    BY <1>10, OwedIs DEF LogResult
  <2>4. AnswerIn(live, r) /\ AnswerIn(Past.msgs, r) /\ r \notin Past.bad
    BY <1>4, <2>3 DEF Held, Dead
  <2>5. AnswerIn(Past'.msgs, r)
    BY <1>5, <2>2, <2>4
  <2>. QED BY <2>1, <2>3, <2>4, <2>5 DEF Held, AnswerIn
<1>11. CASE RecordSettlement
  <2>1. stage \in {"answer", "settle", "failed"} /\ live' = live /\ run' = run /\ InRun
    BY <1>11 DEF RecordSettlement, InRun, Asking
  <2>2. run \notin Owed /\ run \notin Past.bad
    BY <2>1 DEF Survive, Settled
  <2>3. r \in (IF stage = "failed" THEN Owed \ {run} ELSE Owed \cup {run})
    BY <1>11, OwedIs
  <2>4. CASE log' = log
    <3>1. Past' = Past
      BY <2>4 DEF Past
    <3>2. stage = "failed"
      <4>1. ~ (latest = 0 \/ Draft(latest) \in ToSet(live))
        <5> SUFFICES ASSUME latest = 0 \/ Draft(latest) \in ToSet(live) PROVE FALSE
          OBVIOUS
        <5>1. log' = Append(log, Settlement(run, latest)) /\ log \in Seq(Line)
          BY <1>11, Typed DEF RecordSettlement
        <5>. QED BY <2>4, <5>1
      <4>. QED BY <2>1, <4>1 DEF Drafted, Asking
    <3>3. r \in Owed
      BY <2>3, <3>2
    <3>4. AnswerIn(live, r) /\ AnswerIn(Past.msgs, r) /\ r \notin Past.bad
      BY <1>4, <2>1, <3>3 DEF Held, Dead
    <3>. QED BY <2>1, <3>1, <3>4 DEF Held, AnswerIn
  <2>5. CASE log' = Append(log, Settlement(run, latest)) /\ stage' = "settling"
    <3> DEFINE a == Delivered(run, latest)
    <3>1. /\ a \in Msg /\ a.t = "answer" /\ a.run = run
          /\ IF latest = 0 \/ latest \in Past.drafts
             THEN Past'.msgs = Append(Past.msgs, a) /\ Past'.bad = Past.bad
             ELSE Past'.msgs = Past.msgs /\ Past'.bad = Past.bad \cup {run}
      BY <2>5, SettlementPast
    <3> HIDE DEF a
    <3>2. ToSet(Append(Past.msgs, a)) = ToSet(Past.msgs) \cup {a}
      BY <1>1, <3>1, OneMoreHas
    <3>3. CASE r = run
      <4>1. stage # "failed"
        BY <2>2, <2>3, <3>3
      <4>2. latest = 0 \/ latest \in Past.drafts
        BY <2>1, <4>1 DEF Drafted, Asking
      <4>3. AnswerIn(Past'.msgs, r) /\ r \notin Past'.bad
        BY <2>2, <3>1, <3>2, <3>3, <4>2 DEF AnswerIn
      <4>. QED BY <2>1, <2>5, <3>3, <4>3 DEF Held, AnswerIn
    <3>4. CASE r # run
      <4>1. r \in Owed
        BY <2>3, <3>4
      <4>2. AnswerIn(live, r) /\ AnswerIn(Past.msgs, r) /\ r \notin Past.bad
        BY <1>4, <2>1, <4>1 DEF Held, Dead
      <4>3. ToSet(Past.msgs) \subseteq ToSet(Past'.msgs) /\ r \notin Past'.bad
        BY <3>1, <3>2, <3>4, <4>2
      <4>4. AnswerIn(Past'.msgs, r)
        BY <1>5, <4>2, <4>3
      <4>. QED BY <2>1, <4>2, <4>3, <4>4 DEF Held, AnswerIn
    <3>. QED BY <3>3, <3>4
  <2>. QED BY <1>11, <2>4, <2>5 DEF RecordSettlement
<1>12. CASE InstallSettlement
  <2> DEFINE S == {m \in ToSet(live) : ~ (m.t = "draft" /\ m.run = run)}
  <2>1. /\ live' = Append(Only(live, S), Delivered(run, latest)) /\ run' = run /\ stage = "settling"
        /\ stage' = "idle"
    BY <1>12 DEF InstallSettlement, Idle
  <2>2. /\ Delivered(run, latest) \in Msg /\ Delivered(run, latest).t = "answer"
        /\ Delivered(run, latest).run = run
    BY <1>1, Formed
  <2>3. S \subseteq ToSet(live) /\ \A m \in ToSet(live) : m.t = "answer" => m \in S
    OBVIOUS
  <2> HIDE DEF S
  <2>4. Only(live, S) \in Seq(Msg) /\ ToSet(Only(live, S)) = ToSet(live) \cap S
    BY <1>1, OnlyHas
  <2>5. ToSet(live') = ToSet(Only(live, S)) \cup {Delivered(run, latest)}
    BY <2>1, <2>2, <2>4, OneMoreHas
  <2>6. r \in Owed
    BY <1>12, OwedIs
  <2>7. /\ AnswerIn(live, r) \/ r = run
        /\ AnswerIn(Past.msgs, r) /\ r \notin Past.bad
    BY <1>4, <2>1, <2>6 DEF Held, Dead
  <2>8. AnswerIn(live', r)
    <3>1. CASE r = run
      BY <2>2, <2>5, <3>1 DEF AnswerIn
    <3>2. CASE AnswerIn(live, r)
      BY <2>3, <2>4, <2>5, <3>2 DEF AnswerIn
    <3>. QED BY <2>7, <3>1, <3>2
  <2>9. Past' = Past
    BY <1>12, QuietPast DEF Quiet
  <2>. QED BY <2>7, <2>8, <2>9 DEF Held, AnswerIn
<1>13. CASE Signal
  <2>1. live' = live /\ stage \notin {"down", "refused"}
    BY <1>13 DEF Signal
  <2>2. r \in Owed /\ (stage = "settling" => r # run)
    BY <1>13, OwedIs
  <2>3. AnswerIn(live, r) /\ AnswerIn(Past.msgs, r) /\ r \notin Past.bad
    BY <1>4, <2>1, <2>2 DEF Held, Dead
  <2>4. Past' = Past
    BY <1>13, QuietPast DEF Quiet
  <2>. QED BY <2>1, <2>3, <2>4 DEF Held, AnswerIn
<1>14. CASE Crash
  <2>1. Past'.msgs = Past.msgs /\ Past'.bad = Past.bad
    BY <1>14, CrashPast DEF Same
  <2>2. r \in Owed /\ stage' = "down"
    BY <1>14, OwedIs DEF Crash
  <2>. QED BY <1>4, <2>1, <2>2 DEF Held, AnswerIn, Dead
<1>15. CASE Resume
  <2>1. Past' = Past /\ r \in Owed /\ stage \in {"down", "idle"}
    BY <1>15, QuietPast, OwedIs DEF Quiet, Resume
  <2>2. AnswerIn(Past.msgs, r) /\ r \notin Past.bad
    BY <1>4, <2>1 DEF Held
  <2>3. CASE stage' = "idle"
    <3>1. Blocks(Past.msgs)
      BY <1>3, <2>1 DEF Clean, LogShape
    <3>2. r \notin LeftOut(History(log))
      BY <1>15, <2>3, OwedIs
    <3>3. AnswerIn(Load(log), r)
      BY <2>2, <3>1, <3>2, LoadHas
    <3>4. live' = Load(log)
      BY <1>15, <2>3 DEF Resume
    <3>. QED BY <2>1, <2>2, <3>3, <3>4 DEF Held, AnswerIn
  <2>4. CASE stage' = "refused"
    BY <2>1, <2>2, <2>4 DEF Held, AnswerIn, Dead
  <2>. QED BY <1>15, <2>3, <2>4 DEF Resume
<1>. QED BY <1>6, <1>7, <1>8, <1>9, <1>10, <1>11, <1>12, <1>13, <1>14, <1>15 DEF HistoryNext

\* Every step keeps the answers that are owed.
LEMMA SurviveKept ==
  ASSUME HistoryTypeOK, Staged, Drafted, LogShape, Sourced, Settled, Survive, HistoryNext
  PROVE  Survive'
<1>1. Clean' => \A r \in Owed' : Held(r)'
  BY HeldKept
<1>2. InRun' => run' \notin Owed'
  BY UnansweredKept
<1>. QED BY <1>1, <1>2 DEF Survive, Held

\* The invariant holds of an empty session ...
LEMMA HistoryStarts ==
  ASSUME HistoryInit
  PROVE  HistoryInv
<1>1. /\ stage = "idle" /\ live = <<>> /\ log = <<>> /\ run = 0 /\ replies = 0 /\ next = 1
      /\ batch = NoBatch /\ latest = 0 /\ counts = Fresh /\ torn = Whole
      /\ told = <<>> /\ gone = {}
  BY DEF HistoryInit
<1>2. Past = Nothing
  BY <1>1, ReplayedNone DEF Past
<1>3. ToSet(<<>>) = {} /\ <<>> \in Seq(Msg) /\ <<>> \in Seq(Line) /\ DOMAIN <<>> = {} /\ Len(<<>>) = 0
  BY DEF ToSet
<1>4. Nothing \in Replays
  BY <1>3 DEF Nothing, Replays
<1>5. HistoryTypeOK
  <2>1. told \in Seq({"nothing", "answer", "stopped"}) /\ Len(told) = run /\ gone \subseteq Nat
    BY <1>1, <1>3
  <2>2. /\ batch \in [id : Nat, n : Nat, done : Nat] /\ counts \in [compactions : Nat, troubles : Nat]
        /\ torn \in [crash : Nat, signal : Nat, loads : Nat]
    BY <1>1 DEF NoBatch, Fresh, Whole
  <2>. QED BY <1>1, <1>2, <1>3, <1>4, <2>1, <2>2 DEF HistoryTypeOK
<1>6. Staged
  BY <1>1, <1>3 DEF Staged, NoBatch, Whole, InRun, Asking, Dead, Unbroken
<1>7. Drafted
  BY <1>1 DEF Drafted, Asking
<1>8. LiveShape
  BY <1>1, NoneBlocks DEF LiveShape, NoBatch
<1>9. LogShape
  BY <1>1, <1>2, NoneBlocks DEF LogShape, Whole, Nothing
<1>10. Settlements = {}
  BY <1>1, <1>3 DEF Settlements
<1>11. Sourced
  BY <1>2, <1>3, <1>10 DEF Sourced, Nothing
<1>12. Settled
  BY <1>2, <1>3, <1>10 DEF Settled, Nothing
<1>13. Survive
  <2>1. Owed = {}
    BY <1>1, <1>3 DEF Owed
  <2>. QED BY <2>1 DEF Survive
<1>. QED BY <1>5, <1>6, <1>7, <1>8, <1>9, <1>11, <1>12, <1>13 DEF HistoryInv

\* ... and every step of the process keeps it.
LEMMA HistoryKept ==
  ASSUME HistoryInv, [HistoryNext]_historyVars
  PROVE  HistoryInv'
<1>1. CASE HistoryNext
  BY <1>1, TypeKept, StagedKept, DraftedKept, LiveKept, LogKept, SourcedKept, SettledKept, SurviveKept
  DEF HistoryInv
<1>2. CASE UNCHANGED historyVars
  <2>1. /\ stage' = stage /\ live' = live /\ log' = log /\ run' = run /\ replies' = replies /\ next' = next
        /\ batch' = batch /\ latest' = latest /\ counts' = counts /\ torn' = torn /\ told' = told
        /\ gone' = gone
    BY <1>2 DEF historyVars
  <2>2. Past' = Past /\ Dead' = Dead /\ InRun' = InRun /\ Asking' = Asking /\ Clean' = Clean
    BY <2>1 DEF Past, Dead, InRun, Asking, Clean
  <2>3. HistoryTypeOK' /\ Staged' /\ Drafted'
    BY <2>1, <2>2 DEF HistoryInv, HistoryTypeOK, Staged, Drafted, Unbroken, Draft, Calls
  <2>4. LiveShape' /\ LogShape'
    BY <2>1, <2>2 DEF HistoryInv, LiveShape, LogShape, InBatch
  <2>5. Settlements' = Settlements /\ Owed' = Owed
    BY <2>1 DEF Settlements, Owed
  <2>6. Sourced' /\ Settled' /\ Survive'
    BY <2>1, <2>2, <2>5 DEF HistoryInv, Sourced, Settled, Survive
  <2>. QED BY <2>3, <2>4, <2>6 DEF HistoryInv
<1>. QED BY <1>1, <1>2

\* What the process and the log have of the conversation always fits together:
\* type correctness, what the process has at each stage, the shape of both
\* histories, where their answers come from, and that none is lost
\* (agent.py, session/assistant_history.py).
THEOREM HistoryInvariance == HistorySpec => []HistoryInv
<1>1. HistoryInit => HistoryInv
  BY HistoryStarts
<1>2. HistoryInv /\ [HistoryNext]_historyVars => HistoryInv'
  BY HistoryKept
<1>. QED BY <1>1, <1>2, PTL DEF HistorySpec

\* No request has a call without its result, or a result without its call, for
\* windows of any size and any number of runs, calls, compactions and crashes
\* outside a batch (_trim_recent_messages, valid_recent_messages).
THEOREM RequestsAreWellFormed == HistorySpec => []RequestWellFormed
<1>1. HistoryInv => RequestWellFormed
  <2> SUFFICES ASSUME HistoryInv, stage = "model", torn.signal = 0, torn.loads <= 1
               PROVE  LET s == Visible(live, run) IN
                      /\ \A i \in DOMAIN s : s[i].t = "calls" => Paired(s, i)
                      /\ \A j \in DOMAIN s : IsResult(s[j]) =>
                            \E i \in 1..j-1 : s[i].t = "calls" /\ s[i].id = s[j].id
    BY DEF RequestWellFormed
  <2>1. batch.id = 0 /\ ~ Dead /\ live \in Seq(Msg)
    BY DEF HistoryInv, HistoryTypeOK, Staged, NoBatch, Dead
  <2>2. Blocks(live)
    BY <2>1 DEF HistoryInv, LiveShape
  <2> DEFINE s == Visible(live, run)
  <2>3. s \in Seq(Msg) /\ Blocks(s)
    BY <2>1, <2>2, OnlyBlocks DEF Visible
  <2> HIDE DEF s
  <2>4. Len(s) \in Nat /\ DOMAIN s = 1..Len(s) /\ \A i \in 1..Len(s) : s[i].k \in Nat
    BY <2>3, Numbers
  <2>5. ASSUME NEW i \in DOMAIN s, s[i].t = "calls" PROVE Paired(s, i)
    <3>1. Has(s, i, s[i].k)
      BY <2>3, <2>4, <2>5 DEF Blocks, AnsweredBut, Has
    <3>. QED BY <2>3, <2>4, <2>5, <3>1, PairedIs
  <2>6. ASSUME NEW j \in DOMAIN s, IsResult(s[j])
        PROVE  \E i \in 1..j-1 : s[i].t = "calls" /\ s[i].id = s[j].id
    <3>1. PICK i \in DOMAIN s : /\ s[i].t = "calls" /\ s[i].id = s[j].id
                                /\ s[j].k \in 1..s[i].k /\ j = i + s[j].k
      BY <2>3, <2>6 DEF Blocks, Results, OfCalls
    <3>2. i \in Nat /\ i # 0 /\ s[j].k \in Nat /\ s[j].k # 0
      BY <2>4, <3>1
    <3>3. i \in 1..j-1
      BY <3>1, <3>2
    <3>. QED BY <3>1, <3>3
  <2>. QED BY <2>5, <2>6 DEF s
<1>. QED BY <1>1, HistoryInvariance, PTL

\* A resumed session has no draft, and each of its answers is the one that its
\* run settled on (SettledAssistantHistory).
THEOREM OnlySettledComesBack == HistorySpec => []OnlySettledIsRestored
<1>1. HistoryInv => OnlySettledIsRestored
  <2> SUFFICES ASSUME HistoryInv, NEW m \in ToSet(Load(log))
               PROVE  /\ m.t # "draft"
                      /\ m.t = "answer" =>
                           {e \in ToSet(log) : e.t = "settlement" /\ e.run = m.run}
                               = {[m EXCEPT !.t = "settlement"]}
    BY DEF OnlySettledIsRestored
  <2>1. Past.msgs \in Seq(Msg) /\ Past.settled \in Seq(Msg)
    BY Typed, ReplaysIs DEF HistoryInv
  <2>2. m \in ToSet(Past.msgs)
    BY LoadIs DEF HistoryInv
  <2>3. m \in Msg
    BY <2>1, <2>2 DEF ToSet
  <2>4. ASSUME m.t = "answer"
        PROVE  {e \in ToSet(log) : e.t = "settlement" /\ e.run = m.run}
                   = {[m EXCEPT !.t = "settlement"]}
    <3> DEFINE a == [m EXCEPT !.t = "settlement"]
    <3>1. a.t = "settlement" /\ a.run = m.run
      BY <2>3 DEF Msg
    <3>2. a \in Settlements
      BY <2>2, <2>4 DEF HistoryInv, Sourced
    <3> HIDE DEF a
    <3>3. PICK i \in DOMAIN Past.settled : a = Past.settled[i]
      BY <3>2 DEF HistoryInv, Sourced, ToSet
    <3>4. ASSUME NEW e \in Settlements, e.run = m.run PROVE e = a
      <4>1. PICK j \in DOMAIN Past.settled : e = Past.settled[j]
        BY DEF HistoryInv, Sourced, ToSet
      <4>2. i = j
        BY <3>1, <3>3, <3>4, <4>1 DEF HistoryInv, Settled
      <4>. QED BY <3>3, <4>1, <4>2
    <3>5. {e \in ToSet(log) : e.t = "settlement" /\ e.run = m.run} = {a}
      BY <3>1, <3>2, <3>4 DEF Settlements
    <3>. QED BY <3>5 DEF a
  <2>. QED BY <2>2, <2>4 DEF HistoryInv, Sourced
<1>. QED BY <1>1, HistoryInvariance, PTL

\* An answer that was told is in the conversation of every process that goes on
\* with it, whatever is compacted, resumed or cancelled outside a batch
\* (settle_turn, _install_settlement, load_history).
THEOREM AnswersAreKept == HistorySpec => []AnswersSurvive
<1>1. HistoryInv => AnswersSurvive
  <2> SUFFICES ASSUME HistoryInv, stage \in {"idle", "model"}, Clean,
                      NEW r \in DOMAIN told, told[r] = "answer", r \notin gone
               PROVE  \E m \in ToSet(live) : m.t = "answer" /\ m.run = r
    BY DEF AnswersSurvive
  <2>1. r \in Owed /\ ~ Dead /\ stage # "settling"
    BY DEF Owed, Dead
  <2>2. AnswerIn(live, r)
    BY <2>1 DEF HistoryInv, Survive
  <2>. QED BY <2>2 DEF AnswerIn
<1>. QED BY <1>1, HistoryInvariance, PTL

=============================================================================
