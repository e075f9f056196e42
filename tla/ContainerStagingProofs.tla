----------------------- MODULE ContainerStagingProofs -----------------------
(***************************************************************************)
(* For any number of sessions, roots, attempts, faults and changes of the  *)
(* roots: the staging journal implements StagingObligation.                *)
(***************************************************************************)
EXTENDS ContainerStaging, TLAPS

Apart == {"idle", "ready"}

Labels ==
    Apart \cup
    {"reserve", "mkdir", "allocate", "prepare", "probe", "allow_volumes", "create", "await",
     "use", "allow_execution", "execution_gone", "sight", "remove", "check", "absent",
     "output", "cleanup", "rmdir", "unlink"}

Things == [attempt : Nat, kind : {"prep", "exec", "volume"}, root : Nat]

Types ==
    /\ pc \in [Hosts -> Labels]
    /\ revision \in [Hosts -> Nat]
    /\ lock \in Hosts \cup {NoHost}
    /\ recovering \in BOOLEAN
    /\ record \in [attempt : Nat, state : States \cup {"none"}, revision : Nat]
    /\ todo \in Seq(Things)
    /\ attempts \in Nat

Volumes == {Volume(i) : i \in 1..NRoots}

Exists == live \cup landing

Bare == {"none", "reserved", "allocated", "prepared", "container_absent", "cleanup_started"}

\* What the record says that there may be, whoever reads it next.
Recorded ==
    /\ record.state = "none" <=> record.attempt = 0
    /\ dirs \subseteq {record.attempt} \ {0}
    /\ live \cap landing = {}
    /\ record.state \in Bare => Exists = {}
    /\ record.state = "create_possible" => Exists \subseteq {Prep} \cup Volumes
    /\ record.state = "execution_create_possible" => Exists \subseteq {Exec} \cup Volumes
    /\ record.state = "execution_absent" => live \subseteq Volumes /\ landing = {}

\* The resources of an attempt in the order in which they are created, the
\* command's container left aside.
Thing(i) == IF i <= NRoots THEN Volume(i) ELSE Prep

Made(i) == {Thing(j) : j \in 1..i}

ThingsFrom(i) == [j \in 1..(NRoots + 2 - i) |-> Thing(i + j - 1)]

\* The steps of creating: i resources are there, the next one may be asked for.
Creating(there, asked) ==
    \/ /\ record.state = "create_possible"
       /\ \E i \in 1..(NRoots + 1) :
             /\ todo = ThingsFrom(i)
             /\ live \subseteq Made(IF there THEN i ELSE i - 1)
             /\ landing \subseteq IF asked THEN {Thing(i)} ELSE {}
    \/ /\ record.state = "execution_create_possible"
       /\ todo = <<Exec>>
       /\ live \subseteq Volumes \cup IF there THEN {Exec} ELSE {}
       /\ landing \subseteq IF asked THEN {Exec} ELSE {}

Among(s) == {s[i] : i \in DOMAIN s}

\* What may be there when everything in todo is closed.
Kept ==
    IF after \in {"retain", "allow_execution"} \/ (after = "execution_gone" /\ ~ recovering)
    THEN Volumes ELSE {}

\* The steps of closing: nothing is left but what todo says.
Closing(left) ==
    /\ after \in {"retain", "allow_execution", "execution_gone", "absent"}
    /\ after = "allow_execution" => record.state = "create_possible" /\ ~ recovering
    /\ after = "execution_gone" => record.state = "execution_create_possible"
    /\ live \subseteq Among(left) \cup Kept
    /\ landing \subseteq Among(left)

Forward ==
    {"reserve", "mkdir", "allocate", "prepare", "probe", "allow_volumes", "create", "await",
     "use", "allow_execution"}

\* What the session with the lock knows at each of its steps.
Phase(h) ==
    /\ pc[h] \in Forward => ~ recovering
    /\ pc[h] = "reserve" => record.state = "none"
    /\ pc[h] = "mkdir" => record.state = "reserved" /\ dirs = {}
    /\ pc[h] = "allocate" => record.state = "reserved"
    /\ pc[h] = "prepare" => record.state = "allocated"
    /\ pc[h] \in {"probe", "allow_volumes"} => record.state = "prepared"
    /\ pc[h] = "create" => Creating(FALSE, FALSE)
    /\ pc[h] = "await" => Creating(TRUE, TRUE)
    /\ pc[h] = "use" => Creating(TRUE, FALSE)
    /\ pc[h] \in {"sight", "remove", "check"} => todo # <<>>
    /\ pc[h] = "sight" => Closing(todo)
    /\ pc[h] = "remove" => Closing(todo) /\ Head(todo) \in live
    /\ pc[h] = "check" => Closing(Tail(todo))
    /\ pc[h] = "allow_execution" =>
          record.state = "create_possible" /\ live \subseteq Volumes /\ landing = {}
    /\ pc[h] = "execution_gone" =>
          /\ record.state = "execution_create_possible" /\ landing = {}
          /\ live \subseteq IF recovering THEN {} ELSE Volumes
    /\ pc[h] = "absent" => Exists = {}
    /\ pc[h] \in {"output", "cleanup"} => record.state = "container_absent"
    /\ pc[h] = "rmdir" => record.state \in Bare \ {"none"}
    /\ pc[h] = "unlink" => record.state \in Bare \ {"none"} /\ dirs = {}

Placed == \A h \in Hosts : pc[h] \notin Apart => lock = h /\ Phase(h)

\* Only a session that holds the lock recovers.
Calm == lock = NoHost => ~ recovering

StagingInv == Types /\ Recorded /\ Placed /\ Calm

-----------------------------------------------------------------------------
(* The resources of an attempt, and sequences of them. *)

LEMMA SameNames ==
    ASSUME record'.attempt = record.attempt
    PROVE  /\ Prep' = Prep /\ Exec' = Exec /\ Volumes' = Volumes
           /\ \A i : Volume(i)' = Volume(i) /\ Thing(i)' = Thing(i)
           /\ \A i : Made(i)' = Made(i) /\ ThingsFrom(i)' = ThingsFrom(i)
  BY DEF Prep, Exec, Volumes, Volume, Thing, Made, ThingsFrom

LEMMA Kinds ==
    /\ Prep.kind = "prep" /\ Exec.kind = "exec"
    /\ \A i : Volume(i).kind = "volume" /\ Volume(i).root = i
  BY DEF Prep, Exec, Volume

LEMMA AreThings ==
    ASSUME Types PROVE Prep \in Things /\ Exec \in Things /\ \A i \in Nat : Volume(i) \in Things
  BY DEF Types, Prep, Exec, Volume, Things

LEMMA AmongOne == \A x : Among(<<x>>) = {x} /\ Among(<<>>) = {}
  BY DEF Among

LEMMA AmongTail ==
    ASSUME NEW S, NEW s \in Seq(S), s # <<>>
    PROVE  /\ Head(s) \in S /\ Tail(s) \in Seq(S)
           /\ Among(s) = {Head(s)} \cup Among(Tail(s))
           /\ Len(s) = 1 => Tail(s) = <<>>
           /\ Len(s) > 1 => Tail(s) # <<>>
           /\ Len(s) \in Nat \ {0}
<1>1. Len(s) \in Nat \ {0} /\ Head(s) \in S /\ Tail(s) \in Seq(S)
  OBVIOUS
<1>2. Head(s) = s[1] /\ DOMAIN s = 1..Len(s) /\ DOMAIN Tail(s) = 1..(Len(s) - 1)
  BY <1>1
<1>3. \A i \in 1..(Len(s) - 1) : Tail(s)[i] = s[i + 1]
  BY <1>1
<1>4. ASSUME NEW i \in 1..Len(s), i # 1 PROVE i - 1 \in 1..(Len(s) - 1) /\ s[i] = Tail(s)[i - 1]
  <2>1. i - 1 \in 1..(Len(s) - 1) /\ (i - 1) + 1 = i
    BY <1>1, <1>4
  <2>. QED BY <1>3, <2>1
<1>5. Among(s) = {Head(s)} \cup Among(Tail(s))
  <2>1. ASSUME NEW x \in Among(s) PROVE x \in {Head(s)} \cup Among(Tail(s))
    BY <1>2, <1>4 DEF Among
  <2>2. ASSUME NEW x \in {Head(s)} \cup Among(Tail(s)) PROVE x \in Among(s)
    <3>1. CASE x = Head(s)
      BY <1>1, <1>2, <3>1 DEF Among
    <3>2. CASE x \in Among(Tail(s))
      <4>1. PICK i \in 1..(Len(s) - 1) : x = Tail(s)[i]
        BY <1>2, <3>2 DEF Among
      <4>2. x = s[i + 1] /\ i + 1 \in DOMAIN s
        BY <1>1, <1>2, <1>3, <4>1
      <4>. QED BY <4>2 DEF Among
    <3>. QED BY <2>2, <3>1, <3>2
  <2>. QED BY <2>1, <2>2
<1>6. Len(s) = 1 => Tail(s) = <<>>
  BY <1>1, <1>2
<1>7. Len(s) > 1 => Tail(s) # <<>>
  BY <1>1, <1>2
<1>. QED BY <1>1, <1>5, <1>6, <1>7

LEMMA AmongCons ==
    ASSUME NEW S, NEW s \in Seq(S), NEW x \in S
    PROVE  /\ <<x>> \o s \in Seq(S) \ {<<>>}
           /\ Among(<<x>> \o s) = {x} \cup Among(s)
<1> DEFINE t == <<x>> \o s
<1>1. t \in Seq(S) /\ Len(t) = Len(s) + 1 /\ Len(s) \in Nat
  OBVIOUS
<1>2. t # <<>> /\ Head(t) = x /\ Tail(t) = s
  BY <1>1
<1>. QED BY <1>1, <1>2, AmongTail

LEMMA VolumeSeqs ==
    ASSUME Types, NEW k \in 1..NRoots
    PROVE  /\ VolumesUpward \in Seq(Things) \ {<<>>} /\ Among(VolumesUpward) = Volumes
           /\ VolumesDownFrom(k) \in Seq(Things) \ {<<>>}
           /\ Among(VolumesDownFrom(k)) = {Volume(i) : i \in 1..k}
<1> USE StagingAssumption, AreThings
<1>1. VolumesUpward \in Seq(Things) \ {<<>>} /\ Among(VolumesUpward) = Volumes
  BY DEF VolumesUpward, Volumes, Among
<1>2. DOMAIN VolumesDownFrom(k) = 1..k /\ \A i \in 1..k : VolumesDownFrom(k)[i] = Volume(k + 1 - i)
  BY DEF VolumesDownFrom
<1>3. VolumesDownFrom(k) \in Seq(Things) \ {<<>>}
  BY DEF VolumesDownFrom
<1>4. \A i \in 1..k : k + 1 - i \in 1..k /\ k + 1 - (k + 1 - i) = i
  OBVIOUS
<1>5. Among(VolumesDownFrom(k)) = {Volume(i) : i \in 1..k}
  BY <1>2, <1>4 DEF Among
<1>. QED BY <1>1, <1>3, <1>5

LEMMA ThingSeqs ==
    ASSUME Types, NEW i \in 1..(NRoots + 1)
    PROVE  /\ ThingsFrom(i) \in Seq(Things) \ {<<>>} /\ Head(ThingsFrom(i)) = Thing(i)
           /\ i <= NRoots => Tail(ThingsFrom(i)) = ThingsFrom(i + 1)
<1> USE StagingAssumption
<1>1. \A j \in Nat : Thing(j) \in Things
  BY AreThings DEF Thing
<1>2. ThingsFrom(i) \in Seq(Things) /\ Len(ThingsFrom(i)) = NRoots + 2 - i
  BY <1>1 DEF ThingsFrom
<1>3. ThingsFrom(i) # <<>> /\ Head(ThingsFrom(i)) = Thing(i)
  BY <1>2 DEF ThingsFrom
<1>4. ASSUME i <= NRoots PROVE Tail(ThingsFrom(i)) = ThingsFrom(i + 1)
  <2>1. ThingsFrom(i + 1) \in Seq(Things) /\ Len(ThingsFrom(i + 1)) = NRoots + 1 - i
    BY <1>1, <1>4 DEF ThingsFrom
  <2>2. Tail(ThingsFrom(i)) \in Seq(Things) /\ Len(Tail(ThingsFrom(i))) = NRoots + 1 - i
    BY <1>2, <1>3
  <2>3. \A j \in 1..(NRoots + 1 - i) : Tail(ThingsFrom(i))[j] = ThingsFrom(i + 1)[j]
    BY <1>2, <1>4 DEF ThingsFrom
  <2>. QED BY <2>1, <2>2, <2>3
<1>. QED BY <1>2, <1>3, <1>4

LEMMA ThingsInOrder == Types => VolumesUpward \o <<Prep>> = ThingsFrom(1)
<1> SUFFICES ASSUME Types PROVE VolumesUpward \o <<Prep>> = ThingsFrom(1)
  OBVIOUS
<1> USE StagingAssumption
<1>1. VolumesUpward \in Seq(Things) /\ Len(VolumesUpward) = NRoots
  BY AreThings DEF VolumesUpward
<1>2. ThingsFrom(1) \in Seq(Things) /\ Len(ThingsFrom(1)) = NRoots + 1
  BY AreThings DEF ThingsFrom, Thing
<1>3. \A j \in 1..(NRoots + 1) : (VolumesUpward \o <<Prep>>)[j] = ThingsFrom(1)[j]
  BY <1>1 DEF VolumesUpward, ThingsFrom, Thing
<1>4. VolumesUpward \o <<Prep>> \in Seq(Things) /\ Len(VolumesUpward \o <<Prep>>) = NRoots + 1
  BY <1>1, AreThings
<1>. QED BY <1>2, <1>3, <1>4

-----------------------------------------------------------------------------
(* The parts of a step. *)

\* A session with the lock, or the one that takes it, goes on.
LEMMA OneStep ==
    ASSUME StagingInv, NEW h \in Hosts, lock \in {h, NoHost},
           pc' = [pc EXCEPT ![h] = pc'[h]], Types', Recorded', Calm',
           pc'[h] \notin Apart => lock' = h /\ Phase(h)'
    PROVE  StagingInv'
<1>1. ASSUME NEW g \in Hosts, pc'[g] \notin Apart PROVE lock' = g /\ Phase(g)'
  <2>1. CASE g = h
    BY <1>1, <2>1
  <2>2. CASE g # h
    BY <1>1, <2>2, StagingAssumption DEF StagingInv, Placed, Types
  <2>. QED BY <2>1, <2>2
<1>. QED BY <1>1 DEF StagingInv, Placed

\* One that has neither lock nor step leaves the others alone.
LEMMA AsideStep ==
    ASSUME StagingInv, NEW h \in Hosts, pc[h] \in Apart,
           pc' \in [Hosts -> Labels], pc' = [pc EXCEPT ![h] = pc'[h]], pc'[h] \in Apart,
           revision' \in [Hosts -> Nat],
           UNCHANGED <<hand, disk, engine, attempts>>
    PROVE  StagingInv'
<1> USE DEF hand, disk, engine
<1>1. Types'
  BY DEF StagingInv, Types
<1>2. Recorded'
  BY DEF StagingInv, Recorded, Exists, Volumes, Volume, Prep, Exec
<1>3. ASSUME NEW g \in Hosts, pc'[g] \notin Apart PROVE lock' = g /\ Phase(g)'
  <2>1. g # h /\ pc'[g] = pc[g]
    BY <1>3 DEF StagingInv, Types
  <2>2. lock = g /\ Phase(g)
    BY <1>3, <2>1 DEF StagingInv, Placed
  <2>. QED
    BY <2>1, <2>2 DEF Phase, Forward, Exists, Volumes, Volume, Prep, Exec, Creating, Closing, Kept,
       Among, Made, ThingsFrom, Thing
<1>. QED BY <1>1, <1>2, <1>3 DEF StagingInv, Placed, Calm

LEMMA RecordedStays == Recorded /\ UNCHANGED <<record, dirs, live, landing>> => Recorded'
  BY DEF Recorded, Exists, Volumes, Volume, Prep, Exec

\* A mark or a failing one: the state moves along a transition or stays.
LEMMA MarkGives ==
    ASSUME Types, NEW s \in States, Mark(s) \/ MarkFails(s)
    PROVE  /\ record' \in [attempt : Nat, state : States \cup {"none"}, revision : Nat]
           /\ record'.attempt = record.attempt
           /\ \/ record' = record
              \/ record'.state = s /\ <<record.state, s>> \in Transitions
           /\ Mark(s) => record'.state = s /\ <<record.state, s>> \in Transitions
  BY DEF Types, Mark, MarkFails

LEMMA MarkRecorded ==
    ASSUME Types, Recorded, NEW s \in States, Mark(s) \/ MarkFails(s),
           UNCHANGED <<dirs, live, landing>>,
           s = "container_absent" => Exists = {},
           s \in {"execution_create_possible", "execution_absent"} =>
               live \subseteq Volumes /\ landing = {}
    PROVE  Recorded'
<1>1. CASE record' = record
  BY <1>1, RecordedStays
<1>2. CASE record'.state = s /\ <<record.state, s>> \in Transitions
  BY <1>2, MarkGives, SameNames DEF Recorded, Transitions, States, Bare, Exists
<1>. QED BY <1>1, <1>2, MarkGives

\* The session with the lock goes on and changes nothing that lasts.
LEMMA Moves ==
    ASSUME StagingInv, NEW h \in Hosts, pc[h] \notin Apart,
           pc' = [pc EXCEPT ![h] = pc'[h]], pc'[h] \in Labels,
           lock' \in {h, NoHost}, recovering' \in BOOLEAN, todo' \in Seq(Things), Calm',
           UNCHANGED <<revision, record, dirs, live, landing, attempts>>,
           pc'[h] \notin Apart => lock' = h /\ Phase(h)'
    PROVE  StagingInv'
<1>1. lock = h
  BY DEF StagingInv, Placed
<1>2. Types'
  BY DEF StagingInv, Types
<1>3. Recorded'
  BY RecordedStays DEF StagingInv
<1>. QED BY <1>1, <1>2, <1>3, OneStep

LEMMA Forgets == Forget => recovering' = FALSE /\ todo' \in Seq(Things)
<1>1. <<>> \in Seq(Things)
  OBVIOUS
<1>. QED BY <1>1 DEF Forget

\* The lease is closed, in whatever state the record is then.
LEMMA StaysCalm == ASSUME StagingInv, NEW h \in Hosts, lock' = h PROVE Calm'
  BY StagingAssumption DEF Calm

LEMMA Releases ==
    ASSUME StagingInv, NEW h \in Hosts, pc[h] \notin Apart, NEW next \in Apart,
           Release(h, next), Recorded', UNCHANGED <<revision, attempts>>,
           record' \in [attempt : Nat, state : States \cup {"none"}, revision : Nat]
    PROVE  StagingInv'
<1>1. lock = h
  BY DEF StagingInv, Placed
<1>2. Types'
  <2>1. pc' \in [Hosts -> Labels]
    BY DEF StagingInv, Types, Release, Go, Labels
  <2>. QED BY <2>1, Forgets DEF StagingInv, Types, Release
<1>3. pc' = [pc EXCEPT ![h] = pc'[h]] /\ pc'[h] \in Apart
  BY DEF StagingInv, Types, Release, Go
<1>4. Calm'
  BY Forgets DEF Release, Calm
<1>. QED BY <1>1, <1>2, <1>3, <1>4, OneStep

LEMMA ReleasesAsIs ==
    ASSUME StagingInv, NEW h \in Hosts, pc[h] \notin Apart, NEW next \in Apart,
           Release(h, next), UNCHANGED <<revision, record, dirs, live, landing, attempts>>
    PROVE  StagingInv'
  BY Releases, RecordedStays DEF StagingInv, Types

LEMMA Going ==
    ASSUME StagingInv, NEW h \in Hosts, pc[h] \notin Apart
    PROVE  /\ lock = h /\ Phase(h) /\ Types /\ Recorded
           /\ \A next : Go(h, next) => pc' = [pc EXCEPT ![h] = pc'[h]] /\ pc'[h] = next
  BY DEF StagingInv, Placed, Types, Go

-----------------------------------------------------------------------------
(* Staging. *)

LEMMA Leaves ==
    ASSUME Types, NEW h \in Hosts, Leak(h)
    PROVE  /\ pc' \in [Hosts -> Labels] /\ pc' = [pc EXCEPT ![h] = pc'[h]] /\ pc'[h] \in Apart
           /\ lock' = h /\ recovering' = FALSE /\ todo' \in Seq(Things)
  BY Forgets DEF Types, Leak, Go, Labels, Apart

LEMMA AcquireStep == ASSUME StagingInv, NEW h \in Hosts, Acquire(h) PROVE StagingInv'
<1>1. Types /\ Recorded /\ Recorded'
  BY RecordedStays DEF StagingInv, Acquire, disk, engine
<1>2. CASE Leak(h)
  <2>1. Types'
    BY <1>1, <1>2, Leaves DEF Acquire, Types, disk, engine
  <2>. QED BY <1>1, <1>2, <2>1, Leaves, StaysCalm, OneStep DEF Acquire
<1>3. CASE Empty /\ Go(h, "reserve") /\ lock' = h /\ UNCHANGED <<recovering, todo>>
  <2>1. Types' /\ pc' = [pc EXCEPT ![h] = pc'[h]] /\ pc'[h] = "reserve"
    BY <1>1, <1>3 DEF Acquire, Types, disk, engine, Go, Labels
  <2>2. Phase(h)'
    BY <1>3, <2>1 DEF Acquire, Empty, NoRecord, Phase, disk, StagingInv, Calm
  <2>. QED BY <1>1, <1>3, <2>1, <2>2, StaysCalm, OneStep DEF Acquire
<1>. QED BY <1>2, <1>3 DEF Acquire

LEMMA ReserveStep == ASSUME StagingInv, NEW h \in Hosts, Reserve(h) PROVE StagingInv'
<1>1. lock = h /\ record.state = "none" /\ ~ recovering /\ Types /\ Recorded
  BY DEF Reserve, StagingInv, Placed, Phase, Forward, Apart
<1>2. /\ record' \in {NoRecord, Reserved(h)}
      /\ attempts' = IF record' = NoRecord THEN attempts ELSE attempts + 1
      /\ UNCHANGED <<revision, dirs, live, landing>>
  BY DEF Reserve, engine
<1>3. /\ attempts' \in Nat
      /\ record' \in [attempt : Nat, state : States \cup {"none"}, revision : Nat]
  BY <1>1, <1>2 DEF Types, NoRecord, Reserved, States
<1>4. Recorded'
  BY <1>1, <1>2 DEF Recorded, Types, NoRecord, Reserved, Bare, Exists
<1>5. CASE Leak(h)
  <2>1. Types'
    BY <1>1, <1>2, <1>3, <1>5, Leaves DEF Types
  <2>. QED BY <1>1, <1>4, <1>5, <2>1, Leaves, StaysCalm, OneStep
<1>6. CASE Go(h, "mkdir") /\ record' = Reserved(h) /\ UNCHANGED <<lock, recovering, todo>>
  <2>1. Types' /\ pc' = [pc EXCEPT ![h] = pc'[h]] /\ pc'[h] = "mkdir"
    BY <1>1, <1>2, <1>3, <1>6 DEF Types, Go, Labels
  <2>2. Phase(h)'
    BY <1>1, <1>2, <1>6, <2>1 DEF Recorded, Reserved, Phase
  <2>. QED BY <1>1, <1>4, <1>6, <2>1, <2>2, StaysCalm, OneStep
<1>. QED BY <1>5, <1>6 DEF Reserve

LEMMA MakeDirectoryStep == ASSUME StagingInv, NEW h \in Hosts, MakeDirectory(h) PROVE StagingInv'
<1>1. pc[h] \notin Apart /\ record.state = "reserved" /\ dirs = {} /\ ~ recovering
  BY DEF MakeDirectory, StagingInv, Placed, Phase, Forward, Apart
<1>2. lock = h /\ Types /\ Recorded
  BY <1>1, Going
<1>3. Recorded'
  BY <1>1, <1>2, SameNames DEF MakeDirectory, Recorded, Types, engine, Exists
<1>4. CASE Release(h, "idle")
  BY <1>1, <1>2, <1>3, <1>4, Releases DEF MakeDirectory, Types, Apart, engine
<1>5. CASE UNCHANGED hand /\ (Go(h, "allocate") \/ (Go(h, "unlink") /\ UNCHANGED dirs))
  <2>1. Types' /\ pc' = [pc EXCEPT ![h] = pc'[h]] /\ lock' = h
    BY <1>2, <1>5 DEF MakeDirectory, Types, Go, Labels, hand, engine
  <2>2. UNCHANGED <<recovering, record>>
    BY <1>5 DEF MakeDirectory, hand
  <2>3. pc'[h] = "allocate" \/ (pc'[h] = "unlink" /\ dirs' = dirs)
    BY <1>2, <1>5 DEF Types, Go
  <2>4. Phase(h)'
    BY <1>1, <2>2, <2>3 DEF Phase, Bare
  <2>. QED BY <1>2, <1>3, <2>1, <2>4, StaysCalm, OneStep
<1>. QED BY <1>4, <1>5 DEF MakeDirectory

LEMMA MarkWhileStagingStep ==
    ASSUME StagingInv, NEW h \in Hosts,
           \/ MarkWhileStaging(h, "allocate", "allocated", "prepare")
           \/ MarkWhileStaging(h, "prepare", "prepared", "probe")
    PROVE  StagingInv'
<1>1. /\ pc[h] \in {"allocate", "prepare"} /\ record.state \in {"reserved", "allocated"}
      /\ ~ recovering
  BY DEF MarkWhileStaging, StagingInv, Placed, Phase, Forward, Apart
<1>2. lock = h /\ Types /\ Recorded
  BY <1>1, Going DEF Apart
<1>3. PICK s \in {"allocated", "prepared"} :
         /\ \/ Mark(s) /\ Go(h, IF s = "allocated" THEN "prepare" ELSE "probe")
            \/ MarkFails(s) /\ Go(h, "rmdir")
         /\ UNCHANGED <<revision, lock, recovering, todo, dirs, live, landing, attempts>>
  <2>1. CASE MarkWhileStaging(h, "allocate", "allocated", "prepare")
    BY <2>1 DEF MarkWhileStaging, engine
  <2>2. CASE MarkWhileStaging(h, "prepare", "prepared", "probe")
    BY <2>2 DEF MarkWhileStaging, engine
  <2>. QED BY <2>1, <2>2
<1>4. Recorded'
  BY <1>2, <1>3, MarkRecorded DEF States
<1>5. Types' /\ pc' = [pc EXCEPT ![h] = pc'[h]]
  BY <1>2, <1>3, MarkGives DEF Types, Go, Labels, States
<1>6. Phase(h)'
  BY <1>1, <1>2, <1>3, MarkGives DEF Types, Go, Phase, States, Bare
<1>. QED BY <1>2, <1>3, <1>4, <1>5, <1>6, StaysCalm, OneStep

LEMMA ProbeStep == ASSUME StagingInv, NEW h \in Hosts, Probe(h) PROVE StagingInv'
<1>1. pc[h] \notin Apart /\ record.state = "prepared" /\ ~ recovering
  BY DEF Probe, StagingInv, Placed, Phase, Forward, Apart
<1>2. PICK next \in {"allow_volumes", "absent"} : Go(h, next)
  BY DEF Probe
<1>3. Phase(h)'
  BY <1>1, <1>2, Going DEF Probe, hand, disk, engine, Phase, Recorded, Bare, Exists
<1>. QED
  BY <1>1, <1>2, <1>3, Going, StaysCalm, Moves DEF Probe, hand, disk, engine, Types, Labels

-----------------------------------------------------------------------------
(* Creating. *)

LEMMA MadeFacts ==
    ASSUME NEW i \in 1..(NRoots + 1)
    PROVE  /\ Made(i) = Made(i - 1) \cup {Thing(i)} /\ Thing(i) \notin Made(i - 1)
           /\ Made(i) \subseteq {Prep} \cup Volumes /\ Made(i - 1) \subseteq Volumes
           /\ Made(i - 1) = {Volume(j) : j \in 1..(i - 1)}
           /\ Made(0) = {} /\ Made(NRoots) = Volumes
           /\ IF i <= NRoots THEN Thing(i) = Volume(i) ELSE i = NRoots + 1 /\ Thing(i) = Prep
<1> USE StagingAssumption
<1>1. \A j \in 1..NRoots : Thing(j) = Volume(j)
  BY DEF Thing
<1>2. IF i <= NRoots THEN Thing(i) = Volume(i) ELSE i = NRoots + 1 /\ Thing(i) = Prep
  BY DEF Thing
<1>3. Made(i) = Made(i - 1) \cup {Thing(i)}
  BY DEF Made
<1>4. Made(i - 1) = {Volume(j) : j \in 1..(i - 1)} /\ Made(0) = {} /\ Made(NRoots) = Volumes
  BY <1>1 DEF Made, Volumes
<1>5. Made(i - 1) \subseteq Volumes
  BY <1>4 DEF Volumes
<1>6. Thing(i) \notin Made(i - 1)
  BY <1>2, <1>4, Kinds
<1>7. Made(i) \subseteq {Prep} \cup Volumes
  BY <1>2, <1>3, <1>5 DEF Volumes
<1>. QED BY <1>2, <1>3, <1>4, <1>5, <1>6, <1>7

\* What todo has at its head.
LEMMA CreatingFacts ==
    ASSUME Types, NEW there \in BOOLEAN, NEW asked \in BOOLEAN, Creating(there, asked)
    PROVE  /\ todo # <<>> /\ Head(todo) \in Things
           /\ Head(todo) \in {Prep, Exec} \cup Volumes
           /\ (Head(todo) = Exec) <=> (record.state = "execution_create_possible")
           /\ record.state \in {"create_possible", "execution_create_possible"}
           /\ landing \subseteq IF asked THEN {Head(todo)} ELSE {}
<1>1. CASE record.state = "create_possible"
  <2>1. PICK i \in 1..(NRoots + 1) :
            todo = ThingsFrom(i) /\ landing \subseteq IF asked THEN {Thing(i)} ELSE {}
    BY <1>1 DEF Creating
  <2>2. todo \in Seq(Things) \ {<<>>} /\ Head(todo) = Thing(i)
    BY <2>1, ThingSeqs
  <2>3. Head(todo) \in {Prep} \cup Volumes /\ Head(todo) # Exec
    BY <2>2, MadeFacts, Kinds DEF Volumes
  <2>. QED BY <1>1, <2>1, <2>2, <2>3
<1>2. CASE record.state = "execution_create_possible"
  BY <1>2, AreThings DEF Creating
<1>. QED BY <1>1, <1>2 DEF Creating

LEMMA MarkCreatePossibleStep ==
    ASSUME StagingInv, NEW h \in Hosts, MarkCreatePossible(h) PROVE StagingInv'
<1>1. pc[h] \notin Apart /\ record.state = "prepared" /\ ~ recovering
  BY DEF MarkCreatePossible, StagingInv, Placed, Phase, Forward, Apart
<1>2. lock = h /\ Types /\ Recorded /\ Exists = {}
  BY <1>1, Going DEF Recorded, Bare
<1>3. /\ Mark("create_possible") \/ MarkFails("create_possible")
      /\ UNCHANGED <<revision, lock, recovering, dirs, live, landing, attempts>>
  BY DEF MarkCreatePossible, engine
<1>4. Recorded' /\ record'.attempt = record.attempt
  BY <1>2, <1>3, MarkRecorded, MarkGives DEF States
<1>5. CASE /\ Mark("create_possible") /\ Go(h, "create")
           /\ todo' = VolumesUpward \o <<Prep>>
  <2>1. 1 \in 1..(NRoots + 1) /\ todo' = ThingsFrom(1) /\ todo' \in Seq(Things)
    <3>1. 1 \in 1..(NRoots + 1)
      BY StagingAssumption
    <3>2. ThingsFrom(1) \in Seq(Things)
      BY <1>2, <3>1, ThingSeqs
    <3>. QED BY <1>2, <1>5, <3>1, <3>2, ThingsInOrder
  <2>2. Types' /\ pc' = [pc EXCEPT ![h] = pc'[h]] /\ pc'[h] = "create"
    BY <1>2, <1>3, <1>5, <2>1, MarkGives DEF Types, Go, Labels, States
  <2>3. record'.state = "create_possible"
    BY <1>2, <1>5, MarkGives DEF States
  <2>4. Creating(FALSE, FALSE)'
    BY <1>2, <1>3, <1>4, <2>1, <2>3, SameNames DEF Creating, Exists
  <2>5. Phase(h)'
    BY <1>1, <1>3, <2>2, <2>4 DEF Phase
  <2>. QED BY <1>2, <1>3, <1>4, <2>2, <2>5, StaysCalm, OneStep
<1>6. CASE Go(h, "absent") /\ UNCHANGED todo
  <2>1. Types' /\ pc' = [pc EXCEPT ![h] = pc'[h]] /\ pc'[h] = "absent"
    BY <1>2, <1>3, <1>6, MarkGives DEF Types, Go, Labels, States
  <2>2. Phase(h)'
    BY <1>1, <1>2, <1>3, <2>1 DEF Phase, Exists, Forward
  <2>. QED BY <1>2, <1>3, <1>4, <2>1, <2>2, StaysCalm, OneStep
<1>. QED BY <1>5, <1>6 DEF MarkCreatePossible

LEMMA StagedCopyChangedStep ==
    ASSUME StagingInv, NEW h \in Hosts, StagedCopyChanged(h) PROVE StagingInv'
<1>1. pc[h] \notin Apart /\ Creating(FALSE, FALSE) /\ Head(todo) = Volume(1)
  BY DEF StagedCopyChanged, StagingInv, Placed, Phase, Apart
<1>2. lock = h /\ Types /\ Recorded
  BY <1>1, Going
<1>3. Exists = {}
  <2>1. record.state = "create_possible"
    BY <1>1, <1>2, CreatingFacts, Kinds
  <2>2. PICK i \in 1..(NRoots + 1) :
            todo = ThingsFrom(i) /\ live \subseteq Made(i - 1) /\ landing = {}
    BY <1>1, <2>1 DEF Creating
  <2>3. Thing(i) = Volume(1)
    BY <1>1, <1>2, <2>2, ThingSeqs
  <2>4. i = 1
    BY <2>3, MadeFacts, Kinds
  <2>. QED BY <2>2, <2>4, MadeFacts DEF Exists
<1>4. pc' = [pc EXCEPT ![h] = pc'[h]] /\ pc'[h] = "absent"
  BY <1>2, Going, <1>1 DEF StagedCopyChanged
<1>5. <<>> \in Seq(Things)
  OBVIOUS
<1>6. Phase(h)'
  BY <1>3, <1>4 DEF StagedCopyChanged, disk, engine, Phase, Forward, Exists
<1>. QED
  BY <1>1, <1>2, <1>4, <1>5, <1>6, StaysCalm, Moves
     DEF StagedCopyChanged, disk, engine, Types, Labels

LEMMA CreateStep == ASSUME StagingInv, NEW h \in Hosts, Create(h) PROVE StagingInv'
<1>1. pc[h] \notin Apart /\ Creating(FALSE, FALSE) /\ ~ recovering
  BY DEF Create, StagingInv, Placed, Phase, Forward, Apart
<1>2. lock = h /\ Types /\ Recorded /\ landing = {}
  BY <1>1, Going, CreatingFacts
<1>3. Types' /\ pc' = [pc EXCEPT ![h] = pc'[h]] /\ pc'[h] = "await"
  BY <1>2 DEF Create, Types, hand, disk, Go, Labels
<1>4. Head(todo) \notin live /\ Creating(TRUE, TRUE)'
  <2>1. landing' = {Head(todo)} /\ UNCHANGED <<todo, live, record>>
    BY <1>2 DEF Create, hand, disk
  <2>2. CASE record.state = "create_possible"
    <3>1. PICK i \in 1..(NRoots + 1) : todo = ThingsFrom(i) /\ live \subseteq Made(i - 1)
      BY <1>1, <2>2 DEF Creating
    <3>2. Head(todo) = Thing(i)
      BY <1>2, <3>1, ThingSeqs
    <3>. QED BY <2>1, <2>2, <3>1, <3>2, MadeFacts, SameNames DEF Creating
  <2>3. CASE record.state = "execution_create_possible"
    BY <1>1, <2>1, <2>3, SameNames, Kinds DEF Creating, Volumes
  <2>. QED BY <1>1, <2>2, <2>3 DEF Creating
<1>5. Recorded'
  <2>1. Head(todo) \in {Prep, Exec} \cup Volumes
        /\ (Head(todo) = Exec <=> record.state = "execution_create_possible")
        /\ record.state \in {"create_possible", "execution_create_possible"}
    BY <1>1, <1>2, CreatingFacts
  <2>2. landing' = {Head(todo)} /\ UNCHANGED <<record, dirs, live>>
    BY <1>2 DEF Create, disk
  <2>. QED BY <1>2, <1>4, <2>1, <2>2, SameNames DEF Recorded, Exists, Bare
<1>6. Phase(h)' /\ lock' = h
  BY <1>1, <1>2, <1>3, <1>4 DEF Phase, Create, hand
<1>. QED BY <1>2, <1>3, <1>5, <1>6, StaysCalm, OneStep

LEMMA ExecutionNotCreatedStep ==
    ASSUME StagingInv, NEW h \in Hosts, ExecutionNotCreated(h) PROVE StagingInv'
<1>1. pc[h] \notin Apart /\ Creating(FALSE, FALSE) /\ ~ recovering /\ Head(todo) = Exec
  BY DEF ExecutionNotCreated, StagingInv, Placed, Phase, Forward, Apart
<1>2. lock = h /\ Types
  BY <1>1, Going
<1>3. record.state = "execution_create_possible" /\ live \subseteq Volumes /\ landing = {}
  <2>1. record.state = "execution_create_possible"
    BY <1>1, <1>2, CreatingFacts
  <2>. QED BY <1>1, <2>1 DEF Creating
<1>4. pc' = [pc EXCEPT ![h] = pc'[h]] /\ pc'[h] = "execution_gone"
  BY <1>1, Going DEF ExecutionNotCreated
<1>5. <<>> \in Seq(Things)
  OBVIOUS
<1>6. Phase(h)'
  BY <1>1, <1>3, <1>4, SameNames DEF ExecutionNotCreated, disk, engine, Phase, Forward
<1>. QED
  BY <1>1, <1>2, <1>4, <1>5, <1>6, StaysCalm, Moves
     DEF ExecutionNotCreated, disk, engine, Types, Labels

LEMMA CreatedStep == ASSUME StagingInv, NEW h \in Hosts, Created(h) PROVE StagingInv'
<1>1. pc[h] \notin Apart /\ Creating(TRUE, TRUE) /\ ~ recovering
  BY DEF Created, StagingInv, Placed, Phase, Forward, Apart
<1>2. lock = h /\ Types /\ landing = {}
  BY <1>1, Going, CreatingFacts DEF Recorded, Created
<1>3. UNCHANGED <<revision, hand, disk, engine, attempts>>
  BY DEF Created
<1>4. pc' = [pc EXCEPT ![h] = pc'[h]] /\ pc'[h] = "use"
  BY <1>1, Going DEF Created
<1>5. Creating(TRUE, FALSE)'
  BY <1>1, <1>2, <1>3, SameNames DEF Creating, hand, disk, engine
<1>6. Phase(h)'
  BY <1>1, <1>3, <1>4, <1>5 DEF Phase, hand
<1>. QED
  BY <1>1, <1>2, <1>3, <1>4, <1>6, StaysCalm, Moves DEF hand, disk, engine, Types, Labels

\* Closing begins.
LEMMA Closes ==
    ASSUME StagingInv, NEW h \in Hosts, pc[h] \notin Apart,
           NEW resources \in Seq(Things) \ {<<>>},
           NEW next \in {"retain", "allow_execution", "execution_gone", "absent"},
           Go(h, "sight"), todo' = resources, after' = next, UNCHANGED <<lock, recovering>>,
           Recorded',
           record' \in [attempt : Nat, state : States \cup {"none"}, revision : Nat],
           record'.attempt = record.attempt,
           UNCHANGED <<revision, dirs, live, landing, attempts>>,
           next = "allow_execution" => record'.state = "create_possible" /\ ~ recovering,
           next = "execution_gone" => record'.state = "execution_create_possible",
           live \subseteq Among(resources)
               \cup (IF \/ next \in {"retain", "allow_execution"}
                        \/ next = "execution_gone" /\ ~ recovering
                     THEN Volumes ELSE {}),
           landing \subseteq Among(resources)
    PROVE  StagingInv'
<1>1. lock = h /\ Types
  BY Going
<1>2. /\ todo' = resources /\ after' = next /\ lock' = h /\ UNCHANGED recovering
      /\ pc' = [pc EXCEPT ![h] = pc'[h]] /\ pc'[h] = "sight" /\ pc' \in [Hosts -> Labels]
  BY <1>1 DEF Types, Go, Labels
<1>3. Types'
  BY <1>1, <1>2 DEF Types
<1>4. Kept' = IF \/ next \in {"retain", "allow_execution"}
                 \/ next = "execution_gone" /\ ~ recovering
              THEN Volumes ELSE {}
  BY <1>2, SameNames DEF Kept
<1>5. Among(todo') = Among(resources)
  BY <1>2
<1>6. Closing(todo)'
  BY <1>2, <1>4, <1>5 DEF Closing, Among
<1>7. Phase(h)'
  BY <1>2, <1>6 DEF Phase, Forward
<1>. QED BY <1>1, <1>2, <1>3, <1>7, StaysCalm, OneStep

\* The resource at the head is closed.
LEMMA ClosedStep ==
    ASSUME StagingInv, NEW h \in Hosts, pc[h] \in {"sight", "check"},
           Closing(Tail(todo)), Closed(h),
           UNCHANGED <<revision, record, dirs, live, landing, attempts>>
    PROVE  StagingInv'
<1>1. pc[h] \notin Apart /\ todo # <<>>
  BY DEF StagingInv, Placed, Phase, Apart
<1>2. lock = h /\ Types
  BY <1>1, Going
<1>3. todo \in Seq(Things) /\ recovering \in BOOLEAN
  BY <1>2 DEF Types
<1>4. CASE Release(h, "idle")
  BY <1>1, <1>4, ReleasesAsIs DEF Apart
<1>5. CASE /\ Len(todo) > 1 /\ Go(h, "sight") /\ todo' = Tail(todo)
           /\ UNCHANGED <<lock, recovering, handle, after>>
  <2>1. todo' # <<>> /\ todo' \in Seq(Things)
    BY <1>1, <1>3, <1>5, AmongTail
  <2>2. pc' = [pc EXCEPT ![h] = pc'[h]] /\ pc'[h] = "sight"
    BY <1>1, <1>5, Going
  <2>3. Closing(todo)'
    BY <1>5, SameNames DEF Closing, Kept, Among
  <2>4. Phase(h)'
    BY <2>1, <2>2, <2>3 DEF Phase, Forward
  <2>. QED BY <1>1, <1>2, <1>3, <1>5, <2>1, <2>2, <2>4, StaysCalm, Moves DEF Labels
<1>6. CASE /\ Len(todo) = 1 /\ after # "retain"
           /\ Go(h, after) /\ todo' = <<>> /\ UNCHANGED <<lock, recovering, handle>>
  <2>1. Among(Tail(todo)) = {}
    BY <1>1, <1>3, <1>6, AmongTail, AmongOne
  <2>2. after \in {"allow_execution", "execution_gone", "absent"}
    BY <1>6 DEF Closing
  <2>3. live \subseteq Kept /\ landing = {}
    BY <2>1 DEF Closing
  <2>4. pc' = [pc EXCEPT ![h] = pc'[h]] /\ pc'[h] = after
    BY <1>1, <1>6, Going
  <2>5. after = "absent" => Exists = {}
    BY <2>3 DEF Kept, Exists
  <2>6. Phase(h)'
    BY <1>6, <2>2, <2>3, <2>4, <2>5, SameNames DEF Phase, Forward, Closing, Kept, Exists
  <2>7. <<>> \in Seq(Things)
    OBVIOUS
  <2>. QED BY <1>1, <1>2, <1>3, <1>6, <2>2, <2>4, <2>6, <2>7, StaysCalm, Moves DEF Labels
<1>. QED BY <1>4, <1>5, <1>6 DEF Closed

LEMMA CreateUnknownStep == ASSUME StagingInv, NEW h \in Hosts, CreateUnknown(h) PROVE StagingInv'
<1>1. pc[h] \notin Apart /\ Creating(TRUE, TRUE) /\ ~ recovering
  BY DEF CreateUnknown, StagingInv, Placed, Phase, Forward, Apart
<1>2. Types /\ Recorded
  BY <1>1, Going
<1>3. UNCHANGED <<revision, record, dirs, live, landing, attempts>>
  BY DEF CreateUnknown, disk, engine
<1>4. CASE Release(h, "idle")
  BY <1>1, <1>3, <1>4, ReleasesAsIs DEF Apart
<1>5. CASE Head(todo) = Exec /\ Close(h, <<Exec>>, "execution_gone")
  <2>1. record.state = "execution_create_possible"
    BY <1>1, <1>2, <1>5, CreatingFacts
  <2>2. live \subseteq {Exec} \cup Volumes /\ landing \subseteq {Exec}
    BY <1>1, <2>1 DEF Creating
  <2>3. <<Exec>> \in Seq(Things) \ {<<>>} /\ Among(<<Exec>>) = {Exec}
    BY <1>2, AreThings, AmongOne
  <2>4. Recorded' /\ Types
    BY <1>2, <1>3, RecordedStays
  <2>. QED BY <1>1, <1>3, <1>5, <2>1, <2>2, <2>3, <2>4, Closes DEF Types, Close
<1>. QED BY <1>4, <1>5 DEF CreateUnknown

LEMMA UseVolumeStep == ASSUME StagingInv, NEW h \in Hosts, UseVolume(h) PROVE StagingInv'
<1>1. pc[h] \notin Apart /\ Creating(TRUE, FALSE) /\ ~ recovering /\ Head(todo).kind = "volume"
  BY DEF UseVolume, StagingInv, Placed, Phase, Forward, Apart
<1>2. lock = h /\ Types /\ Recorded
  BY <1>1, Going
<1>3. UNCHANGED <<revision, record, dirs, live, landing, attempts>>
  BY DEF UseVolume, disk, engine
<1>4. record.state = "create_possible"
  BY <1>1, <1>2, CreatingFacts, Kinds
<1>5. PICK i \in 1..(NRoots + 1) :
          todo = ThingsFrom(i) /\ live \subseteq Made(i) /\ landing = {}
  BY <1>1, <1>4 DEF Creating
<1>6. Head(todo) = Thing(i) /\ todo # <<>>
  BY <1>2, <1>5, ThingSeqs
<1>7. i <= NRoots /\ Head(todo) = Volume(i)
  BY <1>1, <1>6, MadeFacts, Kinds
<1>8. /\ i \in 1..NRoots /\ i + 1 \in 1..(NRoots + 1) /\ (i + 1) - 1 = i
  BY <1>7, StagingAssumption
<1>9. CASE Go(h, "create") /\ todo' = Tail(todo) /\ UNCHANGED <<lock, recovering>>
  <2>1. todo' = ThingsFrom(i + 1) /\ todo' \in Seq(Things)
    BY <1>2, <1>5, <1>7, <1>8, <1>9, ThingSeqs
  <2>2. pc' = [pc EXCEPT ![h] = pc'[h]] /\ pc'[h] = "create"
    BY <1>1, <1>9, Going
  <2>3. /\ \E j \in 1..(NRoots + 1) :
              todo' = ThingsFrom(j) /\ live' \subseteq Made(j - 1) /\ landing' = {}
        /\ record'.state = "create_possible"
    <3>1. live' \subseteq Made((i + 1) - 1) /\ landing' = {} /\ record'.state = "create_possible"
      BY <1>3, <1>4, <1>5, <1>8
    <3>. QED BY <1>8, <2>1, <3>1
  <2>4. Creating(FALSE, FALSE)'
    BY <1>3, <2>3, SameNames DEF Creating
  <2>5. Phase(h)'
    BY <1>1, <1>9, <2>2, <2>4 DEF Phase
  <2>. QED BY <1>1, <1>2, <1>3, <1>9, <2>1, <2>2, <2>5, StaysCalm, Moves DEF Types, Labels
<1>10. CASE Close(h, VolumesDownFrom(Head(todo).root), "absent")
  <2>1. Head(todo).root = i
    BY <1>7, Kinds
  <2>2. Made(i) = {Volume(j) : j \in 1..i}
    <3>1. Made((i + 1) - 1) = {Volume(j) : j \in 1..((i + 1) - 1)}
      BY <1>8, MadeFacts
    <3>. QED BY <1>8, <3>1
  <2>3. VolumesDownFrom(i) \in Seq(Things) \ {<<>>} /\ live \subseteq Among(VolumesDownFrom(i))
    BY <1>2, <1>5, <1>8, <2>2, VolumeSeqs
  <2>4. Recorded' /\ Close(h, VolumesDownFrom(i), "absent")
    BY <1>2, <1>3, <1>10, <2>1, RecordedStays
  <2>. QED BY <1>1, <1>2, <1>3, <1>5, <2>3, <2>4, Closes DEF Types, Close
<1>. QED BY <1>9, <1>10 DEF UseVolume

LEMMA UsePrepStep == ASSUME StagingInv, NEW h \in Hosts, UsePrep(h) PROVE StagingInv'
<1>1. pc[h] \notin Apart /\ Creating(TRUE, FALSE) /\ ~ recovering /\ Head(todo) = Prep
  BY DEF UsePrep, StagingInv, Placed, Phase, Forward, Apart
<1>2. Types /\ Recorded
  BY <1>1, Going
<1>3. UNCHANGED <<revision, record, dirs, live, landing, attempts>> /\ Recorded'
  BY <1>2, RecordedStays DEF UsePrep, disk, engine
<1>4. record.state = "create_possible"
  BY <1>1, <1>2, CreatingFacts, Kinds
<1>5. live \subseteq {Prep} \cup Volumes /\ landing = {}
  BY <1>1, <1>4, MadeFacts DEF Creating
<1>6. <<Prep>> \in Seq(Things) \ {<<>>} /\ Among(<<Prep>>) = {Prep}
  BY <1>2, AreThings, AmongOne
<1>7. CASE Close(h, <<Prep>>, "allow_execution")
  BY <1>1, <1>2, <1>3, <1>4, <1>5, <1>6, <1>7, Closes DEF Types, Close
<1>8. CASE Close(h, <<Prep>> \o VolumesDownFrom(NRoots), "absent")
  <2>1. NRoots \in 1..NRoots
    BY StagingAssumption
  <2>2. VolumesDownFrom(NRoots) \in Seq(Things) /\ Among(VolumesDownFrom(NRoots)) = Volumes
    BY <1>2, <2>1, VolumeSeqs DEF Volumes
  <2>3. /\ <<Prep>> \o VolumesDownFrom(NRoots) \in Seq(Things) \ {<<>>}
        /\ Among(<<Prep>> \o VolumesDownFrom(NRoots)) = {Prep} \cup Volumes
    BY <1>2, <2>2, AreThings, AmongCons
  <2>. QED BY <1>1, <1>2, <1>3, <1>5, <1>8, <2>3, Closes DEF Types, Close
<1>. QED BY <1>7, <1>8 DEF UsePrep

LEMMA MarkExecutionCreatePossibleStep ==
    ASSUME StagingInv, NEW h \in Hosts, MarkExecutionCreatePossible(h) PROVE StagingInv'
<1>1. /\ pc[h] \notin Apart /\ record.state = "create_possible" /\ ~ recovering
      /\ live \subseteq Volumes /\ landing = {}
  BY DEF MarkExecutionCreatePossible, StagingInv, Placed, Phase, Forward, Apart
<1>2. lock = h /\ Types /\ Recorded
  BY <1>1, Going
<1>3. /\ Mark("execution_create_possible") \/ MarkFails("execution_create_possible")
      /\ UNCHANGED <<revision, dirs, live, landing, attempts>>
  BY DEF MarkExecutionCreatePossible, engine
<1>4. /\ Recorded' /\ record'.attempt = record.attempt
      /\ record' \in [attempt : Nat, state : States \cup {"none"}, revision : Nat]
  BY <1>1, <1>2, <1>3, MarkRecorded, MarkGives DEF States
<1>5. CASE /\ Mark("execution_create_possible") /\ Go(h, "create")
           /\ todo' = <<Exec>> /\ UNCHANGED <<lock, recovering>>
  <2>1. todo' \in Seq(Things)
    BY <1>2, <1>5, AreThings
  <2>2. Types' /\ pc' = [pc EXCEPT ![h] = pc'[h]] /\ pc'[h] = "create"
    BY <1>2, <1>3, <1>4, <1>5, <2>1 DEF Types, Go, Labels
  <2>3. record'.state = "execution_create_possible"
    BY <1>2, <1>5, MarkGives DEF States
  <2>4. Creating(FALSE, FALSE)'
    BY <1>1, <1>3, <1>4, <1>5, <2>3, SameNames DEF Creating
  <2>5. Phase(h)'
    BY <1>1, <1>5, <2>2, <2>4 DEF Phase
  <2>. QED BY <1>2, <1>4, <1>5, <2>2, <2>5, StaysCalm, OneStep
<1>6. CASE Close(h, VolumesDownFrom(NRoots), "retain")
  <2>1. NRoots \in 1..NRoots
    BY StagingAssumption
  <2>2. VolumesDownFrom(NRoots) \in Seq(Things) \ {<<>>}
    BY <1>2, <2>1, VolumeSeqs
  <2>. QED BY <1>1, <1>3, <1>4, <1>6, <2>2, Closes DEF Close
<1>. QED BY <1>5, <1>6 DEF MarkExecutionCreatePossible

LEMMA RunCommandStep == ASSUME StagingInv, NEW h \in Hosts, RunCommand(h) PROVE StagingInv'
<1>1. pc[h] \notin Apart /\ Creating(TRUE, FALSE) /\ ~ recovering /\ Head(todo) = Exec
  BY DEF RunCommand, StagingInv, Placed, Phase, Forward, Apart
<1>2. Types /\ Recorded
  BY <1>1, Going
<1>3. UNCHANGED <<revision, record, dirs, live, landing, attempts>> /\ Recorded'
  BY <1>2, RecordedStays DEF RunCommand, disk, engine
<1>4. record.state = "execution_create_possible"
  BY <1>1, <1>2, CreatingFacts
<1>5. live \subseteq {Exec} \cup Volumes /\ landing = {}
  BY <1>1, <1>4 DEF Creating
<1>6. <<Exec>> \in Seq(Things) \ {<<>>} /\ Among(<<Exec>>) = {Exec}
  BY <1>2, AreThings, AmongOne
<1>. QED BY <1>1, <1>2, <1>3, <1>4, <1>5, <1>6, Closes DEF RunCommand, Types, Close

-----------------------------------------------------------------------------
(* Closing. *)

LEMMA SightStep == ASSUME StagingInv, NEW h \in Hosts, Sight(h) PROVE StagingInv'
<1>1. pc[h] = "sight" /\ pc[h] \notin Apart /\ Closing(todo) /\ todo # <<>>
  BY DEF Sight, StagingInv, Placed, Phase, Apart
<1>2. lock = h /\ Types /\ Recorded
  BY <1>1, Going
<1>3. UNCHANGED <<revision, record, dirs, live, landing, attempts>>
  BY DEF Sight, disk, engine
<1>4. CASE Head(todo) \in live /\ Go(h, "remove") /\ UNCHANGED hand
  <2>1. pc' = [pc EXCEPT ![h] = pc'[h]] /\ pc'[h] = "remove"
    BY <1>1, <1>4, Going
  <2>2. Closing(todo)'
    BY <1>1, <1>3, <1>4, SameNames DEF Closing, Kept, Among, hand
  <2>3. Phase(h)'
    BY <1>1, <1>3, <1>4, <2>1, <2>2 DEF Phase, Forward, hand
  <2>. QED BY <1>1, <1>2, <1>3, <1>4, <2>1, <2>3, StaysCalm, Moves DEF Types, Labels, hand
<1>5. CASE Head(todo) \notin live /\ AbsenceAllowed /\ Closed(h)
  <2>1. landing = {}
    BY <1>2, <1>5 DEF AbsenceAllowed, Recorded
  <2>2. Among(todo) = {Head(todo)} \cup Among(Tail(todo))
    BY <1>1, <1>2, AmongTail DEF Types
  <2>3. Closing(Tail(todo))
    BY <1>1, <1>5, <2>1, <2>2 DEF Closing, Kept, AbsenceAllowed
  <2>. QED BY <1>1, <1>3, <1>5, <2>3, ClosedStep
<1>6. CASE Release(h, "idle")
  BY <1>1, <1>3, <1>6, ReleasesAsIs DEF Apart
<1>. QED BY <1>4, <1>5, <1>6 DEF Sight

LEMMA RemoveStep == ASSUME StagingInv, NEW h \in Hosts, Remove(h) PROVE StagingInv'
<1>1. pc[h] \notin Apart /\ Closing(todo) /\ todo # <<>> /\ Head(todo) \in live
  BY DEF Remove, StagingInv, Placed, Phase, Apart
<1>2. lock = h /\ Types /\ Recorded
  BY <1>1, Going
<1>3. live' = live \ {Head(todo)} /\ UNCHANGED <<revision, hand, disk, landing, attempts>>
  BY DEF Remove
<1>4. Types' /\ pc' = [pc EXCEPT ![h] = pc'[h]] /\ pc'[h] = "check"
  BY <1>1, <1>2, <1>3, Going DEF Remove, Types, hand, disk, Labels
<1>5. Recorded'
  BY <1>2, <1>3, SameNames DEF Recorded, Exists, disk
<1>6. Among(todo) = {Head(todo)} \cup Among(Tail(todo))
  BY <1>1, <1>2, AmongTail DEF Types
<1>7. landing \subseteq Among(Tail(todo))
  BY <1>1, <1>2, <1>6 DEF Closing, Recorded
<1>8. Closing(Tail(todo))'
  BY <1>1, <1>3, <1>6, <1>7, SameNames DEF Closing, Kept, Among, hand, disk
<1>9. Phase(h)' /\ lock' = h
  BY <1>1, <1>2, <1>3, <1>4, <1>8 DEF Phase, Forward, hand
<1>. QED BY <1>2, <1>4, <1>5, <1>9, StaysCalm, OneStep

LEMMA CheckRemovedStep == ASSUME StagingInv, NEW h \in Hosts, CheckRemoved(h) PROVE StagingInv'
<1>1. pc[h] = "check" /\ pc[h] \notin Apart /\ Closing(Tail(todo))
  BY DEF CheckRemoved, StagingInv, Placed, Phase, Apart
<1>. QED BY <1>1, ClosedStep DEF CheckRemoved, disk, engine

LEMMA GiveUpStep == ASSUME StagingInv, NEW h \in Hosts, GiveUp(h) PROVE StagingInv'
<1>1. pc[h] \notin Apart /\ "idle" \in Apart
  BY DEF GiveUp, Apart
<1>. QED BY <1>1, ReleasesAsIs DEF GiveUp, disk, engine

-----------------------------------------------------------------------------
(* The end of an attempt. *)

LEMMA MarkExecutionAbsentStep ==
    ASSUME StagingInv, NEW h \in Hosts, MarkExecutionAbsent(h) PROVE StagingInv'
<1>1. /\ pc[h] \notin Apart /\ landing = {} /\ live \subseteq Volumes
      /\ recovering => live = {}
  BY DEF MarkExecutionAbsent, StagingInv, Placed, Phase, Apart
<1>2. lock = h /\ Types /\ Recorded
  BY <1>1, Going
<1>3. /\ Mark("execution_absent") \/ MarkFails("execution_absent")
      /\ UNCHANGED <<revision, dirs, live, landing, attempts>>
  BY DEF MarkExecutionAbsent, engine
<1>4. /\ Recorded' /\ record'.attempt = record.attempt
      /\ record' \in [attempt : Nat, state : States \cup {"none"}, revision : Nat]
  BY <1>1, <1>2, <1>3, MarkRecorded, MarkGives DEF States
<1>5. CASE recovering /\ Go(h, "absent") /\ UNCHANGED <<lock, recovering, todo>>
  <2>1. Types' /\ pc' = [pc EXCEPT ![h] = pc'[h]] /\ pc'[h] = "absent"
    BY <1>2, <1>3, <1>4, <1>5 DEF Types, Go, Labels
  <2>2. Phase(h)'
    BY <1>1, <1>3, <1>5, <2>1 DEF Phase, Forward, Exists
  <2>. QED BY <1>2, <1>4, <1>5, <2>1, <2>2, StaysCalm, OneStep
<1>6. CASE /\ Go(h, "sight") /\ after' = "absent" /\ todo' = VolumesDownFrom(NRoots)
           /\ UNCHANGED <<lock, recovering>>
  <2>1. NRoots \in 1..NRoots
    BY StagingAssumption
  <2>2. /\ VolumesDownFrom(NRoots) \in Seq(Things) \ {<<>>}
        /\ Among(VolumesDownFrom(NRoots)) = Volumes
    BY <1>2, <2>1, VolumeSeqs DEF Volumes
  <2>. QED BY <1>1, <1>3, <1>4, <1>6, <2>2, Closes
<1>7. CASE Release(h, "idle")
  BY <1>1, <1>3, <1>4, <1>7, Releases DEF Apart
<1>. QED BY <1>5, <1>6, <1>7 DEF MarkExecutionAbsent

LEMMA MarkContainerAbsentStep ==
    ASSUME StagingInv, NEW h \in Hosts, MarkContainerAbsent(h) PROVE StagingInv'
<1>1. pc[h] \notin Apart /\ Exists = {}
  BY DEF MarkContainerAbsent, StagingInv, Placed, Phase, Apart
<1>2. lock = h /\ Types /\ Recorded
  BY <1>1, Going
<1>3. /\ Mark("container_absent") \/ MarkFails("container_absent")
      /\ UNCHANGED <<revision, dirs, live, landing, attempts>>
  BY DEF MarkContainerAbsent, engine
<1>4. /\ Recorded'
      /\ record' \in [attempt : Nat, state : States \cup {"none"}, revision : Nat]
  BY <1>1, <1>2, <1>3, MarkRecorded, MarkGives DEF States
<1>5. CASE /\ Mark("container_absent")
           /\ Go(h, "cleanup") \/ Go(h, "output")
           /\ UNCHANGED <<lock, recovering, todo>>
  <2>1. Types' /\ pc' = [pc EXCEPT ![h] = pc'[h]] /\ pc'[h] \in {"cleanup", "output"}
    BY <1>2, <1>3, <1>4, <1>5 DEF Types, Go, Labels
  <2>2. record'.state = "container_absent"
    BY <1>2, <1>5, MarkGives DEF States
  <2>3. Phase(h)'
    BY <2>1, <2>2 DEF Phase, Forward
  <2>. QED BY <1>2, <1>4, <1>5, <2>1, <2>3, StaysCalm, OneStep
<1>6. CASE Release(h, "idle")
  BY <1>1, <1>3, <1>4, <1>6, Releases DEF Apart
<1>. QED BY <1>5, <1>6 DEF MarkContainerAbsent

LEMMA ObserveOutputStep == ASSUME StagingInv, NEW h \in Hosts, ObserveOutput(h) PROVE StagingInv'
<1>1. pc[h] \notin Apart /\ record.state = "container_absent"
  BY DEF ObserveOutput, StagingInv, Placed, Phase, Apart
<1>2. pc' = [pc EXCEPT ![h] = pc'[h]] /\ pc'[h] = "cleanup"
  BY <1>1, Going DEF ObserveOutput
<1>3. Phase(h)'
  BY <1>1, <1>2 DEF ObserveOutput, disk, Phase, Forward
<1>. QED
  BY <1>1, <1>2, <1>3, Going, StaysCalm, Moves
     DEF ObserveOutput, hand, disk, engine, Types, Labels

LEMMA MarkCleanupStartedStep ==
    ASSUME StagingInv, NEW h \in Hosts, MarkCleanupStarted(h) PROVE StagingInv'
<1>1. pc[h] \notin Apart /\ record.state = "container_absent"
  BY DEF MarkCleanupStarted, StagingInv, Placed, Phase, Apart
<1>2. lock = h /\ Types /\ Recorded
  BY <1>1, Going
<1>3. /\ Mark("cleanup_started") \/ MarkFails("cleanup_started")
      /\ UNCHANGED <<revision, dirs, live, landing, attempts>>
  BY DEF MarkCleanupStarted, engine
<1>4. /\ Recorded'
      /\ record' \in [attempt : Nat, state : States \cup {"none"}, revision : Nat]
  BY <1>1, <1>2, <1>3, MarkRecorded, MarkGives DEF States
<1>5. CASE /\ Mark("cleanup_started") /\ Go(h, "rmdir")
           /\ UNCHANGED <<lock, recovering, todo>>
  <2>1. Types' /\ pc' = [pc EXCEPT ![h] = pc'[h]] /\ pc'[h] = "rmdir"
    BY <1>2, <1>3, <1>4, <1>5 DEF Types, Go, Labels
  <2>2. record'.state = "cleanup_started"
    BY <1>2, <1>5, MarkGives DEF States
  <2>3. Phase(h)'
    BY <2>1, <2>2 DEF Phase, Forward, Bare
  <2>. QED BY <1>2, <1>4, <1>5, <2>1, <2>3, StaysCalm, OneStep
<1>6. CASE Release(h, "idle")
  BY <1>1, <1>3, <1>4, <1>6, Releases DEF Apart
<1>. QED BY <1>5, <1>6 DEF MarkCleanupStarted

LEMMA RemoveDirectoryStep ==
    ASSUME StagingInv, NEW h \in Hosts, RemoveDirectory(h) PROVE StagingInv'
<1>1. pc[h] \notin Apart /\ record.state \in Bare \ {"none"}
  BY DEF RemoveDirectory, StagingInv, Placed, Phase, Apart
<1>2. lock = h /\ Types /\ Recorded
  BY <1>1, Going
<1>3. UNCHANGED <<revision, record, live, landing, attempts>>
  BY DEF RemoveDirectory, engine
<1>4. CASE dirs' = dirs \ {record.attempt} /\ Go(h, "unlink") /\ UNCHANGED hand
  <2>1. Types' /\ pc' = [pc EXCEPT ![h] = pc'[h]] /\ pc'[h] = "unlink"
    BY <1>2, <1>3, <1>4 DEF Types, Go, Labels, hand
  <2>2. Recorded' /\ dirs' = {}
    BY <1>2, <1>3, <1>4, SameNames DEF Recorded, Exists
  <2>3. Phase(h)' /\ lock' = h
    BY <1>1, <1>2, <1>3, <1>4, <2>1, <2>2 DEF Phase, Forward, hand
  <2>. QED BY <1>2, <2>1, <2>2, <2>3, StaysCalm, OneStep
<1>5. CASE UNCHANGED dirs /\ Release(h, "idle")
  BY <1>1, <1>3, <1>5, ReleasesAsIs DEF Apart
<1>. QED BY <1>4, <1>5 DEF RemoveDirectory

LEMMA RemoveRecordStep == ASSUME StagingInv, NEW h \in Hosts, RemoveRecord(h) PROVE StagingInv'
<1>1. pc[h] \notin Apart /\ record.state \in Bare /\ dirs = {}
  BY DEF RemoveRecord, StagingInv, Placed, Phase, Apart
<1>2. lock = h /\ Types /\ Recorded
  BY <1>1, Going
<1>3. PICK next \in Apart : Release(h, next)
  BY DEF RemoveRecord, Apart
<1>4. record' \in {record, NoRecord} /\ UNCHANGED <<revision, dirs, live, landing, attempts>>
  BY DEF RemoveRecord, engine
<1>5. record' \in [attempt : Nat, state : States \cup {"none"}, revision : Nat]
  BY <1>2, <1>4 DEF Types, NoRecord
<1>6. Recorded'
  <2>1. CASE record' = record
    BY <1>2, <1>4, <2>1, RecordedStays
  <2>2. CASE record' = NoRecord
    BY <1>1, <1>2, <1>4, <2>2 DEF Recorded, NoRecord, Exists
  <2>. QED BY <1>4, <2>1, <2>2
<1>. QED BY <1>1, <1>3, <1>4, <1>5, <1>6, Releases

-----------------------------------------------------------------------------
(* Recovery, crashes, roots and the engine. *)

LEMMA RecoverStep == ASSUME StagingInv, NEW h \in Hosts, Recover(h) PROVE StagingInv'
<1>1. pc[h] = "idle" /\ pc[h] \in Apart /\ lock = NoHost /\ dirs \subseteq {record.attempt}
  BY DEF Recover, Apart
<1>2. Types /\ Recorded /\ UNCHANGED <<revision, disk, engine, attempts>>
  BY DEF Recover, StagingInv
<1>3. CASE Go(h, "ready") /\ UNCHANGED hand
  BY <1>1, <1>2, <1>3, AsideStep DEF Types, Go, Labels, Apart
<1>4. CASE lock' = h /\ recovering' = TRUE /\ Resume(h)
  <2>1. UNCHANGED <<record, dirs, live, landing>>
    BY <1>2 DEF disk, engine
  <2>2. Recorded'
    BY <1>2, <2>1, RecordedStays
  <2>3. VolumesUpward \in Seq(Things) /\ Among(VolumesUpward) = Volumes /\ VolumesUpward # <<>>
    BY <1>2, VolumeSeqs, StagingAssumption
  <2>4. /\ <<Prep>> \o VolumesUpward \in Seq(Things) \ {<<>>}
        /\ Among(<<Prep>> \o VolumesUpward) = {Prep} \cup Volumes
        /\ <<Exec>> \o VolumesUpward \in Seq(Things) \ {<<>>}
        /\ Among(<<Exec>> \o VolumesUpward) = {Exec} \cup Volumes
    BY <1>2, <2>3, AreThings, AmongCons
  <2>5. <<>> \in Seq(Things)
    OBVIOUS
  <2>6. todo' \in Seq(Things)
    BY <1>4, <2>3, <2>4, <2>5 DEF Resume
  <2>7. PICK next \in {"unlink", "absent", "sight", "cleanup", "rmdir"} : Go(h, next)
    BY <1>4 DEF Resume
  <2>8. pc' \in [Hosts -> Labels] /\ pc' = [pc EXCEPT ![h] = pc'[h]] /\ pc'[h] = next
    BY <1>2, <2>7 DEF Types, Go, Labels
  <2>9. Types'
    BY <1>2, <1>4, <2>1, <2>6, <2>8 DEF Types
  <2>10. CASE next = "unlink"
    <3>1. ~ Present /\ record.state \in Bare \ {"none"}
      BY <1>1, <1>2, <1>4, <2>8, <2>10 DEF Resume, Go, Types, Bare
    <3>2. dirs = {}
      BY <1>1, <3>1 DEF Present
    <3>. QED
      BY <1>1, <1>4, <2>1, <2>2, <2>8, <2>9, <2>10, <3>1, <3>2, StaysCalm, OneStep
         DEF Phase, Forward
  <2>11. CASE next = "absent"
    <3>1. record.state \in Bare
      BY <1>1, <1>2, <1>4, <2>8, <2>11 DEF Resume, Go, Types, Bare
    <3>2. Exists' = {}
      BY <1>2, <2>1, <3>1 DEF Recorded, Exists
    <3>. QED
      BY <1>4, <2>2, <2>8, <2>9, <2>11, <3>2, <1>1, StaysCalm, OneStep DEF Phase, Forward
  <2>12. CASE next = "sight"
    <3>1. \/ /\ record.state = "create_possible"
             /\ todo' = <<Prep>> \o VolumesUpward /\ after' = "absent"
          \/ /\ record.state = "execution_create_possible"
             /\ todo' = <<Exec>> \o VolumesUpward /\ after' = "execution_gone"
          \/ /\ record.state = "execution_absent"
             /\ todo' = VolumesUpward /\ after' = "absent"
      BY <1>1, <1>2, <1>4, <2>8, <2>12 DEF Resume, Go, Types
    <3>2. todo' # <<>> /\ Exists \subseteq Among(todo')
      BY <1>2, <2>3, <2>4, <3>1 DEF Recorded, Exists
    <3>3. after' \in {"absent", "execution_gone"}
          /\ (after' = "execution_gone" => record.state = "execution_create_possible")
      BY <3>1
    <3>4. Closing(todo)'
      BY <2>1, <3>2, <3>3 DEF Closing, Among, Exists
    <3>5. Phase(h)'
      BY <2>8, <2>12, <3>2, <3>4 DEF Phase, Forward
    <3>. QED BY <1>1, <1>4, <2>2, <2>8, <2>9, <3>5, StaysCalm, OneStep
  <2>13. CASE next \in {"cleanup", "rmdir"}
    <3>1. record'.state = IF next = "cleanup" THEN "container_absent" ELSE "cleanup_started"
      BY <1>1, <1>2, <1>4, <2>1, <2>8, <2>13 DEF Resume, Go, Types
    <3>2. Phase(h)'
      BY <2>8, <2>13, <3>1 DEF Phase, Forward, Bare
    <3>. QED BY <1>1, <1>4, <2>2, <2>8, <2>9, <3>2, StaysCalm, OneStep
  <2>. QED BY <2>7, <2>10, <2>11, <2>12, <2>13
<1>. QED BY <1>3, <1>4 DEF Recover

LEMMA StageRefusedStep == ASSUME StagingInv, NEW h \in Hosts, StageRefused(h) PROVE StagingInv'
<1>1. pc' \in [Hosts -> Labels] /\ pc' = [pc EXCEPT ![h] = pc'[h]] /\ pc'[h] \in Apart
  BY DEF StageRefused, Go, StagingInv, Types, Labels, Apart
<1>. QED BY <1>1, AsideStep DEF StageRefused, StagingInv, Types, Apart

LEMMA ChangeRootsStep == ASSUME StagingInv, NEW h \in Hosts, ChangeRoots(h) PROVE StagingInv'
<1>1. pc' \in [Hosts -> Labels] /\ pc' = [pc EXCEPT ![h] = pc'[h]] /\ pc'[h] \in Apart
  BY DEF ChangeRoots, StagingInv, Types, Apart
<1>2. revision' \in [Hosts -> Nat]
  BY DEF ChangeRoots, StagingInv, Types
<1>. QED BY <1>1, <1>2, AsideStep DEF ChangeRoots, Apart

LEMMA CrashStep == ASSUME StagingInv, NEW h \in Hosts, Crash(h) PROVE StagingInv'
<1>1. Types /\ Recorded
  BY DEF StagingInv
<1>2. pc' \in [Hosts -> Labels] /\ pc' = [pc EXCEPT ![h] = pc'[h]] /\ pc'[h] \in Apart
  BY <1>1 DEF Crash, Go, Types, Labels, Apart
<1>3. UNCHANGED <<revision, dirs, live, landing>>
  BY DEF Crash, engine
<1>4. \/ UNCHANGED <<record, attempts>>
      \/ pc[h] = "reserve" /\ record' = Reserved(h) /\ attempts' = attempts + 1
  BY DEF Crash
<1>5. CASE lock = h /\ lock' = NoHost /\ Forget
  <2>1. recovering' = FALSE /\ todo' \in Seq(Things)
    BY <1>5, Forgets
  <2>2. CASE UNCHANGED <<record, attempts>>
    <3>1. Types' /\ Recorded'
      BY <1>1, <1>2, <1>3, <1>5, <2>1, <2>2, RecordedStays DEF Types
    <3>. QED BY <1>2, <1>5, <2>1, <3>1, OneStep DEF Calm
  <2>3. CASE pc[h] = "reserve" /\ record' = Reserved(h) /\ attempts' = attempts + 1
    <3>1. record.state = "none"
      BY <2>3 DEF StagingInv, Placed, Phase, Apart
    <3>2. Recorded'
      BY <1>1, <1>3, <2>3, <3>1 DEF Recorded, Types, Reserved, Bare, Exists
    <3>3. /\ record' \in [attempt : Nat, state : States \cup {"none"}, revision : Nat]
          /\ attempts' \in Nat
      BY <1>1, <2>3 DEF Types, Reserved, States
    <3>4. Types'
      BY <1>1, <1>2, <1>3, <1>5, <2>1, <3>3 DEF Types
    <3>. QED BY <1>2, <1>5, <2>1, <3>2, <3>4, OneStep DEF Calm
  <2>. QED BY <1>4, <2>2, <2>3
<1>6. CASE lock # h /\ UNCHANGED hand
  <2>1. pc[h] \in Apart
    BY <1>6 DEF StagingInv, Placed
  <2>2. UNCHANGED <<record, stray, attempts>>
    BY <2>1 DEF Crash, Apart, Writing
  <2>. QED BY <1>1, <1>2, <1>3, <1>6, <2>1, <2>2, AsideStep DEF Types, disk, engine
<1>. QED BY <1>5, <1>6 DEF Crash

LEMMA EngineStep == ASSUME StagingInv, Land \/ Drop PROVE StagingInv'
<1>1. Types /\ Recorded /\ Calm /\ Placed
  BY DEF StagingInv
<1>2. PICK r \in landing :
         /\ live' \in {live, live \cup {r}} /\ landing' = landing \ {r}
         /\ UNCHANGED <<pc, revision, hand, disk, attempts>>
  BY DEF Land, Drop
<1>3. Types' /\ Calm'
  BY <1>1, <1>2 DEF Types, Calm, hand, disk
<1>4. Recorded'
  BY <1>1, <1>2, SameNames DEF Recorded, Exists, disk
<1>5. ASSUME NEW g \in Hosts, pc'[g] \notin Apart PROVE lock' = g /\ Phase(g)'
  <2>1. pc[g] \notin Apart /\ lock = g /\ Phase(g)
    BY <1>1, <1>2, <1>5 DEF Placed
  <2>2. pc[g] \notin {"create", "use", "allow_execution", "execution_gone", "absent"}
    BY <1>1, <1>2, <2>1, CreatingFacts DEF Phase, Exists
  <2>3. ASSUME pc[g] = "await" PROVE Creating(TRUE, TRUE)'
    <3>1. Creating(TRUE, TRUE)
      BY <2>1, <2>3 DEF Phase
    <3>2. CASE record.state = "create_possible"
      <4>1. PICK i \in 1..(NRoots + 1) :
                todo = ThingsFrom(i) /\ live \subseteq Made(i) /\ landing \subseteq {Thing(i)}
        BY <3>1, <3>2 DEF Creating
      <4>2. Thing(i) \in Made(i)
        BY MadeFacts
      <4>3. live' \subseteq Made(i) /\ landing' \subseteq {Thing(i)}
        BY <1>2, <4>1, <4>2
      <4>. QED BY <1>2, <3>2, <4>1, <4>3, SameNames DEF Creating, hand, disk
    <3>3. CASE record.state = "execution_create_possible"
      BY <1>2, <3>1, <3>3, SameNames DEF Creating, hand, disk
    <3>. QED BY <3>1, <3>2, <3>3 DEF Creating
  <2>4. Closing(todo) => Closing(todo)'
    BY <1>2, SameNames DEF Closing, Kept, Among, hand, disk
  <2>5. Closing(Tail(todo)) => Closing(Tail(todo))'
    BY <1>2, SameNames DEF Closing, Kept, Among, hand, disk
  <2>. QED BY <1>2, <2>1, <2>2, <2>3, <2>4, <2>5 DEF Phase, hand, disk
<1>. QED BY <1>3, <1>4, <1>5 DEF StagingInv, Placed

-----------------------------------------------------------------------------
(* The invariant. *)

LEMMA InitHolds == Init => StagingInv
<1> SUFFICES ASSUME Init PROVE StagingInv
  OBVIOUS
<1>1. <<>> \in Seq(Things)
  OBVIOUS
<1>2. Types
  BY <1>1 DEF Init, Types, Labels, Apart, NoRecord, States
<1>3. Recorded /\ Calm /\ Placed
  BY DEF Init, Recorded, Calm, Placed, NoRecord, Exists, Apart
<1>. QED BY <1>2, <1>3 DEF StagingInv

LEMMA StutterStep == StagingInv /\ UNCHANGED vars => StagingInv'
<1> SUFFICES ASSUME StagingInv, UNCHANGED vars PROVE StagingInv'
  OBVIOUS
<1> USE DEF vars, hand, disk, engine
<1>1. Types'
  BY DEF StagingInv, Types
<1>2. Recorded'
  BY RecordedStays DEF StagingInv
<1>3. ASSUME NEW g \in Hosts, pc'[g] \notin Apart PROVE lock' = g /\ Phase(g)'
  <2>1. lock = g /\ Phase(g)
    BY <1>3 DEF StagingInv, Placed
  <2>. QED
    BY <2>1 DEF Phase, Forward, Exists, Volumes, Volume, Prep, Exec, Creating, Closing, Kept,
       Among, Made, ThingsFrom, Thing
<1>. QED BY <1>1, <1>2, <1>3 DEF StagingInv, Placed, Calm

LEMMA InvStep == StagingInv /\ [Next]_vars => StagingInv'
<1> SUFFICES ASSUME StagingInv, Next PROVE StagingInv'
  BY StutterStep
<1>1. ASSUME NEW h \in Hosts, Session(h) PROVE StagingInv'
  BY <1>1, RecoverStep, StageRefusedStep, AcquireStep, ReserveStep, MakeDirectoryStep,
     MarkWhileStagingStep, ProbeStep, MarkCreatePossibleStep, StagedCopyChangedStep, CreateStep,
     ExecutionNotCreatedStep, CreatedStep, CreateUnknownStep, UseVolumeStep, UsePrepStep,
     MarkExecutionCreatePossibleStep, RunCommandStep, SightStep, RemoveStep, CheckRemovedStep,
     MarkExecutionAbsentStep, MarkContainerAbsentStep, ObserveOutputStep, MarkCleanupStartedStep,
     RemoveDirectoryStep, RemoveRecordStep
     DEF Session, MarkAllocated, MarkPrepared
<1>. QED BY <1>1, GiveUpStep, CrashStep, ChangeRootsStep, EngineStep DEF Next

(* The record says what there may be, in every state that a failed call, a *)
(* crash or a late create can leave: nothing but resources of the recorded *)
(* attempt, no container before the record allows it nor after it says     *)
(* that it is gone; and the one session that goes on has the lock.         *)
(* Code: recover_staging_authority, stage_workspace_snapshots and          *)
(* ContainerExecutionRuntime.                                              *)
THEOREM StagingInvariance == Spec => []StagingInv
  BY InitHolds, InvStep, PTL DEF Spec

-----------------------------------------------------------------------------
(* The refinement. *)

\* Whatever is on the machine is of the recorded attempt.
AllRecorded ==
    /\ \A thing \in Held : thing.attempt = record.attempt
    /\ record.attempt = 0 => Held = {}

LEMMA Owned == StagingInv => AllRecorded
<1> SUFFICES ASSUME StagingInv PROVE AllRecorded
  OBVIOUS
<1>1. Types /\ Recorded
  BY DEF StagingInv
<1>2. record.state \in
          Bare \cup {"create_possible", "execution_create_possible", "execution_absent"}
  BY <1>1 DEF Types, States, Bare
<1>3. Exists \subseteq {Prep, Exec} \cup Volumes
  BY <1>1, <1>2 DEF Recorded, Exists
<1>4. \A thing \in Exists : thing.attempt = record.attempt
  BY <1>3 DEF Prep, Exec, Volumes, Volume
<1>5. record.attempt = 0 => Exists = {} /\ dirs = {}
  BY <1>1 DEF Recorded, Bare
<1>6. \A a \in dirs : a = record.attempt
  BY <1>1 DEF Recorded
<1>. QED BY <1>4, <1>5, <1>6 DEF AllRecorded, Held, Exists

LEMMA OwnedAfter == StagingInv' => AllRecorded'
  BY Owned, PTL

\* What a step does to the obligation of the recorded attempt.
Keeps == UNCHANGED <<record.attempt, attempts>>

Takes ==
    /\ record.attempt = 0 /\ record'.attempt = attempts + 1 /\ attempts' = attempts + 1
    /\ UNCHANGED <<dirs, live, landing>>

Frees ==
    /\ record.attempt # 0 /\ record'.attempt = 0 /\ Held = {}
    /\ UNCHANGED <<dirs, live, landing, attempts>>

LEMMA MarkKeeps ==
    ASSUME StagingInv, NEW h \in Hosts,
           \/ MarkAllocated(h) \/ MarkPrepared(h) \/ MarkCreatePossible(h)
           \/ MarkExecutionCreatePossible(h) \/ MarkExecutionAbsent(h)
           \/ MarkContainerAbsent(h) \/ MarkCleanupStarted(h)
    PROVE  Keeps
<1>1. PICK s \in States : Mark(s) \/ MarkFails(s)
  BY DEF MarkAllocated, MarkPrepared, MarkWhileStaging, MarkCreatePossible,
         MarkExecutionCreatePossible, MarkExecutionAbsent, MarkContainerAbsent,
         MarkCleanupStarted, States
<1>2. UNCHANGED attempts
  BY DEF MarkAllocated, MarkPrepared, MarkWhileStaging, MarkCreatePossible,
         MarkExecutionCreatePossible, MarkExecutionAbsent, MarkContainerAbsent,
         MarkCleanupStarted
<1>. QED BY <1>1, <1>2, MarkGives DEF Keeps, StagingInv

LEMMA ReserveTakes ==
    ASSUME StagingInv, NEW h \in Hosts, Reserve(h) \/ (Crash(h) /\ pc[h] = "reserve")
    PROVE  Keeps \/ Takes
<1>1. record.state = "none" /\ record.attempt = 0
  BY DEF Reserve, StagingInv, Placed, Phase, Apart, Recorded
<1>2. UNCHANGED <<dirs, live, landing>>
  BY DEF Reserve, Crash, engine
<1>3. \/ record' \in {record, NoRecord} /\ UNCHANGED attempts
      \/ record' = Reserved(h) /\ attempts' = attempts + 1
  <2>1. attempts + 1 # 0
    BY DEF StagingInv, Types
  <2>2. Reserved(h) # NoRecord
    BY <2>1 DEF Reserved, NoRecord
  <2>. QED BY <2>2 DEF Reserve, Crash
<1>. QED BY <1>1, <1>2, <1>3 DEF Keeps, Takes, Reserved, NoRecord

LEMMA RemoveRecordFrees ==
    ASSUME StagingInv, NEW h \in Hosts, RemoveRecord(h) PROVE Keeps \/ Frees
<1>1. record.state \in Bare \ {"none"} /\ dirs = {}
  BY DEF RemoveRecord, StagingInv, Placed, Phase, Apart
<1>2. Held = {} /\ record.attempt # 0
  BY <1>1 DEF StagingInv, Recorded, Held, Exists
<1>3. record' \in {record, NoRecord} /\ UNCHANGED <<dirs, live, landing, attempts>>
  BY DEF RemoveRecord, engine
<1>. QED BY <1>2, <1>3 DEF Keeps, Frees, NoRecord

LEMMA StepKinds == ASSUME StagingInv, Next PROVE Keeps \/ Takes \/ Frees
<1> USE DEF Keeps, disk
<1>1. ASSUME NEW h \in Hosts, Recover(h) \/ StageRefused(h) \/ Acquire(h) \/ MakeDirectory(h)
      PROVE Keeps
  BY <1>1 DEF Recover, StageRefused, Acquire, MakeDirectory
<1>2. ASSUME NEW h \in Hosts,
             \/ Probe(h) \/ StagedCopyChanged(h) \/ Create(h) \/ ExecutionNotCreated(h)
             \/ Created(h) \/ CreateUnknown(h) \/ UseVolume(h) \/ UsePrep(h) \/ RunCommand(h)
      PROVE Keeps
  BY <1>2 DEF Probe, StagedCopyChanged, Create, ExecutionNotCreated, Created, CreateUnknown,
     UseVolume, UsePrep, RunCommand
<1>3. ASSUME NEW h \in Hosts,
             \/ Sight(h) \/ Remove(h) \/ CheckRemoved(h) \/ ObserveOutput(h)
             \/ RemoveDirectory(h) \/ GiveUp(h) \/ ChangeRoots(h)
      PROVE Keeps
  BY <1>3 DEF Sight, Remove, CheckRemoved, ObserveOutput, RemoveDirectory, GiveUp, ChangeRoots
<1>4. ASSUME NEW h \in Hosts, Crash(h), pc[h] # "reserve" PROVE Keeps
  BY <1>4 DEF Crash
<1>5. ASSUME Land \/ Drop PROVE Keeps
  BY <1>5 DEF Land, Drop
<1>. QED
  BY <1>1, <1>2, <1>3, <1>4, <1>5, MarkKeeps, ReserveTakes, RemoveRecordFrees DEF Next, Session

LEMMA ObligationStep ==
    ASSUME StagingInv, StagingInv', [Next]_vars
    PROVE  [Obligation!Next]_(Obligation!obligation)
<1> USE DEF Obligation!Next, Obligation!obligation
<1>1. CASE UNCHANGED vars
  BY <1>1 DEF vars, disk, engine, Held
<1>2. CASE Keeps
  <2>1. CASE record.attempt = 0
    <3>1. Held = {} /\ Held' = {}
      BY <1>2, <2>1, Owned, OwnedAfter DEF AllRecorded, Keeps
    <3>. QED BY <1>2, <3>1 DEF Keeps
  <2>2. CASE record.attempt # 0
    BY <1>2, <2>2, OwnedAfter DEF AllRecorded, Keeps, Obligation!Change
  <2>. QED BY <2>1, <2>2
<1>3. CASE Takes
  <2>1. Held = {} /\ Held' = Held
    BY <1>3, Owned DEF AllRecorded, Takes, Held
  <2>. QED BY <1>3, <2>1 DEF Takes, Obligation!Take
<1>4. CASE Frees
  <2>1. Held = {} /\ Held' = Held
    BY <1>4 DEF Frees, Held
  <2>. QED BY <1>4, <2>1 DEF Frees, Obligation!Release
<1>. QED BY <1>1, <1>2, <1>3, <1>4, StepKinds

LEMMA ObligationInit == Init => Obligation!Init
  BY DEF Init, Obligation!Init, NoRecord, Held

(* The staging journal implements the obligation, for any number of        *)
(* sessions, roots and attempts: whatever fails and whoever recovers, no   *)
(* container, volume, directory or late create outlives the record of its  *)
(* attempt, and no second attempt starts before the first is cleaned up.   *)
(* Code: recover_staging_authority and require_empty_staging_authority     *)
(* around the life of an attempt.                                          *)
THEOREM JournalKeepsObligation == Spec => ImplementsObligation
<1>1. Spec => Init /\ [][Next]_vars /\ []StagingInv
  BY StagingInvariance, PTL DEF Spec
<1>2. StagingInv /\ StagingInv' /\ [Next]_vars => [Obligation!Next]_(Obligation!obligation)
  BY ObligationStep
<1>. QED
  BY <1>1, <1>2, ObligationInit, PTL DEF ImplementsObligation, Obligation!Spec

=============================================================================
