----------------------- MODULE RootedTransactionProofs ----------------------
(***************************************************************************)
(* For every batch of creates, replaces and deletes, and every set of      *)
(* editor versions: if each mutation during which nobody writes in place   *)
(* keeps its contract, and of the others nothing is known, the result of   *)
(* the batch is truthful and its residue is explained.                     *)
(***************************************************************************)
EXTENDS RootedTransaction, TLAPS

Clean(i) == strays[i] = {}

Shape ==
    /\ content \in [File -> Contents]
    /\ strays \in [File -> SUBSET Contents]
    /\ cursor \in Nat
    /\ committed \subseteq File /\ undo \subseteq File /\ paths \subseteq File
    /\ unused \subseteq Foreign
    /\ dirty \subseteq harmed /\ harmed \subseteq File

\* Where the loops are.
Phase ==
    /\ pc \in {"preflight", "mutate", "undo", "scan", "done"}
    /\ pc # "done" => status = "none"
    /\ pc \in {"preflight", "mutate", "scan"} => cursor \in File
    /\ pc \in {"preflight", "mutate", "undo"} => paths = {}
    /\ pc = "preflight" => committed = {}

\* Going forward, a file that no editor has written holds the image the loop
\* believes it holds, and something was left only beside a file that was
\* written in place while it was being mutated.
Forward ==
    /\ pc \in {"preflight", "mutate"} =>
           \A i \in File : Clean(i) \/ i \in committed \cap dirty
    /\ pc = "preflight" => \A i \in File : content[i] \in {Before(i)} \cup Foreign
    /\ pc = "preflight" =>
           \A i \in 1..(cursor - 1) : i \notin dirty => content[i] = Before(i)
    /\ pc = "mutate" =>
           /\ committed = 1..(cursor - 1)
           /\ \A i \in File \ dirty :
                  content[i] = IF i \in committed THEN After(i) ELSE Before(i)

\* Going back, every unharmed file is back, or still to be visited.
Backward ==
    /\ pc = "undo" =>
           \A i \in File \ harmed :
               /\ content[i] \in {Before(i), After(i)}
               /\ i \notin undo => content[i] = Before(i)
    /\ pc = "scan" => \A i \in File \ harmed : content[i] = Before(i)
    /\ pc = "scan" =>
           \A i \in 1..(cursor - 1) : i \notin dirty \cup paths => content[i] = Before(i)

Inv == Shape /\ Phase /\ Forward /\ Backward /\ TruthfulResult /\ ResidueExplained

-----------------------------------------------------------------------------
LEMMA Images ==
  \A i \in File : /\ Before(i) \in Contents \ Foreign /\ After(i) \in Contents \ Foreign
                  /\ Before(i) # After(i)
BY BatchAssumption DEF Before, After, Contents

LEMMA InitInv == Init => Inv
BY BatchAssumption, Images
DEF Init, Inv, Shape, Phase, Forward, Backward, TruthfulResult, ResidueExplained,
    Clean, File

\* A mutation that succeeds while nobody writes its file in place.
Undisturbed(race, result) == result = "committed" /\ race \cap InPlace = {}

\* What a mutation leaves at the path and beside it.
Effect(i, from, to, race, result, target, stray) ==
    /\ content' = [content EXCEPT ![i] = target]
    /\ strays' = [strays EXCEPT ![i] = @ \cup ({stray} \ {"absent"})]
    /\ unused' = unused \ race
    /\ target \in Contents /\ stray \in Contents
    /\ Undisturbed(race, result) => target = to /\ stray = "absent" /\ Saw(i)
    /\ ~ Undisturbed(race, result) =>
          /\ harmed' = harmed \cup {i}
          /\ dirty' \in {dirty, dirty \cup {i}}
    /\ race \cap InPlace # {} => dirty' = dirty \cup {i}

LEMMA MutationEffect ==
  ASSUME Shape, NEW i \in File, NEW from \in Contents, NEW to \in Contents,
         NEW race \in Races, NEW result, NEW changed \in BOOLEAN,
         MutateRooted(i, from, to, race, result, changed)
  PROVE  \E target, stray : Effect(i, from, to, race, result, target, stray)
<1>1. race \subseteq Foreign
  BY DEF Races, Shape
<1>2. content[i] \in Contents
  BY DEF Shape
<1>3. PICK target \in {from, to, content[i], "absent", "partial"} \cup race,
           stray \in {from, to, content[i], "absent", "partial"} \cup race :
        /\ \/ race \cap InPlace # {}
           \/ Contract!Holds(
                [from |-> from, to |-> to, status |-> result, changed |-> changed,
                 target |-> target, stray |-> stray, seen |-> race,
                 world |-> IF race = {} THEN content[i] ELSE CHOOSE f \in race : TRUE])
        /\ content' = [content EXCEPT ![i] = target]
        /\ strays' = [strays EXCEPT ![i] = @ \cup ({stray} \ {"absent"})]
        /\ unused' = unused \ race
        /\ IF result = "committed" /\ race \cap InPlace = {}
              THEN Saw(i)
              ELSE /\ harmed' = harmed \cup {i}
                   /\ dirty' = IF race = {} THEN dirty ELSE dirty \cup {i}
  BY DEF MutateRooted
<1>4. target \in Contents /\ stray \in Contents
  BY <1>1, <1>2, <1>3 DEF Contents
<1>5. Undisturbed(race, result) => target = to /\ stray = "absent"
  BY <1>3 DEF Undisturbed, Contract!Holds, Contract!Committed
<1>6. race \cap InPlace # {} => race # {}
  OBVIOUS
<1>. QED BY <1>3, <1>4, <1>5, <1>6 DEF Effect, Undisturbed

\* A mutation keeps the shapes, and touches one file.
LEMMA EffectShape ==
  ASSUME Shape, NEW i \in File, NEW from, NEW to, NEW race \in Races, NEW result,
         NEW target, NEW stray, Effect(i, from, to, race, result, target, stray)
  PROVE  /\ content' \in [File -> Contents]
         /\ strays' \in [File -> SUBSET Contents]
         /\ unused' \subseteq Foreign
         /\ dirty' \subseteq harmed' /\ harmed' \subseteq File
         /\ harmed \subseteq harmed'
         /\ \A k \in File : k # i => /\ content'[k] = content[k] /\ strays'[k] = strays[k]
                                     /\ k \in dirty' <=> k \in dirty
                                     /\ k \in harmed' <=> k \in harmed
         /\ content'[i] = target
         /\ Undisturbed(race, result) => content'[i] = to /\ strays'[i] = strays[i]
                                         /\ i \notin dirty' /\ harmed' = harmed
         /\ ~ Undisturbed(race, result) => i \in harmed'
         /\ race \cap InPlace # {} => i \in dirty'
<1>1. /\ content' \in [File -> Contents]
      /\ \A k \in File : k # i => content'[k] = content[k]
      /\ content'[i] = target
  BY DEF Effect, Shape
<1>2. /\ strays' \in [File -> SUBSET Contents]
      /\ \A k \in File : k # i => strays'[k] = strays[k]
  BY DEF Effect, Shape
<1>3. Undisturbed(race, result) => strays'[i] = strays[i]
  BY DEF Effect, Shape
<1>. QED BY <1>1, <1>2, <1>3 DEF Effect, Shape, Saw

-----------------------------------------------------------------------------
LEMMA PreflightStep == Inv /\ Preflight => Inv'
<1> SUFFICES ASSUME Inv, Preflight PROVE Inv'
  OBVIOUS
<1>1. /\ pc = "preflight" /\ status = "none" /\ cursor \in 1..N /\ paths = {}
      /\ committed = {}
      /\ UNCHANGED <<content, strays, committed, undo, paths, unused>>
  BY DEF Preflight, Inv, Phase, File
<1>2. dirty' \subseteq harmed' /\ harmed' \subseteq File /\ harmed \subseteq harmed'
  BY <1>1 DEF Preflight, Saw, Failed, Inv, Shape, File
<1>3. CASE pc' = "done"
  <2>1. status' = "stale" /\ cursor' = cursor
    BY <1>1, <1>3 DEF Preflight, Return
  <2>2. Shape' /\ Phase' /\ Forward' /\ Backward'
    BY <1>1, <1>2, <1>3, <2>1 DEF Inv, Shape, Phase, Forward, Backward
  <2>3. TruthfulResult'
    BY <1>1, <2>1 DEF Inv, Forward, TruthfulResult, Clean
  <2>4. ResidueExplained'
    BY <1>1, <1>2 DEF Inv, ResidueExplained
  <2>. QED BY <2>2, <2>3, <2>4 DEF Inv
<1>4. CASE pc' # "done"
  <2>1. /\ content[cursor] = Before(cursor) /\ dirty' = dirty \ {cursor}
        /\ status' = "none"
        /\ IF cursor = N THEN cursor' = 1 /\ pc' = "mutate"
                         ELSE cursor' = cursor + 1 /\ pc' = "preflight"
    BY <1>1, <1>4 DEF Preflight, Return, Saw
  <2>2. cursor' \in 1..N /\ pc' \in {"preflight", "mutate"}
    BY <1>1, <2>1, BatchAssumption
  <2>3. Shape'
    BY <1>1, <1>2, <2>2 DEF Inv, Shape
  <2>4. Phase'
    BY <1>1, <2>1, <2>2 DEF Inv, Phase, File
  <2>5. \A i \in 1..cursor : i \notin dirty' => content[i] = Before(i)
    BY <1>1, <2>1 DEF Inv, Forward
  <2>6. Forward'
    <3>1. CASE cursor = N
      <4>1. pc' = "mutate" /\ cursor' = 1
        BY <2>1, <3>1
      <4>2. committed' = 1..(cursor' - 1)
        BY <1>1, <4>1
      <4>3. \A i \in File \ dirty' : content'[i] = Before(i)
        BY <1>1, <2>5, <3>1 DEF File
      <4>4. \A i \in File : strays'[i] = {}
        BY <1>1 DEF Inv, Forward, Clean
      <4>. QED BY <1>1, <4>1, <4>2, <4>3, <4>4 DEF Forward, Clean
    <3>2. CASE cursor # N
      BY <1>1, <2>1, <2>5, <3>2 DEF Inv, Forward, Clean
    <3>. QED BY <3>1, <3>2
  <2>7. Backward' /\ TruthfulResult'
    BY <2>1, <2>2 DEF Backward, TruthfulResult
  <2>8. ResidueExplained'
    BY <1>1, <1>2 DEF Inv, ResidueExplained
  <2>. QED BY <2>3, <2>4, <2>6, <2>7, <2>8 DEF Inv
<1>. QED BY <1>3, <1>4

\* One change carried out, or the batch turned round.
LEMMA MutateStep == Inv /\ Mutate => Inv'
<1> SUFFICES ASSUME Inv, Mutate PROVE Inv'
  OBVIOUS
<1>1. /\ pc = "mutate" /\ status = "none" /\ cursor \in File /\ paths = {}
      /\ cursor \in 1..N
  BY DEF Mutate, Inv, Phase, File
<1>2. PICK race \in Races, changed \in BOOLEAN, result \in {"committed", "refused", "interrupted"} :
        /\ MutateRooted(cursor, Before(cursor), After(cursor), race, result, changed)
        /\ \/ /\ result = "committed"
              /\ Commit
              /\ cursor' = cursor + 1
              /\ IF cursor = N THEN Return("committed") ELSE UNCHANGED <<pc, status>>
              /\ UNCHANGED <<undo, paths>>
           \/ result # "committed" /\ (Compensate({cursor}) \/ Compensate({}))
  BY DEF Mutate
<1>3. PICK target, stray :
          Effect(cursor, Before(cursor), After(cursor), race, result, target, stray)
  BY <1>1, <1>2, Images, MutationEffect DEF Inv
<1>4. /\ content' \in [File -> Contents]
      /\ strays' \in [File -> SUBSET Contents]
      /\ unused' \subseteq Foreign
      /\ dirty' \subseteq harmed' /\ harmed' \subseteq File
      /\ harmed \subseteq harmed'
      /\ \A k \in File : k # cursor => /\ content'[k] = content[k] /\ strays'[k] = strays[k]
                                       /\ k \in dirty' <=> k \in dirty
                                       /\ k \in harmed' <=> k \in harmed
      /\ Undisturbed(race, result) =>
            content'[cursor] = After(cursor) /\ strays'[cursor] = strays[cursor]
      /\ ~ Undisturbed(race, result) => cursor \in harmed'
      /\ result = "committed" => Undisturbed(race, result) \/ cursor \in dirty'
  <2>1. Shape
    BY DEF Inv
  <2>2. result = "committed" /\ ~ Undisturbed(race, result) => race \cap InPlace # {}
    BY DEF Undisturbed
  <2>. QED BY <1>1, <1>3, <2>1, <2>2, EffectShape
<1>5. /\ \A i \in File : strays[i] = {} \/ i \in committed \cap dirty
      /\ committed = 1..(cursor - 1)
      /\ \A i \in File \ dirty : content[i] = IF i \in committed THEN After(i) ELSE Before(i)
  BY <1>1 DEF Inv, Forward, Clean
<1>6. CASE result = "committed"
  <2>1. /\ committed' = committed \cup {cursor} /\ cursor' = cursor + 1
        /\ UNCHANGED <<undo, paths>>
        /\ IF cursor = N THEN pc' = "done" /\ status' = "committed"
                         ELSE pc' = "mutate" /\ status' = "none"
    BY <1>1, <1>2, <1>6 DEF Commit, Return
  <2>2. Shape'
    BY <1>1, <1>4, <2>1 DEF Inv, Shape, File
  <2>3. Phase'
    BY <1>1, <2>1, BatchAssumption DEF Inv, Phase, File
  <2>4. committed' = 1..(cursor' - 1)
    BY <1>1, <1>5, <2>1
  <2>5. /\ \A i \in File : strays'[i] = {} \/ i \in committed' \cap dirty'
        /\ \A i \in File \ dirty' : content'[i] = IF i \in committed' THEN After(i) ELSE Before(i)
    <3>1. cursor \notin committed
      BY <1>1, <1>5
    <3>2. /\ cursor \notin dirty' => content'[cursor] = After(cursor)
          /\ strays'[cursor] = {} \/ cursor \in dirty'
      BY <1>1, <1>4, <1>5, <1>6, <3>1
    <3>3. \A i \in File : i # cursor =>
              /\ strays'[i] = {} \/ i \in committed' \cap dirty'
              /\ i \notin dirty' =>
                     content'[i] = IF i \in committed' THEN After(i) ELSE Before(i)
      BY <1>4, <1>5, <2>1
    <3>4. cursor \in committed'
      BY <2>1
    <3>. QED BY <3>2, <3>3, <3>4
  <2>6. Forward' /\ Backward'
    BY <2>1, <2>4, <2>5 DEF Forward, Backward, Clean
  <2>7. TruthfulResult'
    <3>1. CASE cursor = N
      BY <1>1, <2>1, <2>4, <2>5, <3>1 DEF TruthfulResult, File
    <3>2. CASE cursor # N
      BY <2>1, <3>2 DEF TruthfulResult
    <3>. QED BY <3>1, <3>2
  <2>8. ResidueExplained'
    BY <1>1, <1>4, <2>1, <2>5 DEF ResidueExplained
  <2>. QED BY <2>2, <2>3, <2>6, <2>7, <2>8 DEF Inv
<1>7. CASE result # "committed"
  <2>1. /\ pc' = "undo" /\ committed \subseteq undo' /\ undo' \subseteq committed \cup {cursor}
        /\ UNCHANGED <<cursor, committed, paths, status>>
        /\ cursor \in harmed'
    BY <1>2, <1>4, <1>7 DEF Compensate, Undisturbed
  <2>2. Shape'
    BY <1>1, <1>4, <2>1 DEF Inv, Shape
  <2>3. Phase' /\ Forward' /\ TruthfulResult'
    BY <1>1, <2>1 DEF Inv, Phase, Forward, TruthfulResult
  <2>4. \A i \in File \ harmed' : /\ content'[i] = content[i] /\ i \notin dirty /\ i # cursor
                                  /\ strays'[i] = {}
    <3>1. ASSUME NEW i \in File \ harmed'
          PROVE  i \notin dirty /\ i # cursor
      BY <1>4, <2>1, <3>1 DEF Inv, Shape
    <3>. QED BY <1>4, <1>5, <3>1
  <2>5. Backward'
    BY <1>5, <2>1, <2>4 DEF Backward
  <2>6. ResidueExplained'
    BY <1>1, <2>1, <2>4 DEF ResidueExplained
  <2>. QED BY <2>2, <2>3, <2>5, <2>6 DEF Inv
<1>. QED BY <1>6, <1>7

\* One change visited: unless something went wrong with it, it is back.
Back(j) ==
    /\ content' \in [File -> Contents]
    /\ strays' \in [File -> SUBSET Contents]
    /\ unused' \subseteq Foreign
    /\ dirty' \subseteq harmed' /\ harmed' \subseteq File
    /\ \A i \in File \ harmed' :
          /\ i \in File \ harmed /\ strays'[i] = {}
          /\ i # j => content'[i] = content[i]
          /\ i = j => content'[i] = Before(i)

LEMMA UndoStep == ASSUME Inv, NEW j \in File, Undo(j) PROVE Inv'
<1>1. /\ pc = "undo" /\ j \in undo /\ undo' = undo \ {j} /\ paths = {} /\ status = "none"
      /\ UNCHANGED <<pc, cursor, committed, paths, status>>
  BY DEF Undo, Inv, Phase
<1>2. /\ \A i \in File \ harmed : /\ content[i] \in {Before(i), After(i)}
                                  /\ i \notin undo => content[i] = Before(i)
                                  /\ strays[i] = {}
  BY <1>1 DEF Inv, Backward, ResidueExplained
<1>3. Back(j)
  <2>1. CASE content[j] # After(j) /\ Saw(j) /\ UNCHANGED <<content, strays, unused>>
    BY <1>2, <2>1 DEF Saw, Inv, Shape, Back
  <2>2. CASE Failed(j) /\ UNCHANGED <<content, strays, unused>>
    BY <1>2, <2>2 DEF Failed, Inv, Shape, Back
  <2>3. ASSUME NEW race \in Races, NEW changed \in BOOLEAN,
               NEW result \in {"committed", "refused"},
               MutateRooted(j, After(j), Before(j), race, result, changed)
        PROVE  Back(j)
    <3>1. PICK target, stray :
              Effect(j, After(j), Before(j), race, result, target, stray)
      BY <2>3, Images, MutationEffect DEF Inv
    <3>2. Shape
      BY DEF Inv
    <3>3. /\ content' \in [File -> Contents]
          /\ strays' \in [File -> SUBSET Contents]
          /\ unused' \subseteq Foreign
          /\ dirty' \subseteq harmed' /\ harmed' \subseteq File
          /\ harmed \subseteq harmed'
          /\ \A k \in File : k # j => /\ content'[k] = content[k] /\ strays'[k] = strays[k]
                                      /\ k \in dirty' <=> k \in dirty
                                      /\ k \in harmed' <=> k \in harmed
          /\ Undisturbed(race, result) => content'[j] = Before(j) /\ strays'[j] = strays[j]
                                          /\ harmed' = harmed
          /\ ~ Undisturbed(race, result) => j \in harmed'
      BY <3>1, <3>2, EffectShape
    <3>. QED BY <1>2, <3>3 DEF Back
  <2>. QED BY <2>1, <2>2, <2>3 DEF Undo
<1>4. Shape'
  BY <1>1, <1>3 DEF Inv, Shape, Back
<1>5. Phase' /\ Forward' /\ TruthfulResult'
  BY <1>1 DEF Inv, Phase, Forward, TruthfulResult
<1>6. Backward'
  BY <1>1, <1>2, <1>3 DEF Backward, Back
<1>7. ResidueExplained'
  BY <1>1, <1>3 DEF ResidueExplained, Back
<1>. QED BY <1>4, <1>5, <1>6, <1>7 DEF Inv

LEMMA StartScanStep == Inv /\ StartScan => Inv'
<1> SUFFICES ASSUME Inv, StartScan PROVE Inv'
  OBVIOUS
<1>1. /\ pc = "undo" /\ undo = {} /\ pc' = "scan" /\ cursor' = 1 /\ paths = {}
      /\ status = "none"
      /\ UNCHANGED <<content, strays, committed, undo, paths, status, unused, dirty, harmed>>
  BY DEF StartScan, Inv, Phase
<1>2. 1 \in File /\ 1..(cursor' - 1) = {}
  BY <1>1, BatchAssumption DEF File
<1>3. Shape' /\ Phase' /\ Forward'
  BY <1>1, <1>2 DEF Inv, Shape, Phase, Forward
<1>4. Backward'
  BY <1>1, <1>2 DEF Inv, Backward
<1>5. TruthfulResult' /\ ResidueExplained'
  BY <1>1 DEF Inv, TruthfulResult, ResidueExplained
<1>. QED BY <1>3, <1>4, <1>5 DEF Inv

LEMMA ScanStep == Inv /\ Scan => Inv'
<1> SUFFICES ASSUME Inv, Scan PROVE Inv'
  OBVIOUS
<1>1. /\ pc = "scan" /\ status = "none" /\ cursor \in 1..N
      /\ cursor' = cursor + 1
      /\ UNCHANGED <<content, strays, committed, undo, unused>>
  BY DEF Scan, Inv, Phase, File
<1>2. /\ paths \subseteq harmed /\ paths \subseteq File
      /\ \A i \in File \ harmed : content[i] = Before(i)
      /\ \A i \in 1..(cursor - 1) : i \notin dirty \cup paths => content[i] = Before(i)
  BY <1>1 DEF Inv, Shape, Backward, ResidueExplained
<1>3. /\ paths \subseteq paths' /\ paths' \subseteq File
      /\ paths' \subseteq harmed'
      /\ dirty' \subseteq dirty /\ harmed \subseteq harmed'
      /\ harmed' \subseteq File /\ dirty' \subseteq harmed'
  BY <1>1, <1>2 DEF Scan, Saw, Failed, Inv, Shape, File
<1>4. \A i \in 1..cursor : i \notin dirty' \cup paths' => content[i] = Before(i)
  <2>1. content[cursor] = Before(cursor) \/ cursor \in paths'
    BY DEF Scan
  <2>2. dirty' = dirty \/ dirty' = dirty \ {cursor}
    BY DEF Scan, Saw, Failed
  <2>. QED BY <1>1, <1>2, <1>3, <2>1, <2>2
<1>5. IF cursor = N
         THEN /\ pc' = "done"
              /\ status' = IF paths' = {} THEN "rolled_back" ELSE "rollback_failed"
         ELSE pc' = "scan" /\ status' = "none"
  BY <1>1 DEF Scan, Return
<1>6. Shape'
  BY <1>1, <1>3 DEF Inv, Shape
<1>7. Phase' /\ Forward'
  BY <1>1, <1>5, BatchAssumption DEF Phase, Forward, File
<1>8. Backward'
  BY <1>1, <1>2, <1>3, <1>4, <1>5 DEF Backward
<1>9. TruthfulResult'
  <2>1. CASE cursor = N
    BY <1>1, <1>4, <1>5, <2>1 DEF TruthfulResult, File
  <2>2. CASE cursor # N
    BY <1>5, <2>2 DEF TruthfulResult
  <2>. QED BY <2>1, <2>2
<1>10. ResidueExplained'
  BY <1>1, <1>3 DEF Inv, ResidueExplained
<1>. QED BY <1>6, <1>7, <1>8, <1>9, <1>10 DEF Inv

LEMMA AbandonStep == Inv /\ Abandon => Inv'
BY DEF Abandon, Return, Inv, Shape, Phase, Forward, Backward, TruthfulResult,
       ResidueExplained

LEMMA EditStep ==
  ASSUME Inv, NEW i \in File, NEW f \in Foreign, Edit(i, f)
  PROVE  Inv'
<1>1. /\ pc # "done" /\ status = "none"
      /\ content' = [content EXCEPT ![i] = f]
      /\ dirty' = dirty \cup {i} /\ harmed' = harmed \cup {i}
      /\ unused' \subseteq unused
      /\ UNCHANGED <<strays, pc, cursor, committed, undo, paths, status>>
  BY DEF Edit, Inv, Phase
<1>2. content' \in [File -> Contents]
  BY <1>1 DEF Inv, Shape, Contents
<1>3. Shape'
  BY <1>1, <1>2 DEF Inv, Shape
<1>4. Phase' /\ TruthfulResult' /\ ResidueExplained'
  BY <1>1 DEF Inv, Phase, TruthfulResult, ResidueExplained
<1>5. \A k \in File : content'[k] = IF k = i THEN f ELSE content[k]
  BY <1>1 DEF Inv, Shape
<1>6. \A k \in File : k \notin dirty' => k \notin dirty /\ content'[k] = content[k]
  BY <1>1, <1>5
<1>7. pc # "undo" => cursor \in File
  BY <1>1 DEF Inv, Phase
<1>8. Forward'
  <2>1. pc = "preflight" => \A k \in File : content'[k] \in {Before(k)} \cup Foreign
    BY <1>1, <1>5 DEF Inv, Forward
  <2>2. pc = "preflight" =>
            \A k \in 1..(cursor - 1) : k \notin dirty' => content'[k] = Before(k)
    BY <1>6, <1>7, BatchAssumption DEF Inv, Forward, File
  <2>3. pc = "mutate" =>
            \A k \in File \ dirty' :
                content'[k] = IF k \in committed THEN After(k) ELSE Before(k)
    BY <1>6 DEF Inv, Forward
  <2>. QED BY <1>1, <2>1, <2>2, <2>3 DEF Inv, Forward, Clean
<1>9. Backward'
  <2>1. \A k \in File \ harmed' : k \notin harmed /\ content'[k] = content[k]
    BY <1>1, <1>5
  <2>2. pc = "scan" =>
            \A k \in 1..(cursor - 1) : k \notin dirty' \cup paths => content'[k] = Before(k)
    BY <1>6, <1>7, BatchAssumption DEF Inv, Backward, File
  <2>. QED BY <1>1, <2>1, <2>2 DEF Inv, Backward
<1>. QED BY <1>3, <1>4, <1>8, <1>9 DEF Inv

LEMMA StepInv == Inv /\ [Next]_vars => Inv'
<1> SUFFICES ASSUME Inv, [Next]_vars PROVE Inv'
  OBVIOUS
<1>1. CASE UNCHANGED vars
  BY <1>1 DEF vars, Inv, Shape, Phase, Forward, Backward, Clean, TruthfulResult,
              ResidueExplained
<1>2. CASE Batch
  BY <1>2, PreflightStep, MutateStep, UndoStep, StartScanStep, ScanStep, AbandonStep
  DEF Batch
<1>3. CASE Editors
  BY <1>3, EditStep DEF Editors
<1>. QED BY <1>1, <1>2, <1>3 DEF Next, Done

LEMMA InvAlways == Spec => []Inv
<1>. QED BY InitInv, StepInv, PTL DEF Spec

-----------------------------------------------------------------------------
\* The TextTransactionResult tells the truth about every file that no editor
\* has touched since the batch last read it.
THEOREM ResultIsTruthful == Spec => []TruthfulResult
<1>1. Inv => TruthfulResult
  BY DEF Inv
<1>. QED BY <1>1, InvAlways, PTL

\* Only files that an editor wrote or a call failed on are reported changed or
\* have a private entry left beside them.
THEOREM ResidueIsExplained == Spec => []ResidueExplained
<1>1. Inv => ResidueExplained
  BY DEF Inv
<1>. QED BY <1>1, InvAlways, PTL
=============================================================================
