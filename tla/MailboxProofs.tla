--------------------------- MODULE MailboxProofs ---------------------------
(***************************************************************************)
(* What the TUI mailbox promises, and what it means for the transcript.    *)
(*                                                                         *)
(* TuiMailbox: for every capacity, every size of a merged delta and every  *)
(* number of messages it is a lossy channel, the text of a merged item has *)
(* no gap, and a final event is in the mailbox when put has returned.      *)
(*                                                                         *)
(* TuiTranscript: the same channel connects the Runtime to the projector,  *)
(* and every text on the screen is a beginning of its message or the words *)
(* put in its place.  What is still to be read decides that, so the        *)
(* invariant is about the view now and about each view that the queue will *)
(* make of it.                                                             *)
(*                                                                         *)
(* FlattenSeq, Among and Applied over a queue are functions defined by     *)
(* recursion.  What they compute is proved by induction on their index,    *)
(* for one function at a time, from the least element of the places where  *)
(* the claim would fail (LeastElement, Induction).                         *)
(***************************************************************************)
EXTENDS TuiTranscript, WellFoundedInduction, SequenceTheorems, TLAPS

-----------------------------------------------------------------------------
(* Induction on the length of a sequence, of a set instead of a predicate. *)

LEMMA LeastElement ==
    ASSUME NEW S \in SUBSET Nat, S # {}
    PROVE  \E m \in S : \A k \in S : m <= k
<1>. DEFINE R == OpToRel(<, Nat)
<1>1. IsWellFoundedOn(R, Nat)
  BY NatLessThanWellFounded
<1>2. \A x, y \in Nat : x < y => <<x, y>> \in R
  BY DEF OpToRel
<1>. HIDE DEF R
<1>3. \E x \in S : \A y \in S : ~ (<<y, x>> \in R)
  BY <1>1, WFMin
<1>4. PICK x \in S : \A y \in S : ~ (<<y, x>> \in R)
  BY <1>3
<1>5. \A y \in S : ~ (y < x)
  BY <1>2, <1>4
<1>. QED
  BY <1>5

LEMMA Induction ==
    ASSUME NEW n \in Nat, NEW G, 0 \in G,
           \A k \in 0..(n - 1) : k \in G => k + 1 \in G
    PROVE  \A k \in 0..n : k \in G
<1>. DEFINE Bad == {k \in 0..n : k \notin G}
<1>1. SUFFICES ASSUME Bad # {} PROVE FALSE
  OBVIOUS
<1>2. Bad \in SUBSET Nat
  OBVIOUS
<1>7. PICK m \in Bad : \A k \in Bad : m <= k
  <2>. HIDE DEF Bad
  <2>. QED
    BY <1>1, <1>2, LeastElement
<1>3. m # 0 /\ m \in 0..n /\ m \notin G
  OBVIOUS
<1>4. m - 1 \in 0..(n - 1) /\ m - 1 \notin Bad
  BY <1>7, <1>3
<1>5. m - 1 \in G
  BY <1>3, <1>4
<1>6. (m - 1) + 1 = m
  BY <1>3
<1>. QED
  BY <1>3, <1>4, <1>5, <1>6

-----------------------------------------------------------------------------
(* FlattenSeq: the concatenation of a sequence of sequences. *)

Flattens(g, ss) == g = [i \in 1..Len(ss) |-> IF i = 1 THEN ss[i] ELSE g[i - 1] \o ss[i]]

LEMMA FlattenExists ==
    ASSUME NEW S, NEW ss \in Seq(Seq(S))
    PROVE  \E g : Flattens(g, ss)
<1>. DEFINE Upto(n, g) == g = [i \in 1..n |-> IF i = 1 THEN ss[i] ELSE g[i - 1] \o ss[i]]
            G == {n \in 0..Len(ss) : \E g : Upto(n, g)}
<1>1. 0 \in G
  <2>1. Upto(0, [i \in 1..0 |-> IF i = 1 THEN ss[i] ELSE 0])
    OBVIOUS
  <2>2. 0 \in 0..Len(ss)
    OBVIOUS
  <2>. HIDE DEF Upto
  <2>. QED
    BY <2>1, <2>2
<1>2. ASSUME NEW n \in 0..(Len(ss) - 1), n \in G PROVE n + 1 \in G
  <2>1. PICK g : Upto(n, g)
    BY <1>2
  <2>. DEFINE h == [i \in 1..(n + 1) |-> IF i = n + 1
                                         THEN (IF i = 1 THEN ss[i] ELSE g[i - 1] \o ss[i])
                                         ELSE g[i]]
  <2>2. ASSUME NEW i \in 1..(n + 1)
        PROVE  h[i] = IF i = 1 THEN ss[i] ELSE h[i - 1] \o ss[i]
    <3>1. CASE i = n + 1
      <4>1. i # 1 => i - 1 \in 1..(n + 1) /\ i - 1 # n + 1
        BY <3>1
      <4>2. i # 1 => h[i - 1] = g[i - 1]
        BY <4>1
      <4>. QED
        BY <3>1, <4>2
    <3>2. CASE i # n + 1
      <4>1. i \in 1..n /\ h[i] = g[i]
        BY <3>2
      <4>2. i # 1 => i - 1 \in 1..(n + 1) /\ i - 1 # n + 1
        BY <3>2
      <4>3. i # 1 => h[i - 1] = g[i - 1]
        BY <4>2
      <4>4. g[i] = IF i = 1 THEN ss[i] ELSE g[i - 1] \o ss[i]
        BY <2>1, <4>1
      <4>. QED
        BY <4>1, <4>3, <4>4
    <3>. QED
      BY <3>1, <3>2
  <2>3. Upto(n + 1, h)
    BY <2>2
  <2>. HIDE DEF h, Upto
  <2>. QED
    BY <2>3
<1>. HIDE DEF G
<1>3. Len(ss) \in Nat
  OBVIOUS
<1>4. \A n \in 0..Len(ss) : n \in G
  BY <1>1, <1>2, <1>3, Induction
<1>5. Len(ss) \in G
  BY <1>3, <1>4
<1>. QED
  BY <1>5 DEF G, Flattens

LEMMA FlattenEquations ==
    ASSUME NEW S, NEW ss \in Seq(Seq(S)), ss # <<>>
    PROVE  \E g : /\ \A i \in 1..Len(ss) :
                        g[i] = IF i = 1 THEN ss[i] ELSE g[i - 1] \o ss[i]
                  /\ \A i \in 1..Len(ss) : g[i] \in Seq(S)
                  /\ FlattenSeq(ss) = g[Len(ss)]
<1>1. Len(ss) \in Nat /\ Len(ss) # 0
  OBVIOUS
<1>2. \E g : g = [i \in 1..Len(ss) |-> IF i = 1 THEN ss[i] ELSE g[i - 1] \o ss[i]]
  BY FlattenExists DEF Flattens
<1>3. PICK g : /\ g = [i \in 1..Len(ss) |-> IF i = 1 THEN ss[i] ELSE g[i - 1] \o ss[i]]
               /\ FlattenSeq(ss) = g[Len(ss)]
  BY <1>1, <1>2 DEF FlattenSeq
<1>4. \A i \in 1..Len(ss) : g[i] = IF i = 1 THEN ss[i] ELSE g[i - 1] \o ss[i]
  BY <1>3
<1>. DEFINE G == {0} \cup {n \in 1..Len(ss) : g[n] \in Seq(S)}
<1>5. ASSUME NEW n \in 0..(Len(ss) - 1), n \in G PROVE n + 1 \in G
  <2>1. n + 1 \in 1..Len(ss) /\ ss[n + 1] \in Seq(S)
    BY <1>1
  <2>2. CASE n = 0
    BY <1>4, <2>1, <2>2
  <2>3. CASE n # 0
    <3>1. n \in 1..Len(ss) /\ g[n] \in Seq(S) /\ (n + 1) - 1 = n /\ n + 1 # 1
      BY <1>5, <2>3
    <3>2. g[n + 1] = g[n] \o ss[n + 1]
      BY <1>4, <2>1, <3>1
    <3>3. g[n + 1] \in Seq(S)
      BY <2>1, <3>1, <3>2
    <3>. QED
      BY <2>1, <3>3
  <2>. QED
    BY <2>2, <2>3
<1>6. 0 \in G
  OBVIOUS
<1>. HIDE DEF G
<1>7. \A n \in 0..Len(ss) : n \in G
  BY <1>1, <1>5, <1>6, Induction
<1>8. \A i \in 1..Len(ss) : g[i] \in Seq(S)
  BY <1>1, <1>7 DEF G
<1>. QED
  BY <1>3, <1>4, <1>8

LEMMA FlattenEmpty == FlattenSeq(<<>>) = <<>>
BY DEF FlattenSeq

LEMMA FlattenType ==
    ASSUME NEW S, NEW ss \in Seq(Seq(S))
    PROVE  FlattenSeq(ss) \in Seq(S)
<1>1. CASE ss = <<>>
  <2>1. FlattenSeq(ss) = <<>>
    BY <1>1, FlattenEmpty, Zenon
  <2>2. <<>> \in Seq(S)
    BY EmptySeq
  <2>. QED
    BY <2>1, <2>2, Zenon
<1>2. CASE ss # <<>>
  <2>1. Len(ss) \in 1..Len(ss)
    BY <1>2
  <2>2. PICK g : /\ \A i \in 1..Len(ss) : g[i] \in Seq(S)
                 /\ FlattenSeq(ss) = g[Len(ss)]
    BY <1>2, FlattenEquations
  <2>. QED
    BY <2>1, <2>2
<1>. QED
  BY <1>1, <1>2

LEMMA FlattenAppend ==
    ASSUME NEW S, NEW ss \in Seq(Seq(S)), NEW s \in Seq(S)
    PROVE  FlattenSeq(Append(ss, s)) = FlattenSeq(ss) \o s
<1>. DEFINE tt == Append(ss, s)
            n  == Len(ss)
<1>1. /\ tt \in Seq(Seq(S)) /\ tt # <<>> /\ Len(tt) = n + 1 /\ n \in Nat
      /\ tt[n + 1] = s /\ \A i \in 1..n : tt[i] = ss[i]
  BY AppendProperties, LenProperties
<1>. HIDE DEF tt, n
<1>2. PICK h : /\ \A i \in 1..(n + 1) : h[i] = IF i = 1 THEN tt[i] ELSE h[i - 1] \o tt[i]
               /\ \A i \in 1..(n + 1) : h[i] \in Seq(S)
               /\ FlattenSeq(tt) = h[n + 1]
  <2>1. \E h : /\ \A i \in 1..Len(tt) : h[i] = IF i = 1 THEN tt[i] ELSE h[i - 1] \o tt[i]
               /\ \A i \in 1..Len(tt) : h[i] \in Seq(S)
               /\ FlattenSeq(tt) = h[Len(tt)]
    BY <1>1, FlattenEquations
  <2>. QED
    BY <1>1, <2>1
<1>3. CASE n = 0
  <2>1. ss = <<>>
    BY <1>3 DEF n
  <2>4. 1 \in 1..(n + 1) /\ n + 1 = 1
    BY <1>3
  <2>2. h[1] = s
    BY <1>1, <1>2, <2>4
  <2>3. <<>> \o s = s
    BY ConcatEmptySeq
  <2>. QED
    BY <1>2, <2>1, <2>2, <2>3, <2>4, FlattenEmpty DEF tt
<1>4. CASE n # 0
  <2>1. ss # <<>>
    BY <1>4 DEF n
  <2>2. PICK g : /\ \A i \in 1..n : g[i] = IF i = 1 THEN ss[i] ELSE g[i - 1] \o ss[i]
                 /\ FlattenSeq(ss) = g[n]
    BY <2>1, FlattenEquations DEF n
  <2>. DEFINE G == {0} \cup {i \in 1..n : h[i] = g[i]}
  <2>3. ASSUME NEW k \in 0..(n - 1), k \in G PROVE k + 1 \in G
    <3>1. k + 1 \in 1..n /\ k + 1 \in 1..(n + 1)
      BY <1>1
    <3>2. CASE k = 0
      <4>1. h[1] = tt[1] /\ g[1] = ss[1]
        BY <1>2, <2>2, <3>1, <3>2
      <4>. QED
        BY <1>1, <3>1, <3>2, <4>1
    <3>3. CASE k # 0
      <4>1. h[k] = g[k] /\ (k + 1) - 1 = k /\ k + 1 # 1
        BY <2>3, <3>3
      <4>2. h[k + 1] = h[k] \o tt[k + 1]
        BY <1>2, <3>1, <4>1
      <4>3. g[k + 1] = g[k] \o ss[k + 1]
        BY <2>2, <3>1, <4>1
      <4>. QED
        BY <1>1, <3>1, <4>1, <4>2, <4>3
    <3>. QED
      BY <3>2, <3>3
  <2>4. 0 \in G
    OBVIOUS
  <2>. HIDE DEF G
  <2>5. \A k \in 0..n : k \in G
    BY <1>1, <2>3, <2>4, Induction
  <2>8. n \in G
    BY <1>1, <2>5
  <2>6. h[n] = g[n]
    BY <1>4, <2>8 DEF G
  <2>7. h[n + 1] = h[n] \o s
    <3>1. n + 1 \in 1..(n + 1) /\ n + 1 # 1 /\ (n + 1) - 1 = n
      BY <1>1, <1>4
    <3>. QED
      BY <1>1, <1>2, <3>1
  <2>. QED
    BY <1>2, <2>2, <2>6, <2>7 DEF tt
<1>. QED
  BY <1>3, <1>4

LEMMA FlattenSingle ==
    ASSUME NEW S, NEW s \in Seq(S)
    PROVE  FlattenSeq(<<s>>) = s
<1>1. <<>> \in Seq(Seq(S)) /\ Append(<<>>, s) = <<s>>
  OBVIOUS
<1>2. FlattenSeq(Append(<<>>, s)) = <<>> \o s
  BY <1>1, FlattenAppend, FlattenEmpty
<1>. QED
  BY <1>1, <1>2, ConcatEmptySeq

\* The first k + 1 elements.
LEMMA PrefixStep ==
    ASSUME NEW S, NEW s \in Seq(S), NEW k \in 0..(Len(s) - 1)
    PROVE  /\ SubSeq(s, 1, k) \in Seq(S) /\ s[k + 1] \in S
           /\ SubSeq(s, 1, k + 1) = Append(SubSeq(s, 1, k), s[k + 1])
<1>1. Len(s) \in Nat /\ k \in Nat /\ k + 1 \in 1..Len(s) /\ (k + 1) - 1 = k
  OBVIOUS
<1>2. SubSeq(s, 1, k + 1) = SubSeq(s, 1, k) \o <<s[k + 1]>>
  BY <1>1, SubSeqRecursiveSecond
<1>3. SubSeq(s, 1, k) \in Seq(S) /\ s[k + 1] \in S
  BY <1>1, SubSeqProperties
<1>4. Append(SubSeq(s, 1, k), s[k + 1]) = SubSeq(s, 1, k) \o <<s[k + 1]>>
  BY <1>3, AppendIsConcat
<1>. QED
  BY <1>2, <1>3, <1>4

LEMMA FlattenConcat ==
    ASSUME NEW S, NEW ss \in Seq(Seq(S)), NEW tt \in Seq(Seq(S))
    PROVE  FlattenSeq(ss \o tt) = FlattenSeq(ss) \o FlattenSeq(tt)
<1>. DEFINE Upto(k) == SubSeq(tt, 1, k)
            G == {k \in 0..Len(tt) :
                     FlattenSeq(ss \o Upto(k)) = FlattenSeq(ss) \o FlattenSeq(Upto(k))}
<1>1. Len(tt) \in Nat /\ Upto(0) = <<>> /\ Upto(Len(tt)) = tt
  BY SubSeqEmpty, SubSeqFull
<1>2. 0 \in G
  <2>1. FlattenSeq(ss) \in Seq(S)
    BY FlattenType
  <2>2. ss \o <<>> = ss /\ FlattenSeq(ss) \o <<>> = FlattenSeq(ss)
    BY <2>1, ConcatEmptySeq
  <2>3. FlattenSeq(ss \o Upto(0)) = FlattenSeq(ss)
    BY <1>1, <2>2, Zenon
  <2>4. FlattenSeq(ss) \o FlattenSeq(Upto(0)) = FlattenSeq(ss)
    BY <1>1, <2>2, FlattenEmpty, Zenon
  <2>5. 0 \in 0..Len(tt)
    BY <1>1
  <2>. QED
    BY <2>3, <2>4, <2>5, Zenon
<1>3. ASSUME NEW k \in 0..(Len(tt) - 1), k \in G PROVE k + 1 \in G
  <2>1. /\ Upto(k) \in Seq(Seq(S)) /\ tt[k + 1] \in Seq(S)
        /\ Upto(k + 1) = Append(Upto(k), tt[k + 1])
    BY PrefixStep
  <2>2. FlattenSeq(ss \o Upto(k)) = FlattenSeq(ss) \o FlattenSeq(Upto(k))
    BY <1>3
  <2>. DEFINE h == Upto(k)
              e == tt[k + 1]
  <2>. HIDE DEF h, e
  <2>3. h \in Seq(Seq(S)) /\ e \in Seq(S)
    BY <2>1 DEF h, e
  <2>4. ss \o Append(h, e) = Append(ss \o h, e) /\ ss \o h \in Seq(Seq(S))
    BY <2>3
  <2>5. FlattenSeq(Append(ss \o h, e)) = FlattenSeq(ss \o h) \o e
    BY <2>3, <2>4, FlattenAppend
  <2>6. FlattenSeq(Append(h, e)) = FlattenSeq(h) \o e
    BY <2>3, FlattenAppend
  <2>7. (FlattenSeq(ss) \o FlattenSeq(h)) \o e = FlattenSeq(ss) \o (FlattenSeq(h) \o e)
    <3>. DEFINE a == FlattenSeq(ss)
                b == FlattenSeq(h)
    <3>1. a \in Seq(S) /\ b \in Seq(S) /\ e \in Seq(S)
      BY <2>3, FlattenType
    <3>. HIDE DEF a, b
    <3>2. (a \o b) \o e = a \o (b \o e)
      BY <3>1, ConcatAssociative
    <3>. QED
      BY <3>2 DEF a, b
  <2>8. FlattenSeq(ss \o Append(h, e)) = FlattenSeq(ss) \o FlattenSeq(Append(h, e))
    BY <2>2, <2>4, <2>5, <2>6, <2>7 DEF h
  <2>9. k + 1 \in 0..Len(tt)
    BY <1>1
  <2>. QED
    BY <2>1, <2>8, <2>9 DEF h, e
<1>. HIDE DEF G
<1>4. \A k \in 0..Len(tt) : k \in G
  BY <1>1, <1>2, <1>3, Induction
<1>5. Len(tt) \in G
  BY <1>1, <1>4
<1>. QED
  BY <1>1, <1>5 DEF G

\* What is in none of the parts is not in the whole, and no part is empty.
LEMMA FlattenParts ==
    ASSUME NEW S, NEW ss \in Seq(Seq(S)), NEW T,
           \A i \in 1..Len(ss) : ss[i] # <<>> /\ \A j \in 1..Len(ss[i]) : ss[i][j] \in T
    PROVE  /\ Len(FlattenSeq(ss)) >= Len(ss)
           /\ \A j \in 1..Len(FlattenSeq(ss)) : FlattenSeq(ss)[j] \in T
<1>. DEFINE Upto(k) == FlattenSeq(SubSeq(ss, 1, k))
            G == {k \in 0..Len(ss) : /\ Len(Upto(k)) >= k
                                     /\ \A j \in 1..Len(Upto(k)) : Upto(k)[j] \in T}
<1>1. Len(ss) \in Nat /\ Upto(0) = <<>> /\ Upto(Len(ss)) = FlattenSeq(ss)
  <2>1. SubSeq(ss, 1, 0) = <<>> /\ SubSeq(ss, 1, Len(ss)) = ss
    BY SubSeqEmpty, SubSeqFull
  <2>2. Upto(0) = <<>> /\ Upto(Len(ss)) = FlattenSeq(ss)
    BY <2>1, FlattenEmpty, Zenon
  <2>. QED
    BY <2>2
<1>2. 0 \in G
  BY <1>1
<1>3. ASSUME NEW k \in 0..(Len(ss) - 1), k \in G PROVE k + 1 \in G
  <2>. DEFINE h == Upto(k)
              e == ss[k + 1]
  <2>1. h \in Seq(S) /\ e \in Seq(S) /\ Upto(k + 1) = h \o e
    <3>. DEFINE t == SubSeq(ss, 1, k)
    <3>1. t \in Seq(Seq(S)) /\ e \in Seq(S) /\ SubSeq(ss, 1, k + 1) = Append(t, e)
      BY PrefixStep
    <3>. HIDE DEF t, e
    <3>2. FlattenSeq(Append(t, e)) = FlattenSeq(t) \o e /\ FlattenSeq(t) \in Seq(S)
      BY <3>1, FlattenAppend, FlattenType
    <3>. QED
      BY <3>1, <3>2 DEF t
  <2>2. Len(h) >= k /\ \A j \in 1..Len(h) : h[j] \in T
    BY <1>3
  <2>3. k + 1 \in 1..Len(ss) /\ k + 1 \in 0..Len(ss) /\ k \in Nat
    BY <1>1
  <2>4. Len(e) \in Nat /\ Len(e) # 0 /\ \A j \in 1..Len(e) : e[j] \in T
    BY <2>1, <2>3
  <2>. HIDE DEF h, e
  <2>5. /\ Len(h \o e) = Len(h) + Len(e) /\ Len(h) \in Nat
        /\ \A i \in 1..(Len(h) + Len(e)) :
              (h \o e)[i] = IF i <= Len(h) THEN h[i] ELSE e[i - Len(h)]
    BY <2>1, ConcatProperties, LenProperties
  <2>6. \A j \in 1..Len(h \o e) : (h \o e)[j] \in T
    <3>1. ASSUME NEW j \in 1..Len(h \o e) PROVE (h \o e)[j] \in T
      <4>1. CASE j <= Len(h)
        BY <2>2, <2>5, <4>1
      <4>2. CASE ~ (j <= Len(h))
        <5>1. j - Len(h) \in 1..Len(e) /\ j \in 1..(Len(h) + Len(e))
          BY <2>4, <2>5, <4>2
        <5>. QED
          BY <2>4, <2>5, <4>2, <5>1
      <4>. QED
        BY <4>1, <4>2
    <3>. QED
      BY <3>1
  <2>7. Len(h \o e) >= k + 1
    BY <2>2, <2>3, <2>4, <2>5
  <2>. HIDE DEF Upto
  <2>. QED
    BY <2>1, <2>3, <2>6, <2>7
<1>. HIDE DEF G
<1>4. \A k \in 0..Len(ss) : k \in G
  BY <1>1, <1>2, <1>3, Induction
<1>5. Len(ss) \in G
  BY <1>1, <1>4
<1>. QED
  BY <1>1, <1>5 DEF G


-----------------------------------------------------------------------------
(* The mailbox is a lossy channel. *)

Covers(its) == [i \in 1..Len(its) |-> its[i].covers]
Number      == Len(sent) + 1

Queue == [kind : Kind, message : 0..Streams, index : Nat, covers : Seq(Nat)]

\* What may be put: a record that says of what kind it is, of which message,
\* and at which place in it.
Sendable(M) == \A x \in M : x.kind \in Kind /\ x.message \in 0..Streams /\ x.index \in Nat

\* An item stands for sends of its own kind, for one at least.
Carried ==
    \A i \in 1..Len(items) :
        /\ items[i].covers # <<>>
        /\ \A j \in 1..Len(items[i].covers) :
              /\ items[i].covers[j] \in 1..Len(sent)
              /\ sent[items[i].covers[j]].kind = items[i].kind

MailInv(M) ==
    /\ items \in Seq(Queue) /\ sent \in Seq(M) /\ got \in Seq(Nat) /\ dropped \in Nat
    /\ Carried

LEMMA CoversType ==
    ASSUME NEW its \in Seq(Queue)
    PROVE  /\ Covers(its) \in Seq(Seq(Nat)) /\ Len(Covers(its)) = Len(its)
           /\ \A i \in 1..Len(its) : Covers(its)[i] = its[i].covers
<1>1. Len(its) \in Nat /\ \A i \in 1..Len(its) : its[i] \in Queue
  BY ElementOfSeq, LenProperties
<1>2. \A i \in 1..Len(its) : its[i].covers \in Seq(Nat)
  BY <1>1 DEF Queue
<1>. DEFINE T == Seq(Nat)
<1>3. \A i \in 1..Len(its) : its[i].covers \in T
  BY <1>2
<1>. HIDE DEF T
<1>4. Covers(its) \in Seq(T) /\ Len(Covers(its)) = Len(its)
  BY <1>1, <1>3 DEF Covers
<1>5. \A i \in 1..Len(its) : Covers(its)[i] = its[i].covers
  BY DEF Covers
<1>. QED
  BY <1>4, <1>5 DEF T

LEMMA CoversAppend ==
    ASSUME NEW its \in Seq(Queue), NEW it \in Queue
    PROVE  Covers(Append(its, it)) = Append(Covers(its), it.covers)
<1>1. Append(its, it) \in Seq(Queue) /\ it.covers \in Seq(Nat)
  BY DEF Queue
<1>2. Covers(its) \in Seq(Seq(Nat)) /\ Covers(Append(its, it)) \in Seq(Seq(Nat))
  BY <1>1, CoversType
<1>3. Append(Covers(its), it.covers) \in Seq(Seq(Nat))
  BY <1>1, <1>2
<1>4. Len(Covers(Append(its, it))) = Len(its) + 1 /\ Len(Append(Covers(its), it.covers)) = Len(its) + 1
  <2>1. Len(Covers(Append(its, it))) = Len(Append(its, it)) /\ Len(Covers(its)) = Len(its)
    BY <1>1, CoversType
  <2>2. Len(Append(its, it)) = Len(its) + 1
    BY AppendProperties
  <2>3. Len(Append(Covers(its), it.covers)) = Len(Covers(its)) + 1
    BY <1>1, <1>2, AppendProperties
  <2>. QED
    BY <2>1, <2>2, <2>3
<1>5. \A i \in 1..(Len(its) + 1) :
          Covers(Append(its, it))[i] = Append(Covers(its), it.covers)[i]
  BY <1>1, <1>2, CoversType DEF Covers
<1>. QED
  BY <1>2, <1>3, <1>4, <1>5, SeqEqual

LEMMA CoversConcat ==
    ASSUME NEW s \in Seq(Queue), NEW t \in Seq(Queue)
    PROVE  Covers(s \o t) = Covers(s) \o Covers(t)
<1>1. s \o t \in Seq(Queue) /\ Len(s \o t) = Len(s) + Len(t) /\ Len(s) \in Nat /\ Len(t) \in Nat
  OBVIOUS
<1>2. /\ Covers(s) \in Seq(Seq(Nat)) /\ Len(Covers(s)) = Len(s)
      /\ Covers(t) \in Seq(Seq(Nat)) /\ Len(Covers(t)) = Len(t)
      /\ Covers(s \o t) \in Seq(Seq(Nat)) /\ Len(Covers(s \o t)) = Len(s) + Len(t)
  BY <1>1, CoversType
<1>3. Covers(s) \o Covers(t) \in Seq(Seq(Nat)) /\ Len(Covers(s) \o Covers(t)) = Len(s) + Len(t)
  BY <1>2, ConcatProperties
<1>4. ASSUME NEW i \in 1..(Len(s) + Len(t))
      PROVE  Covers(s \o t)[i] = (Covers(s) \o Covers(t))[i]
  <2>1. Covers(s \o t)[i] = (s \o t)[i].covers
    BY <1>1, CoversType
  <2>2. CASE i <= Len(s)
    <3>1. i \in 1..Len(s) /\ (s \o t)[i] = s[i] /\ (Covers(s) \o Covers(t))[i] = Covers(s)[i]
      BY <1>1, <1>2, <2>2
    <3>. QED
      BY <2>1, <3>1, CoversType
  <2>3. CASE ~ (i <= Len(s))
    <3>1. /\ i - Len(s) \in 1..Len(t) /\ (s \o t)[i] = t[i - Len(s)]
          /\ (Covers(s) \o Covers(t))[i] = Covers(t)[i - Len(s)]
      BY <1>1, <1>2, <2>3
    <3>. QED
      BY <2>1, <3>1, CoversType
  <2>. QED
    BY <2>2, <2>3
<1>. QED
  BY <1>2, <1>3, <1>4, SeqEqual

\* The queue of the channel: the sends that the items stand for.
LEMMA QueueType ==
    ASSUME NEW M, MailInv(M)
    PROVE  /\ FlattenSeq(Covers(items)) \in Seq(Nat)
           /\ Len(FlattenSeq(Covers(items))) >= Len(items)
           /\ \A j \in 1..Len(FlattenSeq(Covers(items))) :
                 \E i \in 1..Len(items) :
                     /\ FlattenSeq(Covers(items))[j] \in 1..Len(sent)
                     /\ sent[FlattenSeq(Covers(items))[j]].kind = items[i].kind
<1>. DEFINE T == {n \in 1..Len(sent) : \E i \in 1..Len(items) : sent[n].kind = items[i].kind}
<1>1. /\ Covers(items) \in Seq(Seq(Nat)) /\ Len(Covers(items)) = Len(items)
      /\ \A i \in 1..Len(items) : Covers(items)[i] = items[i].covers
  BY CoversType DEF MailInv
<1>2. \A i \in 1..Len(Covers(items)) :
          /\ Covers(items)[i] # <<>>
          /\ \A j \in 1..Len(Covers(items)[i]) : Covers(items)[i][j] \in T
  <2>1. ASSUME NEW i \in 1..Len(items)
        PROVE  /\ items[i].covers # <<>>
               /\ \A j \in 1..Len(items[i].covers) : items[i].covers[j] \in T
    BY DEF MailInv, Carried
  <2>. HIDE DEF T
  <2>. QED
    BY <1>1, <2>1
<1>. HIDE DEF T
<1>3. /\ Len(FlattenSeq(Covers(items))) >= Len(items)
      /\ \A j \in 1..Len(FlattenSeq(Covers(items))) : FlattenSeq(Covers(items))[j] \in T
  BY <1>1, <1>2, FlattenParts
<1>4. FlattenSeq(Covers(items)) \in Seq(Nat)
  BY <1>1, FlattenType
<1>. QED
  BY <1>3, <1>4 DEF T

LEMMA OldestExists ==
    ASSUME NEW K, Oldest(K) = {}, items \in Seq(Queue)
    PROVE  \A i \in 1..Len(items) : items[i].kind \notin K
<1>. DEFINE S == {i \in 1..Len(items) : items[i].kind \in K}
<1>1. SUFFICES ASSUME S # {} PROVE FALSE
  OBVIOUS
<1>2. S \in SUBSET Nat
  OBVIOUS
<1>3. PICK m \in S : \A k \in S : m <= k
  <2>. HIDE DEF S
  <2>. QED
    BY <1>1, <1>2, LeastElement
<1>4. m \in 1..Len(items) /\ items[m].kind \in K /\ Len(items) \in Nat
  OBVIOUS
<1>5. \A j \in 1..(m - 1) : j \in 1..Len(items) /\ ~ (m <= j)
  BY <1>4
<1>6. \A j \in 1..(m - 1) : items[j].kind \notin K
  BY <1>3, <1>5
<1>. QED
  BY <1>4, <1>6 DEF Oldest

MayGo(k, old) ==
    \/ old \in Droppable
    \/ old \notin Protected /\ k \in Protected
    \/ old \notin Critical \cup {"reply"} /\ k \in Critical

LEMMA VictimMayGo ==
    ASSUME NEW k \in Kind, NEW i \in Victim(k), items \in Seq(Queue)
    PROVE  i \in 1..Len(items) /\ MayGo(k, items[i].kind)
<1>1. CASE Oldest(Droppable) # {}
  <2>1. i \in Oldest(Droppable)
    BY <1>1 DEF Victim
  <2>. QED
    BY <2>1 DEF Oldest, MayGo
<1>2. CASE Oldest(Droppable) = {}
  <2>1. k \in Protected
    BY <1>2 DEF Victim
  <2>2. CASE Oldest(Kind \ Protected) # {}
    <3>1. i \in Oldest(Kind \ Protected)
      BY <1>2, <2>1, <2>2 DEF Victim
    <3>. QED
      BY <2>1, <3>1 DEF Oldest, MayGo
  <2>3. CASE Oldest(Kind \ Protected) = {}
    <3>1. k \in Critical /\ i \in Oldest(Event \ Critical)
      BY <1>2, <2>1, <2>3 DEF Victim
    <3>. QED
      BY <3>1 DEF Oldest, MayGo, Event
  <2>. QED
    BY <2>2, <2>3
<1>. QED
  BY <1>1, <1>2

LEMMA NoVictim ==
    ASSUME NEW k \in Kind, Victim(k) = {}, items \in Seq(Queue)
    PROVE  \A i \in 1..Len(items) : ~ MayGo(k, items[i].kind)
<1>1. Oldest(Droppable) = {}
  BY DEF Victim
<1>2. \A i \in 1..Len(items) : items[i].kind \notin Droppable
  BY <1>1, OldestExists
<1>3. \A i \in 1..Len(items) : items[i].kind \in Kind
  <2>1. \A i \in 1..Len(items) : items[i] \in Queue
    BY ElementOfSeq
  <2>. QED
    BY <2>1 DEF Queue
<1>4. CASE k \notin Protected
  <2>1. k \notin Critical
    BY <1>4 DEF Protected, Critical, L!Protected, L!Critical
  <2>. QED
    BY <1>2, <1>4, <2>1 DEF MayGo
<1>5. CASE k \in Protected
  <2>1. Oldest(Kind \ Protected) = {}
    BY <1>1, <1>5 DEF Victim
  <2>2. \A i \in 1..Len(items) : items[i].kind \in Protected
    BY <1>3, <2>1, OldestExists
  <2>3. CASE k \notin Critical
    BY <1>2, <2>2, <2>3 DEF MayGo
  <2>4. CASE k \in Critical
    <3>1. Oldest(Event \ Critical) = {}
      BY <1>1, <1>5, <2>1, <2>4 DEF Victim
    <3>2. \A i \in 1..Len(items) : items[i].kind \in Critical \cup {"reply"}
      BY <1>3, <3>1, OldestExists DEF Event
    <3>. QED
      BY <1>2, <2>2, <3>2 DEF MayGo
  <2>. QED
    BY <2>3, <2>4
<1>. QED
  BY <1>4, <1>5


SentBar == [n \in 1..Len(sent) |-> sent[n].kind]
QueueBar == FlattenSeq(Covers(items))

LEMMA ItemType ==
    ASSUME NEW M, Sendable(M), NEW m \in M, MailInv(M)
    PROVE  Item(m) \in Queue /\ Item(m).covers = <<Number>> /\ Number \in Nat
<1>1. Len(sent) \in Nat
  BY LenProperties DEF MailInv
<1>2. m.kind \in Kind /\ m.message \in 0..Streams /\ m.index \in Nat
  BY DEF Sendable
<1>3. <<Len(sent) + 1>> \in Seq(Nat)
  BY <1>1
<1>. QED
  BY <1>1, <1>2, <1>3 DEF Item, Queue, Number

LEMMA FunctionIsSeq ==
    ASSUME NEW S, NEW n \in Nat, NEW f \in [1..n -> S]
    PROVE  f \in Seq(S) /\ Len(f) = n
OBVIOUS

LEMMA NumberAppended ==
    ASSUME NEW c \in Seq(Nat), NEW x \in Nat
    PROVE  /\ Len(Append(c, x)) = Len(c) + 1 /\ Len(c) \in Nat
           /\ Append(c, x)[Len(c) + 1] = x
           /\ \A j \in 1..Len(c) : Append(c, x)[j] = c[j]
           /\ Append(c, x) # <<>>
BY AppendProperties, LenProperties

LEMMA FrontProperties ==
    ASSUME NEW S, NEW s \in Seq(S), s # <<>>
    PROVE  /\ Front(s) \in Seq(S) /\ Len(Front(s)) = Len(s) - 1
           /\ \A i \in 1..(Len(s) - 1) : Front(s)[i] = s[i]
           /\ s = Append(Front(s), s[Len(s)])
<1>. DEFINE n == Len(s) - 1
<1>1. n \in Nat /\ Len(s) = n + 1 /\ \A i \in 1..(n + 1) : s[i] \in S
  BY EmptySeq, LenProperties, ElementOfSeq
<1>. HIDE DEF n
<1>2. \A i \in 1..n : s[i] \in S
  BY <1>1
<1>3. /\ SubSeq(s, 1, n) \in Seq(S)
      /\ Len(SubSeq(s, 1, n)) = IF 1 <= n THEN n - 1 + 1 ELSE 0
      /\ \A i \in 1..(n - 1 + 1) : SubSeq(s, 1, n)[i] = s[1 + i - 1]
  BY <1>1, <1>2, SubSeqProperties
<1>4. /\ Front(s) \in Seq(S) /\ Len(Front(s)) = n
      /\ \A i \in 1..n : Front(s)[i] = s[i]
  BY <1>1, <1>3 DEF Front, n
<1>5. s[n + 1] \in S
  BY <1>1
<1>6. /\ Append(Front(s), s[n + 1]) \in Seq(S)
      /\ Len(Append(Front(s), s[n + 1])) = n + 1
      /\ \A i \in 1..n : Append(Front(s), s[n + 1])[i] = Front(s)[i]
      /\ Append(Front(s), s[n + 1])[n + 1] = s[n + 1]
  BY <1>4, <1>5, AppendProperties
<1>7. \A i \in 1..(n + 1) : Append(Front(s), s[n + 1])[i] = s[i]
  BY <1>1, <1>4, <1>6
<1>8. s = Append(Front(s), s[n + 1])
  BY <1>1, <1>6, <1>7, SeqEqual
<1>. QED
  BY <1>1, <1>4, <1>8

\* What a put message adds to the sends.
LEMMA SentGrows ==
    ASSUME NEW M, Sendable(M), NEW m \in M, MailInv(M), sent' = Append(sent, m)
    PROVE  /\ sent' \in Seq(M) /\ Len(sent') = Number /\ Number \in 1..Len(sent') /\ sent'[Number] = m
           /\ \A n \in 1..Len(sent) : n \in 1..Len(sent') /\ sent'[n] = sent[n]
           /\ SentBar' = Append(SentBar, m.kind) /\ Len(SentBar) = Len(sent)
<1>1. sent \in Seq(M) /\ Len(sent) \in Nat
  BY LenProperties DEF MailInv
<1>2. /\ sent' \in Seq(M) /\ Len(sent') = Number /\ sent'[Number] = m
      /\ \A n \in 1..Len(sent) : sent'[n] = sent[n]
  BY <1>1, AppendProperties DEF Number
<1>3. Number \in 1..Len(sent') /\ \A n \in 1..Len(sent) : n \in 1..Len(sent')
  BY <1>1, <1>2 DEF Number
<1>4. /\ \A n \in 1..Len(sent) : sent[n].kind \in Kind
      /\ m.kind \in Kind
  BY <1>1, ElementOfSeq DEF Sendable
<1>5. SentBar \in Seq(Kind) /\ Len(SentBar) = Len(sent)
  BY <1>1, <1>4 DEF SentBar
<1>6. Append(SentBar, m.kind) \in Seq(Kind) /\ Len(Append(SentBar, m.kind)) = Number
  BY <1>1, <1>4, <1>5, AppendProperties DEF Number
<1>7. \A n \in 1..Number : sent'[n].kind \in Kind
  BY <1>1, <1>2, <1>4 DEF Number
<1>8. SentBar' \in Seq(Kind) /\ Len(SentBar') = Number
  <2>1. Number \in Nat
    BY <1>1 DEF Number
  <2>2. SentBar' = [n \in 1..Number |-> sent'[n].kind]
    BY <1>2 DEF SentBar
  <2>3. SentBar' \in [1..Number -> Kind]
    BY <1>7, <2>2
  <2>. QED
    BY <2>1, <2>3, FunctionIsSeq
<1>9. ASSUME NEW n \in 1..Number PROVE SentBar'[n] = Append(SentBar, m.kind)[n]
  <2>1. SentBar'[n] = sent'[n].kind
    BY <1>2 DEF SentBar
  <2>2. CASE n = Number
    <3>1. Append(SentBar, m.kind)[n] = m.kind
      BY <1>4, <1>5, <2>2, AppendProperties DEF Number
    <3>. QED
      BY <1>2, <2>1, <2>2, <3>1
  <2>3. CASE n # Number
    <3>1. n \in 1..Len(sent)
      BY <1>1, <2>3 DEF Number
    <3>2. Append(SentBar, m.kind)[n] = SentBar[n] /\ SentBar[n] = sent[n].kind
      BY <1>4, <1>5, <3>1, AppendProperties DEF SentBar
    <3>. QED
      BY <1>2, <2>1, <3>1, <3>2
  <2>. QED
    BY <2>2, <2>3
<1>10. SentBar' = Append(SentBar, m.kind)
  BY <1>6, <1>8, <1>9, SeqEqual
<1>. QED
  BY <1>2, <1>3, <1>5, <1>10

\* Items that were there stay in order; the rest of the items carry their sends.
LEMMA CarriedKept ==
    ASSUME NEW M, Sendable(M), NEW m \in M, MailInv(M), sent' = Append(sent, m),
           NEW its \in Seq(Queue),
           \A i \in 1..Len(its) : \E k \in 1..Len(items) : its[i] = items[k],
           items' = Append(its, Item(m))
    PROVE  items' \in Seq(Queue) /\ Carried'
<1>1. /\ Item(m) \in Queue /\ Item(m).covers = <<Number>> /\ Number \in Nat
      /\ Item(m).kind = m.kind
  BY ItemType DEF Item
<1>2. /\ items' \in Seq(Queue) /\ Len(items') = Len(its) + 1 /\ items'[Len(its) + 1] = Item(m)
      /\ \A i \in 1..Len(its) : items'[i] = its[i]
      /\ Len(its) \in Nat
  BY <1>1, AppendProperties, LenProperties
<1>3. ASSUME NEW i \in 1..Len(items')
      PROVE  /\ items'[i].covers # <<>>
             /\ \A j \in 1..Len(items'[i].covers) :
                   /\ items'[i].covers[j] \in 1..Len(sent')
                   /\ sent'[items'[i].covers[j]].kind = items'[i].kind
  <2>1. CASE i = Len(its) + 1
    <3>1. items'[i].covers = <<Number>> /\ items'[i].kind = m.kind
      BY <1>1, <1>2, <2>1
    <3>2. Number \in 1..Len(sent') /\ sent'[Number] = m
      BY SentGrows
    <3>3. \A j \in 1..Len(<<Number>>) : <<Number>>[j] = Number
      OBVIOUS
    <3>4. <<Number>> # <<>>
      OBVIOUS
    <3>. QED
      BY <3>1, <3>2, <3>3, <3>4
  <2>2. CASE i # Len(its) + 1
    <3>1. i \in 1..Len(its)
      BY <1>2, <2>2
    <3>2. PICK k \in 1..Len(items) : items'[i] = items[k]
      BY <1>2, <3>1
    <3>3. /\ items[k].covers # <<>>
          /\ \A j \in 1..Len(items[k].covers) :
                /\ items[k].covers[j] \in 1..Len(sent)
                /\ sent[items[k].covers[j]].kind = items[k].kind
      BY DEF MailInv, Carried
    <3>4. \A n \in 1..Len(sent) : n \in 1..Len(sent') /\ sent'[n] = sent[n]
      BY SentGrows
    <3>. QED
      BY <3>2, <3>3, <3>4
  <2>. QED
    BY <2>1, <2>2
<1>. QED
  BY <1>2, <1>3 DEF Carried

LEMMA CoalesceSends ==
    ASSUME NEW M, Sendable(M), NEW m \in M, MailInv(M), sent' = Append(sent, m),
           Continues(m), Coalesce
    PROVE  /\ items' \in Seq(Queue) /\ Carried'
           /\ QueueBar' = Append(QueueBar, Number)
<1>. DEFINE n == Len(items)
            F == Front(items)
            l == items[n]
            e == [l EXCEPT !.covers = Append(@, Number)]
<1>1. n \in Nat /\ n # 0 /\ n \in 1..n /\ items \in Seq(Queue) /\ l \in Queue
  <2>1. items \in Seq(Queue) /\ items # <<>>
    BY DEF MailInv, Continues
  <2>2. n \in Nat /\ n # 0
    BY <2>1, EmptySeq, LenProperties
  <2>. QED
    BY <2>1, <2>2, ElementOfSeq
<1>2. /\ F \in Seq(Queue) /\ Len(F) = n - 1 /\ \A i \in 1..(n - 1) : F[i] = items[i]
      /\ items = Append(F, l)
  <2>1. items # <<>>
    BY <1>1
  <2>. QED
    BY <1>1, <2>1, FrontProperties
<1>3. Number \in Nat /\ l.covers \in Seq(Nat) /\ l.kind = "delta" /\ m.kind = "delta"
  BY <1>1, ItemType DEF Queue, Continues, Last
<1>4. /\ e \in Queue /\ e.covers = Append(l.covers, Number) /\ e.kind = l.kind
      /\ items' = Append(F, e)
  <2>1. Append(l.covers, Number) \in Seq(Nat)
    BY <1>3
  <2>2. items' = Append(F, e)
    BY DEF Coalesce, Last, Number
  <2>. QED
    BY <1>1, <2>1, <2>2 DEF Queue
<1>. HIDE DEF n, F, l, e
<1>5. /\ items' \in Seq(Queue) /\ Len(items') = n /\ items'[n] = e
      /\ \A i \in 1..(n - 1) : items'[i] = items[i]
  <2>1. n \in Nat /\ (n - 1) + 1 = n
    BY <1>1
  <2>. QED
    BY <1>2, <1>4, <2>1, AppendProperties
<1>6. Carried'
  <2>1. ASSUME NEW i \in 1..Len(items')
        PROVE  /\ items'[i].covers # <<>>
               /\ \A j \in 1..Len(items'[i].covers) :
                     /\ items'[i].covers[j] \in 1..Len(sent')
                     /\ sent'[items'[i].covers[j]].kind = items'[i].kind
    <3>0. \A k \in 1..n :
             /\ items[k].covers # <<>>
             /\ \A j \in 1..Len(items[k].covers) :
                   /\ items[k].covers[j] \in 1..Len(sent)
                   /\ sent[items[k].covers[j]].kind = items[k].kind
      BY DEF MailInv, Carried, n
    <3>1. \A k \in 1..Len(sent) : k \in 1..Len(sent') /\ sent'[k] = sent[k]
      BY SentGrows
    <3>2. Number \in 1..Len(sent') /\ sent'[Number] = m
      BY SentGrows
    <3>3. CASE i = n
      <4>1. \A j \in 1..Len(l.covers) :
                /\ l.covers[j] \in 1..Len(sent)
                /\ sent[l.covers[j]].kind = l.kind
        BY <1>1, <3>0 DEF l
      <4>2. /\ Len(e.covers) = Len(l.covers) + 1 /\ Len(l.covers) \in Nat
            /\ e.covers[Len(l.covers) + 1] = Number
            /\ \A j \in 1..Len(l.covers) : e.covers[j] = l.covers[j]
            /\ e.covers # <<>>
        <5>. DEFINE c == l.covers
        <5>1. c \in Seq(Nat) /\ e.covers = Append(c, Number)
          BY <1>3, <1>4
        <5>. HIDE DEF c
        <5>2. /\ Len(Append(c, Number)) = Len(c) + 1 /\ Len(c) \in Nat
              /\ Append(c, Number)[Len(c) + 1] = Number
              /\ \A j \in 1..Len(c) : Append(c, Number)[j] = c[j]
              /\ Append(c, Number) # <<>>
          BY <1>3, <5>1, NumberAppended
        <5>. QED
          BY <5>1, <5>2 DEF c
      <4>3. ASSUME NEW j \in 1..Len(e.covers)
            PROVE  e.covers[j] \in 1..Len(sent') /\ sent'[e.covers[j]].kind = e.kind
        <5>1. CASE j = Len(l.covers) + 1
          BY <1>3, <1>4, <3>2, <4>2, <5>1
        <5>2. CASE j # Len(l.covers) + 1
          <6>1. j \in 1..Len(l.covers)
            BY <4>2, <5>2
          <6>. QED
            BY <1>4, <3>1, <4>1, <4>2, <6>1
        <5>. QED
          BY <5>1, <5>2
      <4>. QED
        BY <1>5, <3>3, <4>2, <4>3
    <3>4. CASE i # n
      <4>1. i \in 1..(n - 1) /\ i \in 1..n
        BY <1>1, <1>5, <3>4
      <4>. QED
        BY <1>5, <3>0, <3>1, <4>1
    <3>. QED
      BY <3>3, <3>4
  <2>. QED
    BY <2>1 DEF Carried
<1>7. QueueBar' = Append(QueueBar, Number)
  <2>. DEFINE q == FlattenSeq(Covers(F))
  <2>1. Covers(F) \in Seq(Seq(Nat)) /\ l.covers \in Seq(Nat) /\ e.covers \in Seq(Nat)
    BY <1>2, <1>3, <1>4, CoversType DEF Queue
  <2>2. FlattenSeq(Covers(items)) = q \o l.covers
    BY <1>1, <1>2, <2>1, CoversAppend, FlattenAppend
  <2>3. FlattenSeq(Covers(items')) = q \o e.covers
    BY <1>2, <1>4, <2>1, CoversAppend, FlattenAppend
  <2>4. q \in Seq(Nat)
    BY <2>1, FlattenType
  <2>. HIDE DEF q
  <2>5. q \o Append(l.covers, Number) = Append(q \o l.covers, Number)
    BY <1>3, <2>4
  <2>. QED
    BY <1>4, <2>2, <2>3, <2>5 DEF QueueBar
<1>. QED
  BY <1>5, <1>6, <1>7


LEMMA ItemsAppended ==
    ASSUME NEW M, Sendable(M), NEW m \in M, MailInv(M), NEW its \in Seq(Queue)
    PROVE  FlattenSeq(Covers(Append(its, Item(m)))) = Append(FlattenSeq(Covers(its)), Number)
<1>1. Item(m) \in Queue /\ Item(m).covers = <<Number>> /\ Number \in Nat
  BY ItemType
<1>2. Covers(its) \in Seq(Seq(Nat)) /\ <<Number>> \in Seq(Nat)
  BY <1>1, CoversType
<1>3. Covers(Append(its, Item(m))) = Append(Covers(its), <<Number>>)
  BY <1>1, CoversAppend
<1>4. FlattenSeq(Append(Covers(its), <<Number>>)) = FlattenSeq(Covers(its)) \o <<Number>>
  BY <1>2, FlattenAppend
<1>. DEFINE q == FlattenSeq(Covers(its))
<1>5. q \in Seq(Nat)
  BY <1>2, FlattenType
<1>. HIDE DEF q
<1>6. q \o <<Number>> = Append(q, Number)
  BY <1>1, <1>5, AppendIsConcat
<1>. QED
  BY <1>3, <1>4, <1>6, Zenon DEF q

LEMMA AppendSends ==
    ASSUME NEW M, Sendable(M), NEW m \in M, MailInv(M), sent' = Append(sent, m),
           items' = Append(items, Item(m))
    PROVE  /\ items' \in Seq(Queue) /\ Carried'
           /\ QueueBar' = Append(QueueBar, Number)
<1>1. items \in Seq(Queue)
  BY DEF MailInv
<1>2. \A i \in 1..Len(items) : \E k \in 1..Len(items) : items[i] = items[k]
  OBVIOUS
<1>3. items' \in Seq(Queue) /\ Carried'
  BY <1>1, <1>2, CarriedKept
<1>4. QueueBar' = Append(QueueBar, Number)
  BY <1>1, ItemsAppended DEF QueueBar
<1>. QED
  BY <1>3, <1>4

LEMMA Prefix ==
    ASSUME NEW S, NEW s \in Seq(S), NEW c \in 0..Len(s)
    PROVE  /\ SubSeq(s, 1, c) \in Seq(S) /\ Len(SubSeq(s, 1, c)) = c
           /\ \A i \in 1..c : SubSeq(s, 1, c)[i] = s[i]
<1>. DEFINE a == SubSeq(s, 1, c)
<1>1. c \in Nat /\ \A i \in 1..c : s[i] \in S
  BY ElementOfSeq, LenProperties
<1>2. /\ a \in Seq(S)
      /\ Len(a) = IF 1 <= c THEN c - 1 + 1 ELSE 0
      /\ \A i \in 1..(c - 1 + 1) : a[i] = s[1 + i - 1]
  BY <1>1, SubSeqProperties
<1>. HIDE DEF a
<1>3. a \in Seq(S) /\ Len(a) = c /\ \A i \in 1..c : a[i] = s[i]
  BY <1>1, <1>2
<1>. QED
  BY <1>3 DEF a

LEMMA Suffix ==
    ASSUME NEW S, NEW s \in Seq(S), NEW c \in 0..Len(s)
    PROVE  /\ SubSeq(s, c + 1, Len(s)) \in Seq(S) /\ Len(SubSeq(s, c + 1, Len(s))) = Len(s) - c
           /\ \A i \in 1..(Len(s) - c) : SubSeq(s, c + 1, Len(s))[i] = s[c + i]
<1>. DEFINE n == Len(s)
            b == SubSeq(s, c + 1, n)
<1>1. /\ n \in Nat /\ c \in Nat /\ c <= n /\ \A i \in (c + 1)..n : s[i] \in S
      /\ c + 1 \in Int /\ n \in Int
  BY ElementOfSeq, LenProperties
<1>. HIDE DEF n
<1>2. /\ b \in Seq(S)
      /\ Len(b) = IF c + 1 <= n THEN n - (c + 1) + 1 ELSE 0
      /\ \A i \in 1..(n - (c + 1) + 1) : b[i] = s[c + 1 + i - 1]
  BY <1>1, SubSeqProperties
<1>. HIDE DEF b
<1>3. n - (c + 1) + 1 = n - c
  BY <1>1
<1>4. ASSUME NEW i \in 1..(n - c) PROVE b[i] = s[c + i]
  <2>1. c + 1 + i - 1 = c + i
    BY <1>1
  <2>2. b[i] = s[c + 1 + i - 1]
    BY <1>2, <1>3
  <2>. QED
    BY <2>1, <2>2
<1>5. Len(b) = n - c
  BY <1>1, <1>2
<1>6. b \in Seq(S) /\ \A i \in 1..(n - c) : b[i] = s[c + i]
  BY <1>2, <1>4
<1>. QED
  BY <1>5, <1>6 DEF n, b

\* A sequence without its elements from first to last.
LEMMA Split ==
    ASSUME NEW S, NEW a \in Seq(S), NEW b \in Seq(S), NEW c \in Seq(S), b # <<>>
    PROVE  \A s, first, last :
               s = (a \o b) \o c /\ first = Len(a) + 1 /\ last = Len(a) + Len(b) =>
                   /\ last \in 1..Len(s) /\ first \in 1..last
                   /\ SubSeq(s, 1, first - 1) = a
                   /\ SubSeq(s, last + 1, Len(s)) = c
                   /\ \A i \in first..last : i - Len(a) \in 1..Len(b) /\ s[i] = b[i - Len(a)]
<1>. DEFINE ab == a \o b
            s  == ab \o c
            x  == Len(a)
            y  == Len(a) + Len(b)
<1>1. /\ ab \in Seq(S) /\ Len(ab) = y /\ x \in Nat /\ Len(b) \in Nat /\ Len(b) # 0
      /\ \A i \in 1..y : ab[i] = IF i <= x THEN a[i] ELSE b[i - x]
  BY ConcatProperties, LenProperties, EmptySeq
<1>. HIDE DEF ab
<1>2. /\ s \in Seq(S) /\ Len(s) = y + Len(c) /\ Len(c) \in Nat
      /\ \A i \in 1..(y + Len(c)) : s[i] = IF i <= y THEN ab[i] ELSE c[i - y]
  <2>1. /\ s \in Seq(S) /\ Len(s) = Len(ab) + Len(c) /\ Len(c) \in Nat
        /\ \A i \in 1..(Len(ab) + Len(c)) : s[i] = IF i <= Len(ab) THEN ab[i] ELSE c[i - Len(ab)]
    BY <1>1, ConcatProperties, LenProperties
  <2>. HIDE DEF s, y
  <2>2. Len(ab) = y
    BY <1>1
  <2>. QED
    BY <2>1, <2>2
<1>. HIDE DEF s
<1>3. \A i \in 1..Len(s) : s[i] \in S
  BY <1>2, ElementOfSeq
<1>4. SubSeq(s, 1, x) = a
  <2>1. \A i \in 1..x : s[i] \in S /\ s[i] = a[i]
    BY <1>1, <1>2, <1>3
  <2>. HIDE DEF x
  <2>2. /\ SubSeq(s, 1, x) \in Seq(S)
        /\ Len(SubSeq(s, 1, x)) = IF 1 <= x THEN x - 1 + 1 ELSE 0
        /\ \A i \in 1..(x - 1 + 1) : SubSeq(s, 1, x)[i] = s[1 + i - 1]
    BY <1>1, <2>1, SubSeqProperties
  <2>3. Len(SubSeq(s, 1, x)) = Len(a) /\ \A i \in 1..x : SubSeq(s, 1, x)[i] = a[i]
    BY <1>1, <2>1, <2>2 DEF x
  <2>. QED
    BY <2>2, <2>3, SeqEqual DEF x
<1>5. SubSeq(s, y + 1, Len(s)) = c
  <2>. DEFINE z == Len(s)
  <2>1. \A i \in (y + 1)..z : s[i] \in S
    BY <1>1, <1>2, <1>3
  <2>2. /\ y \in Nat /\ z = y + Len(c)
    BY <1>1, <1>2
  <2>3. \A i \in 1..Len(c) : s[y + i] = c[i]
    <3>1. ASSUME NEW i \in 1..Len(c) PROVE s[y + i] = c[i]
      <4>1. y + i \in 1..(y + Len(c)) /\ ~ (y + i <= y) /\ (y + i) - y = i
        BY <1>1, <1>2, <2>2
      <4>. QED
        BY <1>2, <4>1
    <3>. QED
      BY <3>1
  <2>. HIDE DEF z, y
  <2>4. /\ SubSeq(s, y + 1, z) \in Seq(S)
        /\ Len(SubSeq(s, y + 1, z)) = IF y + 1 <= z THEN z - (y + 1) + 1 ELSE 0
        /\ \A i \in 1..(z - (y + 1) + 1) : SubSeq(s, y + 1, z)[i] = s[y + 1 + i - 1]
    <3>1. y + 1 \in Int /\ z \in Int
      BY <1>2, <2>2
    <3>. QED
      BY <2>1, <3>1, SubSeqProperties
  <2>5. z - (y + 1) + 1 = Len(c) /\ Len(SubSeq(s, y + 1, z)) = Len(c)
    BY <1>2, <2>2, <2>4
  <2>6. \A i \in 1..Len(c) : SubSeq(s, y + 1, z)[i] = c[i]
    <3>1. ASSUME NEW i \in 1..Len(c) PROVE SubSeq(s, y + 1, z)[i] = c[i]
      <4>1. y + 1 + i - 1 = y + i
        BY <2>2
      <4>2. SubSeq(s, y + 1, z)[i] = s[y + 1 + i - 1]
        BY <2>4, <2>5
      <4>. QED
        BY <2>3, <4>1, <4>2
    <3>. QED
      BY <3>1
  <2>7. SubSeq(s, y + 1, z) = c
    BY <2>4, <2>5, <2>6, SeqEqual
  <2>. QED
    BY <2>7 DEF z
<1>6. \A i \in (x + 1)..y : i - x \in 1..Len(b) /\ s[i] = b[i - x]
  BY <1>1, <1>2
<1>7. y \in 1..Len(s) /\ x + 1 \in 1..y
  BY <1>1, <1>2
<1>8. (x + 1) - 1 = x
  BY <1>1
<1>. QED
  BY <1>4, <1>5, <1>6, <1>7, <1>8 DEF s, ab, y

LEMMA Parts ==
    ASSUME NEW S, NEW s \in Seq(S), NEW i \in 1..Len(s)
    PROVE  /\ SubSeq(s, 1, i - 1) \in Seq(S) /\ SubSeq(s, i + 1, Len(s)) \in Seq(S)
           /\ \A k \in 1..Len(SubSeq(s, 1, i - 1)) : k \in 1..Len(s) /\ SubSeq(s, 1, i - 1)[k] = s[k]
           /\ \A k \in 1..Len(SubSeq(s, i + 1, Len(s))) :
                 i + k \in 1..Len(s) /\ SubSeq(s, i + 1, Len(s))[k] = s[i + k]
           /\ s = Append(SubSeq(s, 1, i - 1), s[i]) \o SubSeq(s, i + 1, Len(s))
<1>. DEFINE x == i - 1
            z == Len(s)
            a == SubSeq(s, 1, x)
            b == SubSeq(s, i + 1, z)
<1>1. i \in Nat /\ x \in Nat /\ z \in Nat /\ i = x + 1 /\ i <= z /\ \A k \in 1..z : s[k] \in S
  BY ElementOfSeq, LenProperties
<1>. HIDE DEF x, z
<1>2. /\ a \in Seq(S) /\ Len(a) = x /\ \A k \in 1..x : a[k] = s[k]
  BY <1>1, Prefix DEF z
<1>3. /\ b \in Seq(S) /\ Len(b) = z - i /\ \A k \in 1..(z - i) : b[k] = s[i + k]
  BY <1>1, Suffix DEF z
<1>. HIDE DEF a, b
<1>4. s[i] \in S
  BY <1>1
<1>. DEFINE c == Append(a, s[i])
<1>5. c \in Seq(S) /\ Len(c) = i /\ c[i] = s[i] /\ \A k \in 1..x : c[k] = s[k]
  <2>1. /\ c \in Seq(S) /\ Len(c) = Len(a) + 1 /\ c[Len(a) + 1] = s[i]
        /\ \A k \in 1..Len(a) : c[k] = a[k]
    BY <1>2, <1>4, AppendProperties
  <2>. HIDE DEF c
  <2>. QED
    BY <1>1, <1>2, <2>1
<1>. HIDE DEF c
<1>6. /\ c \o b \in Seq(S) /\ Len(c \o b) = z
      /\ \A k \in 1..z : (c \o b)[k] = IF k <= i THEN c[k] ELSE b[k - i]
  <2>1. /\ c \o b \in Seq(S) /\ Len(c \o b) = Len(c) + Len(b)
        /\ \A k \in 1..(Len(c) + Len(b)) : (c \o b)[k] = IF k <= Len(c) THEN c[k] ELSE b[k - Len(c)]
    BY <1>3, <1>5, ConcatProperties
  <2>2. Len(c) + Len(b) = z
    BY <1>1, <1>3, <1>5
  <2>. QED
    BY <1>5, <2>1, <2>2
<1>7. ASSUME NEW k \in 1..z PROVE (c \o b)[k] = s[k]
  <2>1. CASE k < i
    BY <1>1, <1>5, <1>6, <2>1
  <2>2. CASE k = i
    <3>1. i \in 1..z /\ i <= i
      BY <1>1
    <3>2. (c \o b)[i] = c[i]
      BY <1>6, <3>1
    <3>. QED
      BY <1>5, <2>2, <3>2
  <2>3. CASE k > i
    <3>1. k - i \in 1..(z - i) /\ i + (k - i) = k /\ ~ (k <= i)
      BY <1>1, <2>3
    <3>2. b[k - i] = s[i + (k - i)]
      BY <1>3, <3>1
    <3>. QED
      BY <1>6, <3>1, <3>2
  <2>4. k < i \/ k = i \/ k > i
    BY <1>1
  <2>. QED
    BY <2>1, <2>2, <2>3, <2>4
<1>8. s = c \o b
  <2>1. Len(s) = Len(c \o b) /\ \A k \in 1..Len(s) : s[k] = (c \o b)[k]
    BY <1>6, <1>7 DEF z
  <2>. QED
    BY <1>6, <2>1, SeqEqual
<1>9. \A k \in 1..Len(a) : k \in 1..z /\ a[k] = s[k]
  BY <1>1, <1>2
<1>10. \A k \in 1..Len(b) : i + k \in 1..z /\ b[k] = s[i + k]
  BY <1>1, <1>3
<1>. QED
  BY <1>2, <1>3, <1>8, <1>9, <1>10 DEF a, b, c, x, z

LEMMA DisplaceSends ==
    ASSUME NEW M, Sendable(M), NEW m \in M, MailInv(M), sent' = Append(sent, m),
           NEW i \in Victim(m.kind), items' = Append(RemoveAt(items, i), Item(m))
    PROVE  /\ items' \in Seq(Queue) /\ Carried'
           /\ \E last \in 1..Len(QueueBar) : \E first \in 1..last :
                 /\ \A k \in first..last :
                       /\ QueueBar[k] \in 1..Len(sent)
                       /\ MayGo(m.kind, sent[QueueBar[k]].kind)
                 /\ QueueBar' = Append(SubSeq(QueueBar, 1, first - 1)
                                          \o SubSeq(QueueBar, last + 1, Len(QueueBar)), Number)
<1>1. items \in Seq(Queue) /\ m.kind \in Kind
  BY DEF MailInv, Sendable
<1>2. i \in 1..Len(items) /\ MayGo(m.kind, items[i].kind)
  BY <1>1, VictimMayGo
<1>. DEFINE a == SubSeq(items, 1, i - 1)
            b == SubSeq(items, i + 1, Len(items))
<1>3. /\ a \in Seq(Queue) /\ b \in Seq(Queue) /\ items[i] \in Queue
      /\ \A k \in 1..Len(a) : k \in 1..Len(items) /\ a[k] = items[k]
      /\ \A k \in 1..Len(b) : i + k \in 1..Len(items) /\ b[k] = items[i + k]
      /\ items = Append(a, items[i]) \o b
  BY <1>1, <1>2, Parts, ElementOfSeq
<1>4. RemoveAt(items, i) = a \o b
  BY DEF RemoveAt
<1>. HIDE DEF a, b
<1>5. /\ a \o b \in Seq(Queue) /\ Len(a \o b) = Len(a) + Len(b) /\ Len(a) \in Nat /\ Len(b) \in Nat
      /\ \A k \in 1..(Len(a) + Len(b)) : (a \o b)[k] = IF k <= Len(a) THEN a[k] ELSE b[k - Len(a)]
  BY <1>3, ConcatProperties, LenProperties
<1>6. ASSUME NEW k \in 1..Len(a \o b) PROVE \E j \in 1..Len(items) : (a \o b)[k] = items[j]
  <2>1. CASE k <= Len(a)
    <3>1. k \in 1..Len(a) /\ (a \o b)[k] = a[k]
      BY <1>5, <2>1
    <3>. QED
      BY <1>3, <3>1
  <2>2. CASE ~ (k <= Len(a))
    <3>1. k - Len(a) \in 1..Len(b) /\ (a \o b)[k] = b[k - Len(a)]
      BY <1>5, <2>2
    <3>. QED
      BY <1>3, <3>1
  <2>. QED
    BY <2>1, <2>2
<1>7. items' \in Seq(Queue) /\ Carried'
  <2>. DEFINE its == a \o b
  <2>1. its \in Seq(Queue) /\ items' = Append(its, Item(m))
    BY <1>4, <1>5
  <2>2. \A k \in 1..Len(its) : \E j \in 1..Len(items) : its[k] = items[j]
    BY <1>6
  <2>. HIDE DEF its
  <2>. QED
    BY <2>1, <2>2, CarriedKept
<1>. DEFINE fa == FlattenSeq(Covers(a))
            fb == FlattenSeq(Covers(b))
            c  == items[i].covers
<1>8. fa \in Seq(Nat) /\ fb \in Seq(Nat) /\ c \in Seq(Nat) /\ c # <<>>
  BY <1>2, <1>3, CoversType, FlattenType DEF Queue, MailInv, Carried
<1>9. QueueBar = (fa \o c) \o fb
  <2>1. Append(a, items[i]) \in Seq(Queue)
    BY <1>3, AppendProperties
  <2>2. Covers(items) = Covers(Append(a, items[i])) \o Covers(b)
    BY <1>3, <2>1, CoversConcat, Zenon
  <2>3. Covers(Append(a, items[i])) \in Seq(Seq(Nat)) /\ Covers(b) \in Seq(Seq(Nat)) /\ Covers(a) \in Seq(Seq(Nat))
    BY <1>3, <2>1, CoversType
  <2>4. Covers(Append(a, items[i])) = Append(Covers(a), c)
    BY <1>3, CoversAppend
  <2>5. FlattenSeq(Covers(Append(a, items[i]))) = fa \o c
    BY <1>8, <2>3, <2>4, FlattenAppend
  <2>6. FlattenSeq(Covers(Append(a, items[i])) \o Covers(b))
           = FlattenSeq(Covers(Append(a, items[i]))) \o fb
    BY <2>3, FlattenConcat
  <2>. QED
    BY <2>2, <2>5, <2>6, Zenon DEF QueueBar
<1>10. QueueBar' = Append(fa \o fb, Number)
  <2>1. items' = Append(a \o b, Item(m))
    BY <1>4
  <2>2. FlattenSeq(Covers(items')) = Append(FlattenSeq(Covers(a \o b)), Number)
    <3>. DEFINE its == a \o b
    <3>1. its \in Seq(Queue) /\ items' = Append(its, Item(m))
      BY <1>5, <2>1
    <3>. HIDE DEF its
    <3>2. FlattenSeq(Covers(Append(its, Item(m)))) = Append(FlattenSeq(Covers(its)), Number)
      BY <3>1, ItemsAppended
    <3>. QED
      BY <3>1, <3>2, Zenon DEF its
  <2>3. FlattenSeq(Covers(a \o b)) = fa \o fb
    <3>1. Covers(a \o b) = Covers(a) \o Covers(b)
      BY <1>3, CoversConcat
    <3>2. Covers(a) \in Seq(Seq(Nat)) /\ Covers(b) \in Seq(Seq(Nat))
      BY <1>3, CoversType
    <3>3. FlattenSeq(Covers(a) \o Covers(b)) = fa \o fb
      BY <3>2, FlattenConcat
    <3>. QED
      BY <3>1, <3>3, Zenon
  <2>. QED
    BY <2>2, <2>3, Zenon DEF QueueBar
<1>11. \A j \in 1..Len(c) : c[j] \in 1..Len(sent) /\ sent[c[j]].kind = items[i].kind
  BY <1>2 DEF MailInv, Carried
<1>. HIDE DEF fa, fb, c
<1>. DEFINE first == Len(fa) + 1
            last  == Len(fa) + Len(c)
<1>12. /\ last \in 1..Len(QueueBar) /\ first \in 1..last
       /\ SubSeq(QueueBar, 1, first - 1) = fa
       /\ SubSeq(QueueBar, last + 1, Len(QueueBar)) = fb
       /\ \A k \in first..last : k - Len(fa) \in 1..Len(c) /\ QueueBar[k] = c[k - Len(fa)]
  <2>1. first = Len(fa) + 1 /\ last = Len(fa) + Len(c)
    OBVIOUS
  <2>. HIDE DEF first, last
  <2>. QED
    BY <1>8, <1>9, <2>1, Split
<1>. HIDE DEF first, last
<1>13. \A k \in first..last : QueueBar[k] \in 1..Len(sent) /\ MayGo(m.kind, sent[QueueBar[k]].kind)
  BY <1>2, <1>11, <1>12
<1>14. QueueBar' = Append(SubSeq(QueueBar, 1, first - 1)
                             \o SubSeq(QueueBar, last + 1, Len(QueueBar)), Number)
  BY <1>10, <1>12, Zenon
<1>. QED
  BY <1>7, <1>12, <1>13, <1>14


LEMMA MayDisplaceIsMayGo ==
    ASSUME NEW k, NEW old
    PROVE  Channel!MayDisplace(k, old) <=> MayGo(k, old)
BY DEF MayGo, Channel!MayDisplace, Channel!Droppable, Channel!Protected, Channel!Critical,
       Channel!Reply, Droppable, Protected, Critical, L!Droppable, L!Protected, L!Critical, L!Reply

\* The queue and the sends are where the channel has them.
LEMMA Bars == /\ SentBar = [n \in 1..Len(sent) |-> sent[n].kind]
              /\ QueueBar = FlattenSeq([i \in 1..Len(items) |-> items[i].covers])
BY DEF SentBar, QueueBar, Covers

LEMMA PutSends ==
    ASSUME NEW M, Sendable(M), NEW m \in M, MailInv(M), Put(m)
    PROVE  MailInv(M)' /\ Channel!Send(m.kind)
<1>1. /\ sent' = Append(sent, m) /\ got' = got
      /\ items \in Seq(Queue) /\ got \in Seq(Nat) /\ dropped \in Nat /\ m.kind \in Kind
  BY DEF Put, MailInv, Sendable
<1>2. /\ sent' \in Seq(M) /\ SentBar' = Append(SentBar, m.kind) /\ Number = Len(SentBar) + 1
  BY <1>1, SentGrows DEF Number
<1>3. \A n \in 1..Len(sent) : SentBar[n] = sent[n].kind
  BY DEF SentBar
<1>4. ASSUME Full PROVE Len(QueueBar) >= Capacity
  <2>1. Len(QueueBar) >= Len(items)
    BY QueueType DEF QueueBar
  <2>2. Len(QueueBar) \in Nat /\ Len(items) \in Nat
    BY <1>1, QueueType, LenProperties DEF QueueBar
  <2>. QED
    BY <1>4, <2>1, <2>2, MailboxAssumption DEF Full
<1>. DEFINE Delivered == QueueBar' = Append(QueueBar, Len(SentBar) + 1) /\ dropped' = dropped
            Displaced == \E last \in 1..Len(QueueBar) : \E first \in 1..last :
                            /\ Len(QueueBar) >= Capacity
                            /\ \A k \in first..last : MayGo(m.kind, SentBar[QueueBar[k]])
                            /\ QueueBar' = Append(SubSeq(QueueBar, 1, first - 1)
                                                     \o SubSeq(QueueBar, last + 1, Len(QueueBar)),
                                                  Len(SentBar) + 1)
                            /\ dropped' > dropped
            Refused   == /\ Len(QueueBar) >= Capacity
                         /\ \A k \in 1..Len(QueueBar) : ~ MayGo(m.kind, SentBar[QueueBar[k]])
                         /\ dropped' > dropped
                         /\ QueueBar' = QueueBar
<1>5. /\ items' \in Seq(Queue) /\ Carried' /\ dropped' \in Nat
      /\ Delivered \/ Displaced \/ Refused
  <2>1. CASE Continues(m) /\ Coalesce /\ UNCHANGED dropped
    BY <1>1, <1>2, <2>1, CoalesceSends
  <2>2. CASE items' = Append(items, Item(m)) /\ UNCHANGED dropped
    BY <1>1, <1>2, <2>2, AppendSends
  <2>3. ASSUME NEW i \in Victim(m.kind), Full, dropped' = dropped + 1,
               items' = Append(RemoveAt(items, i), Item(m))
        PROVE  /\ items' \in Seq(Queue) /\ Carried' /\ dropped' \in Nat
               /\ Displaced
    <3>1. /\ items' \in Seq(Queue) /\ Carried'
          /\ \E last \in 1..Len(QueueBar) : \E first \in 1..last :
                /\ \A k \in first..last :
                      /\ QueueBar[k] \in 1..Len(sent)
                      /\ MayGo(m.kind, sent[QueueBar[k]].kind)
                /\ QueueBar' = Append(SubSeq(QueueBar, 1, first - 1)
                                         \o SubSeq(QueueBar, last + 1, Len(QueueBar)), Number)
      BY <1>1, <2>3, DisplaceSends
    <3>2. dropped' \in Nat /\ dropped' > dropped
      BY <1>1, <2>3
    <3>3. PICK last \in 1..Len(QueueBar) : \E first \in 1..last :
                /\ \A k \in first..last :
                      /\ QueueBar[k] \in 1..Len(sent)
                      /\ MayGo(m.kind, sent[QueueBar[k]].kind)
                /\ QueueBar' = Append(SubSeq(QueueBar, 1, first - 1)
                                         \o SubSeq(QueueBar, last + 1, Len(QueueBar)), Number)
      BY <3>1
    <3>4. PICK first \in 1..last :
                /\ \A k \in first..last :
                      /\ QueueBar[k] \in 1..Len(sent)
                      /\ MayGo(m.kind, sent[QueueBar[k]].kind)
                /\ QueueBar' = Append(SubSeq(QueueBar, 1, first - 1)
                                         \o SubSeq(QueueBar, last + 1, Len(QueueBar)), Number)
      BY <3>3
    <3>5. \A k \in first..last : MayGo(m.kind, SentBar[QueueBar[k]])
      BY <1>3, <3>4
    <3>6. QueueBar' = Append(SubSeq(QueueBar, 1, first - 1)
                                \o SubSeq(QueueBar, last + 1, Len(QueueBar)), Len(SentBar) + 1)
      BY <1>2, <3>4, Zenon
    <3>7. Displaced
      BY <1>4, <2>3, <3>2, <3>5, <3>6, Zenon
    <3>. QED
      BY <3>1, <3>2, <3>7, Zenon
  <2>4. ASSUME Full, Victim(m.kind) = {}, dropped' = dropped + 1, items' = items
        PROVE  /\ items' \in Seq(Queue) /\ Carried' /\ dropped' \in Nat
               /\ Refused
    <3>1. \A i \in 1..Len(items) : ~ MayGo(m.kind, items[i].kind)
      BY <1>1, <2>4, NoVictim
    <3>2. \A k \in 1..Len(QueueBar) : \E i \in 1..Len(items) :
              QueueBar[k] \in 1..Len(sent) /\ sent[QueueBar[k]].kind = items[i].kind
      BY QueueType DEF QueueBar
    <3>3. \A k \in 1..Len(QueueBar) : ~ MayGo(m.kind, SentBar[QueueBar[k]])
      BY <1>3, <3>1, <3>2
    <3>4. QueueBar' = QueueBar
      BY <2>4 DEF QueueBar, Covers
    <3>5. Carried'
      <4>1. \A n \in 1..Len(sent) : n \in 1..Len(sent') /\ sent'[n] = sent[n]
        BY <1>1, SentGrows
      <4>2. ASSUME NEW i \in 1..Len(items)
            PROVE  /\ items[i].covers # <<>>
                   /\ \A j \in 1..Len(items[i].covers) :
                         /\ items[i].covers[j] \in 1..Len(sent')
                         /\ sent'[items[i].covers[j]].kind = items[i].kind
        BY <4>1 DEF MailInv, Carried
      <4>. QED
        BY <2>4, <4>2 DEF Carried
    <3>6. dropped' \in Nat /\ dropped' > dropped
      BY <1>1, <2>4
    <3>. QED
      BY <1>1, <1>4, <2>4, <3>3, <3>4, <3>5, <3>6
  <2>5. \/ Continues(m) /\ Coalesce /\ UNCHANGED dropped
        \/ items' = Append(items, Item(m)) /\ UNCHANGED dropped
        \/ /\ Full /\ dropped' = dropped + 1
           /\ \E i \in Victim(m.kind) : items' = Append(RemoveAt(items, i), Item(m))
        \/ Full /\ Victim(m.kind) = {} /\ dropped' = dropped + 1 /\ items' = items
    BY DEF Put
  <2>. QED
    BY <2>1, <2>2, <2>3, <2>4, <2>5, Zenon
<1>6. MailInv(M)'
  BY <1>1, <1>2, <1>5 DEF MailInv
<1>7. Delivered => Channel!Deliver
  BY DEF Channel!Deliver, SentBar, QueueBar, Covers
<1>8. Displaced => \E last \in 1..Len(QueueBar) : \E first \in 1..last :
                       Channel!Displace(m.kind, first, last)
  BY MayDisplaceIsMayGo DEF Channel!Displace, SentBar, QueueBar, Covers
<1>9. Refused => Channel!Refuse(m.kind)
  BY MayDisplaceIsMayGo DEF Channel!Refuse, SentBar, QueueBar, Covers
<1>. HIDE DEF Delivered, Displaced, Refused
<1>10. \/ Channel!Deliver
       \/ \E last \in 1..Len(QueueBar) : \E first \in 1..last :
              Channel!Displace(m.kind, first, last)
       \/ Channel!Refuse(m.kind)
  BY <1>5, <1>7, <1>8, <1>9
<1>. QED
  BY <1>1, <1>2, <1>6, <1>10 DEF Channel!Send, SentBar, QueueBar, Covers

LEMMA DrainReceives ==
    ASSUME NEW M, MailInv(M), NEW limit \in 1..Capacity, Drain(limit)
    PROVE  MailInv(M)' /\ \E k \in 1..Len(QueueBar) : Channel!Receive(k)
<1>. DEFINE n     == Len(items)
            count == IF limit < n THEN limit ELSE n
            a     == SubSeq(items, 1, count)
            b     == SubSeq(items, count + 1, n)
<1>1. /\ items \in Seq(Queue) /\ items # <<>> /\ got \in Seq(Nat)
      /\ n \in Nat /\ n # 0 /\ \A i \in 1..n : items[i] \in Queue
  BY EmptySeq, LenProperties, ElementOfSeq DEF MailInv, Drain
<1>2. /\ got' = got \o FlattenSeq([i \in 1..count |-> items[i].covers])
      /\ items' = b
      /\ UNCHANGED <<dropped, sent>>
  BY DEF Drain
<1>3. count \in 1..n /\ limit \in Nat
  BY <1>1, MailboxAssumption
<1>. HIDE DEF n, count
<1>4. /\ a \in Seq(Queue) /\ Len(a) = count /\ \A i \in 1..count : a[i] = items[i]
  BY <1>1, <1>3, Prefix DEF n
<1>5. /\ b \in Seq(Queue) /\ Len(b) = n - count /\ \A i \in 1..(n - count) : b[i] = items[count + i]
  BY <1>1, <1>3, Suffix DEF n
<1>6. items = a \o b
  <2>1. 1 \in 1..(Len(items) + 1) /\ count \in (1 - 1)..Len(items) /\ n \in count..Len(items)
    BY <1>1, <1>3 DEF n
  <2>2. a \o b = SubSeq(items, 1, n)
    BY <1>1, <2>1, ConcatAdjacentSubSeq
  <2>. QED
    BY <1>1, <2>2, SubSeqFull DEF n
<1>. HIDE DEF a, b
<1>. DEFINE fa == FlattenSeq(Covers(a))
            fb == FlattenSeq(Covers(b))
<1>7. /\ Covers(a) \in Seq(Seq(Nat)) /\ Len(Covers(a)) = count
      /\ \A i \in 1..count : Covers(a)[i] = items[i].covers
      /\ Covers(b) \in Seq(Seq(Nat))
  BY <1>4, <1>5, CoversType
<1>8. fa \in Seq(Nat) /\ fb \in Seq(Nat)
  BY <1>7, FlattenType
<1>9. QueueBar = fa \o fb
  <2>1. Covers(items) = Covers(a) \o Covers(b)
    BY <1>4, <1>5, <1>6, CoversConcat, Zenon
  <2>2. FlattenSeq(Covers(a) \o Covers(b)) = fa \o fb
    BY <1>7, FlattenConcat
  <2>. QED
    BY <2>1, <2>2, Zenon DEF QueueBar
<1>10. QueueBar' = fb
  BY <1>2 DEF QueueBar
<1>11. got' = got \o fa
  <2>1. Covers(a) = [i \in 1..count |-> items[i].covers]
    BY <1>4 DEF Covers
  <2>. QED
    BY <1>2, <2>1, Zenon
<1>12. Len(fa) >= count
  <2>1. ASSUME NEW i \in 1..Len(Covers(a))
        PROVE  Covers(a)[i] # <<>> /\ \A j \in 1..Len(Covers(a)[i]) : Covers(a)[i][j] \in Nat
    <3>1. i \in 1..n /\ Covers(a)[i] = items[i].covers
      BY <1>1, <1>3, <1>7
    <3>2. items[i].covers # <<>> /\ items[i].covers \in Seq(Nat)
      BY <1>1, <3>1 DEF MailInv, Carried, Queue, n
    <3>. QED
      BY <3>1, <3>2
  <2>2. Len(fa) >= Len(Covers(a))
    BY <1>7, <2>1, FlattenParts
  <2>. QED
    BY <1>7, <2>2
<1>. HIDE DEF fa, fb
<1>. DEFINE k == Len(fa)
<1>13. /\ k \in 1..Len(QueueBar)
       /\ SubSeq(QueueBar, 1, k) = fa
       /\ SubSeq(QueueBar, k + 1, Len(QueueBar)) = fb
  <2>1. fa # <<>> /\ <<>> \in Seq(Nat) /\ Len(<<>>) = 0
    BY <1>3, <1>12
  <2>2. (<<>> \o fa) \o fb = QueueBar
    BY <1>8, <1>9, ConcatEmptySeq
  <2>3. 1 = Len(<<>>) + 1 /\ k = Len(<<>>) + Len(fa) /\ k \in Nat
    BY <1>8, <2>1
  <2>. HIDE DEF k
  <2>4. /\ k \in 1..Len(QueueBar)
        /\ SubSeq(QueueBar, k + 1, Len(QueueBar)) = fb
    BY <1>8, <2>1, <2>2, <2>3, Split
  <2>5. SubSeq(QueueBar, 1, k) = fa
    <3>1. Len(fa) \in 1..Len(fa) /\ 1 \in 1..Len(fa)
      BY <1>3, <1>8, <1>12
    <3>2. SubSeq(fa \o fb, 1, Len(fa)) = SubSeq(fa, 1, Len(fa))
      BY <1>8, <3>1, SubSeqOfConcat1
    <3>. QED
      BY <1>8, <1>9, <3>2, SubSeqFull DEF k
  <2>. QED
    BY <2>4, <2>5
<1>14. Channel!Receive(k)
  <2>1. /\ got' = got \o SubSeq(QueueBar, 1, k)
        /\ QueueBar' = SubSeq(QueueBar, k + 1, Len(QueueBar))
        /\ SentBar' = SentBar /\ dropped' = dropped
    BY <1>2, <1>10, <1>11, <1>13 DEF SentBar
  <2>. HIDE DEF k
  <2>. QED
    BY <2>1 DEF Channel!Receive, SentBar, QueueBar, Covers
<1>15. MailInv(M)'
  <2>1. got' \in Seq(Nat)
    BY <1>1, <1>8, <1>11, ConcatProperties
  <2>2. Carried'
    <3>1. ASSUME NEW i \in 1..Len(b)
          PROVE  /\ b[i].covers # <<>>
                 /\ \A j \in 1..Len(b[i].covers) :
                       b[i].covers[j] \in 1..Len(sent) /\ sent[b[i].covers[j]].kind = b[i].kind
      <4>1. count + i \in 1..Len(items) /\ b[i] = items[count + i]
        BY <1>1, <1>3, <1>5 DEF n
      <4>. QED
        BY <4>1 DEF MailInv, Carried
    <3>. QED
      BY <1>2, <3>1 DEF Carried
  <2>3. items' \in Seq(Queue)
    BY <1>2, <1>5
  <2>. QED
    BY <1>2, <2>1, <2>2, <2>3 DEF MailInv
<1>. QED
  BY <1>13, <1>14, <1>15

-----------------------------------------------------------------------------
(* The items after a message is put, and after a drain. *)

LEMMA RemovedAt ==
    ASSUME NEW S, NEW s \in Seq(S), NEW i \in 1..Len(s)
    PROVE  /\ RemoveAt(s, i) \in Seq(S) /\ Len(RemoveAt(s, i)) = Len(s) - 1 /\ Len(s) \in Nat
           /\ \A k \in 1..(Len(s) - 1) : RemoveAt(s, i)[k] = IF k < i THEN s[k] ELSE s[k + 1]
<1>. DEFINE x == i - 1
            z == Len(s)
            a == SubSeq(s, 1, x)
            b == SubSeq(s, i + 1, z)
<1>1. i \in Nat /\ x \in Nat /\ z \in Nat /\ i = x + 1 /\ i <= z /\ \A k \in 1..z : s[k] \in S
  BY ElementOfSeq, LenProperties
<1>2. RemoveAt(s, i) = a \o b
  BY DEF RemoveAt
<1>. HIDE DEF x, z
<1>3. /\ a \in Seq(S) /\ Len(a) = x /\ \A k \in 1..x : a[k] = s[k]
  BY <1>1, Prefix DEF z
<1>4. /\ b \in Seq(S) /\ Len(b) = z - i /\ \A k \in 1..(z - i) : b[k] = s[i + k]
  BY <1>1, Suffix DEF z
<1>. HIDE DEF a, b
<1>5. /\ a \o b \in Seq(S) /\ Len(a \o b) = Len(a) + Len(b)
      /\ \A k \in 1..(Len(a) + Len(b)) : (a \o b)[k] = IF k <= Len(a) THEN a[k] ELSE b[k - Len(a)]
  BY <1>3, <1>4, ConcatProperties
<1>6. Len(a) + Len(b) = z - 1
  BY <1>1, <1>3, <1>4
<1>7. ASSUME NEW k \in 1..(z - 1) PROVE (a \o b)[k] = IF k < i THEN s[k] ELSE s[k + 1]
  <2>1. CASE k < i
    <3>1. k \in 1..x /\ k <= Len(a)
      BY <1>1, <1>3, <2>1
    <3>. QED
      BY <1>3, <1>5, <1>6, <2>1, <3>1
  <2>2. CASE ~ (k < i)
    <3>1. k - x \in 1..(z - i) /\ i + (k - x) = k + 1 /\ ~ (k <= Len(a))
      BY <1>1, <1>3, <2>2
    <3>2. (a \o b)[k] = b[k - x]
      BY <1>3, <1>5, <1>6, <3>1
    <3>. QED
      BY <1>4, <2>2, <3>1, <3>2
  <2>. QED
    BY <2>1, <2>2
<1>. QED
  BY <1>1, <1>2, <1>5, <1>6, <1>7 DEF z

\* Each item after a put is one from before, or the new one.
Stems(m, f) ==
    /\ f \in [1..Len(items') -> 1..(Len(items) + 1)]
    /\ \A i, j \in 1..Len(items') : i < j => f[i] < f[j]
    /\ \A i \in 1..Len(items') :
          IF f[i] = Len(items) + 1 THEN items'[i] = Item(m)
          ELSE \/ items'[i] = items[f[i]]
               \/ /\ f[i] = Len(items) /\ Continues(m)
                  /\ items'[i] = [items[f[i]] EXCEPT !.covers = Append(@, Number)]

LEMMA ItemsStem ==
    ASSUME NEW M, Sendable(M), NEW m \in M, MailInv(M), Put(m)
    PROVE  \E f : Stems(m, f)
<1>. DEFINE n == Len(items)
<1>0. n \in Nat /\ items \in Seq(Queue) /\ Item(m) \in Queue
  BY ItemType, LenProperties DEF MailInv
<1>1. CASE Continues(m) /\ Coalesce
  <2>. DEFINE l == items[n]
              e == [l EXCEPT !.covers = Append(@, Number)]
              f == [i \in 1..n |-> i]
  <2>0. items # <<>> /\ n # 0
    BY <1>0, <1>1, EmptySeq DEF Continues
  <2>1. /\ Front(items) \in Seq(Queue) /\ Len(Front(items)) = n - 1
        /\ \A i \in 1..(n - 1) : Front(items)[i] = items[i]
    BY <1>0, <2>0, FrontProperties
  <2>2. e \in Queue
    <3>1. l \in Queue
      BY <1>0, <2>0, ElementOfSeq
    <3>2. Append(l.covers, Number) \in Seq(Nat)
      BY <3>1, ItemType DEF Queue
    <3>. QED
      BY <3>1, <3>2 DEF Queue
  <2>3. items' = Append(Front(items), e)
    BY <1>1 DEF Coalesce, Last, Number
  <2>. HIDE DEF e
  <2>4. /\ Len(items') = n /\ items'[n] = e /\ \A i \in 1..(n - 1) : items'[i] = items[i]
    <3>1. (n - 1) + 1 = n
      BY <1>0
    <3>. QED
      BY <2>1, <2>2, <2>3, <3>1, AppendProperties
  <2>5. \A i \in 1..n : i = n \/ i \in 1..(n - 1)
    BY <1>0
  <2>6. Stems(m, f)
    <3>1. f \in [1..Len(items') -> 1..(n + 1)] /\ \A i, j \in 1..Len(items') : i < j => f[i] < f[j]
      BY <1>0, <2>4
    <3>2. ASSUME NEW i \in 1..Len(items')
          PROVE  /\ f[i] # n + 1
                 /\ \/ items'[i] = items[f[i]]
                    \/ /\ f[i] = n /\ Continues(m)
                       /\ items'[i] = [items[f[i]] EXCEPT !.covers = Append(@, Number)]
      <4>1. f[i] = i /\ i \in 1..n /\ n # n + 1 /\ i # n + 1
        BY <1>0, <2>4
      <4>2. CASE i = n
        BY <1>1, <2>4, <4>1, <4>2 DEF e
      <4>3. CASE i # n
        BY <2>4, <2>5, <4>1, <4>3
      <4>. QED
        BY <4>2, <4>3
    <3>. QED
      BY <3>1, <3>2 DEF Stems
  <2>. QED
    BY <2>6
<1>2. CASE items' = Append(items, Item(m))
  <2>. DEFINE f == [i \in 1..(n + 1) |-> i]
  <2>1. /\ Len(items') = n + 1 /\ items'[n + 1] = Item(m) /\ \A i \in 1..n : items'[i] = items[i]
    BY <1>0, <1>2, AppendProperties
  <2>2. Stems(m, f)
    <3>1. f \in [1..Len(items') -> 1..(n + 1)] /\ \A i, j \in 1..Len(items') : i < j => f[i] < f[j]
      BY <1>0, <2>1
    <3>2. ASSUME NEW i \in 1..Len(items')
          PROVE  IF f[i] = n + 1 THEN items'[i] = Item(m) ELSE items'[i] = items[f[i]]
      BY <1>0, <2>1
    <3>. QED
      BY <3>1, <3>2 DEF Stems
  <2>. QED
    BY <2>2
<1>3. ASSUME NEW v \in Victim(m.kind), items' = Append(RemoveAt(items, v), Item(m))
      PROVE  \E f : Stems(m, f)
  <2>. DEFINE f == [i \in 1..n |-> IF i < v THEN i ELSE i + 1]
              r == RemoveAt(items, v)
  <2>1. v \in 1..n
    BY <1>0, <1>3, VictimMayGo DEF Sendable
  <2>2. /\ r \in Seq(Queue) /\ Len(r) = n - 1
        /\ \A k \in 1..(n - 1) : r[k] = IF k < v THEN items[k] ELSE items[k + 1]
    BY <1>0, <2>1, RemovedAt
  <2>. HIDE DEF r
  <2>3. /\ Len(items') = n /\ items'[n] = Item(m) /\ \A i \in 1..(n - 1) : items'[i] = r[i]
    <3>1. items' = Append(r, Item(m)) /\ (n - 1) + 1 = n
      BY <1>0, <1>3 DEF r
    <3>. QED
      BY <1>0, <2>2, <3>1, AppendProperties
  <2>4. Stems(m, f)
    <3>1. f \in [1..Len(items') -> 1..(n + 1)] /\ \A i, j \in 1..Len(items') : i < j => f[i] < f[j]
      BY <1>0, <2>1, <2>3
    <3>2. ASSUME NEW i \in 1..Len(items')
          PROVE  IF f[i] = n + 1 THEN items'[i] = Item(m) ELSE items'[i] = items[f[i]]
      <4>1. CASE i = n
        <5>1. f[i] = n + 1
          BY <1>0, <2>1, <4>1
        <5>. QED
          BY <2>3, <4>1, <5>1
      <4>2. CASE i # n
        <5>1. i \in 1..(n - 1) /\ i \in 1..n
          BY <1>0, <2>3, <4>2
        <5>2. f[i] # n + 1 /\ r[i] = items[f[i]]
          BY <1>0, <2>1, <2>2, <5>1
        <5>. QED
          BY <2>3, <5>1, <5>2
      <4>. QED
        BY <4>1, <4>2
    <3>. QED
      BY <3>1, <3>2 DEF Stems
  <2>. QED
    BY <2>4
<1>4. CASE items' = items
  <2>. DEFINE f == [i \in 1..n |-> i]
  <2>1. f \in [1..Len(items') -> 1..(n + 1)] /\ \A i, j \in 1..Len(items') : i < j => f[i] < f[j]
    BY <1>0, <1>4
  <2>2. \A i \in 1..Len(items') : f[i] # n + 1 /\ items'[i] = items[f[i]]
    BY <1>0, <1>4
  <2>3. Stems(m, f)
    BY <2>1, <2>2 DEF Stems
  <2>. QED
    BY <2>3
<1>5. \/ Continues(m) /\ Coalesce
      \/ items' = Append(items, Item(m))
      \/ \E v \in Victim(m.kind) : items' = Append(RemoveAt(items, v), Item(m))
      \/ items' = items
  BY DEF Put
<1>. QED
  BY <1>1, <1>2, <1>3, <1>4, <1>5

LEMMA ItemsLeft ==
    ASSUME NEW M, MailInv(M), NEW limit \in 1..Capacity, Drain(limit),
           NEW count, count = IF limit < Len(items) THEN limit ELSE Len(items)
    PROVE  /\ count \in 1..Len(items) /\ Len(items) \in Nat /\ Len(items') = Len(items) - count
           /\ \A i \in 1..Len(items') : count + i \in 1..Len(items) /\ items'[i] = items[count + i]
           /\ sent' = sent
<1>. DEFINE n == Len(items)
            b == SubSeq(items, count + 1, n)
<1>1. /\ items \in Seq(Queue) /\ items # <<>>
      /\ n \in Nat /\ n # 0 /\ \A i \in 1..n : items[i] \in Queue
  BY EmptySeq, LenProperties, ElementOfSeq DEF MailInv, Drain
<1>2. items' = b /\ sent' = sent
  BY DEF Drain
<1>3. count \in 1..n
  BY <1>1, MailboxAssumption
<1>. HIDE DEF n
<1>4. /\ Len(b) = n - count /\ \A i \in 1..(n - count) : b[i] = items[count + i]
  <2>1. count \in 0..Len(items) /\ items \in Seq(Queue)
    BY <1>1, <1>3 DEF n
  <2>. QED
    BY <2>1, Suffix DEF n
<1>5. \A i \in 1..(n - count) : count + i \in 1..n
  BY <1>1, <1>3
<1>. QED
  BY <1>1, <1>2, <1>3, <1>4, <1>5 DEF n

Whole(it) ==
    it.kind = "delta" =>
        \A j \in 1..Len(it.covers) :
            /\ sent[it.covers[j]].kind = "delta"
            /\ sent[it.covers[j]].message = it.message
            /\ sent[it.covers[j]].index = it.index + j - 1

LEMMA WholeItems == MergedTextIsWhole <=> \A i \in 1..Len(items) : Whole(items[i])
BY DEF MergedTextIsWhole, Whole

\* Merging keeps the text whole.
LEMMA PutKeepsText ==
    ASSUME NEW M, Sendable(M), NEW m \in M, MailInv(M), Put(m), MergedTextIsWhole
    PROVE  MergedTextIsWhole'
<1>1. PICK f : Stems(m, f)
  BY ItemsStem
<1>2. /\ sent' = Append(sent, m) /\ Len(sent) \in Nat /\ Number \in Nat /\ items \in Seq(Queue)
      /\ Len(items) \in Nat
  BY ItemType, LenProperties DEF Put, MailInv
<1>3. /\ \A k \in 1..Len(sent) : sent'[k] = sent[k]
      /\ sent'[Number] = m
  BY <1>2, SentGrows
<1>4. ASSUME NEW k \in 1..Len(items), items[k].kind = "delta"
      PROVE  /\ \A j \in 1..Len(items[k].covers) :
                   /\ sent'[items[k].covers[j]].kind = "delta"
                   /\ sent'[items[k].covers[j]].message = items[k].message
                   /\ sent'[items[k].covers[j]].index = items[k].index + j - 1
  <2>1. \A j \in 1..Len(items[k].covers) : items[k].covers[j] \in 1..Len(sent)
    BY DEF MailInv, Carried
  <2>2. Whole(items[k])
    BY WholeItems
  <2>. QED
    BY <1>3, <1>4, <2>1, <2>2 DEF Whole
<1>6. ASSUME NEW i \in 1..Len(items'), items'[i].kind = "delta"
      PROVE  \A j \in 1..Len(items'[i].covers) :
                 /\ sent'[items'[i].covers[j]].kind = "delta"
                 /\ sent'[items'[i].covers[j]].message = items'[i].message
                 /\ sent'[items'[i].covers[j]].index = items'[i].index + j - 1
  <2>0. f[i] \in 1..(Len(items) + 1)
    BY <1>1 DEF Stems
  <2>1. CASE f[i] = Len(items) + 1
    <3>1. items'[i] = Item(m)
      BY <1>1, <2>1 DEF Stems
    <3>2. /\ items'[i].covers = <<Number>> /\ items'[i].kind = m.kind
          /\ items'[i].message = m.message /\ items'[i].index = m.index
      BY <3>1 DEF Item, Number
    <3>3. \A j \in 1..Len(<<Number>>) : <<Number>>[j] = Number /\ j = 1
      OBVIOUS
    <3>4. m.index \in Nat
      BY DEF Sendable
    <3>5. m.index = m.index + 1 - 1
      BY <3>4
    <3>. QED
      BY <1>3, <1>6, <3>2, <3>3, <3>5
  <2>2. CASE f[i] # Len(items) + 1 /\ items'[i] = items[f[i]]
    <3>1. f[i] \in 1..Len(items)
      BY <1>2, <2>0, <2>2
    <3>. QED
      BY <1>4, <1>6, <2>2, <3>1
  <2>3. CASE /\ f[i] # Len(items) + 1 /\ f[i] = Len(items) /\ Continues(m)
             /\ items'[i] = [items[f[i]] EXCEPT !.covers = Append(@, Number)]
    <3>. DEFINE l == items[f[i]]
    <3>1. f[i] \in 1..Len(items) /\ l \in Queue
      BY <1>2, <2>0, <2>3, ElementOfSeq
    <3>2. /\ items'[i].covers = Append(l.covers, Number) /\ items'[i].kind = l.kind
          /\ items'[i].message = l.message /\ items'[i].index = l.index
      BY <2>3, <3>1 DEF Queue
    <3>3. l.covers \in Seq(Nat) /\ l.index \in Nat
      BY <3>1 DEF Queue
    <3>4. l.message = m.message /\ l.index + Len(l.covers) = m.index /\ m.kind = "delta"
      BY <2>3 DEF Continues, Last
    <3>. HIDE DEF l
    <3>5. /\ Len(Append(l.covers, Number)) = Len(l.covers) + 1 /\ Len(l.covers) \in Nat
          /\ Append(l.covers, Number)[Len(l.covers) + 1] = Number
          /\ \A j \in 1..Len(l.covers) : Append(l.covers, Number)[j] = l.covers[j]
      BY <1>2, <3>3, NumberAppended
    <3>6. ASSUME NEW j \in 1..(Len(l.covers) + 1)
          PROVE  /\ sent'[items'[i].covers[j]].kind = "delta"
                 /\ sent'[items'[i].covers[j]].message = items'[i].message
                 /\ sent'[items'[i].covers[j]].index = items'[i].index + j - 1
      <4>1. CASE j = Len(l.covers) + 1
        <5>1. sent'[items'[i].covers[j]] = m
          BY <1>3, <3>2, <3>5, <4>1
        <5>2. items'[i].index + j - 1 = l.index + Len(l.covers)
          BY <3>2, <3>3, <3>5, <4>1
        <5>. QED
          BY <3>2, <3>4, <5>1, <5>2
      <4>2. CASE j # Len(l.covers) + 1
        <5>1. j \in 1..Len(l.covers)
          BY <3>5, <4>2
        <5>2. items'[i].covers[j] = l.covers[j]
          BY <3>2, <3>5, <5>1
        <5>3. l.kind = "delta"
          BY <1>6, <3>2
        <5>. QED
          BY <1>4, <3>1, <3>2, <5>1, <5>2, <5>3 DEF l
      <4>. QED
        BY <4>1, <4>2
    <3>. QED
      BY <3>2, <3>5, <3>6
  <2>4. \/ f[i] = Len(items) + 1
        \/ f[i] # Len(items) + 1 /\ items'[i] = items[f[i]]
        \/ /\ f[i] # Len(items) + 1 /\ f[i] = Len(items) /\ Continues(m)
           /\ items'[i] = [items[f[i]] EXCEPT !.covers = Append(@, Number)]
    BY <1>1 DEF Stems
  <2>. QED
    BY <2>1, <2>2, <2>3, <2>4
<1>. QED
  BY <1>6 DEF MergedTextIsWhole

LEMMA DrainKeepsText ==
    ASSUME NEW M, MailInv(M), NEW limit \in 1..Capacity, Drain(limit), MergedTextIsWhole
    PROVE  MergedTextIsWhole'
<1>. DEFINE count == IF limit < Len(items) THEN limit ELSE Len(items)
<1>1. /\ \A i \in 1..Len(items') : count + i \in 1..Len(items) /\ items'[i] = items[count + i]
      /\ sent' = sent
  BY ItemsLeft
<1>. HIDE DEF count
<1>2. \A i \in 1..Len(items) : Whole(items[i])
  BY WholeItems
<1>3. ASSUME NEW i \in 1..Len(items') PROVE Whole(items[i])'
  <2>1. Whole(items[count + i]) /\ items'[i] = items[count + i]
    BY <1>1, <1>2
  <2>. QED
    BY <1>1, <2>1 DEF Whole
<1>. QED
  BY <1>3 DEF MergedTextIsWhole, Whole

-----------------------------------------------------------------------------
(* The mailbox by itself. *)

StreamOK    == stream \in [message : 0..Streams, index : Nat]
MailboxInv  == MailInv(Message) /\ StreamOK

LEMMA ChannelStutter ==
    ASSUME UNCHANGED <<items, sent, got, dropped>>
    PROVE  UNCHANGED Channel!channelVars
BY DEF Channel!channelVars

LEMMA MailUnchanged ==
    ASSUME NEW M, MailInv(M), UNCHANGED <<items, sent, got, dropped>>
    PROVE  MailInv(M)'
<1>1. Carried'
  <2>1. ASSUME NEW i \in 1..Len(items)
        PROVE  /\ items[i].covers # <<>>
               /\ \A j \in 1..Len(items[i].covers) :
                     /\ items[i].covers[j] \in 1..Len(sent)
                     /\ sent[items[i].covers[j]].kind = items[i].kind
    BY DEF MailInv, Carried
  <2>. QED
    BY <2>1 DEF Carried
<1>. QED
  BY <1>1 DEF MailInv

LEMMA EmptyMailbox ==
    ASSUME NEW M, items = <<>>, sent = <<>>, got = <<>>, dropped = 0
    PROVE  MailInv(M) /\ Channel!Init
<1>1. Covers(items) = <<>>
  BY DEF Covers
<1>2. QueueBar = <<>>
  BY <1>1, FlattenEmpty, Zenon DEF QueueBar
<1>3. SentBar = <<>>
  BY DEF SentBar
<1>4. Channel!Init
  BY <1>2, <1>3 DEF Channel!Init, SentBar, QueueBar, Covers
<1>. QED
  BY <1>4 DEF MailInv, Carried

LEMMA PutStep ==
    ASSUME NEW M, Sendable(M), NEW m \in M, MailInv(M), Put(m)
    PROVE  MailInv(M)' /\ Channel!Next
<1>1. MailInv(M)' /\ Channel!Send(m.kind) /\ m.kind \in Kind
  BY PutSends DEF Sendable
<1>2. Kind = Channel!Kind
  BY DEF Kind, L!Kind, Channel!Kind, L!Droppable, L!Protected, L!Critical, L!Reply,
         Channel!Droppable, Channel!Protected, Channel!Critical, Channel!Reply
<1>. QED
  BY <1>1, <1>2 DEF Channel!Next

LEMMA DrainStep ==
    ASSUME NEW M, MailInv(M), NEW limit \in 1..Capacity, Drain(limit)
    PROVE  MailInv(M)' /\ Channel!Next
<1>1. MailInv(M)' /\ \E k \in 1..Len(QueueBar) : Channel!Receive(k)
  BY DrainReceives
<1>. QED
  BY <1>1 DEF Channel!Next, QueueBar, Covers

LEMMA Deltas ==
    /\ Kind = {"delta", "output", "tool", "turn", "final", "reply"}
    /\ Critical = {"final"}
BY DEF Kind, Critical, L!Kind, L!Droppable, L!Protected, L!Critical, L!Reply

LEMMA MessagesAreSendable == Sendable(Message)
BY DEF Sendable, Message

LEMMA MailboxStep ==
    ASSUME MailboxInv, [Next]_vars
    PROVE  MailboxInv' /\ [Channel!Next]_(Channel!channelVars)
<1>. USE DEF MailboxInv
<1>0. Streams \in Nat /\ stream.message \in 0..Streams /\ stream.index \in Nat
  BY MailboxAssumption DEF StreamOK
<1>1. CASE PutDelta
  <2>. DEFINE m == [kind |-> "delta", message |-> stream.message, index |-> stream.index]
  <2>1. m \in Message
    BY <1>0, Deltas DEF Message
  <2>2. Put(m)
    BY <1>1 DEF PutDelta
  <2>3. StreamOK'
    BY <1>0, <1>1 DEF PutDelta, StreamOK
  <2>. HIDE DEF m
  <2>. QED
    BY <2>1, <2>2, <2>3, PutStep, MessagesAreSendable
<1>2. CASE NextMessage
  <2>1. UNCHANGED <<items, sent, got, dropped>>
    BY <1>2 DEF NextMessage
  <2>2. StreamOK'
    BY <1>0, <1>2 DEF NextMessage, StreamOK
  <2>. QED
    BY <2>1, <2>2, ChannelStutter, MailUnchanged
<1>3. ASSUME NEW kind \in Kind \ {"delta"}, PutOther(kind)
      PROVE  MailboxInv' /\ [Channel!Next]_(Channel!channelVars)
  <2>. DEFINE m == [kind |-> kind, message |-> 0, index |-> 0]
  <2>1. m \in Message
    BY <1>0 DEF Message
  <2>2. Put(m) /\ StreamOK'
    BY <1>3 DEF PutOther, StreamOK
  <2>. HIDE DEF m
  <2>. QED
    BY <2>1, <2>2, PutStep, MessagesAreSendable
<1>4. ASSUME NEW limit \in 1..Capacity, Drain(limit)
      PROVE  MailboxInv' /\ [Channel!Next]_(Channel!channelVars)
  <2>1. StreamOK'
    BY <1>4 DEF Drain, StreamOK
  <2>. QED
    BY <1>4, <2>1, DrainStep
<1>5. CASE Close \/ UNCHANGED vars
  <2>1. UNCHANGED <<items, sent, got, dropped>> /\ StreamOK'
    BY <1>5 DEF Close, vars, StreamOK
  <2>. QED
    BY <2>1, ChannelStutter, MailUnchanged
<1>. QED
  BY <1>1, <1>2, <1>3, <1>4, <1>5 DEF Next

LEMMA MailboxStart == Init => MailboxInv /\ Channel!Init
<1>1. ASSUME Init PROVE MailInv(Message) /\ Channel!Init
  BY <1>1, EmptyMailbox DEF Init
<1>2. ASSUME Init PROVE StreamOK
  BY <1>2, MailboxAssumption DEF Init, StreamOK
<1>. QED
  BY <1>1, <1>2 DEF MailboxInv

\* In every state of the mailbox by itself: what an item carries is of its own
\* kind and was sent in the order of the queue, and the deltas of a message are
\* numbered without gaps (TuiMailbox.put, drain).
THEOREM MailboxInvariance == Spec => []MailboxInv
<1>1. Init => MailboxInv
  BY MailboxStart
<1>2. MailboxInv /\ [Next]_vars => MailboxInv'
  BY MailboxStep
<1>. QED
  BY <1>1, <1>2, PTL DEF Spec

\* The mailbox is the lossy channel, its queue being the sends that the items
\* stand for, one after the other: merging deltas is invisible, and making room
\* gives up only what may be given up, at a loss that is counted
\* (TuiMailbox.put, _coalesce_delta, _make_room).
THEOREM MailboxIsChannel == Spec => ImplementsChannel
<1>1. Init => Channel!Init
  BY MailboxStart
<1>2. MailboxInv /\ [Next]_vars => [Channel!Next]_(Channel!channelVars)
  BY MailboxStep
<1>. QED
  BY <1>1, <1>2, MailboxInvariance, PTL DEF Spec, ImplementsChannel, Channel!Spec

LEMMA WholeUnchanged ==
    ASSUME MergedTextIsWhole, UNCHANGED <<items, sent>>
    PROVE  MergedTextIsWhole'
BY DEF MergedTextIsWhole

LEMMA WholeStep ==
    ASSUME MailboxInv, MergedTextIsWhole, [Next]_vars
    PROVE  MergedTextIsWhole'
<1>. USE DEF MailboxInv
<1>0. Streams \in Nat /\ stream.message \in 0..Streams /\ stream.index \in Nat
  BY MailboxAssumption DEF StreamOK
<1>1. CASE PutDelta
  <2>. DEFINE m == [kind |-> "delta", message |-> stream.message, index |-> stream.index]
  <2>1. m \in Message /\ Put(m)
    BY <1>0, <1>1, Deltas DEF Message, PutDelta
  <2>. HIDE DEF m
  <2>. QED
    BY <2>1, PutKeepsText, MessagesAreSendable
<1>2. ASSUME NEW kind \in Kind \ {"delta"}, PutOther(kind)
      PROVE  MergedTextIsWhole'
  <2>. DEFINE m == [kind |-> kind, message |-> 0, index |-> 0]
  <2>1. m \in Message /\ Put(m)
    BY <1>0, <1>2 DEF Message, PutOther
  <2>. HIDE DEF m
  <2>. QED
    BY <2>1, PutKeepsText, MessagesAreSendable
<1>3. ASSUME NEW limit \in 1..Capacity, Drain(limit)
      PROVE  MergedTextIsWhole'
  BY <1>3, DrainKeepsText
<1>4. CASE NextMessage \/ Close \/ UNCHANGED vars
  BY <1>4, WholeUnchanged DEF NextMessage, Close, vars
<1>. QED
  BY <1>1, <1>2, <1>3, <1>4 DEF Next

\* A merged delta has the pieces of one message from its index on, without a
\* gap, whatever was given up around it (TuiMailbox._coalesce_delta).
THEOREM TextIsMergedWhole == Spec => []MergedTextIsWhole
<1>1. Init => MergedTextIsWhole
  BY DEF Init, MergedTextIsWhole
<1>2. MailboxInv /\ MergedTextIsWhole /\ [Next]_vars => MergedTextIsWhole'
  BY WholeStep
<1>. QED
  BY <1>1, <1>2, MailboxInvariance, PTL DEF Spec

\* A message that closes a turn is in the mailbox after it is put, or all the
\* mailbox holds is as important.
Admitted ==
    sent' # sent /\ Last(sent').kind \in Critical =>
        \/ \E i \in 1..Len(items') : Last(items'[i].covers) = Len(sent')
        \/ \A i \in 1..Len(items) : items[i].kind \in Critical \cup {"reply"}

LEMMA PutAdmits ==
    ASSUME NEW M, Sendable(M), NEW m \in M, MailInv(M), Put(m)
    PROVE  Admitted
<1>. SUFFICES ASSUME Last(sent').kind \in Critical
              PROVE  \/ \E i \in 1..Len(items') : Last(items'[i].covers) = Len(sent')
                     \/ \A i \in 1..Len(items) : items[i].kind \in Critical \cup {"reply"}
  BY DEF Admitted
<1>1. /\ sent' = Append(sent, m) /\ Len(sent') = Number /\ sent'[Number] = m
      /\ Number \in Nat /\ Item(m) \in Queue /\ Item(m).covers = <<Number>>
  BY SentGrows, ItemType DEF Put
<1>2. m.kind = "final" /\ m.kind \in Kind /\ m.kind \in Critical
  BY <1>1, Deltas DEF Last, Sendable
<1>3. ASSUME NEW its \in Seq(Queue), items' = Append(its, Item(m))
      PROVE  \E i \in 1..Len(items') : Last(items'[i].covers) = Len(sent')
  <2>1. Len(its) + 1 \in 1..Len(items') /\ items'[Len(its) + 1] = Item(m)
    BY <1>1, <1>3, AppendProperties, LenProperties
  <2>2. Last(<<Number>>) = Number
    BY DEF Last
  <2>. QED
    BY <1>1, <2>1, <2>2
<1>4. items \in Seq(Queue)
  BY DEF MailInv
<1>5. \A v \in Victim(m.kind) : RemoveAt(items, v) \in Seq(Queue)
  BY <1>2, <1>4, VictimMayGo, RemovedAt
<1>6. ASSUME Victim(m.kind) = {}
      PROVE  \A i \in 1..Len(items) : items[i].kind \in Critical \cup {"reply"}
  <2>1. \A i \in 1..Len(items) : ~ MayGo(m.kind, items[i].kind)
    BY <1>2, <1>4, <1>6, NoVictim
  <2>. QED
    BY <1>2, <2>1 DEF MayGo
<1>7. ~ Continues(m)
  BY <1>2 DEF Continues
<1>. QED
  BY <1>3, <1>4, <1>5, <1>6, <1>7 DEF Put

\* A final event that is put is in the queue afterwards, unless all that is there
\* is as important as it (TuiMailbox._make_room).
THEOREM CriticalIsKept == Spec => CriticalKept
<1>. DEFINE A == sent' # sent /\ Last(sent').kind \in Critical =>
                     \/ \E i \in 1..Len(items') : Last(items'[i].covers) = Len(sent')
                     \/ \A i \in 1..Len(items) : items[i].kind \in Critical \cup {"reply"}
<1>1. ASSUME MailboxInv, Next PROVE A
  <2>. USE <1>1 DEF MailboxInv
  <2>0. Streams \in Nat /\ stream.message \in 0..Streams /\ stream.index \in Nat
    BY MailboxAssumption DEF StreamOK
  <2>1. CASE PutDelta
    <3>. DEFINE m == [kind |-> "delta", message |-> stream.message, index |-> stream.index]
    <3>1. m \in Message /\ Put(m)
      BY <2>0, <2>1, Deltas DEF Message, PutDelta
    <3>. HIDE DEF m
    <3>2. Admitted
      BY <3>1, PutAdmits, MessagesAreSendable
    <3>. QED
      BY <3>2 DEF Admitted
  <2>2. ASSUME NEW kind \in Kind \ {"delta"}, PutOther(kind)
        PROVE  A
    <3>. DEFINE m == [kind |-> kind, message |-> 0, index |-> 0]
    <3>1. m \in Message /\ Put(m)
      BY <2>0, <2>2 DEF Message, PutOther
    <3>. HIDE DEF m
    <3>2. Admitted
      BY <3>1, PutAdmits, MessagesAreSendable
    <3>. QED
      BY <3>2 DEF Admitted
  <2>3. ASSUME UNCHANGED sent PROVE A
    BY <2>3
  <2>4. ASSUME NEW limit \in 1..Capacity, Drain(limit) PROVE UNCHANGED sent
    BY <2>4 DEF Drain
  <2>5. NextMessage \/ Close => UNCHANGED sent
    BY DEF NextMessage, Close
  <2>. QED
    BY <2>1, <2>2, <2>3, <2>4, <2>5 DEF Next
<1>2. MailboxInv /\ [Next]_vars => [A]_vars
  BY <1>1
<1>. QED
  BY <1>2, MailboxInvariance, PTL DEF Spec, CriticalKept

-----------------------------------------------------------------------------
(* The mailbox with the Runtime and the projector at its ends. *)

Piece  == Nat \X Nat
Types  == {"started", "user", "delta", "message", "error", "aborted", "finished", "other"}
Letter == [kind : Kind, type : Types, run : Nat, message : 0..Streams, index : Nat,
           text : Seq(Piece)]

RunOK ==
    /\ run \in [n : Nat, on : BOOLEAN, asked : BOOLEAN, open : BOOLEAN, failed : BOOLEAN,
                latest : [id : 0..Streams, text : Seq(Piece)], others : Nat]

DeliveryInv == MailInv(Letter) /\ StreamOK /\ RunOK

LEMMA LettersAreSendable == Sendable(Letter)
BY DEF Sendable, Letter

LEMMA TextType ==
    ASSUME NEW m \in Nat, NEW k \in Nat
    PROVE  Text(m, k) \in Seq(Piece)
<1>1. Text(m, k) \in [1..k -> Piece]
  BY DEF Text, Piece
<1>. QED
  BY <1>1, FunctionIsSeq

LEMMA WordsType ==
    ASSUME NEW r \in Nat
    PROVE  Words(r) \in Seq(Piece)
<1>1. <<0, r>> \in Piece
  BY DEF Piece
<1>. QED
  BY <1>1 DEF Words

LEMMA TellType ==
    ASSUME NEW kind \in Kind, NEW type \in Types, NEW r \in Nat, NEW m \in 0..Streams,
           NEW text \in Seq(Piece)
    PROVE  Tell(kind, type, r, m, text) \in Letter
BY DEF Tell, Letter

LEMMA Vocabulary ==
    /\ "turn" \in Kind /\ "tool" \in Kind /\ "delta" \in Kind /\ "final" \in Kind
    /\ "output" \in Kind /\ "reply" \in Kind
    /\ "started" \in Types /\ "user" \in Types /\ "delta" \in Types /\ "message" \in Types
    /\ "error" \in Types /\ "aborted" \in Types /\ "finished" \in Types /\ "other" \in Types
BY Deltas DEF Types

LEMMA DeliveryStart == TranscriptInit => DeliveryInv /\ Channel!Init
<1>1. ASSUME TranscriptInit PROVE MailInv(Letter) /\ Channel!Init
  BY <1>1, EmptyMailbox DEF TranscriptInit
<1>2. ASSUME TranscriptInit PROVE StreamOK /\ RunOK
  BY <1>2, MailboxAssumption DEF TranscriptInit, StreamOK, RunOK, NoMessage
<1>. QED
  BY <1>1, <1>2 DEF DeliveryInv

\* What the Runtime does puts a letter, except for the opening of a message.
LEMMA PutAction ==
    ASSUME DeliveryInv, TranscriptNext, ~ OpenMessage, ~ \E limit \in 1..Capacity : Poll(limit)
    PROVE  \E m \in Letter : Put(m) /\ view' = view /\ StreamOK' /\ RunOK'
<1>. USE DEF DeliveryInv
<1>0. /\ Streams \in Nat /\ stream.message \in 0..Streams /\ stream.index \in Nat /\ run.n \in Nat
      /\ run.latest.id \in 0..Streams /\ run.latest.text \in Seq(Piece)
      /\ run.n + 1 \in Nat /\ 0 \in 0..Streams /\ <<>> \in Seq(Piece)
  BY MailboxAssumption DEF StreamOK, RunOK
<1>1. CASE TurnStarted
  <2>1. Tell("turn", "started", run.n + 1, 0, <<>>) \in Letter
    BY <1>0, TellType, Vocabulary
  <2>2. StreamOK' /\ RunOK' /\ view' = view /\ Put(Tell("turn", "started", run.n + 1, 0, <<>>))
    BY <1>0, <1>1 DEF TurnStarted, StreamOK, RunOK, NoMessage
  <2>. QED
    BY <2>1, <2>2
<1>2. CASE UserMessage
  <2>1. Tell("tool", "user", run.n, 0, <<>>) \in Letter
    BY <1>0, TellType, Vocabulary
  <2>2. StreamOK' /\ RunOK' /\ view' = view /\ Put(Tell("tool", "user", run.n, 0, <<>>))
    BY <1>0, <1>2 DEF UserMessage, StreamOK, RunOK
  <2>. QED
    BY <2>1, <2>2
<1>4. CASE AssistantDelta
  <2>. DEFINE m == [Tell("delta", "delta", run.n, stream.message, <<>>) EXCEPT !.index = stream.index]
  <2>1. m \in Letter
    <3>1. Tell("delta", "delta", run.n, stream.message, <<>>) \in Letter
      BY <1>0, TellType, Vocabulary
    <3>. QED
      BY <1>0, <3>1 DEF Letter
  <2>2. StreamOK' /\ RunOK' /\ view' = view /\ Put(m)
    BY <1>0, <1>4 DEF AssistantDelta, StreamOK, RunOK
  <2>. HIDE DEF m
  <2>. QED
    BY <2>1, <2>2
<1>5. CASE AssistantMessage
  <2>1. PICK calls \in BOOLEAN,
             k \in IF stream.index = 0 THEN {0, 1} ELSE {stream.index} :
             /\ Put(Tell("final", "message", run.n, stream.message, Text(stream.message, k)))
             /\ run' = [run EXCEPT !.open = FALSE,
                                   !.latest = Observe(calls, stream.message, Text(stream.message, k))]
    BY <1>5 DEF AssistantMessage
  <2>2. k \in Nat /\ stream.message \in Nat
    BY <1>0
  <2>3. Text(stream.message, k) \in Seq(Piece)
    BY <2>2, TextType
  <2>4. Tell("final", "message", run.n, stream.message, Text(stream.message, k)) \in Letter
    BY <1>0, <2>3, TellType, Vocabulary
  <2>5. Observe(calls, stream.message, Text(stream.message, k)) \in [id : 0..Streams, text : Seq(Piece)]
    BY <1>0, <2>3 DEF Observe, NoMessage
  <2>6. StreamOK' /\ RunOK' /\ view' = view
    BY <1>5, <2>1, <2>5 DEF AssistantMessage, StreamOK, RunOK
  <2>. QED
    BY <2>1, <2>4, <2>6
<1>6. CASE ErrorEvent
  <2>1. Tell("final", "error", run.n, 0, <<>>) \in Letter
    BY <1>0, TellType, Vocabulary
  <2>2. StreamOK' /\ RunOK' /\ view' = view /\ Put(Tell("final", "error", run.n, 0, <<>>))
    BY <1>0, <1>6 DEF ErrorEvent, StreamOK, RunOK
  <2>. QED
    BY <2>1, <2>2
<1>7. CASE AssistantMessageAborted
  <2>1. Tell("final", "aborted", run.n, stream.message, <<>>) \in Letter
    BY <1>0, TellType, Vocabulary
  <2>2. StreamOK' /\ RunOK' /\ view' = view /\ Put(Tell("final", "aborted", run.n, stream.message, <<>>))
    BY <1>0, <1>7 DEF AssistantMessageAborted, StreamOK, RunOK, NoMessage
  <2>. QED
    BY <2>1, <2>2
<1>8. CASE TurnFinished
  <2>1. PICK text \in {run.latest.text, Words(run.n)} \ {<<>>} :
             Put(Tell("final", "finished", run.n, run.latest.id, text))
    BY <1>8 DEF TurnFinished
  <2>2. text \in Seq(Piece)
    BY <1>0, WordsType
  <2>3. Tell("final", "finished", run.n, run.latest.id, text) \in Letter
    BY <1>0, <2>2, TellType, Vocabulary
  <2>4. StreamOK' /\ RunOK' /\ view' = view
    BY <1>0, <1>8 DEF TurnFinished, StreamOK, RunOK
  <2>. QED
    BY <2>1, <2>3, <2>4
<1>9. ASSUME NEW kind \in {"output", "reply"}, Other(kind)
      PROVE  \E m \in Letter : Put(m) /\ view' = view /\ StreamOK' /\ RunOK'
  <2>1. Tell(kind, "other", run.n, 0, <<>>) \in Letter
    BY <1>0, TellType, Vocabulary
  <2>2. StreamOK' /\ RunOK'
    <3>1. stream' = stream /\ run' = [run EXCEPT !.others = @ + 1]
      BY <1>9 DEF Other
    <3>. QED
      BY <3>1 DEF StreamOK, RunOK
  <2>3. view' = view /\ Put(Tell(kind, "other", run.n, 0, <<>>))
    BY <1>9 DEF Other
  <2>. QED
    BY <2>1, <2>2, <2>3
<1>. QED
  BY <1>1, <1>2, <1>4, <1>5, <1>6, <1>7, <1>8, <1>9 DEF TranscriptNext

LEMMA DeliveryStep ==
    ASSUME DeliveryInv, [TranscriptNext]_transcriptVars
    PROVE  DeliveryInv' /\ [Channel!Next]_(Channel!channelVars)
<1>. USE DEF DeliveryInv
<1>0. Streams \in Nat /\ stream.message \in 0..Streams
  BY MailboxAssumption DEF StreamOK
<1>1. CASE OpenMessage
  <2>1. UNCHANGED <<items, sent, got, dropped>>
    BY <1>1 DEF OpenMessage
  <2>2. StreamOK'
    <3>1. stream' = [message |-> stream.message + 1, index |-> 0] /\ stream.message < Streams
      BY <1>1 DEF OpenMessage
    <3>2. stream.message + 1 \in 0..Streams
      BY <1>0, <3>1
    <3>. QED
      BY <3>1, <3>2 DEF StreamOK
  <2>3. RunOK'
    BY <1>1 DEF OpenMessage, RunOK
  <2>. QED
    BY <2>1, <2>2, <2>3, ChannelStutter, MailUnchanged
<1>2. ASSUME NEW limit \in 1..Capacity, Poll(limit)
       PROVE  DeliveryInv' /\ [Channel!Next]_(Channel!channelVars)
  <2>1. Drain(limit) /\ run' = run
    BY <1>2 DEF Poll
  <2>2. StreamOK' /\ RunOK'
    BY <2>1 DEF Drain, StreamOK, RunOK
  <2>. QED
    BY <2>1, <2>2, DrainStep
<1>3. CASE UNCHANGED transcriptVars
  <2>1. UNCHANGED <<items, sent, got, dropped>> /\ StreamOK' /\ RunOK'
    BY <1>3 DEF transcriptVars, StreamOK, RunOK
  <2>. QED
    BY <2>1, ChannelStutter, MailUnchanged
<1>4. ASSUME TranscriptNext, ~ OpenMessage, ~ \E limit \in 1..Capacity : Poll(limit)
      PROVE  DeliveryInv' /\ [Channel!Next]_(Channel!channelVars)
  <2>1. PICK m \in Letter : Put(m) /\ StreamOK' /\ RunOK'
    BY <1>4, PutAction
  <2>. QED
    BY <2>1, PutStep, LettersAreSendable
<1>. QED
  BY <1>1, <1>2, <1>3, <1>4

\* In every state of the mailbox between the Runtime and the projector: what the
\* items carry is in order and of their kind, and the Runtime's messages are
\* numbered (TuiMailbox.put).
THEOREM DeliveryInvariance == TranscriptSpec => []DeliveryInv
<1>1. TranscriptInit => DeliveryInv
  BY DeliveryStart
<1>2. DeliveryInv /\ [TranscriptNext]_transcriptVars => DeliveryInv'
  BY DeliveryStep
<1>. QED
  BY <1>1, <1>2, PTL DEF TranscriptSpec

\* With the Runtime and the projector at its ends the mailbox is the same lossy
\* channel (TuiMailbox.put, drain).
THEOREM DeliveryIsChannel == TranscriptSpec => ImplementsChannel
<1>1. TranscriptInit => Channel!Init
  BY DeliveryStart
<1>2. DeliveryInv /\ [TranscriptNext]_transcriptVars => [Channel!Next]_(Channel!channelVars)
  BY DeliveryStep
<1>. QED
  BY <1>1, <1>2, DeliveryInvariance, PTL DEF TranscriptSpec, ImplementsChannel, Channel!Spec

-----------------------------------------------------------------------------
(* The text that is shown. *)

\* A message that does not end the deltas of message m.
Passing(e, m) == e.type = "other" \/ (e.type = "delta" /\ e.message = m)

\* What the Runtime says in its letters.
Truthful(e) ==
    /\ e.message > 0 => e.run \in 1..Runs
    /\ e.type = "delta" <=> e.kind = "delta"
    /\ e.type \in {"delta", "message", "aborted"} => e.message > 0
    /\ e.type = "message" => e.text = Text(e.message, Len(e.text))
    /\ e.type = "finished" /\ e.message > 0 =>
          e.text = Text(e.message, Len(e.text)) \/ e.text = Words(e.run)

\* A message is of one run, and its deltas are told before anything ends them.
ToldInOrder ==
    /\ \A n \in 1..Len(sent) : Truthful(sent[n]) /\ sent[n].message <= stream.message
    /\ \A n, k \in 1..Len(sent) :
          sent[n].message = sent[k].message /\ sent[n].message > 0 => sent[n].run = sent[k].run
    /\ \A a, b \in 1..Len(sent) : \A c \in 1..a :
          /\ a < b /\ sent[c].message > 0 /\ ~ Passing(sent[a], sent[c].message)
          /\ sent[b].type = "delta"
          => sent[b].message # sent[c].message

\* The Runtime, and what it has told of its open message and its latest one.
Telling ==
    /\ run.n \in 0..Runs
    /\ run.on => run.n > 0
    /\ run.open =>
          /\ run.on /\ run.asked /\ stream.message > 0
          /\ \A n \in 1..Len(sent) : sent[n].message = stream.message => sent[n].run = run.n
    /\ run.open /\ ~ run.failed =>
          \A a \in 1..Len(sent) : \A c \in 1..a :
              sent[c].message = stream.message => Passing(sent[a], stream.message)
    /\ run.latest.id # 0 =>
          /\ run.latest.text = Text(run.latest.id, Len(run.latest.text))
          /\ \E n \in 1..Len(sent) : sent[n].message = run.latest.id /\ sent[n].run = run.n

\* The items are in the order of the sends.
InOrder ==
    \A i, j \in 1..Len(items) : i < j => items[i].covers[1] < items[j].covers[1]

\* An entry, and the message it stands for.
Shown(e) ==
    e.id > 0 => \/ e.text = Text(e.id, Len(e.text))
                \/ ~ e.provisional /\ e.text = Words(RunOf(e.id))

Unshown(v, m)  == v.next[m] = 0 /\ \A i \in 1..Len(v.entries) : v.entries[i].id # m
Growing(v, m)  == v.next[m] > 0 /\ IsLast(v, m) /\ Last(v.entries).text = Text(m, v.next[m])
Over(m, p)     == \E a \in 1..Len(sent) : \E c \in 1..a :
                      a < p /\ sent[c].message = m /\ ~ Passing(sent[a], m)

\* The view v when all that is told before p is known or lost.
Reading(v, p) ==
    /\ \A i \in 1..Len(v.entries) : Shown(v.entries[i])
    /\ \A m \in 1..Streams :
          /\ Unshown(v, m) \/ Growing(v, m) \/ Over(m, p)
          /\ ~ Unshown(v, m) => \E c \in 1..Len(sent) : c < p /\ sent[c].message = m

Reads ==
    \E p \in 1..(Len(sent) + 1) :
        Reading(view, p) /\ \A i \in 1..Len(items) : p <= items[i].covers[1]

Shelf == [id : {i \in Int : i <= Streams}, text : Seq(Piece), provisional : BOOLEAN]
View  == [run : Nat, candidate : Nat, last : Seq(Piece), busy : BOOLEAN,
          next : [1..Streams -> Nat], entries : Seq(Shelf)]

TranscriptInv ==
    DeliveryInv /\ view \in View /\ ToldInOrder /\ Telling /\ InOrder /\ MergedTextIsWhole /\ Reads

-----------------------------------------------------------------------------
(* The Runtime's side: what is told, and in which order. *)

LEMMA PutTells ==
    ASSUME MailInv(Letter), ToldInOrder, NEW m \in Letter, sent' = Append(sent, m),
           stream \in [message : 0..Streams, index : Nat],
           stream'.message = stream.message,
           Truthful(m), m.message <= stream.message,
           \A n \in 1..Len(sent) : sent[n].message = m.message /\ m.message > 0 => sent[n].run = m.run,
           m.type = "delta" => \A a \in 1..Len(sent) : \A c \in 1..a :
                                   sent[c].message = m.message => Passing(sent[a], m.message)
    PROVE  ToldInOrder'
<1>1. /\ sent \in Seq(Letter) /\ Len(sent) \in Nat /\ Len(sent') = Len(sent) + 1
      /\ sent'[Len(sent) + 1] = m /\ \A n \in 1..Len(sent) : sent'[n] = sent[n]
  BY AppendProperties, LenProperties DEF MailInv
<1>2. \A n \in 1..Len(sent') : n = Len(sent) + 1 \/ n \in 1..Len(sent)
  BY <1>1
<1>3. \A n \in 1..Len(sent) : Truthful(sent[n]) /\ sent[n].message <= stream.message
  BY DEF ToldInOrder
<1>4. ASSUME NEW n \in 1..Len(sent') PROVE Truthful(sent'[n]) /\ sent'[n].message <= stream'.message
  BY <1>1, <1>2, <1>3
<1>5. ASSUME NEW n \in 1..Len(sent'), NEW k \in 1..Len(sent'),
             sent'[n].message = sent'[k].message, sent'[n].message > 0
      PROVE  sent'[n].run = sent'[k].run
  BY <1>1, <1>2, <1>5 DEF ToldInOrder
<1>6. ASSUME NEW a \in 1..Len(sent'), NEW b \in 1..Len(sent'), NEW c \in 1..a,
             a < b, sent'[c].message > 0, ~ Passing(sent'[a], sent'[c].message), sent'[b].type = "delta"
      PROVE  sent'[b].message # sent'[c].message
  <2>1. a \in 1..Len(sent) /\ c \in 1..Len(sent) /\ sent'[a] = sent[a] /\ sent'[c] = sent[c]
    BY <1>1, <1>6
  <2>2. CASE b = Len(sent) + 1
    BY <1>1, <1>6, <2>1, <2>2
  <2>3. CASE b \in 1..Len(sent)
    BY <1>1, <1>6, <2>1, <2>3 DEF ToldInOrder
  <2>. QED
    BY <1>2, <2>2, <2>3
<1>7. /\ (\A n \in 1..Len(sent) : Truthful(sent[n]) /\ sent[n].message <= stream.message)'
  BY <1>4 DEF Truthful
<1>. QED
  BY <1>5, <1>6, <1>7 DEF ToldInOrder, Passing

\* What a letter leaves as it was, and what it adds.
LEMMA LetterPut ==
    ASSUME DeliveryInv, NEW m \in Letter, Put(m)
    PROVE  /\ sent' = Append(sent, m) /\ sent \in Seq(Letter) /\ sent' \in Seq(Letter)
           /\ Len(sent) \in Nat /\ Len(sent') = Number /\ Number = Len(sent) + 1
           /\ sent'[Number] = m
           /\ \A n \in 1..Len(sent) : n \in 1..Number /\ n # Number /\ sent'[n] = sent[n]
           /\ \A n \in 1..Number : n = Number \/ n \in 1..Len(sent)
<1>1. sent' = Append(sent, m) /\ sent \in Seq(Letter) /\ Len(sent) \in Nat
  BY LenProperties DEF Put, DeliveryInv, MailInv
<1>2. /\ sent' \in Seq(Letter) /\ Len(sent') = Number /\ sent'[Number] = m
      /\ \A n \in 1..Len(sent) : sent'[n] = sent[n]
  BY <1>1, SentGrows, LettersAreSendable DEF DeliveryInv
<1>. QED
  BY <1>1, <1>2 DEF Number

LEMMA TextLength ==
    ASSUME NEW m, NEW k \in Nat
    PROVE  Len(Text(m, k)) = k
BY DEF Text

LEMMA TellingStep ==
    ASSUME DeliveryInv, ToldInOrder, Telling, [TranscriptNext]_transcriptVars
    PROVE  ToldInOrder' /\ Telling'
<1>. USE DEF DeliveryInv
<1>0. /\ Streams \in Nat /\ Runs \in Nat /\ stream.message \in 0..Streams /\ stream.index \in Nat
      /\ run.n \in Nat /\ run.latest.id \in 0..Streams /\ run.latest.text \in Seq(Piece)
      /\ <<>> \in Seq(Piece) /\ run.n + 1 \in Nat /\ 0 \in 0..Streams
      /\ run.open \in BOOLEAN /\ run.on \in BOOLEAN /\ run.asked \in BOOLEAN /\ run.failed \in BOOLEAN
  BY MailboxAssumption, TranscriptAssumption DEF StreamOK, RunOK
<1>1. CASE TurnStarted
  <2>. DEFINE m == Tell("turn", "started", run.n + 1, 0, <<>>)
  <2>1. m \in Letter /\ Put(m) /\ stream' = stream
    BY <1>0, <1>1, TellType, Vocabulary DEF TurnStarted
  <2>2. m.message = 0 /\ m.type = "started" /\ m.kind = "turn"
    BY DEF Tell
  <2>. HIDE DEF m
  <2>3. ToldInOrder'
    BY <1>0, <2>1, <2>2, PutTells, LetterPut DEF Truthful, StreamOK
  <2>4. ~ run.open /\ run.n < Runs
    BY <1>1 DEF TurnStarted, Telling
  <2>5. /\ run'.n = run.n + 1 /\ run'.on = TRUE /\ run'.open = FALSE /\ run'.latest.id = 0
    BY <1>0, <1>1, <2>4 DEF TurnStarted, RunOK, NoMessage
  <2>. QED
    BY <1>0, <2>3, <2>4, <2>5 DEF Telling
<1>2. CASE UserMessage
  <2>. DEFINE m == Tell("tool", "user", run.n, 0, <<>>)
  <2>1. m \in Letter /\ Put(m) /\ stream' = stream
    BY <1>0, <1>2, TellType, Vocabulary DEF UserMessage
  <2>2. m.message = 0 /\ m.type = "user" /\ m.kind = "tool"
    BY DEF Tell
  <2>. HIDE DEF m
  <2>3. ToldInOrder'
    BY <1>0, <2>1, <2>2, PutTells, LetterPut DEF Truthful, StreamOK
  <2>4. ~ run.open
    BY <1>2 DEF UserMessage, Telling
  <2>5. /\ run'.n = run.n /\ run'.on = run.on /\ run'.open = run.open /\ run'.latest = run.latest
    BY <1>0, <1>2 DEF UserMessage, RunOK
  <2>. QED
    BY <1>0, <2>1, <2>3, <2>4, <2>5, LetterPut DEF Telling
<1>3. CASE OpenMessage
  <2>1. sent' = sent /\ stream' = [message |-> stream.message + 1, index |-> 0]
    BY <1>3 DEF OpenMessage
  <2>2. stream'.message = stream.message + 1
    BY <2>1
  <2>3. \A n \in 1..Len(sent) : sent[n].message \in 0..Streams /\ sent[n].message <= stream.message
    <3>1. \A n \in 1..Len(sent) : sent[n] \in Letter
      BY ElementOfSeq DEF MailInv
    <3>. QED
      BY <3>1 DEF ToldInOrder, Letter
  <2>4. ToldInOrder'
    <3>1. \A n \in 1..Len(sent) : sent[n].message <= stream.message + 1
      BY <1>0, <2>3
    <3>. QED
      BY <2>1, <2>2, <3>1 DEF ToldInOrder
  <2>5. \A n \in 1..Len(sent) : sent[n].message # stream.message + 1
    BY <1>0, <2>3
  <2>6. /\ run'.n = run.n /\ run'.on = run.on /\ run'.latest = run.latest /\ run'.asked = run.asked
        /\ run.on /\ run.asked
    BY <1>0, <1>3 DEF OpenMessage, RunOK
  <2>7. \A a \in 1..Len(sent) : \A c \in 1..a : c \in 1..Len(sent)
    BY LenProperties DEF MailInv
  <2>8. /\ stream'.message > 0
        /\ \A n \in 1..Len(sent') : sent'[n].message = stream'.message => sent'[n].run = run'.n
        /\ \A a \in 1..Len(sent') : \A c \in 1..a : sent'[c].message # stream'.message
    BY <1>0, <2>1, <2>2, <2>5, <2>7
  <2>. QED
    BY <2>1, <2>4, <2>6, <2>8 DEF Telling
<1>4. CASE AssistantDelta
  <2>. DEFINE m == [Tell("delta", "delta", run.n, stream.message, <<>>) EXCEPT !.index = stream.index]
  <2>1. m \in Letter
    <3>1. Tell("delta", "delta", run.n, stream.message, <<>>) \in Letter
      BY <1>0, TellType, Vocabulary
    <3>. QED
      BY <1>0, <3>1 DEF Letter
  <2>2. m.message = stream.message /\ m.type = "delta" /\ m.kind = "delta" /\ m.run = run.n
    BY DEF Tell
  <2>3. Put(m) /\ run' = run /\ run.open /\ ~ run.failed
    BY <1>4 DEF AssistantDelta
  <2>. HIDE DEF m
  <2>4. stream'.message = stream.message
    BY <1>0, <1>4 DEF AssistantDelta, StreamOK
  <2>5. /\ run.on /\ stream.message > 0 /\ run.n \in 1..Runs
        /\ \A n \in 1..Len(sent) : sent[n].message = stream.message => sent[n].run = run.n
        /\ \A a \in 1..Len(sent) : \A c \in 1..a :
               sent[c].message = stream.message => Passing(sent[a], stream.message)
    BY <1>0, <2>3 DEF Telling
  <2>6. Truthful(m)
    BY <2>2, <2>5 DEF Truthful
  <2>7. ToldInOrder'
    <3>1. /\ m.message <= stream.message
          /\ \A n \in 1..Len(sent) : sent[n].message = m.message => sent[n].run = m.run
          /\ \A a \in 1..Len(sent) : \A c \in 1..a :
                 sent[c].message = m.message => Passing(sent[a], m.message)
      BY <1>0, <2>2, <2>5
    <3>2. sent' = Append(sent, m) /\ stream \in [message : 0..Streams, index : Nat]
      BY <2>1, <2>3, LetterPut DEF StreamOK
    <3>. QED
      BY <2>1, <2>4, <2>6, <3>1, <3>2, PutTells
  <2>8. \A n \in 1..Len(sent') : sent'[n].message = stream.message => sent'[n].run = run.n
    BY <2>1, <2>2, <2>3, <2>5, LetterPut
  <2>9. ASSUME NEW a \in 1..Len(sent'), NEW c \in 1..a, sent'[c].message = stream.message
        PROVE  Passing(sent'[a], stream.message)
    <3>1. CASE a = Number
      BY <2>1, <2>2, <2>3, <3>1, LetterPut DEF Passing
    <3>2. CASE a # Number
      <4>1. a \in 1..Len(sent) /\ c \in 1..Len(sent) /\ sent'[a] = sent[a] /\ sent'[c] = sent[c]
        BY <2>1, <2>3, <2>9, <3>2, LetterPut
      <4>. QED
        BY <2>5, <2>9, <4>1
    <3>. QED
      BY <3>1, <3>2
  <2>10. run.latest.id # 0 =>
             /\ run.latest.text = Text(run.latest.id, Len(run.latest.text))
             /\ \E n \in 1..Len(sent') : sent'[n].message = run.latest.id /\ sent'[n].run = run.n
    BY <2>1, <2>3, LetterPut DEF Telling
  <2>. QED
    BY <2>3, <2>4, <2>5, <2>7, <2>8, <2>9, <2>10 DEF Telling, Passing
<1>5. CASE AssistantMessage
  <2>1. PICK calls \in BOOLEAN,
             k \in IF stream.index = 0 THEN {0, 1} ELSE {stream.index} :
             /\ Put(Tell("final", "message", run.n, stream.message, Text(stream.message, k)))
             /\ run' = [run EXCEPT !.open = FALSE,
                                   !.latest = Observe(calls, stream.message, Text(stream.message, k))]
    BY <1>5 DEF AssistantMessage
  <2>. DEFINE t == Text(stream.message, k)
              m == Tell("final", "message", run.n, stream.message, t)
  <2>2. k \in Nat /\ t \in Seq(Piece) /\ Len(t) = k
    <3>1. k \in Nat /\ stream.message \in Nat
      BY <1>0
    <3>. QED
      BY <3>1, TextType, TextLength
  <2>3. m \in Letter /\ Put(m) /\ stream' = stream
    BY <1>0, <1>5, <2>1, <2>2, TellType, Vocabulary DEF AssistantMessage
  <2>4. /\ m.message = stream.message /\ m.type = "message" /\ m.kind = "final" /\ m.run = run.n
        /\ m.text = Text(m.message, Len(m.text)) /\ Len(m.text) = k
    BY <2>2 DEF Tell
  <2>. HIDE DEF m
  <2>5. /\ run.on /\ stream.message > 0 /\ run.n \in 1..Runs
        /\ \A n \in 1..Len(sent) : sent[n].message = stream.message => sent[n].run = run.n
    BY <1>0, <1>5 DEF AssistantMessage, Telling
  <2>6. ToldInOrder'
    BY <1>0, <2>3, <2>4, <2>5, PutTells, LetterPut DEF Truthful, StreamOK
  <2>7. /\ run'.n = run.n /\ run'.on = run.on /\ run'.open = FALSE
        /\ run'.latest = Observe(calls, stream.message, t)
    BY <1>0, <2>1 DEF RunOK
  <2>8. run'.latest.id # 0 => run'.latest = [id |-> stream.message, text |-> t]
    BY <2>7 DEF Observe, NoMessage
  <2>9. run'.latest.id # 0 =>
             /\ run'.latest.text = Text(run'.latest.id, Len(run'.latest.text))
             /\ \E n \in 1..Len(sent') : sent'[n].message = run'.latest.id /\ sent'[n].run = run'.n
    <3>1. sent'[Number] = m /\ Number \in 1..Len(sent')
      BY <2>3, LetterPut
    <3>. QED
      BY <2>2, <2>4, <2>7, <2>8, <3>1
  <2>. QED
    BY <1>0, <2>5, <2>6, <2>7, <2>9 DEF Telling
<1>6. CASE ErrorEvent
  <2>. DEFINE m == Tell("final", "error", run.n, 0, <<>>)
  <2>1. m \in Letter /\ Put(m) /\ stream' = stream
    BY <1>0, <1>6, TellType, Vocabulary DEF ErrorEvent
  <2>2. m.message = 0 /\ m.type = "error" /\ m.kind = "final"
    BY DEF Tell
  <2>. HIDE DEF m
  <2>3. ToldInOrder'
    BY <1>0, <2>1, <2>2, PutTells, LetterPut DEF Truthful, StreamOK
  <2>5. /\ run'.n = run.n /\ run'.on = run.on /\ run'.open = run.open /\ run'.latest = run.latest
        /\ run'.asked = run.asked /\ run'.failed = run.open
    BY <1>0, <1>6 DEF ErrorEvent, RunOK
  <2>6. run.open => \A n \in 1..Len(sent') : sent'[n].message = stream.message => sent'[n].run = run.n
    BY <2>1, <2>2, LetterPut DEF Telling
  <2>7. run.latest.id # 0 => \E n \in 1..Len(sent') : sent'[n].message = run.latest.id /\ sent'[n].run = run.n
    BY <2>1, LetterPut DEF Telling
  <2>. QED
    BY <1>0, <2>1, <2>3, <2>5, <2>6, <2>7 DEF Telling
<1>7. CASE AssistantMessageAborted
  <2>. DEFINE m == Tell("final", "aborted", run.n, stream.message, <<>>)
  <2>1. m \in Letter /\ Put(m) /\ stream' = stream
    BY <1>0, <1>7, TellType, Vocabulary DEF AssistantMessageAborted
  <2>2. m.message = stream.message /\ m.type = "aborted" /\ m.kind = "final" /\ m.run = run.n
    BY DEF Tell
  <2>. HIDE DEF m
  <2>3. /\ run.on /\ stream.message > 0 /\ run.n \in 1..Runs
        /\ \A n \in 1..Len(sent) : sent[n].message = stream.message => sent[n].run = run.n
    BY <1>0, <1>7 DEF AssistantMessageAborted, Telling
  <2>4. ToldInOrder'
    BY <1>0, <2>1, <2>2, <2>3, PutTells, LetterPut DEF Truthful, StreamOK
  <2>5. /\ run'.n = run.n /\ run'.on = run.on /\ run'.open = FALSE /\ run'.latest.id = 0
    BY <1>0, <1>7 DEF AssistantMessageAborted, RunOK, NoMessage
  <2>. QED
    BY <1>0, <2>3, <2>4, <2>5 DEF Telling
<1>8. CASE TurnFinished
  <2>1. PICK text \in {run.latest.text, Words(run.n)} \ {<<>>} :
             Put(Tell("final", "finished", run.n, run.latest.id, text))
    BY <1>8 DEF TurnFinished
  <2>. DEFINE m == Tell("final", "finished", run.n, run.latest.id, text)
  <2>2. m \in Letter /\ Put(m) /\ stream' = stream
    BY <1>0, <1>8, <2>1, TellType, Vocabulary, WordsType DEF TurnFinished
  <2>3. m.message = run.latest.id /\ m.type = "finished" /\ m.kind = "final" /\ m.run = run.n /\ m.text = text
    BY DEF Tell
  <2>. HIDE DEF m
  <2>4. run.on /\ ~ run.open /\ run.n \in 1..Runs
    BY <1>0, <1>8 DEF TurnFinished, Telling
  <2>5. run.latest.id # 0 => run.latest.text = Text(run.latest.id, Len(run.latest.text))
    BY DEF Telling
  <2>6. run.latest.id # 0 =>
            \E n \in 1..Len(sent) : sent[n].message = run.latest.id /\ sent[n].run = run.n
    BY DEF Telling
  <2>7. Truthful(m)
    <3>1. text = run.latest.text \/ text = Words(run.n)
      BY <2>1
    <3>. QED
      BY <1>0, <2>3, <2>4, <2>5, <3>1 DEF Truthful
  <2>8. \A n \in 1..Len(sent) : sent[n].message = m.message /\ m.message > 0 => sent[n].run = m.run
    BY <1>0, <2>3, <2>6 DEF ToldInOrder
  <2>9. m.message <= stream.message
    <3>1. CASE run.latest.id = 0
      BY <1>0, <2>3, <3>1
    <3>2. CASE run.latest.id # 0
      BY <2>3, <2>6, <3>2 DEF ToldInOrder
    <3>. QED
      BY <3>1, <3>2
  <2>10. ToldInOrder'
    BY <1>0, <2>2, <2>3, <2>7, <2>8, <2>9, PutTells, LetterPut DEF StreamOK
  <2>11. /\ run'.n = run.n /\ run'.on = FALSE /\ run'.open = FALSE /\ run'.latest = run.latest
    BY <1>0, <1>8, <2>4 DEF TurnFinished, RunOK
  <2>12. run.latest.id # 0 => \E n \in 1..Len(sent') : sent'[n].message = run.latest.id /\ sent'[n].run = run.n
    BY <2>2, <2>6, LetterPut
  <2>. QED
    BY <1>0, <2>4, <2>5, <2>10, <2>11, <2>12 DEF Telling
<1>9. ASSUME NEW kind \in {"output", "reply"}, Other(kind)
      PROVE  ToldInOrder' /\ Telling'
  <2>. DEFINE m == Tell(kind, "other", run.n, 0, <<>>)
  <2>1. m \in Letter /\ Put(m) /\ stream' = stream
    BY <1>0, <1>9, TellType, Vocabulary DEF Other
  <2>2. m.message = 0 /\ m.type = "other" /\ m.kind # "delta"
    BY DEF Tell
  <2>. HIDE DEF m
  <2>3. ToldInOrder'
    BY <1>0, <2>1, <2>2, PutTells, LetterPut DEF Truthful, StreamOK
  <2>5. /\ run'.n = run.n /\ run'.on = run.on /\ run'.open = run.open /\ run'.latest = run.latest
        /\ run'.asked = run.asked /\ run'.failed = run.failed
    BY <1>0, <1>9 DEF Other, RunOK
  <2>6. run.open => \A n \in 1..Len(sent') : sent'[n].message = stream.message => sent'[n].run = run.n
    BY <2>1, <2>2, LetterPut DEF Telling
  <2>7. run.latest.id # 0 => \E n \in 1..Len(sent') : sent'[n].message = run.latest.id /\ sent'[n].run = run.n
    BY <2>1, LetterPut DEF Telling
  <2>8. ASSUME run.open, ~ run.failed,
               NEW a \in 1..Len(sent'), NEW c \in 1..a, sent'[c].message = stream.message
        PROVE  Passing(sent'[a], stream.message)
    <3>1. CASE a = Number
      BY <2>1, <2>2, <3>1, LetterPut DEF Passing
    <3>2. CASE a # Number
      <4>1. a \in 1..Len(sent) /\ c \in 1..a /\ c \in 1..Len(sent) /\ sent'[a] = sent[a] /\ sent'[c] = sent[c]
        BY <2>1, <2>8, <3>2, LetterPut
      <4>. QED
        BY <2>8, <4>1 DEF Telling
    <3>. QED
      BY <3>1, <3>2
  <2>. QED
    BY <1>0, <2>1, <2>3, <2>5, <2>6, <2>7, <2>8 DEF Telling, Passing
<1>10. CASE UNCHANGED <<sent, stream, run>>
  BY <1>10 DEF ToldInOrder, Telling, Passing, Truthful
<1>11. ASSUME NEW limit \in 1..Capacity, Poll(limit)
       PROVE  UNCHANGED <<sent, stream, run>>
  BY <1>11 DEF Poll, Drain
<1>12. UNCHANGED transcriptVars => UNCHANGED <<sent, stream, run>>
  BY DEF transcriptVars
<1>. QED
  BY <1>1, <1>2, <1>3, <1>4, <1>5, <1>6, <1>7, <1>8, <1>9, <1>10, <1>11, <1>12 DEF TranscriptNext

-----------------------------------------------------------------------------
(* Functions that are defined by recursion on a natural number. *)

Steps(X, n) == [X \X (1..n) -> X]

\* g begins with x and goes on as F says.
Follows(g, X, n, x, F) ==
    g \in [0..n -> X] /\ g[0] = x /\ \A i \in 1..n : g[i] = F[<<g[i - 1], i>>]

LEMMA Recursion ==
    ASSUME NEW n \in Nat, NEW X, NEW x \in X, NEW F \in Steps(X, n)
    PROVE  \E g : Follows(g, X, n, x, F)
<1>. DEFINE Upto(k, g) == /\ g \in [0..k -> X] /\ g[0] = x
                          /\ \A i \in 1..k : g[i] = F[<<g[i - 1], i>>]
            G == {k \in 0..n : \E g : Upto(k, g)}
<1>1. 0 \in G
  <2>1. Upto(0, [i \in 0..0 |-> x])
    OBVIOUS
  <2>. HIDE DEF Upto
  <2>. QED
    BY <2>1
<1>2. ASSUME NEW k \in 0..(n - 1), k \in G PROVE k + 1 \in G
  <2>1. PICK g : Upto(k, g)
    BY <1>2
  <2>. DEFINE y == F[<<g[k], k + 1>>]
              h == [i \in 0..(k + 1) |-> IF i = k + 1 THEN y ELSE g[i]]
  <2>2. y \in X
    <3>1. g[k] \in X /\ k + 1 \in 1..n
      BY <2>1
    <3>. QED
      BY <3>1 DEF Steps
  <2>. HIDE DEF y
  <2>3. h \in [0..(k + 1) -> X]
    <3>1. \A i \in 0..(k + 1) : i = k + 1 \/ i \in 0..k
      OBVIOUS
    <3>. QED
      BY <2>1, <2>2, <3>1
  <2>4. h[0] = x
    BY <2>1
  <2>5. ASSUME NEW i \in 1..(k + 1) PROVE h[i] = F[<<h[i - 1], i>>]
    <3>1. CASE i = k + 1
      <4>1. h[i] = y /\ h[i - 1] = g[k]
        BY <3>1
      <4>. QED
        BY <3>1, <4>1 DEF y
    <3>2. CASE i # k + 1
      <4>1. i \in 1..k /\ h[i] = g[i] /\ h[i - 1] = g[i - 1]
        BY <3>2
      <4>. QED
        BY <2>1, <4>1
    <3>. QED
      BY <3>1, <3>2
  <2>. HIDE DEF h
  <2>6. Upto(k + 1, h)
    BY <2>3, <2>4, <2>5
  <2>. HIDE DEF Upto
  <2>7. k + 1 \in 0..n
    OBVIOUS
  <2>. QED
    BY <2>6, <2>7
<1>. HIDE DEF G
<1>3. n \in G
  BY <1>1, <1>2, Induction
<1>. QED
  BY <1>3 DEF G, Follows

\* Entries that are picked out of others are some of them.
LEMMA AmongType ==
    ASSUME NEW T, NEW es \in Seq(T), NEW S
    PROVE  Among(es, S) \in Seq(T \cap S)
<1>. DEFINE n == Len(es)
            U == T \cap S
            X == Seq(U)
            Is(g) == g = [i \in 0..n |-> IF i = 0 THEN <<>>
                                         ELSE IF es[i] \in S THEN Append(g[i - 1], es[i]) ELSE g[i - 1]]
            F == [p \in X \X (1..n) |-> IF es[p[2]] \in S THEN Append(p[1], es[p[2]]) ELSE p[1]]
<1>1. n \in Nat /\ \A i \in 1..n : es[i] \in T
  BY LenProperties, ElementOfSeq
<1>. HIDE DEF n
<1>2. <<>> \in X
  OBVIOUS
<1>3. F \in Steps(X, n)
  <2>1. ASSUME NEW p \in X \X (1..n)
        PROVE  (IF es[p[2]] \in S THEN Append(p[1], es[p[2]]) ELSE p[1]) \in X
    <3>1. p[1] \in Seq(U) /\ p[2] \in 1..n
      BY <2>1
    <3>2. CASE es[p[2]] \in S
      <4>1. es[p[2]] \in U
        BY <1>1, <3>1, <3>2
      <4>. HIDE DEF U
      <4>2. Append(p[1], es[p[2]]) \in Seq(U)
        BY <3>1, <4>1, AppendProperties
      <4>. QED
        BY <3>2, <4>2
    <3>3. CASE es[p[2]] \notin S
      BY <3>1, <3>3
    <3>. QED
      BY <3>2, <3>3
  <2>. HIDE DEF X
  <2>. QED
    BY <2>1 DEF Steps
<1>. HIDE DEF X, F
<1>4. PICK h \in [0..n -> X] : h[0] = <<>> /\ \A i \in 1..n : h[i] = F[<<h[i - 1], i>>]
  <2>. DEFINE x == <<>>
  <2>1. n \in Nat /\ x \in X
    BY <1>1, <1>2
  <2>. HIDE DEF x
  <2>2. \E g : Follows(g, X, n, x, F)
    BY <1>3, <2>1, Recursion, Zenon
  <2>. QED
    BY <2>2 DEF x, Follows
<1>5. ASSUME NEW i \in 0..n
      PROVE  h[i] = IF i = 0 THEN <<>> ELSE IF es[i] \in S THEN Append(h[i - 1], es[i]) ELSE h[i - 1]
  <2>1. CASE i = 0
    BY <1>4, <2>1
  <2>2. CASE i # 0
    <3>1. i \in 1..n /\ h[i - 1] \in X
      BY <2>2, <1>1, <1>4
    <3>2. <<h[i - 1], i>> \in X \X (1..n)
      BY <3>1
    <3>3. F[<<h[i - 1], i>>] = IF es[i] \in S THEN Append(h[i - 1], es[i]) ELSE h[i - 1]
      BY <3>2 DEF F
    <3>. QED
      BY <1>4, <2>2, <3>1, <3>3
  <2>. QED
    BY <2>1, <2>2
<1>6. Is(h)
  <2>1. h = [i \in 0..n |-> h[i]]
    BY <1>4
  <2>. QED
    BY <1>5, <2>1
<1>7. Is(CHOOSE g : Is(g))
  <2>. HIDE DEF Is
  <2>. QED
    BY <1>6
<1>8. Among(es, S) = (CHOOSE g : Is(g))[n]
  BY DEF Among, n
<1>. DEFINE c == CHOOSE g : Is(g)
            G == {i \in 0..n : c[i] \in X}
<1>. HIDE DEF c
<1>9. \A i \in 0..n : c[i] = IF i = 0 THEN <<>> ELSE IF es[i] \in S THEN Append(c[i - 1], es[i]) ELSE c[i - 1]
  BY <1>7 DEF c
<1>10. 0 \in G
  BY <1>1, <1>2, <1>9
<1>11. ASSUME NEW k \in 0..(n - 1), k \in G PROVE k + 1 \in G
  <2>1. k + 1 \in 0..n /\ k + 1 \in 1..n /\ k + 1 # 0 /\ (k + 1) - 1 = k
    BY <1>1
  <2>2. c[k + 1] = IF es[k + 1] \in S THEN Append(c[k], es[k + 1]) ELSE c[k]
    BY <1>9, <2>1
  <2>3. c[k] \in Seq(U)
    BY <1>11 DEF X
  <2>4. CASE es[k + 1] \in S
    <3>1. es[k + 1] \in U
      BY <1>1, <2>1, <2>4
    <3>. HIDE DEF U
    <3>2. Append(c[k], es[k + 1]) \in Seq(U)
      BY <2>3, <3>1, AppendProperties
    <3>. QED
      BY <2>1, <2>2, <2>4, <3>2 DEF X
  <2>5. CASE es[k + 1] \notin S
    BY <2>1, <2>2, <2>3, <2>5 DEF X
  <2>. QED
    BY <2>4, <2>5
<1>. HIDE DEF G
<1>12. n \in G
  <2>1. \A k \in 0..(n - 1) : k \in G => k + 1 \in G
    BY <1>11
  <2>2. n \in Nat
    BY <1>1
  <2>3. \A k \in 0..n : k \in G
    BY <1>10, <2>1, <2>2, Induction, Zenon
  <2>. QED
    BY <2>2, <2>3
<1>. QED
  BY <1>8, <1>12 DEF G, X, c

\* A text that is continued.
LEMMA TextContinued ==
    ASSUME NEW m, NEW k \in Nat, NEW l \in Nat
    PROVE  Text(m, k) \o [i \in 1..l |-> <<m, k + i - 1>>] = Text(m, k + l)
<1>. DEFINE t == [i \in 1..l |-> <<m, k + i - 1>>]
            P == {<<m, i>> : i \in Nat}
            a == Text(m, k)
            b == Text(m, k + l)
<1>1. a \in Seq(P) /\ Len(a) = k /\ \A i \in 1..k : a[i] = <<m, i - 1>>
  <2>1. a \in [1..k -> P]
    BY DEF Text
  <2>. QED
    BY <2>1, FunctionIsSeq DEF Text
<1>2. b \in Seq(P) /\ Len(b) = k + l /\ \A i \in 1..(k + l) : b[i] = <<m, i - 1>>
  <2>1. b \in [1..(k + l) -> P] /\ k + l \in Nat
    BY DEF Text
  <2>. QED
    BY <2>1, FunctionIsSeq DEF Text
<1>3. t \in Seq(P) /\ Len(t) = l /\ \A i \in 1..l : t[i] = <<m, k + i - 1>>
  <2>1. t \in [1..l -> P]
    OBVIOUS
  <2>. QED
    BY <2>1, FunctionIsSeq
<1>. HIDE DEF a, b, t, P
<1>4. /\ a \o t \in Seq(P) /\ Len(a \o t) = Len(a) + Len(t)
      /\ \A i \in 1..(Len(a) + Len(t)) : (a \o t)[i] = IF i <= Len(a) THEN a[i] ELSE t[i - Len(a)]
  BY <1>1, <1>3, ConcatProperties
<1>5. ASSUME NEW i \in 1..(k + l) PROVE (a \o t)[i] = b[i]
  <2>1. CASE i <= k
    <3>1. i \in 1..k /\ i \in 1..(Len(a) + Len(t)) /\ i <= Len(a)
      BY <1>1, <1>3, <2>1
    <3>. QED
      BY <1>1, <1>2, <1>4, <3>1
  <2>2. CASE ~ (i <= k)
    <3>1. i - k \in 1..l /\ k + (i - k) - 1 = i - 1
      BY <2>2
    <3>. QED
      BY <1>1, <1>2, <1>3, <1>4, <2>2, <3>1
  <2>. QED
    BY <2>1, <2>2
<1>6. a \o t = b
  BY <1>1, <1>2, <1>3, <1>4, <1>5, SeqEqual
<1>. QED
  BY <1>6 DEF a, b, t

\* What messages of one run say of it.
LEMMA OnlyRun ==
    ASSUME NEW s, NEW c \in DOMAIN s, s[c].run \in 1..Runs,
           \A n \in DOMAIN s : s[n].message = s[c].message => s[n].run = s[c].run
    PROVE  (CHOOSE r \in 1..Runs : \E n \in DOMAIN s : s[n].message = s[c].message /\ s[n].run = r)
               = s[c].run
OBVIOUS

-----------------------------------------------------------------------------
(* The projector's side: what one item makes of the view. *)

LEMMA ReadingLater ==
    ASSUME NEW v, NEW p \in Nat, NEW q \in Nat, p <= q, Reading(v, p)
    PROVE  Reading(v, q)
<1>1. ASSUME NEW m, Over(m, p) PROVE Over(m, q)
  <2>1. PICK a \in 1..Len(sent) :
            \E c \in 1..a : a < p /\ sent[c].message = m /\ ~ Passing(sent[a], m)
    BY <1>1 DEF Over
  <2>2. a < p => a < q
    OBVIOUS
  <2>. QED
    BY <2>1, <2>2 DEF Over
<1>2. ASSUME NEW m, NEW c \in 1..Len(sent), c < p PROVE c < q
  BY <1>2
<1>. QED
  BY <1>1, <1>2 DEF Reading

\* The entries that may be in the view when letter e is made of the view v.
Fit(v, e) ==
    {x \in Shelf : /\ Shown(x)
                   /\ \/ x.id <= 0
                      \/ x.id = e.message
                      \/ \E i \in 1..Len(v.entries) : v.entries[i].id = x.id}

LEMMA SeqOfFewer ==
    ASSUME NEW T, NEW S, S \subseteq T, NEW s \in Seq(S)
    PROVE  s \in Seq(T)
<1>1. Len(s) \in Nat /\ \A i \in 1..Len(s) : s[i] \in S
  BY LenProperties, ElementOfSeq
<1>2. s = [i \in 1..Len(s) |-> s[i]]
  OBVIOUS
<1>3. s \in [1..Len(s) -> T]
  BY <1>1, <1>2
<1>. QED
  BY <1>1, <1>3, FunctionIsSeq

LEMMA EntriesFit ==
    ASSUME NEW v \in View, NEW p, Reading(v, p), NEW e
    PROVE  v.entries \in Seq(Fit(v, e))
<1>1. v.entries \in Seq(Shelf) /\ Len(v.entries) \in Nat
  BY LenProperties DEF View
<1>2. \A i \in 1..Len(v.entries) : v.entries[i] \in Shelf
  BY <1>1, ElementOfSeq
<1>3. \A i \in 1..Len(v.entries) : v.entries[i] \in Fit(v, e)
  BY <1>2 DEF Reading, Fit
<1>4. v.entries = [i \in 1..Len(v.entries) |-> v.entries[i]]
  BY <1>1
<1>. HIDE DEF Fit
<1>5. v.entries \in [1..Len(v.entries) -> Fit(v, e)]
  BY <1>3, <1>4
<1>. QED
  BY <1>1, <1>5, FunctionIsSeq

\* A letter that is no delta ends every message that is shown.
LEMMA ClosingReads ==
    ASSUME DeliveryInv, NEW a \in 1..Len(sent), sent[a].type \notin {"delta", "other"},
           NEW v \in View, NEW p \in Nat, p <= a, Reading(v, p),
           NEW w, w.entries \in Seq(Fit(v, sent[a])),
           \A m \in 1..Streams : m # sent[a].message => w.next[m] \in {0, v.next[m]}
    PROVE  Reading(w, a + 1)
<1>. DEFINE e == sent[a]
<1>1. \A i \in 1..Len(w.entries) : w.entries[i] \in Fit(v, e)
  BY ElementOfSeq
<1>2. \A i \in 1..Len(w.entries) : Shown(w.entries[i])
  BY <1>1 DEF Fit
<1>3. a \in Nat /\ Len(sent) \in Nat /\ \A c \in 1..a : c \in 1..Len(sent)
  BY LenProperties DEF DeliveryInv, MailInv
<1>4. \A m : ~ Passing(e, m)
  BY DEF Passing
<1>5. ASSUME NEW m \in 1..Streams, ~ Unshown(w, m)
      PROVE  \E c \in 1..a : sent[c].message = m
  <2>1. CASE m = e.message
    <3>1. a \in 1..a
      BY <1>3
    <3>. QED
      BY <2>1, <3>1
  <2>2. CASE m # e.message
    <3>1. ~ Unshown(v, m)
      <4>1. SUFFICES ASSUME Unshown(v, m) PROVE FALSE
        OBVIOUS
      <4>2. w.next[m] = 0
        BY <2>2, <4>1 DEF Unshown
      <4>3. \A i \in 1..Len(w.entries) : w.entries[i].id # m
        <5>1. SUFFICES ASSUME NEW i \in 1..Len(w.entries), w.entries[i].id = m PROVE FALSE
          OBVIOUS
        <5>2. ~ (m <= 0)
          OBVIOUS
        <5>3. \E k \in 1..Len(v.entries) : v.entries[k].id = m
          BY <1>1, <2>2, <5>1, <5>2 DEF Fit
        <5>. QED
          BY <4>1, <5>3 DEF Unshown
      <4>. QED
        BY <1>5, <4>2, <4>3 DEF Unshown
    <3>2. PICK c \in 1..Len(sent) : c < p /\ sent[c].message = m
      BY <3>1 DEF Reading
    <3>3. c \in 1..a
      BY <1>3, <3>2
    <3>. QED
      BY <3>2, <3>3
  <2>. QED
    BY <2>1, <2>2
<1>6. ASSUME NEW m \in 1..Streams, ~ Unshown(w, m)
      PROVE  Over(m, a + 1) /\ \E c \in 1..Len(sent) : c < a + 1 /\ sent[c].message = m
  <2>1. PICK c \in 1..a : sent[c].message = m
    BY <1>5, <1>6
  <2>2. c \in 1..Len(sent) /\ c < a + 1 /\ a < a + 1
    BY <1>3, <2>1
  <2>3. Over(m, a + 1)
    BY <1>4, <2>1, <2>2 DEF Over
  <2>. QED
    BY <2>1, <2>2, <2>3
<1>. QED
  BY <1>2, <1>6 DEF Reading

LEMMA LetterSent ==
    ASSUME DeliveryInv, ToldInOrder, NEW a \in 1..Len(sent)
    PROVE  /\ sent[a] \in Letter /\ Truthful(sent[a])
           /\ sent[a].message \in 0..Streams /\ sent[a].message \in Int /\ sent[a].message <= Streams
           /\ sent[a].run \in Nat /\ sent[a].text \in Seq(Piece) /\ sent[a].type \in Types
           /\ sent[a].message > 0 => RunOf(sent[a].message) = sent[a].run
<1>1. sent \in Seq(Letter) /\ DOMAIN sent = 1..Len(sent)
  BY DEF DeliveryInv, MailInv
<1>2. sent[a] \in Letter /\ Truthful(sent[a])
  BY <1>1, ElementOfSeq DEF ToldInOrder
<1>3. ASSUME sent[a].message > 0 PROVE RunOf(sent[a].message) = sent[a].run
  <2>1. sent[a].run \in 1..Runs
    BY <1>2, <1>3 DEF Truthful
  <2>2. \A n \in DOMAIN sent : sent[n].message = sent[a].message => sent[n].run = sent[a].run
    BY <1>1, <1>3 DEF ToldInOrder
  <2>. QED
    BY <1>1, <2>1, <2>2, OnlyRun DEF RunOf
<1>. QED
  BY <1>2, <1>3, MailboxAssumption DEF Letter

LEMMA StartedReads ==
    ASSUME DeliveryInv, ToldInOrder, NEW a \in 1..Len(sent), sent[a].type = "started",
           NEW v \in View, NEW p \in Nat, p <= a, Reading(v, p)
    PROVE  Started(v, sent[a]) \in View /\ Reading(Started(v, sent[a]), a + 1)
<1>. DEFINE w == Started(v, sent[a])
<1>1. sent[a].run \in Nat /\ NoText \in Seq(Piece)
  BY LetterSent, WordsType DEF NoText, Words
<1>2. [m \in DOMAIN v.next |-> 0] \in [1..Streams -> Nat] /\ \A m \in 1..Streams : w.next[m] = 0
  BY DEF View, Started
<1>3. w \in View /\ w.entries = v.entries
  BY <1>1, <1>2 DEF View, Started
<1>4. w.entries \in Seq(Fit(v, sent[a]))
  BY <1>3, EntriesFit
<1>. HIDE DEF w
<1>5. Reading(w, a + 1)
  BY <1>2, <1>4, ClosingReads
<1>. QED
  BY <1>3, <1>5 DEF w

LEMMA NoteReads ==
    ASSUME DeliveryInv, ToldInOrder, NEW a \in 1..Len(sent), sent[a].type \in {"user", "error"},
           NEW v \in View, NEW p \in Nat, p <= a, Reading(v, p)
    PROVE  /\ Added(v, Entry(0, <<>>, FALSE)) \in View
           /\ Reading(Added(v, Entry(0, <<>>, FALSE)), a + 1)
<1>. DEFINE x == Entry(0, <<>>, FALSE)
            w == Added(v, x)
<1>1. x \in Shelf /\ x.id = 0
  BY MailboxAssumption DEF Entry, Shelf
<1>. HIDE DEF x
<1>2. x \in Fit(v, sent[a])
  BY <1>1 DEF Fit, Shown
<1>3. v.entries \in Seq(Fit(v, sent[a])) /\ v.entries \in Seq(Shelf)
  BY EntriesFit DEF View
<1>4. w.entries = Append(v.entries, x) /\ w.next = v.next
  BY DEF Added, View
<1>5. w.entries \in Seq(Fit(v, sent[a])) /\ w.entries \in Seq(Shelf)
  BY <1>1, <1>2, <1>3, <1>4, AppendProperties
<1>6. w \in View
  BY <1>4, <1>5 DEF Added, View
<1>. HIDE DEF w
<1>7. Reading(w, a + 1)
  BY <1>4, <1>5, ClosingReads
<1>. QED
  BY <1>6, <1>7 DEF w, x

LEMMA Replaced ==
    ASSUME NEW T, NEW s \in Seq(T), NEW x \in T, NEW i
    PROVE  [s EXCEPT ![i] = x] \in Seq(T)
<1>1. Len(s) \in Nat /\ DOMAIN s = 1..Len(s) /\ \A k \in 1..Len(s) : s[k] \in T
  BY LenProperties, ElementOfSeq
<1>2. [s EXCEPT ![i] = x] = [k \in 1..Len(s) |-> IF k = i THEN x ELSE s[k]]
  BY <1>1
<1>3. [k \in 1..Len(s) |-> IF k = i THEN x ELSE s[k]] \in [1..Len(s) -> T]
  BY <1>1
<1>. QED
  BY <1>1, <1>2, <1>3, FunctionIsSeq

LEMMA AmongFit ==
    ASSUME NEW T, NEW es \in Seq(T), NEW S
    PROVE  Among(es, S) \in Seq(T)
<1>1. Among(es, S) \in Seq(T \cap S) /\ T \cap S \subseteq T
  BY AmongType
<1>. QED
  BY <1>1, SeqOfFewer

LEMMA FitOnShelf ==
    ASSUME NEW v, NEW e
    PROVE  Fit(v, e) \subseteq Shelf
BY DEF Fit

\* An entry with the text of the letter itself.
LEMMA AnswerFits ==
    ASSUME DeliveryInv, ToldInOrder, NEW a \in 1..Len(sent), NEW v, NEW provisional \in BOOLEAN,
           sent[a].type = "message" \/ (sent[a].type = "finished" /\ ~ provisional)
    PROVE  Entry(sent[a].message, sent[a].text, provisional) \in Fit(v, sent[a])
<1>. DEFINE e == sent[a]
            x == Entry(e.message, e.text, provisional)
<1>1. x.id = e.message /\ x.text = e.text /\ x.provisional = provisional
  BY DEF Entry
<1>2. /\ e.message \in Int /\ e.message <= Streams /\ e.text \in Seq(Piece) /\ Truthful(e)
      /\ e.message > 0 => RunOf(e.message) = e.run
  BY LetterSent
<1>3. x \in Shelf
  BY <1>2 DEF Entry, Shelf
<1>4. Shown(x)
  <2>. HIDE DEF x
  <2>1. CASE e.type = "message"
    BY <1>1, <1>2, <2>1 DEF Shown, Truthful
  <2>2. CASE e.type = "finished"
    BY <1>1, <1>2, <2>2 DEF Shown, Truthful
  <2>. QED
    BY <2>1, <2>2
<1>. HIDE DEF x
<1>. QED
  BY <1>1, <1>3, <1>4 DEF Fit, x

LEMMA CompletedReads ==
    ASSUME DeliveryInv, ToldInOrder, NEW a \in 1..Len(sent), sent[a].type = "message",
           NEW v \in View, NEW p \in Nat, p <= a, Reading(v, p)
    PROVE  Completed(v, sent[a]) \in View /\ Reading(Completed(v, sent[a]), a + 1)
<1>. DEFINE e  == sent[a]
            w  == Completed(v, e)
            F  == Fit(v, e)
            S  == {x \in ToSet(v.entries) :
                     v.candidate \in {0, e.message} \/ x.id # v.candidate \/ ~ x.provisional}
            es == Among(v.entries, S)
            x  == Entry(e.message, e.text, Provisional)
<1>1. e.message \in Nat /\ e.text \in Seq(Piece) /\ e.message \in 1..Streams
  BY LetterSent DEF Truthful
<1>2. x \in F
  BY AnswerFits DEF Provisional
<1>3. v.entries \in Seq(F) /\ F \subseteq Shelf
  BY EntriesFit, FitOnShelf
<1>4. w.entries = IF Place(es, e.message) # 0 THEN [es EXCEPT ![Place(es, e.message)] = x]
                  ELSE IF e.text # <<>> THEN Append(es, x) ELSE es
  BY DEF Completed, View
<1>5. w = [v EXCEPT !.last = e.text, !.candidate = e.message, !.next[e.message] = 0,
                    !.entries = w.entries]
  BY DEF Completed, View
<1>. HIDE DEF F, S, x
<1>6. es \in Seq(F)
  BY <1>3, AmongFit
<1>. HIDE DEF es, w
<1>7. Append(es, x) \in Seq(F)
  BY <1>2, <1>6, AppendProperties
<1>8. w.entries \in Seq(F)
  BY <1>2, <1>4, <1>6, <1>7, Replaced
<1>9. w.entries \in Seq(Shelf)
  BY <1>3, <1>8, SeqOfFewer
<1>10. w \in View /\ \A m \in 1..Streams : m # e.message => w.next[m] = v.next[m]
  <2>. DEFINE E == w.entries
              n == [v.next EXCEPT ![e.message] = 0]
  <2>1. n \in [1..Streams -> Nat] /\ \A m \in 1..Streams : m # e.message => n[m] = v.next[m]
    BY <1>1 DEF View
  <2>. HIDE DEF E
  <2>2. w = [v EXCEPT !.last = e.text, !.candidate = e.message, !.next = n, !.entries = E]
    BY <1>5 DEF View, E
  <2>3. E \in Seq(Shelf)
    BY <1>9 DEF E
  <2>. HIDE DEF n
  <2>. QED
    BY <1>1, <2>1, <2>2, <2>3 DEF View
<1>11. Reading(w, a + 1)
  BY <1>8, <1>10, ClosingReads DEF F
<1>. QED
  BY <1>10, <1>11 DEF w

LEMMA AbortedReads ==
    ASSUME DeliveryInv, ToldInOrder, NEW a \in 1..Len(sent), sent[a].type = "aborted",
           NEW v \in View, NEW p \in Nat, p <= a, Reading(v, p)
    PROVE  Aborted(v, sent[a]) \in View /\ Reading(Aborted(v, sent[a]), a + 1)
<1>. DEFINE e  == sent[a]
            w  == Aborted(v, e)
            F  == Fit(v, e)
<1>1. e.message \in 1..Streams
  BY LetterSent DEF Truthful
<1>3. v.entries \in Seq(F) /\ F \subseteq Shelf
  BY EntriesFit, FitOnShelf
<1>4. w.entries = IF IsLast(v, e.message) THEN Front(v.entries) ELSE v.entries
  BY DEF Aborted, View
<1>5. w = [v EXCEPT !.entries = w.entries, !.candidate = IF @ = e.message THEN 0 ELSE @,
                    !.next[e.message] = 0]
  BY DEF Aborted, View
<1>. HIDE DEF F, w
<1>6. IsLast(v, e.message) => Front(v.entries) \in Seq(F)
  BY <1>3, FrontProperties DEF IsLast
<1>8. w.entries \in Seq(F)
  BY <1>3, <1>4, <1>6
<1>9. w.entries \in Seq(Shelf)
  BY <1>3, <1>8, SeqOfFewer
<1>10. w \in View /\ \A m \in 1..Streams : m # e.message => w.next[m] = v.next[m]
  <2>. DEFINE E == w.entries
              n == [v.next EXCEPT ![e.message] = 0]
  <2>1. n \in [1..Streams -> Nat] /\ \A m \in 1..Streams : m # e.message => n[m] = v.next[m]
    BY <1>1 DEF View
  <2>. HIDE DEF E
  <2>2. w = [v EXCEPT !.entries = E, !.candidate = IF @ = e.message THEN 0 ELSE @, !.next = n]
    BY <1>5 DEF View, E
  <2>3. E \in Seq(Shelf)
    BY <1>9 DEF E
  <2>. HIDE DEF n
  <2>. QED
    BY <1>1, <2>1, <2>2, <2>3 DEF View
<1>11. Reading(w, a + 1)
  BY <1>8, <1>10, ClosingReads DEF F
<1>. QED
  BY <1>10, <1>11 DEF w

\* The delivery puts nothing on the shelf but what fits there.
LEMMA DeliveredFits ==
    ASSUME DeliveryInv, ToldInOrder, NEW a \in 1..Len(sent), sent[a].type = "finished",
           NEW v \in View, NEW p, Reading(v, p)
    PROVE  /\ DeliveredOf(v, sent[a]) \in Seq(Fit(v, sent[a]))
           /\ DeliveredWords(v, sent[a]) \in Seq(Fit(v, sent[a]))
<1>. DEFINE e == sent[a]
            F == Fit(v, e)
<1>1. v.entries \in Seq(F)
  BY EntriesFit
<1>2. DeliveredOf(v, e) \in Seq(F)
  <2>. DEFINE es == OnlyDelivered(v, e)
              x  == Entry(e.message, e.text, FALSE)
  <2>1. DeliveredOf(v, e) = IF Place(es, e.message) # 0 THEN [es EXCEPT ![Place(es, e.message)] = x]
                            ELSE Append(es, x)
    BY DEF DeliveredOf
  <2>2. x \in F
    BY AnswerFits
  <2>. HIDE DEF F, x
  <2>3. es \in Seq(F)
    BY <1>1, AmongFit DEF OnlyDelivered
  <2>. HIDE DEF es
  <2>4. Append(es, x) \in Seq(F)
    BY <2>2, <2>3, AppendProperties
  <2>. QED
    BY <2>1, <2>2, <2>3, <2>4, Replaced
<1>3. DeliveredWords(v, e) \in Seq(F)
  <2>. DEFINE tail == v.entries # <<>> /\ Last(v.entries).provisional
              x    == Last(v.entries)
              y    == [x EXCEPT !.provisional = FALSE]
              z    == Entry(0 - e.run, e.text, FALSE)
              es   == IF tail THEN Append(Front(v.entries), y) ELSE v.entries
  <2>1. DeliveredWords(v, e) = IF tail /\ x.text = e.text THEN es
                               ELSE IF e.text = v.last THEN v.entries ELSE Append(es, z)
    BY DEF DeliveredWords
  <2>2. z \in F
    <3>1. e.run \in Nat /\ e.text \in Seq(Piece)
      BY LetterSent
    <3>2. 0 - e.run \in Int /\ 0 - e.run <= 0 /\ Streams \in Nat
      BY <3>1, MailboxAssumption
    <3>3. z \in Shelf /\ z.id <= 0
      BY <3>1, <3>2 DEF Entry, Shelf
    <3>4. z.id \in Int
      BY <3>2 DEF Entry
    <3>. HIDE DEF z
    <3>. QED
      BY <3>3, <3>4 DEF Fit, Shown
  <2>3. ASSUME tail PROVE Append(Front(v.entries), y) \in Seq(F)
    <3>1. v.entries # <<>> /\ x.provisional
      BY <2>3
    <3>2. Len(v.entries) \in 1..Len(v.entries)
      BY <1>1, <3>1, EmptySeq, LenProperties
    <3>3. x \in F
      <4>. HIDE DEF F
      <4>. QED
        BY <1>1, <3>2, ElementOfSeq DEF Last
    <3>4. y \in F
      <4>1. x \in Shelf /\ Shown(x)
        BY <3>3 DEF Fit
      <4>2. y.id = x.id /\ y.text = x.text /\ y.provisional = FALSE /\ y \in Shelf
        BY <4>1 DEF Shelf
      <4>3. Shown(y)
        BY <3>1, <4>1, <4>2 DEF Shown
      <4>. HIDE DEF x, y
      <4>. QED
        BY <3>3, <4>2, <4>3 DEF Fit
    <3>. HIDE DEF F, y
    <3>5. Front(v.entries) \in Seq(F)
      BY <1>1, <3>1, FrontProperties
    <3>. QED
      BY <3>4, <3>5, AppendProperties
  <2>. HIDE DEF F, x, y, z
  <2>4. es \in Seq(F)
    BY <1>1, <2>3
  <2>. HIDE DEF es, tail
  <2>5. Append(es, z) \in Seq(F)
    BY <2>2, <2>4, AppendProperties
  <2>. QED
    BY <1>1, <2>1, <2>4, <2>5
<1>. QED
  BY <1>2, <1>3

LEMMA FinishedReads ==
    ASSUME DeliveryInv, ToldInOrder, NEW a \in 1..Len(sent), sent[a].type = "finished",
           NEW v \in View, NEW p \in Nat, p <= a, Reading(v, p)
    PROVE  Finished(v, sent[a]) \in View /\ Reading(Finished(v, sent[a]), a + 1)
<1>. DEFINE e == sent[a]
            w == Finished(v, e)
            F == Fit(v, e)
<1>1. w.entries = IF e.message # 0 THEN DeliveredOf(v, e) ELSE DeliveredWords(v, e)
  BY DEF Finished, View
<1>2. w = [v EXCEPT !.entries = w.entries, !.run = 0, !.candidate = 0, !.busy = FALSE]
  BY DEF Finished, View
<1>3. w.entries \in Seq(F)
  BY <1>1, DeliveredFits
<1>. HIDE DEF w, F
<1>4. w.entries \in Seq(Shelf)
  BY <1>3, SeqOfFewer, FitOnShelf DEF F
<1>5. w \in View /\ w.next = v.next
  <2>. DEFINE E == w.entries
  <2>. HIDE DEF E
  <2>1. w = [v EXCEPT !.entries = E, !.run = 0, !.candidate = 0, !.busy = FALSE]
    BY <1>2 DEF E
  <2>2. E \in Seq(Shelf)
    BY <1>4 DEF E
  <2>. QED
    BY <2>1, <2>2 DEF View
<1>6. Reading(w, a + 1)
  BY <1>3, <1>5, ClosingReads DEF F
<1>. QED
  BY <1>5, <1>6 DEF w

\* A delta that is the next one, or that is all there is of its message, goes on
\* with the text; what any other delta says is given up.
LEMMA StreamedReads ==
    ASSUME DeliveryInv, ToldInOrder, MergedTextIsWhole,
           NEW k \in 1..Len(items), items[k].kind = "delta",
           NEW v \in View, NEW p \in Nat, p <= items[k].covers[1], Reading(v, p)
    PROVE  LET w == Streamed(v, items[k].message, items[k].index, items[k].covers) IN
           w \in View /\ Reading(w, items[k].covers[1] + 1)
<1>. DEFINE it   == items[k]
            a    == it.covers[1]
            m    == it.message
            l    == Len(it.covers)
            text == [i \in 1..l |-> <<m, sent[it.covers[i]].index>>]
            w    == Streamed(v, m, it.index, it.covers)
<1>1. /\ it \in Queue /\ l \in Nat /\ l # 0 /\ it.index \in Nat
      /\ \A j \in 1..l : it.covers[j] \in 1..Len(sent) /\ sent[it.covers[j]].kind = "delta"
  <2>1. items \in Seq(Queue) /\ it \in Queue
    BY ElementOfSeq DEF DeliveryInv, MailInv
  <2>2. it.covers \in Seq(Nat) /\ it.covers # <<>> /\ it.index \in Nat
    BY <2>1 DEF DeliveryInv, MailInv, Carried, Queue
  <2>3. l \in Nat /\ l # 0
    BY <2>2, EmptySeq, LenProperties
  <2>. QED
    BY <2>1, <2>2, <2>3 DEF DeliveryInv, MailInv, Carried
<1>2. \A j \in 1..l : sent[it.covers[j]].message = m /\ sent[it.covers[j]].index = it.index + j - 1
  BY DEF MergedTextIsWhole
<1>3. a \in 1..Len(sent) /\ a \in Nat /\ a + 1 \in Nat /\ p <= a /\ p <= a + 1
      /\ sent[a].type = "delta" /\ sent[a].message = m /\ m \in 1..Streams /\ m > 0
      /\ \A c \in 1..a : c \in 1..Len(sent)
  <2>1. 1 \in 1..l
    BY <1>1
  <2>2. a \in 1..Len(sent) /\ sent[a].kind = "delta" /\ sent[a].message = m /\ Len(sent) \in Nat
    BY <1>1, <1>2, <2>1, LenProperties DEF DeliveryInv, MailInv
  <2>3. Truthful(sent[a]) /\ sent[a].message \in 0..Streams
    BY <2>2, LetterSent
  <2>4. sent[a].type = "delta" /\ m > 0 /\ m \in 1..Streams
    BY <2>2, <2>3 DEF Truthful
  <2>. HIDE DEF a
  <2>. QED
    BY <2>2, <2>4 DEF a
<1>4. text = [i \in 1..l |-> <<m, it.index + i - 1>>]
  BY <1>2
<1>5. text \in Seq(Piece)
  <2>1. \A i \in 1..l : it.index + i - 1 \in Nat /\ m \in Nat
    BY <1>1, <1>3
  <2>2. text \in [1..l -> Piece]
    BY <1>4, <2>1 DEF Piece
  <2>. QED
    BY <1>1, <2>2, FunctionIsSeq
<1>6. CASE ~ Expected(v, m, it.index)
  <2>1. w = v
    BY <1>6 DEF Streamed
  <2>. HIDE DEF a
  <2>2. Reading(v, a + 1)
    BY <1>3, ReadingLater
  <2>. QED
    BY <2>1, <2>2 DEF a
<1>7. CASE Expected(v, m, it.index)
  <2>1. it.index = v.next[m]
    BY <1>7 DEF Expected
  <2>2. ~ Over(m, p)
    <3>1. SUFFICES ASSUME Over(m, p) PROVE FALSE
      OBVIOUS
    <3>2. PICK b \in 1..Len(sent) :
              \E c \in 1..b : b < p /\ sent[c].message = m /\ ~ Passing(sent[b], m)
      BY <3>1 DEF Over
    <3>3. b < a
      BY <1>3, <3>2
    <3>. QED
      BY <1>3, <3>2, <3>3 DEF ToldInOrder
  <2>3. Unshown(v, m) \/ Growing(v, m)
    BY <1>3, <2>2 DEF Reading
  <2>. DEFINE base == IF IsLast(v, m) THEN Front(v.entries) ELSE v.entries
              t    == IF IsLast(v, m) THEN Last(v.entries).text \o text ELSE text
              x    == Entry(m, t, TRUE)
              n    == [v.next EXCEPT ![m] = v.next[m] + l]
  <2>4. w = [v EXCEPT !.next = n, !.entries = Append(base, x)]
    BY <1>7 DEF Streamed, Added, View
  <2>5. n \in [1..Streams -> Nat] /\ n[m] = v.next[m] + l /\ n[m] > 0 /\ v.next[m] \in Nat
        /\ \A q \in 1..Streams : q # m => n[q] = v.next[q]
    <3>. HIDE DEF m, l
    <3>. DEFINE f == v.next
    <3>1. f \in [1..Streams -> Nat]
      BY DEF View
    <3>2. m \in 1..Streams /\ l \in Nat /\ l > 0
      BY <1>1, <1>3
    <3>. HIDE DEF f
    <3>3. n = [f EXCEPT ![m] = f[m] + l]
      BY DEF f
    <3>. HIDE DEF n
    <3>4. f[m] \in Nat
      BY <3>1, <3>2
    <3>5. /\ n \in [1..Streams -> Nat] /\ n[m] = f[m] + l /\ n[m] > 0
          /\ \A q \in 1..Streams : q # m => n[q] = f[q]
      BY <3>1, <3>2, <3>3, <3>4
    <3>. QED
      BY <3>4, <3>5 DEF f
  <2>. HIDE DEF n
  <2>6. t = Text(m, n[m])
    <3>1. CASE Growing(v, m)
      <4>1. IsLast(v, m) /\ Last(v.entries).text = Text(m, v.next[m])
        BY <3>1 DEF Growing
      <4>2. text = [i \in 1..l |-> <<m, v.next[m] + i - 1>>]
        BY <1>4, <2>1
      <4>3. Text(m, v.next[m]) \o text = Text(m, v.next[m] + l)
        <5>. DEFINE y == v.next[m]
        <5>. HIDE DEF m, l, text, y
        <5>1. y \in Nat /\ l \in Nat /\ text = [i \in 1..l |-> <<m, y + i - 1>>]
          BY <1>1, <2>5, <4>2 DEF y
        <5>2. Text(m, y) \o [i \in 1..l |-> <<m, y + i - 1>>] = Text(m, y + l)
          BY <5>1, TextContinued
        <5>. QED
          BY <5>1, <5>2 DEF y
      <4>. QED
        BY <2>5, <4>1, <4>3
    <3>2. CASE Unshown(v, m)
      <4>1. ~ IsLast(v, m)
        <5>1. SUFFICES ASSUME IsLast(v, m) PROVE FALSE
          OBVIOUS
        <5>2. Len(v.entries) \in 1..Len(v.entries)
          BY <5>1, EmptySeq, LenProperties DEF IsLast, View
        <5>. QED
          BY <3>2, <5>1, <5>2 DEF IsLast, Last, Unshown
      <4>2. v.next[m] = 0 /\ n[m] = l /\ it.index = 0
        BY <1>1, <2>1, <2>5, <3>2 DEF Unshown
      <4>3. text = [i \in 1..l |-> <<m, i - 1>>]
        BY <1>4, <4>2
      <4>. QED
        BY <4>1, <4>2, <4>3 DEF Text
    <3>. QED
      BY <2>3, <3>1, <3>2
  <2>. HIDE DEF t
  <2>7. x.id = m /\ x.text = Text(m, n[m]) /\ x.provisional = TRUE /\ x \in Shelf /\ Shown(x)
    <3>1. x.id = m /\ x.text = Text(m, n[m]) /\ x.provisional = TRUE
      BY <2>6 DEF Entry
    <3>2. n[m] \in Nat /\ m \in Nat /\ m \in Int /\ m <= Streams
      BY <1>3, <2>5
    <3>3. Text(m, n[m]) \in Seq(Piece) /\ Len(Text(m, n[m])) = n[m]
      BY <3>2, TextType, TextLength
    <3>4. x \in Shelf
      BY <2>6, <3>2, <3>3 DEF Entry, Shelf
    <3>. HIDE DEF x
    <3>. QED
      BY <3>1, <3>3, <3>4 DEF Shown
  <2>. HIDE DEF x
  <2>8. /\ base \in Seq(Shelf)
        /\ \A i \in 1..Len(base) : i \in 1..Len(v.entries) /\ base[i] = v.entries[i]
    <3>1. v.entries \in Seq(Shelf) /\ Len(v.entries) \in Nat
      BY LenProperties DEF View
    <3>2. CASE IsLast(v, m)
      <4>1. v.entries # <<>>
        BY <3>2 DEF IsLast
      <4>2. /\ Front(v.entries) \in Seq(Shelf) /\ Len(Front(v.entries)) = Len(v.entries) - 1
            /\ \A i \in 1..(Len(v.entries) - 1) : Front(v.entries)[i] = v.entries[i]
        BY <3>1, <4>1, FrontProperties
      <4>. QED
        BY <3>1, <3>2, <4>2
    <3>. QED
      BY <3>1, <3>2
  <2>. HIDE DEF base
  <2>9. /\ Append(base, x) \in Seq(Shelf) /\ Len(Append(base, x)) = Len(base) + 1 /\ Len(base) \in Nat
        /\ Append(base, x)[Len(base) + 1] = x
        /\ \A i \in 1..Len(base) : Append(base, x)[i] = base[i]
    BY <2>7, <2>8, AppendProperties, LenProperties
  <2>10. \A i \in 1..Len(Append(base, x)) : i = Len(base) + 1 \/ i \in 1..Len(base)
    BY <2>9
  <2>. DEFINE es == Append(base, x)
  <2>. HIDE DEF es
  <2>11. w \in View /\ w.next = n /\ w.entries = es
    BY <2>4, <2>5, <2>9 DEF View, es
  <2>. HIDE DEF w
  <2>12. \A i \in 1..Len(w.entries) : Shown(w.entries[i])
    BY <2>7, <2>8, <2>9, <2>10, <2>11 DEF Reading, es
  <2>13. Growing(w, m)
    <3>1. w.entries # <<>> /\ Last(w.entries) = x
      BY <2>9, <2>11 DEF es, Last
    <3>. QED
      BY <2>5, <2>7, <2>11, <3>1 DEF Growing, IsLast
  <2>14. ASSUME NEW q \in 1..Streams, q # m
         PROVE  Unshown(w, q) \/ Over(q, a + 1)
    <3>1. CASE Unshown(v, q)
      <4>1. w.next[q] = 0
        BY <2>5, <2>11, <2>14, <3>1 DEF Unshown
      <4>2. \A i \in 1..Len(w.entries) : w.entries[i].id # q
        BY <2>7, <2>8, <2>9, <2>10, <2>11, <2>14, <3>1 DEF Unshown, es
      <4>. QED
        BY <4>1, <4>2 DEF Unshown
    <3>2. CASE ~ Unshown(v, q)
      <4>1. PICK c \in 1..Len(sent) : c < p /\ sent[c].message = q
        BY <3>2 DEF Reading
      <4>2. c \in 1..a /\ a < a + 1
        BY <1>3, <4>1
      <4>3. ~ Passing(sent[a], q)
        BY <1>3, <2>14 DEF Passing
      <4>. QED
        BY <1>3, <4>1, <4>2, <4>3 DEF Over
    <3>. QED
      BY <3>1, <3>2
  <2>15. ASSUME NEW q \in 1..Streams, ~ Unshown(w, q)
         PROVE  \E c \in 1..Len(sent) : c < a + 1 /\ sent[c].message = q
    <3>1. CASE q = m
      BY <1>3, <3>1
    <3>2. CASE q # m
      <4>1. Over(q, a + 1)
        BY <2>14, <2>15, <3>2
      <4>2. PICK b \in 1..Len(sent) : \E c \in 1..b : b < a + 1 /\ sent[c].message = q
        BY <4>1 DEF Over
      <4>3. PICK c \in 1..b : sent[c].message = q
        BY <4>2
      <4>4. c \in 1..Len(sent) /\ c < a + 1
        BY <1>3, <4>2, <4>3
      <4>. QED
        BY <4>3, <4>4
    <3>. QED
      BY <3>1, <3>2
  <2>16. Reading(w, a + 1)
    BY <2>12, <2>13, <2>14, <2>15 DEF Reading
  <2>. QED
    BY <2>11, <2>16 DEF w
<1>. QED
  BY <1>6, <1>7

\* Every item keeps the text of the view whole.
LEMMA AppliedReads ==
    ASSUME DeliveryInv, ToldInOrder, MergedTextIsWhole, NEW k \in 1..Len(items),
           NEW v \in View, NEW p \in Nat, p <= items[k].covers[1], Reading(v, p)
    PROVE  Applied(v, items[k]) \in View /\ Reading(Applied(v, items[k]), items[k].covers[1] + 1)
<1>. DEFINE it == items[k]
            a  == it.covers[1]
            e  == sent[a]
<1>1. a \in 1..Len(sent) /\ e.kind = it.kind
  <2>1. items \in Seq(Queue) /\ it \in Queue
    BY ElementOfSeq DEF DeliveryInv, MailInv
  <2>2. it.covers \in Seq(Nat) /\ it.covers # <<>>
    BY <2>1 DEF DeliveryInv, MailInv, Carried, Queue
  <2>3. 1 \in 1..Len(it.covers)
    BY <2>2, EmptySeq, LenProperties
  <2>. QED
    BY <2>3 DEF DeliveryInv, MailInv, Carried
<1>2. e.type \in Types /\ Truthful(e) /\ a \in Nat /\ a + 1 \in Nat /\ p <= a + 1
  BY <1>1, LetterSent
<1>3. CASE e.type = "started"
  <2>1. Applied(v, it) = Started(v, e)
    BY <1>3 DEF Applied
  <2>. HIDE DEF a
  <2>. QED
    BY <1>1, <1>2, <1>3, <2>1, StartedReads DEF a
<1>4. CASE e.type \in {"user", "error"}
  <2>1. Applied(v, it) = Added(v, Entry(0, <<>>, FALSE))
    BY <1>4 DEF Applied
  <2>. QED
    BY <1>1, <1>2, <1>4, <2>1, NoteReads
<1>5. CASE e.type = "other" \/ (e.type \notin {"started", "user", "error"} /\ e.run # v.run)
  <2>1. Applied(v, it) = v
    BY <1>5 DEF Applied
  <2>2. Reading(v, a + 1)
    <3>. HIDE DEF a
    <3>. QED
      BY <1>2, ReadingLater
  <2>. QED
    BY <2>1, <2>2
<1>6. CASE e.type = "delta" /\ e.run = v.run
  <2>1. Applied(v, it) = Streamed(v, it.message, it.index, it.covers)
    BY <1>6 DEF Applied
  <2>2. it.kind = "delta"
    BY <1>1, <1>2, <1>6 DEF Truthful
  <2>. QED
    BY <2>1, <2>2, StreamedReads
<1>7. CASE e.type = "message" /\ e.run = v.run
  <2>1. Applied(v, it) = Completed(v, e)
    BY <1>7 DEF Applied
  <2>. QED
    BY <1>1, <1>2, <1>7, <2>1, CompletedReads
<1>8. CASE e.type = "aborted" /\ e.run = v.run
  <2>1. Applied(v, it) = Aborted(v, e)
    BY <1>8 DEF Applied
  <2>. QED
    BY <1>1, <1>2, <1>8, <2>1, AbortedReads
<1>9. CASE e.type = "finished" /\ e.run = v.run
  <2>1. Applied(v, it) = Finished(v, e)
    BY <1>9 DEF Applied
  <2>. QED
    BY <1>1, <1>2, <1>9, <2>1, FinishedReads
<1>10. \/ e.type = "started"
       \/ e.type \in {"user", "error"}
       \/ e.type = "other" \/ (e.type \notin {"started", "user", "error"} /\ e.run # v.run)
       \/ e.type = "delta" /\ e.run = v.run
       \/ e.type = "message" /\ e.run = v.run
       \/ e.type = "aborted" /\ e.run = v.run
       \/ e.type = "finished" /\ e.run = v.run
  BY <1>2 DEF Types
<1>. QED
  BY <1>3, <1>4, <1>5, <1>6, <1>7, <1>8, <1>9, <1>10

-----------------------------------------------------------------------------
(* The whole of it: no text that is shown has a gap. *)

LEMMA FirstsType ==
    ASSUME DeliveryInv
    PROVE  /\ Len(items) \in Nat /\ Len(sent) \in Nat
           /\ \A i \in 1..Len(items) : /\ items[i] \in Queue /\ items[i].covers \in Seq(Nat)
                                       /\ items[i].covers # <<>>
                                       /\ items[i].covers[1] \in 1..Len(sent)
                                       /\ items[i].covers[1] \in Nat
<1>1. items \in Seq(Queue) /\ Len(items) \in Nat /\ Len(sent) \in Nat
  BY LenProperties DEF DeliveryInv, MailInv
<1>2. ASSUME NEW i \in 1..Len(items)
      PROVE  /\ items[i] \in Queue /\ items[i].covers \in Seq(Nat) /\ items[i].covers # <<>>
             /\ items[i].covers[1] \in 1..Len(sent) /\ items[i].covers[1] \in Nat
  <2>1. items[i] \in Queue
    BY <1>1, ElementOfSeq
  <2>2. items[i].covers \in Seq(Nat) /\ items[i].covers # <<>>
    BY <2>1 DEF DeliveryInv, MailInv, Carried, Queue
  <2>3. 1 \in 1..Len(items[i].covers)
    BY <2>2, EmptySeq, LenProperties
  <2>4. items[i].covers[1] \in 1..Len(sent)
    BY <2>3 DEF DeliveryInv, MailInv, Carried
  <2>. QED
    BY <1>1, <2>1, <2>2, <2>4
<1>. QED
  BY <1>1, <1>2

\* The first send of an item after a put.
LEMMA FirstsStem ==
    ASSUME DeliveryInv, NEW m \in Letter, Put(m), NEW f, Stems(m, f), NEW i \in 1..Len(items')
    PROVE  /\ f[i] = Len(items) + 1 => items'[i].covers[1] = Number
           /\ f[i] # Len(items) + 1 =>
                 f[i] \in 1..Len(items) /\ items'[i].covers[1] = items[f[i]].covers[1]
<1>1. Len(items) \in Nat /\ Number \in Nat
  BY FirstsType DEF Number
<1>2. f[i] \in 1..(Len(items) + 1)
  BY DEF Stems
<1>3. CASE f[i] = Len(items) + 1
  <2>1. items'[i] = Item(m)
    BY <1>3 DEF Stems
  <2>2. items'[i].covers = <<Number>>
    BY <2>1 DEF Item, Number
  <2>. QED
    BY <1>3, <2>2
<1>4. CASE f[i] # Len(items) + 1
  <2>1. f[i] \in 1..Len(items)
    BY <1>1, <1>2, <1>4
  <2>2. CASE items'[i] = items[f[i]]
    BY <1>4, <2>1, <2>2
  <2>3. CASE items'[i] = [items[f[i]] EXCEPT !.covers = Append(@, Number)]
    <3>. DEFINE c == items[f[i]].covers
    <3>1. c \in Seq(Nat) /\ c # <<>> /\ items[f[i]] \in Queue
      BY <2>1, FirstsType
    <3>2. items'[i].covers = Append(c, Number)
      BY <2>3, <3>1 DEF Queue
    <3>. HIDE DEF c
    <3>3. 1 \in 1..Len(c)
      BY <3>1, EmptySeq, LenProperties
    <3>4. Append(c, Number)[1] = c[1]
      BY <1>1, <3>1, <3>3, NumberAppended
    <3>. QED
      BY <1>4, <2>1, <3>2, <3>4 DEF c
  <2>. QED
    BY <1>4, <2>2, <2>3 DEF Stems
<1>. QED
  BY <1>3, <1>4

LEMMA PutInOrder ==
    ASSUME DeliveryInv, InOrder, NEW m \in Letter, Put(m)
    PROVE  InOrder'
<1>1. PICK f : Stems(m, f)
  BY ItemsStem, LettersAreSendable DEF DeliveryInv
<1>2. ASSUME NEW i \in 1..Len(items'), NEW j \in 1..Len(items'), i < j
      PROVE  items'[i].covers[1] < items'[j].covers[1]
  <2>1. f[i] < f[j] /\ f[i] \in 1..(Len(items) + 1) /\ f[j] \in 1..(Len(items) + 1)
    BY <1>1, <1>2 DEF Stems
  <2>2. f[i] # Len(items) + 1 /\ Len(items) \in Nat /\ Len(sent) \in Nat
    BY <2>1, FirstsType
  <2>3. f[i] \in 1..Len(items) /\ items'[i].covers[1] = items[f[i]].covers[1]
    BY <1>1, <2>2, FirstsStem
  <2>4. CASE f[j] = Len(items) + 1
    <3>1. items'[j].covers[1] = Number
      BY <1>1, <2>4, FirstsStem
    <3>2. items[f[i]].covers[1] < Number
      BY <2>2, <2>3, FirstsType DEF Number
    <3>. QED
      BY <2>3, <3>1, <3>2
  <2>5. CASE f[j] # Len(items) + 1
    <3>1. f[j] \in 1..Len(items) /\ items'[j].covers[1] = items[f[j]].covers[1]
      BY <1>1, <2>5, FirstsStem
    <3>. QED
      BY <2>1, <2>3, <3>1 DEF InOrder
  <2>. QED
    BY <2>4, <2>5
<1>. QED
  BY <1>2 DEF InOrder

LEMMA PutReads ==
    ASSUME DeliveryInv, ToldInOrder, ToldInOrder', view \in View, Reads,
           NEW m \in Letter, Put(m), view' = view
    PROVE  Reads'
<1>1. PICK p \in 1..(Len(sent) + 1) :
          Reading(view, p) /\ \A i \in 1..Len(items) : p <= items[i].covers[1]
  BY DEF Reads
<1>2. /\ Len(sent) \in Nat /\ Len(sent') = Number /\ Number = Len(sent) + 1 /\ DOMAIN sent' = 1..Number
      /\ \A n \in 1..Len(sent) : n \in 1..Number /\ sent'[n] = sent[n]
  BY LetterPut
<1>3. p \in 1..(Len(sent') + 1)
  BY <1>2
<1>4. ASSUME NEW i \in 1..Len(items') PROVE p <= items'[i].covers[1]
  <2>1. PICK f : Stems(m, f)
    BY ItemsStem, LettersAreSendable DEF DeliveryInv
  <2>2. CASE f[i] = Len(items) + 1
    <3>1. items'[i].covers[1] = Number
      BY <2>1, <2>2, FirstsStem
    <3>. QED
      BY <1>2, <3>1
  <2>3. CASE f[i] # Len(items) + 1
    <3>1. f[i] \in 1..Len(items) /\ items'[i].covers[1] = items[f[i]].covers[1]
      BY <2>1, <2>3, FirstsStem
    <3>. QED
      BY <1>1, <3>1
  <2>. QED
    BY <2>2, <2>3
<1>5. ASSUME NEW q, NEW c \in 1..Len(sent), sent[c].message = q, q > 0
      PROVE  (CHOOSE r \in 1..Runs : \E n \in DOMAIN sent' : sent'[n].message = q /\ sent'[n].run = r)
                 = RunOf(q)
  <2>1. c \in DOMAIN sent' /\ sent'[c] = sent[c]
    BY <1>2
  <2>2. sent'[c].run \in 1..Runs
    BY <1>5, <2>1, LetterSent DEF Truthful
  <2>3. \A n \in DOMAIN sent' : sent'[n].message = sent'[c].message => sent'[n].run = sent'[c].run
    BY <1>2, <1>5, <2>1 DEF ToldInOrder
  <2>4. (CHOOSE r \in 1..Runs :
             \E n \in DOMAIN sent' : sent'[n].message = sent'[c].message /\ sent'[n].run = r)
            = sent'[c].run
    BY <2>1, <2>2, <2>3, OnlyRun
  <2>5. RunOf(q) = sent[c].run
    BY <1>5, LetterSent
  <2>. QED
    BY <1>5, <2>1, <2>4, <2>5
<1>6. ASSUME NEW i \in 1..Len(view.entries), view.entries[i].id > 0
      PROVE  \/ view.entries[i].text = Text(view.entries[i].id, Len(view.entries[i].text))
             \/ /\ ~ view.entries[i].provisional
                /\ view.entries[i].text = Words(CHOOSE r \in 1..Runs : \E n \in DOMAIN sent' :
                                     sent'[n].message = view.entries[i].id /\ sent'[n].run = r)
  <2>. DEFINE x == view.entries[i]
  <2>1. x \in Shelf
    BY ElementOfSeq DEF View
  <2>2. x.id \in 1..Streams
    BY <1>6, <2>1, MailboxAssumption DEF Shelf
  <2>3. ~ Unshown(view, x.id)
    BY DEF Unshown
  <2>4. PICK c \in 1..Len(sent) : sent[c].message = x.id
    BY <1>1, <2>2, <2>3 DEF Reading
  <2>5. (CHOOSE r \in 1..Runs : \E n \in DOMAIN sent' : sent'[n].message = x.id /\ sent'[n].run = r)
            = RunOf(x.id)
    BY <1>5, <1>6, <2>4
  <2>6. Shown(x)
    BY <1>1 DEF Reading
  <2>. HIDE DEF x
  <2>7. x.id > 0
    BY <1>6 DEF x
  <2>8. x.text = Text(x.id, Len(x.text)) \/ (~ x.provisional /\ x.text = Words(RunOf(x.id)))
    BY <2>6, <2>7 DEF Shown
  <2>. QED
    BY <2>5, <2>8 DEF x
<1>7. ASSUME NEW q, Over(q, p)
      PROVE  \E a \in 1..Len(sent') : \E c \in 1..a :
                 a < p /\ sent'[c].message = q /\ ~ Passing(sent'[a], q)
  <2>1. PICK a \in 1..Len(sent) : \E c \in 1..a : a < p /\ sent[c].message = q /\ ~ Passing(sent[a], q)
    BY <1>7 DEF Over
  <2>2. a \in 1..Len(sent') /\ sent'[a] = sent[a] /\ \A c \in 1..a : sent'[c] = sent[c]
    BY <1>2
  <2>. QED
    BY <2>1, <2>2
<1>8. ASSUME NEW q \in 1..Streams
      PROVE  /\ \/ Unshown(view, q) \/ Growing(view, q)
                \/ \E a \in 1..Len(sent') : \E c \in 1..a :
                       a < p /\ sent'[c].message = q /\ ~ Passing(sent'[a], q)
             /\ ~ Unshown(view, q) => \E c \in 1..Len(sent') : c < p /\ sent'[c].message = q
  <2>1. Unshown(view, q) \/ Growing(view, q) \/ Over(q, p)
    BY <1>1 DEF Reading
  <2>2. ~ Unshown(view, q) => \E c \in 1..Len(sent) : c < p /\ sent[c].message = q
    BY <1>1 DEF Reading
  <2>3. ~ Unshown(view, q) => \E c \in 1..Len(sent') : c < p /\ sent'[c].message = q
    BY <1>2, <2>2
  <2>. QED
    BY <1>7, <2>1, <2>3
<1>9. Reading(view, p)'
  <2>1. (\A i \in 1..Len(view.entries) : Shown(view.entries[i]))'
    <3>1. ASSUME NEW i \in 1..Len(view'.entries) PROVE Shown(view.entries[i])'
      <4>1. RunOf(view.entries[i].id)' =
               CHOOSE r \in 1..Runs : \E n \in DOMAIN sent' :
                   sent'[n].message = view.entries[i].id /\ sent'[n].run = r
        BY DEF RunOf
      <4>2. i \in 1..Len(view.entries)
        OBVIOUS
      <4>. QED
        BY <1>6, <4>1, <4>2 DEF Shown
    <3>. QED
      BY <3>1
  <2>2. (\A q \in 1..Streams :
            /\ Unshown(view, q) \/ Growing(view, q) \/ Over(q, p)
            /\ ~ Unshown(view, q) => \E c \in 1..Len(sent) : c < p /\ sent[c].message = q)'
    BY <1>8 DEF Over, Unshown, Growing, IsLast, Last, Passing
  <2>. QED
    BY <2>1, <2>2 DEF Reading
<1>. QED
  BY <1>3, <1>4, <1>9 DEF Reads

\* Where the view stands when i of the items have been made of it.
Point(p, i) == IF i = 0 THEN p ELSE items[i].covers[1] + 1

\* Views of which each is made of the one before.
LEMMA ViewsRead ==
    ASSUME DeliveryInv, ToldInOrder, MergedTextIsWhole, InOrder, view \in View,
           NEW p \in Nat, Reading(view, p), \A i \in 1..Len(items) : p <= items[i].covers[1],
           NEW count \in 0..Len(items), NEW g, g[0] = view,
           \A i \in 1..count : g[i - 1] \in View /\ Reading(g[i - 1], items[i].covers[1])
                               => g[i] = Applied(g[i - 1], items[i])
    PROVE  \A i \in 0..count : g[i] \in View /\ Reading(g[i], Point(p, i))
<1>. DEFINE G == {i \in 0..count : g[i] \in View /\ Reading(g[i], Point(p, i))}
<1>1. count \in Nat /\ Len(items) \in Nat
  BY FirstsType
<1>2. 0 \in G
  BY <1>1 DEF Point
<1>3. ASSUME NEW i \in 1..count, g[i - 1] \in View, Reading(g[i - 1], Point(p, i - 1))
      PROVE  /\ Reading(g[i - 1], items[i].covers[1])
             /\ g[i] \in View /\ Reading(g[i], Point(p, i))
  <2>1. i \in 1..Len(items) /\ i # 0
    BY <1>1
  <2>2. items[i].covers[1] \in Nat
    BY <2>1, FirstsType
  <2>3. Point(p, i - 1) \in Nat /\ Point(p, i - 1) <= items[i].covers[1]
    <3>1. CASE i - 1 = 0
      BY <2>1, <3>1 DEF Point
    <3>2. CASE i - 1 # 0
      <4>1. i - 1 \in 1..Len(items) /\ i - 1 < i
        BY <1>1, <3>2
      <4>2. items[i - 1].covers[1] \in Nat /\ items[i - 1].covers[1] < items[i].covers[1]
        BY <2>1, <4>1, FirstsType DEF InOrder
      <4>. QED
        BY <2>2, <3>2, <4>2 DEF Point
    <3>. QED
      BY <3>1, <3>2
  <2>4. Reading(g[i - 1], items[i].covers[1])
    BY <1>3, <2>2, <2>3, ReadingLater
  <2>5. g[i] = Applied(g[i - 1], items[i])
    BY <1>3, <2>4
  <2>6. Applied(g[i - 1], items[i]) \in View /\ Reading(Applied(g[i - 1], items[i]), items[i].covers[1] + 1)
    BY <1>3, <2>1, <2>2, <2>4, AppliedReads
  <2>. QED
    BY <2>1, <2>4, <2>5, <2>6 DEF Point
<1>4. ASSUME NEW k \in 0..(count - 1), k \in G PROVE k + 1 \in G
  <2>1. k + 1 \in 1..count /\ (k + 1) - 1 = k /\ k + 1 \in 0..count
    BY <1>1
  <2>2. g[k] \in View /\ Reading(g[k], Point(p, k))
    BY <1>4
  <2>3. g[k + 1] \in View /\ Reading(g[k + 1], Point(p, k + 1))
    BY <1>3, <2>1, <2>2
  <2>. QED
    BY <2>1, <2>3
<1>. HIDE DEF G
<1>5. \A i \in 0..count : i \in G
  <2>1. \A k \in 0..(count - 1) : k \in G => k + 1 \in G
    BY <1>4
  <2>. QED
    BY <1>1, <1>2, <2>1, Induction, Zenon
<1>. QED
  BY <1>5 DEF G

\* What is read depends on the sends only.
LEMMA ReadingFrame ==
    ASSUME sent' = sent, NEW p, Reading(view', p)
    PROVE  Reading(view, p)'
<1>1. ASSUME NEW q PROVE RunOf(q)' = RunOf(q)
  BY DEF RunOf
<1>2. ASSUME NEW i \in 1..Len(view'.entries) PROVE Shown(view.entries[i])'
  <2>1. Shown(view'.entries[i])
    BY DEF Reading
  <2>2. RunOf(view'.entries[i].id) = RunOf(view.entries[i].id)'
    BY DEF RunOf
  <2>. QED
    BY <2>1, <2>2 DEF Shown
<1>3. (\A i \in 1..Len(view.entries) : Shown(view.entries[i]))'
  BY <1>2
<1>4. (\A m \in 1..Streams :
          /\ Unshown(view, m) \/ Growing(view, m) \/ Over(m, p)
          /\ ~ Unshown(view, m) => \E c \in 1..Len(sent) : c < p /\ sent[c].message = m)'
  <2>1. ASSUME NEW m \in 1..Streams
        PROVE  (/\ Unshown(view, m) \/ Growing(view, m) \/ Over(m, p)
                /\ ~ Unshown(view, m) => \E c \in 1..Len(sent) : c < p /\ sent[c].message = m)'
    <3>1. (Unshown(view, m))' <=> Unshown(view', m)
      BY DEF Unshown
    <3>2. (Growing(view, m))' <=> Growing(view', m)
      BY DEF Growing, IsLast, Last
    <3>3. Over(m, p)' <=> Over(m, p)
      BY DEF Over
    <3>4. /\ Unshown(view', m) \/ Growing(view', m) \/ Over(m, p)
          /\ ~ Unshown(view', m) => \E c \in 1..Len(sent) : c < p /\ sent[c].message = m
      BY DEF Reading
    <3>. HIDE DEF Unshown, Growing, Over
    <3>. QED
      BY <3>1, <3>2, <3>3, <3>4
  <2>. QED
    BY <2>1
<1>. QED
  BY <1>3, <1>4 DEF Reading

LEMMA PollReads ==
    ASSUME DeliveryInv, ToldInOrder, MergedTextIsWhole, InOrder, view \in View, Reads,
           NEW limit \in 1..Capacity, Poll(limit)
    PROVE  view' \in View /\ Reads' /\ InOrder'
<1>. DEFINE count == IF limit < Len(items) THEN limit ELSE Len(items)
            first(i) == items[i].covers[1]
            Is(g) == g = [i \in 0..count |-> IF i = 0 THEN view ELSE Applied(g[i - 1], items[i])]
            c == CHOOSE g : Is(g)
<1>1. /\ count \in 1..Len(items) /\ Len(items) \in Nat /\ sent' = sent
      /\ \A i \in 1..Len(items') : count + i \in 1..Len(items) /\ items'[i] = items[count + i]
  BY ItemsLeft DEF Poll, DeliveryInv
<1>2. view' = c[count]
  BY DEF Poll
<1>. HIDE DEF count
<1>3. PICK p \in 1..(Len(sent) + 1) :
          Reading(view, p) /\ \A i \in 1..Len(items) : p <= items[i].covers[1]
  BY DEF Reads
<1>4. p \in Nat /\ count \in 0..Len(items) /\ count \in Nat
  BY <1>1, <1>3
<1>5. \E g : Is(g)
  <2>. DEFINE F == [q \in View \X (1..count) |->
                       IF Reading(q[1], first(q[2])) THEN Applied(q[1], items[q[2]]) ELSE view]
  <2>1. F \in Steps(View, count)
    <3>1. ASSUME NEW q \in View \X (1..count), Reading(q[1], first(q[2]))
          PROVE  Applied(q[1], items[q[2]]) \in View
      <4>1. q[1] \in View /\ q[2] \in 1..Len(items)
        BY <1>1, <3>1
      <4>2. items[q[2]].covers[1] \in Nat
        BY <4>1, FirstsType
      <4>. QED
        BY <3>1, <4>1, <4>2, AppliedReads
    <3>. QED
      BY <3>1 DEF Steps
  <2>. HIDE DEF F
  <2>2. PICK g : Follows(g, View, count, view, F)
    BY <1>4, <2>1, Recursion
  <2>3. /\ g \in [0..count -> View] /\ g[0] = view
        /\ \A i \in 1..count : g[i] = F[<<g[i - 1], i>>]
    BY <2>2 DEF Follows
  <2>4. ASSUME NEW i \in 1..count, g[i - 1] \in View, Reading(g[i - 1], items[i].covers[1])
        PROVE  g[i] = Applied(g[i - 1], items[i])
    <3>1. <<g[i - 1], i>> \in View \X (1..count)
      BY <2>4
    <3>2. F[<<g[i - 1], i>>] = Applied(g[i - 1], items[i])
      BY <2>4, <3>1 DEF F
    <3>. QED
      BY <2>3, <3>2
  <2>5. \A i \in 0..count : g[i] \in View /\ Reading(g[i], Point(p, i))
    BY <1>3, <1>4, <2>3, <2>4, ViewsRead
  <2>6. ASSUME NEW i \in 1..count PROVE g[i] = Applied(g[i - 1], items[i])
    <3>1. i - 1 \in 0..count /\ i \in 1..Len(items)
      BY <1>1, <1>4
    <3>2. g[i - 1] \in View /\ Reading(g[i - 1], Point(p, i - 1))
      BY <2>5, <3>1
    <3>3. Point(p, i - 1) \in Nat /\ items[i].covers[1] \in Nat /\ Point(p, i - 1) <= items[i].covers[1]
      <4>1. items[i].covers[1] \in Nat
        BY <3>1, FirstsType
      <4>2. CASE i - 1 = 0
        BY <1>3, <1>4, <3>1, <4>1, <4>2 DEF Point
      <4>3. CASE i - 1 # 0
        <5>1. i - 1 \in 1..Len(items) /\ i - 1 < i
          BY <1>1, <1>4, <4>3
        <5>2. items[i - 1].covers[1] \in Nat /\ items[i - 1].covers[1] < items[i].covers[1]
          BY <3>1, <5>1, FirstsType DEF InOrder
        <5>. QED
          BY <4>1, <4>3, <5>2 DEF Point
      <4>. QED
        BY <4>2, <4>3
    <3>4. Reading(g[i - 1], items[i].covers[1])
      BY <3>2, <3>3, ReadingLater
    <3>. QED
      BY <2>4, <3>2, <3>4
  <2>7. g = [i \in 0..count |-> IF i = 0 THEN view ELSE Applied(g[i - 1], items[i])]
    <3>1. \A i \in 0..count : g[i] = IF i = 0 THEN view ELSE Applied(g[i - 1], items[i])
      <4>1. \A i \in 0..count : i = 0 \/ i \in 1..count
        BY <1>4
      <4>. QED
        BY <2>3, <2>6, <4>1
    <3>. QED
      BY <2>3, <3>1
  <2>. QED
    BY <2>7
<1>6. Is(c)
  <2>. HIDE DEF Is
  <2>. QED
    BY <1>5
<1>. HIDE DEF c
<1>7. c[0] = view /\ \A i \in 1..count : c[i] = Applied(c[i - 1], items[i])
  BY <1>4, <1>6
<1>8. \A i \in 0..count : c[i] \in View /\ Reading(c[i], Point(p, i))
  BY <1>3, <1>4, <1>7, ViewsRead
<1>9. view' \in View /\ Reading(view', first(count) + 1)
  <2>1. count \in 0..count /\ count # 0
    BY <1>1, <1>4
  <2>. QED
    BY <1>2, <1>8, <2>1 DEF Point
<1>10. first(count) \in 1..Len(sent) /\ Len(sent) \in Nat
  BY <1>1, FirstsType
<1>11. ASSUME NEW i \in 1..Len(items') PROVE first(count) + 1 <= items'[i].covers[1]
  <2>1. /\ count + i \in 1..Len(items) /\ items'[i] = items[count + i] /\ count < count + i
    BY <1>1, <1>4
  <2>2. first(count) < items[count + i].covers[1] /\ items[count + i].covers[1] \in Nat
    BY <1>1, <2>1, FirstsType DEF InOrder
  <2>. DEFINE y == items[count + i].covers[1]
              x == items[count].covers[1]
  <2>3. x < y /\ y \in Nat /\ x \in Nat
    BY <1>1, <2>2, FirstsType
  <2>. HIDE DEF x, y
  <2>4. x + 1 <= y
    BY <2>3
  <2>. QED
    BY <2>1, <2>4 DEF x, y
<1>12. InOrder'
  <2>1. \A i, j \in 1..Len(items') : i < j => count + i < count + j
    BY <1>4
  <2>. QED
    BY <1>1, <2>1 DEF InOrder
<1>13. Reads'
  <2>0. PICK q \in 1..(Len(sent) + 1) : q = first(count) + 1
    BY <1>10
  <2>1. q \in 1..(Len(sent') + 1) /\ \A i \in 1..Len(items') : q <= items'[i].covers[1]
    BY <1>1, <1>11, <2>0
  <2>2. Reading(view', q)
    BY <1>9, <2>0
  <2>3. Reading(view, q)'
    BY <1>1, <2>2, ReadingFrame
  <2>. QED
    BY <2>1, <2>3 DEF Reads
<1>. QED
  BY <1>9, <1>12, <1>13

LEMMA TranscriptStart == TranscriptInit => TranscriptInv
<1>. SUFFICES ASSUME TranscriptInit PROVE TranscriptInv
  OBVIOUS
<1>1. DeliveryInv
  BY DeliveryStart
<1>2. view \in View
  BY WordsType, MailboxAssumption DEF TranscriptInit, View, NoText, Words
<1>3. items = <<>> /\ sent = <<>> /\ stream.message = 0
      /\ run.n = 0 /\ run.on = FALSE /\ run.open = FALSE /\ run.latest.id = 0
  BY DEF TranscriptInit, NoMessage
<1>4. ToldInOrder /\ Telling /\ InOrder /\ MergedTextIsWhole
  <2>1. ToldInOrder
    BY <1>3 DEF ToldInOrder
  <2>2. Telling
    BY <1>3, TranscriptAssumption DEF Telling
  <2>3. InOrder /\ MergedTextIsWhole
    BY <1>3 DEF InOrder, MergedTextIsWhole
  <2>. QED
    BY <2>1, <2>2, <2>3
<1>5. Reads
  <2>1. view.entries = <<>> /\ \A m \in 1..Streams : view.next[m] = 0
    BY DEF TranscriptInit
  <2>2. \A m \in 1..Streams : Unshown(view, m)
    BY <2>1 DEF Unshown
  <2>3. Reading(view, 1)
    BY <2>1, <2>2 DEF Reading
  <2>. QED
    BY <1>3, <2>3 DEF Reads
<1>. QED
  BY <1>1, <1>2, <1>4, <1>5 DEF TranscriptInv

LEMMA TranscriptStep ==
    ASSUME TranscriptInv, [TranscriptNext]_transcriptVars
    PROVE  TranscriptInv'
<1>. USE DEF TranscriptInv
<1>1. DeliveryInv' /\ ToldInOrder' /\ Telling'
  BY DeliveryStep, TellingStep
<1>2. ASSUME NEW m \in Letter, Put(m), view' = view PROVE TranscriptInv'
  <2>1. MergedTextIsWhole'
    BY <1>2, PutKeepsText, LettersAreSendable DEF DeliveryInv
  <2>2. InOrder'
    BY <1>2, PutInOrder
  <2>3. Reads'
    BY <1>1, <1>2, PutReads
  <2>. QED
    BY <1>1, <1>2, <2>1, <2>2, <2>3
<1>3. ASSUME NEW limit \in 1..Capacity, Poll(limit) PROVE TranscriptInv'
  <2>1. view' \in View /\ Reads' /\ InOrder'
    BY <1>3, PollReads
  <2>2. Drain(limit)
    BY <1>3 DEF Poll
  <2>3. MergedTextIsWhole'
    BY <2>2, DrainKeepsText DEF DeliveryInv
  <2>. QED
    BY <1>1, <2>1, <2>3
<1>4. ASSUME UNCHANGED <<items, sent, view>> PROVE TranscriptInv'
  <2>1. MergedTextIsWhole' /\ InOrder'
    BY <1>4 DEF MergedTextIsWhole, InOrder
  <2>2. PICK p \in 1..(Len(sent) + 1) :
            Reading(view, p) /\ \A i \in 1..Len(items) : p <= items[i].covers[1]
    BY DEF Reads
  <2>3. Reading(view', p)
    BY <1>4, <2>2
  <2>4. Reading(view, p)'
    BY <1>4, <2>3, ReadingFrame
  <2>5. Reads'
    BY <1>4, <2>2, <2>4 DEF Reads
  <2>. QED
    BY <1>1, <1>4, <2>1, <2>5
<1>5. OpenMessage \/ UNCHANGED transcriptVars => UNCHANGED <<items, sent, view>>
  BY DEF OpenMessage, transcriptVars
<1>. DEFINE P == \E m \in Letter : Put(m) /\ view' = view
<1>6. ASSUME TranscriptNext,
             ~ OpenMessage, ~ \E limit \in 1..Capacity : Poll(limit)
      PROVE  P
  BY <1>6, PutAction DEF DeliveryInv
<1>. QED
  BY <1>2, <1>3, <1>4, <1>5, <1>6

\* Every text that is shown is a beginning of the message it stands for, or the
\* words the Runtime put in its place.
THEOREM TranscriptInvariance == TranscriptSpec => []TranscriptInv
<1>1. TranscriptInit => TranscriptInv
  BY TranscriptStart
<1>2. TranscriptInv /\ [TranscriptNext]_transcriptVars => TranscriptInv'
  BY TranscriptStep
<1>. QED
  BY <1>1, <1>2, PTL DEF TranscriptSpec

\* No text on the screen has a gap or a repetition: a delta that does not go on
\* where the text ends is given up, and everything that lets a number begin anew
\* takes the text away or replaces it (TuiProjector._apply_delta,
\* TuiMailbox._coalesce_delta).
THEOREM ShownIsWhole == TranscriptSpec => []ShownTextIsWhole
<1>1. TranscriptInv => ShownTextIsWhole
  <2>1. ASSUME TranscriptInv PROVE \A i \in 1..Len(view.entries) : Shown(view.entries[i])
    BY <2>1 DEF TranscriptInv, Reads, Reading
  <2>2. ASSUME TranscriptInv PROVE DOMAIN view.entries = 1..Len(view.entries)
    BY <2>2 DEF TranscriptInv, View
  <2>. QED
    BY <2>1, <2>2 DEF ShownTextIsWhole, Shown
<1>. QED
  BY <1>1, TranscriptInvariance, PTL

=============================================================================
