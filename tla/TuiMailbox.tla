----------------------------- MODULE TuiMailbox -----------------------------
(***************************************************************************)
(* TuiMailbox: the bounded queue between the Runtime thread, which puts    *)
(* and never waits for the screen, and the UI thread, which drains.  Every *)
(* operation holds the mailbox's condition, so each is one action.         *)
(*                                                                         *)
(* A message is [kind, message, index]: what the code tells apart by its   *)
(* type, and for an AssistantDelta the message it belongs to and its       *)
(* delta_index.  A queued item also has "covers", the numbers of the sends *)
(* merged into it: the code's delta_span is their number.                  *)
(***************************************************************************)
EXTENDS Naturals, Sequences, SequencesExt

CONSTANTS
    Capacity,   \* the bound on the queue
    MaxSpan,    \* deltas that fit in one merged item (64K characters)
    Streams,    \* bound: the assistant messages streamed, one after the other
    MaxSent     \* bound: the messages put while the mailbox is open

ASSUME MailboxAssumption ==
    /\ Capacity \in Nat \ {0}
    /\ MaxSpan \in Nat \ {0}
    /\ Streams \in Nat \ {0}
    /\ MaxSent \in Nat

L == INSTANCE LossyChannel WITH
         sent <- <<>>, queue <- <<>>, got <- <<>>, losses <- 0

Droppable == L!Droppable
Critical  == L!Critical
Protected == L!Protected
Kind      == L!Kind

\* The messages that are TuiEvents; the others are never given up.
Event == Kind \ {"reply"}

VARIABLES
    items,      \* _items
    closed,     \* _closed
    dropped,    \* _dropped
    stream,     \* the producer: the message streamed, and its next delta_index
    sent,       \* the messages put while the mailbox was open
    got         \* the numbers of the sends the UI received, in order

vars == <<items, closed, dropped, stream, sent, got>>

Message == [kind : Kind, message : 0..Streams, index : Nat]

Init ==
    /\ items = <<>>
    /\ closed = FALSE
    /\ dropped = 0
    /\ stream = [message |-> 1, index |-> 0]
    /\ sent = <<>>
    /\ got = <<>>

-----------------------------------------------------------------------------
(* put *)

Item(m) == [kind |-> m.kind, message |-> m.message, index |-> m.index,
            covers |-> <<Len(sent) + 1>>]

\* _coalesce_delta: a delta continues the last queued one exactly.
Continues(m) ==
    /\ m.kind = "delta"
    /\ items # <<>>
    /\ Last(items).kind = "delta"
    /\ Last(items).message = m.message
    /\ Last(items).index + Len(Last(items).covers) = m.index
    /\ Len(Last(items).covers) < MaxSpan

\* The merged delta keeps the index of the first one.
Coalesce ==
    items' = Append(Front(items), [Last(items) EXCEPT !.covers = Append(@, Len(sent) + 1)])

\* The place of the oldest queued item of a kind in K.
Oldest(K) ==
    {i \in 1..Len(items) : items[i].kind \in K /\ \A j \in 1..(i - 1) : items[j].kind \notin K}

\* Faulty: the oldest item makes room, whatever it is.
VictimFirst(k) == {i \in {1} : items # <<>>}

\* _make_room: the item given up for one of kind k, if there is one.
Victim(k) ==
    LET plain  == Oldest(Kind \ Protected)
        lesser == Oldest(Event \ Critical)
    IN IF Oldest(Droppable) # {} THEN Oldest(Droppable)
       ELSE IF k \notin Protected THEN {}
       ELSE IF plain # {} THEN plain
       ELSE IF k \in Critical THEN lesser ELSE {}

Full == Len(items) >= Capacity

Put(m) ==
    /\ ~ closed
    /\ Len(sent) < MaxSent
    /\ sent' = Append(sent, m)
    /\ \/ /\ Continues(m)
          /\ Coalesce
          /\ UNCHANGED dropped
       \/ /\ ~ Continues(m)
          /\ ~ Full
          /\ items' = Append(items, Item(m))
          /\ UNCHANGED dropped
       \/ /\ ~ Continues(m)
          /\ Full
          /\ \E i \in Victim(m.kind) : items' = Append(RemoveAt(items, i), Item(m))
          /\ dropped' = dropped + 1
       \/ /\ ~ Continues(m)
          /\ Full
          /\ Victim(m.kind) = {}
          /\ dropped' = dropped + 1
          /\ UNCHANGED items
    /\ UNCHANGED <<closed, got>>

-----------------------------------------------------------------------------
\* The provider's text: deltas are numbered from 0 within their message.
PutDelta ==
    /\ Put([kind |-> "delta", message |-> stream.message, index |-> stream.index])
    /\ stream' = [stream EXCEPT !.index = @ + 1]

NextMessage ==
    /\ stream.message < Streams
    /\ stream.index > 0
    /\ stream' = [message |-> stream.message + 1, index |-> 0]
    /\ UNCHANGED <<items, closed, dropped, sent, got>>

PutOther(kind) ==
    /\ Put([kind |-> kind, message |-> 0, index |-> 0])
    /\ UNCHANGED stream

\* drain(limit) takes up to "limit" items from the front; get() takes one.
Drain(limit) ==
    /\ items # <<>>
    /\ LET count == IF limit < Len(items) THEN limit ELSE Len(items) IN
       /\ got' = got \o FlattenSeq([i \in 1..count |-> items[i].covers])
       /\ items' = SubSeq(items, count + 1, Len(items))
    /\ UNCHANGED <<closed, dropped, stream, sent>>

Close ==
    /\ closed' = TRUE
    /\ UNCHANGED <<items, dropped, stream, sent, got>>

Next ==
    \/ PutDelta
    \/ NextMessage
    \/ \E kind \in Kind \ {"delta"} : PutOther(kind)
    \/ \E limit \in 1..Capacity : Drain(limit)
    \/ Close

Spec == Init /\ [][Next]_vars

-----------------------------------------------------------------------------
(* Properties. *)

\* Merging deltas loses no text and hides no gap: a queued delta stands for
\* consecutive deltas of one message, in order, the first being its
\* delta_index, even when a delta between two others was refused or a queued
\* one was given up.
MergedTextIsWhole ==
    \A i \in 1..Len(items) : items[i].kind = "delta" =>
        \A j \in 1..Len(items[i].covers) :
            LET m == sent[items[i].covers[j]] IN
            /\ m.kind = "delta"
            /\ m.message = items[i].message
            /\ m.index = items[i].index + j - 1

\* The mailbox is a lossy channel: in order, losing messages only when it is
\* full, counting the loss, and giving a queued message up only for one that
\* may displace it.
Channel == INSTANCE LossyChannel WITH
    sent   <- [n \in 1..Len(sent) |-> sent[n].kind],
    queue  <- FlattenSeq([i \in 1..Len(items) |-> items[i].covers]),
    losses <- dropped

ImplementsChannel == Channel!Spec

\* "Critical lifecycle preservation": the message that closes a turn gets in
\* unless the mailbox is full of such messages and of replies, and then stays
\* until it is received.
CriticalKept ==
    [][sent' # sent /\ Last(sent').kind \in Critical =>
          \/ \E i \in 1..Len(items') : Last(items'[i].covers) = Len(sent')
          \/ \A i \in 1..Len(items) : items[i].kind \in Critical \cup {"reply"}]_vars

=============================================================================
