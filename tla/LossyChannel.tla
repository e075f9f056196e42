---------------------------- MODULE LossyChannel ----------------------------
(***************************************************************************)
(* What the TUI mailbox promises to the two threads it connects: messages  *)
(* arrive in the order they were sent, a full mailbox loses some of them,  *)
(* a loss raises the counter the screen shows, and a message is only ever  *)
(* given up for one that matters at least as much.                         *)
(*                                                                         *)
(* Messages are the numbers of the sends.  Nothing is said of how queued   *)
(* messages are stored: that text deltas are merged is invisible here.     *)
(***************************************************************************)
EXTENDS Naturals, Sequences

CONSTANTS
    Capacity    \* a channel holding fewer messages than this loses nothing

Droppable == {"delta", "output"}          \* _DROPPABLE_EVENT_TYPES
Critical  == {"final"}                    \* _CRITICAL_EVENT_TYPES
Reply     == {"reply"}                    \* interaction and completion messages
Protected == {"turn"} \cup Critical \cup Reply
Kind      == Droppable \cup {"tool"} \cup Protected

\* May a queued message of kind "old" be given up for a new one?
MayDisplace(new, old) ==
    \/ old \in Droppable
    \/ old \notin Protected /\ new \in Protected
    \/ old \notin Critical \cup Reply /\ new \in Critical

VARIABLES
    sent,       \* the kinds of the messages sent so far
    queue,      \* the messages on their way
    got,        \* the messages received
    losses      \* the loss counter

channelVars == <<sent, queue, got, losses>>

Init ==
    /\ sent = <<>>
    /\ queue = <<>>
    /\ got = <<>>
    /\ losses = 0

\* A message is sent, and none is lost.
Deliver ==
    /\ queue' = Append(queue, Len(sent) + 1)
    /\ UNCHANGED losses

\* The messages at the places first to last of the queue are given up for it.
Displace(kind, first, last) ==
    /\ Len(queue) >= Capacity
    /\ \A i \in first..last : MayDisplace(kind, sent[queue[i]])
    /\ queue' = Append(SubSeq(queue, 1, first - 1) \o SubSeq(queue, last + 1, Len(queue)),
                       Len(sent) + 1)
    /\ losses' > losses

\* It is refused, because nothing in the queue may be given up for it.
Refuse(kind) ==
    /\ Len(queue) >= Capacity
    /\ \A i \in 1..Len(queue) : ~ MayDisplace(kind, sent[queue[i]])
    /\ losses' > losses
    /\ UNCHANGED queue

Send(kind) ==
    /\ sent' = Append(sent, kind)
    /\ \/ Deliver
       \/ \E last \in 1..Len(queue) : \E first \in 1..last : Displace(kind, first, last)
       \/ Refuse(kind)
    /\ UNCHANGED got

Receive(k) ==
    /\ got' = got \o SubSeq(queue, 1, k)
    /\ queue' = SubSeq(queue, k + 1, Len(queue))
    /\ UNCHANGED <<sent, losses>>

Next ==
    \/ \E kind \in Kind : Send(kind)
    \/ \E k \in 1..Len(queue) : Receive(k)

Spec == Init /\ [][Next]_channelVars

=============================================================================
