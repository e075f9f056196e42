------------------------- MODULE StagingObligation -------------------------
(***************************************************************************)
(* What the staging journal promises.  Whatever a sandboxed command leaves *)
(* on the machine -- its directory, its volumes, its containers, requests  *)
(* the engine has not carried out yet -- is owed by one attempt.  At most  *)
(* one attempt owes something at a time, nothing exists that nobody owes,  *)
(* an attempt is released only when nothing of it is left, and an attempt  *)
(* that was released never owes anything again.                            *)
(***************************************************************************)
EXTENDS Integers

VARIABLES
    owner,  \* the attempt that owes, 0 for none
    held,   \* what is on the machine, each thing tagged with its attempt
    last    \* the last attempt there was

obligation == <<owner, held, last>>

Init == owner = 0 /\ held = {} /\ last = 0

Take ==
    /\ owner = 0 /\ held = {}
    /\ last' = last + 1
    /\ owner' = last'
    /\ UNCHANGED held

Change ==
    /\ owner # 0
    /\ \A thing \in held' : thing.attempt = owner
    /\ UNCHANGED <<owner, last>>

Release ==
    /\ owner # 0 /\ held = {}
    /\ owner' = 0
    /\ UNCHANGED <<held, last>>

Next == Take \/ Change \/ Release

Spec == Init /\ [][Next]_obligation
=============================================================================
