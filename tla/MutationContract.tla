-------------------------- MODULE MutationContract --------------------------
(***************************************************************************)
(* What one call of mutate_rooted_regular promises about the file and the  *)
(* private entry it may leave behind, as a relation between the requested  *)
(* images, the result and the directory.  RootedMutation shows that the    *)
(* sequence of system calls keeps it; RootedTransaction uses it as the     *)
(* effect of a call.                                                       *)
(*                                                                         *)
(* A record r has: from and to, the images requested ("absent" when there  *)
(* is no file); status and changed, the result; target, the content at the *)
(* path; stray, the content of the private entry or "absent"; world, the   *)
(* content the path would have had the call never run; and seen, the       *)
(* versions editors wrote while the call ran.                              *)
(***************************************************************************)

\* The path has the requested image and nothing else was left.
Committed(r) ==
    r.status = "committed" =>
        /\ r.changed
        /\ r.target = r.to
        /\ r.stray = "absent"
        /\ r.world \in {r.from, r.to}

\* A refusal that says "unchanged" left no entry and no change; a delete that
\* was undone may have brought the before image back over a removal.
CleanRefusal(r) ==
    r.status = "refused" /\ ~ r.changed =>
        /\ r.stray = "absent"
        /\ \/ r.target = r.world
           \/ r.to = "absent" /\ r.world = "absent" /\ r.target = r.from

\* What the call found, or what an editor wrote meanwhile, is still somewhere
\* unless the path has the requested image in its place.
NothingLost(r) ==
    \/ r.world \in {r.target, r.stray, "absent"}
    \/ r.world = r.from /\ r.target = r.to

\* Nothing else is ever left behind.
Leftovers(r) ==
    /\ r.target \in {r.from, r.to, r.world, "absent"} \cup r.seen
    /\ r.stray \in {r.from, r.to, "absent", "partial"} \cup r.seen
    /\ r.stray # "absent" => r.stray # r.target

Holds(r) == Committed(r) /\ CleanRefusal(r) /\ NothingLost(r) /\ Leftovers(r)
=============================================================================
