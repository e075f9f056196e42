------------------------- MODULE MCWorkspaceLedger --------------------------
EXTENDS WorkspaceLedger

CONSTANTS old, a, b    \* an existing journal's record; a exists, b does not

Job(kind, images) == [kind |-> kind, images |-> images]

MCJobs == {
    Rollback,
    Job("patch", [f \in {a} |-> "new"]),
    Job("write", [f \in {b} |-> "new"]),
    Job("edit",  [f \in {a} |-> "new"]),
    Job("stage", [f \in {a, b} |-> IF f = a THEN "gone" ELSE "new"]) }

\* What can no longer matter is not told apart: the temporary files, what an
\* append that is over has read, a call that changed nothing in the end, how a call
\* ended that left its files open, and what an editor wrote when no call is between
\* its look and its writes.
Writing(w) == stage[w] \in {"write", "undo"} \/ (stage[w] = "change" /\ Blind(w))

Settled(w) == reply[w] \in {"refused", "restored"} /\ ~ Holds(journal, w)

View ==
    <<journal, files, edited, edits, IF \E w \in Writer : Writing(w) THEN late ELSE {},
      faults, pc, result, stage,
      [w \in Writer |-> IF Open(w) THEN "open" ELSE reply[w]],
      [w \in Writer |-> IF pc[w] = "done" THEN <<>> ELSE before[w]],
      [w \in Writer |-> IF Settled(w) THEN <<>>
                        ELSE <<job[w], known[w], seen[w], undoes[w]>>]>>

Symmetry == Permutations(Writer)
=============================================================================
