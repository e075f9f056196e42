---------------------------- MODULE MCTuiSession ----------------------------
EXTENDS TuiSession, TLC

\* The texts are interchangeable; for runs without liveness.
Texts == Permutations(Prompt)
=============================================================================
