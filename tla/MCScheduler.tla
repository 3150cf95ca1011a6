----------------------------- MODULE MCScheduler -----------------------------
EXTENDS Scheduler, TLC
CONSTANTS r1, r2, c1, c2
OneRunner == {r1}
TwoRunners == {r1, r2}
OneClient == {c1}
TwoClients == {c1, c2}
Symmetry == Permutations(TwoRunners)
=============================================================================
