---------------------------- MODULE MCContainerRun ----------------------------
EXTENDS ContainerRun, TLC

CONSTANTS r1, r2, j1, j2, s1, s2

TwoStages == <<"score", "seal">>
Symmetry == Permutations(Run) \cup Permutations(Jobs) \cup Permutations(Sinks)
=============================================================================
