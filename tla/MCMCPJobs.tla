------------------------------ MODULE MCMCPJobs ------------------------------
(* Instances of MCPJobs for TLC. *)
EXTENDS MCPJobs, TLC

CONSTANTS j1, j2, j3, j4, w1, w2

OneJob    == {j1}
TwoJobs   == {j1, j2}
ThreeJobs == {j1, j2, j3}
FourJobs  == {j1, j2, j3, j4}
OneWorker  == {w1}
TwoWorkers == {w1, w2}
OneSlot  == {1}
TwoSlots == {1, 2}
NoJobs == {}
NoWorkers == {}
LastWorker == {w2}

Symmetry == Permutations(Jobs)
=============================================================================
