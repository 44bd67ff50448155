-------------------------- MODULE MCKnowledgeIndex --------------------------
(* Instances of KnowledgeIndex for TLC. *)
EXTENDS KnowledgeIndex, TLC

CONSTANTS k1, k2, d1, d2, d3, c1, c2, p1, p2

TwoDocs  == {d1, d2}
Distinct == (d1 :> c1) @@ (d2 :> c2)
Shared   == (d1 :> c1) @@ (d2 :> c1)
ProcSymmetry == Permutations(Procs)
=============================================================================
