---------------------------- MODULE MCBatchIndex ----------------------------
(* Instances of BatchIndex for TLC. *)
EXTENDS BatchIndex, TLC

CONSTANTS u1, u2, u3, c1, c2

TwoUploads   == {u1, u2}
ThreeUploads == {u1, u2, u3}
TwoFiles   == <<u1, u2>>
ThreeFiles == <<u1, u2, u3>>
TwoContents == {c1, c2}

\* Two uploads of one content, and a third one of its own.
SharedContent   == (u1 :> c1) @@ (u2 :> c1)
SharedOrOwn     == (u1 :> c1) @@ (u2 :> c1) @@ (u3 :> c2)
DistinctContent == (u1 :> c1) @@ (u2 :> c2)
=============================================================================
