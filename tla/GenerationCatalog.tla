-------------------------- MODULE GenerationCatalog --------------------------
(***************************************************************************)
(* What the index lifecycle promises about the durable catalog: for each   *)
(* document the catalog names at most one index generation, it never names *)
(* one that is not stored completely, and a generation is only discarded   *)
(* while nothing names it.                                                 *)
(***************************************************************************)
CONSTANTS
    Names,       \* documents, each within its knowledge base
    Generations, \* index generations
    None         \* what a document without a visible generation shows

VARIABLES
    visible,  \* [Names -> Generations \cup {None}]: what the catalog names
    stored    \* generations that are stored completely

vars == <<visible, stored>>

Visible == {visible[n] : n \in Names}

TypeOK ==
    /\ visible \in [Names -> Generations \cup {None}]
    /\ stored \in SUBSET Generations

Init ==
    /\ TypeOK
    /\ Visible \ {None} \subseteq stored

\* A generation is written beside the visible one.
Write(g) ==
    /\ stored' = stored \cup {g}
    /\ UNCHANGED visible

\* Generations that the catalog does not name are removed.
Discard ==
    /\ stored' \in SUBSET stored
    /\ stored \cap Visible \subseteq stored'
    /\ UNCHANGED visible

\* One save of the catalog: some documents move to another stored generation,
\* or out of the catalog.
Switch ==
    /\ visible' \in [Names -> stored \cup {None}]
    /\ UNCHANGED stored

Next ==
    \/ \E g \in Generations : Write(g)
    \/ Discard
    \/ Switch

Spec == Init /\ [][Next]_vars

-----------------------------------------------------------------------------
(* Properties *)

\* Whatever the catalog names is stored completely: a reader that follows the
\* catalog never meets a generation that is half written or half removed.
VisibleStored == Visible \ {None} \subseteq stored
=============================================================================
