------------------------------ MODULE Retrieval ------------------------------
(***************************************************************************)
(* Retrieval beside the index lifecycle: a request resolves its scope,     *)
(* looks into the semantic cache, searches the vector store under a filter *)
(* it built from the catalog, and drops what the catalog does not show any *)
(* more; the planner may ask for a second round.  Between any two of these *)
(* steps a document can be indexed again, deleted, or cleaned up.          *)
(*                                                                         *)
(* The catalog is the one GenerationCatalog describes, which KnowledgeIndex*)
(* implements.  A chunk is identified with its generation; scores, and the *)
(* texts they are computed from, are left out: any selection of candidates *)
(* may be the best one.                                                    *)
(***************************************************************************)
EXTENDS GenerationCatalog, Integers, Sequences, FiniteSets, FiniteSetsExt,
        SequencesExt

CONSTANTS
    DocumentOf,   \* the document a generation belongs to
    Readers,      \* requests that retrieve
    Whole,        \* the scope of a request that names no document
    TopK,         \* the candidates one search may return
    CacheSize     \* maxEntries of the semantic cache

\* NewSemanticCache replaces a capacity that is not positive.
ASSUME RetrievalConstants == CacheSize \in Nat

VARIABLES
    reader,       \* what each request is doing
    cache,        \* the entries of the semantic cache, oldest first
    old,          \* how many of them are past their time to live
    seen          \* observer: what each request's scope showed since it began

retrievalVars == <<visible, stored, reader, cache, old, seen>>

SearchScopes == Names \cup {Whole}

AtRest == [at |-> "idle", scope |-> Whole, filter |-> {}, hits |-> {}, first |-> {},
         chosen |-> {}, wide |-> FALSE, planned |-> FALSE, round |-> 0]

\* The generations a scope shows, in a catalog and in the one of now.
Shows(catalog, scope) == {catalog[n] : n \in {m \in Names : scope \in {m, Whole}}} \ {None}
Shown(scope) == Shows(visible, scope)

\* Every document has generations of its own.
OwnOnly == \A n \in Names : visible[n] \in {None} \cup {g \in Generations : DocumentOf[g] = n}

RetrievalInit ==
    /\ Init /\ OwnOnly
    /\ reader = [r \in Readers |-> AtRest]
    /\ cache = <<>> /\ old = 0
    /\ seen = [r \in Readers |-> {}]
-----------------------------------------------------------------------------
(* The catalog *)

\* A step of the index lifecycle.
CatalogStep ==
    /\ Next
    /\ OwnOnly'
    /\ seen' = [r \in Readers |->
                  IF reader[r].at = "idle" THEN {}
                  ELSE seen[r] \cup Shows(visible', reader[r].scope)]
    /\ UNCHANGED <<reader, cache, old>>

Elsewhere == UNCHANGED <<visible, stored, seen>>
Become(r, state) == reader' = [reader EXCEPT ![r] = state]
-----------------------------------------------------------------------------
(* A request: retrieveRelevantChunksWithQueries *)

\* resolveRetrievalKnowledgeBaseIDs; the query is embedded after it.
Resolve(r, scope, planned) ==
    /\ reader[r].at = "idle"
    /\ scope # Whole => visible[scope] # None
    /\ Become(r, [AtRest EXCEPT !.at = "lookup", !.scope = scope,
                              !.planned = planned, !.round = 1])
    /\ seen' = [seen EXCEPT ![r] = Shown(scope)]
    /\ UNCHANGED <<visible, stored, cache, old>>

\* Mutant: a hit is returned as it was stored.
KeptStored(scope, chunks) == chunks
\* filterRetrievedChunksToScope, under the catalog of now.
Kept(scope, chunks) == chunks \cap Shown(scope)

\* What is left of the cache once the entries past their time are dropped.
Young == SubSeq(cache, old + 1, Len(cache))

\* The results of a scope that the cache holds; the one that is similar enough may
\* be any of them, or none.
Hits(scope) == {e.chunks : e \in {f \in Range(Young) : f.scope = scope}}

\* SemanticCache.Get: a hit that the filter empties counts as a miss, a result that
\* was stored empty does not.
Lookup(r) ==
    LET scope == reader[r].scope IN
    /\ reader[r].at = "lookup"
    /\ cache' = Young /\ old' = 0
    /\ \/ \E hit \in Hits(scope) :
            /\ Kept(scope, hit) # {} \/ hit = {}
            /\ Become(r, [reader[r] EXCEPT !.at = "chosen",
                                           !.chosen = @ \cup Kept(scope, hit)])
       \/ Become(r, [reader[r] EXCEPT !.at = "filter"])
    /\ Elsewhere

\* withCurrentIndexFenceFilter: the current generation of each document; without any
\* document the search of a knowledge base is not filtered by generation.
Filters(scope) ==
    IF scope = Whole /\ Shown(scope) = {} THEN {{}, Generations} ELSE {Shown(scope)}

BuildFilter(r) ==
    /\ reader[r].at = "filter"
    /\ \E filter \in Filters(reader[r].scope) :
         Become(r, [reader[r] EXCEPT !.at = "search", !.filter = filter])
    /\ Elsewhere /\ UNCHANGED <<cache, old>>

\* The vector store answers with the best candidates, which may be any; twice as
\* many are asked for when the search is expanded.
Search(r) ==
    LET matching == stored \cap reader[r].filter
        limit == IF reader[r].wide THEN 2 * TopK ELSE TopK
        size == IF Cardinality(matching) < limit THEN Cardinality(matching) ELSE limit
    IN
    /\ reader[r].at = "search"
    /\ \E hits \in kSubset(size, matching) :
         Become(r, [reader[r] EXCEPT !.at = "select", !.hits = hits, !.filter = {}])
    /\ UNCHANGED <<visible, stored, seen, cache, old>>

\* The search fails: an expanded one, and one of the second round, are given up
\* for what was found before.
SearchFails(r) ==
    /\ reader[r].at = "search"
    /\ Become(r, IF reader[r].wide
                 THEN [reader[r] EXCEPT !.at = "store", !.hits = reader[r].first, !.filter = {}]
                 ELSE IF reader[r].round = 2
                 THEN [reader[r] EXCEPT !.at = "chosen", !.filter = {}]
                 ELSE AtRest)
    /\ seen' = [seen EXCEPT ![r] = IF reader'[r] = AtRest THEN {} ELSE @]
    /\ UNCHANGED <<visible, stored, cache, old>>

\* The scope filter and applySelectionStrategy, which keeps something whenever
\* there is something; what is selected with low confidence is searched again
\* once, with more candidates, unless the request names a document, and the
\* better one of the two selections is kept.
Select(r) ==
    LET found == Kept(reader[r].scope, reader[r].hits) IN
    /\ reader[r].at = "select"
    /\ \E best \in (IF found = {} THEN {{}} ELSE SUBSET found \ {{}}) :
         \/ /\ ~reader[r].wide
            /\ Become(r, [reader[r] EXCEPT !.at = "store", !.hits = best])
         \/ /\ ~reader[r].wide /\ reader[r].scope = Whole
            /\ Become(r, [reader[r] EXCEPT !.at = "filter", !.wide = TRUE,
                                           !.hits = {}, !.first = best])
         \/ /\ reader[r].wide
            /\ \E better \in {best, reader[r].first} :
                 Become(r, [reader[r] EXCEPT !.at = "store", !.hits = better])
    /\ UNCHANGED <<visible, stored, seen, cache, old>>

\* SemanticCache.Set, under the embedding of the request's own query whatever
\* queries the planner added; the oldest entry makes room.
Store(r) ==
    LET entries == Append(Young, [scope |-> reader[r].scope, chunks |-> reader[r].hits])
        over == Len(entries) - CacheSize
    IN
    /\ reader[r].at = "store"
    /\ cache' = IF over > 0 THEN SubSeq(entries, over + 1, Len(entries)) ELSE entries
    /\ old' = 0
    /\ Become(r, [reader[r] EXCEPT !.at = "chosen", !.chosen = @ \cup reader[r].hits,
                                   !.hits = {}, !.first = {}, !.wide = FALSE])
    /\ Elsewhere

\* The second round of the planner, when the first one found too little: its
\* queries go through the same steps, the cache included, and what both rounds
\* found is selected from.
FollowUp(r) ==
    /\ reader[r].at = "chosen" /\ reader[r].planned
    /\ Become(r, [reader[r] EXCEPT !.at = "lookup", !.planned = FALSE, !.round = 2])
    /\ Elsewhere /\ UNCHANGED <<cache, old>>

Answer(r) ==
    /\ reader[r].at = "chosen"
    /\ Become(r, AtRest)
    /\ seen' = [seen EXCEPT ![r] = {}]
    /\ UNCHANGED <<visible, stored, cache, old>>

\* An entry reaches its time to live; entries are in the order of their age.
Age ==
    /\ old < Len(cache)
    /\ old' = old + 1
    /\ UNCHANGED <<visible, stored, reader, seen, cache>>

RetrievalNext ==
    \/ CatalogStep \/ Age
    \/ \E r \in Readers :
         \/ \E scope \in SearchScopes, planned \in BOOLEAN : Resolve(r, scope, planned)
         \/ Lookup(r) \/ BuildFilter(r) \/ Search(r) \/ SearchFails(r)
         \/ Select(r) \/ Store(r) \/ FollowUp(r) \/ Answer(r)

RetrievalSpec == RetrievalInit /\ [][RetrievalNext]_retrievalVars
-----------------------------------------------------------------------------
(* Properties *)

\* Types of the variables.
RetrievalTypeOK ==
    /\ TypeOK
    /\ reader \in [Readers -> [at : {"idle", "lookup", "filter", "search", "select",
                                     "store", "chosen"},
                               scope : SearchScopes, filter : SUBSET Generations,
                               hits : SUBSET Generations, first : SUBSET Generations,
                               chosen : SUBSET Generations, wide : BOOLEAN,
                               planned : BOOLEAN, round : 0..2]]
    /\ cache \in Seq([scope : SearchScopes, chunks : SUBSET Generations])
    /\ Len(cache) <= CacheSize /\ old \in 0..Len(cache)
    /\ seen \in [Readers -> SUBSET Generations]

\* An answer rests on what the catalog showed in the request's scope at some
\* moment of the request: neither the cache, nor a search that a new generation
\* overtook, nor the first round of two brings back a deleted document or a
\* replaced generation from before it.
AnswersFresh ==
    \A r \in Readers : reader[r].at = "chosen" => reader[r].chosen \subseteq seen[r]
=============================================================================
