-------------------------------- MODULE Ranking --------------------------------
(***************************************************************************)
(* How a retrieval in one knowledge base ranks what the vector store       *)
(* found: searches that run at once and answer in any order, the fusion of *)
(* their answers, the choice among the candidates, the evidence gate and   *)
(* the cut to the length of the context.                                   *)
(*                                                                         *)
(* A chunk is a number: that of its place in its document.  Scores are in  *)
(* millionths; the texts are left out, so a reranker may give any score,   *)
(* any chunk may hold direct evidence, and two texts are alike or not.     *)
(***************************************************************************)
EXTENDS Integers, Sequences, FiniteSets, FiniteSetsExt, Functions, SequencesExt

CONSTANTS
    Chunks,       \* numbers of the chunks
    Source,       \* the document, a number, of each chunk
    Topic,        \* chunks of one topic have one text
    Levels,       \* scores that the vector store and the rerankers give
    CandidateTopK, FinalTopK, PerDocument,
    TextLengths,  \* lengths of the texts
    Budgets       \* lengths of the context

\* validateRetrievalConfig keeps the limits between 1 and 120, the first of which a
\* wider search doubles, and the length of a context above 800.
ASSUME RankingConstants ==
    /\ IsFiniteSet(Chunks) /\ Chunks \subseteq Int /\ Source \in [Chunks -> Int] /\ Levels \subseteq Int
    /\ CandidateTopK \in 1..900 /\ FinalTopK \in Nat \ {0} /\ PerDocument \in Nat \ {0}
    /\ TextLengths \subseteq Nat \ {0}
    /\ Budgets \subseteq Nat /\ \A budget \in Budgets : budget >= 4

VARIABLES
    phase,        \* the step of the pipeline that was done last
    hybrid,       \* one hybrid search, or several queries
    answers,      \* what each search answered
    arrived,      \* the queries whose answers came through the channel, in their order
    before,       \* the list the last step started from
    list,         \* the list it made: chunks with their scores
    context       \* the lengths of the texts that go into the context

rankingVars == <<phase, hybrid, answers, arrived, before, list, context>>

\* The searches: of two queries, or in the two channels of a hybrid search.
Searches == {"first", "second"}
Dense == "first"
Sparse == "second"
Reply(status, items) == [status |-> status, items |-> items]

RankingInit ==
    /\ phase = "search" /\ hybrid \in BOOLEAN
    /\ answers = [q \in Searches |-> Reply("pending", <<>>)]
    /\ arrived = <<>> /\ before = <<>> /\ list = <<>>
    /\ context = [budget |-> 0, full |-> <<>>, cut |-> <<>>]
-----------------------------------------------------------------------------
(* Searches *)

Item(chunk, score, raw) == [chunk |-> chunk, score |-> score, raw |-> raw]
ChunksOf(items) == {items[i].chunk : i \in DOMAIN items}
Falling(items) == \A i \in 1..Len(items) - 1 : items[i].score >= items[i + 1].score
Cut(items, n) == SubSeq(items, 1, Min({n, Len(items)}))

SearchLimit == IF hybrid THEN Max({CandidateTopK, Min({2 * CandidateTopK, 64})}) ELSE CandidateTopK

\* What a search may answer: chunks by falling score, equal ones in any order.
Findings == UNION {{[i \in DOMAIN order |-> Item(order[i], score[order[i]], score[order[i]])] :
                      score \in [Range(order) -> Levels]} : order \in SetToAllKPermutations(Chunks)}

\* The searches share nothing until all have ended: none waits for another here.
Answered(q, found) ==
    /\ phase = "search" /\ answers[q].status = "pending"
    /\ Len(found) <= SearchLimit /\ Falling(found)
    /\ answers' = [answers EXCEPT ![q] = Reply("found", found)]
    /\ arrived' = IF hybrid THEN arrived ELSE Append(arrived, q)
    /\ UNCHANGED <<phase, hybrid, before, list, context>>

SearchFailed(q) ==
    /\ phase = "search" /\ answers[q].status = "pending"
    /\ answers' = [answers EXCEPT ![q] = Reply("failed", <<>>)]
    /\ UNCHANGED <<phase, hybrid, arrived, before, list, context>>
-----------------------------------------------------------------------------
(* Fusion *)

\* sortRetrievedChunks, and the sort of MultiQuerySearchWithFilter.
Precedes(a, b) ==
    \/ a.score > b.score
    \/ a.score = b.score /\ Source[a.chunk] < Source[b.chunk]
    \/ a.score = b.score /\ Source[a.chunk] = Source[b.chunk] /\ a.chunk < b.chunk
Sorted(items) ==
    CHOOSE order \in [1..Cardinality(items) -> items] :
        \A i, j \in DOMAIN order : i < j => Precedes(order[i], order[j])

\* Mutant: what arrives later replaces what arrived before.
BetterLatest(best, item) ==
    [c \in DOMAIN best \cup {item.chunk} |-> IF c = item.chunk THEN item.score ELSE best[c]]
\* The higher score of a chunk that several queries found.
Better(best, item) ==
    IF item.chunk \in DOMAIN best /\ item.score <= best[item.chunk] THEN best
    ELSE [c \in DOMAIN best \cup {item.chunk} |-> IF c = item.chunk THEN item.score ELSE best[c]]

\* MultiQuerySearchWithFilter takes the answers from the channel as they arrived.
MergedScores ==
    FoldLeft(LAMBDA best, q : FoldLeft(Better, best, answers[q].items), <<>>, arrived)
Merged ==
    Cut(Sorted({Item(c, MergedScores[c], MergedScores[c]) : c \in DOMAIN MergedScores}), CandidateTopK)

\* rrfFusion: the sum of 1/(60 + rank), in millionths; equal ones in the order of
\* their ids, here that of their places.
RankIn(q, c) == CHOOSE i \in DOMAIN answers[q].items : answers[q].items[i].chunk = c
Share(q, c) == IF c \in ChunksOf(answers[q].items) THEN 1000000 \div (60 + RankIn(q, c)) ELSE 0
FusedScore(c) == Share(Dense, c) + Share(Sparse, c)
Fused ==
    Cut(Sorted({Item(c, FusedScore(c), FusedScore(c)) :
                  c \in ChunksOf(answers[Dense].items) \cup ChunksOf(answers[Sparse].items)}),
        CandidateTopK)

\* Several queries fail when one does.  A hybrid search fails with its dense
\* channel; without an answer of the sparse one the dense answer stands, as long
\* as it was asked for.
Collect ==
    /\ phase = "search" /\ \A q \in Searches : answers[q].status # "pending"
    /\ LET lost == {q \in Searches : answers[q].status = "failed"} IN
       \/ /\ Dense \in lost \/ (~hybrid /\ lost # {})
          /\ phase' = "failed" /\ list' = <<>>
       \/ /\ ~hybrid /\ lost = {}
          /\ phase' = "merged" /\ list' = Merged
       \/ /\ hybrid /\ Dense \notin lost
          /\ phase' = "merged"
          /\ list' = IF answers[Sparse].items = <<>> THEN Sorted(Range(answers[Dense].items)) ELSE Fused
    /\ UNCHANGED <<hybrid, answers, arrived, before, context>>
-----------------------------------------------------------------------------
(* Choice: applySelectionStrategy *)

Gap(items) == items[1].score - items[2].score
ShouldBypassRerank(items) ==
    Len(items) > 1 => items[1].score >= 920000 /\ Gap(items) >= 120000

Forgotten == [q \in Searches |-> Reply("found", <<>>)]

\* A reranker gives every candidate another score; one that fails gives way to the
\* keyword reranker.
Rerank ==
    /\ phase = "merged"
    /\ \/ ShouldBypassRerank(list) /\ list' = list
       \/ /\ ~ShouldBypassRerank(list)
          /\ \E score \in [ChunksOf(list) -> Levels] :
               list' = Sorted({Item(list[i].chunk, score[list[i].chunk], list[i].raw) : i \in DOMAIN list})
    /\ phase' = "ranked"
    /\ before' = <<>> /\ arrived' = <<>> /\ answers' = Forgotten
    /\ UNCHANGED <<hybrid, context>>

ShouldBypassMMR(items) ==
    Len(items) > Min({FinalTopK, 3}) => items[1].score >= 900000 /\ Gap(items) >= 150000

TakenFrom(items, c) == Cardinality({i \in DOMAIN items : Source[items[i].chunk] = Source[c]})

\* Another chunk of the document of c may be chosen.
MayTake(chosen, c) == PerDocument > 0 => TakenFrom(chosen, c) < PerDocument

TakeTopChunks(items) ==
    FoldLeft(LAMBDA chosen, item :
                IF Len(chosen) < FinalTopK /\ MayTake(chosen, item.chunk) THEN Append(chosen, item)
                ELSE chosen,
             <<>>, items)

\* The score of a candidate less what the chosen chunks already say.
MMRScore(item, chosen) ==
    75 * item.score
      - (IF \E i \in DOMAIN chosen : Topic[chosen[i].chunk] = Topic[item.chunk] THEN 25 * 1000000 ELSE 0)

\* One round of selectWithMMR: the first of the best candidates that may be taken.
Pick(chosen, items) ==
    LET open == {i \in DOMAIN items : items[i] \notin Range(chosen) /\ MayTake(chosen, items[i].chunk)}
        best == {i \in open : \A j \in open : MMRScore(items[i], chosen) >= MMRScore(items[j], chosen)}
    IN IF open = {} THEN chosen ELSE Append(chosen, items[Min(best)])

SelectWithMMR(items) ==
    Sorted(Range(FoldLeft(LAMBDA chosen, round : Pick(chosen, items), <<>>, [n \in 1..FinalTopK |-> n])))

SelectChunks ==
    /\ phase = "ranked"
    /\ phase' = "selected"
    /\ before' = list
    /\ list' = IF ShouldBypassMMR(list) THEN TakeTopChunks(list) ELSE SelectWithMMR(list)
    /\ UNCHANGED <<hybrid, answers, arrived, context>>
-----------------------------------------------------------------------------
(* Evidence and context *)

SemanticThreshold(kind) == IF kind = "open" THEN 450000 ELSE 780000
Margin == 80000

ItemsOf(items, chunks) ==
    FoldLeft(LAMBDA kept, item : IF item.chunk \in chunks THEN Append(kept, item) ELSE kept, <<>>, items)

\* applyEvidenceGate, for a question about a fact, an open one, one with no terms, or
\* another, when `direct` are the chunks that hold direct evidence.
Gated(items, kind, direct) ==
    LET top == Max({items[i].raw : i \in DOMAIN items})
        Supports(item) ==
            /\ kind # "fact" /\ direct = {}
            /\ item.raw >= top - Margin /\ item.raw >= SemanticThreshold(kind)
    IN IF kind = "bare" THEN items
       ELSE ItemsOf(items, direct \cup {item.chunk : item \in {it \in Range(items) : Supports(it)}})

Gate(kind, direct) ==
    /\ phase = "selected" /\ direct \subseteq ChunksOf(list)
    /\ phase' = "gated"
    /\ before' = list
    /\ list' = IF list = <<>> THEN list ELSE Gated(list, kind, direct)
    /\ UNCHANGED <<hybrid, answers, arrived, context>>

\* relevantChunkExcerpt: a limit of zero is none.
Excerpt(length, limit) == IF limit <= 0 \/ length <= limit THEN length ELSE limit

\* What one of the chunks that are to come may use.
ShareOf(left, more) == left \div more

\* Four when the question asks for a list.
ChunkLimits == {3, 4}

\* trimRetrievedChunksToContextLimit, on the lengths of the texts.
Trimmed(lengths, budget, limit) ==
    LET kept == Cut(lengths, limit)
        Take(cut, length) ==
            LET left == budget - SumFunction(cut)
                more == Len(kept) - Len(cut)
            IN IF left <= 0 \/ more <= 0 THEN cut ELSE Append(cut, Excerpt(length, ShareOf(left, more)))
    IN FoldLeft(Take, <<>>, kept)

\* trimStructuredTableChunksToContextLimit: whole rows, and the first one always.
TrimmedTable(lengths, budget) ==
    LET fits == {n \in DOMAIN lengths : \A m \in 2..n : SumFunctionOnSet(lengths, 1..m) <= budget}
    IN IF lengths = <<>> THEN lengths ELSE Cut(lengths, Max(fits))

Trim(lengths, budget, table) ==
    /\ phase = "gated" /\ Len(lengths) = Len(list)
    /\ phase' = IF table THEN "tableCut" ELSE "cut"
    /\ \E limit \in ChunkLimits :
         context' = [budget |-> budget, full |-> lengths,
                     cut |-> IF table THEN TrimmedTable(lengths, budget)
                             ELSE Trimmed(lengths, budget, limit)]
    /\ before' = <<>> /\ list' = <<>>
    /\ UNCHANGED <<hybrid, answers, arrived>>

Lengths == UNION {[1..n -> TextLengths] : n \in 0..FinalTopK}

RankingNext ==
    \/ \E q \in Searches : SearchFailed(q) \/ \E found \in Findings : Answered(q, found)
    \/ Collect \/ Rerank \/ SelectChunks
    \/ \E kind \in {"fact", "open", "bare", "other"}, direct \in SUBSET Chunks : Gate(kind, direct)
    \/ \E lengths \in Lengths, budget \in Budgets, table \in BOOLEAN : Trim(lengths, budget, table)

RankingSpec == RankingInit /\ [][RankingNext]_rankingVars
-----------------------------------------------------------------------------
(* Properties *)

Lists == Seq([chunk : Chunks, score : Int, raw : Int])

\* Types of the variables; a list names no chunk twice, and is in order.
RankingTypeOK ==
    /\ phase \in {"search", "failed", "merged", "ranked", "selected", "gated", "cut", "tableCut"}
    /\ hybrid \in BOOLEAN
    /\ DOMAIN answers = Searches
    /\ arrived \in Seq(Searches) /\ IsInjective(arrived)
    /\ \A items \in {before, list} :
         items \in Lists /\ Falling(items) /\ Cardinality(ChunksOf(items)) = Len(items)

\* What several queries found does not depend on the order in which they answered:
\* the chunks with the highest score any query gave them.
MergedAlike ==
    phase = "merged" /\ ~hybrid =>
        LET found == UNION {Range(answers[q].items) : q \in Searches}
            best == {a \in found : \A b \in found : b.chunk = a.chunk => b.score <= a.score}
        IN list = Cut(Sorted(best), CandidateTopK)

\* A chunk that both channels rank before another is ranked before it, and never
\* dropped for it.
Outranks(c, d) ==
    \A q \in Searches :
        d \in ChunksOf(answers[q].items) => c \in ChunksOf(answers[q].items) /\ RankIn(q, c) < RankIn(q, d)
FusedInOrder ==
    phase = "merged" /\ hybrid /\ answers[Sparse].items # <<>> =>
        \A i \in DOMAIN list : \A c \in Chunks \ {list[i].chunk} :
            /\ \E q \in Searches : c \in ChunksOf(answers[q].items)
            /\ Outranks(c, list[i].chunk)
            => \E j \in 1..i - 1 : list[j].chunk = c

\* The choice keeps the best candidate, fills its places as far as the documents
\* allow, and takes no more of any.
ChosenWell ==
    phase = "selected" /\ before # <<>> =>
        /\ list[1] = before[1]
        /\ Range(list) \subseteq Range(before) /\ Len(list) <= FinalTopK
        /\ \A c \in Chunks : TakenFrom(list, c) <= PerDocument
        /\ Len(list) < FinalTopK =>
             \A i \in DOMAIN before : before[i] \in Range(list)
                                        \/ TakenFrom(list, before[i].chunk) = PerDocument

\* The context keeps to its length, and no text of it is empty.
ContextFits ==
    /\ phase = "cut" => SumFunction(context.cut) <= context.budget
    /\ phase = "tableCut" /\ Len(context.cut) > 1 => SumFunction(context.cut) <= context.budget
    /\ phase \in {"cut", "tableCut"} => \A i \in DOMAIN context.cut : context.cut[i] > 0

RankingSound == MergedAlike /\ FusedInOrder /\ ChosenWell /\ ContextFits
=============================================================================
