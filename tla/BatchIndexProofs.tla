-------------------------- MODULE BatchIndexProofs --------------------------
(***************************************************************************)
(* The properties of a batch, for every batch, number of attempts, pool    *)
(* workers and faults, without a condition on any of them.                 *)
(*                                                                         *)
(* BatchInv is the inductive invariant: the types, which attempt holds     *)
(* the lease, that no content is stored twice, and what a stored           *)
(* document, a checkpoint and a result in memory found each other on       *)
(* (Founded).                                                              *)
(*                                                                         *)
(* A step of an attempt is described once (TaskEffect, StepEffect): what   *)
(* it may make of the documents, the checkpoints and the sources. Retry    *)
(* and resume filter the batch by Only; lemmas about it are by induction   *)
(* over its length.                                                        *)
(***************************************************************************)
EXTENDS BatchIndex, FiniteInduction, TLAPS
-----------------------------------------------------------------------------
(* Filtering a sequence *)

\* The function that Only computes with exists ...
FirstOf(s, keep, n, g) ==
    /\ g \in [0..n -> Seq(Elems(s) \cap keep)]
    /\ \A i \in 0..n :
           g[i] = IF i = 0 THEN <<>>
                  ELSE IF s[i] \in keep THEN Append(g[i - 1], s[i]) ELSE g[i - 1]

LEMMA OnlyExists ==
    ASSUME NEW S, NEW s \in Seq(S), NEW keep
    PROVE  \E g : FirstOf(s, keep, Len(s), g)
<1> DEFINE P == {n \in 0..Len(s) : \E g : FirstOf(s, keep, n, g)}
<1>1. 0 \in P
  <2> DEFINE g == [i \in 0..0 |-> <<>>]
  <2>1. FirstOf(s, keep, 0, g)
    BY DEF FirstOf
  <2> QED
    BY <2>1
<1>2. ASSUME NEW n \in 1..Len(s), n - 1 \in P PROVE n \in P
  <2>1. PICK g : FirstOf(s, keep, n - 1, g)
    BY <1>2
  <2> DEFINE last == IF s[n] \in keep THEN Append(g[n - 1], s[n]) ELSE g[n - 1]
             h == [i \in 0..n |-> IF i = n THEN last ELSE g[i]]
  <2>2. g[n - 1] \in Seq(Elems(s) \cap keep)
    BY <2>1 DEF FirstOf
  <2>3. s[n] \in Elems(s)
    BY DEF Elems
  <2>4. last \in Seq(Elems(s) \cap keep)
    BY <2>2, <2>3
  <2>5. h \in [0..n -> Seq(Elems(s) \cap keep)]
    <3> HIDE DEF last
    <3> QED
      BY <2>1, <2>4 DEF FirstOf
  <2>6. ASSUME NEW i \in 0..n
        PROVE  h[i] = IF i = 0 THEN <<>>
                      ELSE IF s[i] \in keep THEN Append(h[i - 1], s[i]) ELSE h[i - 1]
    <3>1. CASE i = n
      <4>1. h[n] = last /\ h[n - 1] = g[n - 1] /\ n # 0
        BY n - 1 # n
      <4> QED
        BY <3>1, <4>1
    <3>2. CASE i # n
      <4>1. i \in 0..(n - 1) /\ h[i] = g[i]
        BY <3>2
      <4>2. i # 0 => h[i - 1] = g[i - 1]
        BY <3>2
      <4> QED
        BY <2>1, <4>1, <4>2 DEF FirstOf
    <3> QED
      BY <3>1, <3>2
  <2>7. FirstOf(s, keep, n, h)
    <3> HIDE DEF h
    <3> QED
      BY <2>5, <2>6 DEF FirstOf
  <2> QED
    BY <2>7
<1>3. Len(s) \in Nat
  OBVIOUS
<1>4. P = 0..Len(s)
  <2>1. P \in SUBSET (0..Len(s))
    OBVIOUS
  <2> HIDE DEF P
  <2> QED
    BY <1>1, <1>2, <1>3, <2>1, NumberInduction
<1>5. Len(s) \in P
  BY <1>3, <1>4
<1> QED
  BY <1>5

LEMMA OnlyValue ==
    ASSUME NEW S, NEW s \in Seq(S), NEW keep
    PROVE  Only(s, keep) \in Seq(Elems(s) \cap keep)
<1> DEFINE f == CHOOSE f : f = [i \in 0..Len(s) |->
                    IF i = 0 THEN <<>>
                    ELSE IF s[i] \in keep THEN Append(f[i - 1], s[i]) ELSE f[i - 1]]
<1>1. PICK g : FirstOf(s, keep, Len(s), g)
  BY OnlyExists
<1>2. g = [i \in 0..Len(s) |->
              IF i = 0 THEN <<>>
              ELSE IF s[i] \in keep THEN Append(g[i - 1], s[i]) ELSE g[i - 1]]
  BY <1>1 DEF FirstOf
<1>3. f = [i \in 0..Len(s) |->
              IF i = 0 THEN <<>>
              ELSE IF s[i] \in keep THEN Append(f[i - 1], s[i]) ELSE f[i - 1]]
  BY <1>2
<1> HIDE DEF f
<1>a. \A i \in 0..Len(s) :
          f[i] = IF i = 0 THEN <<>>
                 ELSE IF s[i] \in keep THEN Append(f[i - 1], s[i]) ELSE f[i - 1]
  BY <1>3, Zenon
<1> DEFINE P == {i \in 0..Len(s) : f[i] \in Seq(Elems(s) \cap keep)}
<1>4. Len(s) \in Nat
  OBVIOUS
<1>5. 0 \in P
  <2>1. 0 \in 0..Len(s)
    BY <1>4
  <2>2. f[0] = <<>>
    BY <1>a, <2>1, Zenon
  <2>3. <<>> \in Seq(Elems(s) \cap keep)
    OBVIOUS
  <2> QED
    BY <2>1, <2>2, <2>3
<1>6. ASSUME NEW i \in 1..Len(s), i - 1 \in P PROVE i \in P
  <2>1. f[i] = IF s[i] \in keep THEN Append(f[i - 1], s[i]) ELSE f[i - 1]
    BY <1>a, <1>4
  <2>2. f[i - 1] \in Seq(Elems(s) \cap keep)
    BY <1>6
  <2>3. s[i] \in Elems(s)
    BY DEF Elems
  <2>4. f[i] \in Seq(Elems(s) \cap keep)
    BY <2>1, <2>2, <2>3
  <2> QED
    BY <2>4
<1>7. P = 0..Len(s)
  <2>1. P \in SUBSET (0..Len(s))
    OBVIOUS
  <2> HIDE DEF P
  <2> QED
    BY <1>4, <1>5, <1>6, <2>1, NumberInduction
<1>8. f[Len(s)] \in Seq(Elems(s) \cap keep)
  BY <1>4, <1>7
<1>9. Only(s, keep) = f[Len(s)]
  BY DEF Only, f
<1> QED
  BY <1>8, <1>9
-----------------------------------------------------------------------------
(* Types *)

TaskAts == {"none", "ok", "failed"} \cup Busy
TaskSet == [at: TaskAts, code: Codes]
RunSet  == [at: {"off", "load", "work", "over"}, ctx: BOOLEAN, idle: Nat,
            todo: Seq(Uploads), task: [Uploads -> TaskSet]]
JobSet  == [status: {"absent"} \cup Active \cup Terminal,
            lease: {"free", "held", "expired"}, attempt: 0..Attempts,
            retryable: BOOLEAN, retries: Nat]
ItemSet == [status: {"missing", "pending", "running"} \cup Terminal,
            code: Codes, retryable: BOOLEAN]
StagedSet == [status: {"staged", "processing", "gone"}, owner: 0..Attempts,
              live: BOOLEAN]
DocSet  == [upload: Uploads, by: Runs, status: {"processing", "indexed", "failed"}]

Types ==
    /\ proc \in {"up", "stopping", "down"} /\ job \in JobSet
    /\ batch \in Seq(Uploads) /\ input \subseteq Uploads /\ sized \subseteq Uploads
    /\ item \in [Uploads -> ItemSet] /\ staged \in [Uploads -> StagedSet]
    /\ docs \subseteq DocSet /\ run \in [Runs -> RunSet]
    /\ creating \in {"no", "items", "claim"} /\ cancelling \in BOOLEAN
    /\ lost \subseteq Contents /\ faults \in Nat

LEMMA TypesAreTypeOK == (TypeOK <=> Types) /\ (TypeOK' <=> Types')
BY Zenon DEF TypeOK, Types, TaskAts, TaskSet, RunSet, JobSet, ItemSet, StagedSet, DocSet

LEMMA ItemTypes ==
    /\ Missing \in ItemSet /\ Pending \in ItemSet
    /\ \A status \in {"missing", "pending", "running"} \cup Terminal, code \in Codes,
          retryable \in BOOLEAN : Item(status, code, retryable) \in ItemSet
BY DEF ItemSet, Missing, Pending, Item, Terminal, Codes

LEMMA StagedTypes == BatchConstants => Staged \in StagedSet /\ Gone \in StagedSet
<1> SUFFICES ASSUME BatchConstants PROVE Staged \in StagedSet /\ Gone \in StagedSet
  OBVIOUS
<1>1. 0 \in 0..Attempts
  BY DEF BatchConstants
<1>2. Staged \in StagedSet
  BY <1>1 DEF StagedSet, Staged
<1>3. Gone \in StagedSet
  BY <1>1 DEF StagedSet, Staged, Gone
<1> QED
  BY <1>2, <1>3

LEMMA RunTypes == NoRun \in RunSet /\ NewRun \in RunSet /\ NoTask \in TaskSet
<1>1. NoTask \in TaskSet
  BY DEF NoTask, TaskSet, TaskAts, Codes
<1>2. [u \in Uploads |-> NoTask] \in [Uploads -> TaskSet]
  BY <1>1
<1>3. NoRun \in RunSet
  BY <1>2 DEF NoRun, RunSet
<1>4. NewRun \in RunSet
  BY <1>3 DEF NewRun, RunSet
<1> QED
  BY <1>1, <1>3, <1>4

LEMMA ElemsType ==
    ASSUME NEW S, NEW s \in Seq(S) PROVE Elems(s) \subseteq S
BY DEF Elems

LEMMA OnlyType ==
    ASSUME NEW S, NEW s \in Seq(S), NEW keep
    PROVE  /\ Only(s, keep) \in Seq(S)
           /\ Elems(Only(s, keep)) \subseteq Elems(s) \cap keep
<1>1. Only(s, keep) \in Seq(Elems(s) \cap keep)
  BY OnlyValue
<1>2. Elems(s) \cap keep \subseteq S
  BY ElemsType
<1>3. \A x \in Seq(Elems(s) \cap keep) : x \in Seq(S)
  BY <1>2
<1>4. Elems(Only(s, keep)) \subseteq Elems(s) \cap keep
  BY <1>1, ElemsType
<1> QED
  BY <1>1, <1>3, <1>4

LEMMA TypesInit == BatchConstants /\ Init => Types
<1> SUFFICES ASSUME BatchConstants, Init PROVE Types
  OBVIOUS
<1>1. job \in JobSet
  BY DEF Init, JobSet, BatchConstants
<1>2. item \in [Uploads -> ItemSet]
  BY ItemTypes DEF Init
<1>3. staged \in [Uploads -> StagedSet]
  BY StagedTypes DEF Init
<1>4. run \in [Runs -> RunSet]
  BY RunTypes DEF Init
<1>5. /\ proc = "up" /\ batch = <<>> /\ input = {} /\ sized = {} /\ docs = {}
      /\ creating = "no" /\ cancelling = FALSE /\ lost = {} /\ faults = 0
  BY DEF Init
<1>6. /\ proc \in {"up", "stopping", "down"} /\ creating \in {"no", "items", "claim"}
      /\ cancelling \in BOOLEAN /\ faults \in Nat
  BY <1>5
<1>7. batch \in Seq(Uploads)
  BY <1>5
<1>8. input \subseteq Uploads /\ sized \subseteq Uploads /\ docs \subseteq DocSet /\ lost \subseteq Contents
  BY <1>5
<1> QED
  BY <1>1, <1>2, <1>3, <1>4, <1>6, <1>7, <1>8 DEF Types
-----------------------------------------------------------------------------
(* What the helpers do *)

\* One task of one run moves on, the others stay where they are.
Moved(a, u, at) ==
    /\ run' \in [Runs -> RunSet]
    /\ \A b \in Runs, v \in Uploads :
           run'[b].task[v].at = IF b = a /\ v = u THEN at ELSE run[b].task[v].at

LEMMA GotoMoves ==
    ASSUME run \in [Runs -> RunSet], NEW a \in Runs, NEW u \in Uploads, NEW at \in TaskAts,
           Goto(a, u, at)
    PROVE  Moved(a, u, at)
<1> DEFINE task == [run[a].task EXCEPT ![u] = [@ EXCEPT !.at = at]]
           new == [run[a] EXCEPT !.task = task]
<1>1. run' = [run EXCEPT ![a] = new]
  BY DEF Goto
<1>2. run[a] \in RunSet /\ run[a].task \in [Uploads -> TaskSet] /\ run[a].task[u] \in TaskSet
  BY DEF RunSet
<1>3. /\ task \in [Uploads -> TaskSet]
      /\ task[u].at = at /\ \A v \in Uploads : v # u => task[v] = run[a].task[v]
  BY <1>2 DEF TaskSet
<1> HIDE DEF task
<1>4. new \in RunSet /\ new.task = task
  BY <1>2, <1>3 DEF RunSet
<1> HIDE DEF new
<1> QED
  BY <1>1, <1>2, <1>3, <1>4 DEF Moved

LEMMA FailMoves ==
    ASSUME run \in [Runs -> RunSet], NEW a \in Runs, NEW u \in Uploads, NEW code \in Codes,
           Fail(a, u, code)
    PROVE  Moved(a, u, "error")
<1> DEFINE task == [run[a].task EXCEPT ![u] = [at |-> "error", code |-> code]]
           new == [run[a] EXCEPT !.task = task]
<1>1. run' = [run EXCEPT ![a] = new]
  BY DEF Fail
<1>2. run[a] \in RunSet /\ run[a].task \in [Uploads -> TaskSet]
  BY DEF RunSet
<1>3. /\ task \in [Uploads -> TaskSet]
      /\ task[u].at = "error" /\ \A v \in Uploads : v # u => task[v] = run[a].task[v]
  BY <1>2 DEF TaskSet, TaskAts, Busy
<1> HIDE DEF task
<1>4. new \in RunSet /\ new.task = task
  BY <1>2, <1>3 DEF RunSet
<1> HIDE DEF new
<1> QED
  BY <1>1, <1>2, <1>3, <1>4 DEF Moved

\* The same, and a pool worker is free again.
LEMMA MovesOn ==
    ASSUME run \in [Runs -> RunSet], NEW a \in Runs, NEW u \in Uploads, NEW at \in TaskAts,
           run' = [run EXCEPT ![a].task[u].at = at, ![a].idle = @ + 1]
    PROVE  Moved(a, u, at)
<1> DEFINE task == [run[a].task EXCEPT ![u] = [@ EXCEPT !.at = at]]
           new == [run[a] EXCEPT !.task = task, !.idle = @ + 1]
<1>1. run' = [run EXCEPT ![a] = new]
  OBVIOUS
<1>2. run[a] \in RunSet /\ run[a].task \in [Uploads -> TaskSet] /\ run[a].task[u] \in TaskSet
  BY DEF RunSet
<1>3. /\ task \in [Uploads -> TaskSet]
      /\ task[u].at = at /\ \A v \in Uploads : v # u => task[v] = run[a].task[v]
  BY <1>2 DEF TaskSet
<1> HIDE DEF task
<1>4. new \in RunSet /\ new.task = task
  <2>1. run[a].idle + 1 \in Nat
    BY <1>2 DEF RunSet
  <2>2. new = [[run[a] EXCEPT !.idle = run[a].idle + 1] EXCEPT !.task = task]
    BY <1>2 DEF RunSet
  <2>3. [run[a] EXCEPT !.idle = run[a].idle + 1] \in RunSet
    BY <1>2, <2>1 DEF RunSet
  <2> QED
    BY <1>3, <2>2, <2>3 DEF RunSet
<1> HIDE DEF new
<1> QED
  BY <1>1, <1>2, <1>3, <1>4 DEF Moved

\* No upload ends, or only one.
NoneGone ==
    /\ staged' \in [Uploads -> StagedSet]
    /\ \A v \in Uploads : staged'[v].status = "gone" => staged[v].status = "gone"
OnlyGone(u) ==
    /\ staged' \in [Uploads -> StagedSet]
    /\ \A v \in Uploads : staged'[v].status = "gone" => staged[v].status = "gone" \/ v = u

LEMMA ReleaseStaged ==
    ASSUME BatchConstants, staged \in [Uploads -> StagedSet],
           NEW a \in Runs, NEW u \in Uploads, Release(a, u)
    PROVE  NoneGone
<1>1. Staged \in StagedSet /\ Staged.status # "gone"
  BY StagedTypes DEF Staged
<1>2. staged' = staged \/ staged' = [staged EXCEPT ![u] = Staged]
  BY DEF Release
<1> QED
  BY <1>1, <1>2 DEF NoneGone

LEMMA ConsumeStaged ==
    ASSUME BatchConstants, staged \in [Uploads -> StagedSet],
           NEW a \in Runs, NEW u \in Uploads, Consume(a, u)
    PROVE  OnlyGone(u)
<1>1. Gone \in StagedSet
  BY StagedTypes
<1>2. staged' = staged \/ staged' = [staged EXCEPT ![u] = Gone]
  BY DEF Consume
<1> QED
  BY <1>1, <1>2 DEF OnlyGone

LEMMA PersistItem ==
    ASSUME item \in [Uploads -> ItemSet], NEW a \in Runs, NEW u \in Uploads,
           NEW new \in ItemSet, Persist(a, u, new)
    PROVE  /\ item' \in [Uploads -> ItemSet]
           /\ \A v \in Uploads : item'[v] = item[v] \/ (v = u /\ item'[v] = new)
           /\ item' # item => Holds(a)
BY DEF Persist

LEMMA IndexedIsStored == \A c : Indexed(c) <=> Stored(c)
BY DEF Indexed, Stored, IsIndexed, DocsWith

\* Where a file stands once its content is indexed.
Sure == {"consume", "checkpoint", "ok"}
Done(a, u) == run[a].task[u].at \in Sure \/ Stored(Checksum[u])'

\* A step on one file: it reports a success, or ends the upload, only of a content
\* that is stored, and a checkpoint changes only for the attempt that has the job.
TaskEffect(a, u) ==
    /\ \E at \in TaskAts : Moved(a, u, at) /\ (at \in Sure => Done(a, u))
    /\ NoneGone \/ (OnlyGone(u) /\ Done(a, u))
    /\ item' \in [Uploads -> ItemSet]
    /\ \A v \in Uploads :
          item'[v] = item[v] \/ (v = u /\ (item'[v].status = "succeeded" => Done(a, u)))
    /\ item' # item => Holds(a)
    /\ docs' \subseteq DocSet
    /\ UNCHANGED <<proc, job, meta, creating, cancelling, lost>> /\ faults' \in Nat

\* The parts of the effect of a step that only changes the task.
LEMMA RestStays ==
    ASSUME Types
    PROVE  /\ UNCHANGED staged => NoneGone
           /\ UNCHANGED item => /\ item' \in [Uploads -> ItemSet]
                                /\ \A v \in Uploads : item'[v] = item[v]
           /\ UNCHANGED docs => docs' \subseteq DocSet
BY DEF Types, NoneGone

LEMMA AtsAre ==
    /\ {"ok", "failed", "claim", "check", "reserve", "begin", "index", "commit", "consume",
        "checkpoint", "error"} \subseteq TaskAts
    /\ {"", "duplicate_document", "source_unreadable", "index_failed", "deadline", "cancelled"} \subseteq Codes
BY DEF TaskAts, Busy, Codes

LEMMA EffectMark ==
    ASSUME Types, NEW a \in Runs, NEW u \in Uploads, Mark(a, u)
    PROVE  TaskEffect(a, u)
<1>1. run \in [Runs -> RunSet] /\ item \in [Uploads -> ItemSet]
  BY DEF Types
<1>2. Moved(a, u, "failed") \/ Moved(a, u, "claim")
  BY <1>1, AtsAre, MovesOn, GotoMoves DEF Mark
<1>3. \E new \in ItemSet : new.status # "succeeded" /\ (Persist(a, u, new) \/ UNCHANGED item)
  <2>1. /\ Item("cancelled", "cancelled", FALSE) \in ItemSet /\ Item("running", "", TRUE) \in ItemSet
        /\ Item("cancelled", "cancelled", FALSE).status # "succeeded"
        /\ Item("running", "", TRUE).status # "succeeded"
    BY ItemTypes, AtsAre DEF Item, Terminal
  <2> QED
    BY <2>1 DEF Mark, PersistCancelled
<1>4. /\ item' \in [Uploads -> ItemSet]
      /\ \A v \in Uploads : item'[v] = item[v] \/ (v = u /\ item'[v].status # "succeeded")
      /\ item' # item => Holds(a)
  BY <1>1, <1>3, PersistItem
<1>5. UNCHANGED <<proc, job, meta, staged, docs, creating, cancelling, lost, faults>>
  BY DEF Mark
<1>6. NoneGone /\ docs' \subseteq DocSet /\ faults' \in Nat
  BY <1>5, RestStays DEF Types
<1> QED
  BY <1>2, <1>4, <1>5, <1>6, AtsAre DEF TaskEffect, Sure

\* A step that leaves the checkpoints, and perhaps the documents, as they are.
LEMMA EffectPlain ==
    ASSUME Types, NEW a \in Runs, NEW u \in Uploads,
           UNCHANGED <<proc, job, meta, item, creating, cancelling, lost>>,
           docs' \subseteq DocSet, faults' \in Nat,
           \/ NoneGone /\ (Moved(a, u, "error") \/ Moved(a, u, "check")
                           \/ Moved(a, u, "reserve") \/ Moved(a, u, "begin")
                           \/ Moved(a, u, "index") \/ Moved(a, u, "commit"))
           \/ Done(a, u) /\ (NoneGone \/ OnlyGone(u))
                 /\ (Moved(a, u, "checkpoint") \/ Moved(a, u, "consume") \/ Moved(a, u, "error"))
    PROVE  TaskEffect(a, u)
<1>1. \E at \in TaskAts : Moved(a, u, at) /\ (at \in Sure => Done(a, u))
  BY AtsAre DEF Sure
<1>2. NoneGone \/ (OnlyGone(u) /\ Done(a, u))
  OBVIOUS
<1>3. /\ item' \in [Uploads -> ItemSet]
      /\ \A v \in Uploads : item'[v] = item[v]
  BY RestStays
<1> QED
  BY <1>1, <1>2, <1>3 DEF TaskEffect

LEMMA DoneIfIndexed ==
    ASSUME NEW a \in Runs, NEW u \in Uploads, Indexed(Checksum[u]), UNCHANGED docs
    PROVE  Done(a, u)
BY IndexedIsStored DEF Done, Stored

LEMMA EffectClaim ==
    ASSUME Types, NEW a \in Runs, NEW u \in Uploads, Claim(a, u)
    PROVE  TaskEffect(a, u)
<1>1. UNCHANGED <<proc, job, meta, item, docs, creating, cancelling, lost, faults>>
  BY DEF Claim
<1>2. docs' \subseteq DocSet /\ faults' \in Nat
  BY <1>1 DEF Types
<1>3. CASE /\ staged' = [staged EXCEPT ![u] = [status |-> "processing", owner |-> a, live |-> TRUE]]
           /\ Goto(a, u, "check")
  <2>1. [status |-> "processing", owner |-> a, live |-> TRUE] \in StagedSet
    BY DEF StagedSet, Runs
  <2>2. NoneGone
    BY <1>3, <2>1 DEF Types, NoneGone
  <2>3. Moved(a, u, "check")
    BY <1>3, GotoMoves, AtsAre DEF Types
  <2> QED
    BY <1>1, <1>2, <2>2, <2>3, EffectPlain
<1>4. CASE Fail(a, u, "index_failed") /\ UNCHANGED staged
  <2>1. NoneGone
    BY <1>4, RestStays
  <2>2. Moved(a, u, "error")
    BY <1>4, FailMoves, AtsAre DEF Types
  <2> QED
    BY <1>1, <1>2, <2>1, <2>2, EffectPlain
<1> QED
  BY <1>3, <1>4 DEF Claim

\* Giving an upload up.
LEMMA EffectGivesUp ==
    ASSUME BatchConstants, Types, NEW a \in Runs, NEW u \in Uploads, NEW code \in Codes,
           Release(a, u) \/ UNCHANGED staged, Fail(a, u, code),
           UNCHANGED <<proc, job, meta, item, creating, cancelling, lost>>,
           docs' \subseteq DocSet, faults' \in Nat
    PROVE  TaskEffect(a, u)
<1>1. Moved(a, u, "error")
  BY FailMoves DEF Types
<1>2. NoneGone
  BY ReleaseStaged, RestStays DEF Types
<1> QED
  BY <1>1, <1>2, EffectPlain

\* An upload that is no longer needed.
LEMMA EffectConsumes ==
    ASSUME BatchConstants, Types, NEW a \in Runs, NEW u \in Uploads,
           Consume(a, u), Goto(a, u, "checkpoint"), Done(a, u),
           UNCHANGED <<proc, job, meta, item, docs, creating, cancelling, lost, faults>>
    PROVE  TaskEffect(a, u)
<1>1. Moved(a, u, "checkpoint")
  BY GotoMoves, AtsAre DEF Types
<1>2. OnlyGone(u)
  BY ConsumeStaged DEF Types
<1>3. docs' \subseteq DocSet /\ faults' \in Nat
  BY DEF Types
<1> QED
  BY <1>1, <1>2, <1>3, EffectPlain

LEMMA EffectDuplicate ==
    ASSUME BatchConstants, Types, NEW a \in Runs, NEW u \in Uploads, Duplicate(a, u),
           UNCHANGED <<proc, job, meta, item, docs, creating, cancelling, lost, faults>>
    PROVE  TaskEffect(a, u)
<1>1. CASE Indexed(Checksum[u])
  BY <1>1, DoneIfIndexed, EffectConsumes DEF Duplicate
<1>2. CASE ~Indexed(Checksum[u])
  <2>1. docs' \subseteq DocSet /\ faults' \in Nat
    BY DEF Types
  <2> QED
    BY <1>2, <2>1, AtsAre, EffectGivesUp DEF Duplicate
<1> QED
  BY <1>1, <1>2

LEMMA EffectCheck ==
    ASSUME BatchConstants, Types, NEW a \in Runs, NEW u \in Uploads, Check(a, u)
    PROVE  TaskEffect(a, u)
<1>1. UNCHANGED <<proc, job, meta, item, docs, creating, cancelling, lost, faults>>
  BY DEF Check
<1>2. docs' \subseteq DocSet /\ faults' \in Nat
  BY <1>1 DEF Types
<1>3. CASE (Release(a, u) \/ UNCHANGED staged) /\ Fail(a, u, "index_failed")
  BY <1>1, <1>2, <1>3, AtsAre, EffectGivesUp
<1>4. CASE Indexed(Checksum[u]) /\ Consume(a, u) /\ Goto(a, u, "checkpoint")
  BY <1>1, <1>4, DoneIfIndexed, EffectConsumes
<1>5. CASE Goto(a, u, "reserve") /\ UNCHANGED staged
  <2>1. NoneGone
    BY <1>5, RestStays
  <2>2. Moved(a, u, "reserve")
    BY <1>5, GotoMoves, AtsAre DEF Types
  <2> QED
    BY <1>1, <1>2, <2>1, <2>2, EffectPlain
<1> QED
  BY <1>3, <1>4, <1>5 DEF Check

LEMMA EffectReserve ==
    ASSUME BatchConstants, Types, NEW a \in Runs, NEW u \in Uploads, Reserve(a, u)
    PROVE  TaskEffect(a, u)
<1>1. UNCHANGED <<proc, job, meta, item, docs, creating, cancelling, lost, faults>>
  BY DEF Reserve
<1>2. docs' \subseteq DocSet /\ faults' \in Nat
  BY <1>1 DEF Types
<1>3. CASE Release(a, u) /\ Fail(a, u, "index_failed")
  BY <1>1, <1>2, <1>3, AtsAre, EffectGivesUp
<1>4. CASE Duplicate(a, u)
  BY <1>1, <1>4, EffectDuplicate
<1>5. CASE Goto(a, u, "begin") /\ UNCHANGED staged
  <2>1. NoneGone
    BY <1>5, RestStays
  <2>2. Moved(a, u, "begin")
    BY <1>5, GotoMoves, AtsAre DEF Types
  <2> QED
    BY <1>1, <1>2, <2>1, <2>2, EffectPlain
<1> QED
  BY <1>3, <1>4, <1>5 DEF Reserve

\* The documents of an operation keep their types, and its own become what it says.
LEMMA MarkedDocs ==
    ASSUME docs \subseteq DocSet, NEW a, NEW u,
           NEW status \in {"indexed", "failed"}, Marked(a, u, status)
    PROVE  /\ docs' \subseteq DocSet
           /\ \A e \in docs' : e \in docs
                  \/ \E d \in docs \ docs' : e = [d EXCEPT !.status = status] /\ e.upload = d.upload
           /\ status = "indexed" /\ Own(a, u) # {} => Stored(Checksum[u])'
           /\ \A d \in docs : d.status # "processing" => d \in docs'
<1>1. \A d \in Own(a, u) : /\ d \in docs /\ [d EXCEPT !.status = status] \in DocSet
                          /\ [d EXCEPT !.status = status].upload = u
                          /\ [d EXCEPT !.status = status].status = status
                          /\ d.upload = u /\ d.status = "processing"
  BY DEF Own, DocSet
<1>2. docs' = (docs \ Own(a, u)) \cup {[d EXCEPT !.status = status] : d \in Own(a, u)}
  BY DEF Marked
<1>3. \A d \in Own(a, u) : d \in docs \ docs'
  <2> SUFFICES ASSUME NEW d \in Own(a, u), d \in docs' PROVE FALSE
    BY <1>1
  <2>1. PICK e \in Own(a, u) : d = [e EXCEPT !.status = status]
    BY <1>2
  <2> QED
    BY <1>1, <2>1
<1>4. docs' \subseteq DocSet
  BY <1>1, <1>2
<1>5. ASSUME NEW e \in docs', e \notin docs
      PROVE  \E d \in docs \ docs' : e = [d EXCEPT !.status = status] /\ e.upload = d.upload
  <2>1. PICK d \in Own(a, u) : e = [d EXCEPT !.status = status]
    BY <1>2, <1>5
  <2> QED
    BY <1>1, <1>3, <2>1
<1>6. ASSUME status = "indexed", Own(a, u) # {} PROVE Stored(Checksum[u])'
  <2>1. PICK d \in Own(a, u) : TRUE
    BY <1>6
  <2>2. [d EXCEPT !.status = status] \in docs'
    BY <1>2
  <2> QED
    BY <1>1, <1>6, <2>2 DEF Stored
<1>7. \A d \in docs : d.status # "processing" => d \in docs'
  BY <1>1, <1>2
<1> QED
  BY <1>4, <1>5, <1>6, <1>7

LEMMA EffectBegin ==
    ASSUME BatchConstants, Types, NEW a \in Runs, NEW u \in Uploads, Begin(a, u)
    PROVE  TaskEffect(a, u)
<1>1. UNCHANGED <<proc, job, meta, item, creating, cancelling, lost>>
  BY DEF Begin
<1>2. CASE Release(a, u) /\ Fail(a, u, "index_failed") /\ UNCHANGED docs /\ faults' \in {faults, faults + 1}
  <2>1. docs' \subseteq DocSet /\ faults' \in Nat
    BY <1>2 DEF Types
  <2> QED
    BY <1>1, <1>2, <2>1, AtsAre, EffectGivesUp
<1>3. CASE Duplicate(a, u) /\ UNCHANGED <<docs, faults>>
  BY <1>1, <1>3, EffectDuplicate
<1>4. CASE /\ docs' = docs \cup {[upload |-> u, by |-> a, status |-> "processing"]}
           /\ Goto(a, u, "index") /\ UNCHANGED <<staged, faults>>
  <2>1. NoneGone
    BY <1>4, RestStays
  <2>2. Moved(a, u, "index")
    BY <1>4, GotoMoves, AtsAre DEF Types
  <2>3. docs' \subseteq DocSet /\ faults' \in Nat
    BY <1>4 DEF Types, DocSet
  <2> QED
    BY <1>1, <2>1, <2>2, <2>3, EffectPlain
<1> QED
  BY <1>2, <1>3, <1>4 DEF Begin

LEMMA EffectIndex ==
    ASSUME BatchConstants, Types, NEW a \in Runs, NEW u \in Uploads, Index(a, u)
    PROVE  TaskEffect(a, u)
<1>1. UNCHANGED <<proc, job, meta, item, creating, cancelling, lost>>
  BY DEF Index
<1>2. CASE /\ Release(a, u) /\ \E code \in {"index_failed", "source_unreadable", "deadline"} : Fail(a, u, code)
           /\ UNCHANGED docs \/ Marked(a, u, "failed")
           /\ faults' \in {faults, faults + 1}
  <2>1. docs' \subseteq DocSet /\ faults' \in Nat
    BY <1>2, MarkedDocs DEF Types
  <2> QED
    BY <1>1, <1>2, <2>1, AtsAre, EffectGivesUp
<1>3. CASE Goto(a, u, "commit") /\ UNCHANGED <<docs, staged, faults>>
  <2>1. NoneGone /\ docs' \subseteq DocSet /\ faults' \in Nat
    BY <1>3, RestStays DEF Types
  <2>2. Moved(a, u, "commit")
    BY <1>3, GotoMoves, AtsAre DEF Types
  <2> QED
    BY <1>1, <2>1, <2>2, EffectPlain
<1> QED
  BY <1>2, <1>3 DEF Index

LEMMA EffectCommit ==
    ASSUME BatchConstants, Types, NEW a \in Runs, NEW u \in Uploads, Commit(a, u)
    PROVE  TaskEffect(a, u)
<1>1. UNCHANGED <<proc, job, meta, item, creating, cancelling, lost>>
  BY DEF Commit
<1>2. CASE /\ Release(a, u) /\ Fail(a, u, "index_failed")
           /\ docs' \subseteq docs
           /\ faults' \in {faults, faults + 1}
  <2>1. docs' \subseteq DocSet /\ faults' \in Nat
    BY <1>2 DEF Types
  <2> QED
    BY <1>1, <1>2, <2>1, AtsAre, EffectGivesUp
<1>3. CASE /\ Own(a, u) # {} /\ Marked(a, u, "indexed")
           /\ Goto(a, u, "consume") /\ UNCHANGED <<staged, faults>>
  <2>1. docs' \subseteq DocSet /\ Done(a, u)
    BY <1>3, MarkedDocs DEF Types, Done
  <2>2. NoneGone /\ faults' \in Nat
    BY <1>3, RestStays DEF Types
  <2>3. Moved(a, u, "consume")
    BY <1>3, GotoMoves, AtsAre DEF Types
  <2> QED
    BY <1>1, <2>1, <2>2, <2>3, EffectPlain
<1> QED
  BY <1>2, <1>3 DEF Commit

LEMMA EffectConsumeIndexed ==
    ASSUME BatchConstants, Types, NEW a \in Runs, NEW u \in Uploads, ConsumeIndexed(a, u)
    PROVE  TaskEffect(a, u)
<1>1. UNCHANGED <<proc, job, meta, item, docs, creating, cancelling, lost, faults>>
  BY DEF ConsumeIndexed
<1>2. Done(a, u)
  BY DEF ConsumeIndexed, At, Done, Sure
<1>3. CASE Consume(a, u) /\ Goto(a, u, "checkpoint")
  BY <1>1, <1>2, <1>3, EffectConsumes
<1>4. CASE UNCHANGED staged /\ Fail(a, u, "index_failed")
  <2>1. docs' \subseteq DocSet /\ faults' \in Nat
    BY <1>1 DEF Types
  <2> QED
    BY <1>1, <1>4, <2>1, AtsAre, EffectGivesUp
<1> QED
  BY <1>3, <1>4 DEF ConsumeIndexed

\* A step that writes the checkpoint.
LEMMA EffectPersists ==
    ASSUME Types, NEW a \in Runs, NEW u \in Uploads, NEW new \in ItemSet, NEW at \in {"ok", "failed"},
           Persist(a, u, new) \/ UNCHANGED item, Moved(a, u, at),
           at = "ok" \/ new.status = "succeeded" => Done(a, u),
           UNCHANGED <<proc, job, meta, staged, docs, creating, cancelling, lost, faults>>
    PROVE  TaskEffect(a, u)
<1>1. /\ item' \in [Uploads -> ItemSet]
      /\ \A v \in Uploads : item'[v] = item[v] \/ (v = u /\ item'[v] = new)
      /\ item' # item => Holds(a)
  BY PersistItem DEF Types
<1>2. NoneGone /\ docs' \subseteq DocSet /\ faults' \in Nat
  BY RestStays DEF Types
<1>3. at \in TaskAts /\ (at \in Sure => Done(a, u))
  BY AtsAre DEF Sure
<1> QED
  BY <1>1, <1>2, <1>3 DEF TaskEffect

LEMMA EffectCheckpoint ==
    ASSUME Types, NEW a \in Runs, NEW u \in Uploads, Checkpoint(a, u)
    PROVE  TaskEffect(a, u)
<1>1. Done(a, u)
  BY DEF Checkpoint, At, Done, Sure
<1>2. Moved(a, u, "ok")
  BY MovesOn, AtsAre DEF Checkpoint, Types
<1>3. Item("succeeded", "", FALSE) \in ItemSet
  BY ItemTypes, AtsAre DEF Terminal
<1>4. /\ Persist(a, u, Item("succeeded", "", FALSE))
      /\ UNCHANGED <<proc, job, meta, staged, docs, creating, cancelling, lost, faults>>
  BY DEF Checkpoint
<1> QED
  BY <1>1, <1>2, <1>3, <1>4, EffectPersists

LEMMA EffectHandleError ==
    ASSUME Types, NEW a \in Runs, NEW u \in Uploads, HandleError(a, u)
    PROVE  TaskEffect(a, u)
<1>1. UNCHANGED <<proc, job, meta, staged, docs, creating, cancelling, lost, faults>>
  BY DEF HandleError
<1>2. CASE /\ Indexed(Checksum[u]) /\ Persist(a, u, Item("succeeded", "", FALSE))
           /\ Goto(a, u, "ok")
  <2>1. Done(a, u)
    BY <1>1, <1>2, DoneIfIndexed
  <2>2. Moved(a, u, "ok")
    BY <1>2, GotoMoves, AtsAre DEF Types
  <2>3. Item("succeeded", "", FALSE) \in ItemSet
    BY ItemTypes, AtsAre DEF Terminal
  <2> QED
    BY <1>1, <1>2, <2>1, <2>2, <2>3, EffectPersists
<1>3. CASE PersistCancelled(a, u) /\ Goto(a, u, "failed")
  <2> DEFINE new == Item("cancelled", "cancelled", FALSE)
  <2>1. new \in ItemSet /\ new.status # "succeeded"
    BY ItemTypes, AtsAre DEF Terminal, Item
  <2>2. Persist(a, u, new) \/ UNCHANGED item
    BY <1>3 DEF PersistCancelled
  <2>3. Moved(a, u, "failed")
    BY <1>3, GotoMoves, AtsAre DEF Types
  <2> HIDE DEF new
  <2> QED
    BY <1>1, <2>1, <2>2, <2>3, EffectPersists
<1>4. CASE LET code == run[a].task[u].code IN
           Persist(a, u, Item("failed", code, CodeRetryable(code))) /\ Goto(a, u, "failed")
  <2> DEFINE code == run[a].task[u].code
             new == Item("failed", code, CodeRetryable(code))
  <2>1. code \in Codes /\ CodeRetryable(code) \in BOOLEAN
    BY DEF Types, RunSet, TaskSet, CodeRetryable
  <2>2. new \in ItemSet /\ new.status # "succeeded"
    <3> HIDE DEF code
    <3> QED
      BY <2>1, ItemTypes DEF Terminal, Item
  <2>3. Moved(a, u, "failed")
    BY <1>4, GotoMoves, AtsAre DEF Types
  <2>4. Persist(a, u, new)
    BY <1>4
  <2> HIDE DEF new
  <2> QED
    BY <1>1, <2>2, <2>3, <2>4, EffectPersists
<1> QED
  BY <1>2, <1>3, <1>4 DEF HandleError

LEMMA TaskEffects ==
    ASSUME BatchConstants, Types, NEW a \in Runs, NEW u \in Uploads, TaskStep(a, u)
    PROVE  TaskEffect(a, u)
BY EffectMark, EffectClaim, EffectCheck, EffectReserve, EffectBegin, EffectIndex, EffectCommit,
   EffectConsumeIndexed, EffectCheckpoint, EffectHandleError DEF TaskStep
-----------------------------------------------------------------------------
(* What a step does *)

Kept(c) == Stored(c) \/ c \in lost

\* The content of an upload is stored now, or some attempt knows that it was.
Backed(u) == Kept(Checksum[u])' \/ \E a \in Runs : run[a].task[u].at \in Sure

\* Only an active job is leased, and nothing happens to one that is being stored.
Leased ==
    /\ job.status \notin Active => job.lease = "free"
    /\ creating # "no" => job.status = "queued" /\ job.lease = "free" /\ ~cancelling

\* No success is reported, and no upload ends, without its content.
Honest ==
    /\ \A u \in Uploads : staged'[u].status = "gone" => staged[u].status = "gone" \/ Backed(u)
    /\ \A u \in Uploads : item'[u].status = "succeeded" => item[u].status = "succeeded" \/ Backed(u)
    /\ \A a \in Runs, u \in Uploads : run'[a].task[u].at \in Sure => Backed(u)
    /\ job'.status = "succeeded" =>
           \/ job.status = "succeeded" /\ batch' = batch
           \/ \A u \in Elems(batch') : Backed(u)

Frozen == job.status \in Terminal /\ job'.status = job.status => item' = item

StepEffect == Types' /\ Honest /\ Frozen /\ Leased'

LEMMA EffectTask ==
    ASSUME BatchConstants, Types, Leased, NEW a \in Runs, NEW u \in Uploads, TaskStep(a, u)
    PROVE  StepEffect
<1>1. TaskEffect(a, u)
  BY TaskEffects
<1>2. Done(a, u) => Backed(u)
  BY DEF Done, Backed, Kept
<1>3. PICK at \in TaskAts : Moved(a, u, at) /\ (at \in Sure => Done(a, u))
  BY <1>1 DEF TaskEffect
<1>4. UNCHANGED <<proc, job, meta, creating, cancelling, lost>>
  BY <1>1 DEF TaskEffect
<1>5. staged' \in [Uploads -> StagedSet]
  BY <1>1 DEF TaskEffect, NoneGone, OnlyGone
<1>6. Types'
  BY <1>1, <1>3, <1>4, <1>5 DEF TaskEffect, Types, Moved, meta
<1>7. \A v \in Uploads : staged'[v].status = "gone" => staged[v].status = "gone" \/ Backed(v)
  BY <1>1, <1>2 DEF TaskEffect, NoneGone, OnlyGone
<1>8. \A v \in Uploads : item'[v].status = "succeeded" => item[v].status = "succeeded" \/ Backed(v)
  BY <1>1, <1>2 DEF TaskEffect
<1>9. ASSUME NEW b \in Runs, NEW v \in Uploads, run'[b].task[v].at \in Sure PROVE Backed(v)
  BY <1>2, <1>3, <1>9 DEF Moved, Backed
<1>10. Frozen
  BY <1>1 DEF TaskEffect, Frozen, Holds, Active, Terminal
<1>11. Leased'
  BY <1>4 DEF Leased
<1>12. Honest
  BY <1>4, <1>7, <1>8, <1>9 DEF Honest, meta
<1> QED
  BY <1>6, <1>10, <1>11, <1>12 DEF StepEffect

\* Ending a run changes no task, and the job only if the run still has it.
LEMMA CompleteEffect ==
    ASSUME Types, NEW a \in Runs, NEW status \in Terminal, NEW resumable \in BOOLEAN,
           Complete(a, status, resumable)
    PROVE  /\ run' \in [Runs -> RunSet] /\ \A b \in Runs : run'[b].task = run[b].task
           /\ job' \in JobSet /\ (job' # job => Holds(a))
           /\ job'.status = "succeeded" => job.status = "succeeded" \/ status = "succeeded"
           /\ Holds(a) => job'.status \in {status, "queued"}
<1>1. run' = [run EXCEPT ![a] = [@ EXCEPT !.at = "over", !.ctx = FALSE]]
  BY DEF Complete
<1>2. run \in [Runs -> RunSet] /\ job \in JobSet
  BY DEF Types
<1>3. run[a] \in RunSet
  BY <1>2
<1>4. /\ [run[a] EXCEPT !.at = "over", !.ctx = FALSE] \in RunSet
      /\ [run[a] EXCEPT !.at = "over", !.ctx = FALSE].task = run[a].task
  BY <1>3 DEF RunSet
<1>5. run' \in [Runs -> RunSet] /\ \A b \in Runs : run'[b].task = run[b].task
  BY <1>1, <1>2, <1>4
<1>6. CASE ~Holds(a)
  BY <1>2, <1>5, <1>6 DEF Complete
<1>7. CASE Holds(a) /\ LeftToNext(status)
  <2>1. job' = [job EXCEPT !.status = "queued", !.lease = "free"]
    BY <1>7 DEF Complete
  <2>2. job' \in JobSet /\ job'.status = "queued"
    BY <1>2, <2>1 DEF JobSet, Active
  <2> QED
    BY <1>5, <1>7, <2>2
<1>8. CASE Holds(a) /\ ~LeftToNext(status)
  <2> DEFINE again == status = "failed" /\ resumable /\ job.retries < MaxRetries
  <2>1. job' = [job EXCEPT !.status = status, !.lease = "free", !.retryable = again]
    BY <1>8 DEF Complete
  <2>2. again \in BOOLEAN
    OBVIOUS
  <2> HIDE DEF again
  <2>3. job' \in JobSet /\ job'.status = status
    BY <1>2, <2>1, <2>2 DEF JobSet
  <2> QED
    BY <1>5, <1>8, <2>3
<1> QED
  BY <1>6, <1>7, <1>8

\* A step that gives no reason to think that more is stored.
LEMMA EffectQuiet ==
    ASSUME Types, Types', Leased',
           \A u \in Uploads : staged'[u].status = "gone" => staged[u].status = "gone" \/ Backed(u),
           \A u \in Uploads : item'[u].status = "succeeded" => item[u].status = "succeeded",
           \A a \in Runs, u \in Uploads :
               run'[a].task[u].at \in Sure => run[a].task[u].at \in Sure,
           job'.status = "succeeded" => job.status = "succeeded" /\ batch' = batch,
           item' # item => ~(job.status \in Terminal /\ job'.status = job.status)
    PROVE  StepEffect
<1>1. \A a \in Runs, u \in Uploads : run'[a].task[u].at \in Sure => Backed(u)
  BY DEF Backed
<1>2. Honest
  BY <1>1 DEF Honest
<1>3. Frozen
  BY DEF Frozen
<1> QED
  BY <1>2, <1>3 DEF StepEffect

LEMMA EffectCreate ==
    ASSUME BatchConstants, Types, Leased, Create
    PROVE  StepEffect
<1>1. UNCHANGED <<proc, staged, docs, run, cancelling, lost, faults>>
  BY DEF Create
<1>2. /\ sized' = {} /\ creating' = "items" /\ ~cancelling
      /\ input' = {u \in Elems(batch') : Available(u)}
      /\ item' = [u \in Uploads |-> Missing]
  BY DEF Create
<1>3. Files \in Seq(Uploads) /\ RetryableFiles \in Seq(Uploads)
  BY OnlyType DEF BatchConstants, Types, RetryableFiles
<1>4. batch' \in Seq(Uploads)
  BY <1>3 DEF Create
<1>5. input' \subseteq Uploads
  BY <1>2, <1>4, ElemsType
<1>6. item' \in [Uploads -> ItemSet] /\ \A u \in Uploads : item'[u].status # "succeeded"
  <2>1. Missing \in ItemSet /\ Missing.status = "missing"
    BY ItemTypes DEF Missing
  <2> QED
    BY <1>2, <2>1
<1>7. job' \in JobSet /\ job'.status = "queued" /\ job'.lease = "free" /\ job.status # "queued"
  <2>0. job \in JobSet
    BY DEF Types
  <2>1. CASE job.status = "absent" /\ job' = [job EXCEPT !.status = "queued", !.retryable = TRUE]
    BY <2>0, <2>1 DEF JobSet, Active, Leased
  <2>2. CASE job.status = "failed" /\ job' = [job EXCEPT !.status = "queued", !.retries = @ + 1]
    <3>1. job.retries + 1 \in Nat
      BY <2>0 DEF JobSet
    <3>2. job' = [job EXCEPT !.status = "queued", !.retries = job.retries + 1]
      BY <2>2
    <3> QED
      BY <2>0, <2>2, <3>1, <3>2 DEF JobSet, Active, Terminal, Leased
  <2> QED
    BY <2>1, <2>2 DEF Create
<1>8. Types'
  BY <1>1, <1>2, <1>4, <1>5, <1>6, <1>7 DEF Types
<1>9. Leased'
  BY <1>1, <1>2, <1>7 DEF Leased, Active
<1> QED
  BY <1>1, <1>6, <1>7, <1>8, <1>9, EffectQuiet

LEMMA EffectCreateItems ==
    ASSUME Types, Leased, CreateItems
    PROVE  StepEffect
<1>1. UNCHANGED <<proc, job, batch, input, staged, docs, run, cancelling, lost, faults>>
  BY DEF CreateItems
<1>2. item' \in [Uploads -> ItemSet] /\ \A u \in Uploads : item'[u].status # "succeeded"
  <2>1. ASSUME NEW u \in Uploads
        PROVE  /\ Missing \in ItemSet /\ Missing.status # "succeeded"
               /\ Prepared(u) \in ItemSet /\ Prepared(u).status # "succeeded"
    <3>1. Item("failed", "index_failed", FALSE) \in ItemSet
      BY ItemTypes, AtsAre DEF Terminal
    <3> QED
      BY <3>1, ItemTypes DEF Prepared, Pending, Missing, Item
  <2>2. item' = [u \in Uploads |-> IF u \in Elems(batch) THEN Prepared(u) ELSE Missing]
    BY DEF CreateItems
  <2> QED
    BY <2>1, <2>2
<1>3. sized' = input /\ creating = "items" /\ creating' = "claim"
  BY DEF CreateItems
<1>4. Types'
  BY <1>1, <1>2, <1>3 DEF Types
<1>5. Leased' /\ job.status = "queued"
  BY <1>1, <1>3 DEF Leased
<1> QED
  BY <1>1, <1>2, <1>4, <1>5, EffectQuiet DEF Terminal

LEMMA EffectAttempt ==
    ASSUME BatchConstants, Types, Leased, StartAttempt, job.attempt < Attempts, job.status \in Active,
           creating' = "no",
           UNCHANGED <<proc, meta, item, staged, docs, cancelling, lost, faults>>
    PROVE  StepEffect
<1>1. job \in JobSet /\ run \in [Runs -> RunSet]
  BY DEF Types
<1>2. job.attempt + 1 \in Runs /\ job.attempt + 1 \in 0..Attempts
  BY <1>1 DEF JobSet, Runs, BatchConstants
<1>3. job' \in JobSet /\ job'.status = "queued"
  BY <1>1, <1>2 DEF StartAttempt, JobSet, Active
<1>4. \A u \in Uploads : NewRun.task[u].at \notin Sure
  BY DEF NewRun, NoRun, NoTask, Sure
<1>5. run' = [run EXCEPT ![job.attempt + 1] = NewRun]
  BY DEF StartAttempt
<1>6. run' \in [Runs -> RunSet]
  BY <1>1, <1>5, RunTypes
<1>7. \A a \in Runs, u \in Uploads : run'[a].task[u].at \in Sure => run[a].task[u].at \in Sure
  BY <1>1, <1>4, <1>5
<1>8. Types'
  BY <1>3, <1>6 DEF Types, meta
<1>9. Leased'
  BY <1>3 DEF Leased, Active
<1> QED
  BY <1>3, <1>7, <1>8, <1>9, EffectQuiet DEF Terminal

LEMMA EffectClaimNew ==
    ASSUME BatchConstants, Types, Leased, ClaimNew
    PROVE  StepEffect
BY EffectAttempt DEF ClaimNew, Leased, Active

LEMMA EffectRecover ==
    ASSUME BatchConstants, Types, Leased, Recover
    PROVE  StepEffect
BY EffectAttempt DEF Recover

\* Reading the checkpoints again adds none of a success.
LEMMA LoadedItems ==
    ASSUME Types
    PROVE  /\ LoadItems \in [Uploads -> ItemSet]
           /\ \A u \in Uploads :
                  /\ Loaded(u) \in ItemSet
                  /\ Loaded(u).status = "succeeded" => item[u].status = "succeeded"
           /\ MissingItems = {} => LoadItems = item
           /\ LoadedSizes \subseteq Uploads
<1>1. item \in [Uploads -> ItemSet] /\ Elems(batch) \subseteq Uploads /\ sized \subseteq Uploads
  BY ElemsType DEF Types
<1>2. ASSUME NEW u \in Uploads
      PROVE  /\ Loaded(u) \in ItemSet
             /\ Loaded(u).status = "succeeded" => item[u].status = "succeeded"
  <2>1. /\ Item("failed", "index_failed", CodeRetryable("index_failed")) \in ItemSet
        /\ Item("failed", "index_failed", CodeRetryable("index_failed")).status = "failed"
    BY ItemTypes, AtsAre DEF Terminal, CodeRetryable, Item
  <2>2. Pending \in ItemSet /\ Pending.status = "pending"
    BY ItemTypes DEF Pending, Item
  <2> QED
    BY <1>1, <2>1, <2>2 DEF Loaded
<1>3. LoadItems \in [Uploads -> ItemSet]
  BY <1>1, <1>2 DEF LoadItems
<1>4. ASSUME MissingItems = {} PROVE LoadItems = item
  <2>1. \A u \in Elems(batch) : item[u] # Missing
    BY <1>4 DEF MissingItems
  <2>2. \A u \in Elems(batch) : Loaded(u) = item[u]
    BY <2>1 DEF Loaded
  <2> QED
    BY <1>1, <2>2 DEF LoadItems
<1>5. LoadedSizes \subseteq Uploads
  BY <1>1 DEF LoadedSizes
<1> QED
  BY <1>2, <1>3, <1>4, <1>5

\* A run that gives its job up.
LEMMA EffectComplete ==
    ASSUME Types, Leased, NEW a \in Runs, NEW status \in Terminal, NEW resumable \in BOOLEAN,
           Complete(a, status, resumable),
           status = "succeeded" => \A u \in Elems(batch) : Backed(u),
           item' \in [Uploads -> ItemSet], sized' \subseteq Uploads,
           \A u \in Uploads : item'[u].status = "succeeded" => item[u].status = "succeeded",
           item' # item => Holds(a),
           UNCHANGED <<proc, batch, input, staged, docs, creating, cancelling, lost, faults>>
    PROVE  StepEffect
<1>1. /\ run' \in [Runs -> RunSet] /\ \A b \in Runs : run'[b].task = run[b].task
      /\ job' \in JobSet /\ (job' # job => Holds(a))
      /\ job'.status = "succeeded" => job.status = "succeeded" \/ status = "succeeded"
      /\ Holds(a) => job'.status \in {status, "queued"}
  BY CompleteEffect
<1>2. Types'
  BY <1>1 DEF Types
<1>3. \A b \in Runs, u \in Uploads : run'[b].task[u].at \in Sure => Backed(u)
  BY <1>1 DEF Backed
<1>4. Honest
  BY <1>1, <1>3 DEF Honest
<1>5. Frozen
  BY DEF Frozen, Holds, Active, Terminal
<1>6. Leased'
  <2>1. CASE job' = job
    BY <2>1 DEF Leased
  <2>2. CASE job' # job
    <3>1. Holds(a) /\ job.lease = "held"
      BY <1>1, <2>2 DEF Holds
    <3>2. creating = "no" \* a job that is being stored has no lease
      BY <3>1 DEF Leased
    <3>3. job'.lease = "free"
      <4>1. job \in JobSet
        BY DEF Types
      <4>2. CASE LeftToNext(status)
        <5>1. job' = [job EXCEPT !.status = "queued", !.lease = "free"]
          BY <3>1, <4>2 DEF Complete
        <5> QED
          BY <4>1, <5>1 DEF JobSet
      <4>3. CASE ~LeftToNext(status)
        <5>1. \E again : job' = [job EXCEPT !.status = status, !.lease = "free", !.retryable = again]
          BY <3>1, <4>3 DEF Complete
        <5> QED
          BY <4>1, <5>1 DEF JobSet
      <4> QED
        BY <4>2, <4>3
    <3> QED
      BY <3>2, <3>3 DEF Leased
  <2> QED
    BY <2>1, <2>2
<1> QED
  BY <1>2, <1>4, <1>5, <1>6 DEF StepEffect

LEMMA EffectLoadRejected ==
    ASSUME Types, Leased, NEW a \in Runs, LoadRejected(a)
    PROVE  StepEffect
<1>1. UNCHANGED <<proc, batch, input, staged, docs, creating, cancelling, lost, faults>>
  BY DEF LoadRejected
<1>2. Complete(a, "failed", TRUE) \/ Complete(a, "failed", FALSE)
  BY DEF LoadRejected
<1>3. \/ UNCHANGED <<item, sized>>
      \/ item' = LoadItems /\ sized' = LoadedSizes /\ (MissingItems = {} \/ Holds(a))
  BY DEF LoadRejected
<1>4. /\ item' \in [Uploads -> ItemSet] /\ sized' \subseteq Uploads
      /\ item' # item => Holds(a)
  BY <1>3, LoadedItems DEF Types
<1>5. \A u \in Uploads : item'[u].status = "succeeded" => item[u].status = "succeeded"
  <2>1. \A u \in Uploads : LoadItems[u] \in {item[u], Loaded(u)}
    BY DEF LoadItems
  <2> QED
    BY <1>3, <2>1, LoadedItems
<1> QED
  BY <1>1, <1>2, <1>4, <1>5, EffectComplete DEF Terminal

LEMMA EffectFinish ==
    ASSUME Types, Leased, NEW a \in Runs, Finish(a)
    PROVE  StepEffect
<1>1. UNCHANGED <<proc, meta, item, staged, docs, creating, cancelling, lost, faults>>
  BY DEF Finish
<1>2. \A u \in Elems(batch) : At(a, u, "ok") => Backed(u)
  BY DEF At, Sure, Backed
<1>3. PICK status \in Terminal :
          /\ Complete(a, status, TRUE)
          /\ status = "succeeded" => \A u \in Elems(batch) : Backed(u)
  BY <1>2 DEF Finish, Terminal
<1>4. item' \in [Uploads -> ItemSet] /\ sized' \subseteq Uploads
  BY <1>1 DEF Types, meta
<1> QED
  BY <1>1, <1>3, <1>4, EffectComplete DEF meta

LEMMA EffectLoad ==
    ASSUME BatchConstants, Types, Leased, NEW a \in Runs, Load(a)
    PROVE  StepEffect
<1> DEFINE stale(u) == Loaded(u).status = "succeeded" /\ ~Indexed(Checksum[u])
           final(u) == CASE Loaded(u).status = "succeeded" /\ ~stale(u) -> "ok"
                         [] Loaded(u).status = "failed" /\ ~Loaded(u).retryable -> "failed"
                         [] Loaded(u).status = "cancelled" -> "failed"
                         [] OTHER -> "none"
           todo == Only(batch, {u \in Elems(batch) : final(u) = "none"})
           workers == IF Len(todo) < Concurrency THEN Len(todo) ELSE Concurrency
           task == [u \in Uploads |-> [at |-> IF u \in Elems(batch) THEN final(u) ELSE "none",
                                       code |-> ""]]
           new == [run[a] EXCEPT !.at = "work", !.todo = todo, !.idle = workers, !.task = task]
<1>1. UNCHANGED <<proc, batch, input, staged, docs, creating, cancelling, lost, faults>>
  BY DEF Load
<1>2. run' = [run EXCEPT ![a].at = "work", ![a].todo = todo, ![a].idle = workers, ![a].task = task]
  BY DEF Load
<1>3. /\ sized' = LoadedSizes
      /\ item' = IF ~Holds(a) THEN item ELSE
            [u \in Uploads |-> IF u \in Elems(batch) /\ stale(u) THEN Pending ELSE LoadItems[u]]
      /\ job' = IF Holds(a) THEN [job EXCEPT !.status = "running"] ELSE job
  BY DEF Load
<1>4. todo \in Seq(Uploads)
  BY OnlyType DEF Types
<1>5. workers \in Nat
  <2> HIDE DEF todo
  <2> QED
    BY <1>4 DEF BatchConstants
<1>6. /\ \A u \in Uploads : task[u].at \in {"ok", "failed", "none"}
      /\ task \in [Uploads -> TaskSet]
      /\ \A u \in Uploads : task[u].at \in Sure => Indexed(Checksum[u])
  <2>1. ASSUME NEW u \in Uploads
        PROVE  final(u) \in {"ok", "failed", "none"} /\ (final(u) = "ok" => Indexed(Checksum[u]))
    OBVIOUS
  <2> HIDE DEF final
  <2>2. \A u \in Uploads : task[u].at = IF u \in Elems(batch) THEN final(u) ELSE "none"
    OBVIOUS
  <2>3. task \in [Uploads -> TaskSet]
    BY <2>1, AtsAre DEF TaskSet, TaskAts
  <2> QED
    BY <2>1, <2>2, <2>3 DEF Sure
<1> HIDE DEF todo, workers, task
<1>7. run \in [Runs -> RunSet] /\ run[a] \in RunSet
  BY DEF Types
<1>8. new \in RunSet /\ new.task = task
  BY <1>4, <1>5, <1>6, <1>7 DEF RunSet
<1>9. run' = [run EXCEPT ![a] = new]
  BY <1>2
<1> HIDE DEF new
<1>10. run' \in [Runs -> RunSet]
  BY <1>7, <1>8, <1>9
<1>11. \A b \in Runs, u \in Uploads : run'[b].task[u].at \in Sure => Backed(u)
  <2> SUFFICES ASSUME NEW b \in Runs, NEW u \in Uploads, run'[b].task[u].at \in Sure
               PROVE  Backed(u)
    OBVIOUS
  <2>1. CASE b # a
    BY <1>7, <1>9, <2>1 DEF Backed
  <2>2. CASE b = a
    <3>1. Indexed(Checksum[u])
      BY <1>6, <1>7, <1>8, <1>9, <2>2
    <3> QED
      BY <1>1, <3>1, IndexedIsStored DEF Backed, Kept, Stored
  <2> QED
    BY <2>1, <2>2
<1>12. /\ item' \in [Uploads -> ItemSet]
       /\ \A u \in Uploads : item'[u].status = "succeeded" => item[u].status = "succeeded"
  <2>1. CASE item' = item
    BY <2>1 DEF Types
  <2>2. CASE item' = [u \in Uploads |->
                         IF u \in Elems(batch) /\ stale(u) THEN Pending ELSE LoadItems[u]]
    <3>1. \A u \in Uploads : item'[u] \in {Pending, LoadItems[u]}
      BY <2>2
    <3>2. Pending \in ItemSet /\ Pending.status = "pending"
      BY ItemTypes DEF Pending, Item
    <3>3. \A u \in Uploads : LoadItems[u] \in {item[u], Loaded(u)}
      BY DEF LoadItems
    <3>4. \A u \in Uploads : item'[u] \in ItemSet
      BY <3>1, <3>2, LoadedItems
    <3>5. \A u \in Uploads : item'[u].status = "succeeded" => item[u].status = "succeeded"
      BY <3>1, <3>2, <3>3, LoadedItems
    <3>6. DOMAIN item' = Uploads
      BY <2>2
    <3> QED
      BY <2>2, <3>4, <3>5
  <2> QED
    BY <1>3, <2>1, <2>2
<1>13. job' \in JobSet /\ (job' = job \/ (Holds(a) /\ job'.status = "running" /\ job'.lease = "held"))
  BY <1>3 DEF Types, JobSet, Active, Holds
<1>14. Types'
  BY <1>1, <1>3, <1>10, <1>12, <1>13, LoadedItems DEF Types
<1>15. Honest
  BY <1>1, <1>11, <1>12, <1>13 DEF Honest
<1>16. Frozen
  BY <1>3 DEF Frozen, Holds, Active, Terminal
<1>17. Leased'
  BY <1>1, <1>13 DEF Leased, Holds, Active
<1> QED
  BY <1>14, <1>15, <1>16, <1>17 DEF StepEffect

LEMMA EffectTake ==
    ASSUME Types, Leased, NEW a \in Runs, Take(a)
    PROVE  StepEffect
<1>1. UNCHANGED <<proc, job, meta, item, staged, docs, creating, cancelling, lost, faults>>
  BY DEF Take
<1> DEFINE u == Head(run[a].todo)
           task == [run[a].task EXCEPT ![u] = [@ EXCEPT !.at = "taken"]]
           new == [run[a] EXCEPT !.idle = @ - 1, !.todo = Tail(@), !.task = task]
<1>2. run' = [run EXCEPT ![a] = new]
  BY DEF Take
<1>3. run[a] \in RunSet /\ run[a].idle > 0 /\ run[a].todo # <<>>
  BY DEF Take, Types
<1>4. run[a].idle - 1 \in Nat /\ Tail(run[a].todo) \in Seq(Uploads) /\ u \in Uploads
      /\ run[a].task \in [Uploads -> TaskSet]
  BY <1>3 DEF RunSet
<1> HIDE DEF u
<1>5. /\ task \in [Uploads -> TaskSet] /\ task[u].at = "taken"
      /\ \A v \in Uploads : v # u => task[v] = run[a].task[v]
  BY <1>4 DEF TaskSet, TaskAts, Busy
<1> HIDE DEF task
<1>6. new \in RunSet /\ new.task = task
  BY <1>3, <1>4, <1>5 DEF RunSet
<1> HIDE DEF new
<1>7. run \in [Runs -> RunSet]
  BY DEF Types
<1>8. run' \in [Runs -> RunSet]
  BY <1>2, <1>6, <1>7
<1>9. \A b \in Runs, v \in Uploads : run'[b].task[v].at \in Sure => run[b].task[v].at \in Sure
  BY <1>2, <1>5, <1>6, <1>7 DEF Sure
<1>10. Types' /\ Leased'
  BY <1>1, <1>8 DEF Types, Leased, meta
<1> QED
  BY <1>1, <1>9, <1>10, EffectQuiet DEF meta

\* A step that ends contexts, or whole runs, and may change the process.
LEMMA EffectRuns ==
    ASSUME Types, Leased, run' \in [Runs -> RunSet],
           \A a \in Runs : run'[a].task = run[a].task \/ run'[a].task = NoRun.task,
           proc' \in {"up", "stopping", "down"}, creating' \in {creating, "no"},
           cancelling' \in BOOLEAN, cancelling' => cancelling,
           UNCHANGED <<job, meta, item, staged, docs, lost, faults>>
    PROVE  StepEffect
<1>1. \A u \in Uploads : NoRun.task[u].at \notin Sure
  BY DEF NoRun, NoTask, Sure
<1>2. \A a \in Runs, u \in Uploads : run'[a].task[u].at \in Sure => run[a].task[u].at \in Sure
  BY <1>1
<1>3. Types'
  BY DEF Types, meta
<1>4. Leased'
  BY DEF Leased, Types
<1> QED
  BY <1>2, <1>3, <1>4, EffectQuiet DEF meta

LEMMA EffectHeartbeat ==
    ASSUME Types, Leased, NEW a \in Runs, Heartbeat(a)
    PROVE  StepEffect
<1> DEFINE new == [run[a] EXCEPT !.ctx = FALSE]
<1>1. run' = [run EXCEPT ![a] = new]
  BY DEF Heartbeat
<1>2. run \in [Runs -> RunSet] /\ new \in RunSet /\ new.task = run[a].task
  BY DEF Types, RunSet
<1> HIDE DEF new
<1>3. run' \in [Runs -> RunSet] /\ \A b \in Runs : run'[b].task = run[b].task
  BY <1>1, <1>2
<1>4. UNCHANGED <<proc, job, meta, item, staged, docs, creating, cancelling, lost, faults>>
  BY DEF Heartbeat
<1> QED
  BY <1>3, <1>4, EffectRuns DEF Types

LEMMA EffectCrash ==
    ASSUME Types, Leased, Crash
    PROVE  StepEffect
<1>1. run' = [a \in Runs |-> IF Live(a) THEN [NoRun EXCEPT !.at = "over"] ELSE run[a]]
  BY DEF Crash
<1>2. [NoRun EXCEPT !.at = "over"] \in RunSet /\ [NoRun EXCEPT !.at = "over"].task = NoRun.task
  BY RunTypes DEF RunSet
<1>3. run' \in [Runs -> RunSet]
      /\ \A a \in Runs : run'[a].task = run[a].task \/ run'[a].task = NoRun.task
  BY <1>1, <1>2 DEF Types
<1>4. /\ UNCHANGED <<job, meta, item, staged, docs, lost, faults>>
      /\ proc' = "down" /\ creating' = "no" /\ cancelling' = FALSE
  BY DEF Crash
<1> QED
  BY <1>3, <1>4, EffectRuns

LEMMA EffectShutdown ==
    ASSUME Types, Leased, Shutdown
    PROVE  StepEffect
<1>1. run' = [a \in Runs |-> [run[a] EXCEPT !.ctx = FALSE]]
  BY DEF Shutdown
<1>2. \A a \in Runs : /\ [run[a] EXCEPT !.ctx = FALSE] \in RunSet
                      /\ [run[a] EXCEPT !.ctx = FALSE].task = run[a].task
  BY DEF Types, RunSet
<1>3. run' \in [Runs -> RunSet] /\ \A a \in Runs : run'[a].task = run[a].task
  BY <1>1, <1>2
<1>4. /\ UNCHANGED <<job, meta, item, staged, docs, creating, cancelling, lost, faults>>
      /\ proc' = "stopping"
  BY DEF Shutdown
<1> QED
  BY <1>3, <1>4, EffectRuns DEF Types

LEMMA EffectStart ==
    ASSUME Types, Leased, Start
    PROVE  StepEffect
BY EffectRuns DEF Start, Types

\* A step that only changes the job, and does not call it a success.
LEMMA EffectJob ==
    ASSUME Types, Leased, NEW status \in Active \cup {"cancelled"}, NEW lease \in {"free", "held", "expired"},
           NEW again \in BOOLEAN,
           job' = [job EXCEPT !.status = status, !.lease = lease, !.retryable = again],
           lease # "free" => status \in Active,
           creating = "no" \/ job' = job,
           run' \in [Runs -> RunSet], \A a \in Runs : run'[a].task = run[a].task,
           proc' \in {"up", "stopping", "down"}, cancelling' \in BOOLEAN, cancelling' => cancelling,
           UNCHANGED <<meta, item, staged, docs, creating, lost, faults>>
    PROVE  StepEffect
<1>1. job' \in JobSet /\ job'.status = status /\ job'.lease = lease
  BY DEF Types, JobSet, Terminal
<1>2. Types'
  BY <1>1 DEF Types, meta
<1>3. Leased'
  BY <1>1 DEF Leased
<1>4. job'.status # "succeeded"
  BY <1>1 DEF Active
<1> QED
  BY <1>2, <1>3, <1>4, EffectQuiet

LEMMA EffectCancelJob ==
    ASSUME Types, Leased, CancelJob
    PROVE  StepEffect
<1>1. /\ UNCHANGED <<proc, meta, item, staged, docs, creating, lost, faults>>
      /\ cancelling /\ cancelling' = FALSE
  BY DEF CancelJob
<1>2. CASE UNCHANGED <<job, run>>
  BY <1>1, <1>2, EffectRuns DEF Types
<1>3. CASE /\ job' = [job EXCEPT !.status = "cancelled", !.lease = "free", !.retryable = FALSE]
           /\ run' = [a \in Runs |-> [run[a] EXCEPT !.ctx = @ /\ a # job.attempt]]
  <2>1. \A a \in Runs :
            /\ [run[a] EXCEPT !.ctx = @ /\ a # job.attempt] \in RunSet
            /\ [run[a] EXCEPT !.ctx = @ /\ a # job.attempt].task = run[a].task
    <3> SUFFICES ASSUME NEW a \in Runs
                 PROVE  /\ [run[a] EXCEPT !.ctx = @ /\ a # job.attempt] \in RunSet
                        /\ [run[a] EXCEPT !.ctx = @ /\ a # job.attempt].task = run[a].task
      OBVIOUS
    <3> DEFINE ctx == run[a].ctx /\ a # job.attempt
    <3>1. ctx \in BOOLEAN
      OBVIOUS
    <3>2. [run[a] EXCEPT !.ctx = @ /\ a # job.attempt] = [run[a] EXCEPT !.ctx = ctx]
      OBVIOUS
    <3> HIDE DEF ctx
    <3>3. [run[a] EXCEPT !.ctx = ctx] \in RunSet /\ [run[a] EXCEPT !.ctx = ctx].task = run[a].task
      BY <3>1 DEF Types, RunSet
    <3> QED
      BY <3>2, <3>3
  <2>2. run' \in [Runs -> RunSet] /\ \A a \in Runs : run'[a].task = run[a].task
    BY <1>3, <2>1
  <2>3. creating = "no"
    BY <1>1 DEF Leased
  <2> QED
    BY <1>1, <1>3, <2>2, <2>3, EffectJob DEF Types
<1> QED
  BY <1>2, <1>3 DEF CancelJob

LEMMA EffectLeaseLapses ==
    ASSUME Types, Leased, LeaseLapses
    PROVE  StepEffect
<1>1. /\ job.status \in Active /\ job.lease = "held" /\ job' = [job EXCEPT !.lease = "expired"]
      /\ UNCHANGED <<proc, meta, item, staged, docs, run, creating, cancelling, lost, faults>>
  BY DEF LeaseLapses
<1>2. job' = [job EXCEPT !.status = job.status, !.lease = "expired", !.retryable = job.retryable]
      /\ job.retryable \in BOOLEAN
  BY <1>1 DEF Types, JobSet
<1>3. creating = "no"
  BY <1>1 DEF Leased
<1> QED
  BY <1>1, <1>2, <1>3, EffectJob DEF Types

LEMMA EffectShutdownDone ==
    ASSUME Types, Leased, ShutdownDone
    PROVE  StepEffect
<1>1. /\ UNCHANGED <<meta, item, staged, docs, run, creating, cancelling, lost, faults>>
      /\ proc' = "down"
  BY DEF ShutdownDone
<1>2. CASE job' = job
  BY <1>1, <1>2, EffectRuns DEF Types
<1>3. CASE job.lease = "held" /\ job' = [job EXCEPT !.status = "queued", !.lease = "free"]
  <2>1. job' = [job EXCEPT !.status = "queued", !.lease = "free", !.retryable = job.retryable]
        /\ job.retryable \in BOOLEAN
    BY <1>3 DEF Types, JobSet
  <2>2. creating = "no"
    BY <1>3 DEF Leased
  <2> QED
    BY <1>1, <2>1, <2>2, EffectJob DEF Types, Active
<1> QED
  BY <1>2, <1>3 DEF ShutdownDone

LEMMA EffectCancelItems ==
    ASSUME Types, Leased, CancelItems
    PROVE  StepEffect
<1>1. /\ UNCHANGED <<proc, job, meta, staged, docs, run, creating, lost, faults>>
      /\ cancelling' = TRUE /\ creating = "no" /\ job.status \in Active
  BY DEF CancelItems
<1>2. /\ item' \in [Uploads -> ItemSet]
      /\ \A u \in Uploads : item'[u].status = "succeeded" => item[u].status = "succeeded"
  <2> DEFINE new == Item("cancelled", "cancelled", FALSE)
  <2>1. new \in ItemSet /\ new.status = "cancelled"
    BY ItemTypes, AtsAre DEF Terminal, Item
  <2>2. \/ item' = item
        \/ item' = [u \in Uploads |-> IF item[u].status \in {"pending", "running"}
                                      THEN new ELSE item[u]]
    BY DEF CancelItems
  <2> HIDE DEF new
  <2> QED
    BY <2>1, <2>2 DEF Types
<1>3. Types'
  BY <1>1, <1>2 DEF Types, meta
<1>4. Leased' /\ job.status \notin Terminal
  BY <1>1 DEF Leased, Active, Terminal
<1> QED
  BY <1>1, <1>2, <1>3, <1>4, EffectQuiet DEF meta

\* A step that only changes the staged uploads, and perhaps lets one expire.
LEMMA EffectStaged ==
    ASSUME Types, Leased, staged' \in [Uploads -> StagedSet], lost' \subseteq Contents,
           \A u \in Uploads : staged'[u].status = "gone" =>
               staged[u].status = "gone" \/ Checksum[u] \in lost',
           UNCHANGED <<proc, job, meta, item, docs, run, creating, cancelling, faults>>
    PROVE  StepEffect
<1>1. Types'
  BY DEF Types, meta
<1>2. Leased'
  BY DEF Leased
<1>3. \A u \in Uploads : Checksum[u] \in lost' => Backed(u)
  BY DEF Backed, Kept
<1> QED
  BY <1>1, <1>2, <1>3, EffectQuiet DEF meta

LEMMA EffectStagingLapses ==
    ASSUME Types, Leased, NEW u \in Uploads, StagingLapses(u)
    PROVE  StepEffect
<1> DEFINE new == [staged[u] EXCEPT !.live = FALSE]
<1>1. staged' = [staged EXCEPT ![u] = new]
  BY DEF StagingLapses
<1>2. staged \in [Uploads -> StagedSet] /\ new \in StagedSet /\ new.status = staged[u].status
  BY DEF Types, StagedSet
<1> HIDE DEF new
<1>3. /\ staged' \in [Uploads -> StagedSet]
      /\ \A v \in Uploads : staged'[v].status = staged[v].status
  BY <1>1, <1>2
<1>4. UNCHANGED <<proc, job, meta, item, docs, run, creating, cancelling, lost, faults>>
  BY DEF StagingLapses
<1> QED
  BY <1>3, <1>4, EffectStaged DEF Types

LEMMA EffectCleanUp ==
    ASSUME BatchConstants, Types, Leased, NEW u \in Uploads, CleanUp(u)
    PROVE  StepEffect
<1>1. UNCHANGED <<proc, job, meta, item, docs, run, creating, cancelling, faults>>
  BY DEF CleanUp
<1>2. /\ Staged \in StagedSet /\ Staged.status # "gone" /\ Gone \in StagedSet
      /\ Checksum[u] \in Contents
  BY StagedTypes DEF Staged, BatchConstants
<1>3. CASE staged' = [staged EXCEPT ![u] = Staged] /\ UNCHANGED lost
  BY <1>1, <1>2, <1>3, EffectStaged DEF Types
<1>4. CASE staged' = [staged EXCEPT ![u] = Gone] /\ lost' = lost \cup {Checksum[u]}
  BY <1>1, <1>2, <1>4, EffectStaged DEF Types
<1> QED
  BY <1>3, <1>4 DEF CleanUp

LEMMA EffectDeleteDocument ==
    ASSUME BatchConstants, Types, Leased, NEW d \in docs, DeleteDocument(d)
    PROVE  StepEffect
<1>1. /\ UNCHANGED <<proc, job, meta, item, staged, run, creating, cancelling, faults>>
      /\ docs' \subseteq docs /\ lost' = lost \cup {Checksum[d.upload]}
  BY DEF DeleteDocument
<1>2. Checksum[d.upload] \in Contents
  BY DEF Types, DocSet, BatchConstants
<1>3. Types'
  BY <1>1, <1>2 DEF Types, meta
<1>4. Leased'
  BY <1>1 DEF Leased
<1> QED
  BY <1>1, <1>3, <1>4, EffectQuiet DEF meta

LEMMA Effects ==
    ASSUME BatchConstants, Types, Leased, Next
    PROVE  StepEffect
<1>1. CASE Create \/ CreateItems \/ ClaimNew \/ Recover
  BY <1>1, EffectCreate, EffectCreateItems, EffectClaimNew, EffectRecover
<1>2. CASE \E a \in Runs : RunStep(a) \/ Heartbeat(a) \/ \E u \in Uploads : TaskStep(a, u)
  BY <1>2, EffectLoad, EffectLoadRejected, EffectTake, EffectFinish, EffectHeartbeat, EffectTask
     DEF RunStep
<1>3. CASE CancelJob \/ LeaseLapses \/ (\E u \in Uploads : StagingLapses(u)) \/ Start \/ ShutdownDone
  BY <1>3, EffectCancelJob, EffectLeaseLapses, EffectStagingLapses, EffectStart, EffectShutdownDone
<1>4. CASE Environment
  BY <1>4, EffectCancelItems, EffectCrash, EffectShutdown, EffectCleanUp, EffectDeleteDocument
     DEF Environment
<1> QED
  BY <1>1, <1>2, <1>3, <1>4 DEF Next

LEMMA EffectStutter ==
    ASSUME Types, Leased, UNCHANGED vars
    PROVE  StepEffect
<1>1. UNCHANGED <<proc, job, batch, input, sized, item, staged, docs, run, creating, cancelling,
                  lost, faults>>
  BY DEF vars, meta
<1>2. Types' /\ Leased'
  BY <1>1 DEF Types, Leased
<1> QED
  BY <1>1, <1>2, EffectQuiet DEF meta
-----------------------------------------------------------------------------
(* The documents *)

\* A content that is stored stays so, unless it is deleted, and is stored once.
DocsEffect ==
    /\ \A c \in Contents : Kept(c) => Kept(c)'
    /\ NoDuplicateDocument => NoDuplicateDocument'

\* Documents that do not become more, none of which that is indexed goes.
LEMMA FewerDocs ==
    ASSUME docs' \subseteq docs, lost \subseteq lost',
           \A d \in docs \ docs' : d.status # "indexed" \/ Checksum[d.upload] \in lost'
    PROVE  DocsEffect
<1>1. \A c \in Contents : Kept(c) => Kept(c)'
  BY DEF Kept, Stored
<1>2. NoDuplicateDocument => NoDuplicateDocument'
  BY DEF NoDuplicateDocument
<1> QED
  BY <1>1, <1>2 DEF DocsEffect

LEMMA DocsMarked ==
    ASSUME Types, NEW a \in Runs, NEW u \in Uploads, NEW status \in {"indexed", "failed"},
           Marked(a, u, status), UNCHANGED lost
    PROVE  DocsEffect
<1>1. /\ \A e \in docs' : e \in docs
             \/ \E d \in docs \ docs' : e = [d EXCEPT !.status = status] /\ e.upload = d.upload
      /\ \A d \in docs : d.status # "processing" => d \in docs'
  BY MarkedDocs DEF Types
<1>2. \A c \in Contents : Kept(c) => Kept(c)'
  BY <1>1 DEF Kept, Stored
<1>3. ASSUME NoDuplicateDocument PROVE NoDuplicateDocument'
  <2> SUFFICES ASSUME NEW d \in docs', NEW e \in docs', Checksum[d.upload] = Checksum[e.upload]
               PROVE  d = e
    BY DEF NoDuplicateDocument
  <2> DEFINE Before(f, g) ==
                 /\ f \in docs /\ f.upload = g.upload
                 /\ g = IF f \in docs' THEN f ELSE [f EXCEPT !.status = status]
  <2>1. \A g \in docs' : \E f : Before(f, g)
    BY <1>1
  <2>2. PICK d0 : Before(d0, d)
    BY <2>1
  <2>3. PICK e0 : Before(e0, e)
    BY <2>1
  <2>4. d0 = e0
    BY <1>3, <2>2, <2>3 DEF NoDuplicateDocument
  <2> QED
    BY <2>2, <2>3, <2>4
<1> QED
  BY <1>2, <1>3 DEF DocsEffect

LEMMA DocsTask ==
    ASSUME BatchConstants, Types, NEW a \in Runs, NEW u \in Uploads, TaskStep(a, u)
    PROVE  DocsEffect
<1>1. UNCHANGED lost
  BY TaskEffects DEF TaskEffect
<1>2. CASE UNCHANGED docs
  BY <1>1, <1>2, FewerDocs
<1>3. CASE Begin(a, u) /\ docs' # docs
  <2> DEFINE new == [upload |-> u, by |-> a, status |-> "processing"]
  <2>1. docs' = docs \cup {new} /\ DocsWith(Checksum[u]) = {}
    BY <1>3 DEF Begin
  <2>2. \A d \in docs : Checksum[d.upload] # Checksum[u]
    BY <2>1 DEF DocsWith
  <2>3. \A c \in Contents : Kept(c) => Kept(c)'
    BY <1>1, <2>1 DEF Kept, Stored
  <2>4. NoDuplicateDocument => NoDuplicateDocument'
    BY <2>1, <2>2 DEF NoDuplicateDocument
  <2> QED
    BY <2>3, <2>4 DEF DocsEffect
<1>4. CASE Index(a, u) /\ docs' # docs
  BY <1>1, <1>4, DocsMarked DEF Index
<1>5. CASE Commit(a, u) /\ docs' # docs
  <2>1. CASE Marked(a, u, "indexed")
    BY <1>1, <2>1, DocsMarked
  <2>2. CASE docs' = docs \ Own(a, u)
    <3>1. \A d \in docs \ docs' : d.status # "indexed"
      BY <2>2 DEF Own
    <3> QED
      BY <1>1, <2>2, <3>1, FewerDocs
  <2> QED
    BY <1>5, <2>1, <2>2 DEF Commit
<1>6. \/ UNCHANGED docs \/ Begin(a, u) \/ Index(a, u) \/ Commit(a, u)
  BY DEF TaskStep, Mark, Claim, Check, Reserve, ConsumeIndexed, Checkpoint, HandleError
<1> QED
  BY <1>2, <1>3, <1>4, <1>5, <1>6

LEMMA DocsStep ==
    ASSUME BatchConstants, Types, Next
    PROVE  DocsEffect
<1>1. CASE \E a \in Runs, u \in Uploads : TaskStep(a, u)
  BY <1>1, DocsTask
<1>2. CASE \E d \in docs : DeleteDocument(d)
  <2>1. PICK d \in docs : docs' = docs \ {d} /\ lost' = lost \cup {Checksum[d.upload]}
    BY <1>2 DEF DeleteDocument
  <2>2. /\ docs' \subseteq docs /\ lost \subseteq lost'
        /\ \A e \in docs \ docs' : Checksum[e.upload] \in lost'
    BY <2>1
  <2> QED
    BY <2>2, FewerDocs
<1>3. CASE docs' = docs /\ lost \subseteq lost'
  BY <1>3, FewerDocs
<1>4. ASSUME NEW a \in Runs, RunStep(a) \/ Heartbeat(a) PROVE docs' = docs /\ lost' = lost
  BY <1>4 DEF RunStep, Heartbeat, Load, LoadRejected, Take, Finish
<1>5. \/ \E a \in Runs, u \in Uploads : TaskStep(a, u)
      \/ \E d \in docs : DeleteDocument(d)
      \/ docs' = docs /\ lost \subseteq lost'
  BY <1>4 DEF Next, Environment, Create, CreateItems, ClaimNew, Recover, CancelItems, Crash, Shutdown,
              CleanUp, CancelJob, LeaseLapses, StagingLapses, Start, ShutdownDone
<1> QED
  BY <1>1, <1>2, <1>3, <1>5
-----------------------------------------------------------------------------
(* The properties *)

\* A success that is on record, in a checkpoint, in a run or in the job, and the end
\* of an upload, stand for a content that is stored (or was lost since).
Founded ==
    /\ \A u \in Uploads : staged[u].status = "gone" \/ item[u].status = "succeeded" => Kept(Checksum[u])
    /\ \A a \in Runs, u \in Uploads : run[a].task[u].at \in Sure => Kept(Checksum[u])
    /\ job.status = "succeeded" => \A u \in Elems(batch) : Kept(Checksum[u])

BatchInv == Types /\ Leased /\ NoDuplicateDocument /\ Founded

LEMMA BatchInvInit == BatchConstants /\ Init => BatchInv
<1> SUFFICES ASSUME BatchConstants, Init PROVE BatchInv
  OBVIOUS
<1>1. Types
  BY TypesInit
<1>2. Leased /\ NoDuplicateDocument
  BY DEF Init, Leased, NoDuplicateDocument
<1>3. Founded
  BY DEF Init, Founded, Staged, Missing, NoRun, NoTask, Sure
<1> QED
  BY <1>1, <1>2, <1>3 DEF BatchInv

LEMMA BatchInvStep == BatchConstants /\ BatchInv /\ [Next]_vars => BatchInv' /\ Frozen
<1> SUFFICES ASSUME BatchConstants, BatchInv, [Next]_vars PROVE BatchInv' /\ Frozen
  OBVIOUS
<1>1. Types /\ Leased /\ NoDuplicateDocument /\ Founded
  BY DEF BatchInv
<1>2. StepEffect
  BY <1>1, Effects, EffectStutter
<1>3. DocsEffect
  <2>1. CASE Next
    BY <1>1, <2>1, DocsStep
  <2>2. CASE UNCHANGED vars
    BY <2>2, FewerDocs DEF vars
  <2> QED
    BY <2>1, <2>2
<1>4. \A u \in Uploads : Checksum[u] \in Contents
  BY DEF BatchConstants
<1>5. \A u \in Uploads : Backed(u) => Kept(Checksum[u])'
  BY <1>1, <1>3, <1>4 DEF Backed, Founded, DocsEffect
<1>6. Elems(batch)' \subseteq Uploads
  BY <1>2, ElemsType DEF StepEffect, Types
<1>7. Founded'
  <2>1. ASSUME NEW u \in Uploads, staged'[u].status = "gone" \/ item'[u].status = "succeeded"
        PROVE  Kept(Checksum[u])'
    BY <1>1, <1>2, <1>3, <1>4, <1>5, <2>1 DEF StepEffect, Honest, Founded, DocsEffect
  <2>2. \A a \in Runs, u \in Uploads : run'[a].task[u].at \in Sure => Kept(Checksum[u])'
    BY <1>2, <1>5 DEF StepEffect, Honest
  <2>3. ASSUME job'.status = "succeeded", NEW u \in Elems(batch') PROVE Kept(Checksum[u])'
    BY <1>1, <1>2, <1>3, <1>4, <1>5, <1>6, <2>3 DEF StepEffect, Honest, Founded, DocsEffect
  <2> QED
    BY <2>1, <2>2, <2>3 DEF Founded
<1> QED
  BY <1>1, <1>2, <1>3, <1>7 DEF BatchInv, StepEffect, DocsEffect

LEMMA BatchInvAlways == Spec => []BatchInv
<1>1. BatchConstants
  BY BatchConstants
<1> QED
  BY <1>1, BatchInvInit, BatchInvStep, PTL DEF Spec

\* The state of the batch keeps its types: in particular the pool never has more
\* files in hand than workers.
THEOREM BatchTypes == Spec => []TypeOK
<1>1. BatchInv => TypeOK
  BY TypesAreTypeOK DEF BatchInv
<1> QED
  BY <1>1, BatchInvAlways, PTL

\* Whatever attempts overlap, and wherever one is interrupted, a content is stored in
\* one document at most.
THEOREM StoredOnce == Spec => []NoDuplicateDocument
<1>1. BatchInv => NoDuplicateDocument
  BY DEF BatchInv
<1> QED
  BY <1>1, BatchInvAlways, PTL

\* A success that a client can see, of a file or of the whole batch, is the success of
\* an indexed document.
THEOREM SuccessFounded == Spec => []SuccessIsIndexed
<1>1. ASSUME BatchInv PROVE SuccessIsIndexed
  <2>1. batch \in Seq(Uploads) /\ Founded
    BY <1>1 DEF BatchInv, Types
  <2>2. Elems(batch) \subseteq Uploads
    BY <2>1, ElemsType
  <2> QED
    BY <2>1, <2>2 DEF Founded, Kept, SuccessIsIndexed
<1> QED
  BY <1>1, BatchInvAlways, PTL

\* No interruption loses the source of a file whose content is not indexed.
THEOREM NoSourceLost == Spec => []SourceKept
<1>1. BatchInv => SourceKept
  BY DEF BatchInv, Founded, Kept, SourceKept
<1> QED
  BY <1>1, BatchInvAlways, PTL

\* No attempt, current or overtaken, changes a checkpoint of a batch that is over.
THEOREM FinishedIsFinal == Spec => CheckpointsFrozen
<1>1. BatchConstants
  BY BatchConstants
<1>2. BatchInv /\ [Next]_vars =>
          [job.status \in Terminal /\ job'.status = job.status => item' = item]_vars
  BY <1>1, BatchInvStep DEF Frozen
<1> QED
  BY <1>2, BatchInvAlways, PTL DEF Spec, CheckpointsFrozen
=============================================================================
