------------------------- MODULE UploadStagingProofs -------------------------
(***************************************************************************)
(* The properties of the staged uploads, for every number of uploads,      *)
(* workers, limits and faults.                                             *)
(*                                                                         *)
(* StageInv is the inductive invariant. UploadSound says what the          *)
(* manifest, the items in memory and the directory have to do with each    *)
(* other, WorkerSound and CleanerSound what holds between two steps of     *)
(* the same worker, reader or cleaner, however much others did in          *)
(* between.                                                                *)
(*                                                                         *)
(* An action is shown once to be Sound: it keeps the invariant, and what   *)
(* UploadKept and LeaseRespected ask of a step. QuotaInv states the        *)
(* limits of what the manifest holds, so that they also survive a restart  *)
(* and a manifest that could not be read; it needs that Bytes is a sum,    *)
(* which is an induction over sets.                                        *)
(***************************************************************************)
EXTENDS UploadStaging, FiniteInduction, TLAPS
-----------------------------------------------------------------------------
\* An abandoned upload whose release could not be written to the manifest.
Freed(u) == items[u].status = "staged" /\ manifest[u] = Processing(items[u].attempt) /\ u \notin live

UploadSound(u) ==
    /\ manifest[u] # NoItem => u \in issued
    /\ manifest[u].status \in Waiting => u \in files
    /\ u \in reserved => manifest[u] = NoItem /\ u \notin acked \cup aged
    /\ ~loadFailed => items[u] = manifest[u] \/ Freed(u)
    /\ loadFailed => items[u] = NoItem
    /\ u \in acked => manifest[u].status \in Waiting \/ u \in served \cup expired

\* What a worker goes on to do is right, however long ago it decided to.
WorkerSound(w) ==
    LET u == work[w].upload IN
    work[w].at # "idle" =>
        /\ u \in issued \ reserved /\ ~loadFailed
        /\ work[w].at \in {"recheck", "consume", "delete"} => u \in served
        /\ work[w].at = "delete" => items[u].status \in {"consumed", "none"}
        /\ work[w].at = "remove" => manifest[u] = NoItem

\* The same of the cleaner.
CleanerSound ==
    cleaner.at # "idle" =>
        /\ ~loadFailed
        /\ \A u \in cleaner.gone \cup cleaner.orphans : u \in issued \ reserved /\ manifest[u] = NoItem

StageInv ==
    /\ StagingTypeOK
    /\ \A u \in Uploads : UploadSound(u)
    /\ \A w \in Workers : WorkerSound(w)
    /\ CleanerSound
    /\ loadFailed => reserved = {}
-----------------------------------------------------------------------------
(* Types *)

WorkAts == {"idle", "release", "delete", "remove"} \cup Tracked
WorkSet == [at : WorkAts, upload : Uploads, attempt : 0..MaxAttempt, fenced : BOOLEAN]
CleanSet == [at : {"idle", "remove", "scan"}, gone : SUBSET Uploads, orphans : SUBSET Uploads]

Types ==
    /\ setup \in Setups
    /\ items \in [Uploads -> Items] /\ manifest \in [Uploads -> Items]
    /\ issued \subseteq Uploads
    /\ files \subseteq issued /\ temps \subseteq issued /\ reserved \subseteq issued
    /\ live \subseteq issued /\ expired \subseteq issued /\ aged \subseteq issued
    /\ work \in [Workers -> WorkSet] /\ cleaner \in CleanSet
    /\ loadFailed \in BOOLEAN
    /\ indexed \subseteq {Content[u] : u \in Uploads}
    /\ acked \subseteq issued /\ served \subseteq issued
    /\ faults \in 0..setup.faults

LEMMA TypesAreTypeOK == (StagingTypeOK <=> Types) /\ (StagingTypeOK' <=> Types')
BY Zenon DEF StagingTypeOK, Types, WorkSet, WorkAts, CleanSet

LEMMA ItemTypes ==
    /\ 0 \in 0..MaxAttempt => NoItem \in Items
    /\ \A n \in 0..MaxAttempt : Staged(n) \in Items /\ Processing(n) \in Items /\ Consumed(n) \in Items
BY DEF Items, NoItem, Staged, Processing, Consumed

LEMMA ItemFields ==
    /\ NoItem.status = "none" /\ NoItem.status \notin Waiting
    /\ \A n : /\ Staged(n).status = "staged" /\ Staged(n).status \in Waiting
              /\ Processing(n).status = "processing" /\ Processing(n).status \in Waiting
              /\ Consumed(n).status = "consumed" /\ Consumed(n).status \notin Waiting
              /\ Staged(n).attempt = n /\ Processing(n).attempt = n
BY DEF NoItem, Staged, Processing, Consumed, Waiting

LEMMA ItemOf ==
    ASSUME NEW i \in Items
    PROVE  /\ i.attempt \in 0..MaxAttempt
           /\ i.status \in {"none", "staged", "processing", "consumed"}
           /\ i.status \notin {"none", "consumed"} => i.status \in Waiting
BY DEF Items, Waiting

LEMMA RestTypes ==
    ASSUME StagingConstants
    PROVE  /\ NoItem \in Items /\ Resting \in WorkSet /\ Resting.at = "idle"
           /\ Quiet \in CleanSet /\ Quiet.at = "idle"
<1>1. MaxAttempt \in Nat /\ 0 \in 0..MaxAttempt /\ (CHOOSE u \in Uploads : TRUE) \in Uploads
  BY DEF StagingConstants
<1>2. NoItem \in Items
  BY <1>1, ItemTypes
<1>3. Resting \in WorkSet /\ Resting.at = "idle"
  <2> DEFINE u == CHOOSE u \in Uploads : TRUE
  <2>1. u \in Uploads
    BY <1>1
  <2>2. Resting = [at |-> "idle", upload |-> u, attempt |-> 0, fenced |-> FALSE]
    BY DEF Resting
  <2> HIDE DEF u
  <2> QED
    BY <1>1, <2>1, <2>2 DEF WorkSet, WorkAts
<1>4. Quiet \in CleanSet /\ Quiet.at = "idle"
  BY DEF Quiet, CleanSet
<1> QED
  BY <1>2, <1>3, <1>4

LEMMA StageInit == StagingConstants /\ StagingInit => StageInv
<1> SUFFICES ASSUME StagingConstants, StagingInit PROVE StageInv
  OBVIOUS
<1>1. /\ setup \in Setups /\ setup.faults \in Nat
      /\ items = [u \in Uploads |-> NoItem] /\ manifest = items
      /\ files = {} /\ temps = {} /\ reserved = {} /\ live = {} /\ expired = {} /\ aged = {}
      /\ work = [w \in Workers |-> Resting] /\ cleaner = Quiet /\ loadFailed = FALSE
      /\ indexed = {} /\ issued = {} /\ acked = {} /\ served = {} /\ faults = 0
  <2>1. setup.faults \in Nat
    BY DEF StagingInit, StagingConstants
  <2> QED
    BY <2>1 DEF StagingInit
<1>2. items \in [Uploads -> Items] /\ work \in [Workers -> WorkSet] /\ cleaner \in CleanSet
  BY <1>1, RestTypes
<1>3. Types
  <2>0. setup.faults \in Nat /\ faults = 0 /\ loadFailed = FALSE
    BY <1>1
  <2>1. faults \in 0..setup.faults
    <3>1. 0 \in 0..setup.faults
      BY <2>0
    <3> QED
      BY <2>0, <3>1
  <2>4. loadFailed \in BOOLEAN
    BY <2>0
  <2>2. issued \subseteq Uploads /\ indexed \subseteq {Content[u] : u \in Uploads}
    <3>1. issued = {} /\ indexed = {}
      BY <1>1
    <3> QED
      BY <3>1
  <2>3. /\ files \subseteq issued /\ temps \subseteq issued /\ reserved \subseteq issued
        /\ live \subseteq issued /\ expired \subseteq issued /\ aged \subseteq issued
        /\ acked \subseteq issued /\ served \subseteq issued
    BY <1>1
  <2> QED
    BY <1>1, <1>2, <2>1, <2>2, <2>3, <2>4 DEF Types
<1>4. \A u \in Uploads : UploadSound(u)
  BY <1>1, ItemFields DEF UploadSound
<1>5. \A w \in Workers : WorkerSound(w)
  BY <1>1, RestTypes DEF WorkerSound
<1>6. CleanerSound
  BY <1>1, RestTypes DEF CleanerSound
<1> QED
  BY <1>1, <1>3, <1>4, <1>5, <1>6, TypesAreTypeOK DEF StageInv
-----------------------------------------------------------------------------
(* What steps have in common *)

\* The account of an action: the invariant, and what the action properties ask of it.
KeptStep ==
    \A u \in acked' :
        \/ manifest'[u].status \in Waiting
        \/ u \in served'
        \/ Lapsed(u)
LeaseStep ==
    \A u \in Uploads :
        \/ ~LeaseActive(u) \/ items'[u] = items[u] \/ loadFailed'
        \/ \E w \in Workers : /\ work[w].upload = u
                              /\ work[w].attempt = items[u].attempt
                              /\ work'[w] # work[w]
Sound == StageInv' /\ KeptStep /\ LeaseStep

\* Nothing that a worker or the cleaner relies on is undone.
Steady ==
    /\ loadFailed' = loadFailed /\ issued \subseteq issued' /\ served \subseteq served'
    /\ reserved' \cap issued \subseteq reserved
    /\ \A u \in issued \ reserved :
           /\ manifest[u] = NoItem => manifest'[u] = NoItem
           /\ items[u].status \in {"consumed", "none"} => items'[u].status \in {"consumed", "none"}

LEMMA SteadyWorker ==
    ASSUME Types, Steady, NEW w \in Workers, WorkerSound(w), work'[w] = work[w]
    PROVE  WorkerSound(w)'
<1> SUFFICES ASSUME work[w].at # "idle" PROVE WorkerSound(w)'
  BY DEF WorkerSound
<1>1. /\ work[w].upload \in issued \ reserved /\ ~loadFailed
      /\ work[w].at \in {"recheck", "consume", "delete"} => work[w].upload \in served
      /\ work[w].at = "delete" => items[work[w].upload].status \in {"consumed", "none"}
      /\ work[w].at = "remove" => manifest[work[w].upload] = NoItem
  BY DEF WorkerSound
<1> QED
  BY <1>1 DEF Steady, WorkerSound

LEMMA SteadyCleaner ==
    ASSUME Types, Steady, CleanerSound, cleaner' = cleaner
    PROVE  CleanerSound'
BY DEF Steady, CleanerSound

\* A worker that goes on.
LEMMA GotoWork ==
    ASSUME Types, NEW w \in Workers, NEW step \in WorkAts, Goto(w, step)
    PROVE  /\ work' \in [Workers -> WorkSet] /\ \A x \in Workers : x # w => work'[x] = work[x]
           /\ work'[w].at = step /\ work'[w].upload = work[w].upload
           /\ work'[w].attempt = work[w].attempt
<1>1. work \in [Workers -> WorkSet] /\ work' = [work EXCEPT ![w] = [@ EXCEPT !.at = step]]
  BY DEF Goto, Types
<1>2. [work[w] EXCEPT !.at = step] \in WorkSet
  BY <1>1 DEF WorkSet
<1> QED
  BY <1>1, <1>2 DEF WorkSet

LEMMA ReturnWork ==
    ASSUME StagingConstants, Types, NEW w \in Workers, Return(w)
    PROVE  /\ work' \in [Workers -> WorkSet] /\ \A x \in Workers : x # w => work'[x] = work[x]
           /\ work'[w].at = "idle"
<1>1. work \in [Workers -> WorkSet] /\ work' = [work EXCEPT ![w] = Resting]
  BY DEF Return, Types
<1> QED
  BY <1>1, RestTypes

\* A fault, or a refused write, leaves everything else as it is.
LEMMA FaultType ==
    ASSUME StagingConstants, Types, setup' = setup, Fault \/ UNCHANGED faults
    PROVE  faults' \in 0..setup'.faults
<1>1. setup.faults \in Nat
  BY DEF StagingConstants, Types
<1>2. faults \in 0..setup.faults
  BY DEF Types
<1> QED
  BY <1>1, <1>2 DEF Fault

\* A write: the manifest is the items, of which one is new.
LEMMA StoredItem ==
    ASSUME Types, NEW u \in Uploads, NEW item \in Items, Stored(u, item)
    PROVE  /\ items' \in [Uploads -> Items] /\ manifest' = items' /\ faults' = faults
           /\ items'[u] = item /\ \A v \in Uploads : v # u => items'[v] = items[v]
BY DEF Stored, Types

\* The uploads that a write is not about: what was freed is written too.
LEMMA StoredOthers ==
    ASSUME Types, NEW u \in Uploads, NEW item \in Items, Stored(u, item), ~loadFailed, ~loadFailed',
           NEW v \in Uploads, v # u, UploadSound(v),
           issued \subseteq issued', files \ {u} \subseteq files', served \subseteq served',
           expired \ {u} \subseteq expired', reserved' \subseteq reserved \cup {u},
           acked' \subseteq acked \cup {u}, aged' = aged
    PROVE  /\ UploadSound(v)' 
           /\ manifest[v] = NoItem => manifest'[v] = NoItem
           /\ items[v].status \in {"consumed", "none"} => items'[v].status \in {"consumed", "none"}
<1>1. manifest'[v] = items[v] /\ items'[v] = items[v]
  BY StoredItem
<1>2. items[v] = manifest[v] \/ Freed(v)
  BY DEF UploadSound
<1>3. CASE items[v] = manifest[v]
  BY <1>1, <1>3 DEF UploadSound
<1>4. CASE Freed(v)
  <2>1. items[v].status = "staged" /\ manifest[v].status \in Waiting /\ manifest[v] # NoItem
    BY <1>4, ItemFields DEF Freed
  <2>2. items[v].status \in Waiting /\ items[v] # NoItem
    BY <2>1, ItemFields DEF Waiting
  <2>3. v \in issued /\ v \in files /\ v \notin reserved
    BY <2>1 DEF UploadSound
  <2> QED
    BY <1>1, <2>1, <2>2, <2>3 DEF UploadSound
<1> QED
  BY <1>2, <1>3, <1>4
-----------------------------------------------------------------------------
\* An upload about which a step says nothing.
LEMMA UploadSame ==
    ASSUME NEW v, UploadSound(v), items'[v] = items[v], manifest'[v] = manifest[v],
           loadFailed' = loadFailed, issued \subseteq issued', served \subseteq served',
           v \in files /\ manifest[v].status \in Waiting => v \in files',
           v \in expired => v \in expired', v \in acked' => v \in acked,
           v \in live' => v \in live,
           v \in reserved' => manifest[v] = NoItem /\ v \notin acked \cup aged'
    PROVE  UploadSound(v)'
<1>1. Freed(v) => Freed(v)'
  BY DEF Freed
<1> QED
  BY <1>1 DEF UploadSound

KeptOf(u)  == manifest'[u].status \in Waiting \/ u \in served' \/ Lapsed(u)
LeaseOf(u) == 
    \/ ~LeaseActive(u) \/ items'[u] = items[u] \/ loadFailed'
    \/ \E w \in Workers : /\ work[w].upload = u
                          /\ work[w].attempt = items[u].attempt
                          /\ work'[w] # work[w]

\* The manifest keeps what it says of an upload, or takes over what memory says.
LEMMA KeptSame ==
    ASSUME NEW v, UploadSound(v), v \in acked, served \subseteq served',
           manifest'[v] = manifest[v] \/ (~loadFailed /\ manifest'[v] = items[v])
    PROVE  KeptOf(v)
<1>1. Freed(v) => items[v].status \in Waiting /\ manifest[v].status \in Waiting
  BY ItemFields DEF Freed, Waiting
<1>2. CASE manifest[v].status \in Waiting
  BY <1>1, <1>2 DEF UploadSound, KeptOf
<1>3. CASE manifest[v].status \notin Waiting
  <2>1. v \in served \/ v \in expired
    BY <1>3 DEF UploadSound
  <2>2. items[v] = manifest[v] \/ items[v] = NoItem
    BY <1>1, <1>3 DEF UploadSound
  <2>3. ~LeaseActive(v)
    BY <2>2, <1>3, ItemFields DEF LeaseActive, Waiting
  <2> QED
    BY <2>1, <2>3 DEF KeptOf, Lapsed
<1> QED
  BY <1>2, <1>3

LEMMA SoundParts ==
    ASSUME Types', \A u \in Uploads : UploadSound(u)', \A w \in Workers : WorkerSound(w)',
           CleanerSound', loadFailed' => reserved' = {},
           \A u \in acked' : KeptOf(u), \A u \in Uploads : LeaseOf(u)
    PROVE  Sound
<1>1. StageInv'
  BY TypesAreTypeOK DEF StageInv
<1>2. KeptStep
  BY DEF KeptStep, KeptOf
<1>3. LeaseStep
  BY DEF LeaseStep, LeaseOf
<1> QED
  BY <1>1, <1>2, <1>3 DEF Sound

\* A step that leaves the items alone.
LEMMA QuietStep ==
    ASSUME StageInv, Types', items' = items, manifest' = manifest, loadFailed' = loadFailed,
           issued \subseteq issued', served \subseteq served', expired \subseteq expired',
           live' \subseteq live, acked' \subseteq acked,
           \A u \in files \ files' : manifest[u].status \notin Waiting,
           \A u \in reserved' : ~loadFailed /\ manifest[u] = NoItem /\ u \notin acked \cup aged',
           reserved' \cap issued \subseteq reserved,
           \A w \in Workers : work'[w] = work[w] \/ WorkerSound(w)',
           cleaner' = cleaner \/ CleanerSound'
    PROVE  Sound
<1>0. /\ Types /\ CleanerSound
      /\ \A u \in Uploads : UploadSound(u)
      /\ \A w \in Workers : WorkerSound(w)
  BY TypesAreTypeOK DEF StageInv
<1>1. Steady
  BY DEF Steady
<1>2. \A u \in Uploads : UploadSound(u)'
  BY <1>0, UploadSame
<1>3. \A w \in Workers : WorkerSound(w)'
  BY <1>0, <1>1, SteadyWorker
<1>4. CleanerSound'
  <2>1. CASE cleaner' = cleaner
    BY <1>0, <1>1, <2>1, SteadyCleaner
  <2> QED
    BY <2>1
<1>5. acked \subseteq Uploads
  BY <1>0 DEF Types
<1>6. \A u \in acked' : KeptOf(u)
  <2> TAKE u \in acked'
  <2>1. u \in acked /\ UploadSound(u)
    BY <1>0, <1>5
  <2> QED
    BY <2>1, KeptSame
<1>7. \A u \in Uploads : LeaseOf(u)
  BY DEF LeaseOf
<1>8. loadFailed' => reserved' = {}
  OBVIOUS
<1> QED
  BY <1>2, <1>3, <1>4, <1>6, <1>7, <1>8, SoundParts

\* A write of one item.
LEMMA WriteStep ==
    ASSUME StageInv, Types', ~loadFailed, loadFailed' = loadFailed,
           NEW u \in Uploads, NEW item \in Items, Stored(u, item),
           issued' = issued, served' = served, aged' = aged, cleaner' = cleaner,
           files \subseteq files', expired \ {u} \subseteq expired', acked' \subseteq acked \cup {u},
           reserved' \subseteq reserved, UploadSound(u)', u \in acked' => KeptOf(u), LeaseOf(u),
           u \notin reserved => 
               /\ manifest[u] # NoItem
               /\ items[u].status \in {"consumed", "none"} => item.status \in {"consumed", "none"},
           \A w \in Workers : work'[w] = work[w] \/ WorkerSound(w)'
    PROVE  Sound
<1>0. /\ Types /\ CleanerSound
      /\ \A v \in Uploads : UploadSound(v)
      /\ \A w \in Workers : WorkerSound(w)
  BY TypesAreTypeOK DEF StageInv
<1>a. manifest' = items' /\ items'[u] = item /\ \A v \in Uploads : v # u => items'[v] = items[v]
  BY <1>0, StoredItem
<1>1. \A v \in Uploads : v # u =>
          /\ UploadSound(v)'
          /\ manifest[v] = NoItem => manifest'[v] = NoItem
          /\ items[v].status \in {"consumed", "none"} => items'[v].status \in {"consumed", "none"}
  BY <1>0, StoredOthers
<1>2. Steady
  <2>1. issued \subseteq Uploads
    BY <1>0 DEF Types
  <2>2. ASSUME NEW v \in issued \ reserved
        PROVE  /\ manifest[v] = NoItem => manifest'[v] = NoItem
               /\ items[v].status \in {"consumed", "none"} => items'[v].status \in {"consumed", "none"}
    BY <1>1, <1>a, <2>1
  <2> QED
    BY <2>2 DEF Steady
<1>3. \A w \in Workers : WorkerSound(w)'
  BY <1>0, <1>2, SteadyWorker
<1>4. CleanerSound'
  BY <1>0, <1>2, SteadyCleaner
<1>5. acked' \subseteq Uploads
  BY DEF Types
<1>6. \A v \in acked' : KeptOf(v)
  <2> TAKE v \in acked'
  <2>1. CASE v # u
    BY <2>1, <1>0, <1>5, <1>a, KeptSame
  <2> QED
    BY <2>1
<1>7. \A v \in Uploads : LeaseOf(v)
  BY <1>a DEF LeaseOf
<1>8. \A v \in Uploads : UploadSound(v)'
  BY <1>1
<1> QED
  BY <1>3, <1>4, <1>6, <1>7, <1>8, SoundParts
-----------------------------------------------------------------------------
(* Staging *)

LEMMA FromInv ==
    ASSUME StageInv
    PROVE  /\ Types /\ CleanerSound
           /\ \A u \in Uploads : UploadSound(u)
           /\ \A w \in Workers : WorkerSound(w)
           /\ loadFailed => reserved = {}
BY TypesAreTypeOK DEF StageInv

LEMMA ReserveSound ==
    ASSUME StagingConstants, StageInv, NEW u \in Uploads, StageReserve(u)
    PROVE  Sound
<1>1. Types
  BY FromInv
<1>2. /\ ~loadFailed /\ u \notin issued
      /\ issued' = issued \cup {u} /\ reserved' = reserved \cup {u} /\ temps' = temps \cup {u}
      /\ setup' = setup /\ items' = items /\ manifest' = manifest /\ files' = files
      /\ live' = live /\ expired' = expired /\ aged' = aged
      /\ work' = work /\ cleaner' = cleaner /\ loadFailed' = loadFailed /\ indexed' = indexed
      /\ acked' = acked /\ served' = served /\ faults' = faults
  BY DEF StageReserve, clock, observers
<1>3. Types'
  BY <1>1, <1>2 DEF Types
<1>4. \A v \in reserved' : ~loadFailed /\ manifest[v] = NoItem /\ v \notin acked \cup aged'
  <2> TAKE v \in reserved'
  <2>1. v \in Uploads /\ UploadSound(v)
    BY <1>3, FromInv DEF Types
  <2>2. CASE v = u
    <3>1. manifest[u] = NoItem
      BY <1>2, <2>1, <2>2 DEF UploadSound
    <3>2. u \notin acked /\ u \notin aged
      BY <1>1, <1>2 DEF Types
    <3> QED
      BY <1>2, <2>2, <3>1, <3>2
  <2>3. CASE v \in reserved
    BY <1>2, <2>1, <2>3 DEF UploadSound
  <2> QED
    BY <1>2, <2>2, <2>3
<1>5. reserved' \cap issued \subseteq reserved
  BY <1>2
<1> QED
  BY <1>2, <1>3, <1>4, <1>5, QuietStep

\* What is reserved is not stored yet, and the manifest can be read.
LEMMA ReservedFresh ==
    ASSUME StageInv, NEW u \in reserved
    PROVE  ~loadFailed /\ manifest[u] = NoItem /\ u \notin acked \cup aged /\ u \in issued /\ u \in Uploads
<1>1. u \in Uploads /\ u \in issued
  BY FromInv DEF Types
<1>2. UploadSound(u) /\ ~loadFailed
  BY <1>1, FromInv
<1> QED
  BY <1>1, <1>2 DEF UploadSound

LEMMA FailsSound ==
    ASSUME StagingConstants, StageInv, NEW u \in Uploads, StageFails(u)
    PROVE  Sound
<1>1. Types
  BY FromInv
<1>2. /\ reserved' = reserved \ {u} /\ temps' = temps \ {u} /\ issued' = issued
      /\ setup' = setup /\ items' = items /\ manifest' = manifest /\ files' = files
      /\ live' = live /\ expired' = expired /\ aged' = aged
      /\ work' = work /\ cleaner' = cleaner /\ loadFailed' = loadFailed /\ indexed' = indexed
      /\ acked' = acked /\ served' = served /\ faults' = faults
  BY DEF StageFails, clock, observers
<1>3. Types'
  BY <1>1, <1>2 DEF Types
<1>4. \A v \in reserved' : ~loadFailed /\ manifest[v] = NoItem /\ v \notin acked \cup aged'
  BY <1>2, ReservedFresh
<1>5. reserved' \cap issued \subseteq reserved
  BY <1>2
<1> QED
  BY <1>2, <1>3, <1>4, <1>5, QuietStep

LEMMA CommitSound ==
    ASSUME StagingConstants, StageInv, NEW u \in Uploads, StageCommit(u)
    PROVE  Sound
<1>1. Types
  BY FromInv
<1>2. /\ u \in reserved /\ reserved' = reserved \ {u} /\ temps' = temps \ {u} /\ issued' = issued
      /\ setup' = setup /\ live' = live /\ expired' = expired /\ aged' = aged
      /\ work' = work /\ cleaner' = cleaner /\ loadFailed' = loadFailed /\ indexed' = indexed
      /\ served' = served
      /\ \/ Stored(u, Staged(0)) /\ files' = files \cup {u} /\ acked' = acked \cup {u}
         \/ Refused /\ files' = files /\ acked' = acked
  BY DEF StageCommit, clock
<1>3. ~loadFailed /\ manifest[u] = NoItem /\ u \in issued
  BY <1>2, ReservedFresh
<1>4. CASE Refused /\ files' = files /\ acked' = acked
  <2>1. Fault /\ items' = items /\ manifest' = manifest
    BY <1>4 DEF Refused
  <2>2. faults' \in 0..setup'.faults
    BY <1>1, <1>2, <2>1, FaultType
  <2>3. Types'
    BY <1>1, <1>2, <1>4, <2>1, <2>2 DEF Types
  <2>4. \A v \in reserved' : ~loadFailed /\ manifest[v] = NoItem /\ v \notin acked \cup aged'
    BY <1>2, ReservedFresh
  <2>5. reserved' \cap issued \subseteq reserved
    BY <1>2
  <2> QED
    BY <1>2, <1>4, <2>1, <2>3, <2>4, <2>5, QuietStep
<1>5. CASE Stored(u, Staged(0)) /\ files' = files \cup {u} /\ acked' = acked \cup {u}
  <2>1. Staged(0) \in Items /\ Staged(0).status \in Waiting /\ Staged(0).status = "staged"
    BY ItemTypes, ItemFields DEF StagingConstants
  <2>2. /\ items' \in [Uploads -> Items] /\ manifest' = items' /\ faults' = faults
        /\ items'[u] = Staged(0)
    BY <1>1, <1>5, <2>1, StoredItem
  <2>3. Types'
    BY <1>1, <1>2, <1>3, <1>5, <2>2 DEF Types
  <2>4. UploadSound(u)'
    BY <1>2, <1>3, <1>5, <2>1, <2>2 DEF UploadSound
  <2>5. KeptOf(u)
    BY <2>1, <2>2 DEF KeptOf
  <2>6. LeaseOf(u)
    <3>1. UploadSound(u)
      BY FromInv
    <3>2. items[u].status # "processing"
      BY <1>3, <3>1, ItemFields DEF UploadSound, Freed
    <3> QED
      BY <3>2 DEF LeaseOf, LeaseActive
  <2> QED
    BY <1>2, <1>3, <1>5, <2>1, <2>3, <2>4, <2>5, <2>6, WriteStep
<1> QED
  BY <1>2, <1>4, <1>5
-----------------------------------------------------------------------------
(* Workers *)

\* A step of one worker that leaves the items alone.
LEMMA QuietWorker ==
    ASSUME StageInv, Types', NEW w \in Workers, items' = items, manifest' = manifest,
           reserved' = reserved, issued' = issued, live' = live, expired' = expired, aged' = aged,
           cleaner' = cleaner, loadFailed' = loadFailed, acked' = acked,
           served \subseteq served', \A u \in files \ files' : manifest[u].status \notin Waiting,
           \A x \in Workers : x # w => work'[x] = work[x],
           work'[w] = work[w] \/ WorkerSound(w)'
    PROVE  Sound
<1>1. \A v \in reserved' : ~loadFailed /\ manifest[v] = NoItem /\ v \notin acked \cup aged'
  BY ReservedFresh
<1>2. \A x \in Workers : work'[x] = work[x] \/ WorkerSound(x)'
  OBVIOUS
<1> QED
  BY <1>1, <1>2, QuietStep

\* What a worker that is not idle is about.
LEMMA AtWork ==
    ASSUME StageInv, NEW w \in Workers, work[w].at # "idle"
    PROVE  /\ work[w].upload \in Uploads /\ work[w].upload \in issued
           /\ work[w].upload \notin reserved /\ ~loadFailed
           /\ UploadSound(work[w].upload)
           /\ work[w].attempt \in 0..MaxAttempt /\ work[w] \in WorkSet
           /\ work[w].at \in {"recheck", "consume", "delete"} => work[w].upload \in served
           /\ work[w].at = "delete" => items[work[w].upload].status \in {"consumed", "none"}
           /\ work[w].at = "remove" => manifest[work[w].upload] = NoItem
<1>1. work[w] \in WorkSet
  BY FromInv DEF Types
<1>2. work[w].upload \in Uploads /\ work[w].attempt \in 0..MaxAttempt
  BY <1>1 DEF WorkSet
<1>3. UploadSound(work[w].upload) /\ WorkerSound(w)
  BY <1>2, FromInv
<1> QED
  BY <1>1, <1>2, <1>3 DEF WorkerSound

LEMMA CheckSound ==
    ASSUME StagingConstants, StageInv, NEW w \in Workers, Check(w)
    PROVE  Sound
<1> DEFINE u == work[w].upload
<1>1. Types /\ work[w].at = "claimed"
  BY FromInv DEF Check
<1>2. u \in Uploads /\ u \in issued /\ u \notin reserved /\ ~loadFailed
  BY <1>1, AtWork
<1>3. /\ reserved' = reserved /\ temps' = temps /\ issued' = issued /\ files' = files
      /\ setup' = setup /\ live' = live /\ expired' = expired /\ aged' = aged
      /\ items' = items /\ manifest' = manifest
      /\ cleaner' = cleaner /\ loadFailed' = loadFailed /\ indexed' = indexed
      /\ acked' = acked /\ faults' = faults
  BY DEF Check, clock
<1>4. PICK step \in {"release", "consume", "copy"} :
          Goto(w, step) /\ (served' = served \/ served' = served \cup {u})
                        /\ (step = "consume" => u \in served')
  BY DEF Check
<1>5. /\ work' \in [Workers -> WorkSet] /\ \A x \in Workers : x # w => work'[x] = work[x]
      /\ work'[w].at = step /\ work'[w].upload = u
  BY <1>1, <1>4, GotoWork DEF WorkAts, Tracked
<1>6. Types'
  BY <1>1, <1>2, <1>3, <1>4, <1>5 DEF Types
<1>7. WorkerSound(w)'
  BY <1>2, <1>3, <1>4, <1>5 DEF WorkerSound
<1> QED
  BY <1>3, <1>4, <1>5, <1>6, <1>7, QuietWorker

LEMMA CopySound ==
    ASSUME StagingConstants, StageInv, NEW w \in Workers, Copy(w)
    PROVE  Sound
<1> DEFINE u == work[w].upload
<1>1. Types /\ work[w].at = "copy"
  BY FromInv DEF Copy
<1>2. u \in Uploads /\ u \in issued /\ u \notin reserved /\ ~loadFailed
  BY <1>1, AtWork
<1>3. /\ reserved' = reserved /\ temps' = temps /\ issued' = issued /\ files' = files
      /\ setup' = setup /\ live' = live /\ expired' = expired /\ aged' = aged
      /\ items' = items /\ manifest' = manifest
      /\ cleaner' = cleaner /\ loadFailed' = loadFailed /\ indexed' = indexed
      /\ acked' = acked /\ served' = served
  BY DEF Copy, clock, observers
<1>4. PICK step \in {"release", "index"} : Goto(w, step) /\ (Fault \/ UNCHANGED faults)
  BY DEF Copy
<1>5. /\ work' \in [Workers -> WorkSet] /\ \A x \in Workers : x # w => work'[x] = work[x]
      /\ work'[w].at = step /\ work'[w].upload = u
  BY <1>1, <1>4, GotoWork DEF WorkAts, Tracked
<1>6. faults' \in 0..setup'.faults
  BY <1>1, <1>3, <1>4, FaultType
<1>7. Types'
  BY <1>1, <1>3, <1>5, <1>6 DEF Types
<1>8. WorkerSound(w)'
  BY <1>2, <1>3, <1>4, <1>5 DEF WorkerSound
<1> QED
  BY <1>3, <1>5, <1>7, <1>8, QuietWorker

LEMMA IndexSound ==
    ASSUME StagingConstants, StageInv, NEW w \in Workers, Index(w)
    PROVE  Sound
<1> DEFINE u == work[w].upload
<1>1. Types /\ work[w].at = "index"
  BY FromInv DEF Index
<1>2. u \in Uploads /\ u \in issued /\ u \notin reserved /\ ~loadFailed
  BY <1>1, AtWork
<1>3. /\ reserved' = reserved /\ temps' = temps /\ issued' = issued /\ files' = files
      /\ setup' = setup /\ live' = live /\ expired' = expired /\ aged' = aged
      /\ items' = items /\ manifest' = manifest
      /\ cleaner' = cleaner /\ loadFailed' = loadFailed /\ acked' = acked
  BY DEF Index, clock
<1>4. PICK step \in {"release", "consume", "recheck"} :
          /\ Goto(w, step) /\ (Fault \/ UNCHANGED faults)
          /\ served' = served \/ served' = served \cup {u}
          /\ step # "release" => u \in served'
          /\ indexed' = indexed \/ indexed' = indexed \cup {Content[u]}
  BY DEF Index
<1>5. /\ work' \in [Workers -> WorkSet] /\ \A x \in Workers : x # w => work'[x] = work[x]
      /\ work'[w].at = step /\ work'[w].upload = u
  BY <1>1, <1>4, GotoWork DEF WorkAts, Tracked
<1>6. faults' \in 0..setup'.faults
  BY <1>1, <1>3, <1>4, FaultType
<1>7. Types'
  BY <1>1, <1>2, <1>3, <1>4, <1>5, <1>6 DEF Types
<1>8. WorkerSound(w)'
  BY <1>2, <1>3, <1>4, <1>5 DEF WorkerSound
<1> QED
  BY <1>3, <1>4, <1>5, <1>7, <1>8, QuietWorker

LEMMA RecheckSound ==
    ASSUME StagingConstants, StageInv, NEW w \in Workers, Recheck(w)
    PROVE  Sound
<1> DEFINE u == work[w].upload
<1>1. Types /\ work[w].at = "recheck"
  BY FromInv DEF Recheck
<1>2. u \in Uploads /\ u \in issued /\ u \notin reserved /\ ~loadFailed /\ u \in served
  BY <1>1, AtWork
<1>3. /\ reserved' = reserved /\ temps' = temps /\ issued' = issued /\ files' = files
      /\ setup' = setup /\ live' = live /\ expired' = expired /\ aged' = aged
      /\ items' = items /\ manifest' = manifest /\ indexed' = indexed
      /\ cleaner' = cleaner /\ loadFailed' = loadFailed /\ acked' = acked
      /\ served' = served /\ faults' = faults
  BY DEF Recheck, clock, observers
<1>4. Return(w) \/ Goto(w, "consume")
  BY DEF Recheck
<1>5. /\ work' \in [Workers -> WorkSet] /\ \A x \in Workers : x # w => work'[x] = work[x]
      /\ \/ work'[w].at = "idle"
         \/ work'[w].at = "consume" /\ work'[w].upload = u
  BY <1>1, <1>4, GotoWork, ReturnWork DEF WorkAts, Tracked
<1>7. Types'
  BY <1>1, <1>3, <1>5 DEF Types
<1>8. WorkerSound(w)'
  BY <1>2, <1>3, <1>5 DEF WorkerSound
<1> QED
  BY <1>3, <1>5, <1>7, <1>8, QuietWorker

LEMMA RemoveFileSound ==
    ASSUME StagingConstants, StageInv, NEW w \in Workers, RemoveFile(w)
    PROVE  Sound
<1> DEFINE u == work[w].upload
<1>1. Types /\ work[w].at = "remove"
  BY FromInv DEF RemoveFile
<1>2. u \in Uploads /\ manifest[u] = NoItem
  BY <1>1, AtWork
<1>3. /\ reserved' = reserved /\ temps' = temps /\ issued' = issued
      /\ setup' = setup /\ live' = live /\ expired' = expired /\ aged' = aged
      /\ items' = items /\ manifest' = manifest /\ indexed' = indexed
      /\ cleaner' = cleaner /\ loadFailed' = loadFailed /\ acked' = acked
      /\ served' = served /\ (Fault \/ UNCHANGED faults)
      /\ files' = files \ {u} \/ files' = files
  BY DEF RemoveFile, clock, observers
<1>5. /\ work' \in [Workers -> WorkSet] /\ \A x \in Workers : x # w => work'[x] = work[x]
      /\ work'[w].at = "idle"
  BY <1>1, ReturnWork DEF RemoveFile
<1>6. faults' \in 0..setup'.faults
  BY <1>1, <1>3, FaultType
<1>7. Types'
  BY <1>1, <1>3, <1>5, <1>6 DEF Types
<1>8. WorkerSound(w)'
  BY <1>5 DEF WorkerSound
<1>9. \A v \in files \ files' : manifest[v].status \notin Waiting
  BY <1>2, <1>3, ItemFields
<1> QED
  BY <1>3, <1>5, <1>7, <1>8, <1>9, QuietWorker

\* The fence of a worker.
LEMMA FenceWork ==
    ASSUME Types, NEW w \in Workers, work' = [work EXCEPT ![w].fenced = TRUE]
    PROVE  /\ work' \in [Workers -> WorkSet] /\ \A x \in Workers : x # w => work'[x] = work[x]
           /\ work'[w].at = work[w].at /\ work'[w].upload = work[w].upload
<1>1. work \in [Workers -> WorkSet] /\ work' = [work EXCEPT ![w] = [@ EXCEPT !.fenced = TRUE]]
  BY DEF Types
<1>2. [work[w] EXCEPT !.fenced = TRUE] \in WorkSet
  BY <1>1 DEF WorkSet
<1> QED
  BY <1>1, <1>2 DEF WorkSet

LEMMA FenceSound ==
    ASSUME StagingConstants, StageInv, NEW w \in Workers, Fence(w)
    PROVE  Sound
<1>1. Types /\ work[w].at # "idle"
  BY FromInv DEF Fence, Tracked
<1>3. /\ reserved' = reserved /\ temps' = temps /\ issued' = issued /\ files' = files
      /\ setup' = setup /\ live' = live /\ expired' = expired /\ aged' = aged
      /\ items' = items /\ manifest' = manifest /\ indexed' = indexed
      /\ cleaner' = cleaner /\ loadFailed' = loadFailed /\ acked' = acked
      /\ served' = served /\ Fault
      /\ work' = [work EXCEPT ![w].fenced = TRUE]
  BY DEF Fence, clock, observers
<1>5. /\ work' \in [Workers -> WorkSet] /\ \A x \in Workers : x # w => work'[x] = work[x]
      /\ work'[w].at = work[w].at /\ work'[w].upload = work[w].upload
  BY <1>1, <1>3, FenceWork
<1>6. faults' \in 0..setup'.faults
  BY <1>1, <1>3, FaultType
<1>7. Types'
  BY <1>1, <1>3, <1>5, <1>6 DEF Types
<1>8. WorkerSound(w)'
  <2>1. WorkerSound(w)
    BY FromInv
  <2> QED
    BY <1>3, <1>5, <2>1 DEF WorkerSound
<1> QED
  BY <1>3, <1>5, <1>7, <1>8, QuietWorker
-----------------------------------------------------------------------------
(* The steps that write an item *)

\* A refused write: one worker changes at most.
LEMMA RefusedSound ==
    ASSUME StagingConstants, StageInv, NEW w \in Workers, Refused, setup' = setup,
           files' = files, temps' = temps, reserved' = reserved, issued' = issued,
           live' = live, expired' = expired, aged' = aged, cleaner' = cleaner,
           loadFailed' = loadFailed, indexed' = indexed, acked' = acked, served' = served,
           work' \in [Workers -> WorkSet], \A x \in Workers : x # w => work'[x] = work[x],
           work'[w] = work[w] \/ WorkerSound(w)'
    PROVE  Sound
<1>1. Types /\ Fault /\ items' = items /\ manifest' = manifest
  BY FromInv DEF Refused
<1>2. faults' \in 0..setup'.faults
  BY <1>1, FaultType
<1>3. Types'
  BY <1>1, <1>2 DEF Types
<1> QED
  BY <1>1, <1>3, QuietWorker

\* An item that is in use is in the manifest, and has a file while it waits.
LEMMA InUse ==
    ASSUME StageInv, NEW u \in Uploads, items[u] # NoItem
    PROVE  /\ ~loadFailed /\ manifest[u] # NoItem /\ u \in issued /\ u \notin reserved
           /\ items[u].status \in Waiting => manifest[u].status \in Waiting /\ u \in files
           /\ u \in acked => items[u].status \in Waiting \/ u \in served \cup expired
           /\ items[u].status # "staged" => items[u] = manifest[u]
<1>1. UploadSound(u)
  BY FromInv
<1>2. Freed(u) => /\ items[u].status \in Waiting /\ items[u].status = "staged"
                  /\ manifest[u].status \in Waiting /\ manifest[u] # NoItem
  BY ItemFields DEF Freed, Waiting
<1> QED
  BY <1>1, <1>2, ItemFields DEF UploadSound

LEMMA WithdrawSound ==
    ASSUME StagingConstants, StageInv, NEW w \in Workers, NEW u \in Uploads, Withdraw(w, u)
    PROVE  Sound
<1>1. Types /\ work[w].at = "idle" /\ items[u] = Staged(0)
  BY FromInv DEF Withdraw
<1>2. /\ setup' = setup /\ files' = files /\ temps' = temps /\ reserved' = reserved
      /\ live' = live /\ expired' = expired /\ aged' = aged /\ cleaner' = cleaner
      /\ loadFailed' = loadFailed /\ indexed' = indexed /\ issued' = issued /\ served' = served
      /\ \/ /\ Stored(u, NoItem) /\ acked' = acked \ {u}
            /\ work' = [work EXCEPT ![w].at = "remove", ![w].upload = u]
         \/ Refused /\ acked' = acked /\ work' = work
  BY DEF Withdraw, clock
<1>3. ~loadFailed /\ manifest[u] # NoItem /\ u \in issued /\ u \notin reserved
  BY <1>1, ItemFields, InUse
<1>4. CASE Refused /\ acked' = acked /\ work' = work
  <2>1. work' \in [Workers -> WorkSet]
    BY <1>1, <1>4 DEF Types
  <2> QED
    BY <1>2, <1>4, <2>1, RefusedSound
<1>5. CASE Stored(u, NoItem) /\ acked' = acked \ {u}
           /\ work' = [work EXCEPT ![w].at = "remove", ![w].upload = u]
  <2>1. NoItem \in Items
    BY RestTypes
  <2>2. /\ items' \in [Uploads -> Items] /\ manifest' = items' /\ faults' = faults
        /\ items'[u] = NoItem
    BY <1>1, <1>5, <2>1, StoredItem
  <2>3. /\ work' \in [Workers -> WorkSet] /\ \A x \in Workers : x # w => work'[x] = work[x]
        /\ work'[w].at = "remove" /\ work'[w].upload = u
    <3> DEFINE new == [work[w] EXCEPT !.at = "remove", !.upload = u]
    <3>1. work \in [Workers -> WorkSet] /\ work' = [work EXCEPT ![w] = new]
      BY <1>1, <1>5 DEF Types
    <3>2. new \in WorkSet /\ new.at = "remove" /\ new.upload = u
      BY <3>1 DEF WorkSet, WorkAts
    <3> HIDE DEF new
    <3> QED
      BY <3>1, <3>2
  <2>4. Types'
    BY <1>1, <1>2, <1>5, <2>2, <2>3 DEF Types
  <2>5. UploadSound(u)'
    BY <1>2, <1>3, <1>5, <2>2, ItemFields DEF UploadSound
  <2>6. LeaseOf(u)
    BY <1>1, ItemFields DEF LeaseOf, LeaseActive
  <2>7. WorkerSound(w)'
    BY <1>2, <1>3, <2>2, <2>3 DEF WorkerSound
  <2>8. u \notin acked'
    BY <1>5
  <2>9. /\ files \subseteq files' /\ expired \ {u} \subseteq expired' /\ acked' \subseteq acked \cup {u}
        /\ reserved' \subseteq reserved /\ \A x \in Workers : work'[x] = work[x] \/ WorkerSound(x)'
        /\ NoItem.status \in {"consumed", "none"}
    BY <1>2, <1>5, <2>3, <2>7, ItemFields
  <2> QED
    BY <1>2, <1>3, <1>5, <2>1, <2>4, <2>5, <2>6, <2>8, <2>9, WriteStep
<1> QED
  BY <1>2, <1>4, <1>5

LEMMA ClaimSound ==
    ASSUME StagingConstants, StageInv, NEW w \in Workers, NEW u \in Uploads, Claim(w, u)
    PROVE  Sound
<1> DEFINE next == items[u].attempt + 1
           new  == [at |-> "claimed", upload |-> u, attempt |-> next, fenced |-> FALSE]
<1>1. /\ Types /\ work[w].at = "idle" /\ ~loadFailed
      /\ items[u].status \in Waiting /\ ~LeaseActive(u) /\ u \notin expired /\ next <= MaxAttempt
  BY FromInv DEF Claim
<1>2. /\ setup' = setup /\ files' = files /\ temps' = temps /\ reserved' = reserved
      /\ expired' = expired /\ aged' = aged /\ cleaner' = cleaner
      /\ loadFailed' = loadFailed /\ indexed' = indexed /\ issued' = issued
      /\ acked' = acked /\ served' = served
      /\ \/ /\ Stored(u, Processing(next)) /\ live' = live \cup {u}
            /\ work' = [work EXCEPT ![w] = new]
         \/ Refused /\ live' = live /\ work' = work
  BY DEF Claim, observers
<1>3. manifest[u] # NoItem /\ u \in issued /\ u \notin reserved /\ u \in files
  BY <1>1, ItemFields, InUse
<1>4. CASE Refused /\ live' = live /\ work' = work
  <2>1. work' \in [Workers -> WorkSet]
    BY <1>1, <1>4 DEF Types
  <2> QED
    BY <1>2, <1>4, <2>1, RefusedSound
<1>5. CASE Stored(u, Processing(next)) /\ live' = live \cup {u} /\ work' = [work EXCEPT ![w] = new]
  <2>0. next \in 0..MaxAttempt
    <3>1. items[u] \in Items /\ MaxAttempt \in Nat
      BY <1>1 DEF Types, StagingConstants
    <3> QED
      BY <1>1, <3>1, ItemOf
  <2>1. Processing(next) \in Items /\ Processing(next).status \in Waiting /\ Processing(next) # NoItem
    BY <2>0, ItemTypes, ItemFields
  <2>2. /\ items' \in [Uploads -> Items] /\ manifest' = items' /\ faults' = faults
        /\ items'[u] = Processing(next)
    BY <1>1, <1>5, <2>1, StoredItem
  <2>3. /\ work' \in [Workers -> WorkSet] /\ \A x \in Workers : x # w => work'[x] = work[x]
        /\ work'[w].at = "claimed" /\ work'[w].upload = u
    <3>1. work \in [Workers -> WorkSet] /\ work' = [work EXCEPT ![w] = new]
      BY <1>1, <1>5 DEF Types
    <3>2. new \in WorkSet /\ new.at = "claimed" /\ new.upload = u
      BY <2>0 DEF WorkSet, WorkAts, Tracked
    <3> HIDE DEF new
    <3> QED
      BY <3>1, <3>2
  <2>4. Types'
    <3>1. live' \subseteq issued'
      BY <1>1, <1>2, <1>3, <1>5 DEF Types
    <3> QED
      BY <1>1, <1>2, <2>2, <2>3, <3>1 DEF Types
  <2> HIDE DEF next, new
  <2>5. UploadSound(u)'
    BY <1>1, <1>2, <1>3, <2>1, <2>2 DEF UploadSound
  <2>6. LeaseOf(u)
    BY <1>1 DEF LeaseOf
  <2>7. WorkerSound(w)'
    BY <1>1, <1>2, <1>3, <2>3 DEF WorkerSound
  <2>8. KeptOf(u)
    BY <2>1, <2>2 DEF KeptOf
  <2>9. /\ files \subseteq files' /\ expired \ {u} \subseteq expired' /\ acked' \subseteq acked \cup {u}
        /\ reserved' \subseteq reserved /\ \A x \in Workers : work'[x] = work[x] \/ WorkerSound(x)'
        /\ items[u].status \notin {"consumed", "none"}
    BY <1>1, <1>2, <2>3, <2>7 DEF Waiting
  <2> QED
    BY <1>1, <1>2, <1>3, <1>5, <2>1, <2>4, <2>5, <2>6, <2>8, <2>9, WriteStep
<1> QED
  BY <1>2, <1>4, <1>5

LEMMA ConsumeSound ==
    ASSUME StagingConstants, StageInv, NEW w \in Workers, Consume(w), NEW u, u = work[w].upload
    PROVE  Sound
<1> DEFINE item == Consumed(items[u].attempt)
<1>1. Types /\ work[w].at = "consume"
  BY FromInv DEF Consume
<1>2. /\ u \in Uploads /\ u \in issued /\ u \notin reserved /\ ~loadFailed /\ u \in served
  BY <1>1, AtWork
<1>3. /\ setup' = setup /\ files' = files /\ temps' = temps /\ reserved' = reserved
      /\ expired' = expired /\ aged' = aged /\ cleaner' = cleaner
      /\ loadFailed' = loadFailed /\ indexed' = indexed /\ issued' = issued
      /\ acked' = acked /\ served' = served
      /\ \/ Holds(w) /\ Stored(u, item) /\ live' = live \ {u} /\ Goto(w, "delete")
         \/ Refused /\ live' = live /\ Return(w)
         \/ Return(w) /\ items' = items /\ manifest' = manifest /\ live' = live /\ faults' = faults
  BY DEF Consume, observers
<1>4. ASSUME Return(w)
      PROVE  /\ work' \in [Workers -> WorkSet] /\ \A x \in Workers : x # w => work'[x] = work[x]
             /\ WorkerSound(w)'
  BY <1>1, <1>4, ReturnWork DEF WorkerSound
<1>5. CASE Refused /\ live' = live /\ Return(w)
  BY <1>3, <1>4, <1>5, RefusedSound
<1>6. CASE Return(w) /\ items' = items /\ manifest' = manifest /\ live' = live /\ faults' = faults
  <2>1. Types'
    BY <1>1, <1>3, <1>4, <1>6 DEF Types
  <2>2. served \subseteq served' /\ \A v \in files \ files' : manifest[v].status \notin Waiting
    BY <1>3
  <2> QED
    BY <1>3, <1>4, <1>6, <2>1, <2>2, QuietWorker
<1>7. CASE Holds(w) /\ Stored(u, item) /\ live' = live \ {u} /\ Goto(w, "delete")
  <2>0. items[u].status = "processing" /\ items[u].attempt = work[w].attempt
    BY <1>7 DEF Holds
  <2>1. item \in Items /\ item.status \notin Waiting /\ item.status = "consumed"
    <3>1. items[u] \in Items
      BY <1>1, <1>2 DEF Types
    <3> QED
      BY <3>1, ItemOf, ItemTypes, ItemFields
  <2>2. /\ items' \in [Uploads -> Items] /\ manifest' = items' /\ faults' = faults
        /\ items'[u] = item
    BY <1>1, <1>2, <1>7, <2>1, StoredItem
  <2>3. /\ work' \in [Workers -> WorkSet] /\ \A x \in Workers : x # w => work'[x] = work[x]
        /\ work'[w].at = "delete" /\ work'[w].upload = u
    BY <1>1, <1>7, GotoWork DEF WorkAts
  <2>4. Types'
    BY <1>1, <1>3, <1>7, <2>2, <2>3 DEF Types
  <2>a. manifest[u] # NoItem
    BY <1>2, <2>0, ItemFields, InUse
  <2> HIDE DEF item
  <2>5. UploadSound(u)'
    BY <1>2, <1>3, <2>1, <2>2 DEF UploadSound
  <2>6. LeaseOf(u)
    BY <1>1, <2>0, <2>3 DEF LeaseOf
  <2>7. WorkerSound(w)'
    BY <1>2, <1>3, <2>1, <2>2, <2>3 DEF WorkerSound
  <2>8. KeptOf(u)
    BY <1>2, <1>3 DEF KeptOf
  <2>9. /\ files \subseteq files' /\ expired \ {u} \subseteq expired' /\ acked' \subseteq acked \cup {u}
        /\ reserved' \subseteq reserved /\ \A x \in Workers : work'[x] = work[x] \/ WorkerSound(x)'
        /\ item.status \in {"consumed", "none"}
    BY <1>3, <2>1, <2>3, <2>7
  <2> QED
    BY <1>2, <1>3, <1>7, <2>1, <2>a, <2>4, <2>5, <2>6, <2>8, <2>9, WriteStep
<1> QED
  BY <1>3, <1>5, <1>6, <1>7

LEMMA DeleteSound ==
    ASSUME StagingConstants, StageInv, NEW w \in Workers, Delete(w), NEW u, u = work[w].upload
    PROVE  Sound
<1>1. Types /\ work[w].at = "delete"
  BY FromInv DEF Delete
<1>2. /\ u \in Uploads /\ u \in issued /\ u \notin reserved /\ ~loadFailed /\ u \in served
      /\ items[u].status \in {"consumed", "none"}
  BY <1>1, AtWork
<1>3. /\ setup' = setup /\ files' = files /\ temps' = temps /\ reserved' = reserved
      /\ live' = live /\ expired' = expired /\ aged' = aged /\ cleaner' = cleaner
      /\ loadFailed' = loadFailed /\ indexed' = indexed /\ issued' = issued
      /\ acked' = acked /\ served' = served
      /\ \/ items[u] # NoItem /\ Stored(u, NoItem) /\ Goto(w, "remove")
         \/ Refused /\ Return(w)
         \/ Return(w) /\ items' = items /\ manifest' = manifest /\ faults' = faults
  BY DEF Delete, observers, clock
<1>4. ASSUME Return(w)
      PROVE  /\ work' \in [Workers -> WorkSet] /\ \A x \in Workers : x # w => work'[x] = work[x]
             /\ WorkerSound(w)'
  BY <1>1, <1>4, ReturnWork DEF WorkerSound
<1>5. CASE Refused /\ Return(w)
  BY <1>3, <1>4, <1>5, RefusedSound
<1>6. CASE Return(w) /\ items' = items /\ manifest' = manifest /\ faults' = faults
  <2>1. Types'
    BY <1>1, <1>3, <1>4, <1>6 DEF Types
  <2>2. served \subseteq served' /\ \A v \in files \ files' : manifest[v].status \notin Waiting
    BY <1>3
  <2> QED
    BY <1>3, <1>4, <1>6, <2>1, <2>2, QuietWorker
<1>7. CASE items[u] # NoItem /\ Stored(u, NoItem) /\ Goto(w, "remove")
  <2>1. NoItem \in Items /\ NoItem.status \in {"consumed", "none"} /\ NoItem.status \notin Waiting
    BY RestTypes, ItemFields
  <2>2. /\ items' \in [Uploads -> Items] /\ manifest' = items' /\ faults' = faults
        /\ items'[u] = NoItem
    BY <1>1, <1>2, <1>7, <2>1, StoredItem
  <2>3. /\ work' \in [Workers -> WorkSet] /\ \A x \in Workers : x # w => work'[x] = work[x]
        /\ work'[w].at = "remove" /\ work'[w].upload = u
    BY <1>1, <1>7, GotoWork DEF WorkAts
  <2>4. Types'
    BY <1>1, <1>3, <1>7, <2>2, <2>3 DEF Types
  <2>a. manifest[u] # NoItem
    BY <1>2, <1>7, InUse
  <2>5. UploadSound(u)'
    BY <1>2, <1>3, <2>1, <2>2 DEF UploadSound
  <2>6. LeaseOf(u)
    BY <1>2 DEF LeaseOf, LeaseActive
  <2>7. WorkerSound(w)'
    BY <1>2, <1>3, <2>1, <2>2, <2>3 DEF WorkerSound
  <2>8. KeptOf(u)
    BY <1>2, <1>3 DEF KeptOf
  <2>9. /\ files \subseteq files' /\ expired \ {u} \subseteq expired' /\ acked' \subseteq acked \cup {u}
        /\ reserved' \subseteq reserved /\ \A x \in Workers : work'[x] = work[x] \/ WorkerSound(x)'
    BY <1>3, <2>3, <2>7
  <2> QED
    BY <1>2, <1>3, <1>7, <2>1, <2>a, <2>4, <2>5, <2>6, <2>8, <2>9, WriteStep
<1> QED
  BY <1>3, <1>5, <1>6, <1>7

LEMMA ReleaseSound ==
    ASSUME StagingConstants, StageInv, NEW w \in Workers, Release(w), NEW u, u = work[w].upload
    PROVE  Sound
<1> DEFINE item == Staged(items[u].attempt)
<1>1. Types /\ work[w].at = "release"
  BY FromInv DEF Release
<1>2. /\ u \in Uploads /\ u \in issued /\ u \notin reserved /\ ~loadFailed
  BY <1>1, AtWork
<1>3. /\ setup' = setup /\ files' = files /\ temps' = temps /\ reserved' = reserved
      /\ expired' = expired /\ aged' = aged /\ cleaner' = cleaner
      /\ loadFailed' = loadFailed /\ indexed' = indexed /\ issued' = issued
      /\ acked' = acked /\ served' = served /\ Return(w)
      /\ \/ Holds(w) /\ Stored(u, item) /\ live' = live \ {u}
         \/ Refused /\ live' = live
         \/ items' = items /\ manifest' = manifest /\ live' = live /\ faults' = faults
  BY DEF Release, observers
<1>4. /\ work' \in [Workers -> WorkSet] /\ \A x \in Workers : x # w => work'[x] = work[x]
      /\ WorkerSound(w)' /\ work'[w].at = "idle"
  BY <1>1, <1>3, ReturnWork DEF WorkerSound
<1>5. CASE Refused /\ live' = live
  BY <1>3, <1>4, <1>5, RefusedSound
<1>6. CASE items' = items /\ manifest' = manifest /\ live' = live /\ faults' = faults
  <2>1. Types'
    BY <1>1, <1>3, <1>4, <1>6 DEF Types
  <2>2. served \subseteq served' /\ \A v \in files \ files' : manifest[v].status \notin Waiting
    BY <1>3
  <2> QED
    BY <1>3, <1>4, <1>6, <2>1, <2>2, QuietWorker
<1>7. CASE Holds(w) /\ Stored(u, item) /\ live' = live \ {u}
  <2>0. /\ items[u].status = "processing" /\ items[u].attempt = work[w].attempt
        /\ items[u].status \in Waiting
    BY <1>7 DEF Holds, Waiting
  <2>1. item \in Items /\ item.status \in Waiting /\ item # NoItem
    <3>1. items[u] \in Items
      BY <1>1, <1>2 DEF Types
    <3> QED
      BY <3>1, ItemOf, ItemTypes, ItemFields
  <2>2. /\ items' \in [Uploads -> Items] /\ manifest' = items' /\ faults' = faults
        /\ items'[u] = item
    BY <1>1, <1>2, <1>7, <2>1, StoredItem
  <2>4. Types'
    BY <1>1, <1>3, <1>4, <1>7, <2>2 DEF Types
  <2>a. manifest[u] # NoItem /\ u \in files
    BY <1>2, <2>0, ItemFields, InUse
  <2> HIDE DEF item
  <2>5. UploadSound(u)'
    BY <1>2, <1>3, <2>a, <2>1, <2>2 DEF UploadSound
  <2>6. LeaseOf(u)
    BY <1>1, <1>4, <2>0 DEF LeaseOf
  <2>8. KeptOf(u)
    BY <2>1, <2>2 DEF KeptOf
  <2>9. /\ files \subseteq files' /\ expired \ {u} \subseteq expired' /\ acked' \subseteq acked \cup {u}
        /\ reserved' \subseteq reserved /\ \A x \in Workers : work'[x] = work[x] \/ WorkerSound(x)'
        /\ items[u].status \notin {"consumed", "none"}
    BY <1>3, <1>4, <2>0
  <2> QED
    BY <1>2, <1>3, <1>7, <2>1, <2>a, <2>4, <2>5, <2>6, <2>8, <2>9, WriteStep
<1> QED
  BY <1>3, <1>5, <1>6, <1>7

LEMMA RenewSound ==
    ASSUME StagingConstants, StageInv, NEW w \in Workers, Renew(w), NEW u, u = work[w].upload
    PROVE  Sound
<1>1. Types /\ work[w].at # "idle" /\ items[u].status = "processing" /\ items[u].status \in Waiting
  BY FromInv DEF Renew, Tracked, Holds, Waiting
<1>2. /\ u \in Uploads /\ u \in issued /\ u \notin reserved /\ ~loadFailed
  BY <1>1, AtWork
<1>3. /\ setup' = setup /\ files' = files /\ temps' = temps /\ reserved' = reserved
      /\ live' = live /\ aged' = aged /\ cleaner' = cleaner
      /\ loadFailed' = loadFailed /\ indexed' = indexed /\ issued' = issued
      /\ acked' = acked /\ served' = served
      /\ \/ Stored(u, items[u]) /\ expired' = expired \ {u} /\ work' = work
         \/ Refused /\ work' = [work EXCEPT ![w].fenced = TRUE] /\ expired' = expired
  BY DEF Renew, observers
<1>5. CASE Refused /\ work' = [work EXCEPT ![w].fenced = TRUE] /\ expired' = expired
  <2>1. /\ work' \in [Workers -> WorkSet] /\ \A x \in Workers : x # w => work'[x] = work[x]
        /\ work'[w].at = work[w].at /\ work'[w].upload = work[w].upload
    BY <1>1, <1>5, FenceWork
  <2>2. WorkerSound(w) /\ items' = items /\ manifest' = manifest
    BY <1>5, FromInv DEF Refused
  <2>3. WorkerSound(w)'
    BY <1>3, <2>1, <2>2 DEF WorkerSound
  <2> QED
    BY <1>3, <1>5, <2>1, <2>3, RefusedSound
<1>7. CASE Stored(u, items[u]) /\ expired' = expired \ {u} /\ work' = work
  <2>1. items[u] \in Items /\ items[u] # NoItem
    BY <1>1, <1>2, ItemFields DEF Types
  <2>2. /\ items' \in [Uploads -> Items] /\ manifest' = items' /\ faults' = faults
        /\ items'[u] = items[u]
    BY <1>1, <1>2, <1>7, <2>1, StoredItem
  <2>4. Types'
    BY <1>1, <1>3, <1>7, <2>2 DEF Types
  <2>a. manifest[u] # NoItem /\ u \in files
    BY <1>1, <1>2, <2>1, InUse
  <2>5. UploadSound(u)'
    BY <1>1, <1>2, <1>3, <2>a, <2>1, <2>2 DEF UploadSound
  <2>6. LeaseOf(u)
    BY <2>2 DEF LeaseOf
  <2>8. KeptOf(u)
    BY <1>1, <2>2 DEF KeptOf
  <2>9. /\ files \subseteq files' /\ expired \ {u} \subseteq expired' /\ acked' \subseteq acked \cup {u}
        /\ reserved' \subseteq reserved /\ \A x \in Workers : work'[x] = work[x] \/ WorkerSound(x)'
        /\ items[u].status \notin {"consumed", "none"}
    BY <1>1, <1>3, <1>7
  <2> QED
    BY <1>2, <1>3, <1>7, <2>1, <2>a, <2>4, <2>5, <2>6, <2>8, <2>9, WriteStep
<1> QED
  BY <1>3, <1>5, <1>7
-----------------------------------------------------------------------------
(* The cleaner *)

\* What its first step makes of an item.
FreedItem(u) == IF u \in Abandoned THEN Staged(items[u].attempt) ELSE items[u]
KeptItem(u)  == IF u \in Overdue THEN NoItem ELSE FreedItem(u)

LEMMA CleanItems ==
    ASSUME StageInv, NEW u \in Uploads, ~loadFailed
    PROVE  /\ FreedItem(u) \in Items /\ (NoItem \in Items => KeptItem(u) \in Items)
           /\ u \in Abandoned => /\ items[u] = manifest[u] /\ u \notin live
                                 /\ items[u] = Processing(items[u].attempt)
                                 /\ FreedItem(u).status = "staged"
                                 /\ FreedItem(u).attempt = items[u].attempt
           /\ u \notin Abandoned => FreedItem(u) = items[u]
           /\ u \in Overdue => items[u] # NoItem /\ Lapsed(u) /\ KeptItem(u) = NoItem /\ u \notin Abandoned
           /\ u \notin Overdue => KeptItem(u) = FreedItem(u)
<1>1. items[u] \in Items
  BY FromInv DEF Types
<1>2. FreedItem(u) \in Items /\ (NoItem \in Items => KeptItem(u) \in Items)
  BY <1>1, ItemOf, ItemTypes DEF FreedItem, KeptItem
<1>3. ASSUME u \in Abandoned
      PROVE  /\ items[u] = manifest[u] /\ u \notin live /\ items[u] = Processing(items[u].attempt)
             /\ FreedItem(u).status = "staged" /\ FreedItem(u).attempt = items[u].attempt
             /\ u \notin expired
  <2>1. items[u].status = "processing" /\ u \notin live /\ u \notin expired
    BY <1>3 DEF Abandoned
  <2>2. items[u] = manifest[u]
    BY <2>1, ItemFields, InUse
  <2>3. items[u] = Processing(items[u].attempt)
    BY <1>1, <2>1 DEF Items, Processing
  <2> QED
    BY <1>3, <2>1, <2>2, <2>3, ItemFields DEF FreedItem
<1>4. u \in Overdue => items[u] # NoItem /\ Lapsed(u) /\ KeptItem(u) = NoItem /\ u \notin Abandoned
  BY <1>3 DEF Overdue, KeptItem, Lapsed
<1> QED
  BY <1>2, <1>3, <1>4 DEF FreedItem, KeptItem

LEMMA CleanUpSound ==
    ASSUME StagingConstants, StageInv, CleanUp
    PROVE  Sound
<1>1. /\ Types /\ cleaner.at = "idle" /\ ~loadFailed
      /\ \A u \in Uploads : UploadSound(u)
      /\ \A w \in Workers : WorkerSound(w)
  BY FromInv DEF CleanUp
<1>2. /\ setup' = setup /\ files' = files /\ temps' = temps /\ reserved' = reserved
      /\ live' = live /\ expired' = expired /\ aged' = aged /\ work' = work
      /\ loadFailed' = loadFailed /\ indexed' = indexed /\ issued' = issued
      /\ acked' = acked /\ served' = served
  BY DEF CleanUp, clock, observers
<1>3. \/ /\ items' = [u \in Uploads |-> KeptItem(u)]
         /\ manifest' = IF Abandoned \cup Overdue = {} THEN manifest ELSE items'
         /\ cleaner' = [at |-> "remove", gone |-> Overdue, orphans |-> Orphans]
         /\ faults' = faults
      \/ /\ Fault /\ items' = [u \in Uploads |-> FreedItem(u)] /\ manifest' = manifest
         /\ cleaner' = cleaner
  <2> DEFINE freed == [u \in Uploads |-> IF u \in Abandoned
                                    THEN Staged(items[u].attempt) ELSE items[u]]
             kept  == [u \in Uploads |-> IF u \in Overdue THEN NoItem ELSE freed[u]]
  <2>1. freed = [u \in Uploads |-> FreedItem(u)]
    BY DEF FreedItem
  <2>2. kept = [u \in Uploads |-> KeptItem(u)]
    BY DEF FreedItem, KeptItem
  <2>3. \/ /\ items' = kept
           /\ manifest' = IF Abandoned \cup Overdue = {} THEN manifest ELSE kept
           /\ cleaner' = [at |-> "remove", gone |-> Overdue, orphans |-> Orphans]
           /\ faults' = faults
        \/ /\ Fault /\ items' = freed /\ manifest' = manifest /\ cleaner' = cleaner
    BY DEF CleanUp
  <2> HIDE DEF freed, kept
  <2> QED
    BY <2>1, <2>2, <2>3
<1>4. NoItem \in Items /\ NoItem.status \notin Waiting
  BY RestTypes, ItemFields
<1>5. \A u \in Uploads : items[u] = manifest[u] \/ Freed(u)
  BY <1>1 DEF UploadSound
<1>6. \A u \in Uploads :
          /\ items[u] # NoItem => manifest[u] # NoItem /\ u \in issued /\ u \notin reserved
          /\ items[u].status \in Waiting => u \in files
  BY <1>4, InUse
<1>7. CASE /\ Fault /\ items' = [u \in Uploads |-> FreedItem(u)] /\ manifest' = manifest
           /\ cleaner' = cleaner
  <2>1. \A u \in Uploads : items'[u] = FreedItem(u)
    BY <1>7
  <2>2. Types'
    <3>1. items' \in [Uploads -> Items]
      BY <1>1, <1>7, CleanItems
    <3>2. faults' \in 0..setup'.faults
      BY <1>1, <1>2, <1>7, FaultType
    <3> QED
      BY <1>1, <1>2, <1>7, <3>1, <3>2 DEF Types
  <2>3. \A u \in Uploads : UploadSound(u)'
    <3> TAKE u \in Uploads
    <3>1. items'[u] = manifest'[u] \/ Freed(u)'
      <4>1. CASE u \in Abandoned
        BY <1>1, <1>2, <1>7, <2>1, <4>1, CleanItems DEF Freed
      <4>2. CASE u \notin Abandoned
        BY <1>1, <1>2, <1>5, <1>7, <2>1, <4>2, CleanItems DEF Freed
      <4> QED
        BY <4>1, <4>2
    <3> QED
      BY <1>1, <1>2, <1>7, <3>1 DEF UploadSound
  <2>4. Steady
    <3>1. ASSUME NEW u \in Uploads, items[u].status \in {"consumed", "none"}
          PROVE  items'[u] = items[u]
      BY <1>1, <2>1, <3>1, CleanItems DEF Abandoned
    <3>2. issued \subseteq Uploads
      BY <1>1 DEF Types
    <3> QED
      BY <1>2, <1>7, <3>1, <3>2 DEF Steady
  <2>5. \A w \in Workers : WorkerSound(w)'
    BY <1>1, <1>2, <2>4, SteadyWorker
  <2>6. CleanerSound'
    BY <1>1, <1>7, <2>4, FromInv, SteadyCleaner
  <2>7. \A u \in acked' : KeptOf(u)
    <3> TAKE u \in acked'
    <3>1. u \in acked /\ u \in Uploads
      BY <1>1, <1>2 DEF Types
    <3> QED
      BY <1>1, <1>2, <1>7, <3>1, KeptSame
  <2>8. \A u \in Uploads : LeaseOf(u)
    <3> TAKE u \in Uploads
    <3>1. CASE LeaseActive(u)
      <4>1. u \notin Abandoned
        BY <3>1 DEF LeaseActive, Abandoned
      <4> QED
        BY <1>1, <2>1, <4>1, CleanItems DEF LeaseOf
    <3> QED
      BY <3>1 DEF LeaseOf
  <2>9. loadFailed' => reserved' = {}
    BY <1>1, <1>2
  <2> QED
    BY <2>2, <2>3, <2>5, <2>6, <2>7, <2>8, <2>9, SoundParts
<1>8. CASE /\ items' = [u \in Uploads |-> KeptItem(u)]
           /\ manifest' = IF Abandoned \cup Overdue = {} THEN manifest ELSE items'
           /\ cleaner' = [at |-> "remove", gone |-> Overdue, orphans |-> Orphans]
           /\ faults' = faults
  <2>1. \A u \in Uploads : items'[u] = KeptItem(u)
    BY <1>8
  <2>a. \A u \in Uploads : (manifest' = manifest /\ items'[u] = items[u]) \/ manifest' = items'
    BY <1>1, <1>8, <2>1, CleanItems
  <2>b. ASSUME NEW u \in Uploads
        PROVE  /\ items'[u] # NoItem => items[u] # NoItem
               /\ items'[u].status \in Waiting => items[u].status \in Waiting
               /\ items[u].status \in {"consumed", "none"} => items'[u].status \in {"consumed", "none"}
               /\ items[u].status \in Waiting => items'[u].status \in Waiting \/ Lapsed(u)
               /\ LeaseActive(u) => items'[u] = items[u]
    <3>1. CASE u \in Overdue
      BY <1>1, <2>1, <3>1, <1>4, ItemFields, CleanItems DEF Lapsed
    <3>2. CASE u \in Abandoned
      <4>1. items[u].status = "processing" /\ u \notin live
        BY <3>2 DEF Abandoned
      <4>2. items'[u].status = "staged"
        BY <1>1, <2>1, <3>2, CleanItems
      <4> QED
        BY <4>1, <4>2, ItemFields DEF Waiting, LeaseActive
    <3>3. CASE u \notin Overdue /\ u \notin Abandoned
      <4>1. items'[u] = items[u]
        BY <1>1, <2>1, <3>3, CleanItems
      <4> QED
        BY <4>1
    <3> QED
      BY <3>1, <3>2, <3>3
  <2>2. Types'
    <3>1. items' \in [Uploads -> Items]
      BY <1>1, <1>4, <1>8, CleanItems
    <3>2. manifest' \in [Uploads -> Items]
      BY <1>1, <1>8, <3>1 DEF Types
    <3>3. cleaner' \in CleanSet
      <4>1. Overdue \in SUBSET Uploads /\ Orphans \in SUBSET Uploads
        BY <1>1 DEF Overdue, Orphans, Types
      <4> QED
        BY <1>8, <4>1 DEF CleanSet
    <3> QED
      BY <1>1, <1>2, <1>8, <3>1, <3>2, <3>3 DEF Types
  <2>3. ASSUME NEW u \in Uploads
        PROVE  UploadSound(u)'
    <3>0. UploadSound(u)
      BY <1>1
    <3>1. CASE manifest' = manifest /\ items'[u] = items[u]
      <4>1. u \in reserved => manifest[u] = NoItem /\ u \notin acked \cup aged
        BY <3>0 DEF UploadSound
      <4> QED
        BY <1>2, <3>0, <3>1, <4>1, UploadSame
    <3>2. CASE manifest' = items'
      <4>1. manifest'[u] = items'[u]
        BY <3>2
      <4>2. u \in reserved => items[u] = NoItem
        BY <1>6
      <4>3. u \in reserved => items'[u] = NoItem
        BY <4>2, <2>b
      <4>4. u \in acked => manifest[u].status \in Waiting \/ u \in served \/ u \in expired
        BY <3>0 DEF UploadSound
      <4>5. manifest[u].status \in Waiting => items[u].status \in Waiting
        BY <1>5, ItemFields DEF Freed, Waiting
      <4>6. u \in acked => items'[u].status \in Waiting \/ u \in served \/ u \in expired
        BY <4>4, <4>5, <2>b DEF Lapsed
      <4>7. items'[u] # NoItem => u \in issued
        BY <1>6, <2>b
      <4>8. items'[u].status \in Waiting => u \in files
        BY <1>6, <2>b
      <4>9. u \in reserved => u \notin acked \cup aged
        BY <3>0 DEF UploadSound
      <4> QED
        BY <1>1, <1>2, <4>1, <4>3, <4>6, <4>7, <4>8, <4>9 DEF UploadSound
    <3> QED
      BY <2>a, <3>1, <3>2
  <2>c. ASSUME NEW u \in Uploads, items'[u] = NoItem
        PROVE  manifest'[u] = NoItem
    <3>1. CASE manifest' = items'
      BY <2>c, <3>1
    <3>2. CASE manifest' = manifest /\ items'[u] = items[u]
      <4>1. ~Freed(u)
        BY <2>c, <3>2, ItemFields DEF Freed
      <4> QED
        BY <1>5, <2>c, <3>2, <4>1
    <3> QED
      BY <2>a, <3>1, <3>2
  <2>4. Steady
    <3>1. issued \subseteq Uploads
      BY <1>1 DEF Types
    <3>2. ASSUME NEW u \in Uploads, manifest[u] = NoItem
          PROVE  manifest'[u] = NoItem
      <4>1. items[u] = NoItem
        BY <1>6, <3>2
      <4> QED
        BY <2>b, <2>c, <4>1
    <3> QED
      BY <1>2, <2>b, <3>1, <3>2 DEF Steady
  <2>5. \A w \in Workers : WorkerSound(w)'
    BY <1>1, <1>2, <2>4, SteadyWorker
  <2>6. CleanerSound'
    <3>1. cleaner'.gone = Overdue /\ cleaner'.orphans = Orphans
      BY <1>8
    <3>2. ASSUME NEW u \in Overdue
          PROVE  u \in issued /\ u \notin reserved /\ manifest'[u] = NoItem
      <4>1. u \in Uploads
        BY DEF Overdue
      <4>2. items[u] # NoItem /\ KeptItem(u) = NoItem
        BY <1>1, <4>1, CleanItems
      <4> QED
        BY <1>6, <2>1, <2>c, <4>1, <4>2
    <3>3. ASSUME NEW u \in Orphans, u \notin Overdue
          PROVE  u \in issued /\ u \notin reserved /\ manifest'[u] = NoItem
      <4>1. u \in aged /\ u \in issued /\ u \in Uploads
        BY <1>1 DEF Orphans, Types
      <4>2. u \notin reserved
        BY <1>1, <4>1 DEF UploadSound
      <4>3. items[u] = NoItem
        BY <3>3, <4>1 DEF Orphans
      <4>4. items'[u] = NoItem
        BY <2>b, <4>1, <4>3
      <4> QED
        BY <2>c, <4>1, <4>2, <4>4
    <3> QED
      BY <1>1, <1>2, <3>1, <3>2, <3>3 DEF CleanerSound
  <2>7. \A u \in acked' : KeptOf(u)
    <3> TAKE u \in acked'
    <3>1. u \in acked /\ u \in Uploads /\ UploadSound(u)
      BY <1>1, <1>2 DEF Types
    <3>2. CASE manifest' = manifest
      BY <1>2, <3>1, <3>2, KeptSame
    <3>3. CASE manifest' = items' /\ items[u].status \in Waiting
      BY <2>b, <3>1, <3>3 DEF KeptOf
    <3>4. CASE items[u].status \notin Waiting
      <4>1. manifest[u].status \notin Waiting
        BY <1>5, <3>1, <3>4, ItemFields DEF Freed, Waiting
      <4>2. u \in served \/ u \in expired
        BY <3>1, <4>1 DEF UploadSound
      <4> QED
        BY <1>2, <3>4, <4>2 DEF KeptOf, Lapsed, LeaseActive, Waiting
    <3> QED
      BY <2>a, <3>1, <3>2, <3>3, <3>4
  <2>8. \A u \in Uploads : LeaseOf(u)
    BY <2>b DEF LeaseOf
  <2>9. loadFailed' => reserved' = {}
    BY <1>1, <1>2
  <2> QED
    BY <2>2, <2>3, <2>5, <2>6, <2>7, <2>8, <2>9, SoundParts
<1> QED
  BY <1>3, <1>7, <1>8

\* Files of uploads that no item points to any more.
LEMMA RemovedSound ==
    ASSUME StageInv, Types', cleaner.at # "idle", items' = items, manifest' = manifest,
           files \subseteq files' \cup cleaner.gone \cup cleaner.orphans,
           reserved' = reserved, live' = live, expired' = expired, aged' = aged,
           work' = work, loadFailed' = loadFailed, indexed' = indexed, issued' = issued,
           acked' = acked, served' = served,
           \/ cleaner'.at = "idle"
           \/ cleaner'.gone = cleaner.gone /\ cleaner'.orphans = cleaner.orphans
    PROVE  Sound
<1>1. /\ ~loadFailed
      /\ \A u \in cleaner.gone \cup cleaner.orphans : u \in issued \ reserved /\ manifest[u] = NoItem
  BY FromInv DEF CleanerSound
<1>2. \A u \in files \ files' : manifest[u].status \notin Waiting
  BY <1>1, ItemFields
<1>3. CleanerSound'
  BY <1>1 DEF CleanerSound
<1>4. \A v \in reserved' : ~loadFailed /\ manifest[v] = NoItem /\ v \notin acked \cup aged'
  BY ReservedFresh
<1>5. \A w \in Workers : work'[w] = work[w] \/ WorkerSound(w)'
  OBVIOUS
<1> QED
  BY <1>2, <1>3, <1>4, <1>5, QuietStep

LEMMA CleanRemoveSound ==
    ASSUME StagingConstants, StageInv, CleanRemove
    PROVE  Sound
<1>1. Types /\ cleaner.at # "idle"
  BY FromInv DEF CleanRemove
<1>2. /\ setup' = setup /\ items' = items /\ manifest' = manifest /\ temps' = temps
      /\ reserved' = reserved /\ live' = live /\ expired' = expired /\ aged' = aged
      /\ work' = work /\ loadFailed' = loadFailed /\ indexed' = indexed /\ issued' = issued
      /\ acked' = acked /\ served' = served
      /\ \/ files' = files \ cleaner.gone /\ cleaner' = [cleaner EXCEPT !.at = "scan"]
         \/ (\E done \in SUBSET cleaner.gone : files' = files \ done) /\ cleaner' = Quiet
      /\ Fault \/ UNCHANGED faults
  BY DEF CleanRemove, clock, observers
<1>3. faults' \in 0..setup'.faults
  BY <1>1, <1>2, FaultType
<1>4. files' \subseteq files /\ files \subseteq files' \cup cleaner.gone \cup cleaner.orphans
  BY <1>2
<1>5. /\ cleaner' \in CleanSet
      /\ \/ cleaner'.at = "idle"
         \/ cleaner'.gone = cleaner.gone /\ cleaner'.orphans = cleaner.orphans
  BY <1>1, <1>2, RestTypes DEF Types, CleanSet
<1>6. Types'
  BY <1>1, <1>2, <1>3, <1>4, <1>5 DEF Types
<1> QED
  BY <1>1, <1>2, <1>4, <1>5, <1>6, RemovedSound

LEMMA CleanScanSound ==
    ASSUME StagingConstants, StageInv, CleanScan
    PROVE  Sound
<1>1. Types /\ cleaner.at # "idle"
  BY FromInv DEF CleanScan
<1>2. /\ setup' = setup /\ items' = items /\ manifest' = manifest
      /\ files' = files \ cleaner.orphans /\ temps' = temps \ cleaner.orphans
      /\ reserved' = reserved /\ live' = live /\ expired' = expired /\ aged' = aged
      /\ work' = work /\ loadFailed' = loadFailed /\ indexed' = indexed /\ issued' = issued
      /\ acked' = acked /\ served' = served /\ faults' = faults /\ cleaner' = Quiet
  BY DEF CleanScan, clock, observers
<1>3. cleaner' \in CleanSet /\ cleaner'.at = "idle"
  BY <1>2, RestTypes
<1>4. Types'
  BY <1>1, <1>2, <1>3 DEF Types
<1>5. files \subseteq files' \cup cleaner.gone \cup cleaner.orphans
  BY <1>2
<1> QED
  BY <1>1, <1>2, <1>3, <1>4, <1>5, RemovedSound
-----------------------------------------------------------------------------
(* The clock, the process, the user *)

LEMMA LapseSound ==
    ASSUME StagingConstants, StageInv, NEW u \in Uploads, Lapse(u)
    PROVE  Sound
<1>1. Types
  BY FromInv
<1>2. /\ setup' = setup /\ items' = items /\ manifest' = manifest /\ files' = files /\ temps' = temps
      /\ reserved' = reserved /\ live' = live \ {u} /\ expired' = expired /\ aged' = aged
      /\ work' = work /\ loadFailed' = loadFailed /\ indexed' = indexed /\ issued' = issued
      /\ acked' = acked /\ served' = served /\ faults' = faults /\ cleaner' = cleaner
  BY DEF Lapse, observers
<1>3. Types'
  BY <1>1, <1>2 DEF Types
<1>4. \A v \in reserved' : ~loadFailed /\ manifest[v] = NoItem /\ v \notin acked \cup aged'
  BY <1>2, ReservedFresh
<1> QED
  BY <1>2, <1>3, <1>4, QuietStep

LEMMA ExpireSound ==
    ASSUME StagingConstants, StageInv, NEW u \in Uploads, Expire(u)
    PROVE  Sound
<1>1. Types
  BY FromInv
<1>2. /\ u \in issued /\ u \notin reserved /\ expired' = expired \cup {u} /\ aged' = aged \cup {u}
      /\ setup' = setup /\ items' = items /\ manifest' = manifest /\ files' = files /\ temps' = temps
      /\ reserved' = reserved /\ live' = live
      /\ work' = work /\ loadFailed' = loadFailed /\ indexed' = indexed /\ issued' = issued
      /\ acked' = acked /\ served' = served /\ faults' = faults /\ cleaner' = cleaner
  BY DEF Expire, observers
<1>3. Types'
  BY <1>1, <1>2 DEF Types
<1>4. \A v \in reserved' : ~loadFailed /\ manifest[v] = NoItem /\ v \notin acked \cup aged'
  BY <1>2, ReservedFresh
<1> QED
  BY <1>2, <1>3, <1>4, QuietStep

LEMMA ForgetSound ==
    ASSUME StagingConstants, StageInv, NEW c, Forget(c)
    PROVE  Sound
<1>1. Types
  BY FromInv
<1>2. /\ indexed' = indexed \ {c} /\ live' = live /\ expired' = expired /\ aged' = aged
      /\ setup' = setup /\ items' = items /\ manifest' = manifest /\ files' = files /\ temps' = temps
      /\ reserved' = reserved /\ work' = work /\ loadFailed' = loadFailed /\ issued' = issued
      /\ acked' = acked /\ served' = served /\ faults' = faults /\ cleaner' = cleaner
  BY DEF Forget, observers, clock
<1>3. Types'
  BY <1>1, <1>2 DEF Types
<1>4. \A v \in reserved' : ~loadFailed /\ manifest[v] = NoItem /\ v \notin acked \cup aged'
  BY <1>2, ReservedFresh
<1> QED
  BY <1>2, <1>3, <1>4, QuietStep

LEMMA StutterSound ==
    ASSUME StagingConstants, StageInv, UNCHANGED stagingVars
    PROVE  Sound
<1>1. Types
  BY FromInv
<1>2. /\ indexed' = indexed /\ live' = live /\ expired' = expired /\ aged' = aged
      /\ setup' = setup /\ items' = items /\ manifest' = manifest /\ files' = files /\ temps' = temps
      /\ reserved' = reserved /\ work' = work /\ loadFailed' = loadFailed /\ issued' = issued
      /\ acked' = acked /\ served' = served /\ faults' = faults /\ cleaner' = cleaner
  BY DEF stagingVars, observers, clock
<1>3. Types'
  BY <1>1, <1>2 DEF Types
<1>4. \A v \in reserved' : ~loadFailed /\ manifest[v] = NoItem /\ v \notin acked \cup aged'
  BY <1>2, ReservedFresh
<1> QED
  BY <1>2, <1>3, <1>4, QuietStep

\* A step that reads the manifest, or fails to: nobody is at work.
LEMMA ReadSound ==
    ASSUME StageInv, Types', manifest' = manifest, live' = live, expired' = expired, aged' = aged,
           issued' = issued, acked' = acked, served' = served, files \subseteq files',
           reserved' = {}, \A w \in Workers : work'[w].at = "idle", cleaner'.at = "idle",
           \/ items' = manifest /\ loadFailed' = FALSE
           \/ items' = [u \in Uploads |-> NoItem] /\ loadFailed' = TRUE
    PROVE  Sound
<1>1. Types /\ \A u \in Uploads : UploadSound(u)
  BY FromInv
<1>2. \A u \in Uploads : UploadSound(u)'
  <2> TAKE u \in Uploads
  <2>1. UploadSound(u)
    BY <1>1
  <2>2. u \notin reserved'
    OBVIOUS
  <2>3. loadFailed' => items'[u] = NoItem
    OBVIOUS
  <2>4. ~loadFailed' => items'[u] = manifest'[u]
    OBVIOUS
  <2> QED
    BY <2>1, <2>2, <2>3, <2>4 DEF UploadSound
<1>3. (\A w \in Workers : WorkerSound(w)') /\ CleanerSound'
  BY DEF WorkerSound, CleanerSound
<1>4. \A u \in acked' : KeptOf(u)
  <2> TAKE u \in acked'
  <2>1. u \in acked /\ UploadSound(u)
    BY <1>1 DEF Types
  <2> QED
    BY <2>1, KeptSame
<1>5. \A u \in Uploads : LeaseOf(u)
  <2> TAKE u \in Uploads
  <2>1. CASE LeaseActive(u) /\ ~loadFailed'
    <3>1. items[u].status = "processing" /\ items[u] # NoItem
      BY <2>1, ItemFields DEF LeaseActive
    <3>2. items[u] = manifest[u]
      BY <3>1, InUse
    <3> QED
      BY <2>1, <3>2 DEF LeaseOf
  <2> QED
    BY <2>1 DEF LeaseOf
<1> QED
  BY <1>2, <1>3, <1>4, <1>5, SoundParts

LEMMA CrashSound ==
    ASSUME StagingConstants, StageInv, Crash
    PROVE  Sound
<1>1. Types
  BY FromInv
<1>2. /\ Fault /\ reserved' = {} /\ work' = [w \in Workers |-> Resting] /\ cleaner' = Quiet
      /\ \/ items' = manifest /\ loadFailed' = FALSE
         \/ items' = [u \in Uploads |-> NoItem] /\ loadFailed' = TRUE
      /\ setup' = setup /\ manifest' = manifest /\ live' = live /\ expired' = expired /\ aged' = aged
      /\ indexed' = indexed /\ issued' = issued /\ acked' = acked /\ served' = served
  BY DEF Crash, observers, clock
<1>3. files \subseteq files' /\ files' \subseteq files \cup reserved /\ temps' \subseteq temps
  BY DEF Crash
<1>4. faults' \in 0..setup'.faults
  BY <1>1, <1>2, FaultType
<1>5. work' \in [Workers -> WorkSet] /\ cleaner' \in CleanSet /\ cleaner'.at = "idle"
      /\ \A w \in Workers : work'[w].at = "idle"
  BY <1>2, RestTypes
<1>6. items' \in [Uploads -> Items] /\ loadFailed' \in BOOLEAN
  BY <1>1, <1>2, RestTypes DEF Types
<1>7. Types'
  BY <1>1, <1>2, <1>3, <1>4, <1>5, <1>6 DEF Types
<1> QED
  BY <1>2, <1>3, <1>5, <1>7, ReadSound

LEMMA ReloadSound ==
    ASSUME StagingConstants, StageInv, Reload
    PROVE  Sound
<1>1. Types /\ loadFailed /\ reserved = {}
  BY FromInv DEF Reload
<1>2. /\ items' = manifest /\ loadFailed' = FALSE /\ indexed' = indexed /\ live' = live
      /\ expired' = expired /\ aged' = aged /\ setup' = setup /\ manifest' = manifest
      /\ files' = files /\ temps' = temps /\ reserved' = reserved /\ work' = work
      /\ issued' = issued /\ acked' = acked /\ served' = served /\ faults' = faults
      /\ cleaner' = cleaner
  BY DEF Reload, observers, clock
<1>3. Types'
  BY <1>1, <1>2 DEF Types
<1>4. \A w \in Workers : work'[w].at = "idle"
  BY <1>1, <1>2, FromInv DEF WorkerSound
<1>5. cleaner'.at = "idle"
  BY <1>1, <1>2, FromInv DEF CleanerSound
<1> QED
  BY <1>1, <1>2, <1>3, <1>4, <1>5, ReadSound
-----------------------------------------------------------------------------
(* The theorems *)

LEMMA StageStep ==
    ASSUME StagingConstants, StageInv, [StagingNext]_stagingVars
    PROVE  Sound
<1>1. CASE UNCHANGED stagingVars
  BY <1>1, StutterSound
<1>2. ASSUME NEW u \in Uploads,
             StageReserve(u) \/ StageFails(u) \/ StageCommit(u) \/ Lapse(u) \/ Expire(u)
             \/ Forget(Content[u])
      PROVE  Sound
  BY <1>2, ReserveSound, FailsSound, CommitSound, LapseSound, ExpireSound, ForgetSound
<1>3. ASSUME NEW w \in Workers, WorkStep(w) \/ Renew(w) \/ Fence(w)
      PROVE  Sound
  BY <1>3, CheckSound, CopySound, IndexSound, RecheckSound, ConsumeSound, DeleteSound,
     RemoveFileSound, ReleaseSound, RenewSound, FenceSound DEF WorkStep
<1>4. ASSUME NEW w \in Workers, NEW u \in Uploads, Claim(w, u) \/ Withdraw(w, u)
      PROVE  Sound
  BY <1>4, ClaimSound, WithdrawSound
<1>5. CASE CleanStep \/ Crash \/ Reload
  BY <1>5, CleanUpSound, CleanRemoveSound, CleanScanSound, CrashSound, ReloadSound DEF CleanStep
<1> QED
  BY <1>1, <1>2, <1>3, <1>4, <1>5 DEF StagingNext

LEMMA StageAlways == StagingSpec => []StageInv
<1>1. StagingConstants
  BY StagingConstants
<1>2. StageInv /\ [StagingNext]_stagingVars => StageInv'
  BY <1>1, StageStep DEF Sound
<1> QED
  BY <1>1, <1>2, StageInit, PTL DEF StagingSpec

\* What waits, what is counted and what each worker and the cleaner are doing stays in
\* its domain.
THEOREM StagingTyped == StagingSpec => []StagingTypeOK
<1>1. StageInv => StagingTypeOK
  BY DEF StageInv
<1> QED
  BY <1>1, StageAlways, PTL

\* Whatever writes fail and wherever the process stops, what waits has its file.
THEOREM FilesStay == StagingSpec => []FileKept
<1>1. StageInv => FileKept
  <2> SUFFICES ASSUME StageInv, NEW u \in Uploads,
                      items[u].status \in Waiting \/ manifest[u].status \in Waiting
               PROVE  u \in files
    BY DEF FileKept
  <2>1. UploadSound(u)
    BY FromInv
  <2>2. CASE manifest[u].status \in Waiting
    BY <2>1, <2>2 DEF UploadSound
  <2>3. CASE items[u].status \in Waiting
    <3>1. items[u] # NoItem
      BY <2>3, ItemFields
    <3> QED
      BY <2>3, <3>1, InUse
  <2> QED
    BY <2>2, <2>3
<1> QED
  BY <1>1, StageAlways, PTL

\* No fault drops an upload that a client was told about.
THEOREM UploadsStay == StagingSpec => UploadKept
<1>1. StagingConstants
  BY StagingConstants
<1>2. StageInv /\ [StagingNext]_stagingVars => KeptStep
  BY <1>1, StageStep DEF Sound
<1> QED
  BY <1>2, StageAlways, PTL DEF StagingSpec, UploadKept, KeptStep

\* A claim under an active lease is ended by its own worker and nobody else.
THEOREM LeasesHold == StagingSpec => LeaseRespected
<1>1. StagingConstants
  BY StagingConstants
<1>2. StageInv /\ [StagingNext]_stagingVars => LeaseStep
  BY <1>1, StageStep DEF Sound
<1> QED
  BY <1>2, StageAlways, PTL DEF StagingSpec, LeaseRespected, LeaseStep
-----------------------------------------------------------------------------
(* The sum of the sizes, which Bytes computes in an order of its own *)

Any(s) == CHOOSE x \in s : TRUE
SumFun(S) == CHOOSE f : f = [s \in SUBSET S |->
                 IF s = {} THEN 0 ELSE Size[Any(s)] + f[s \ {Any(s)}]]

LEMMA BytesIs == ASSUME NEW S PROVE Bytes(S) = SumFun(S)[S]
BY Zenon DEF Bytes, MapThenSumSet, MapThenFoldSet, SumFun, Any

LEMMA AnyIn == ASSUME NEW s, s # {} PROVE Any(s) \in s
BY DEF Any

\* A function that adds up the subsets of S.
SumsUp(S, f) == \A s \in SUBSET S : f[s] = IF s = {} THEN 0 ELSE Size[Any(s)] + f[s \ {Any(s)}]

LEMMA SumsAgree ==
    ASSUME NEW S, IsFiniteSet(S), NEW T, S \subseteq T, NEW f, NEW g, SumsUp(S, f), SumsUp(T, g)
    PROVE  \A s \in SUBSET S : f[s] = g[s]
<1> DEFINE P == {s \in SUBSET S : f[s] = g[s]}
<1>1. ASSUME NEW s \in SUBSET S, \A x \in s : s \ {x} \in P PROVE s \in P
  <2>1. CASE s = {}
    BY <2>1 DEF SumsUp
  <2>2. CASE s # {}
    <3>1. f[s \ {Any(s)}] = g[s \ {Any(s)}]
      BY <1>1, <2>2, AnyIn
    <3>2. s \in SUBSET T
      OBVIOUS
    <3>3. f[s] = Size[Any(s)] + f[s \ {Any(s)}]
      BY <2>2 DEF SumsUp
    <3>4. g[s] = Size[Any(s)] + g[s \ {Any(s)}]
      BY <2>2, <3>2 DEF SumsUp
    <3> QED
      BY <3>1, <3>3, <3>4
  <2> QED
    BY <2>1, <2>2
<1>2. P \in SUBSET (SUBSET S)
  OBVIOUS
<1>3. P = SUBSET S
  <2> HIDE DEF P
  <2> QED
    BY <1>1, <1>2, SubsetInduction
<1> QED
  BY <1>3

\* Such a function exists on the subsets of at most n elements ...
Small(S, n) == {s \in SUBSET S : Cardinality(s) <= n}
SumsSmall(S, n, f) ==
    /\ f \in [Small(S, n) -> Nat]
    /\ \A s \in Small(S, n) : f[s] = IF s = {} THEN 0 ELSE Size[Any(s)] + f[s \ {Any(s)}]

LEMMA SmallLess ==
    ASSUME NEW S, IsFiniteSet(S), NEW n \in Nat, NEW s \in Small(S, n), s # {}
    PROVE  /\ n # 0 /\ Any(s) \in S /\ s \ {Any(s)} \in Small(S, n - 1)
           /\ s \ {Any(s)} \in Small(S, n)
<1>1. s \in SUBSET S /\ Cardinality(s) <= n /\ IsFiniteSet(s)
  BY FS_Subset DEF Small
<1>2. Any(s) \in s
  BY AnyIn
<1>3. Cardinality(s \ {Any(s)}) = Cardinality(s) - 1 /\ Cardinality(s) \in Nat
  BY <1>1, <1>2, FS_RemoveElement, FS_CardinalityType
<1>4. Cardinality(s) # 0
  BY <1>1, FS_EmptySet
<1> QED
  BY <1>1, <1>2, <1>3, <1>4 DEF Small

LEMMA SumsExist ==
    ASSUME StagingConstants, NEW S \in SUBSET Uploads, IsFiniteSet(S)
    PROVE  \E f \in [SUBSET S -> Nat] : SumsUp(S, f)
<1> DEFINE N == Cardinality(S)
           P == {n \in 0..N : \E f : SumsSmall(S, n, f)}
<1>0. N \in Nat
  BY FS_CardinalityType
<1>1. 0 \in P
  <2>1. Small(S, 0) = {{}}
    <3>1. \A s \in SUBSET S : IsFiniteSet(s) /\ (Cardinality(s) = 0 <=> s = {}) /\ Cardinality(s) \in Nat
      BY FS_Subset, FS_EmptySet, FS_CardinalityType
    <3> QED
      BY <3>1 DEF Small
  <2> DEFINE f == [s \in Small(S, 0) |-> 0]
  <2>2. SumsSmall(S, 0, f)
    BY <2>1 DEF SumsSmall
  <2> QED
    BY <1>0, <2>2
<1>2. ASSUME NEW n \in 1..N, n - 1 \in P PROVE n \in P
  <2>1. PICK g : SumsSmall(S, n - 1, g)
    BY <1>2
  <2> DEFINE f == [s \in Small(S, n) |-> IF s = {} THEN 0 ELSE Size[Any(s)] + g[s \ {Any(s)}]]
  <2>2. n \in Nat /\ n - 1 \in Nat
    OBVIOUS
  <2>3. ASSUME NEW s \in Small(S, n), s # {}
        PROVE  Size[Any(s)] \in Nat /\ g[s \ {Any(s)}] \in Nat /\ f[s \ {Any(s)}] = g[s \ {Any(s)}]
    <3>1. Any(s) \in S /\ s \ {Any(s)} \in Small(S, n - 1) /\ s \ {Any(s)} \in Small(S, n)
      BY <2>2, <2>3, SmallLess
    <3>2. Size[Any(s)] \in Nat
      BY <3>1 DEF StagingConstants
    <3>3. g[s \ {Any(s)}] \in Nat
      BY <2>1, <3>1 DEF SumsSmall
    <3> DEFINE t == s \ {Any(s)}
    <3>4. g[t] = IF t = {} THEN 0 ELSE Size[Any(t)] + g[t \ {Any(t)}]
      BY <2>1, <3>1 DEF SumsSmall
    <3>5. f[t] = IF t = {} THEN 0 ELSE Size[Any(t)] + g[t \ {Any(t)}]
      BY <3>1
    <3> QED
      BY <3>2, <3>3, <3>4, <3>5
  <2>4. f \in [Small(S, n) -> Nat]
    <3>1. ASSUME NEW s \in Small(S, n)
          PROVE  (IF s = {} THEN 0 ELSE Size[Any(s)] + g[s \ {Any(s)}]) \in Nat
      <4>1. CASE s = {}
        BY <4>1
      <4>2. CASE s # {}
        <5>1. Size[Any(s)] \in Nat /\ g[s \ {Any(s)}] \in Nat
          BY <2>3, <4>2
        <5> HIDE DEF f
        <5> QED
          BY <4>2, <5>1
      <4> QED
        BY <4>1, <4>2
    <3> QED
      BY <3>1
  <2>5. ASSUME NEW s \in Small(S, n)
        PROVE  f[s] = IF s = {} THEN 0 ELSE Size[Any(s)] + f[s \ {Any(s)}]
    <3>1. f[s] = IF s = {} THEN 0 ELSE Size[Any(s)] + g[s \ {Any(s)}]
      OBVIOUS
    <3> HIDE DEF f
    <3> QED
      BY <2>3, <3>1
  <2>6. SumsSmall(S, n, f)
    <3> HIDE DEF f
    <3> QED
      BY <2>4, <2>5 DEF SumsSmall
  <2> QED
    BY <2>6
<1>3. P = 0..N
  <2>1. P \in SUBSET (0..N)
    OBVIOUS
  <2> HIDE DEF P, N
  <2> QED
    BY <1>0, <1>1, <1>2, <2>1, NumberInduction
<1>4. PICK f : SumsSmall(S, N, f)
  BY <1>0, <1>3
<1>5. Small(S, N) = SUBSET S
  BY FS_Subset DEF Small
<1> QED
  BY <1>4, <1>5 DEF SumsSmall, SumsUp

\* ... so the function that Bytes computes with is one.
LEMMA SumFunSums ==
    ASSUME StagingConstants, NEW S \in SUBSET Uploads, IsFiniteSet(S)
    PROVE  SumsUp(S, SumFun(S)) /\ \A s \in SUBSET S : SumFun(S)[s] \in Nat
<1>1. PICK g \in [SUBSET S -> Nat] : SumsUp(S, g)
  BY SumsExist
<1>2. g = [s \in SUBSET S |-> IF s = {} THEN 0 ELSE Size[Any(s)] + g[s \ {Any(s)}]]
  BY <1>1 DEF SumsUp
<1> DEFINE f == SumFun(S)
<1>3. f = [s \in SUBSET S |-> IF s = {} THEN 0 ELSE Size[Any(s)] + f[s \ {Any(s)}]]
  BY <1>2, Zenon DEF SumFun
<1> HIDE DEF f
<1>4. SumsUp(S, f)
  <2>1. \A s \in SUBSET S : f[s] = IF s = {} THEN 0 ELSE Size[Any(s)] + f[s \ {Any(s)}]
    BY <1>3, Zenon
  <2> QED
    BY <2>1 DEF SumsUp
<1>5. \A s \in SUBSET S : f[s] = g[s]
  BY <1>1, <1>4, SumsAgree
<1> QED
  BY <1>4, <1>5 DEF f

LEMMA BytesSums ==
    ASSUME StagingConstants, NEW S \in SUBSET Uploads, IsFiniteSet(S), NEW s \in SUBSET S
    PROVE  Bytes(s) = SumFun(S)[s] /\ Bytes(s) \in Nat
<1>1. s \in SUBSET Uploads /\ IsFiniteSet(s)
  BY FS_Subset
<1>2. SumsUp(s, SumFun(s)) /\ SumsUp(S, SumFun(S)) /\ SumFun(S)[s] \in Nat
  BY <1>1, SumFunSums
<1>3. SumFun(s)[s] = SumFun(S)[s]
  BY <1>1, <1>2, SumsAgree
<1> QED
  BY <1>2, <1>3, BytesIs

LEMMA BytesAny ==
    ASSUME StagingConstants, NEW S \in SUBSET Uploads, IsFiniteSet(S)
    PROVE  /\ Bytes(S) \in Nat
           /\ S = {} => Bytes(S) = 0
           /\ S # {} => Bytes(S) = Size[Any(S)] + Bytes(S \ {Any(S)})
<1>1. SumsUp(S, SumFun(S))
  BY SumFunSums
<1>2. Bytes(S) = SumFun(S)[S] /\ Bytes(S) \in Nat
  BY BytesSums
<1>3. Bytes(S \ {Any(S)}) = SumFun(S)[S \ {Any(S)}]
  BY BytesSums
<1> QED
  BY <1>1, <1>2, <1>3 DEF SumsUp

\* Whichever element is taken out: the sum does not depend on the order.
LEMMA BytesWithout ==
    ASSUME StagingConstants, NEW S \in SUBSET Uploads, IsFiniteSet(S), NEW u \in S
    PROVE  Bytes(S) = Size[u] + Bytes(S \ {u})
<1> DEFINE P == {s \in SUBSET S : \A v \in s : Bytes(s) = Size[v] + Bytes(s \ {v})}
<1>0. \A s \in SUBSET S : IsFiniteSet(s) /\ s \in SUBSET Uploads /\ Bytes(s) \in Nat
  BY FS_Subset, BytesAny
<1>a. \A v \in S : Size[v] \in Nat
  BY DEF StagingConstants
<1>1. ASSUME NEW s \in SUBSET S, \A x \in s : s \ {x} \in P, NEW v \in s
      PROVE  Bytes(s) = Size[v] + Bytes(s \ {v})
  <2> DEFINE a == Any(s)
  <2>1. a \in s
    BY AnyIn
  <2>2. Bytes(s) = Size[a] + Bytes(s \ {a})
    BY <1>0, BytesAny
  <2>3. CASE a # v
    <3>1. Bytes(s \ {a}) = Size[v] + Bytes((s \ {a}) \ {v})
      BY <1>1, <2>1, <2>3
    <3>2. Bytes(s \ {v}) = Size[a] + Bytes((s \ {v}) \ {a})
      BY <1>1, <2>1, <2>3
    <3>3. (s \ {a}) \ {v} = (s \ {v}) \ {a}
      OBVIOUS
    <3>4. Bytes((s \ {v}) \ {a}) \in Nat /\ Size[a] \in Nat /\ Size[v] \in Nat
      BY <1>0, <1>a, <2>1
    <3> DEFINE rest == Bytes((s \ {v}) \ {a})
    <3>5. Bytes(s \ {a}) = Size[v] + rest /\ Bytes(s \ {v}) = Size[a] + rest
      BY <3>1, <3>2, <3>3
    <3>6. rest \in Nat /\ Size[a] \in Nat /\ Size[v] \in Nat
      BY <3>4
    <3> HIDE DEF a, rest
    <3> QED
      BY <2>2, <3>5, <3>6
  <2> QED
    BY <2>2, <2>3
<1>2. P = SUBSET S
  <2>1. P \in SUBSET (SUBSET S)
    OBVIOUS
  <2>2. \A s \in SUBSET S : (\A x \in s : s \ {x} \in P) => s \in P
    BY <1>1
  <2> HIDE DEF P
  <2> QED
    BY <2>1, <2>2, SubsetInduction
<1> QED
  BY <1>2

\* More uploads do not weigh less.
LEMMA BytesGrow ==
    ASSUME StagingConstants, NEW S \in SUBSET Uploads, IsFiniteSet(S), NEW T \in SUBSET S
    PROVE  Bytes(T) <= Bytes(S)
<1> DEFINE P == {s \in SUBSET S : T \subseteq s => Bytes(T) <= Bytes(s)}
<1>0. \A s \in SUBSET S : IsFiniteSet(s) /\ s \in SUBSET Uploads /\ Bytes(s) \in Nat
  BY FS_Subset, BytesAny
<1>1. ASSUME NEW s \in SUBSET S, \A x \in s : s \ {x} \in P, T \subseteq s
      PROVE  Bytes(T) <= Bytes(s)
  <2>1. CASE T = s
    BY <1>0, <2>1
  <2>2. CASE T # s
    <3>1. PICK x \in s : x \notin T
      BY <1>1, <2>2
    <3>2. Bytes(T) <= Bytes(s \ {x})
      BY <1>1, <3>1
    <3>3. Bytes(s) = Size[x] + Bytes(s \ {x})
      BY <1>0, BytesWithout
    <3>4. Size[x] \in Nat /\ Bytes(s \ {x}) \in Nat /\ Bytes(T) \in Nat
      BY <1>0 DEF StagingConstants
    <3> QED
      BY <3>2, <3>3, <3>4
  <2> QED
    BY <2>1, <2>2
<1>2. P = SUBSET S
  <2>1. P \in SUBSET (SUBSET S)
    OBVIOUS
  <2>2. \A s \in SUBSET S : (\A x \in s : s \ {x} \in P) => s \in P
    BY <1>1
  <2> HIDE DEF P
  <2> QED
    BY <2>1, <2>2, SubsetInduction
<1> QED
  BY <1>2
-----------------------------------------------------------------------------
(* The quota *)

\* What the manifest has waiting counts until it expires, unless a lease protects it.
Filling(u) ==
    /\ manifest[u].status \in Waiting
    /\ u \in expired => manifest[u].status = "processing" /\ u \in live

MineOf(key) == {v \in Uploads : Filling(v) /\ ItemKey[Owner[v]] = key}
               \cup {v \in reserved : QuotaKey[Owner[v]] = key}
Everything == {v \in Uploads : Filling(v)} \cup reserved
Regular(u) == QuotaKey[Owner[u]] = ItemKey[Owner[u]]

\* The limits hold for the manifest, also while it cannot be read.
QuotaInv ==
    /\ IsFiniteSet(issued)
    /\ \A u \in Uploads : Regular(u) =>
           /\ Cardinality(MineOf(QuotaKey[Owner[u]])) <= setup.files
           /\ Bytes(MineOf(QuotaKey[Owner[u]])) <= setup.bytes
    /\ Bytes(Everything) <= setup.total

\* The assumption: who is counted under one key when staging and under another one
\* later shares the latter with nobody whose two keys are one.  Every principal that a
\* session or an API key stands for has one key; only a principal without either can
\* have two.
KeysApart ==
    \A u, v \in Uploads :
        Regular(u) /\ ItemKey[Owner[v]] = QuotaKey[Owner[u]] => Regular(v)

\* Every step but the reservation of a new upload.
Shrinks ==
    /\ setup' = setup /\ issued' = issued /\ reserved' \subseteq reserved
    /\ \A u \in Uploads : Filling(u)' => Filling(u) \/ u \in reserved

LEMMA FillingIssued ==
    ASSUME StageInv, NEW u \in Uploads, Filling(u)
    PROVE  u \in issued
BY FromInv, ItemFields DEF Filling, UploadSound

LEMMA ShrinkQuiet ==
    ASSUME setup' = setup, issued' = issued, reserved' \subseteq reserved, manifest' = manifest,
           live' \subseteq live, expired \subseteq expired'
    PROVE  Shrinks
BY DEF Shrinks, Filling

LEMMA ShrinkWrite ==
    ASSUME StageInv, setup' = setup, issued' = issued, reserved' \subseteq reserved, ~loadFailed,
           NEW u \in Uploads, NEW item \in Items, Stored(u, item),
           live' \subseteq live \cup {u}, expired \ {u} \subseteq expired',
           Filling(u)' => Filling(u) \/ u \in reserved
    PROVE  Shrinks
<1>1. ASSUME NEW v \in Uploads, v # u, Filling(v)' PROVE Filling(v)
  <2>1. manifest'[v] = items[v]
    BY <1>1, FromInv, StoredItem
  <2>2. items[v] = manifest[v] \/ Freed(v)
    BY FromInv DEF UploadSound
  <2>3. CASE items[v] = manifest[v]
    BY <1>1, <2>1, <2>3 DEF Filling
  <2>4. CASE Freed(v)
    <3>1. items[v].status = "staged" /\ manifest[v].status \in Waiting
      BY <2>4, ItemFields DEF Freed
    <3>2. v \notin expired
      BY <1>1, <2>1, <3>1 DEF Filling
    <3> QED
      BY <3>1, <3>2 DEF Filling
  <2> QED
    BY <2>2, <2>3, <2>4
<1> QED
  BY <1>1 DEF Shrinks

LEMMA ShrinkStaging ==
    ASSUME StagingConstants, StageInv, NEW u \in Uploads,
           StageFails(u) \/ StageCommit(u) \/ Lapse(u) \/ Expire(u) \/ Forget(Content[u])
    PROVE  Shrinks
<1>1. CASE StageFails(u)
  BY <1>1, ShrinkQuiet DEF StageFails, clock
<1>2. CASE StageCommit(u)
  <2>1. /\ u \in reserved /\ reserved' = reserved \ {u} /\ issued' = issued /\ setup' = setup
        /\ live' = live /\ expired' = expired
        /\ Stored(u, Staged(0)) \/ manifest' = manifest
    BY <1>2 DEF StageCommit, clock, Refused
  <2>2. ~loadFailed /\ Staged(0) \in Items
    BY <2>1, ReservedFresh, ItemTypes DEF StagingConstants
  <2> QED
    BY <2>1, <2>2, ShrinkQuiet, ShrinkWrite
<1>3. CASE Lapse(u)
  BY <1>3, ShrinkQuiet DEF Lapse
<1>4. CASE Expire(u)
  BY <1>4, ShrinkQuiet DEF Expire
<1>5. CASE Forget(Content[u])
  BY <1>5, ShrinkQuiet DEF Forget, clock
<1> QED
  BY <1>1, <1>2, <1>3, <1>4, <1>5

LEMMA ShrinkQuietWorker ==
    ASSUME NEW w \in Workers, Check(w) \/ Copy(w) \/ Index(w) \/ Recheck(w) \/ RemoveFile(w) \/ Fence(w)
    PROVE  Shrinks
<1>1. /\ setup' = setup /\ issued' = issued /\ reserved' = reserved /\ manifest' = manifest
      /\ live' = live /\ expired' = expired
  BY DEF Check, Copy, Index, Recheck, RemoveFile, Fence, clock
<1> QED
  BY <1>1, ShrinkQuiet

LEMMA ShrinkClaim ==
    ASSUME StagingConstants, StageInv, NEW w \in Workers, NEW u \in Uploads,
           Claim(w, u) \/ Withdraw(w, u)
    PROVE  Shrinks
<1>1. CASE Withdraw(w, u)
  <2>1. /\ items[u] = Staged(0) /\ setup' = setup /\ issued' = issued /\ reserved' = reserved
        /\ live' = live /\ expired' = expired
        /\ Stored(u, NoItem) \/ manifest' = manifest
    BY <1>1 DEF Withdraw, clock, Refused
  <2>2. ~loadFailed /\ NoItem \in Items
    BY <2>1, InUse, ItemFields, RestTypes
  <2>3. Stored(u, NoItem) => ~Filling(u)'
    BY <2>2, FromInv, StoredItem, ItemFields DEF Filling
  <2> QED
    BY <2>1, <2>2, <2>3, ShrinkQuiet, ShrinkWrite
<1>2. CASE Claim(w, u)
  <2> DEFINE next == items[u].attempt + 1
  <2>1. /\ setup' = setup /\ issued' = issued /\ reserved' = reserved /\ expired' = expired
        /\ ~loadFailed /\ items[u].status \in Waiting /\ u \notin expired /\ next <= MaxAttempt
        /\ \/ Stored(u, Processing(next)) /\ live' = live \cup {u}
           \/ manifest' = manifest /\ live' = live
    BY <1>2 DEF Claim, Refused
  <2>2. Processing(next) \in Items
    <3>1. items[u] \in Items /\ MaxAttempt \in Nat
      BY FromInv DEF Types, StagingConstants
    <3>2. next \in 0..MaxAttempt
      BY <2>1, <3>1, ItemOf
    <3> QED
      BY <3>2, ItemTypes
  <2>3. manifest[u].status \in Waiting
    BY <2>1, InUse, ItemFields
  <2>4. Filling(u)
    BY <2>1, <2>3 DEF Filling
  <2> HIDE DEF next
  <2> QED
    BY <2>1, <2>2, <2>4, ShrinkQuiet, ShrinkWrite
<1> QED
  BY <1>1, <1>2

LEMMA ShrinkWorker ==
    ASSUME StagingConstants, StageInv, NEW w \in Workers,
           Consume(w) \/ Delete(w) \/ Release(w) \/ Renew(w)
    PROVE  Shrinks
<1> PICK u : u = work[w].upload
  OBVIOUS
<1>1. work[w].at # "idle"
  BY DEF Consume, Delete, Release, Renew, Tracked
<1>2. u \in Uploads /\ ~loadFailed /\ items[u] \in Items /\ Types
  BY <1>1, AtWork, FromInv DEF Types
<1>3. setup' = setup /\ issued' = issued /\ reserved' = reserved
  BY DEF Consume, Delete, Release, Renew
<1>4. items[u].status = "processing" => manifest[u] = items[u] /\ items[u].status \in Waiting
  BY <1>2, InUse, ItemFields DEF Waiting
<1>5. CASE Consume(w)
  <2> DEFINE item == Consumed(items[u].attempt)
  <2>1. /\ expired' = expired
        /\ \/ Stored(u, item) /\ live' = live \ {u}
           \/ manifest' = manifest /\ live' = live
    BY <1>5 DEF Consume, Refused
  <2>2. item \in Items /\ item.status \notin Waiting
    BY <1>2, ItemOf, ItemTypes, ItemFields
  <2>3. Stored(u, item) => ~Filling(u)'
    BY <1>2, <2>2, StoredItem DEF Filling
  <2> HIDE DEF item
  <2> QED
    BY <1>2, <1>3, <2>1, <2>2, <2>3, ShrinkQuiet, ShrinkWrite
<1>6. CASE Delete(w)
  <2>1. /\ expired' = expired /\ live' = live
        /\ Stored(u, NoItem) \/ manifest' = manifest
    BY <1>6 DEF Delete, Refused, clock
  <2>2. NoItem \in Items /\ NoItem.status \notin Waiting
    BY RestTypes, ItemFields
  <2>3. Stored(u, NoItem) => ~Filling(u)'
    BY <1>2, <2>2, StoredItem DEF Filling
  <2> QED
    BY <1>2, <1>3, <2>1, <2>2, <2>3, ShrinkQuiet, ShrinkWrite
<1>7. CASE Release(w)
  <2> DEFINE item == Staged(items[u].attempt)
  <2>1. /\ expired' = expired
        /\ \/ Holds(w) /\ Stored(u, item) /\ live' = live \ {u}
           \/ manifest' = manifest /\ live' = live
    BY <1>7 DEF Release, Refused
  <2>2. item \in Items /\ item.status = "staged"
    BY <1>2, ItemOf, ItemTypes, ItemFields
  <2>3. Holds(w) => items[u].status = "processing"
    BY DEF Holds
  <2>4. Holds(w) /\ Stored(u, item) => (Filling(u)' => Filling(u))
    BY <1>2, <1>4, <2>1, <2>2, <2>3, StoredItem DEF Filling
  <2> HIDE DEF item
  <2> QED
    BY <1>2, <1>3, <2>1, <2>2, <2>4, ShrinkQuiet, ShrinkWrite
<1>8. CASE Renew(w)
  <2>1. /\ live' = live /\ items[u].status = "processing" /\ u \in live
        /\ \/ Stored(u, items[u]) /\ expired' = expired \ {u}
           \/ manifest' = manifest /\ expired' = expired
    BY <1>8 DEF Renew, Refused, Holds
  <2>2. Filling(u)
    BY <1>4, <2>1 DEF Filling
  <2> QED
    BY <1>2, <1>3, <2>1, <2>2, ShrinkQuiet, ShrinkWrite
<1> QED
  BY <1>5, <1>6, <1>7, <1>8

LEMMA ShrinkOther ==
    ASSUME StagingConstants, StageInv, CleanStep \/ Crash \/ Reload \/ UNCHANGED stagingVars
    PROVE  Shrinks
<1>1. CASE CleanRemove \/ CleanScan \/ Crash \/ Reload \/ UNCHANGED stagingVars
  <2>1. /\ setup' = setup /\ issued' = issued /\ reserved' \subseteq reserved /\ manifest' = manifest
        /\ live' = live /\ expired' = expired
    BY <1>1 DEF CleanRemove, CleanScan, Crash, Reload, stagingVars, clock
  <2> QED
    BY <2>1, ShrinkQuiet
<1>2. CASE CleanUp
  <2>1. /\ ~loadFailed /\ setup' = setup /\ issued' = issued /\ reserved' = reserved
        /\ live' = live /\ expired' = expired
    BY <1>2 DEF CleanUp, clock
  <2>2. manifest' = manifest \/ manifest' = [u \in Uploads |-> KeptItem(u)]
    <3> DEFINE freed == [u \in Uploads |-> IF u \in Abandoned
                                      THEN Staged(items[u].attempt) ELSE items[u]]
               kept  == [u \in Uploads |-> IF u \in Overdue THEN NoItem ELSE freed[u]]
    <3>1. kept = [u \in Uploads |-> KeptItem(u)]
      BY DEF FreedItem, KeptItem
    <3>2. manifest' = manifest \/ manifest' = kept
      BY <1>2 DEF CleanUp
    <3> HIDE DEF kept, freed
    <3> QED
      BY <3>1, <3>2
  <2>3. CASE manifest' = manifest
    BY <2>1, <2>3, ShrinkQuiet
  <2>4. CASE manifest' = [u \in Uploads |-> KeptItem(u)]
    <3>1. ASSUME NEW u \in Uploads, Filling(u)' PROVE Filling(u)
      <4>1. manifest'[u] = KeptItem(u)
        BY <2>4
      <4>2. u \notin Overdue
        BY <2>1, <3>1, <4>1, CleanItems, ItemFields DEF Filling
      <4>3. CASE u \in Abandoned
        <5>1. items[u] = manifest[u] /\ items[u].status = "processing" /\ u \notin expired
          BY <2>1, <4>3, CleanItems DEF Abandoned
        <5> QED
          BY <5>1 DEF Filling, Waiting
      <4>4. CASE u \notin Abandoned
        <5>1. manifest'[u] = items[u]
          BY <2>1, <4>1, <4>2, <4>4, CleanItems
        <5>2. items[u] = manifest[u] \/ Freed(u)
          BY <2>1, FromInv DEF UploadSound
        <5>3. CASE items[u] = manifest[u]
          BY <2>1, <3>1, <5>1, <5>3 DEF Filling
        <5>4. CASE Freed(u)
          <6>1. items[u].status = "staged" /\ manifest[u].status \in Waiting
            BY <5>4, ItemFields DEF Freed
          <6> QED
            BY <2>1, <3>1, <5>1, <6>1 DEF Filling
        <5> QED
          BY <5>2, <5>3, <5>4
      <4> QED
        BY <4>3, <4>4
    <3> QED
      BY <2>1, <3>1 DEF Shrinks
  <2> QED
    BY <2>2, <2>3, <2>4
<1> QED
  BY <1>1, <1>2 DEF CleanStep

LEMMA QuotaSets ==
    ASSUME StagingConstants, StageInv, IsFiniteSet(issued)
    PROVE  /\ setup.files \in Nat /\ setup.bytes \in Nat /\ setup.total \in Nat
           /\ issued \in SUBSET Uploads /\ Everything \subseteq issued
           /\ \A key : MineOf(key) \subseteq issued
<1>1. setup.files \in Nat /\ setup.bytes \in Nat /\ setup.total \in Nat
  <2>1. setup \in Setups
    BY FromInv DEF Types
  <2> QED
    BY <2>1 DEF StagingConstants
<1>2. issued \subseteq Uploads /\ reserved \subseteq issued
  BY FromInv DEF Types
<1> QED
  BY <1>1, <1>2, FillingIssued DEF Everything, MineOf

\* A set of uploads within a larger one weighs no more.
LEMMA Within ==
    ASSUME StagingConstants, NEW S \in SUBSET Uploads, IsFiniteSet(S), NEW T \in SUBSET S
    PROVE  /\ IsFiniteSet(T) /\ Cardinality(T) <= Cardinality(S) /\ Bytes(T) <= Bytes(S)
           /\ Cardinality(T) \in Nat /\ Cardinality(S) \in Nat /\ Bytes(T) \in Nat /\ Bytes(S) \in Nat
<1>1. IsFiniteSet(T) /\ Cardinality(T) <= Cardinality(S)
  BY FS_Subset
<1>2. Bytes(T) <= Bytes(S)
  BY BytesGrow
<1>3. Bytes(T) \in Nat /\ Bytes(S) \in Nat
  BY <1>1, BytesAny
<1> QED
  BY <1>1, <1>2, <1>3, FS_CardinalityType

LEMMA QuotaInit == StagingConstants /\ StagingInit => QuotaInv
<1> SUFFICES ASSUME StagingConstants, StagingInit PROVE QuotaInv
  OBVIOUS
<1>1. StageInv
  BY StageInit
<1>2. issued = {}
  BY DEF StagingInit
<1>3. IsFiniteSet(issued)
  BY <1>2, FS_EmptySet
<1>4. /\ setup.files \in Nat /\ setup.bytes \in Nat /\ setup.total \in Nat
      /\ Everything = {} /\ \A key : MineOf(key) = {}
  BY <1>1, <1>2, <1>3, QuotaSets
<1>5. Cardinality({}) = 0 /\ Bytes({}) = 0
  BY FS_EmptySet, BytesAny
<1> QED
  BY <1>3, <1>4, <1>5 DEF QuotaInv

LEMMA QuotaShrinks ==
    ASSUME StagingConstants, KeysApart, StageInv, QuotaInv, Shrinks
    PROVE  QuotaInv'
<1>1. IsFiniteSet(issued) /\ setup' = setup
  BY DEF QuotaInv, Shrinks
<1>2. /\ setup.files \in Nat /\ setup.bytes \in Nat /\ setup.total \in Nat
      /\ issued \in SUBSET Uploads /\ Everything \subseteq issued
      /\ \A key : MineOf(key) \subseteq issued
  BY <1>1, QuotaSets
<1>3. ASSUME NEW u \in Uploads, Regular(u)
      PROVE  /\ Cardinality(MineOf(QuotaKey[Owner[u]])') <= setup.files
             /\ Bytes(MineOf(QuotaKey[Owner[u]])') <= setup.bytes
  <2> DEFINE mine == MineOf(QuotaKey[Owner[u]])
  <2>1. mine' \subseteq mine
    <3>1. ASSUME NEW v \in Uploads, Filling(v)', ItemKey[Owner[v]] = QuotaKey[Owner[u]]
          PROVE  v \in mine
      <4>1. Filling(v) \/ v \in reserved
        BY <3>1 DEF Shrinks
      <4>2. QuotaKey[Owner[v]] = QuotaKey[Owner[u]]
        BY <1>3, <3>1 DEF KeysApart, Regular
      <4> QED
        BY <3>1, <4>1, <4>2 DEF MineOf
    <3>2. ASSUME NEW v \in reserved', QuotaKey[Owner[v]] = QuotaKey[Owner[u]]
          PROVE  v \in mine
      BY <3>2 DEF Shrinks, MineOf
    <3> QED
      BY <3>1, <3>2 DEF MineOf
  <2>2. Cardinality(mine) <= setup.files /\ Bytes(mine) <= setup.bytes
    BY <1>3 DEF QuotaInv
  <2>3. mine \in SUBSET Uploads /\ IsFiniteSet(mine)
    BY <1>1, <1>2, FS_Subset
  <2> DEFINE after == mine'
  <2> HIDE DEF mine
  <2>4. /\ Cardinality(after) <= Cardinality(mine) /\ Bytes(after) <= Bytes(mine)
        /\ Cardinality(after) \in Nat /\ Cardinality(mine) \in Nat /\ Bytes(after) \in Nat
        /\ Bytes(mine) \in Nat
    BY <2>1, <2>3, Within
  <2> HIDE DEF after
  <2>5. Cardinality(after) <= setup.files /\ Bytes(after) <= setup.bytes
    BY <1>2, <2>2, <2>4
  <2> QED
    BY <2>5 DEF after, mine
<1>4. Bytes(Everything') <= setup.total
  <2>1. Everything' \subseteq Everything
    BY DEF Shrinks, Everything
  <2>2. Everything \in SUBSET Uploads /\ IsFiniteSet(Everything)
    BY <1>1, <1>2, FS_Subset
  <2>3. Bytes(Everything') <= Bytes(Everything) /\ Bytes(Everything') \in Nat /\ Bytes(Everything) \in Nat
    BY <2>1, <2>2, Within
  <2>4. Bytes(Everything) <= setup.total
    BY DEF QuotaInv
  <2> QED
    BY <1>2, <2>3, <2>4
<1>5. IsFiniteSet(issued')
  BY <1>1 DEF Shrinks
<1> QED
  BY <1>1, <1>3, <1>4, <1>5 DEF QuotaInv, Regular

\* While the manifest can be read, memory and manifest agree on what counts.
LEMMA CountedFilling ==
    ASSUME StageInv, ~loadFailed, NEW u \in Uploads
    PROVE  u \in Counted <=> Filling(u)
<1>1. items[u] = manifest[u] \/ Freed(u)
  BY FromInv DEF UploadSound
<1>2. Freed(u) => /\ items[u].status = "staged" /\ items[u].status \in Waiting
                  /\ manifest[u].status \in Waiting /\ u \notin live
  BY ItemFields DEF Freed, Waiting
<1> QED
  BY <1>1, <1>2 DEF Counted, Filling, Lapsed, LeaseActive

LEMMA QuotaReserve ==
    ASSUME StagingConstants, StageInv, QuotaInv, NEW u \in Uploads, StageReserve(u)
    PROVE  QuotaInv'
<1>1. /\ ~loadFailed /\ u \notin issued /\ WithinQuota(u, reserved) /\ setup' = setup
      /\ issued' = issued \cup {u} /\ reserved' = reserved \cup {u}
      /\ manifest' = manifest /\ live' = live /\ expired' = expired
  BY DEF StageReserve, clock
<1>2. \A v \in Uploads : (Filling(v)' <=> Filling(v)) /\ (v \in Counted <=> Filling(v))
  BY <1>1, CountedFilling DEF Filling
<1>a. IsFiniteSet(issued) /\ IsFiniteSet(issued')
  BY <1>1, FS_AddElement DEF QuotaInv
<1>3. /\ setup.files \in Nat /\ setup.bytes \in Nat /\ setup.total \in Nat
      /\ issued \in SUBSET Uploads /\ Everything \subseteq issued
      /\ \A key : MineOf(key) \subseteq issued
  BY <1>a, QuotaSets
<1>4. Counted = {v \in Uploads : Filling(v)}
  BY <1>2 DEF Counted
<1>5. ASSUME NEW S \in SUBSET issued
      PROVE  /\ Cardinality(S \cup {u}) = Cardinality(S) + 1 /\ Cardinality(S) \in Nat
             /\ Bytes(S \cup {u}) = Bytes(S) + Size[u] /\ Bytes(S) \in Nat /\ Size[u] \in Nat
  <2>1. S \in SUBSET Uploads /\ IsFiniteSet(S) /\ u \notin S
    BY <1>1, <1>3, <1>a, FS_Subset
  <2>2. Cardinality(S \cup {u}) = Cardinality(S) + 1 /\ Cardinality(S) \in Nat /\ IsFiniteSet(S \cup {u})
    BY <2>1, FS_AddElement, FS_CardinalityType
  <2>3. Bytes(S \cup {u}) = Size[u] + Bytes((S \cup {u}) \ {u})
    BY <2>1, <2>2, BytesWithout
  <2>4. (S \cup {u}) \ {u} = S
    BY <2>1
  <2>5. Bytes(S) \in Nat /\ Size[u] \in Nat
    BY <2>1, BytesAny DEF StagingConstants
  <2>6. Bytes(S \cup {u}) = Size[u] + Bytes(S)
    BY <2>3, <2>4
  <2> QED
    BY <2>2, <2>5, <2>6
<1>6. Bytes(Everything') <= setup.total
  <2>1. Everything' = Everything \cup {u}
    BY <1>1, <1>2 DEF Everything
  <2>2. Bytes(Counted \cup reserved) + Size[u] <= setup.total
    BY <1>1 DEF WithinQuota
  <2>3. Counted \cup reserved = Everything
    BY <1>4 DEF Everything
  <2>4. Bytes(Everything) + Size[u] <= setup.total
    BY <2>2, <2>3
  <2>5. Bytes(Everything \cup {u}) = Bytes(Everything) + Size[u]
    BY <1>3, <1>5
  <2> QED
    BY <2>1, <2>4, <2>5
<1>7. ASSUME NEW v \in Uploads, Regular(v)
      PROVE  /\ Cardinality(MineOf(QuotaKey[Owner[v]])') <= setup.files
             /\ Bytes(MineOf(QuotaKey[Owner[v]])') <= setup.bytes
  <2>1. CASE QuotaKey[Owner[v]] # QuotaKey[Owner[u]]
    <3>1. MineOf(QuotaKey[Owner[v]])' = MineOf(QuotaKey[Owner[v]])
      BY <1>1, <1>2, <2>1 DEF MineOf
    <3> QED
      BY <1>7, <3>1 DEF QuotaInv
  <2>2. CASE QuotaKey[Owner[v]] = QuotaKey[Owner[u]]
    <3> DEFINE mine == MineOf(QuotaKey[Owner[u]])
    <3>1. MineOf(QuotaKey[Owner[v]])' = mine \cup {u}
      BY <1>1, <1>2, <2>2 DEF MineOf
    <3>2. CountedFor(QuotaKey[Owner[u]], reserved) = mine
      BY <1>4 DEF CountedFor, MineOf
    <3>3. Cardinality(mine) < setup.files /\ Bytes(mine) + Size[u] <= setup.bytes
      BY <1>1, <3>2 DEF WithinQuota
    <3>4. mine \in SUBSET issued
      BY <1>3
    <3> HIDE DEF mine
    <3>5. /\ Cardinality(mine \cup {u}) = Cardinality(mine) + 1 /\ Cardinality(mine) \in Nat
          /\ Bytes(mine \cup {u}) = Bytes(mine) + Size[u]
      BY <1>5, <3>4
    <3>6. Cardinality(mine \cup {u}) <= setup.files /\ Bytes(mine \cup {u}) <= setup.bytes
      BY <1>3, <3>3, <3>5
    <3> QED
      BY <3>1, <3>6
  <2> QED
    BY <2>1, <2>2
<1> QED
  BY <1>1, <1>a, <1>6, <1>7 DEF QuotaInv, Regular

LEMMA QuotaStep ==
    ASSUME StagingConstants, KeysApart, StageInv, QuotaInv, [StagingNext]_stagingVars
    PROVE  QuotaInv'
<1>1. CASE \E u \in Uploads : StageReserve(u)
  BY <1>1, QuotaReserve
<1>2. CASE Shrinks
  BY <1>2, QuotaShrinks
<1>3. ASSUME NEW u \in Uploads,
             StageFails(u) \/ StageCommit(u) \/ Lapse(u) \/ Expire(u) \/ Forget(Content[u])
      PROVE  Shrinks
  BY <1>3, ShrinkStaging
<1>4. ASSUME NEW w \in Workers, WorkStep(w) \/ Renew(w) \/ Fence(w)
      PROVE  Shrinks
  BY <1>4, ShrinkQuietWorker, ShrinkWorker DEF WorkStep
<1>5. ASSUME NEW w \in Workers, NEW u \in Uploads, Claim(w, u) \/ Withdraw(w, u)
      PROVE  Shrinks
  BY <1>5, ShrinkClaim
<1>6. CASE CleanStep \/ Crash \/ Reload \/ UNCHANGED stagingVars
  BY <1>6, <1>2, ShrinkOther
<1> QED
  BY <1>1, <1>2, <1>3, <1>4, <1>5, <1>6 DEF StagingNext

LEMMA QuotaHolds ==
    ASSUME StagingConstants, StageInv, QuotaInv
    PROVE  QuotaKept
<1>1. IsFiniteSet(issued)
  BY DEF QuotaInv
<1>2. /\ setup.files \in Nat /\ setup.bytes \in Nat /\ setup.total \in Nat
      /\ issued \in SUBSET Uploads /\ Everything \subseteq issued
      /\ \A key : MineOf(key) \subseteq issued
  BY <1>1, QuotaSets
<1>3. Counted \subseteq {u \in Uploads : Filling(u)}
  <2>1. CASE loadFailed
    <3>1. \A u \in Uploads : items[u].status \notin Waiting
      BY <2>1, FromInv, ItemFields DEF UploadSound
    <3> QED
      BY <3>1 DEF Counted
  <2>2. CASE ~loadFailed
    BY <2>2, CountedFilling DEF Counted
  <2> QED
    BY <2>1, <2>2
<1>4. ASSUME NEW u \in Uploads, QuotaKey[Owner[u]] = ItemKey[Owner[u]],
             NEW mine, mine = CountedFor(QuotaKey[Owner[u]], reserved) \cup
                              {v \in reserved : QuotaKey[Owner[v]] = QuotaKey[Owner[u]]}
      PROVE  Cardinality(mine) <= setup.files /\ Bytes(mine) <= setup.bytes
  <2> DEFINE all == MineOf(QuotaKey[Owner[u]])
  <2>1. mine \subseteq all
    BY <1>3, <1>4 DEF CountedFor, MineOf
  <2>2. Cardinality(all) <= setup.files /\ Bytes(all) <= setup.bytes
    BY <1>4 DEF QuotaInv, Regular
  <2>3. all \in SUBSET Uploads /\ IsFiniteSet(all)
    BY <1>1, <1>2, FS_Subset
  <2> HIDE DEF all
  <2>4. /\ Cardinality(mine) <= Cardinality(all) /\ Bytes(mine) <= Bytes(all)
        /\ Cardinality(mine) \in Nat /\ Cardinality(all) \in Nat
        /\ Bytes(mine) \in Nat /\ Bytes(all) \in Nat
    BY <2>1, <2>3, Within
  <2> QED
    BY <1>2, <2>2, <2>4
<1>5. Bytes(Counted \cup reserved) <= setup.total
  <2> DEFINE some == Counted \cup reserved
  <2>1. some \subseteq Everything
    BY <1>3 DEF Everything
  <2>2. Everything \in SUBSET Uploads /\ IsFiniteSet(Everything)
    BY <1>1, <1>2, FS_Subset
  <2> HIDE DEF some
  <2>3. Bytes(some) <= Bytes(Everything) /\ Bytes(some) \in Nat /\ Bytes(Everything) \in Nat
    BY <2>1, <2>2, Within
  <2>4. Bytes(Everything) <= setup.total
    BY DEF QuotaInv
  <2>5. Bytes(some) <= setup.total
    BY <1>2, <2>3, <2>4
  <2> QED
    BY <2>5 DEF some
<1> QED
  BY <1>4, <1>5 DEF QuotaKept

\* However many copies run at once, and whatever fails or restarts meanwhile, neither a
\* principal nor all of them together have more waiting or in copy than the limits allow.
THEOREM QuotaRespected == KeysApart /\ StagingSpec => []QuotaKept
<1> SUFFICES ASSUME KeysApart PROVE StagingSpec => []QuotaKept
  OBVIOUS
<1>1. StagingConstants
  BY StagingConstants
<1>2. StagingInit => QuotaInv
  BY <1>1, QuotaInit
<1>3. StageInv /\ QuotaInv /\ [StagingNext]_stagingVars => QuotaInv'
  BY <1>1, QuotaStep
<1>4. StageInv /\ QuotaInv => QuotaKept
  BY <1>1, QuotaHolds
<1> QED
  BY <1>2, <1>3, <1>4, StageAlways, PTL DEF StagingSpec
=============================================================================
