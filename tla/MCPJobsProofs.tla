---------------------------- MODULE MCPJobsProofs ----------------------------
(***************************************************************************)
(* Type correctness and the safety properties of MCPJobs, for every        *)
(* number of jobs, processes and slots. None of the properties is          *)
(* inductive as it stands.                                                 *)
(*                                                                         *)
(* SlotBinding. A write from memory is guarded by the lease in memory,     *)
(* and a slot is released by a second statement after the row: SlotInv     *)
(* adds what a lease in memory says of the stored row, and that the        *)
(* attempt of a release still to come is over.                             *)
(*                                                                         *)
(* The others share a description of a step, so that each of them only     *)
(* reasons about it and never about the actions again: Fate says what a    *)
(* step may make of a row, of a copy in memory and of a claim, Onward what *)
(* it may make of a worker, and Line what it may make of the parent and    *)
(* the retries of a job.                                                   *)
(***************************************************************************)
EXTENDS MCPJobs, FiniteSetTheorems, TLAPS
-----------------------------------------------------------------------------
(* Lemmas about the helpers of the store *)

\* A stored job read by a process has the columns of a copy.
LEMMA CopyType ==
    ASSUME NEW r \in Row, r.status \in Active \cup Terminal
    PROVE  CopyOf(r) \in Copy
BY DEF Row, Copy, CopyOf, Active, Terminal

\* A row written from a copy is well typed.
LEMMA UpdateType ==
    ASSUME JobConstants, NEW c \in Copy
    PROVE  Update(c) \in Row
BY DEF Row, Copy, Update, Active, Terminal, JobConstants

LEMMA UpdateStateType ==
    ASSUME row \in [Jobs -> Row], NEW j \in Jobs, NEW c \in Copy
    PROVE  /\ UpdateState(j, c) \in Row
           /\ UpdateState(j, c).owner = row[j].owner
           /\ UpdateState(j, c).ttl = row[j].ttl
           /\ UpdateState(j, c).attempt = c.attempt
           /\ UpdateState(j, c).status = c.status
           /\ UpdateState(j, c).recovery = c.recovery
<1>1. row[j] \in Row
  OBVIOUS
<1> QED
  BY <1>1 DEF Row, Copy, Update, UpdateState, Active, Terminal

\* A claim starts a new attempt under a fresh lease.
LEMMA ClaimedFields ==
    ASSUME JobConstants, row \in [Jobs -> Row],
           NEW j \in Jobs, NEW w \in Workers, NEW recovery \in Recovery
    PROVE  /\ Claimed(j, w, recovery).attempt = row[j].attempt + 1
           /\ Claimed(j, w, recovery).owner = w
           /\ Claimed(j, w, recovery).ttl = LeaseTicks
           /\ Claimed(j, w, recovery).recovery = recovery
<1>1. row[j] \in Row
  OBVIOUS
<1> QED
  BY <1>1 DEF Row, Claimed

LEMMA ClaimedType ==
    ASSUME JobConstants, row \in [Jobs -> Row],
           NEW j \in Jobs, NEW w \in Workers, NEW recovery \in Recovery
    PROVE  /\ Claimed(j, w, recovery) \in Row
           /\ Claimed(j, w, recovery).status = "queued"
<1>1. row[j] \in Row
  OBVIOUS
<1>2. /\ row[j].attempt + 1 \in Nat
      /\ LeaseTicks \in 0..LeaseTicks
      /\ w \in Workers \cup {Null}
  BY <1>1 DEF Row, JobConstants
<1> QED
  BY <1>1, <1>2 DEF Row, Claimed

\* Ageing and renewing a lease keep a row or a slot well typed.
SlotRow == [worker: Workers \cup {Null}, job: Jobs \cup {Null}, attempt: Nat,
            ttl: 0..LeaseTicks]

LEMMA TtlType ==
    ASSUME NEW n \in 0..LeaseTicks
    PROVE  /\ \A r \in Row : [r EXCEPT !.ttl = n] \in Row
           /\ \A s \in SlotRow : [s EXCEPT !.ttl = n] \in SlotRow
<1>1. ASSUME NEW r \in Row PROVE [r EXCEPT !.ttl = n] \in Row
  BY DEF Row
<1>2. ASSUME NEW s \in SlotRow PROVE [s EXCEPT !.ttl = n] \in SlotRow
  BY DEF SlotRow
<1> QED
  BY <1>1, <1>2

\* The records of worker goroutines.
LEMMA NewRunType ==
    ASSUME NEW w \in Workers, NEW j \in Jobs, NEW a \in Nat, NEW b \in BOOLEAN
    PROVE  NewRun(w, j, a, b) \in Run
BY DEF NewRun, Run

LEMMA WithCancelledType ==
    ASSUME runs \subseteq Run, NEW w, NEW js
    PROVE  WithCancelled(w, js) \subseteq Run
<1>1. \A r \in Run : [r EXCEPT !.live = FALSE] \in Run
  BY DEF Run
<1> QED
  BY <1>1 DEF WithCancelled

LEMMA FreeSlotType ==
    JobConstants => FreeSlot \in [worker: Workers \cup {Null}, job: Jobs \cup {Null},
                                   attempt: Nat, ttl: 0..LeaseTicks]
BY DEF FreeSlot, JobConstants
-----------------------------------------------------------------------------
(* Type correctness, one lemma per group of actions *)

LEMMA TypeInit == JobConstants /\ Init => TypeOK
<1>1. JobConstants => NoRow \in Row
  BY DEF NoRow, Row, JobConstants, Recovery
<1> QED
  BY <1>1, FreeSlotType DEF Init, TypeOK

LEMMA TypeStart ==
    ASSUME TypeOK, NEW w \in Workers, Start(w)
    PROVE  TypeOK'
<1>1. \A j \in Jobs : Exists(j) => CopyOf(row[j]) \in Copy
  BY CopyType DEF TypeOK, Exists, Row, Active, Terminal
<1>2. cache' \in [Workers -> [Jobs -> Copy \cup {NoCopy}]]
  BY <1>1 DEF TypeOK, Start
<1> QED
  BY <1>2 DEF TypeOK, Start

LEMMA TypeLoad ==
    ASSUME TypeOK, NEW w \in Workers, NEW j \in Jobs, Load(w, j)
    PROVE  TypeOK'
<1>1. CopyOf(row[j]) \in Copy
  BY CopyType DEF TypeOK, Load, Exists, Row, Active, Terminal
<1> QED
  BY <1>1 DEF TypeOK, Load

LEMMA TypeCrash ==
    ASSUME TypeOK, NEW w \in Workers, Crash(w)
    PROVE  TypeOK'
BY DEF TypeOK, Crash, RunsOf

LEMMA TypeTick ==
    ASSUME JobConstants, TypeOK, Tick
    PROVE  TypeOK'
<1>1. \A n \in 0..LeaseTicks : Aged(n) \in 0..LeaseTicks
  BY DEF Aged, JobConstants
<1>2. \A j \in Jobs : row[j] \in Row /\ Aged(row[j].ttl) \in 0..LeaseTicks
  BY <1>1 DEF TypeOK, Row
<1>3. row' \in [Jobs -> Row]
  BY <1>2, TtlType DEF Tick
<1>4. \A s \in Slots : slot[s] \in SlotRow /\ Aged(slot[s].ttl) \in 0..LeaseTicks
  BY <1>1 DEF TypeOK, SlotRow
<1>5. slot' \in [Slots -> SlotRow]
  BY <1>4, TtlType DEF Tick
<1> QED
  BY <1>3, <1>5 DEF TypeOK, Tick, SlotRow

LEMMA TypeRegisterCreate ==
    ASSUME JobConstants, TypeOK, NEW w \in Workers, NEW j \in Jobs,
           NEW parent \in Jobs \cup {Null}, RegisterCreate(w, j, parent)
    PROVE  TypeOK'
<1>1. NoRow \in Row
  BY DEF NoRow, Row, JobConstants, Recovery
<1>2. [NoRow EXCEPT !.status = "queued", !.retryable = TRUE, !.resumable = TRUE] \in Row
  BY <1>1 DEF Row
<1>3. parent # Null => parent \in Jobs /\ cache[w][parent] \in Copy
  BY DEF TypeOK, RegisterCreate, Retryable, Known
<1>4. (IF parent = Null THEN 0 ELSE cache[w][parent].retries + 1) \in Nat
  BY <1>3 DEF Copy
<1> QED
  BY <1>2, <1>3, <1>4 DEF TypeOK, RegisterCreate

LEMMA TypeRegisterClaim ==
    ASSUME JobConstants, TypeOK, NEW w \in Workers, RegisterClaim(w)
    PROVE  TypeOK'
<1> DEFINE new(c) == Claimed(c.job, w, "")
           mem(c) == [cache[w] EXCEPT ![c.job] = CopyOf(new(c))]
<1>1. PICK c \in creating[w] :
        /\ row' = [row EXCEPT ![c.job] = new(c)]
        /\ \E gone \in Evicted(mem(c)) :
              /\ cache' = [cache EXCEPT ![w] =
                    [j \in Jobs |-> IF j \in gone THEN NoCopy ELSE mem(c)[j]]]
              /\ retrying' = [retrying EXCEPT ![w] = @ \ gone]
        /\ runs' = runs \cup {NewRun(w, c.job, new(c).attempt, FALSE)}
        /\ links' = [links EXCEPT ![w] = IF c.parent = Null THEN @ ELSE @ \cup
              {[parent |-> c.parent, child |-> c.job, count |-> c.count]}]
        /\ creating' = [creating EXCEPT ![w] = {}]
        /\ UNCHANGED <<slot, proc, pending, releasing, toRelease, asked,
                       faults>>
  BY Zenon DEF RegisterClaim
<1>2. c.job \in Jobs /\ c.parent \in Jobs \cup {Null} /\ c.count \in Nat
  BY DEF TypeOK
<1>3. new(c) \in Row /\ new(c).status = "queued" /\ new(c).attempt \in Nat
  <2>1. "" \in Recovery
    BY DEF Recovery
  <2>2. row \in [Jobs -> Row]
    BY DEF TypeOK
  <2>3. new(c) \in Row /\ new(c).status = "queued"
    BY <1>2, <2>1, <2>2, ClaimedType
  <2> QED
    BY <2>3 DEF Row
<1>4. CopyOf(new(c)) \in Copy
  BY <1>3, CopyType DEF Active
<1> HIDE DEF new
<1>5. row' \in [Jobs -> Row]
  BY <1>1, <1>2, <1>3 DEF TypeOK
<1>6. mem(c) \in [Jobs -> Copy \cup {NoCopy}]
  BY <1>2, <1>4 DEF TypeOK
<1> HIDE DEF mem
<1>7. cache' \in [Workers -> [Jobs -> Copy \cup {NoCopy}]]
  <2>1. PICK gone : cache' = [cache EXCEPT ![w] =
                       [j \in Jobs |-> IF j \in gone THEN NoCopy ELSE mem(c)[j]]]
    BY <1>1
  <2>2. [j \in Jobs |-> IF j \in gone THEN NoCopy ELSE mem(c)[j]]
          \in [Jobs -> Copy \cup {NoCopy}]
    BY <1>6
  <2> QED
    BY <2>1, <2>2 DEF TypeOK
<1>11. retrying' \in [Workers -> SUBSET Jobs]
  <2>1. PICK gone : retrying' = [retrying EXCEPT ![w] = @ \ gone]
    BY <1>1
  <2> QED
    BY <2>1 DEF TypeOK
<1>8. runs' \subseteq Run
  <2>1. NewRun(w, c.job, new(c).attempt, FALSE) \in Run
    BY <1>2, <1>3, NewRunType
  <2> QED
    BY <1>1, <2>1 DEF TypeOK
<1>9. links' \in [Workers -> SUBSET [parent: Jobs, child: Jobs, count: Nat]]
  <2>1. CASE c.parent = Null
    BY <1>1, <2>1 DEF TypeOK
  <2>2. CASE c.parent # Null
    <3>1. [parent |-> c.parent, child |-> c.job, count |-> c.count]
             \in [parent: Jobs, child: Jobs, count: Nat]
      BY <1>2, <2>2
    <3> QED
      BY <1>1, <2>2, <3>1 DEF TypeOK
  <2> QED
    BY <2>1, <2>2
<1>10. creating' \in [Workers -> SUBSET [job: Jobs, parent: Jobs \cup {Null},
                                         count: Nat]]
  BY <1>1 DEF TypeOK
<1> QED
  BY <1>1, <1>5, <1>7, <1>8, <1>9, <1>10, <1>11 DEF TypeOK

LEMMA TypeRegisterUndo ==
    ASSUME JobConstants, TypeOK, NEW w \in Workers, RegisterUndo(w)
    PROVE  TypeOK'
<1>1. NoRow \in Row
  BY DEF NoRow, Row, JobConstants, Recovery
<1>2. Deleted \in Row
  BY <1>1 DEF Deleted, Row
<1>3. PICK c \in creating[w] :
        /\ row' = row \/ row' = [row EXCEPT ![c.job] = Deleted]
        /\ \/ slot' = slot
           \/ slot' = [s \in Slots |-> IF slot[s].job = c.job THEN FreeSlot
                                      ELSE slot[s]]
        /\ faults' = faults \/ faults' = faults + 1
        /\ creating' = [creating EXCEPT ![w] = {}]
        /\ retrying' = [retrying EXCEPT ![w] = @ \ {c.parent}]
        /\ UNCHANGED <<proc, cache, runs, pending, links, releasing, toRelease,
                       asked>>
  BY DEF RegisterUndo
<1>4. row' \in [Jobs -> Row]
  <2>1. row \in [Jobs -> Row] /\ c.job \in Jobs
    BY DEF TypeOK
  <2> QED
    BY <1>2, <1>3, <2>1
<1>5. slot' \in [Slots -> SlotRow]
  <2>1. slot \in [Slots -> SlotRow] /\ FreeSlot \in SlotRow
    BY FreeSlotType DEF TypeOK, SlotRow
  <2> QED
    BY <1>3, <2>1
<1>6. faults' \in Nat
  BY <1>3 DEF TypeOK
<1> QED
  BY <1>3, <1>4, <1>5, <1>6 DEF TypeOK, SlotRow

\* LinkRetry refreshes memory with a stored row and keeps the lease known there.
LEMMA RefreshedType ==
    ASSUME NEW c \in Copy \cup {NoCopy}, NEW r \in Row,
           r.status \in Active \cup Terminal
    PROVE  Refreshed(c, r) \in Copy
<1>1. CopyOf(r) \in Copy
  BY CopyType
<1>2. c # NoCopy => c.owner \in Workers \cup {Null} /\ c.attempt \in Nat
  BY DEF Copy
<1>3. \A x \in Copy, o \in Workers \cup {Null} : [x EXCEPT !.owner = o] \in Copy
  BY DEF Copy
<1>4. \A x \in Copy, o \in Workers \cup {Null}, a \in Nat :
         [x EXCEPT !.owner = o, !.attempt = a] \in Copy
  BY DEF Copy
<1> QED
  BY <1>1, <1>2, <1>3, <1>4 DEF Refreshed

LEMMA TypeLinkRetry ==
    ASSUME TypeOK, NEW w \in Workers, LinkRetry(w)
    PROVE  TypeOK'
<1> DEFINE parent(l) == [row[l.parent] EXCEPT !.retryable = FALSE]
           child(l)  == [row[l.child] EXCEPT
                            !.retries = l.count, !.parent = l.parent,
                            !.retryable = \/ @
                                          \/ /\ row[l.child].status = "failed"
                                             /\ l.count < MaxRetries]
<1>1. PICK l \in links[w] :
        /\ links' = [links EXCEPT ![w] = @ \ {l}]
        /\ retrying' = [retrying EXCEPT ![w] = @ \ {l.parent}]
        /\ \/ /\ Consumable(l) /\ Exists(l.child)
              /\ row' = [row EXCEPT ![l.parent] = parent(l), ![l.child] = child(l)]
              /\ cache' = [cache EXCEPT ![w] = [j \in Jobs |->
                    IF j \in {l.parent, l.child}
                    THEN Refreshed(cache[w][j], row'[j]) ELSE cache[w][j]]]
              /\ UNCHANGED <<runs, asked>>
           \/ /\ runs' = WithCancelled(w, {l.child})
              /\ asked' = asked \cup {l.child}
              /\ UNCHANGED <<row, cache>>
        /\ UNCHANGED <<slot, proc, creating, pending, releasing, toRelease,
                       faults>>
  BY Zenon DEF LinkRetry
<1>2. l.parent \in Jobs /\ l.child \in Jobs /\ l.count \in Nat
  BY DEF TypeOK
<1>3. row[l.parent] \in Row /\ row[l.child] \in Row
  BY <1>2 DEF TypeOK
<1>4. parent(l) \in Row /\ parent(l).status = row[l.parent].status
  BY <1>3 DEF Row
<1>5. child(l) \in Row /\ child(l).status = row[l.child].status
  BY <1>2, <1>3 DEF Row
<1> HIDE DEF parent, child
<1>6. runs' \subseteq Run /\ asked' \subseteq Jobs
  BY <1>1, <1>2, WithCancelledType DEF TypeOK
<1>7. links' \in [Workers -> SUBSET [parent: Jobs, child: Jobs, count: Nat]]
      /\ retrying' \in [Workers -> SUBSET Jobs]
  BY <1>1 DEF TypeOK
<1>8. row' \in [Jobs -> Row]
  BY <1>1, <1>2, <1>4, <1>5 DEF TypeOK
<1>9. cache' \in [Workers -> [Jobs -> Copy \cup {NoCopy}]]
  <2>1. CASE /\ Consumable(l) /\ Exists(l.child)
             /\ row' = [row EXCEPT ![l.parent] = parent(l), ![l.child] = child(l)]
             /\ cache' = [cache EXCEPT ![w] = [j \in Jobs |->
                    IF j \in {l.parent, l.child}
                    THEN Refreshed(cache[w][j], row'[j]) ELSE cache[w][j]]]
    <3>1. \A j \in {l.parent, l.child} :
            row'[j] \in Row /\ row'[j].status \in Active \cup Terminal
      <4>1. parent(l).status \in Active \cup Terminal
        BY <1>4, <2>1 DEF Consumable, Terminal
      <4>2. child(l).status \in Active \cup Terminal
        BY <1>3, <1>5, <2>1 DEF Exists, Row, Active, Terminal
      <4>3. row'[l.child] = child(l) /\ row'[l.parent] \in {parent(l), child(l)}
        BY <1>2, <2>1 DEF TypeOK
      <4> QED
        BY <1>4, <1>5, <4>1, <4>2, <4>3
    <3>2. cache[w] \in [Jobs -> Copy \cup {NoCopy}]
      BY DEF TypeOK
    <3>3. \A j \in {l.parent, l.child} : Refreshed(cache[w][j], row'[j]) \in Copy
      BY <1>2, <3>1, <3>2, RefreshedType
    <3>4. [j \in Jobs |-> IF j \in {l.parent, l.child}
                          THEN Refreshed(cache[w][j], row'[j]) ELSE cache[w][j]]
             \in [Jobs -> Copy \cup {NoCopy}]
      BY <3>2, <3>3
    <3> QED
      BY <2>1, <3>4 DEF TypeOK
  <2>2. CASE UNCHANGED cache
    BY <2>2 DEF TypeOK
  <2> QED
    BY <1>1, <2>1, <2>2
<1> QED
  BY <1>1, <1>6, <1>7, <1>8, <1>9 DEF TypeOK

LEMMA TypeClaimRecoverable ==
    ASSUME JobConstants, TypeOK, NEW w \in Workers, ClaimRecoverable(w)
    PROVE  TypeOK'
<1> DEFINE new(j) == Claimed(j, w, "recovering")
<1>1. PICK s \in Slots, j \in Jobs :
        /\ row' = [row EXCEPT ![j] = new(j)]
        /\ slot' = [slot EXCEPT ![s] = [worker |-> w, job |-> j,
                        attempt |-> new(j).attempt, ttl |-> LeaseTicks]]
        /\ pending' = [pending EXCEPT ![w] =
                @ \cup {[job |-> j, copy |-> CopyOf(new(j))]}]
        /\ UNCHANGED <<proc, cache, runs, creating, retrying, links, releasing,
                       toRelease, asked, faults>>
  BY DEF ClaimRecoverable, FreeSlots
<1>2. row \in [Jobs -> Row] /\ slot \in [Slots -> SlotRow]
  BY DEF TypeOK, SlotRow
<1>3. new(j) \in Row /\ new(j).status = "queued"
  <2>1. "recovering" \in Recovery
    BY DEF Recovery
  <2> QED
    BY <1>2, <2>1, ClaimedType
<1>4. CopyOf(new(j)) \in Copy /\ new(j).attempt \in Nat
  BY <1>3, CopyType DEF Active, Row
<1> HIDE DEF new
<1>5. row' \in [Jobs -> Row]
  BY <1>1, <1>2, <1>3
<1>6. slot' \in [Slots -> SlotRow]
  <2>1. [worker |-> w, job |-> j, attempt |-> new(j).attempt, ttl |-> LeaseTicks]
          \in SlotRow
    BY <1>4 DEF SlotRow, JobConstants
  <2> QED
    BY <1>1, <1>2, <2>1
<1>7. pending' \in [Workers -> SUBSET [job: Jobs, copy: Copy]]
  BY <1>1, <1>4 DEF TypeOK
<1> QED
  BY <1>1, <1>5, <1>6, <1>7 DEF TypeOK, SlotRow

LEMMA TypeClearExpiredSlot ==
    ASSUME JobConstants, TypeOK, NEW w \in Workers, ClearExpiredSlot(w)
    PROVE  TypeOK'
<1>1. slot \in [Slots -> SlotRow] /\ FreeSlot \in SlotRow
  BY FreeSlotType DEF TypeOK, SlotRow
<1>2. slot' \in [Slots -> SlotRow]
  BY <1>1 DEF ClearExpiredSlot
<1> QED
  BY <1>2 DEF TypeOK, SlotRow, ClearExpiredSlot

LEMMA TypeStartRecovered ==
    ASSUME TypeOK, NEW w \in Workers, StartRecovered(w)
    PROVE  TypeOK'
<1>1. PICK p \in pending[w] :
        /\ pending' = [pending EXCEPT ![w] = @ \ {p}]
        /\ cache' = [cache EXCEPT ![w][p.job] = p.copy]
        /\ runs' = runs \cup {NewRun(w, p.job, p.copy.attempt, TRUE)}
        /\ UNCHANGED <<row, slot, proc, creating, retrying, links, releasing,
                       toRelease, asked, faults>>
  BY DEF StartRecovered
<1>2. p.job \in Jobs /\ p.copy \in Copy
  BY DEF TypeOK
<1>3. p.copy.attempt \in Nat
  BY <1>2 DEF Copy
<1>4. NewRun(w, p.job, p.copy.attempt, TRUE) \in Run
  BY <1>2, <1>3, NewRunType
<1>5. cache' \in [Workers -> [Jobs -> Copy \cup {NoCopy}]]
  BY <1>1, <1>2 DEF TypeOK
<1> QED
  BY <1>1, <1>4, <1>5 DEF TypeOK

LEMMA TypeRunCapture ==
    ASSUME TypeOK, NEW r \in runs, RunCapture(r)
    PROVE  TypeOK'
<1>1. r \in Run
  BY DEF TypeOK
<1>2. cache[r.proc][r.job] # NoCopy => cache[r.proc][r.job].attempt \in Nat
  BY <1>1 DEF TypeOK, Run, Copy
<1>3. \A a \in Nat : [r EXCEPT !.at = "start", !.attempt = a] \in Run
  BY <1>1 DEF Run
<1>4. [r EXCEPT !.at = "exit", !.live = FALSE] \in Run
  BY <1>1 DEF Run
<1>5. runs' \subseteq Run
  BY <1>2, <1>3, <1>4 DEF TypeOK, RunCapture, Replace
<1> QED
  BY <1>5 DEF TypeOK, RunCapture

\* What a worker that still holds its lease has in memory.
LEMMA HeldCopy ==
    ASSUME TypeOK, NEW r \in runs, HoldsInMemory(r.proc, r.job, r.attempt)
    PROVE  /\ r \in Run
           /\ cache[r.proc][r.job] \in Copy
           /\ cache[r.proc][r.job].owner = r.proc
           /\ cache[r.proc][r.job].attempt = r.attempt
BY DEF TypeOK, HoldsInMemory, Known, Run

LEMMA TypeRunStart ==
    ASSUME TypeOK, NEW r \in runs, RunStart(r)
    PROVE  TypeOK'
<1> DEFINE old  == cache[r.proc][r.job]
           copy == [old EXCEPT !.status = "running",
                       !.recovery = IF @ = "recovering" THEN "recovered" ELSE @]
           granted == /\ HoldsInMemory(r.proc, r.job, r.attempt)
                      /\ old.status \notin Terminal
                      /\ Owns(r.job, r.proc, r.attempt)
<1>1. r \in Run
  BY DEF TypeOK
<1>2. [r EXCEPT !.at = "index"] \in Run
  BY <1>1 DEF Run
<1>3. runs' \subseteq Run
  BY <1>2 DEF TypeOK, RunStart, Replace
<1>4. row \in [Jobs -> Row] /\ cache \in [Workers -> [Jobs -> Copy \cup {NoCopy}]]
  BY DEF TypeOK
<1>5. /\ row' = IF granted THEN [row EXCEPT ![r.job] = UpdateState(r.job, copy)]
                ELSE row
      /\ cache' = IF granted THEN [cache EXCEPT ![r.proc][r.job] = copy] ELSE cache
      /\ UNCHANGED <<slot, proc, creating, retrying, pending, links, releasing,
                     toRelease, asked, faults>>
  BY DEF RunStart
<1>6. granted => copy \in Copy
  <2>1. \A c \in Copy :
          [c EXCEPT !.status = "running",
                    !.recovery = IF @ = "recovering" THEN "recovered" ELSE @] \in Copy
    BY DEF Copy, Recovery
  <2> QED
    BY <2>1, HeldCopy
<1> HIDE DEF copy
<1>7. granted => UpdateState(r.job, copy) \in Row
  BY <1>1, <1>4, <1>6, UpdateStateType DEF Run
<1> HIDE DEF granted
<1>8. r.proc \in Workers /\ r.job \in Jobs
  BY <1>1 DEF Run
<1>9. row' \in [Jobs -> Row]
  BY <1>4, <1>5, <1>7, <1>8
<1>10. cache' \in [Workers -> [Jobs -> Copy \cup {NoCopy}]]
  BY <1>4, <1>5, <1>6, <1>8
<1> QED
  BY <1>3, <1>5, <1>9, <1>10 DEF TypeOK

LEMMA TypeComplete ==
    ASSUME JobConstants, TypeOK, NEW r \in runs, NEW status \in Terminal,
           Complete(r, status)
    PROVE  TypeOK'
<1> DEFINE old  == cache[r.proc][r.job]
           copy == [old EXCEPT !.status = status,
                       !.retryable = /\ status = "failed"
                                     /\ old.resumable
                                     /\ old.retries < MaxRetries,
                       !.resumable = @ /\ status # "cancelled",
                       !.recovery = IF @ = "recovering" THEN "recovered" ELSE @,
                       !.owner = Null]
           token == [job |-> r.job, owner |-> r.proc, attempt |-> r.attempt]
<1>1. r \in Run
  BY DEF TypeOK
<1>2. [r EXCEPT !.at = "exit", !.live = FALSE] \in Run
  BY <1>1 DEF Run
<1>3. runs' \subseteq Run
  BY <1>2 DEF TypeOK, Complete, Replace
<1>4. /\ row \in [Jobs -> Row]
      /\ cache \in [Workers -> [Jobs -> Copy \cup {NoCopy}]]
      /\ toRelease \in [Workers -> SUBSET Token]
      /\ r.proc \in Workers /\ r.job \in Jobs /\ token \in Token
  BY <1>1 DEF TypeOK, Run, Token
<1>5. /\ \/ /\ HoldsInMemory(r.proc, r.job, r.attempt)
            /\ row' = [row EXCEPT ![r.job] = Update(copy)]
            /\ cache' = [cache EXCEPT ![r.proc][r.job] = copy]
            /\ toRelease' = [toRelease EXCEPT ![r.proc] = @ \cup {token}]
            /\ UNCHANGED faults
         \/ UNCHANGED <<row, cache, toRelease>> /\ (faults' = faults \/ faults' = faults + 1)
      /\ UNCHANGED <<slot, proc, creating, retrying, pending, links, releasing,
                     asked>>
  BY Zenon DEF Complete
<1>6. HoldsInMemory(r.proc, r.job, r.attempt) => copy \in Copy
  <2>1. \A c \in Copy, b, d \in BOOLEAN, x \in Recovery :
          [c EXCEPT !.status = status, !.retryable = b, !.resumable = d,
                    !.recovery = x, !.owner = Null] \in Copy
    BY DEF Copy
  <2>3. \A c \in Copy : (IF c.recovery = "recovering" THEN "recovered"
                         ELSE c.recovery) \in Recovery
    BY DEF Copy, Recovery
  <2>2. /\ (status = "failed" /\ old.resumable /\ old.retries < MaxRetries) \in BOOLEAN
        /\ (old.resumable /\ status # "cancelled") \in BOOLEAN
    OBVIOUS
  <2> QED
    BY <2>1, <2>2, <2>3, HeldCopy
<1> HIDE DEF copy, token
<1>7. HoldsInMemory(r.proc, r.job, r.attempt) => Update(copy) \in Row
  BY <1>6, UpdateType
<1>8. row' \in [Jobs -> Row]
  BY <1>4, <1>5, <1>7
<1>9. cache' \in [Workers -> [Jobs -> Copy \cup {NoCopy}]]
  <2>1. CASE UNCHANGED cache
    BY <1>4, <2>1
  <2>2. CASE /\ HoldsInMemory(r.proc, r.job, r.attempt)
             /\ cache' = [cache EXCEPT ![r.proc][r.job] = copy]
    <3>1. copy \in Copy
      BY <1>6, <2>2
    <3> QED
      BY <1>4, <2>2, <3>1
  <2> QED
    BY <1>5, <2>1, <2>2
<1>10. toRelease' \in [Workers -> SUBSET Token]
  BY <1>4, <1>5
<1>11. faults' \in Nat
  BY <1>5 DEF TypeOK
<1> QED
  BY <1>3, <1>5, <1>8, <1>9, <1>10, <1>11 DEF TypeOK

\* Rejecting the descriptor of a job changes one column of one copy in memory.
GaveUp(c, d) == c \in Copy /\ d = [c EXCEPT !.resumable = FALSE]

LEMMA RejectedCopy ==
    ASSUME TypeOK, NEW r \in runs, RunRejectDescriptor(r)
    PROVE  /\ \A w \in Workers, j \in Jobs :
                 \/ cache'[w][j] = cache[w][j]
                 \/ GaveUp(cache[w][j], cache'[w][j]) /\ cache'[w][j] \in Copy
           /\ cache' \in [Workers -> [Jobs -> Copy \cup {NoCopy}]]
<1>1. r.proc \in Workers /\ r.job \in Jobs
  BY DEF TypeOK, Run
<1>2. cache \in [Workers -> [Jobs -> Copy \cup {NoCopy}]]
  BY DEF TypeOK
<1>3. CASE ~Known(r.proc, r.job)
  BY <1>2, <1>3 DEF RunRejectDescriptor
<1>4. CASE Known(r.proc, r.job)
  <2> DEFINE new == [cache[r.proc][r.job] EXCEPT !.resumable = FALSE]
  <2>1. cache[r.proc][r.job] \in Copy
    BY <1>1, <1>2, <1>4 DEF Known
  <2>2. new \in Copy /\ GaveUp(cache[r.proc][r.job], new)
    BY <2>1 DEF Copy, GaveUp
  <2>3. cache' = [cache EXCEPT ![r.proc][r.job] = new]
    BY <1>4 DEF RunRejectDescriptor
  <2> HIDE DEF new
  <2> QED
    BY <1>1, <1>2, <2>2, <2>3
<1> QED
  BY <1>3, <1>4

\* Such a copy differs in nothing else.
LEMMA GaveUpFields ==
    ASSUME NEW c, NEW d, GaveUp(c, d)
    PROVE  /\ c # NoCopy /\ d # NoCopy
           /\ d.status = c.status /\ d.retryable = c.retryable
           /\ d.retries = c.retries /\ d.parent = c.parent /\ d.recovery = c.recovery
           /\ d.attempt = c.attempt /\ d.owner = c.owner
BY DEF GaveUp, Copy, NoCopy, Active, Terminal

LEMMA TypeRunRejectDescriptor ==
    ASSUME TypeOK, NEW r \in runs, RunRejectDescriptor(r)
    PROVE  TypeOK'
<1>1. r \in Run /\ r.proc \in Workers /\ r.job \in Jobs
  BY DEF TypeOK, Run
<1>2. [r EXCEPT !.at = "reject"] \in Run
  BY <1>1 DEF Run
<1>3. runs' \subseteq Run
  BY <1>2 DEF TypeOK, RunRejectDescriptor, Replace
<1>4. cache' \in [Workers -> [Jobs -> Copy \cup {NoCopy}]]
  BY <1>1, RejectedCopy DEF TypeOK
<1> QED
  BY <1>3, <1>4 DEF TypeOK, RunRejectDescriptor

LEMMA TypeHeartbeat ==
    ASSUME JobConstants, TypeOK, NEW r \in runs, Heartbeat(r)
    PROVE  TypeOK'
<1>1. r \in Run
  BY DEF TypeOK
<1>2. [r EXCEPT !.live = FALSE] \in Run
  BY <1>1 DEF Run
<1>6. LeaseTicks \in 0..LeaseTicks
  BY DEF JobConstants
<1>3. runs' \subseteq Run
  BY <1>2 DEF TypeOK, Heartbeat, Replace
<1>4. row' \in [Jobs -> Row]
  <2>1. row \in [Jobs -> Row]
    BY DEF TypeOK
  <2>2. \A j \in Jobs : [row[j] EXCEPT !.ttl = LeaseTicks] \in Row
    BY <1>6, <2>1, TtlType
  <2>3. \/ row' = [row EXCEPT ![r.job] = [row[r.job] EXCEPT !.ttl = LeaseTicks]]
        \/ row' = row
    BY DEF Heartbeat
  <2> QED
    BY <1>1, <2>1, <2>2, <2>3 DEF Run
<1>5. slot' \in [Slots -> SlotRow]
  <2>1. slot \in [Slots -> SlotRow]
    BY DEF TypeOK, SlotRow
  <2>2. \A s \in Slots : [slot[s] EXCEPT !.ttl = LeaseTicks] \in SlotRow
    BY <1>6, <2>1, TtlType
  <2> QED
    BY <2>1, <2>2 DEF Heartbeat, RenewedSlots
<1> QED
  BY <1>3, <1>4, <1>5 DEF TypeOK, SlotRow, Heartbeat

LEMMA TypeHeartbeatFault ==
    ASSUME TypeOK, NEW r \in runs, HeartbeatFault(r)
    PROVE  TypeOK'
<1>1. r \in Run
  BY DEF TypeOK
<1>2. [r EXCEPT !.live = FALSE] \in Run
  BY <1>1 DEF Run
<1>3. runs' \subseteq Run
  BY <1>2 DEF TypeOK, HeartbeatFault, Replace
<1>4. faults' \in Nat
  BY DEF TypeOK, HeartbeatFault
<1> QED
  BY <1>3, <1>4 DEF TypeOK, HeartbeatFault

LEMMA TypeReleaseRecoverySlot ==
    ASSUME JobConstants, TypeOK, NEW w \in Workers, ReleaseRecoverySlot(w)
    PROVE  TypeOK'
<1>1. slot \in [Slots -> SlotRow] /\ FreeSlot \in SlotRow
  BY FreeSlotType DEF TypeOK, SlotRow
<1>2. slot' \in [Slots -> SlotRow]
  BY <1>1 DEF ReleaseRecoverySlot, ReleasedSlots
<1> QED
  BY <1>2 DEF TypeOK, SlotRow, ReleaseRecoverySlot

LEMMA TypeRunExit ==
    ASSUME TypeOK, NEW r \in runs, RunExit(r)
    PROVE  TypeOK'
<1> DEFINE item == [job |-> r.job, copy |-> cache[r.proc][r.job]]
<1>1. r.proc \in Workers /\ r.job \in Jobs
  BY DEF TypeOK, Run
<1>2. item \in [job: Jobs, copy: Copy \cup {NoCopy}]
  BY <1>1 DEF TypeOK
<1>3. \/ releasing' = [releasing EXCEPT ![r.proc] = @ \cup {item}]
      \/ releasing' = [releasing EXCEPT ![r.proc] = @]
  BY DEF RunExit
<1> HIDE DEF item
<1>4. releasing \in [Workers -> SUBSET [job: Jobs, copy: Copy \cup {NoCopy}]]
  BY DEF TypeOK
<1>5. releasing' \in [Workers -> SUBSET [job: Jobs, copy: Copy \cup {NoCopy}]]
  BY <1>1, <1>2, <1>3, <1>4
<1> QED
  BY <1>5 DEF TypeOK, RunExit

LEMMA TypeReleaseLease ==
    ASSUME JobConstants, TypeOK, NEW w \in Workers, ReleaseLease(w)
    PROVE  TypeOK'
<1> DEFINE old(p)   == p.copy
           done(p)  == old(p).status \in Terminal
           copy(p)  == [old(p) EXCEPT
                           !.status = IF done(p) THEN @ ELSE "queued",
                           !.recovery = IF done(p) THEN @ ELSE "shutdown",
                           !.owner = Null]
           token(p) == [job |-> p.job, owner |-> old(p).owner,
                        attempt |-> old(p).attempt]
<1>1. PICK p \in releasing[w] :
        /\ p.copy # NoCopy
        /\ releasing' = [releasing EXCEPT ![w] = @ \ {p}]
        /\ \/ /\ row' = [row EXCEPT ![p.job] = Update(copy(p))]
              /\ \/ cache' = [cache EXCEPT ![w][p.job] = copy(p)]
                 \/ cache' = [cache EXCEPT ![w][p.job] = @]
              /\ toRelease' = [toRelease EXCEPT ![w] = @ \cup {token(p)}]
           \/ UNCHANGED <<row, cache, toRelease>>
        /\ UNCHANGED <<slot, proc, runs, creating, retrying, pending, links,
                       asked, faults>>
  BY DEF ReleaseLease
<1>2. /\ row \in [Jobs -> Row]
      /\ cache \in [Workers -> [Jobs -> Copy \cup {NoCopy}]]
      /\ toRelease \in [Workers -> SUBSET Token]
      /\ p.job \in Jobs /\ p.copy \in Copy
  BY <1>1 DEF TypeOK
<1>3. copy(p) \in Copy
  <2>1. \A c \in Copy, d \in BOOLEAN :
          [c EXCEPT !.status = IF d THEN @ ELSE "queued",
                    !.recovery = IF d THEN @ ELSE "shutdown",
                    !.owner = Null] \in Copy
    BY DEF Copy, Recovery
  <2>2. done(p) \in BOOLEAN
    OBVIOUS
  <2> QED
    BY <1>2, <2>1, <2>2
<1>4. token(p) \in Token
  BY <1>2 DEF Copy, Token
<1> HIDE DEF copy, token
<1>5. Update(copy(p)) \in Row
  BY <1>3, UpdateType
<1>6. row' \in [Jobs -> Row]
  BY <1>1, <1>2, <1>5
<1>7. cache' \in [Workers -> [Jobs -> Copy \cup {NoCopy}]]
  <2>1. CASE cache' = [cache EXCEPT ![w][p.job] = copy(p)]
    BY <1>2, <1>3, <2>1
  <2>2. CASE cache' = [cache EXCEPT ![w][p.job] = @] \/ UNCHANGED cache
    BY <1>2, <2>2
  <2> QED
    BY <1>1, <2>1, <2>2
<1>8. toRelease' \in [Workers -> SUBSET Token]
  BY <1>1, <1>2, <1>4
<1>9. releasing' \in [Workers -> SUBSET [job: Jobs, copy: Copy \cup {NoCopy}]]
  BY <1>1 DEF TypeOK
<1> QED
  BY <1>1, <1>6, <1>7, <1>8, <1>9 DEF TypeOK

LEMMA TypeCancel ==
    ASSUME JobConstants, TypeOK, NEW w \in Workers, NEW j \in Jobs, Cancel(w, j)
    PROVE  TypeOK'
<1> DEFINE old  == cache[w][j]
           copy == [old EXCEPT !.status = "cancelled", !.retryable = FALSE,
                               !.resumable = FALSE, !.owner = Null]
           token == [job |-> j, owner |-> old.owner, attempt |-> old.attempt]
<1>1. /\ row \in [Jobs -> Row]
      /\ cache \in [Workers -> [Jobs -> Copy \cup {NoCopy}]]
      /\ toRelease \in [Workers -> SUBSET Token]
  BY DEF TypeOK
<1>2. old \in Copy
  BY <1>1 DEF Cancel, Known
<1>3. copy \in Copy
  BY <1>2 DEF Copy, Terminal
<1>4. old.owner # Null => token \in Token
  BY <1>2 DEF Copy, Token
<1>5. /\ row' = [row EXCEPT ![j] = Update(copy)]
      /\ cache' = [cache EXCEPT ![w][j] = copy]
      /\ toRelease' = [toRelease EXCEPT ![w] = IF old.owner = Null THEN @
                                              ELSE @ \cup {token}]
      /\ runs' = WithCancelled(w, {j})
      /\ asked' = asked \cup {j}
      /\ UNCHANGED <<slot, proc, creating, retrying, pending, links, releasing,
                     faults>>
  BY DEF Cancel
<1> HIDE DEF copy, token
<1>6. Update(copy) \in Row
  BY <1>3, UpdateType
<1>7. runs' \subseteq Run
  BY <1>5, WithCancelledType DEF TypeOK
<1>8. row' \in [Jobs -> Row]
  BY <1>1, <1>5, <1>6
<1>9. cache' \in [Workers -> [Jobs -> Copy \cup {NoCopy}]]
  BY <1>1, <1>3, <1>5
<1>10. toRelease' \in [Workers -> SUBSET Token]
  BY <1>1, <1>4, <1>5
<1> QED
  BY <1>5, <1>7, <1>8, <1>9, <1>10 DEF TypeOK

LEMMA TypeShutdown ==
    ASSUME TypeOK, NEW w \in Workers, Shutdown(w)
    PROVE  TypeOK'
<1>1. runs' \subseteq Run
  BY WithCancelledType DEF TypeOK, Shutdown
<1> QED
  BY <1>1 DEF TypeOK, Shutdown

LEMMA TypeShutdownSweep ==
    ASSUME TypeOK, NEW w \in Workers, ShutdownSweep(w)
    PROVE  TypeOK'
<1> DEFINE items == {[job |-> j, copy |-> NoCopy] :
                       j \in {j \in Jobs : Known(w, j) /\ cache[w][j].owner # Null}}
<1>1. items \subseteq [job: Jobs, copy: Copy \cup {NoCopy}]
  OBVIOUS
<1>2. releasing' = [releasing EXCEPT ![w] = items]
  BY DEF ShutdownSweep
<1> HIDE DEF items
<1>3. releasing' \in [Workers -> SUBSET [job: Jobs, copy: Copy \cup {NoCopy}]]
  BY <1>1, <1>2 DEF TypeOK
<1> QED
  BY <1>3 DEF TypeOK, ShutdownSweep

LEMMA TypeShutdownReadLease ==
    ASSUME TypeOK, NEW w \in Workers, ShutdownReadLease(w)
    PROVE  TypeOK'
<1> DEFINE item(p) == [job |-> p.job, copy |-> cache[w][p.job]]
<1>1. PICK p \in releasing[w] :
        /\ \/ releasing' = [releasing EXCEPT ![w] = (@ \ {p}) \cup {item(p)}]
           \/ releasing' = [releasing EXCEPT ![w] = (@ \ {p}) \cup {}]
        /\ UNCHANGED <<row, slot, proc, cache, runs, creating, retrying, pending,
                       links, toRelease, asked, faults>>
  BY DEF ShutdownReadLease
<1>2. item(p) \in [job: Jobs, copy: Copy \cup {NoCopy}]
  BY DEF TypeOK
<1> HIDE DEF item
<1>3. releasing \in [Workers -> SUBSET [job: Jobs, copy: Copy \cup {NoCopy}]]
  BY DEF TypeOK
<1>4. releasing' \in [Workers -> SUBSET [job: Jobs, copy: Copy \cup {NoCopy}]]
  <2>1. CASE releasing' = [releasing EXCEPT ![w] = (@ \ {p}) \cup {item(p)}]
    BY <1>2, <1>3, <2>1
  <2>2. CASE releasing' = [releasing EXCEPT ![w] = (@ \ {p}) \cup {}]
    BY <1>3, <2>2
  <2> QED
    BY <1>1, <2>1, <2>2
<1> QED
  BY <1>1, <1>4 DEF TypeOK

LEMMA TypeShutdownDone ==
    ASSUME TypeOK, NEW w \in Workers, ShutdownDone(w)
    PROVE  TypeOK'
BY DEF TypeOK, ShutdownDone

LEMMA TypePrune ==
    ASSUME JobConstants, TypeOK, NEW w \in Workers, Prune(w)
    PROVE  TypeOK'
<1>1. NoRow \in Row
  BY DEF NoRow, Row, JobConstants, Recovery
<1>2. Deleted \in Row
  BY <1>1 DEF Deleted, Row
<1>3. row' \in [Jobs -> Row]
  BY <1>2 DEF TypeOK, Prune
<1> QED
  BY <1>3 DEF TypeOK, Prune

\* Every step of the system preserves TypeOK.
LEMMA TypeStep ==
    ASSUME JobConstants, TypeOK, [Next]_vars
    PROVE  TypeOK'
<1>1. ASSUME NEW w \in Workers, Start(w) \/ ProcessStep(w) \/ Request(w)
      PROVE  TypeOK'
  <2>1. CASE ProcessStep(w)
    BY <2>1, TypeRegisterClaim, TypeRegisterUndo, TypeLinkRetry,
       TypeClaimRecoverable, TypeClearExpiredSlot, TypeStartRecovered,
       TypeReleaseRecoverySlot, TypeReleaseLease, TypeShutdownSweep,
       TypeShutdownReadLease, TypeShutdownDone
       DEF ProcessStep
  <2>2. CASE Request(w)
    BY <2>2, TypeRegisterCreate, TypeLoad, TypeCancel, TypeCrash, TypeShutdown,
       TypePrune DEF Request
  <2> QED
    BY <1>1, <2>1, <2>2, TypeStart
<1>2. ASSUME NEW r \in runs, RunStep(r) \/ Heartbeat(r) \/ HeartbeatFault(r)
      PROVE  TypeOK'
  <2>1. CASE RunFailRejected(r)
    BY <2>1, TypeComplete DEF RunFailRejected, Terminal
  <2>2. CASE RunFinish(r)
    <3>1. PICK status \in Terminal : Complete(r, status)
      BY <2>2 DEF RunFinish, Outcomes, Terminal
    <3> QED
      BY <3>1, TypeComplete
  <2> QED
    BY <1>2, <2>1, <2>2, TypeRunCapture, TypeRunStart, TypeRunRejectDescriptor,
       TypeRunExit, TypeHeartbeat, TypeHeartbeatFault DEF RunStep
<1>3. CASE Tick
  BY <1>3, TypeTick
<1>4. CASE UNCHANGED vars
  BY <1>4 DEF TypeOK, vars
<1> QED
  BY <1>1, <1>2, <1>3, <1>4 DEF Next

\* The type invariant holds of every behaviour of the job system.
THEOREM TypeCorrect == Spec => []TypeOK
<1>1. Init => TypeOK
  BY JobConstants, TypeInit
<1>2. TypeOK /\ [Next]_vars => TypeOK'
  BY JobConstants, TypeStep
<1> QED
  BY <1>1, <1>2, PTL DEF Spec
-----------------------------------------------------------------------------
(* The safety properties *)

Granted == {"recovering", "recovered"}

\* Only an active row is leased; a row that was never inserted has no attempts.
RowSound(r) ==
    /\ r.owner # Null => r.status \in Active
    /\ r.status = "absent" => r.attempt = 0

\* A lease c some process remembers is the one stored in r, with r's recovery
\* grant; or r's lease was given up; or c is of an older attempt.
LeaseKnown(r, c) ==
    \/ r.status = "pruned"
    \/ c.attempt < r.attempt
    \/ /\ c.attempt = r.attempt
       /\ \/ r.owner = Null
          \/ /\ r.owner = c.owner
             /\ c.recovery \in Granted <=> r.recovery \in Granted

\* The attempt of a pending slot release t has ended.
AttemptOver(r, t) ==
    \/ r.status = "pruned"
    \/ t.attempt < r.attempt
    \/ t.attempt = r.attempt /\ r.owner = Null

\* What a copy in memory, and one taken from it for a write, says of a lease.
CopySound(r, c) == c # NoCopy /\ c.owner # Null => LeaseKnown(r, c)
ItemSound(r, c) == c # NoCopy => c.owner # Null /\ LeaseKnown(r, c)

RowsSound ==
    \A j \in Jobs : RowSound(row[j])
MemoryLeases ==
    \A w \in Workers, j \in Jobs : CopySound(row[j], cache[w][j])
PendingLeases ==
    \A w \in Workers : \A p \in pending[w] : ItemSound(row[p.job], p.copy)
ReleasingLeases ==
    \A w \in Workers : \A p \in releasing[w] : ItemSound(row[p.job], p.copy)
ReleasesOver ==
    \A w \in Workers : \A t \in toRelease[w] : AttemptOver(row[t.job], t)

\* The inductive strengthening of SlotBinding.
LeasesSound == MemoryLeases /\ PendingLeases /\ ReleasingLeases /\ ReleasesOver
SlotInv == RowsSound /\ LeasesSound /\ SlotBinding
-----------------------------------------------------------------------------
(* What a step may do to a row *)

\* The row is pruned, claimed anew, or of the same attempt: given up, or leased
\* as before with the recovery grant it had.
RowStep(r, r2) ==
    /\ r.status = "pruned" => r2.status = "pruned"
    /\ \/ r2.status = "pruned"
       \/ r.attempt < r2.attempt
       \/ /\ r2.attempt = r.attempt
          /\ \/ r2.owner = Null
             \/ /\ r2.owner = r.owner
                /\ r2.recovery \in Granted <=> r.recovery \in Granted

LEMMA RowStepSound ==
    ASSUME NEW r \in Row, NEW r2 \in Row, RowStep(r, r2)
    PROVE  /\ \A c \in Copy \cup {NoCopy} : CopySound(r, c) => CopySound(r2, c)
           /\ \A c \in Copy \cup {NoCopy} : ItemSound(r, c) => ItemSound(r2, c)
           /\ \A t \in Token : AttemptOver(r, t) => AttemptOver(r2, t)
<1>1. r.attempt \in Nat /\ r2.attempt \in Nat
  BY DEF Row
<1>2. ASSUME NEW c \in Copy, LeaseKnown(r, c) PROVE LeaseKnown(r2, c)
  <2>1. c.attempt \in Nat
    BY DEF Copy
  <2> QED
    BY <1>1, <1>2, <2>1 DEF LeaseKnown, RowStep
<1>3. ASSUME NEW t \in Token, AttemptOver(r, t) PROVE AttemptOver(r2, t)
  <2>1. t.attempt \in Nat
    BY DEF Token
  <2> QED
    BY <1>1, <1>3, <2>1 DEF AttemptOver, RowStep
<1> QED
  BY <1>2, <1>3 DEF CopySound, ItemSound

\* A step keeps LeasesSound when it moves rows by RowStep and what it adds to the
\* memory of the processes is sound in the new rows.
LEMMA LeasesStep ==
    ASSUME TypeOK, TypeOK', LeasesSound,
           \A j \in Jobs : RowStep(row[j], row'[j]),
           \A w \in Workers, j \in Jobs :
              cache'[w][j] = cache[w][j] \/ CopySound(row'[j], cache'[w][j]),
           \A w \in Workers : \A p \in pending'[w] :
              p \in pending[w] \/ ItemSound(row'[p.job], p.copy),
           \A w \in Workers : \A p \in releasing'[w] :
              p \in releasing[w] \/ ItemSound(row'[p.job], p.copy),
           \A w \in Workers : \A t \in toRelease'[w] :
              t \in toRelease[w] \/ AttemptOver(row'[t.job], t)
    PROVE  LeasesSound'
<1>1. \A j \in Jobs : row[j] \in Row /\ row'[j] \in Row
  BY DEF TypeOK
<1>2. ASSUME NEW w \in Workers, NEW j \in Jobs
      PROVE  CopySound(row'[j], cache'[w][j])
  <2>1. cache[w][j] \in Copy \cup {NoCopy} /\ CopySound(row[j], cache[w][j])
    BY DEF TypeOK, LeasesSound, MemoryLeases
  <2> QED
    BY <1>1, <2>1, RowStepSound
<1>3. ASSUME NEW w \in Workers, NEW p \in pending'[w]
      PROVE  ItemSound(row'[p.job], p.copy)
  <2>1. p.job \in Jobs /\ p.copy \in Copy \cup {NoCopy}
    BY DEF TypeOK
  <2>2. p \in pending[w] => ItemSound(row[p.job], p.copy)
    BY DEF LeasesSound, PendingLeases
  <2> QED
    BY <1>1, <2>1, <2>2, RowStepSound
<1>4. ASSUME NEW w \in Workers, NEW p \in releasing'[w]
      PROVE  ItemSound(row'[p.job], p.copy)
  <2>1. p.job \in Jobs /\ p.copy \in Copy \cup {NoCopy}
    BY DEF TypeOK
  <2>2. p \in releasing[w] => ItemSound(row[p.job], p.copy)
    BY DEF LeasesSound, ReleasingLeases
  <2> QED
    BY <1>1, <2>1, <2>2, RowStepSound
<1>5. ASSUME NEW w \in Workers, NEW t \in toRelease'[w]
      PROVE  AttemptOver(row'[t.job], t)
  <2>1. t.job \in Jobs /\ t \in Token
    BY DEF TypeOK, Token
  <2>2. t \in toRelease[w] => AttemptOver(row[t.job], t)
    BY DEF LeasesSound, ReleasesOver
  <2> QED
    BY <1>1, <2>1, <2>2, RowStepSound
<1> QED
  BY <1>2, <1>3, <1>4, <1>5
     DEF LeasesSound, MemoryLeases, PendingLeases, ReleasingLeases, ReleasesOver,
         CopySound, ItemSound, LeaseKnown, AttemptOver

\* Steps that write no row and add nothing to the memory of a process.
LEMMA QuietStep ==
    ASSUME TypeOK, SlotInv, UNCHANGED row,
           \A w \in Workers, j \in Jobs :
              cache'[w][j] = cache[w][j] \/ CopySound(row[j], cache'[w][j]),
           \A w \in Workers : \A p \in pending'[w] :
              p \in pending[w] \/ ItemSound(row[p.job], p.copy),
           \A w \in Workers : \A p \in releasing'[w] :
              p \in releasing[w] \/ ItemSound(row[p.job], p.copy),
           \A w \in Workers : toRelease'[w] \subseteq toRelease[w]
    PROVE  RowsSound' /\ LeasesSound'
BY DEF SlotInv, RowsSound, LeasesSound, MemoryLeases, PendingLeases,
       ReleasingLeases, ReleasesOver, RowSound, CopySound, ItemSound, LeaseKnown,
       AttemptOver

\* What SlotBinding needs of a row when no slot changes: a recovered row with a
\* live lease was one before, under the same lease.
LiveKept(r, r2) ==
    r2.status \in Active /\ r2.recovery \in Granted /\ r2.owner # Null /\ r2.ttl > 0
    => /\ r.status \in Active /\ r.recovery \in Granted
       /\ r2.owner = r.owner /\ r2.attempt = r.attempt /\ r2.ttl = r.ttl

LEMMA SlotsUntouched ==
    ASSUME SlotBinding, UNCHANGED slot, \A j \in Jobs : LiveKept(row[j], row'[j])
    PROVE  SlotBinding'
BY DEF SlotBinding, RecoveredLive, LiveKept, Granted

\* A write to one row.
LEMMA OneRow ==
    ASSUME TypeOK, RowsSound, NEW k \in Jobs, NEW r \in Row,
           row' = [row EXCEPT ![k] = r]
    PROVE  /\ row'[k] = r /\ \A j \in Jobs \ {k} : row'[j] = row[j]
           /\ RowSound(r) => RowsSound'
           /\ RowStep(row[k], r) => \A j \in Jobs : RowStep(row[j], row'[j])
           /\ LiveKept(row[k], r) => \A j \in Jobs : LiveKept(row[j], row'[j])
<1>1. row \in [Jobs -> Row]
  BY DEF TypeOK
<1>2. row'[k] = r /\ \A j \in Jobs \ {k} : row'[j] = row[j]
  BY <1>1
<1>3. \A x \in Row : RowStep(x, x) /\ LiveKept(x, x)
  BY DEF RowStep, LiveKept
<1>4. RowSound(r) => RowsSound'
  BY <1>2 DEF RowsSound, RowSound
<1> QED
  BY <1>1, <1>2, <1>3, <1>4

-----------------------------------------------------------------------------
(* Actions that write neither a row nor a slot *)

LEMMA SlotQuiet ==
    ASSUME TypeOK, SlotInv, UNCHANGED <<row, slot, pending, releasing, toRelease>>,
           \A w \in Workers, j \in Jobs :
              cache'[w][j] = cache[w][j] \/ CopySound(row[j], cache'[w][j])
    PROVE  SlotInv'
<1>1. RowsSound' /\ LeasesSound'
  BY QuietStep
<1>2. SlotBinding'
  BY SlotsUntouched DEF SlotInv, LiveKept
<1> QED
  BY <1>1, <1>2 DEF SlotInv

\* A row read from the store says of its lease what the store says.
LEMMA ReadSound ==
    ASSUME NEW r \in Row
    PROVE  CopySound(r, CopyOf(r))
BY DEF CopySound, LeaseKnown, CopyOf, Row, Granted

LEMMA SlotStart ==
    ASSUME TypeOK, SlotInv, NEW w \in Workers, Start(w)
    PROVE  SlotInv'
<1>1. \A j \in Jobs : CopySound(row[j], CopyOf(row[j])) /\ CopySound(row[j], NoCopy)
  BY ReadSound DEF TypeOK, CopySound
<1>2. \A v \in Workers, j \in Jobs :
        cache'[v][j] = cache[v][j] \/ CopySound(row[j], cache'[v][j])
  BY <1>1 DEF TypeOK, Start
<1> QED
  BY <1>2, SlotQuiet DEF Start

LEMMA SlotLoad ==
    ASSUME TypeOK, SlotInv, NEW w \in Workers, NEW k \in Jobs, Load(w, k)
    PROVE  SlotInv'
<1>1. CopySound(row[k], CopyOf(row[k]))
  BY ReadSound DEF TypeOK
<1>2. \A v \in Workers, j \in Jobs :
        cache'[v][j] = cache[v][j] \/ CopySound(row[j], cache'[v][j])
  BY <1>1 DEF TypeOK, Load
<1> QED
  BY <1>2, SlotQuiet DEF Load

\* Forgetting keeps the invariant: a crash, and the end of a shutdown.
LEMMA SlotForget ==
    ASSUME TypeOK, SlotInv, NEW w \in Workers, Crash(w) \/ ShutdownDone(w)
    PROVE  SlotInv'
<1>1. \A r : CopySound(r, NoCopy)
  BY DEF CopySound
<1>2. \A v \in Workers, j \in Jobs :
        cache'[v][j] = cache[v][j] \/ CopySound(row[j], cache'[v][j])
  BY <1>1 DEF TypeOK, Crash, ShutdownDone
<1>3. \A v \in Workers : /\ pending'[v] \subseteq pending[v]
                         /\ releasing'[v] \subseteq releasing[v]
                         /\ toRelease'[v] \subseteq toRelease[v]
  BY DEF TypeOK, Crash, ShutdownDone
<1>4. UNCHANGED <<row, slot>>
  BY DEF Crash, ShutdownDone
<1>5. RowsSound' /\ LeasesSound'
  BY <1>2, <1>3, <1>4, QuietStep
<1>6. SlotBinding'
  BY <1>4, SlotsUntouched DEF SlotInv, LiveKept
<1> QED
  BY <1>5, <1>6 DEF SlotInv

LEMMA SlotStartRecovered ==
    ASSUME TypeOK, SlotInv, NEW w \in Workers, StartRecovered(w)
    PROVE  SlotInv'
<1>1. PICK p \in pending[w] :
        /\ pending' = [pending EXCEPT ![w] = @ \ {p}]
        /\ cache' = [cache EXCEPT ![w][p.job] = p.copy]
        /\ UNCHANGED <<row, slot, releasing, toRelease>>
  BY DEF StartRecovered
<1>2. CopySound(row[p.job], p.copy)
  BY DEF SlotInv, LeasesSound, PendingLeases, ItemSound, CopySound
<1>3. \A v \in Workers, j \in Jobs :
        cache'[v][j] = cache[v][j] \/ CopySound(row[j], cache'[v][j])
  BY <1>1, <1>2 DEF TypeOK
<1>4. \A v \in Workers : pending'[v] \subseteq pending[v]
  BY <1>1 DEF TypeOK
<1>5. RowsSound' /\ LeasesSound'
  BY <1>1, <1>3, <1>4, QuietStep
<1>6. SlotBinding'
  BY <1>1, SlotsUntouched DEF SlotInv, LiveKept
<1> QED
  BY <1>5, <1>6 DEF SlotInv

\* Reading a lease for release: at the end of a worker, and in the final sweep.
LEMMA SlotReadLease ==
    ASSUME TypeOK, SlotInv, NEW w \in Workers,
           UNCHANGED <<row, slot, cache, pending, toRelease>>,
           NEW k \in Jobs, cache[w][k] # NoCopy => cache[w][k].owner # Null,
           \A v \in Workers : \A p \in releasing'[v] :
              \/ p \in releasing[v]
              \/ v = w /\ p = [job |-> k, copy |-> cache[w][k]]
    PROVE  SlotInv'
<1>1. ItemSound(row[k], cache[w][k])
  BY DEF SlotInv, LeasesSound, MemoryLeases, CopySound, ItemSound
<1>2. \A v \in Workers : \A p \in releasing'[v] :
        p \in releasing[v] \/ ItemSound(row[p.job], p.copy)
  BY <1>1
<1>3. RowsSound' /\ LeasesSound'
  BY <1>2, QuietStep
<1>4. SlotBinding'
  BY SlotsUntouched DEF SlotInv, LiveKept
<1> QED
  BY <1>3, <1>4 DEF SlotInv

LEMMA SlotRunExit ==
    ASSUME JobConstants, TypeOK, SlotInv, NEW r \in runs, RunExit(r)
    PROVE  SlotInv'
<1>1. r.proc \in Workers /\ r.job \in Jobs
  BY DEF TypeOK, Run
<1>2. UNCHANGED <<row, slot, cache, pending, toRelease>>
  BY DEF RunExit
<1>3. CASE HoldsInMemory(r.proc, r.job, r.attempt)
  <2>1. cache[r.proc][r.job].owner # Null
    BY <1>1, <1>3 DEF HoldsInMemory, JobConstants
  <2>2. \A v \in Workers : \A p \in releasing'[v] :
          \/ p \in releasing[v]
          \/ v = r.proc /\ p = [job |-> r.job, copy |-> cache[r.proc][r.job]]
    BY <1>1 DEF TypeOK, RunExit
  <2> QED
    BY <1>1, <1>2, <2>1, <2>2, SlotReadLease
<1>4. CASE ~HoldsInMemory(r.proc, r.job, r.attempt)
  <2>1. UNCHANGED releasing
    BY <1>4 DEF TypeOK, RunExit
  <2> QED
    BY <1>2, <2>1, SlotQuiet
<1> QED
  BY <1>3, <1>4

LEMMA SlotShutdownSweep ==
    ASSUME TypeOK, SlotInv, NEW w \in Workers, ShutdownSweep(w)
    PROVE  SlotInv'
<1>1. \A r : ItemSound(r, NoCopy)
  BY DEF ItemSound
<1>2. \A v \in Workers : \A p \in releasing'[v] :
        p \in releasing[v] \/ ItemSound(row[p.job], p.copy)
  BY <1>1 DEF TypeOK, ShutdownSweep
<1>3. UNCHANGED <<row, slot, cache, pending, toRelease>>
  BY DEF ShutdownSweep
<1>4. RowsSound' /\ LeasesSound'
  BY <1>2, <1>3, QuietStep
<1>5. SlotBinding'
  BY <1>3, SlotsUntouched DEF SlotInv, LiveKept
<1> QED
  BY <1>4, <1>5 DEF SlotInv

LEMMA SlotShutdownReadLease ==
    ASSUME TypeOK, SlotInv, NEW w \in Workers, ShutdownReadLease(w)
    PROVE  SlotInv'
<1>1. PICK p \in releasing[w] :
        /\ releasing' = [releasing EXCEPT ![w] = (@ \ {p}) \cup
              IF Known(w, p.job) /\ cache[w][p.job].owner # Null
              THEN {[job |-> p.job, copy |-> cache[w][p.job]]} ELSE {}]
        /\ UNCHANGED <<row, slot, cache, pending, toRelease>>
  BY DEF ShutdownReadLease
<1>2. p.job \in Jobs
  BY DEF TypeOK
<1>3. CASE Known(w, p.job) /\ cache[w][p.job].owner # Null
  <2>1. \A v \in Workers : \A q \in releasing'[v] :
          \/ q \in releasing[v]
          \/ v = w /\ q = [job |-> p.job, copy |-> cache[w][p.job]]
    BY <1>1, <1>3 DEF TypeOK
  <2> QED
    BY <1>1, <1>2, <1>3, <2>1, SlotReadLease
<1>4. CASE ~(Known(w, p.job) /\ cache[w][p.job].owner # Null)
  <2>1. \A v \in Workers : releasing'[v] \subseteq releasing[v]
    BY <1>1, <1>4 DEF TypeOK
  <2>2. RowsSound' /\ LeasesSound'
    BY <1>1, <2>1, QuietStep
  <2>3. SlotBinding'
    BY <1>1, SlotsUntouched DEF SlotInv, LiveKept
  <2> QED
    BY <2>2, <2>3 DEF SlotInv
<1> QED
  BY <1>3, <1>4

-----------------------------------------------------------------------------
(* Actions that write one row and no slot *)

\* The write of row k from memory or by the store keeps the invariant when it is
\* a RowStep that keeps live recoveries, and what it leaves behind is sound.
LEMMA SlotWriteRow ==
    ASSUME TypeOK, TypeOK', SlotInv, NEW k \in Jobs, NEW r \in Row,
           row' = [row EXCEPT ![k] = r],
           RowSound(r), RowStep(row[k], r), LiveKept(row[k], r),
           UNCHANGED <<slot, pending>>,
           \A w \in Workers, j \in Jobs :
              cache'[w][j] = cache[w][j] \/ CopySound(row'[j], cache'[w][j]),
           \A w \in Workers : releasing'[w] \subseteq releasing[w],
           \A w \in Workers : \A t \in toRelease'[w] :
              t \in toRelease[w] \/ AttemptOver(row'[t.job], t)
    PROVE  SlotInv'
<1>1. RowsSound
  BY DEF SlotInv
<1>2. /\ RowsSound'
      /\ \A j \in Jobs : RowStep(row[j], row'[j])
      /\ \A j \in Jobs : LiveKept(row[j], row'[j])
  BY <1>1, OneRow
<1>3. LeasesSound'
  BY <1>2, LeasesStep DEF SlotInv
<1>4. SlotBinding'
  BY <1>2, SlotsUntouched DEF SlotInv
<1> QED
  BY <1>2, <1>3, <1>4 DEF SlotInv

LEMMA SlotRegisterCreate ==
    ASSUME JobConstants, TypeOK, TypeOK', SlotInv, NEW w \in Workers, NEW k \in Jobs,
           NEW parent \in Jobs \cup {Null}, RegisterCreate(w, k, parent)
    PROVE  SlotInv'
<1> DEFINE new == [NoRow EXCEPT !.status = "queued", !.retryable = TRUE, !.resumable = TRUE]
<1>1. NoRow \in Row
  BY DEF NoRow, Row, JobConstants, Recovery
<1>2. new \in Row /\ new.owner = Null /\ new.attempt = 0 /\ new.status = "queued"
  BY <1>1 DEF Row, NoRow
<1>3. row[k].status = "absent" /\ row' = [row EXCEPT ![k] = new]
      /\ UNCHANGED <<slot, cache, pending, releasing, toRelease>>
  BY DEF RegisterCreate
<1> HIDE DEF new
<1>4. row[k].attempt = 0
  BY <1>3 DEF SlotInv, RowsSound, RowSound
<1>5. RowSound(new) /\ RowStep(row[k], new) /\ LiveKept(row[k], new)
  BY <1>2, <1>3, <1>4 DEF RowSound, RowStep, LiveKept
<1> QED
  BY <1>2, <1>3, <1>5, SlotWriteRow

\* A claim of an active job is a RowStep.
LEMMA ClaimedSound ==
    ASSUME TypeOK, NEW j \in Jobs, NEW w \in Workers, NEW recovery \in Recovery,
           Claimable(j)
    PROVE  /\ RowSound(Claimed(j, w, recovery))
           /\ RowStep(row[j], Claimed(j, w, recovery))
           /\ Claimed(j, w, recovery).recovery = recovery
<1> DEFINE new == Claimed(j, w, recovery)
<1>1. row[j] \in Row /\ row[j].status # "pruned"
  BY DEF TypeOK, Claimable, Active
<1>2. new.status = "queued" /\ new.attempt = row[j].attempt + 1
      /\ new.recovery = recovery
  BY <1>1 DEF Claimed, Row
<1> HIDE DEF new
<1>3. row[j].attempt < new.attempt
  <2>1. row[j].attempt \in Nat
    BY <1>1 DEF Row
  <2> QED
    BY <1>2, <2>1
<1> QED
  BY <1>1, <1>2, <1>3 DEF RowSound, RowStep, Active, new

LEMMA SlotRegisterClaim ==
    ASSUME JobConstants, TypeOK, TypeOK', SlotInv, NEW w \in Workers,
           RegisterClaim(w)
    PROVE  SlotInv'
<1> DEFINE new(c) == Claimed(c.job, w, "")
           mem(c) == [cache[w] EXCEPT ![c.job] = CopyOf(new(c))]
<1>1. PICK c \in creating[w] :
        /\ Claimable(c.job)
        /\ row' = [row EXCEPT ![c.job] = new(c)]
        /\ \E gone \in Evicted(mem(c)) :
              cache' = [cache EXCEPT ![w] =
                    [j \in Jobs |-> IF j \in gone THEN NoCopy ELSE mem(c)[j]]]
        /\ UNCHANGED <<slot, pending, releasing, toRelease>>
  BY Zenon DEF RegisterClaim
<1>2. c.job \in Jobs /\ row \in [Jobs -> Row] /\ "" \in Recovery
  BY DEF TypeOK, Recovery
<1>3. new(c) \in Row /\ RowSound(new(c)) /\ RowStep(row[c.job], new(c))
      /\ new(c).recovery = ""
  BY <1>1, <1>2, ClaimedType, ClaimedSound
<1>4. CopySound(new(c), CopyOf(new(c)))
  BY <1>3, ReadSound
<1> HIDE DEF new
<1>5. LiveKept(row[c.job], new(c))
  BY <1>3 DEF LiveKept, Granted
<1>8. PICK gone : cache' = [cache EXCEPT ![w] =
                       [j \in Jobs |-> IF j \in gone THEN NoCopy ELSE mem(c)[j]]]
  BY <1>1
<1>9. \A v \in Workers, j \in Jobs :
        \/ cache'[v][j] = cache[v][j] \/ cache'[v][j] = NoCopy
        \/ v = w /\ j = c.job /\ cache'[v][j] = CopyOf(new(c))
  BY <1>2, <1>8 DEF TypeOK
<1>10. row'[c.job] = new(c)
  BY <1>1, <1>2
<1>11. \A v \in Workers, j \in Jobs :
         cache'[v][j] = cache[v][j] \/ CopySound(row'[j], cache'[v][j])
  BY <1>4, <1>9, <1>10 DEF CopySound
<1> QED
  BY <1>1, <1>2, <1>3, <1>5, <1>11, SlotWriteRow

\* A write of copy c of job k, by process w, that gives the lease up and leaves
\* the slot of the attempt to a later release.
LeaseEnds(w, k, c) ==
    /\ c \in Copy /\ c.owner = Null /\ c.attempt = row[k].attempt
    /\ row[k].status \notin {"absent", "pruned"}
    /\ row' = [row EXCEPT ![k] = Update(c)]
    /\ cache' = [cache EXCEPT ![w][k] = c] \/ UNCHANGED cache
    /\ UNCHANGED <<slot, pending>>
    /\ \A v \in Workers : releasing'[v] \subseteq releasing[v]
    /\ \A v \in Workers : \A t \in toRelease'[v] :
          t \in toRelease[v] \/ (t.job = k /\ t.attempt = c.attempt)

LEMMA SlotLeaseEnds ==
    ASSUME JobConstants, TypeOK, TypeOK', SlotInv, NEW w \in Workers, NEW k \in Jobs,
           NEW c, LeaseEnds(w, k, c)
    PROVE  SlotInv'
<1>1. /\ Update(c).owner = Null /\ Update(c).attempt = row[k].attempt
      /\ Update(c).status # "absent"
  BY DEF LeaseEnds, Update, Copy, Terminal
<1>2. RowSound(Update(c)) /\ RowStep(row[k], Update(c)) /\ LiveKept(row[k], Update(c))
  BY <1>1 DEF LeaseEnds, RowSound, RowStep, LiveKept
<1>3. Update(c) \in Row /\ row' = [row EXCEPT ![k] = Update(c)]
  BY UpdateType DEF LeaseEnds
<1>4. row'[k] = Update(c)
  BY <1>3 DEF TypeOK
<1>5. \A v \in Workers, j \in Jobs :
        cache'[v][j] = cache[v][j] \/ CopySound(row'[j], cache'[v][j])
  <2>1. cache \in [Workers -> [Jobs -> Copy \cup {NoCopy}]] /\ c.owner = Null
    BY DEF TypeOK, LeaseEnds
  <2>2. CASE cache' = [cache EXCEPT ![w][k] = c]
    BY <2>1, <2>2 DEF CopySound
  <2>3. CASE UNCHANGED cache
    BY <2>3
  <2> QED
    BY <2>2, <2>3 DEF LeaseEnds
<1>6. \A v \in Workers : \A t \in toRelease'[v] :
        t \in toRelease[v] \/ AttemptOver(row'[t.job], t)
  BY <1>1, <1>4 DEF LeaseEnds, AttemptOver
<1>7. UNCHANGED <<slot, pending>> /\ \A v \in Workers : releasing'[v] \subseteq releasing[v]
  BY DEF LeaseEnds
<1> QED
  BY <1>2, <1>3, <1>5, <1>6, <1>7, SlotWriteRow

LEMMA SlotComplete ==
    ASSUME JobConstants, TypeOK, TypeOK', SlotInv, NEW r \in runs,
           NEW status \in Terminal, Complete(r, status)
    PROVE  SlotInv'
<1> DEFINE old  == cache[r.proc][r.job]
           copy == [old EXCEPT !.status = status,
                       !.retryable = /\ status = "failed"
                                     /\ old.resumable
                                     /\ old.retries < MaxRetries,
                       !.resumable = @ /\ status # "cancelled",
                       !.recovery = IF @ = "recovering" THEN "recovered" ELSE @,
                       !.owner = Null]
           token == [job |-> r.job, owner |-> r.proc, attempt |-> r.attempt]
<1>1. r \in Run /\ r.proc \in Workers /\ r.job \in Jobs
  BY DEF TypeOK, Run
<1>2. CASE UNCHANGED <<row, cache, toRelease>>
  <2>1. UNCHANGED <<slot, pending, releasing>>
    BY DEF Complete
  <2> QED
    BY <1>2, <2>1, SlotQuiet
<1>3. CASE /\ HoldsInMemory(r.proc, r.job, r.attempt)
           /\ Owns(r.job, r.proc, r.attempt)
           /\ row' = [row EXCEPT ![r.job] = Update(copy)]
           /\ cache' = [cache EXCEPT ![r.proc][r.job] = copy]
           /\ toRelease' = [toRelease EXCEPT ![r.proc] = @ \cup {token}]
  <2>1. old \in Copy /\ old.attempt = r.attempt
    BY <1>3, HeldCopy
  <2>2. copy \in Copy /\ copy.owner = Null /\ copy.attempt = old.attempt
    <3>1. \A c \in Copy, b, d \in BOOLEAN, x \in Recovery :
            [c EXCEPT !.status = status, !.retryable = b, !.resumable = d,
                      !.recovery = x, !.owner = Null] \in Copy
      BY DEF Copy
    <3>2. (IF old.recovery = "recovering" THEN "recovered" ELSE old.recovery)
             \in Recovery
      BY <2>1 DEF Copy, Recovery
    <3>3. /\ (status = "failed" /\ old.resumable /\ old.retries < MaxRetries) \in BOOLEAN
          /\ (old.resumable /\ status # "cancelled") \in BOOLEAN
      OBVIOUS
    <3> HIDE DEF old
    <3>4. copy \in Copy
      BY <2>1, <3>1, <3>2, <3>3
    <3>5. copy.owner = Null /\ copy.attempt = old.attempt
      BY <2>1 DEF Copy
    <3> QED
      BY <3>4, <3>5
  <2>3. row[r.job].attempt = r.attempt /\ row[r.job].status \notin {"absent", "pruned"}
    BY <1>3 DEF Owns, Exists
  <2>4. token.job = r.job /\ token.attempt = r.attempt
    OBVIOUS
  <2> HIDE DEF copy, old, token
  <2>5. \A v \in Workers : \A t \in toRelease'[v] :
          t \in toRelease[v] \/ (t.job = r.job /\ t.attempt = copy.attempt)
    BY <1>1, <1>3, <2>1, <2>2, <2>4 DEF TypeOK
  <2>6. UNCHANGED <<slot, pending, releasing>>
    BY DEF Complete
  <2>7. LeaseEnds(r.proc, r.job, copy)
    BY <1>3, <2>1, <2>2, <2>3, <2>5, <2>6 DEF LeaseEnds
  <2> QED
    BY <1>1, <2>7, SlotLeaseEnds
<1> QED
  BY Zenon, <1>2, <1>3 DEF Complete

LEMMA SlotCancel ==
    ASSUME JobConstants, TypeOK, TypeOK', SlotInv, NEW w \in Workers, NEW j \in Jobs,
           Cancel(w, j)
    PROVE  SlotInv'
<1> DEFINE old  == cache[w][j]
           copy == [old EXCEPT !.status = "cancelled", !.retryable = FALSE,
                               !.resumable = FALSE, !.owner = Null]
           token == [job |-> j, owner |-> old.owner, attempt |-> old.attempt]
<1>1. old \in Copy
  BY DEF TypeOK, Cancel, Known
<1>2. copy \in Copy /\ copy.owner = Null /\ copy.attempt = old.attempt
  BY <1>1 DEF Copy, Terminal
<1>3. row[j].attempt = old.attempt /\ row[j].status \notin {"absent", "pruned"}
  BY DEF Cancel, Owns, Exists
<1>4. token.job = j /\ token.attempt = old.attempt
  OBVIOUS
<1>5. /\ row' = [row EXCEPT ![j] = Update(copy)]
      /\ cache' = [cache EXCEPT ![w][j] = copy]
      /\ toRelease' = [toRelease EXCEPT ![w] = IF old.owner = Null THEN @
                                              ELSE @ \cup {token}]
      /\ UNCHANGED <<slot, pending, releasing>>
  BY DEF Cancel
<1> HIDE DEF copy, old, token
<1>6. \A v \in Workers : \A t \in toRelease'[v] :
        t \in toRelease[v] \/ (t.job = j /\ t.attempt = copy.attempt)
  BY <1>2, <1>4, <1>5 DEF TypeOK
<1>7. LeaseEnds(w, j, copy)
  BY <1>2, <1>3, <1>5, <1>6 DEF LeaseEnds
<1> QED
  BY <1>7, SlotLeaseEnds

LEMMA SlotReleaseLease ==
    ASSUME JobConstants, TypeOK, TypeOK', SlotInv, NEW w \in Workers,
           ReleaseLease(w)
    PROVE  SlotInv'
<1> DEFINE copy(p)  == [p.copy EXCEPT
                           !.status = IF p.copy.status \in Terminal THEN @
                                      ELSE "queued",
                           !.recovery = IF p.copy.status \in Terminal THEN @
                                        ELSE "shutdown",
                           !.owner = Null]
           token(p) == [job |-> p.job, owner |-> p.copy.owner,
                        attempt |-> p.copy.attempt]
<1>1. PICK p \in releasing[w] :
        /\ p.copy # NoCopy
        /\ releasing' = [releasing EXCEPT ![w] = @ \ {p}]
        /\ \/ /\ Owns(p.job, p.copy.owner, p.copy.attempt)
              /\ row' = [row EXCEPT ![p.job] = Update(copy(p))]
              /\ \/ cache' = [cache EXCEPT ![w][p.job] = copy(p)]
                 \/ cache' = [cache EXCEPT ![w][p.job] = @]
              /\ toRelease' = [toRelease EXCEPT ![w] = @ \cup {token(p)}]
           \/ UNCHANGED <<row, cache, toRelease>>
        /\ UNCHANGED <<slot, pending>>
  BY DEF ReleaseLease
<1>2. p.job \in Jobs /\ p.copy \in Copy
  BY <1>1 DEF TypeOK
<1>3. \A v \in Workers : releasing'[v] \subseteq releasing[v]
  BY <1>1 DEF TypeOK
<1>4. CASE UNCHANGED <<row, cache, toRelease>>
  <2>1. RowsSound' /\ LeasesSound'
    BY <1>1, <1>3, <1>4, QuietStep
  <2>2. SlotBinding'
    BY <1>1, <1>4, SlotsUntouched DEF SlotInv, LiveKept
  <2> QED
    BY <2>1, <2>2 DEF SlotInv
<1>5. CASE /\ Owns(p.job, p.copy.owner, p.copy.attempt)
           /\ row' = [row EXCEPT ![p.job] = Update(copy(p))]
           /\ \/ cache' = [cache EXCEPT ![w][p.job] = copy(p)]
              \/ cache' = [cache EXCEPT ![w][p.job] = @]
           /\ toRelease' = [toRelease EXCEPT ![w] = @ \cup {token(p)}]
  <2>1. copy(p) \in Copy /\ copy(p).owner = Null /\ copy(p).attempt = p.copy.attempt
    <3>1. \A c \in Copy, x \in {"queued"} \cup Terminal, y \in Recovery :
             [c EXCEPT !.status = x, !.recovery = y, !.owner = Null] \in Copy
      BY DEF Copy
    <3>2. /\ (IF p.copy.status \in Terminal THEN p.copy.status ELSE "queued")
                \in {"queued"} \cup Terminal
          /\ (IF p.copy.status \in Terminal THEN p.copy.recovery ELSE "shutdown")
                \in Recovery
      BY <1>2 DEF Copy, Recovery
    <3>3. copy(p) \in Copy
      BY <1>2, <3>1, <3>2
    <3>4. copy(p).owner = Null /\ copy(p).attempt = p.copy.attempt
      BY <1>2 DEF Copy
    <3> QED
      BY <3>3, <3>4
  <2>2. token(p).job = p.job /\ token(p).attempt = p.copy.attempt
    OBVIOUS
  <2>3. row[p.job].attempt = p.copy.attempt
        /\ row[p.job].status \notin {"absent", "pruned"}
    BY <1>5 DEF Owns, Exists
  <2> HIDE DEF copy, token
  <2>4. cache' = [cache EXCEPT ![w][p.job] = copy(p)] \/ UNCHANGED cache
    BY <1>5 DEF TypeOK
  <2>5. \A v \in Workers : \A t \in toRelease'[v] :
          t \in toRelease[v] \/ (t.job = p.job /\ t.attempt = copy(p).attempt)
    BY <1>5, <2>1, <2>2 DEF TypeOK
  <2>6. LeaseEnds(w, p.job, copy(p))
    BY <1>1, <1>3, <1>5, <2>1, <2>3, <2>4, <2>5 DEF LeaseEnds
  <2> QED
    BY <1>2, <2>6, SlotLeaseEnds
<1> QED
  BY <1>1, <1>4, <1>5

LEMMA SlotRunStart ==
    ASSUME JobConstants, TypeOK, TypeOK', SlotInv, NEW r \in runs, RunStart(r)
    PROVE  SlotInv'
<1> DEFINE old  == cache[r.proc][r.job]
           copy == [old EXCEPT !.status = "running",
                       !.recovery = IF @ = "recovering" THEN "recovered" ELSE @]
           granted == /\ HoldsInMemory(r.proc, r.job, r.attempt)
                      /\ old.status \notin Terminal
                      /\ Owns(r.job, r.proc, r.attempt)
<1>1. r \in Run /\ r.proc \in Workers /\ r.job \in Jobs
  BY DEF TypeOK, Run
<1>2. /\ row' = IF granted THEN [row EXCEPT ![r.job] = UpdateState(r.job, copy)]
                ELSE row
      /\ cache' = IF granted THEN [cache EXCEPT ![r.proc][r.job] = copy] ELSE cache
      /\ UNCHANGED <<slot, pending, releasing, toRelease>>
  BY DEF RunStart
<1>3. CASE ~granted
  BY <1>2, <1>3, SlotQuiet
<1>4. CASE granted
  <2>1. old \in Copy /\ old.attempt = r.attempt /\ old.owner = r.proc
    BY <1>4, HeldCopy
  <2>2. copy \in Copy /\ copy.status = "running" /\ copy.attempt = old.attempt
        /\ (copy.recovery \in Granted <=> old.recovery \in Granted)
        /\ copy.owner = old.owner
    BY <2>1 DEF Copy, Recovery, Granted
  <2>3. row[r.job] \in Row /\ row[r.job].attempt = r.attempt
        /\ row[r.job].owner = r.proc /\ row[r.job].status \notin {"absent", "pruned"}
    BY <1>1, <1>4 DEF TypeOK, Owns, Exists
  <2>4. r.proc # Null
    BY <1>1 DEF JobConstants
  <2>5. row[r.job].status \in Active
    BY <1>1, <2>3, <2>4 DEF SlotInv, RowsSound, RowSound
  <2>6. old.recovery \in Granted <=> row[r.job].recovery \in Granted
    <3>1. CopySound(row[r.job], old)
      BY <1>1 DEF SlotInv, LeasesSound, MemoryLeases
    <3>2. LeaseKnown(row[r.job], old)
      BY <2>1, <2>4, <1>4, <3>1 DEF CopySound, HoldsInMemory, Known
    <3>3. r.attempt \in Nat
      BY <1>1 DEF Run
    <3> QED
      BY <2>1, <2>3, <2>4, <3>2, <3>3 DEF LeaseKnown
  <2> HIDE DEF copy, old
  <2> DEFINE new == UpdateState(r.job, copy)
  <2>7. new \in Row /\ new.owner = row[r.job].owner /\ new.ttl = row[r.job].ttl
        /\ new.attempt = row[r.job].attempt /\ new.status = "running"
        /\ new.recovery = copy.recovery
    <3>1. row \in [Jobs -> Row]
      BY DEF TypeOK
    <3> QED
      BY <1>1, <2>1, <2>2, <2>3, <3>1, UpdateStateType
  <2>8. row' = [row EXCEPT ![r.job] = new]
        /\ cache' = [cache EXCEPT ![r.proc][r.job] = copy]
    BY <1>2, <1>4
  <2> HIDE DEF new
  <2>9. RowSound(new) /\ RowStep(row[r.job], new) /\ LiveKept(row[r.job], new)
    BY <2>2, <2>3, <2>5, <2>6, <2>7 DEF RowSound, RowStep, LiveKept, Active
  <2>10. CopySound(new, copy)
    BY <2>1, <2>2, <2>3, <2>7 DEF CopySound, LeaseKnown
  <2>11. row'[r.job] = new
    BY <1>1, <2>8 DEF TypeOK
  <2>12. \A v \in Workers, j \in Jobs :
          cache'[v][j] = cache[v][j] \/ CopySound(row'[j], cache'[v][j])
    <3>1. \A v \in Workers, j \in Jobs :
            \/ cache'[v][j] = cache[v][j]
            \/ j = r.job /\ cache'[v][j] = copy
      BY <1>1, <2>8 DEF TypeOK
    <3> QED
      BY <2>10, <2>11, <3>1
  <2> QED
    BY <1>1, <1>2, <2>7, <2>8, <2>9, <2>12, SlotWriteRow
<1> QED
  BY <1>3, <1>4

\* The heartbeat and the capture of a lease touch the goroutines only.
LEMMA SlotRunOnly ==
    ASSUME TypeOK, SlotInv, UNCHANGED <<row, slot, cache, pending, releasing, toRelease>>
    PROVE  SlotInv'
BY SlotQuiet

LEMMA SlotRunRejectDescriptor ==
    ASSUME TypeOK, SlotInv, NEW r \in runs, RunRejectDescriptor(r)
    PROVE  SlotInv'
<1>1. ASSUME NEW w \in Workers, NEW j \in Jobs
      PROVE  cache'[w][j] = cache[w][j] \/ CopySound(row[j], cache'[w][j])
  <2>1. CopySound(row[j], cache[w][j])
    BY DEF SlotInv, LeasesSound, MemoryLeases
  <2>2. CASE GaveUp(cache[w][j], cache'[w][j])
    BY <2>1, <2>2, GaveUpFields DEF CopySound, LeaseKnown
  <2> QED
    BY <2>2, RejectedCopy
<1> QED
  BY <1>1, SlotQuiet DEF RunRejectDescriptor

-----------------------------------------------------------------------------
(* Actions that write several rows *)

\* Any write that moves rows by RowStep and keeps live recoveries.
LEMMA SlotWriteRows ==
    ASSUME TypeOK, TypeOK', SlotInv,
           \A j \in Jobs : /\ RowSound(row'[j]) /\ RowStep(row[j], row'[j])
                           /\ LiveKept(row[j], row'[j]),
           UNCHANGED <<slot, pending, releasing, toRelease>>,
           \A w \in Workers, j \in Jobs :
              cache'[w][j] = cache[w][j] \/ CopySound(row'[j], cache'[w][j])
    PROVE  SlotInv'
<1>1. LeasesSound'
  BY LeasesStep DEF SlotInv
<1>2. SlotBinding'
  BY SlotsUntouched DEF SlotInv
<1> QED
  BY <1>1, <1>2 DEF SlotInv, RowsSound, RowSound

SameLease(r, r2) ==
    /\ r2.status = r.status /\ r2.owner = r.owner /\ r2.attempt = r.attempt
    /\ r2.recovery = r.recovery /\ r2.ttl = r.ttl

LEMMA SameLeaseSound ==
    ASSUME NEW r, NEW r2, SameLease(r, r2), RowSound(r)
    PROVE  RowSound(r2) /\ RowStep(r, r2) /\ LiveKept(r, r2)
BY DEF SameLease, RowSound, RowStep, LiveKept

LEMMA RefreshedSound ==
    ASSUME NEW r \in Row, NEW r2 \in Row, SameLease(r, r2),
           NEW c \in Copy \cup {NoCopy}, CopySound(r, c)
    PROVE  CopySound(r2, Refreshed(c, r2))
<1> DEFINE new == Refreshed(c, r2)
<1>1. CASE c # NoCopy /\ c.owner # Null
  <2>1. c.attempt \in Nat
    BY <1>1 DEF Copy
  <2>2. /\ new.recovery = r2.recovery /\ new.owner = c.owner
        /\ new.attempt = c.attempt
    BY <1>1 DEF Refreshed, CopyOf
  <2>3. LeaseKnown(r, c)
    BY <1>1 DEF CopySound
  <2> HIDE DEF new
  <2>4. LeaseKnown(r2, new)
    BY <2>2, <2>3 DEF LeaseKnown, SameLease
  <2> QED
    BY <2>4 DEF CopySound, new
<1>2. CASE ~(c # NoCopy /\ c.owner # Null)
  <2>1. new.owner = Null
    BY <1>2 DEF Refreshed, CopyOf
  <2> QED
    BY <2>1 DEF CopySound
<1> QED
  BY <1>1, <1>2

LEMMA SlotLinkRetry ==
    ASSUME TypeOK, TypeOK', SlotInv, NEW w \in Workers, LinkRetry(w)
    PROVE  SlotInv'
<1> DEFINE parent(l) == [row[l.parent] EXCEPT !.retryable = FALSE]
           child(l)  == [row[l.child] EXCEPT
                            !.retries = l.count, !.parent = l.parent,
                            !.retryable = \/ @
                                          \/ /\ row[l.child].status = "failed"
                                             /\ l.count < MaxRetries]
<1>1. PICK l \in links[w] :
        /\ \/ /\ Consumable(l) /\ Exists(l.child)
              /\ row' = [row EXCEPT ![l.parent] = parent(l), ![l.child] = child(l)]
              /\ cache' = [cache EXCEPT ![w] = [j \in Jobs |->
                    IF j \in {l.parent, l.child}
                    THEN Refreshed(cache[w][j], row'[j]) ELSE cache[w][j]]]
           \/ UNCHANGED <<row, cache>>
        /\ UNCHANGED <<slot, pending, releasing, toRelease>>
  BY Zenon DEF LinkRetry
<1>2. CASE UNCHANGED <<row, cache>>
  BY <1>1, <1>2, SlotQuiet
<1>3. CASE /\ row' = [row EXCEPT ![l.parent] = parent(l), ![l.child] = child(l)]
           /\ cache' = [cache EXCEPT ![w] = [j \in Jobs |->
                    IF j \in {l.parent, l.child}
                    THEN Refreshed(cache[w][j], row'[j]) ELSE cache[w][j]]]
  <2>1. l.parent \in Jobs /\ l.child \in Jobs /\ l.count \in Nat
    BY DEF TypeOK
  <2>2. row[l.parent] \in Row /\ row[l.child] \in Row
    BY <2>1 DEF TypeOK
  <2>3. parent(l) \in Row /\ SameLease(row[l.parent], parent(l))
    BY <2>2 DEF Row, SameLease
  <2>4. child(l) \in Row /\ SameLease(row[l.child], child(l))
    <3>1. child(l) \in Row
      BY <2>1, <2>2 DEF Row
    <3>2. SameLease(row[l.child], child(l))
      BY <2>2 DEF Row, SameLease
    <3> QED
      BY <3>1, <3>2
  <2> HIDE DEF parent, child
  <2>5. \A j \in Jobs : row'[j] = IF j = l.child THEN child(l)
                                  ELSE IF j = l.parent THEN parent(l) ELSE row[j]
    BY <1>3, <2>1 DEF TypeOK
  <2>6. \A j \in Jobs : SameLease(row[j], row'[j]) /\ RowSound(row[j])
    BY <2>3, <2>4, <2>5 DEF SlotInv, RowsSound, SameLease
  <2>7. \A j \in Jobs : /\ RowSound(row'[j]) /\ RowStep(row[j], row'[j])
                        /\ LiveKept(row[j], row'[j])
    BY <2>6, SameLeaseSound
  <2>8. ASSUME NEW j \in Jobs
        PROVE  CopySound(row'[j], Refreshed(cache[w][j], row'[j]))
    <3>1. row[j] \in Row /\ row'[j] \in Row /\ cache[w][j] \in Copy \cup {NoCopy}
      BY DEF TypeOK
    <3>2. CopySound(row[j], cache[w][j])
      BY DEF SlotInv, LeasesSound, MemoryLeases
    <3> QED
      BY <2>6, <3>1, <3>2, RefreshedSound
  <2>9. \A v \in Workers, j \in Jobs :
          \/ cache'[v][j] = cache[v][j]
          \/ v = w /\ cache'[v][j] = Refreshed(cache[w][j], row'[j])
    BY <1>3 DEF TypeOK
  <2>10. \A v \in Workers, j \in Jobs :
          cache'[v][j] = cache[v][j] \/ CopySound(row'[j], cache'[v][j])
    BY <2>8, <2>9
  <2> QED
    BY <1>1, <2>7, <2>10, SlotWriteRows
<1> QED
  BY <1>1, <1>2, <1>3

\* What a deletion leaves: nothing a memory could be wrong about.
LEMMA DeletedSound ==
    ASSUME NEW r
    PROVE  RowSound(Deleted) /\ RowStep(r, Deleted) /\ LiveKept(r, Deleted)
BY DEF Deleted, NoRow, RowSound, RowStep, LiveKept, Active

LEMMA SlotPrune ==
    ASSUME TypeOK, TypeOK', SlotInv, NEW w \in Workers, Prune(w)
    PROVE  SlotInv'
<1>1. \A j \in Jobs : row'[j] = row[j] \/ row'[j] = Deleted
  BY DEF TypeOK, Prune
<1>2. \A j \in Jobs : SameLease(row[j], row[j]) /\ RowSound(row[j])
  BY DEF SameLease, SlotInv, RowsSound
<1>3. \A j \in Jobs : /\ RowSound(row'[j]) /\ RowStep(row[j], row'[j])
                      /\ LiveKept(row[j], row'[j])
  BY <1>1, <1>2, SameLeaseSound, DeletedSound
<1> QED
  BY <1>3, SlotWriteRows DEF Prune

-----------------------------------------------------------------------------
(* Actions that write slots *)

\* Slot s is the one SlotBinding asks for, for the row r of job j.
Bound(s, j, r) == s = [worker |-> r.owner, job |-> j, attempt |-> r.attempt,
                       ttl |-> r.ttl]
LiveRow(r) == /\ r.status \in Active /\ r.recovery \in Granted
              /\ r.owner # Null /\ r.ttl > 0

\* SlotBinding, in terms of rows and slots.
LEMMA BindingOf ==
    /\ SlotBinding <=> \A j \in Jobs : LiveRow(row[j]) =>
                          \E s \in Slots : Bound(slot[s], j, row[j])
    /\ SlotBinding' <=> \A j \in Jobs : LiveRow(row'[j]) =>
                          \E s \in Slots : Bound(slot'[s], j, row'[j])
BY DEF SlotBinding, RecoveredLive, Bound, LiveRow, Granted

\* When only slots change, those bound to a live row must not.
LEMMA SlotsOnly ==
    ASSUME TypeOK, SlotInv, UNCHANGED <<row, cache, pending, releasing>>,
           \A w \in Workers : toRelease'[w] \subseteq toRelease[w],
           \A s \in Slots, j \in Jobs :
              LiveRow(row[j]) /\ Bound(slot[s], j, row[j]) => slot'[s] = slot[s]
    PROVE  SlotInv'
<1>1. RowsSound' /\ LeasesSound'
  BY QuietStep
<1>2. SlotBinding'
  <2>1. ASSUME NEW j \in Jobs, LiveRow(row'[j])
        PROVE  \E s \in Slots : Bound(slot'[s], j, row'[j])
    <3>1. LiveRow(row[j])
      BY <2>1
    <3>2. PICK s \in Slots : Bound(slot[s], j, row[j])
      BY <3>1, BindingOf DEF SlotInv
    <3>3. slot'[s] = slot[s]
      BY <3>1, <3>2
    <3> QED
      BY <3>2, <3>3
  <2> QED
    BY <2>1, BindingOf
<1> QED
  BY <1>1, <1>2 DEF SlotInv

LEMMA SlotClearExpiredSlot ==
    ASSUME TypeOK, SlotInv, NEW w \in Workers, ClearExpiredSlot(w)
    PROVE  SlotInv'
<1>1. PICK k \in FreeSlots : slot' = [slot EXCEPT ![k] = FreeSlot]
  BY DEF ClearExpiredSlot
<1>2. slot[k].worker = Null \/ slot[k].ttl = 0
  BY DEF FreeSlots
<1>3. \A s \in Slots, j \in Jobs :
        LiveRow(row[j]) /\ Bound(slot[s], j, row[j]) => slot'[s] = slot[s]
  BY <1>1, <1>2 DEF TypeOK, LiveRow, Bound
<1> QED
  BY <1>3, SlotsOnly DEF ClearExpiredSlot

LEMMA SlotReleaseRecoverySlot ==
    ASSUME TypeOK, SlotInv, NEW w \in Workers, ReleaseRecoverySlot(w)
    PROVE  SlotInv'
<1>1. PICK t \in toRelease[w] :
        /\ toRelease' = [toRelease EXCEPT ![w] = @ \ {t}]
        /\ slot' = ReleasedSlots(t.job, t.owner, t.attempt)
        /\ UNCHANGED <<row, cache, pending, releasing>>
  BY DEF ReleaseRecoverySlot
<1>2. t \in Token /\ AttemptOver(row[t.job], t)
  BY DEF TypeOK, SlotInv, LeasesSound, ReleasesOver
<1>3. \A v \in Workers : toRelease'[v] \subseteq toRelease[v]
  BY <1>1 DEF TypeOK
<1>4. ASSUME NEW s \in Slots, NEW j \in Jobs,
             LiveRow(row[j]), Bound(slot[s], j, row[j])
      PROVE  slot'[s] = slot[s]
  <2>1. slot[s].job = j /\ slot[s].attempt = row[j].attempt
    BY <1>4 DEF Bound
  <2>2. row[j].attempt \in Nat /\ t.attempt \in Nat
    BY <1>2 DEF TypeOK, Row, Token
  <2>3. ~(slot[s].job = t.job /\ slot[s].attempt = t.attempt)
    BY <1>2, <1>4, <2>1, <2>2 DEF AttemptOver, LiveRow, Active
  <2> QED
    BY <1>1, <2>3 DEF ReleasedSlots
<1> QED
  BY <1>1, <1>3, <1>4, SlotsOnly

LEMMA SlotRegisterUndo ==
    ASSUME TypeOK, TypeOK', SlotInv, NEW w \in Workers, RegisterUndo(w)
    PROVE  SlotInv'
<1>1. PICK c \in creating[w] :
        /\ \/ /\ row' = [row EXCEPT ![c.job] = Deleted]
              /\ slot' = [s \in Slots |-> IF slot[s].job = c.job THEN FreeSlot
                                          ELSE slot[s]]
           \/ UNCHANGED <<row, slot>>
        /\ UNCHANGED <<cache, pending, releasing, toRelease>>
  BY DEF RegisterUndo
<1>2. c.job \in Jobs /\ row \in [Jobs -> Row]
  BY DEF TypeOK
<1>3. CASE UNCHANGED <<row, slot>>
  BY <1>1, <1>3, SlotQuiet
<1>4. CASE /\ row' = [row EXCEPT ![c.job] = Deleted]
           /\ slot' = [s \in Slots |-> IF slot[s].job = c.job THEN FreeSlot
                                       ELSE slot[s]]
  <2>1. \A j \in Jobs : SameLease(row[j], row[j]) /\ RowSound(row[j])
    BY DEF SameLease, SlotInv, RowsSound
  <2>2. \A j \in Jobs : row'[j] = IF j = c.job THEN Deleted ELSE row[j]
    BY <1>2, <1>4
  <2>3. \A j \in Jobs : RowSound(row'[j]) /\ RowStep(row[j], row'[j])
    BY <2>1, <2>2, SameLeaseSound, DeletedSound
  <2>4. LeasesSound'
    BY <1>1, <2>3, LeasesStep DEF SlotInv
  <2>5. ASSUME NEW j \in Jobs, LiveRow(row'[j])
        PROVE  \E s \in Slots : Bound(slot'[s], j, row'[j])
    <3>1. j # c.job /\ row'[j] = row[j]
      BY <2>2, <2>5 DEF LiveRow, Deleted, NoRow, Active
    <3>2. PICK s \in Slots : Bound(slot[s], j, row[j])
      BY <2>5, <3>1, BindingOf DEF SlotInv
    <3>3. slot'[s] = slot[s]
      BY <1>4, <3>1, <3>2 DEF Bound
    <3> QED
      BY <3>1, <3>2, <3>3
  <2>6. SlotBinding'
    BY <2>5, BindingOf
  <2> QED
    BY <2>3, <2>4, <2>6 DEF SlotInv, RowsSound, RowSound
<1> QED
  BY <1>1, <1>3, <1>4

\* A slot that is taken has expired or is free, so no live row is bound to it.
LEMMA SlotClaimRecoverable ==
    ASSUME JobConstants, TypeOK, TypeOK', SlotInv, NEW w \in Workers,
           ClaimRecoverable(w)
    PROVE  SlotInv'
<1> DEFINE new(j) == Claimed(j, w, "recovering")
<1>1. PICK k \in FreeSlots, i \in Jobs :
        /\ Claimable(i)
        /\ row' = [row EXCEPT ![i] = new(i)]
        /\ slot' = [slot EXCEPT ![k] = [worker |-> w, job |-> i,
                        attempt |-> new(i).attempt, ttl |-> LeaseTicks]]
        /\ pending' = [pending EXCEPT ![w] =
                @ \cup {[job |-> i, copy |-> CopyOf(new(i))]}]
        /\ UNCHANGED <<cache, releasing, toRelease>>
  BY DEF ClaimRecoverable
<1>2. row \in [Jobs -> Row] /\ "recovering" \in Recovery
  BY DEF TypeOK, Recovery
<1>3. /\ new(i) \in Row /\ RowSound(new(i)) /\ RowStep(row[i], new(i))
      /\ new(i).owner = w /\ new(i).ttl = LeaseTicks
  BY <1>1, <1>2, ClaimedType, ClaimedFields, ClaimedSound
<1>4. CopyOf(new(i)).owner = w /\ CopyOf(new(i)) # NoCopy
      /\ CopySound(new(i), CopyOf(new(i)))
  <2>1. CopyOf(new(i)).owner = w /\ CopySound(new(i), CopyOf(new(i)))
    BY <1>3, ReadSound DEF CopyOf
  <2>2. CopyOf(new(i)) \in Copy
    BY <1>2, ClaimedType, CopyType DEF Active
  <2>3. NoCopy \notin Copy
    BY DEF NoCopy, Copy, Terminal
  <2> QED
    BY <2>1, <2>2, <2>3
<1> HIDE DEF new
<1>5. /\ RowsSound' /\ row'[i] = new(i)
      /\ \A j \in Jobs : RowStep(row[j], row'[j])
      /\ \A j \in Jobs \ {i} : row'[j] = row[j]
  BY <1>1, <1>3, OneRow DEF SlotInv
<1>6. \A v \in Workers : \A p \in pending'[v] :
        p \in pending[v] \/ ItemSound(row'[p.job], p.copy)
  <2>1. ItemSound(new(i), CopyOf(new(i)))
    BY <1>4 DEF ItemSound, CopySound, JobConstants
  <2> QED
    BY <1>1, <1>5, <2>1 DEF TypeOK
<1>7. LeasesSound'
  BY <1>1, <1>5, <1>6, LeasesStep DEF SlotInv
<1>8. ASSUME NEW j \in Jobs, LiveRow(row'[j])
      PROVE  \E s \in Slots : Bound(slot'[s], j, row'[j])
  <2>1. k \in Slots /\ (slot[k].worker = Null \/ slot[k].ttl = 0)
    BY DEF FreeSlots
  <2>2. CASE j = i
    <3>1. Bound(slot'[k], j, row'[j])
      BY <1>1, <1>3, <1>5, <2>1, <2>2 DEF TypeOK, Bound
    <3> QED
      BY <2>1, <3>1
  <2>3. CASE j # i
    <3>1. row'[j] = row[j]
      BY <1>5, <2>3
    <3>2. PICK s \in Slots : Bound(slot[s], j, row[j])
      BY <1>8, <3>1, BindingOf DEF SlotInv
    <3>3. s # k
      BY <1>8, <2>1, <3>1, <3>2 DEF Bound, LiveRow
    <3> QED
      BY <1>1, <3>1, <3>2, <3>3 DEF TypeOK
  <2> QED
    BY <2>2, <2>3
<1>9. SlotBinding'
  BY <1>8, BindingOf
<1> QED
  BY <1>5, <1>7, <1>9 DEF SlotInv

\* A lease and its slot are given the same time to live.
LEMMA TtlFields ==
    ASSUME NEW r \in Row, NEW n
    PROVE  /\ [r EXCEPT !.ttl = n].status = r.status
           /\ [r EXCEPT !.ttl = n].owner = r.owner
           /\ [r EXCEPT !.ttl = n].attempt = r.attempt
           /\ [r EXCEPT !.ttl = n].recovery = r.recovery
           /\ [r EXCEPT !.ttl = n].ttl = n
BY DEF Row

LEMMA TtlBound ==
    ASSUME NEW r \in Row, NEW n, NEW j, NEW x, Bound(x, j, r)
    PROVE  Bound([x EXCEPT !.ttl = n], j, [r EXCEPT !.ttl = n])
<1>1. [x EXCEPT !.ttl = n] = [worker |-> r.owner, job |-> j, attempt |-> r.attempt,
                              ttl |-> n]
  BY DEF Bound
<1> QED
  BY <1>1, TtlFields DEF Bound

LEMMA SlotTick ==
    ASSUME JobConstants, TypeOK, TypeOK', SlotInv, Tick
    PROVE  SlotInv'
<1> DEFINE aged(x) == [x EXCEPT !.ttl = Aged(x.ttl)]
<1>1. \A j \in Jobs : row'[j] = aged(row[j])
  BY DEF Tick
<1>2. \A s \in Slots : slot'[s] = aged(slot[s])
  BY DEF Tick
<1>3. \A j \in Jobs : row[j] \in Row /\ RowSound(row[j])
  BY DEF TypeOK, SlotInv, RowsSound
<1>4. \A r \in Row : /\ aged(r).status = r.status /\ aged(r).owner = r.owner
                     /\ aged(r).attempt = r.attempt
                     /\ aged(r).recovery = r.recovery /\ aged(r).ttl = Aged(r.ttl)
  BY TtlFields
<1>5. \A r \in Row, j \in Jobs : \A x : Bound(x, j, r) => Bound(aged(x), j, aged(r))
  <2>1. ASSUME NEW r \in Row, NEW j \in Jobs, NEW x, Bound(x, j, r)
        PROVE  Bound(aged(x), j, aged(r))
    <3>1. x.ttl = r.ttl
      BY <2>1 DEF Bound
    <3>2. Bound([x EXCEPT !.ttl = Aged(r.ttl)], j, [r EXCEPT !.ttl = Aged(r.ttl)])
      BY <2>1, TtlBound
    <3> QED
      BY <3>1, <3>2
  <2> QED
    BY <2>1
<1> HIDE DEF aged
<1>6. \A j \in Jobs : RowSound(row'[j]) /\ RowStep(row[j], row'[j])
  <2>1. \A j \in Jobs : /\ row'[j].status = row[j].status
                        /\ row'[j].owner = row[j].owner
                        /\ row'[j].attempt = row[j].attempt
                        /\ row'[j].recovery = row[j].recovery
    BY <1>1, <1>3, <1>4
  <2> QED
    BY <1>3, <2>1 DEF RowSound, RowStep
<1>7. LeasesSound'
  BY <1>6, LeasesStep DEF SlotInv, Tick
<1>8. ASSUME NEW j \in Jobs, LiveRow(row'[j])
      PROVE  \E s \in Slots : Bound(slot'[s], j, row'[j])
  <2>1. LiveRow(row[j])
    <3>1. /\ row'[j].status = row[j].status /\ row'[j].owner = row[j].owner
          /\ row'[j].recovery = row[j].recovery /\ row'[j].ttl = Aged(row[j].ttl)
      BY <1>1, <1>3, <1>4
    <3>2. row[j].ttl \in Nat
      BY <1>3 DEF Row, JobConstants
    <3> QED
      BY <1>8, <3>1, <3>2 DEF LiveRow, Aged
  <2>2. PICK s \in Slots : Bound(slot[s], j, row[j])
    BY <2>1, BindingOf DEF SlotInv
  <2>3. Bound(slot'[s], j, row'[j])
    BY <1>1, <1>2, <1>3, <1>5, <2>2
  <2> QED
    BY <2>3
<1>9. SlotBinding'
  BY <1>8, BindingOf
<1> QED
  BY <1>6, <1>7, <1>9 DEF SlotInv, RowsSound, RowSound

\* RenewLease extends the lease and the slots of the attempt together.
LEMMA SlotHeartbeat ==
    ASSUME JobConstants, TypeOK, TypeOK', SlotInv, NEW r \in runs, Heartbeat(r)
    PROVE  SlotInv'
<1>1. r.job \in Jobs
  BY DEF TypeOK, Run
<1>2. UNCHANGED <<cache, pending, releasing, toRelease>>
  BY DEF Heartbeat
<1>3. CASE UNCHANGED <<row, slot>>
  BY <1>2, <1>3, SlotQuiet
<1>4. CASE /\ LeaseOwned(r.job, r.proc, r.attempt)
           /\ row' = [row EXCEPT ![r.job].ttl = LeaseTicks]
           /\ slot' = RenewedSlots(r.job, r.proc, r.attempt)
  <2>1. \A j \in Jobs : row[j] \in Row /\ RowSound(row[j])
    BY DEF TypeOK, SlotInv, RowsSound
  <2>2. \A j \in Jobs : row'[j] = IF j = r.job
                                  THEN [row[j] EXCEPT !.ttl = LeaseTicks] ELSE row[j]
    BY <1>1, <1>4 DEF TypeOK
  <2>3. \A j \in Jobs : RowSound(row'[j]) /\ RowStep(row[j], row'[j])
    <3>1. \A j \in Jobs : /\ row'[j].status = row[j].status
                          /\ row'[j].owner = row[j].owner
                          /\ row'[j].attempt = row[j].attempt
                          /\ row'[j].recovery = row[j].recovery
      <4>1. \A j \in Jobs : LET r2 == [row[j] EXCEPT !.ttl = LeaseTicks] IN
              /\ r2.status = row[j].status /\ r2.owner = row[j].owner
              /\ r2.attempt = row[j].attempt /\ r2.recovery = row[j].recovery
        BY <2>1, TtlFields
      <4> QED
        BY <2>2, <4>1
    <3> QED
      BY <2>1, <3>1 DEF RowSound, RowStep
  <2>4. LeasesSound'
    BY <1>2, <2>3, LeasesStep DEF SlotInv
  <2>5. ASSUME NEW j \in Jobs, LiveRow(row'[j])
        PROVE  \E s \in Slots : Bound(slot'[s], j, row'[j])
    <3>1. LiveRow(row[j])
      BY <1>4, <2>1, <2>2, <2>5 DEF LiveRow, LeaseOwned, Row
    <3>2. PICK s \in Slots : Bound(slot[s], j, row[j])
      BY <3>1, BindingOf DEF SlotInv
    <3>3. CASE j = r.job
      <4>1. slot'[s] = [slot[s] EXCEPT !.ttl = LeaseTicks]
        BY <1>4, <3>2, <3>3 DEF RenewedSlots, LeaseOwned, Bound
      <4>2. Bound(slot'[s], j, row'[j])
        <5>1. Bound([slot[s] EXCEPT !.ttl = LeaseTicks], j,
                    [row[j] EXCEPT !.ttl = LeaseTicks])
          BY <2>1, <3>2, TtlBound
        <5> QED
          BY <2>2, <3>3, <4>1, <5>1
      <4> QED
        BY <4>2
    <3>4. CASE j # r.job
      <4>1. slot'[s] = slot[s] /\ row'[j] = row[j]
        BY <1>4, <2>2, <3>2, <3>4 DEF RenewedSlots, Bound
      <4> QED
        BY <3>2, <4>1
    <3> QED
      BY <3>3, <3>4
  <2>6. SlotBinding'
    BY <2>5, BindingOf
  <2> QED
    BY <2>3, <2>4, <2>6 DEF SlotInv, RowsSound, RowSound
<1> QED
  BY <1>3, <1>4 DEF Heartbeat
-----------------------------------------------------------------------------
LEMMA SlotInit == JobConstants /\ Init => SlotInv
<1> SUFFICES ASSUME Init PROVE SlotInv
  OBVIOUS
<1>1. \A j \in Jobs : row[j].owner = Null /\ row[j].attempt = 0
  BY DEF Init, NoRow
<1>2. RowsSound
  BY <1>1 DEF RowsSound, RowSound
<1>3. LeasesSound
  BY DEF Init, LeasesSound, MemoryLeases, PendingLeases, ReleasingLeases,
         ReleasesOver, CopySound
<1>4. SlotBinding
  BY <1>1 DEF SlotBinding, RecoveredLive
<1> QED
  BY <1>2, <1>3, <1>4 DEF SlotInv

\* Every step of the system preserves SlotInv.
LEMMA SlotStep ==
    ASSUME JobConstants, TypeOK, TypeOK', SlotInv, [Next]_vars
    PROVE  SlotInv'
<1>1. ASSUME NEW w \in Workers, Start(w) \/ ProcessStep(w) \/ Request(w)
      PROVE  SlotInv'
  <2>1. CASE ProcessStep(w)
    BY <2>1, SlotRegisterClaim, SlotRegisterUndo, SlotLinkRetry,
       SlotClaimRecoverable, SlotClearExpiredSlot, SlotStartRecovered,
       SlotReleaseRecoverySlot, SlotReleaseLease, SlotShutdownSweep,
       SlotShutdownReadLease, SlotForget
       DEF ProcessStep
  <2>2. CASE Request(w)
    <3>1. CASE Shutdown(w)
      BY <3>1, SlotRunOnly DEF Shutdown
    <3> QED
      BY <2>2, <3>1, SlotRegisterCreate, SlotLoad, SlotCancel, SlotForget,
         SlotPrune DEF Request
  <2> QED
    BY <1>1, <2>1, <2>2, SlotStart
<1>2. ASSUME NEW r \in runs, RunStep(r) \/ Heartbeat(r) \/ HeartbeatFault(r)
      PROVE  SlotInv'
  <2>1. CASE RunFailRejected(r)
    BY <2>1, SlotComplete DEF RunFailRejected, Terminal
  <2>2. CASE RunFinish(r)
    <3>1. PICK status \in Terminal : Complete(r, status)
      BY <2>2 DEF RunFinish, Outcomes, Terminal
    <3> QED
      BY <3>1, SlotComplete
  <2>3. CASE RunCapture(r)
    BY <2>3, SlotRunOnly DEF RunCapture
  <2>4. CASE HeartbeatFault(r)
    BY <2>4, SlotRunOnly DEF HeartbeatFault
  <2> QED
    BY <1>2, <2>1, <2>2, <2>3, <2>4, SlotRunStart, SlotRunRejectDescriptor,
       SlotRunExit, SlotHeartbeat DEF RunStep
<1>3. CASE Tick
  BY <1>3, SlotTick
<1>4. CASE UNCHANGED vars
  BY <1>4, SlotQuiet DEF vars
<1> QED
  BY <1>1, <1>2, <1>3, <1>4 DEF Next

\* A recovered job whose lease is alive always holds a recovery slot of its own,
\* bound to the same process and attempt and expiring with the lease, in every
\* behaviour: crashes, stalls, shutdowns and failed writes included.
THEOREM SlotsBound == Spec => []SlotBinding
<1>1. Init => SlotInv
  BY JobConstants, SlotInit
<1>2. TypeOK /\ TypeOK' /\ SlotInv /\ [Next]_vars => SlotInv'
  BY JobConstants, SlotStep
<1>3. SlotInv => SlotBinding
  BY DEF SlotInv
<1> QED
  BY <1>1, <1>2, <1>3, TypeCorrect, PTL DEF Spec

\* Distinct recovered jobs hold distinct slots, so they are never more than the
\* slots: the limit holds across processes that share the store.
THEOREM RecoveryBounded == Spec => []RecoveryLimit
<1>1. JobConstants /\ SlotBinding => RecoveryLimit
  <2> SUFFICES ASSUME JobConstants, SlotBinding PROVE RecoveryLimit
    OBVIOUS
  <2> DEFINE live == {j \in Jobs : RecoveredLive(j)}
             held == [j \in live |-> CHOOSE s \in Slots : slot[s].job = j]
  <2>1. \A j \in live : held[j] \in Slots /\ slot[held[j]].job = j
    <3>1. ASSUME NEW j \in Jobs, RecoveredLive(j)
          PROVE  \E s \in Slots : slot[s].job = j
      <4>1. PICK s \in Slots :
              slot[s] = [worker |-> row[j].owner, job |-> j,
                         attempt |-> row[j].attempt, ttl |-> row[j].ttl]
        BY <3>1 DEF SlotBinding
      <4> QED
        BY <4>1
    <3> QED
      BY <3>1
  <2>2. held \in Injection(live, Slots)
    BY <2>1 DEF Injection, IsInjective
  <2>3. IsFiniteSet(Slots)
    BY DEF JobConstants
  <2> QED
    BY <2>2, <2>3, FS_Injection DEF RecoveryLimit
<1> QED
  BY <1>1, JobConstants, SlotsBound, PTL
-----------------------------------------------------------------------------
(* What the writes from memory come to *)

\* Row k becomes n, which says what c says; nobody's other row changes.
Written(k, c, n) ==
    /\ c \in Copy /\ n \in Row
    /\ n.status = c.status /\ n.retryable = c.retryable /\ n.retries = c.retries
    /\ n.parent = c.parent /\ n.attempt = c.attempt
    /\ \A j \in Jobs : row'[j] = IF j = k THEN n ELSE row[j]
\* Of all memories, that of w changes at most, for job k, to c.
Cached(w, k, c) ==
    \A v \in Workers, j \in Jobs :
        cache'[v][j] = IF v = w /\ j = k THEN c ELSE cache[v][j]
\* The columns no write from memory computes anew.
Derived(old, c) ==
    old.retries = c.retries /\ old.parent = c.parent /\ old.attempt = c.attempt
GivenUp(n) == n.owner = Null /\ n.ttl = 0

LEMMA WrittenIs ==
    ASSUME TypeOK, NEW k \in Jobs, NEW c \in Copy, NEW n \in Row, row' = [row EXCEPT ![k] = n],
           n = Update(c) \/ n = UpdateState(k, c)
    PROVE  Written(k, c, n)
<1>1. \A j \in Jobs : row'[j] = IF j = k THEN n ELSE row[j]
  BY DEF TypeOK
<1>2. /\ n.status = c.status /\ n.retryable = c.retryable /\ n.retries = c.retries
      /\ n.parent = c.parent /\ n.attempt = c.attempt
  <2>1. CASE n = Update(c)
    BY <2>1 DEF Update
  <2>2. CASE n = UpdateState(k, c)
    <3>1. n = [status |-> c.status, retryable |-> c.retryable,
               resumable |-> c.resumable, retries |-> c.retries,
               parent |-> c.parent, recovery |-> c.recovery, attempt |-> c.attempt,
               owner |-> row[k].owner, ttl |-> row[k].ttl]
      BY <2>2 DEF UpdateState, Update
    <3> QED BY <3>1
  <2> QED BY <2>1, <2>2
<1> QED BY <1>1, <1>2 DEF Written

LEMMA CachedIs ==
    ASSUME TypeOK, NEW w \in Workers, NEW k \in Jobs, NEW c \in Copy,
           cache' = [cache EXCEPT ![w][k] = c]
    PROVE  Cached(w, k, c)
BY DEF TypeOK, Cached

LEMMA RunStartIs ==
    ASSUME TypeOK, NEW r \in runs, RunStart(r)
    PROVE  \/ UNCHANGED <<row, cache>>
           \/ /\ HoldsInMemory(r.proc, r.job, r.attempt)
              /\ cache[r.proc][r.job].status \notin Terminal
              /\ Owns(r.job, r.proc, r.attempt)
              /\ \E c \in Copy, n \in Row :
                    /\ Written(r.job, c, n) /\ Cached(r.proc, r.job, c)
                    /\ Derived(cache[r.proc][r.job], c)
                    /\ c.retryable = cache[r.proc][r.job].retryable
                    /\ c.status = "running" /\ c.owner = r.proc
                    /\ n.owner = row[r.job].owner /\ n.ttl = row[r.job].ttl
<1> DEFINE old  == cache[r.proc][r.job]
           copy == [old EXCEPT !.status = "running",
                       !.recovery = IF @ = "recovering" THEN "recovered" ELSE @]
           granted == /\ HoldsInMemory(r.proc, r.job, r.attempt)
                      /\ old.status \notin Terminal
                      /\ Owns(r.job, r.proc, r.attempt)
           new == UpdateState(r.job, copy)
<1>1. r \in Run /\ r.proc \in Workers /\ r.job \in Jobs
  BY DEF TypeOK, Run
<1>2. /\ row' = IF granted THEN [row EXCEPT ![r.job] = new] ELSE row
      /\ cache' = IF granted THEN [cache EXCEPT ![r.proc][r.job] = copy] ELSE cache
  BY DEF RunStart
<1>3. CASE ~granted
  BY <1>2, <1>3
<1>4. CASE granted
  <2>1. old \in Copy /\ old.attempt = r.attempt /\ old.owner = r.proc
    BY <1>4, HeldCopy
  <2>2. /\ copy \in Copy /\ copy.status = "running" /\ copy.owner = r.proc
        /\ copy.retryable = old.retryable /\ Derived(old, copy)
    BY <2>1 DEF Copy, Recovery, Derived
  <2> HIDE DEF copy
  <2>3. new \in Row /\ row \in [Jobs -> Row]
    BY <1>1, <2>2, UpdateStateType DEF TypeOK
  <2>4. new.owner = row[r.job].owner /\ new.ttl = row[r.job].ttl
    BY DEF UpdateState, Update
  <2> HIDE DEF new
  <2>5. row' = [row EXCEPT ![r.job] = new] /\ cache' = [cache EXCEPT ![r.proc][r.job] = copy]
    BY <1>2, <1>4
  <2>6. Written(r.job, copy, new) /\ Cached(r.proc, r.job, copy)
    BY <1>1, <2>2, <2>3, <2>5, WrittenIs, CachedIs DEF new
  <2> QED BY <1>4, <2>2, <2>3, <2>4, <2>6
<1> QED BY <1>3, <1>4

\* The end of a worker, refused or failed, or written.
LEMMA CompleteIs ==
    ASSUME TypeOK, NEW r \in runs, NEW status \in Terminal, Complete(r, status)
    PROVE  \/ UNCHANGED <<row, cache, toRelease>>
           \/ /\ ~LeftToNext(r.proc, status)
              /\ HoldsInMemory(r.proc, r.job, r.attempt)
              /\ cache[r.proc][r.job].status \notin Terminal
              /\ Owns(r.job, r.proc, r.attempt)
              /\ \E c \in Copy, n \in Row :
                    /\ Written(r.job, c, n) /\ Cached(r.proc, r.job, c)
                    /\ Derived(cache[r.proc][r.job], c)
                    /\ c.status = status /\ c.owner = Null /\ GivenUp(n)
<1> DEFINE old  == cache[r.proc][r.job]
           copy == [old EXCEPT !.status = status,
                       !.retryable = /\ status = "failed"
                                     /\ old.resumable
                                     /\ old.retries < MaxRetries,
                       !.resumable = @ /\ status # "cancelled",
                       !.recovery = IF @ = "recovering" THEN "recovered" ELSE @,
                       !.owner = Null]
           new == Update(copy)
<1>1. r \in Run /\ r.proc \in Workers /\ r.job \in Jobs
  BY DEF TypeOK, Run
<1>2. SUFFICES ASSUME /\ ~LeftToNext(r.proc, status)
                      /\ HoldsInMemory(r.proc, r.job, r.attempt)
                      /\ cache[r.proc][r.job].status \notin Terminal
                      /\ Owns(r.job, r.proc, r.attempt)
                      /\ row' = [row EXCEPT ![r.job] = new]
                      /\ cache' = [cache EXCEPT ![r.proc][r.job] = copy]
               PROVE  \E c \in Copy, n \in Row :
                    /\ Written(r.job, c, n) /\ Cached(r.proc, r.job, c)
                    /\ Derived(old, c)
                    /\ c.status = status /\ c.owner = Null /\ GivenUp(n)
  BY Zenon DEF Complete
<1>3. old \in Copy
  BY <1>2, HeldCopy
<1>4. copy \in Copy
  <2>1. \A c \in Copy, b, d \in BOOLEAN, x \in Recovery :
          [c EXCEPT !.status = status, !.retryable = b, !.resumable = d,
                    !.recovery = x, !.owner = Null] \in Copy
    BY DEF Copy
  <2>2. (IF old.recovery = "recovering" THEN "recovered" ELSE old.recovery) \in Recovery
    BY <1>3 DEF Copy, Recovery
  <2>3. /\ (status = "failed" /\ old.resumable /\ old.retries < MaxRetries) \in BOOLEAN
        /\ (old.resumable /\ status # "cancelled") \in BOOLEAN
    OBVIOUS
  <2> HIDE DEF old
  <2> QED BY <1>3, <2>1, <2>2, <2>3
<1>5. copy.status = status /\ copy.owner = Null /\ Derived(old, copy)
  BY <1>3 DEF Copy, Derived
<1> HIDE DEF copy
<1>6. new \in Row /\ GivenUp(new)
  BY <1>4, JobConstants, UpdateType DEF GivenUp, Update
<1> HIDE DEF new
<1>7. Written(r.job, copy, new) /\ Cached(r.proc, r.job, copy)
  BY <1>1, <1>2, <1>4, <1>6, WrittenIs, CachedIs DEF new
<1> QED BY <1>4, <1>5, <1>6, <1>7

LEMMA CancelIs ==
    ASSUME TypeOK, NEW w \in Workers, NEW k \in Jobs, Cancel(w, k)
    PROVE  /\ cache[w][k] \in Copy /\ cache[w][k].status \in Active
           /\ Owns(k, cache[w][k].owner, cache[w][k].attempt)
           /\ \E c \in Copy, n \in Row :
                 /\ Written(k, c, n) /\ Cached(w, k, c) /\ Derived(cache[w][k], c)
                 /\ c.status = "cancelled" /\ c.owner = Null /\ GivenUp(n)
                 /\ c.retryable = FALSE
<1> DEFINE old  == cache[w][k]
           copy == [old EXCEPT !.status = "cancelled", !.retryable = FALSE,
                               !.resumable = FALSE, !.owner = Null]
           new == Update(copy)
<1>1. old \in Copy
  BY DEF TypeOK, Cancel, Known
<1>2. /\ copy \in Copy /\ copy.status = "cancelled" /\ copy.retryable = FALSE
      /\ copy.owner = Null /\ Derived(old, copy)
  BY <1>1 DEF Copy, Terminal, Derived
<1>3. /\ row' = [row EXCEPT ![k] = new] /\ cache' = [cache EXCEPT ![w][k] = copy]
      /\ old.status \in Active /\ Owns(k, old.owner, old.attempt)
  BY DEF Cancel
<1> HIDE DEF copy
<1>4. new \in Row /\ GivenUp(new)
  BY <1>2, JobConstants, UpdateType DEF GivenUp, Update
<1> HIDE DEF new
<1>5. Written(k, copy, new) /\ Cached(w, k, copy)
  BY <1>2, <1>3, <1>4, WrittenIs, CachedIs DEF new
<1> QED BY <1>1, <1>2, <1>3, <1>4, <1>5

LEMMA ReleaseLeaseIs ==
    ASSUME TypeOK, NEW w \in Workers, ReleaseLease(w)
    PROVE  \E p \in releasing[w] :
        /\ p.job \in Jobs /\ p.copy \in Copy
        /\ releasing' = [releasing EXCEPT ![w] = @ \ {p}]
        /\ \/ UNCHANGED <<row, cache, toRelease>>
           \/ /\ Owns(p.job, p.copy.owner, p.copy.attempt)
              /\ \E c \in Copy, n \in Row :
                    /\ Written(p.job, c, n) /\ Derived(p.copy, c)
                    /\ c.retryable = p.copy.retryable
                    /\ c.status = IF p.copy.status \in Terminal THEN p.copy.status
                                  ELSE "queued"
                    /\ c.owner = Null /\ GivenUp(n)
                    /\ \/ /\ cache[w][p.job] # NoCopy
                          /\ cache[w][p.job].status \notin Terminal
                          /\ Cached(w, p.job, c)
                       \/ /\ cache[w][p.job] = NoCopy \/ cache[w][p.job].status \in Terminal
                          /\ UNCHANGED cache
<1> DEFINE copy(p)  == [p.copy EXCEPT
                           !.status = IF p.copy.status \in Terminal THEN @ ELSE "queued",
                           !.recovery = IF p.copy.status \in Terminal THEN @ ELSE "shutdown",
                           !.owner = Null]
           new(p) == Update(copy(p))
<1>1. PICK p \in releasing[w] :
        /\ p.copy # NoCopy
        /\ releasing' = [releasing EXCEPT ![w] = @ \ {p}]
        /\ \/ /\ Owns(p.job, p.copy.owner, p.copy.attempt)
              /\ row' = [row EXCEPT ![p.job] = new(p)]
              /\ cache' = [cache EXCEPT ![w][p.job] =
                    IF Known(w, p.job) /\ @.status \notin Terminal THEN copy(p) ELSE @]
           \/ UNCHANGED <<row, cache, toRelease>>
  BY DEF ReleaseLease
<1>2. p.job \in Jobs /\ p.copy \in Copy
  BY <1>1 DEF TypeOK
<1>3. CASE UNCHANGED <<row, cache, toRelease>>
  BY <1>1, <1>2, <1>3
<1>4. CASE /\ Owns(p.job, p.copy.owner, p.copy.attempt)
           /\ row' = [row EXCEPT ![p.job] = new(p)]
           /\ cache' = [cache EXCEPT ![w][p.job] =
                    IF Known(w, p.job) /\ @.status \notin Terminal THEN copy(p) ELSE @]
  <2>1. copy(p) \in Copy
    <3>1. \A c \in Copy, x \in {"queued"} \cup Terminal, y \in Recovery :
             [c EXCEPT !.status = x, !.recovery = y, !.owner = Null] \in Copy
      BY DEF Copy
    <3>2. /\ (IF p.copy.status \in Terminal THEN p.copy.status ELSE "queued")
                \in {"queued"} \cup Terminal
          /\ (IF p.copy.status \in Terminal THEN p.copy.recovery ELSE "shutdown")
                \in Recovery
      BY <1>2 DEF Copy, Recovery
    <3> QED BY <1>2, <3>1, <3>2
  <2>2. /\ copy(p).retryable = p.copy.retryable /\ copy(p).owner = Null
        /\ copy(p).status = IF p.copy.status \in Terminal THEN p.copy.status ELSE "queued"
        /\ Derived(p.copy, copy(p))
    BY <1>2 DEF Copy, Derived
  <2> HIDE DEF copy
  <2>3. new(p) \in Row /\ GivenUp(new(p))
    BY <2>1, JobConstants, UpdateType DEF GivenUp, Update
  <2>4. Written(p.job, copy(p), new(p))
    BY <1>2, <1>4, <2>1, <2>3, WrittenIs
  <2> HIDE DEF new
  <2>5. CASE Known(w, p.job) /\ cache[w][p.job].status \notin Terminal
    <3>1. cache' = [cache EXCEPT ![w][p.job] = copy(p)]
      BY <1>4, <2>5
    <3>2. Cached(w, p.job, copy(p))
      BY <1>2, <2>1, <3>1, CachedIs
    <3> QED BY <1>1, <1>2, <1>4, <2>1, <2>2, <2>3, <2>4, <2>5, <3>2 DEF Known
  <2>6. CASE ~(Known(w, p.job) /\ cache[w][p.job].status \notin Terminal)
    <3>1. UNCHANGED cache
      BY <1>4, <2>6 DEF TypeOK
    <3> QED BY <1>1, <1>2, <1>4, <2>1, <2>2, <2>3, <2>4, <2>6, <3>1 DEF Known
  <2> QED BY <2>5, <2>6
<1> QED BY <1>1, <1>3, <1>4

\* Process w claims job k: the row becomes n.
Claims(w, k, n) ==
    /\ k \in Jobs /\ n \in Row /\ Claimable(k)
    /\ n.status = "queued" /\ n.owner = w /\ n.attempt = row[k].attempt + 1
    /\ n.ttl = LeaseTicks /\ n.retryable = row[k].retryable
    /\ n.retries = row[k].retries /\ n.parent = row[k].parent
    /\ CopyOf(n) \in Copy
    /\ \A j \in Jobs : row'[j] = IF j = k THEN n ELSE row[j]

LEMMA ClaimsIs ==
    ASSUME TypeOK, NEW w \in Workers, NEW k \in Jobs, NEW recovery \in Recovery, Claimable(k),
           NEW n, n = Claimed(k, w, recovery), row' = [row EXCEPT ![k] = n]
    PROVE  Claims(w, k, n)
<1>1. row \in [Jobs -> Row] /\ row[k] \in Row
  BY DEF TypeOK
<1>2. /\ n \in Row /\ n.status = "queued" /\ n.owner = w /\ n.attempt = row[k].attempt + 1
      /\ n.ttl = LeaseTicks
  BY <1>1, JobConstants, ClaimedType, ClaimedFields
<1>3. n.retryable = row[k].retryable /\ n.retries = row[k].retries /\ n.parent = row[k].parent
  BY <1>1 DEF Claimed, Row
<1>4. CopyOf(n) \in Copy
  BY <1>2, CopyType DEF Active
<1> QED BY <1>1, <1>2, <1>3, <1>4 DEF Claims

\* A registration claims its job; terminal copies may leave the memory.
Registers(w, c, n, gone) ==
    /\ c.job \in Jobs /\ c.parent \in Jobs \cup {Null} /\ c.count \in Nat
    /\ n \in Row /\ gone \in SUBSET Jobs /\ Claims(w, c.job, n)
    /\ \A j \in gone : j # c.job /\ cache[w][j] # NoCopy /\ cache[w][j].status \in Terminal
    /\ \A v \in Workers, j \in Jobs :
          cache'[v][j] = IF v = w /\ j = c.job THEN CopyOf(n)
                         ELSE IF v = w /\ j \in gone THEN NoCopy ELSE cache[v][j]
    /\ runs' = runs \cup {NewRun(w, c.job, n.attempt, FALSE)}
    /\ links' = [links EXCEPT ![w] = IF c.parent = Null THEN @ ELSE @ \cup
          {[parent |-> c.parent, child |-> c.job, count |-> c.count]}]
    /\ creating' = [creating EXCEPT ![w] = {}]
    /\ UNCHANGED <<slot, proc, pending, releasing, toRelease, asked, faults>>

LEMMA RegisterClaimIs ==
    ASSUME TypeOK, NEW w \in Workers, RegisterClaim(w)
    PROVE  \E c \in creating[w] : \E n, gone : Registers(w, c, n, gone)
<1> DEFINE new(c) == Claimed(c.job, w, "")
           mem(c) == [cache[w] EXCEPT ![c.job] = CopyOf(new(c))]
<1>1. PICK c \in creating[w] :
        /\ Claimable(c.job)
        /\ row' = [row EXCEPT ![c.job] = new(c)]
        /\ \E gone \in Evicted(mem(c)) :
              cache' = [cache EXCEPT ![w] =
                    [j \in Jobs |-> IF j \in gone THEN NoCopy ELSE mem(c)[j]]]
        /\ runs' = runs \cup {NewRun(w, c.job, new(c).attempt, FALSE)}
        /\ links' = [links EXCEPT ![w] = IF c.parent = Null THEN @ ELSE @ \cup
              {[parent |-> c.parent, child |-> c.job, count |-> c.count]}]
        /\ creating' = [creating EXCEPT ![w] = {}]
        /\ UNCHANGED <<slot, proc, pending, releasing, toRelease, asked, faults>>
  BY Zenon DEF RegisterClaim
<1>2. c.job \in Jobs /\ c.parent \in Jobs \cup {Null} /\ c.count \in Nat /\ "" \in Recovery
  BY DEF TypeOK, Recovery
<1>3. PICK n : n = new(c)
  OBVIOUS
<1>4. Claims(w, c.job, n)
  BY <1>1, <1>2, <1>3, ClaimsIs
<1> HIDE DEF new
<1>5. PICK gone \in Evicted(mem(c)) :
        cache' = [cache EXCEPT ![w] =
            [j \in Jobs |-> IF j \in gone THEN NoCopy ELSE mem(c)[j]]]
  BY <1>1
<1>6. /\ \A j \in Jobs : mem(c)[j] = IF j = c.job THEN CopyOf(n) ELSE cache[w][j]
      /\ DOMAIN mem(c) = Jobs
  BY <1>2, <1>3 DEF TypeOK
<1>7. /\ gone \in SUBSET Jobs
      /\ \A j \in gone : j \in Jobs /\ mem(c)[j] # NoCopy /\ mem(c)[j].status \in Terminal
  BY <1>5 DEF Evicted
<1>8. CopyOf(n).status = "queued" /\ "queued" \notin Terminal
  BY <1>4 DEF CopyOf, Claims, Terminal
<1>9. \A j \in gone : j # c.job /\ cache[w][j] # NoCopy /\ cache[w][j].status \in Terminal
  BY <1>6, <1>7, <1>8
<1> HIDE DEF mem
<1>10. \A v \in Workers, j \in Jobs :
         cache'[v][j] = IF v = w /\ j = c.job THEN CopyOf(n)
                        ELSE IF v = w /\ j \in gone THEN NoCopy ELSE cache[v][j]
  BY <1>2, <1>5, <1>6, <1>9 DEF TypeOK
<1>11. n \in Row /\ runs' = runs \cup {NewRun(w, c.job, n.attempt, FALSE)}
  BY <1>1, <1>3, <1>4 DEF Claims
<1>12. gone \in SUBSET Jobs
  BY <1>7
<1>13. /\ links' = [links EXCEPT ![w] = IF c.parent = Null THEN @ ELSE @ \cup
              {[parent |-> c.parent, child |-> c.job, count |-> c.count]}]
       /\ creating' = [creating EXCEPT ![w] = {}]
       /\ UNCHANGED <<slot, proc, pending, releasing, toRelease, asked, faults>>
  BY Zenon, <1>1
<1>14. c.job \in Jobs /\ c.parent \in Jobs \cup {Null} /\ c.count \in Nat
  BY <1>2
<1>15. n \in Row
  BY <1>11
<1>16. runs' = runs \cup {NewRun(w, c.job, n.attempt, FALSE)}
  BY <1>11
<1>17. Registers(w, c, n, gone)
  BY Zenon, <1>4, <1>9, <1>10, <1>12, <1>13, <1>14, <1>15, <1>16 DEF Registers
<1> QED BY <1>17

LEMMA ClaimRecoverableIs ==
    ASSUME TypeOK, NEW w \in Workers, ClaimRecoverable(w)
    PROVE  \E k \in Jobs, n \in Row :
        /\ proc[w] = "up" /\ creating[w] = {} /\ Claims(w, k, n)
        /\ pending' = [pending EXCEPT ![w] = @ \cup {[job |-> k, copy |-> CopyOf(n)]}]
        /\ UNCHANGED <<proc, cache, runs, creating, retrying, links, releasing, toRelease,
                       asked, faults>>
<1>1. PICK k \in Jobs :
        /\ Claimable(k) /\ row' = [row EXCEPT ![k] = Claimed(k, w, "recovering")]
        /\ pending' = [pending EXCEPT ![w] =
              @ \cup {[job |-> k, copy |-> CopyOf(Claimed(k, w, "recovering"))]}]
  BY DEF ClaimRecoverable
<1>2. PICK n : n = Claimed(k, w, "recovering")
  OBVIOUS
<1>3. Claims(w, k, n)
  BY <1>1, <1>2, ClaimsIs DEF Recovery
<1>4. /\ proc[w] = "up" /\ creating[w] = {}
      /\ UNCHANGED <<proc, cache, runs, creating, retrying, links, releasing, toRelease,
                     asked, faults>>
  BY DEF ClaimRecoverable
<1>5. n \in Row
  BY <1>3 DEF Claims
<1> QED BY <1>1, <1>2, <1>3, <1>4, <1>5

\* The retry l is linked, or it lost and its child is cancelled.
Relates(w, l) ==
    /\ Consumable(l) /\ Exists(l.child)
    /\ \A j \in Jobs : row'[j] \in Row /\ SameLease(row[j], row'[j])
    /\ \A j \in Jobs \ {l.child} :
          row'[j].parent = row[j].parent /\ row'[j].retries = row[j].retries
    /\ \A j \in Jobs \ {l.parent, l.child} : row'[j] = row[j]
    /\ l.parent # l.child => row'[l.parent].retryable = FALSE
    /\ row'[l.child].parent = l.parent /\ row'[l.child].retries = l.count
    /\ row'[l.child].retryable => row[l.child].retryable \/ l.count < MaxRetries
    /\ \A v \in Workers, j \in Jobs :
          cache'[v][j] = IF v = w /\ j \in {l.parent, l.child}
                         THEN Refreshed(cache[w][j], row'[j]) ELSE cache[v][j]
    /\ UNCHANGED <<runs, asked>>
Loses(w, l) ==
    /\ UNCHANGED <<row, cache>>
    /\ runs' = WithCancelled(w, {l.child}) /\ asked' = asked \cup {l.child}

LEMMA LinkRetryIs ==
    ASSUME TypeOK, NEW w \in Workers, LinkRetry(w)
    PROVE  /\ \E l \in links[w] :
                 /\ l.parent \in Jobs /\ l.child \in Jobs /\ l.count \in Nat
                 /\ links' = [links EXCEPT ![w] = @ \ {l}]
                 /\ Relates(w, l) \/ Loses(w, l)
           /\ UNCHANGED <<slot, proc, creating, pending, releasing, toRelease, faults>>
<1> DEFINE parent(l) == [row[l.parent] EXCEPT !.retryable = FALSE]
           child(l)  == [row[l.child] EXCEPT
                            !.retries = l.count, !.parent = l.parent,
                            !.retryable = \/ @
                                          \/ /\ row[l.child].status = "failed"
                                             /\ l.count < MaxRetries]
<1>1. PICK l \in links[w] :
        /\ links' = [links EXCEPT ![w] = @ \ {l}]
        /\ \/ /\ Consumable(l) /\ Exists(l.child)
              /\ row' = [row EXCEPT ![l.parent] = parent(l), ![l.child] = child(l)]
              /\ cache' = [cache EXCEPT ![w] = [j \in Jobs |->
                    IF j \in {l.parent, l.child}
                    THEN Refreshed(cache[w][j], row'[j]) ELSE cache[w][j]]]
              /\ UNCHANGED <<runs, asked>>
           \/ /\ UNCHANGED <<row, cache>>
              /\ runs' = WithCancelled(w, {l.child}) /\ asked' = asked \cup {l.child}
        /\ UNCHANGED <<slot, proc, creating, pending, releasing, toRelease, faults>>
  BY Zenon DEF LinkRetry
<1>2. l.parent \in Jobs /\ l.child \in Jobs /\ l.count \in Nat
  BY DEF TypeOK
<1>3. SUFFICES ASSUME
              /\ Consumable(l) /\ Exists(l.child)
              /\ row' = [row EXCEPT ![l.parent] = parent(l), ![l.child] = child(l)]
              /\ cache' = [cache EXCEPT ![w] = [j \in Jobs |->
                    IF j \in {l.parent, l.child}
                    THEN Refreshed(cache[w][j], row'[j]) ELSE cache[w][j]]]
              /\ UNCHANGED <<runs, asked>>
      PROVE   Relates(w, l)
  BY <1>1, <1>2 DEF Loses
<1>4. \A j \in Jobs : row[j] \in Row
  BY DEF TypeOK
<1>5. /\ parent(l) \in Row /\ SameLease(row[l.parent], parent(l)) /\ parent(l).retryable = FALSE
      /\ parent(l).parent = row[l.parent].parent /\ parent(l).retries = row[l.parent].retries
  BY <1>2, <1>4 DEF Row, SameLease
<1>6. child(l) \in Row
  BY <1>2, <1>4 DEF Row
<1>7. /\ SameLease(row[l.child], child(l)) /\ child(l).parent = l.parent
      /\ child(l).retries = l.count
      /\ child(l).retryable => row[l.child].retryable \/ l.count < MaxRetries
  BY <1>2, <1>4 DEF Row, SameLease
<1> HIDE DEF parent, child
<1>8. \A j \in Jobs : row'[j] = IF j = l.child THEN child(l)
                                ELSE IF j = l.parent THEN parent(l) ELSE row[j]
  BY <1>2, <1>3 DEF TypeOK
<1>9. \A j \in Jobs : row'[j] \in Row /\ SameLease(row[j], row'[j])
  BY <1>4, <1>5, <1>6, <1>7, <1>8 DEF SameLease
<1>10. \A v \in Workers, j \in Jobs :
          cache'[v][j] = IF v = w /\ j \in {l.parent, l.child}
                         THEN Refreshed(cache[w][j], row'[j]) ELSE cache[v][j]
  BY <1>3 DEF TypeOK
<1>11. \A j \in Jobs \ {l.child} :
          row'[j].parent = row[j].parent /\ row'[j].retries = row[j].retries
  BY <1>5, <1>8
<1> QED BY <1>2, <1>3, <1>5, <1>7, <1>8, <1>9, <1>10, <1>11 DEF Relates
-----------------------------------------------------------------------------
(* The life of a process *)

\* A process that is not serving has nothing in memory and nothing at work.  One that
\* shuts down registers and recovers nothing, and only it gives leases back.
ProcSound(w) ==
    /\ ~Serving(w) => /\ \A j \in Jobs : cache[w][j] = NoCopy
                      /\ \A r \in runs : r.proc # w
                      /\ links[w] = {} /\ releasing[w] = {}
    /\ proc[w] # "up" => creating[w] = {} /\ pending[w] = {}
    /\ proc[w] = "up" => releasing[w] = {}
    /\ proc[w] = "sweeping" => \A r \in runs : r.proc # w
    /\ ~Graceful => proc[w] \notin {"stopping", "sweeping"}
LifeInv ==
    /\ \A w \in Workers : ProcSound(w)
    /\ SingleInstance => \A v, w \in Workers : Serving(v) /\ Serving(w) => v = w

LEMMA LifeGrows ==
    ASSUME LifeInv, UNCHANGED proc,
           \A v \in Workers :
              /\ Serving(v) \/ \A j \in Jobs : cache'[v][j] = cache[v][j]
              /\ Serving(v) \/ links'[v] \subseteq links[v]
              /\ proc[v] = "up" \/ (creating'[v] \subseteq creating[v] /\ pending'[v] \subseteq pending[v])
              /\ proc[v] \in {"stopping", "sweeping"} \/ releasing'[v] \subseteq releasing[v],
           \A r \in runs' : proc[r.proc] = "up" \/ \E q \in runs : q.proc = r.proc
    PROVE  LifeInv'
<1>1. ASSUME NEW w \in Workers PROVE ProcSound(w)'
  <2>1. ProcSound(w)
    BY DEF LifeInv
  <2>2. (\A r \in runs : r.proc # w) /\ proc[w] # "up" => \A r \in runs' : r.proc # w
    OBVIOUS
  <2> QED BY <2>1, <2>2 DEF ProcSound, Serving
<1> QED BY <1>1 DEF LifeInv, Serving

\* Steps that leave what processes are, and what they hold, alone.
LEMMA LifeSame ==
    ASSUME LifeInv, UNCHANGED <<proc, cache, creating, pending, links, releasing>>,
           \A r \in runs' : \E q \in runs : q.proc = r.proc
    PROVE  LifeInv'
BY LifeGrows

LEMMA CancelledRuns ==
    ASSUME NEW w, NEW js, runs' = WithCancelled(w, js)
    PROVE  \A x \in runs' : \E q \in runs :
              \/ x = q
              \/ /\ x = [q EXCEPT !.live = FALSE] /\ q.proc = w /\ q.job \in js
                 /\ Known(w, q.job) /\ q.born = cache[w][q.job].attempt
BY DEF WithCancelled

\* s is the run r but for whether it is live, where it is and the lease it caught.
SameRun(r, s) ==
    s.proc = r.proc /\ s.job = r.job /\ s.born = r.born /\ s.recovered = r.recovered

LEMMA RunFields ==
    ASSUME NEW r \in Run, NEW a, NEW x, NEW b
    PROVE  /\ LET s == [r EXCEPT !.live = b] IN
                 SameRun(r, s) /\ s.attempt = r.attempt /\ s.at = r.at /\ s.live = b
           /\ LET s == [r EXCEPT !.at = x] IN
                 SameRun(r, s) /\ s.attempt = r.attempt /\ s.at = x /\ s.live = r.live
           /\ LET s == [r EXCEPT !.at = x, !.live = b] IN
                 SameRun(r, s) /\ s.attempt = r.attempt /\ s.at = x /\ s.live = b
           /\ LET s == [r EXCEPT !.at = x, !.attempt = a] IN
                 SameRun(r, s) /\ s.attempt = a /\ s.at = x /\ s.live = r.live
<1>1. LET s == [r EXCEPT !.live = b] IN
          SameRun(r, s) /\ s.attempt = r.attempt /\ s.at = r.at /\ s.live = b
  BY DEF Run, SameRun
<1>2. LET s == [r EXCEPT !.at = x] IN
          SameRun(r, s) /\ s.attempt = r.attempt /\ s.at = x /\ s.live = r.live
  BY DEF Run, SameRun
<1>3. LET s == [r EXCEPT !.at = x, !.live = b] IN
          SameRun(r, s) /\ s.attempt = r.attempt /\ s.at = x /\ s.live = b
  BY DEF Run, SameRun
<1>4. LET s == [r EXCEPT !.at = x, !.attempt = a] IN
          SameRun(r, s) /\ s.attempt = a /\ s.at = x /\ s.live = r.live
  BY DEF Run, SameRun
<1> QED BY <1>1, <1>2, <1>3, <1>4

LEMMA LifeStart ==
    ASSUME TypeOK, LifeInv, NEW w \in Workers, Start(w)
    PROVE  LifeInv'
<1>1. /\ proc[w] = "off" /\ proc' = [proc EXCEPT ![w] = "up"]
      /\ SingleInstance => \A v \in Workers : proc[v] \in {"off", "down"}
      /\ UNCHANGED <<runs, creating, pending, links, releasing>>
  BY DEF Start
<1>2. \A v \in Workers, j \in Jobs : v # w => cache'[v][j] = cache[v][j]
  BY DEF TypeOK, Start
<1>3. \A v \in Workers : proc'[v] = IF v = w THEN "up" ELSE proc[v]
  BY <1>1 DEF TypeOK
<1>4. ASSUME NEW v \in Workers PROVE ProcSound(v)'
  BY <1>1, <1>2, <1>3 DEF LifeInv, ProcSound, Serving
<1> QED BY <1>1, <1>3, <1>4 DEF LifeInv, Serving

LEMMA LifeForget ==
    ASSUME TypeOK, LifeInv, NEW w \in Workers, Crash(w) \/ ShutdownDone(w)
    PROVE  LifeInv'
<1>1. ProcSound(w) /\ proc[w] \in {"up", "stopping", "sweeping"}
  BY DEF LifeInv, Crash, ShutdownDone
<1>2. \A v \in Workers :
        /\ proc'[v] = IF v = w THEN "down" ELSE proc[v]
        /\ \A j \in Jobs : cache'[v][j] = IF v = w THEN NoCopy ELSE cache[v][j]
        /\ links'[v] = IF v = w THEN {} ELSE links[v]
  <2>1. CASE Crash(w)
    BY <2>1 DEF TypeOK, Crash
  <2>2. CASE ShutdownDone(w)
    BY <2>2 DEF TypeOK, ShutdownDone
  <2> QED BY <2>1, <2>2
<1>3. \A v \in Workers :
        /\ creating'[v] = IF v = w THEN {} ELSE creating[v]
        /\ pending'[v] = IF v = w THEN {} ELSE pending[v]
        /\ releasing'[v] = IF v = w THEN {} ELSE releasing[v]
  <2>1. CASE Crash(w)
    BY <2>1 DEF TypeOK, Crash
  <2>2. CASE ShutdownDone(w)
    BY <1>1, <2>2 DEF ProcSound, ShutdownDone
  <2> QED BY <2>1, <2>2
<1>4. runs' \subseteq runs /\ \A r \in runs' : r.proc # w
  <2>1. CASE Crash(w)
    BY <2>1 DEF Crash, RunsOf
  <2>2. CASE ShutdownDone(w)
    BY <1>1, <2>2 DEF ProcSound, ShutdownDone
  <2> QED BY <2>1, <2>2
<1>5. ASSUME NEW v \in Workers PROVE ProcSound(v)'
  BY <1>2, <1>3, <1>4 DEF LifeInv, ProcSound, Serving
<1> QED BY <1>2, <1>5 DEF LifeInv, Serving

LEMMA LifeShutdown ==
    ASSUME TypeOK, LifeInv, NEW w \in Workers, Shutdown(w) \/ ShutdownSweep(w)
    PROVE  LifeInv'
<1>1. /\ ProcSound(w) /\ proc[w] \in {"up", "stopping"} /\ Graceful
      /\ proc' = [proc EXCEPT ![w] = IF proc[w] = "up" THEN "stopping" ELSE "sweeping"]
      /\ creating[w] = {} /\ pending[w] = {}
      /\ UNCHANGED <<cache, creating, pending, links>>
  BY JobConstants DEF LifeInv, ProcSound, Shutdown, ShutdownSweep
<1>2. \A v \in Workers : proc'[v] = IF v # w THEN proc[v]
                                    ELSE IF proc[w] = "up" THEN "stopping" ELSE "sweeping"
  BY <1>1 DEF TypeOK
<1>3. \A v \in Workers : v # w => releasing'[v] = releasing[v]
  BY DEF TypeOK, Shutdown, ShutdownSweep
<1>4. /\ \A r \in runs' : \E q \in runs : q.proc = r.proc
      /\ proc[w] = "stopping" => \A r \in runs' : r.proc # w
  <2>1. CASE Shutdown(w)
    <3>1. \A x \in runs' : \E q \in runs : x = q \/ x = [q EXCEPT !.live = FALSE]
      BY <2>1, CancelledRuns DEF Shutdown
    <3>2. \A q \in runs : [q EXCEPT !.live = FALSE].proc = q.proc
      BY RunFields DEF TypeOK, SameRun
    <3>3. proc[w] = "up"
      BY <2>1 DEF Shutdown
    <3> QED BY <3>1, <3>2, <3>3
  <2>2. CASE ShutdownSweep(w)
    BY <2>2 DEF ShutdownSweep, RunsOf
  <2> QED BY <2>1, <2>2
<1>5. ASSUME NEW v \in Workers PROVE ProcSound(v)'
  <2>1. ProcSound(v)
    BY DEF LifeInv
  <2>2. CASE v = w
    BY <1>1, <1>2, <1>4, <2>2 DEF ProcSound, Serving
  <2>3. CASE v # w
    BY <1>1, <1>2, <1>3, <1>4, <2>1, <2>3 DEF ProcSound, Serving
  <2> QED BY <2>2, <2>3
<1> QED BY <1>1, <1>2, <1>5 DEF LifeInv, Serving

\* Who has something at work is serving, and who registers or recovers is up.
LEMMA AtWork ==
    ASSUME TypeOK, LifeInv
    PROVE  /\ \A r \in runs : r \in Run /\ r.proc \in Workers /\ r.job \in Jobs /\ Serving(r.proc)
           /\ \A w \in Workers : /\ links[w] # {} => Serving(w)
                                 /\ creating[w] # {} \/ pending[w] # {} => proc[w] = "up"
                                 /\ releasing[w] # {} => proc[w] \in {"stopping", "sweeping"}
                                 /\ \A j \in Jobs : cache[w][j] # NoCopy => Serving(w)
<1>1. \A r \in runs : r \in Run /\ r.proc \in Workers /\ r.job \in Jobs
  BY DEF TypeOK, Run
<1> QED BY <1>1 DEF LifeInv, ProcSound, Serving

\* Whatever becomes of a run, it stays with its process.
LEMMA RunsStay ==
    ASSUME TypeOK, NEW r \in runs
    PROVE  /\ \A s \in {[r EXCEPT !.live = FALSE], [r EXCEPT !.at = "index"],
                      [r EXCEPT !.at = "reject"],
                      [r EXCEPT !.at = "exit", !.live = FALSE]} :
                 /\ s.proc = r.proc
                 /\ runs' = Replace(r, s) => \A x \in runs' : \E q \in runs : q.proc = x.proc
           /\ \A a, s : s = [r EXCEPT !.at = "start", !.attempt = a] =>
                 /\ s.proc = r.proc
                 /\ runs' = Replace(r, s) => \A x \in runs' : \E q \in runs : q.proc = x.proc
<1>1. r \in Run
  BY DEF TypeOK
<1>2. /\ [r EXCEPT !.live = FALSE].proc = r.proc /\ [r EXCEPT !.at = "index"].proc = r.proc
      /\ [r EXCEPT !.at = "reject"].proc = r.proc
      /\ [r EXCEPT !.at = "exit", !.live = FALSE].proc = r.proc
      /\ \A a : [r EXCEPT !.at = "start", !.attempt = a].proc = r.proc
  BY <1>1, RunFields DEF SameRun
<1>3. ASSUME NEW s, s.proc = r.proc, runs' = Replace(r, s)
      PROVE  \A x \in runs' : \E q \in runs : q.proc = x.proc
  BY <1>3 DEF Replace
<1> QED BY <1>2, <1>3

LEMMA CancelledStay ==
    ASSUME TypeOK, NEW w, NEW js, runs' = WithCancelled(w, js)
    PROVE  \A x \in runs' : \E q \in runs : q.proc = x.proc
<1>1. \A x \in runs' : \E q \in runs : x = q \/ x = [q EXCEPT !.live = FALSE]
  BY CancelledRuns
<1>2. \A q \in runs : [q EXCEPT !.live = FALSE].proc = q.proc
  BY RunsStay
<1> QED BY <1>1, <1>2

LEMMA LifeRequest ==
    ASSUME TypeOK, LifeInv, NEW w \in Workers, Request(w)
    PROVE  LifeInv'
<1>1. ASSUME NEW j \in Jobs, NEW parent \in Jobs \cup {Null}, RegisterCreate(w, j, parent)
      PROVE  LifeInv'
  <2>1. proc[w] = "up" /\ UNCHANGED <<proc, cache, runs, pending, links, releasing>>
    BY <1>1 DEF RegisterCreate
  <2>2. \A v \in Workers : v # w => creating'[v] = creating[v]
    BY <1>1 DEF TypeOK, RegisterCreate
  <2> QED BY <2>1, <2>2, LifeGrows
<1>2. ASSUME NEW j \in Jobs, Load(w, j) PROVE LifeInv'
  <2>1. Serving(w) /\ UNCHANGED <<proc, runs, creating, pending, links, releasing>>
    BY <1>2 DEF Load
  <2>2. \A v \in Workers, i \in Jobs : v # w => cache'[v][i] = cache[v][i]
    BY <1>2 DEF TypeOK, Load
  <2> QED BY <2>1, <2>2, LifeGrows
<1>3. ASSUME NEW j \in Jobs, Cancel(w, j) PROVE LifeInv'
  <2>1. Serving(w) /\ UNCHANGED <<proc, creating, pending, links, releasing>>
    BY <1>3 DEF Cancel
  <2>2. \A v \in Workers, i \in Jobs : v # w => cache'[v][i] = cache[v][i]
    BY <1>3 DEF TypeOK, Cancel
  <2>4. \A x \in runs' : \E q \in runs : q.proc = x.proc
    BY <1>3, CancelledStay DEF Cancel
  <2> QED BY <2>1, <2>2, <2>4, LifeGrows
<1>4. CASE Prune(w)
  BY <1>4, LifeSame DEF Prune
<1> QED BY <1>1, <1>2, <1>3, <1>4, LifeForget, LifeShutdown DEF Request

LEMMA LifeProcess ==
    ASSUME TypeOK, LifeInv, NEW w \in Workers, ProcessStep(w)
    PROVE  LifeInv'
<1>1. CASE RegisterClaim(w)
  <2>1. PICK c \in creating[w] : \E n, gone : Registers(w, c, n, gone)
    BY <1>1, RegisterClaimIs
  <2>2. PICK n, gone : Registers(w, c, n, gone)
    BY <2>1
  <2>3. proc[w] = "up" /\ UNCHANGED <<proc, pending, releasing>>
    BY <2>1, <2>2, AtWork DEF Registers
  <2>4. \A v \in Workers : v # w => /\ \A j \in Jobs : cache'[v][j] = cache[v][j]
                                    /\ creating'[v] = creating[v] /\ links'[v] = links[v]
    BY <2>2 DEF TypeOK, Registers
  <2>5. \A r \in runs' : r \in runs \/ r.proc = w
    BY <2>2 DEF Registers, NewRun
  <2> QED BY <2>3, <2>4, <2>5, LifeGrows DEF Serving
<1>2. CASE RegisterUndo(w)
  <2>1. \A v \in Workers : creating'[v] \subseteq creating[v]
    BY <1>2 DEF TypeOK, RegisterUndo
  <2>2. UNCHANGED <<proc, cache, runs, pending, links, releasing>>
    BY <1>2 DEF RegisterUndo
  <2> QED BY <2>1, <2>2, LifeGrows
<1>3. CASE LinkRetry(w)
  <2>1. PICK l \in links[w] : /\ links' = [links EXCEPT ![w] = @ \ {l}]
                              /\ Relates(w, l) \/ Loses(w, l)
    BY <1>3, LinkRetryIs
  <2>0. UNCHANGED <<slot, proc, creating, pending, releasing, toRelease, faults>>
    BY Zenon, <1>3, LinkRetryIs
  <2>3. /\ \A v \in Workers, j \in Jobs : v # w => cache'[v][j] = cache[v][j]
        /\ runs' = runs \/ runs' = WithCancelled(w, {l.child})
    <3>1. CASE Relates(w, l)
      BY <3>1 DEF Relates
    <3>2. CASE Loses(w, l)
      BY <3>2 DEF Loses
    <3> QED BY <2>1, <3>1, <3>2
  <2>2. Serving(w) /\ \A v \in Workers : links'[v] \subseteq links[v]
    BY <2>1, AtWork DEF TypeOK
  <2>4. \A x \in runs' : \E q \in runs : q.proc = x.proc
    BY <2>3, CancelledStay
  <2> QED BY <2>0, <2>2, <2>3, <2>4, LifeGrows
<1>4. CASE ClaimRecoverable(w)
  <2>1. proc[w] = "up" /\ UNCHANGED <<proc, cache, runs, creating, links, releasing>>
    BY <1>4 DEF ClaimRecoverable
  <2>2. \A v \in Workers : v # w => pending'[v] = pending[v]
    BY <1>4 DEF TypeOK, ClaimRecoverable
  <2> QED BY <2>1, <2>2, LifeGrows
<1>5. CASE ClearExpiredSlot(w) \/ ReleaseRecoverySlot(w)
  BY <1>5, LifeSame DEF ClearExpiredSlot, ReleaseRecoverySlot
<1>6. CASE StartRecovered(w)
  <2>1. PICK p \in pending[w] :
          /\ pending' = [pending EXCEPT ![w] = @ \ {p}]
          /\ cache' = [cache EXCEPT ![w][p.job] = p.copy]
          /\ runs' = runs \cup {NewRun(w, p.job, p.copy.attempt, TRUE)}
          /\ UNCHANGED <<proc, creating, links, releasing>>
    BY <1>6 DEF StartRecovered
  <2>2. proc[w] = "up"
    BY <2>1, AtWork
  <2>3. \A v \in Workers : /\ v # w => \A j \in Jobs : cache'[v][j] = cache[v][j]
                           /\ pending'[v] \subseteq pending[v]
    BY <2>1 DEF TypeOK
  <2>4. \A r \in runs' : r \in runs \/ r.proc = w
    BY <2>1 DEF NewRun
  <2> QED BY <2>1, <2>2, <2>3, <2>4, LifeGrows DEF Serving
<1>7. CASE ReleaseLease(w)
  <2>1. PICK p \in releasing[w] : releasing' = [releasing EXCEPT ![w] = @ \ {p}]
    BY <1>7, ReleaseLeaseIs
  <2>2. \A v \in Workers : releasing'[v] \subseteq releasing[v]
    BY <2>1 DEF TypeOK
  <2>3. Serving(w)
    BY <2>1, AtWork DEF Serving
  <2>4. \A v \in Workers, j \in Jobs : v # w => cache'[v][j] = cache[v][j]
    BY <1>7 DEF TypeOK, ReleaseLease
  <2>5. UNCHANGED <<proc, runs, creating, pending, links>>
    BY <1>7 DEF ReleaseLease
  <2> QED BY <2>2, <2>3, <2>4, <2>5, LifeGrows
<1>8. CASE ShutdownReadLease(w)
  <2>1. proc[w] \in {"stopping", "sweeping"}
    BY <1>8, AtWork DEF ShutdownReadLease
  <2>2. UNCHANGED <<proc, cache, runs, creating, pending, links>>
    BY <1>8 DEF ShutdownReadLease
  <2>3. \A v \in Workers : v # w => releasing'[v] = releasing[v]
    BY <1>8 DEF TypeOK, ShutdownReadLease
  <2> QED BY <2>1, <2>2, <2>3, LifeGrows
<1> QED BY <1>1, <1>2, <1>3, <1>4, <1>5, <1>6, <1>7, <1>8, LifeShutdown, LifeForget DEF ProcessStep

LEMMA LifeRun ==
    ASSUME TypeOK, LifeInv, NEW r \in runs, RunStep(r) \/ Heartbeat(r) \/ HeartbeatFault(r)
    PROVE  LifeInv'
<1>1. r \in Run /\ r.proc \in Workers /\ r.job \in Jobs /\ Serving(r.proc)
  BY AtWork
<1>2. CASE RunCapture(r)
  <2>1. runs' = Replace(r, IF cache[r.proc][r.job] # NoCopy /\ cache[r.proc][r.job].owner = r.proc
                           THEN [r EXCEPT !.at = "start", !.attempt = cache[r.proc][r.job].attempt]
                           ELSE [r EXCEPT !.at = "exit", !.live = FALSE])
        /\ UNCHANGED <<proc, cache, creating, pending, links, releasing>>
    BY <1>2 DEF RunCapture
  <2>2. \A x \in runs' : \E q \in runs : q.proc = x.proc
    BY <2>1, RunsStay
  <2> QED BY <2>1, <2>2, LifeSame
<1>3. CASE RunStart(r)
  <2>1. /\ runs' = Replace(r, [r EXCEPT !.at = "index"])
        /\ UNCHANGED <<proc, creating, pending, links, releasing>>
    BY <1>3 DEF RunStart
  <2>2. \A v \in Workers, j \in Jobs : v # r.proc => cache'[v][j] = cache[v][j]
    BY <1>3, RunStartIs DEF Cached
  <2>3. \A x \in runs' : \E q \in runs : q.proc = x.proc
    BY <2>1, RunsStay
  <2> QED BY <1>1, <2>1, <2>2, <2>3, LifeGrows
<1>4. ASSUME NEW status \in Terminal, Complete(r, status)
      PROVE  LifeInv'
  <2>1. /\ runs' = Replace(r, [r EXCEPT !.at = "exit", !.live = FALSE])
        /\ UNCHANGED <<proc, creating, pending, links, releasing>>
    BY <1>4 DEF Complete
  <2>2. \A v \in Workers, j \in Jobs : v # r.proc => cache'[v][j] = cache[v][j]
    BY <1>4, CompleteIs DEF Cached
  <2>3. \A x \in runs' : \E q \in runs : q.proc = x.proc
    BY <2>1, RunsStay
  <2> QED BY <1>1, <2>1, <2>2, <2>3, LifeGrows
<1>5. CASE RunFailRejected(r) \/ RunFinish(r)
  BY <1>4, <1>5 DEF RunFailRejected, RunFinish, Outcomes, Terminal
<1>8. CASE RunRejectDescriptor(r)
  <2>1. /\ runs' = Replace(r, [r EXCEPT !.at = "reject"])
        /\ UNCHANGED <<proc, creating, pending, links, releasing>>
    BY <1>8 DEF RunRejectDescriptor
  <2>2. \A v \in Workers, j \in Jobs : v # r.proc => cache'[v][j] = cache[v][j]
    BY <1>8 DEF TypeOK, RunRejectDescriptor
  <2>3. \A x \in runs' : \E q \in runs : q.proc = x.proc
    BY <2>1, RunsStay
  <2> QED BY <1>1, <2>1, <2>2, <2>3, LifeGrows
<1>6. CASE RunExit(r)
  <2>1. UNCHANGED <<proc, cache, creating, pending, links>> /\ runs' \subseteq runs
    BY <1>6 DEF RunExit
  <2>2. \A v \in Workers : releasing'[v] = releasing[v] \/ (v = r.proc /\ proc[v] = "stopping")
    BY <1>6 DEF TypeOK, RunExit
  <2> QED BY <2>1, <2>2, LifeGrows
<1>7. CASE Heartbeat(r) \/ HeartbeatFault(r)
  <2>1. /\ runs' = runs \/ runs' = Replace(r, [r EXCEPT !.live = FALSE])
        /\ UNCHANGED <<proc, cache, creating, pending, links, releasing>>
    BY <1>7 DEF Heartbeat, HeartbeatFault
  <2>2. \A x \in runs' : \E q \in runs : q.proc = x.proc
    BY <2>1, RunsStay
  <2> QED BY <2>1, <2>2, LifeSame
<1> QED BY <1>2, <1>3, <1>5, <1>6, <1>7, <1>8 DEF RunStep

LEMMA LifeStep ==
    ASSUME TypeOK, LifeInv, [Next]_vars
    PROVE  LifeInv'
<1>1. CASE Tick
  BY <1>1, LifeSame DEF Tick
<1>2. CASE UNCHANGED vars
  BY <1>2, LifeSame DEF vars
<1> QED BY <1>1, <1>2, LifeStart, LifeRequest, LifeProcess, LifeRun DEF Next

LEMMA LifeInit == Init => LifeInv
BY DEF Init, LifeInv, ProcSound, Serving
-----------------------------------------------------------------------------
(* What a step may do to the rows and to the memories *)

Ended(r) == r.status \in Terminal \cup {"pruned"}

\* A copy without a lease that shows its job active: the row had no lease at that
\* attempt, and at most it was claimed or cancelled since.
FreeSound(r, c) ==
    \/ r.status = "pruned"
    \/ c.attempt < r.attempt
    \/ /\ r.status \in Active \cup {"cancelled"}
       /\ c.attempt = r.attempt /\ r.owner = Null
Leaseless(c) == c = NoCopy \/ c.owner = Null

FreeCopies ==
    \A w \in Workers, j \in Jobs :
        /\ cache[w][j] # NoCopy
        /\ cache[w][j].owner = Null /\ cache[w][j].status \in Active
        => FreeSound(row[j], cache[w][j])
EndedCopies ==
    \A w \in Workers, j \in Jobs :
        cache[w][j] # NoCopy /\ cache[w][j].status \in Terminal => Ended(row[j])
ClaimedCopies ==
    \A w \in Workers : \A p \in pending[w] : p.copy.status = "queued"
\* A child whose lease its process no longer remembers has ended, or a shutdown gave
\* the lease back.
LinkedChildren ==
    \A w \in Workers : \A l \in links[w] :
        Leaseless(cache[w][l.child]) =>
            \/ Ended(row[l.child])
            \/ /\ row[l.child].status \in Active /\ row[l.child].owner = Null
               /\ proc[w] # "up"
\* The inductive strengthening of TerminalIsFinal.
CopiesSound == FreeCopies /\ EndedCopies /\ ClaimedCopies /\ LinkedChildren

\* A row is inserted, keeps its attempt and lease, is claimed, or gives its lease up.
Born(r, r2) == /\ r.status = "absent" /\ r2.status = "queued"
               /\ r2.attempt = 0 /\ r2.owner = Null
Kept(r, r2) ==
    /\ r2.attempt = r.attempt /\ r2.owner = r.owner
    /\ r2.status = r.status \/ (r.owner # Null /\ r2.status = "running")
    /\ r.ttl = 0 => r2.ttl = 0
    /\ r2.ttl = r.ttl \/ r2.ttl > 0 \/ (Tick /\ ~(r.ttl > 1))
Taken(j) ==
    /\ Claimable(j)
    /\ row'[j].status = "queued" /\ row'[j].attempt = row[j].attempt + 1
    /\ \E w \in Workers : proc[w] = "up" /\ row'[j].owner = w
Yielded(r, r2) ==
    /\ r2.attempt = r.attempt /\ r2.owner = Null
    /\ \/ /\ r.owner # Null /\ r.ttl > 0
          /\ \/ r2.status \in Terminal
             \/ r2.status = "queued" /\ \E w \in Workers : releasing[w] # {}
       \/ /\ r.owner = Null /\ r.status \notin {"absent", "pruned"}
          /\ r2.status = "cancelled"
          /\ CopiesSound => r.status \in Active \cup {"cancelled"}
RowFate(j) ==
    \/ row'[j].status = "pruned"
    \/ Born(row[j], row'[j]) \/ Kept(row[j], row'[j])
    \/ Taken(j) \/ Yielded(row[j], row'[j])

\* A copy that is read or written shows the status of the row after the step.
Mirrored(w, j) ==
    /\ cache'[w][j] \in Copy
    /\ cache'[w][j].status = row'[j].status
    /\ \/ /\ ~Leaseless(cache[w][j])
          /\ cache'[w][j].owner = cache[w][j].owner
          /\ cache'[w][j].attempt = cache[w][j].attempt
       \/ /\ cache'[w][j].attempt = row'[j].attempt
          /\ cache'[w][j].owner \in {Null, row'[j].owner}
          /\ CopiesSound => cache'[w][j].owner = row'[j].owner
          /\ cache'[w][j].owner = Null =>
                Leaseless(cache[w][j]) \/ Ended(row'[j]) \/ proc[w] # "up"
MemoryFate(w, j) ==
    \/ cache'[w][j] = cache[w][j]
    \/ /\ cache'[w][j] = NoCopy
       /\ \/ ~Serving(w)' /\ links'[w] = {}
          \/ cache[w][j] # NoCopy /\ cache[w][j].status \in Terminal
    \/ \E p \in pending[w] : p.job = j /\ cache'[w][j] = p.copy
    \/ GaveUp(cache[w][j], cache'[w][j])
    \/ Mirrored(w, j)
RestFate(w) ==
    /\ \A p \in pending'[w] :
          \/ p \in pending[w]
          \/ /\ p.copy.status = "queued" /\ Claimable(p.job)
             /\ p.copy = CopyOf(row'[p.job])
             /\ LeaseOwned(p.job, w, p.copy.attempt)'
    /\ \A l \in links'[w] : l \in links[w] \/ ~Leaseless(cache'[w][l.child])
    /\ proc'[w] = "up" => proc[w] = "up" \/ links'[w] = {}
Fate ==
    /\ \A j \in Jobs : RowFate(j)
    /\ \A w \in Workers, j \in Jobs : MemoryFate(w, j)
    /\ \A w \in Workers : RestFate(w)

LEMMA NoCopyIsNone == \A c \in Copy : c # NoCopy /\ c.status \in Active \cup Terminal
<1>1. NoCopy.status = "unknown" /\ "unknown" \notin {"queued", "running"} \cup Terminal
  BY DEF NoCopy, Terminal
<1>2. \A c \in Copy : c.status \in {"queued", "running"} \cup Terminal
  BY DEF Copy
<1> QED BY <1>1, <1>2 DEF Active

LEMMA FateRow ==
    ASSUME NEW k \in Jobs, RowFate(k),
           \A j \in Jobs : j # k => row'[j] = row[j]
    PROVE  \A j \in Jobs : RowFate(j)
BY DEF RowFate, Kept

LEMMA FateRest ==
    ASSUME NEW w \in Workers, pending'[w] \subseteq pending[w],
           \A l \in links'[w] : l \in links[w] \/ ~Leaseless(cache'[w][l.child]),
           proc'[w] = "up" => proc[w] = "up" \/ links'[w] = {}
    PROVE  RestFate(w)
BY DEF RestFate

\* Steps that write rows only, or nothing of this.
LEMMA FateQuiet ==
    ASSUME \A j \in Jobs : RowFate(j), UNCHANGED <<cache, pending, links>>,
           \A w \in Workers : proc'[w] = "up" => proc[w] = "up"
    PROVE  Fate
BY FateRest DEF Fate, MemoryFate

LEMMA FateSame ==
    ASSUME UNCHANGED <<row, cache, pending, links>>,
           \A w \in Workers : proc'[w] = "up" => proc[w] = "up"
    PROVE  Fate
<1>1. \A j \in Jobs : RowFate(j)
  BY DEF RowFate, Kept
<1> QED BY <1>1, FateQuiet

LEMMA FateStart ==
    ASSUME TypeOK, LifeInv, NEW w \in Workers, Start(w)
    PROVE  Fate
<1>1. links[w] = {} /\ \A j \in Jobs : cache[w][j] = NoCopy
  BY DEF LifeInv, ProcSound, Serving, Start
<1>2. UNCHANGED <<row, pending, links>> /\ proc' = [proc EXCEPT ![w] = "up"]
  BY DEF Start
<1>3. \A j \in Jobs : RowFate(j)
  BY <1>2 DEF RowFate, Kept
<1>4. \A v \in Workers : RestFate(v)
  BY <1>1, <1>2, FateRest DEF TypeOK
<1>5. ASSUME NEW v \in Workers, NEW j \in Jobs PROVE MemoryFate(v, j)
  <2>1. CASE v # w
    BY <2>1 DEF TypeOK, Start, MemoryFate
  <2>2. CASE v = w
    <3>1. cache'[w][j] = IF Exists(j) THEN CopyOf(row[j]) ELSE NoCopy
      BY DEF TypeOK, Start
    <3>2. CASE ~Exists(j)
      BY <1>1, <2>2, <3>1, <3>2 DEF MemoryFate
    <3>3. CASE Exists(j)
      <4>1. row[j] \in Row /\ row[j].status \in Active \cup Terminal
        BY <3>3 DEF TypeOK, Row, Exists, Active
      <4>2. CopyOf(row[j]) \in Copy
        BY <4>1, CopyType
      <4>3. /\ CopyOf(row[j]).status = row[j].status /\ CopyOf(row[j]).owner = row[j].owner
            /\ CopyOf(row[j]).attempt = row[j].attempt
        BY DEF CopyOf
      <4>4. Mirrored(w, j)
        BY <1>1, <1>2, <3>1, <3>3, <4>2, <4>3 DEF Mirrored, Leaseless
      <4> QED BY <2>2, <4>4 DEF MemoryFate
    <3> QED BY <3>2, <3>3
  <2> QED BY <2>1, <2>2
<1> QED BY <1>3, <1>4, <1>5 DEF Fate

LEMMA FateLoad ==
    ASSUME TypeOK, NEW w \in Workers, NEW k \in Jobs, Load(w, k)
    PROVE  Fate
<1>1. UNCHANGED <<row, pending, links, proc>> /\ cache[w][k] = NoCopy
  BY DEF Load, Known
<1>2. \A j \in Jobs : RowFate(j)
  BY <1>1 DEF RowFate, Kept
<1>3. \A v \in Workers : RestFate(v)
  BY <1>1, FateRest
<1>4. row[k] \in Row /\ row[k].status \in Active \cup Terminal
  BY DEF TypeOK, Row, Exists, Active, Load
<1>5. CopyOf(row[k]) \in Copy
  BY <1>4, CopyType
<1>6. /\ CopyOf(row[k]).status = row[k].status /\ CopyOf(row[k]).owner = row[k].owner
      /\ CopyOf(row[k]).attempt = row[k].attempt
  BY DEF CopyOf
<1>7. Cached(w, k, CopyOf(row[k]))
  BY <1>5, CachedIs DEF Load
<1>8. Mirrored(w, k)
  BY <1>1, <1>5, <1>6, <1>7 DEF Mirrored, Cached, Leaseless
<1>9. \A v \in Workers, j \in Jobs : MemoryFate(v, j)
  BY <1>7, <1>8 DEF MemoryFate, Cached
<1> QED BY <1>2, <1>3, <1>9 DEF Fate

LEMMA FateForget ==
    ASSUME TypeOK, LifeInv, NEW w \in Workers, Crash(w) \/ ShutdownDone(w)
    PROVE  Fate
<1>1. UNCHANGED row
  BY DEF Crash, ShutdownDone
<1>2. \A v \in Workers :
        /\ pending'[v] \subseteq pending[v] /\ links'[v] \subseteq links[v]
        /\ proc'[v] = IF v = w THEN "down" ELSE proc[v]
        /\ v = w => links'[v] = {}
        /\ \A j \in Jobs : cache'[v][j] = IF v = w THEN NoCopy ELSE cache[v][j]
  <2>1. CASE Crash(w)
    BY <2>1 DEF TypeOK, Crash
  <2>2. CASE ShutdownDone(w)
    BY <2>2 DEF TypeOK, ShutdownDone
  <2> QED BY <2>1, <2>2
<1>3. \A j \in Jobs : RowFate(j)
  BY <1>1 DEF RowFate, Kept
<1>4. \A v \in Workers : RestFate(v)
  BY <1>2, FateRest
<1>5. \A v \in Workers, j \in Jobs : MemoryFate(v, j)
  BY <1>2 DEF MemoryFate, Serving
<1> QED BY <1>3, <1>4, <1>5 DEF Fate

\* Steps that write row k and the copy of process w with it.
LEMMA FateWritten ==
    ASSUME NEW w \in Workers, NEW k \in Jobs, NEW c, NEW n, RowFate(k), Written(k, c, n),
           \/ UNCHANGED cache
           \/ Cached(w, k, c) /\ Mirrored(w, k),
           UNCHANGED <<pending, links, proc>>
    PROVE  Fate
<1>1. \A j \in Jobs : RowFate(j)
  BY FateRow DEF Written
<1>2. \A v \in Workers : RestFate(v)
  BY FateRest
<1>3. \A v \in Workers, j \in Jobs : MemoryFate(v, j)
  BY DEF MemoryFate, Cached
<1> QED BY <1>1, <1>2, <1>3 DEF Fate

\* A row a lease still guards is active.
LEMMA OwnedRow ==
    ASSUME TypeOK, SlotInv, NEW k \in Jobs, NEW owner, NEW attempt, Owns(k, owner, attempt)
    PROVE  /\ row[k] \in Row /\ row[k].attempt = attempt /\ row[k].owner = owner
           /\ Exists(k)
           /\ owner # Null => row[k].ttl > 0 /\ row[k].status \in Active
BY DEF TypeOK, SlotInv, RowsSound, RowSound, Owns

LEMMA FateRunStart ==
    ASSUME TypeOK, SlotInv, NEW r \in runs, RunStart(r)
    PROVE  Fate
<1>1. r.proc \in Workers /\ r.job \in Jobs /\ UNCHANGED <<pending, links, proc>>
  BY DEF TypeOK, Run, RunStart
<1>2. CASE UNCHANGED <<row, cache>>
  BY <1>1, <1>2, FateSame
<1>3. CASE ~UNCHANGED <<row, cache>>
  <2> DEFINE old == cache[r.proc][r.job]
  <2>1. /\ old # NoCopy /\ old.owner = r.proc /\ old.attempt = r.attempt
        /\ Owns(r.job, r.proc, r.attempt)
    BY <1>3, RunStartIs DEF HoldsInMemory, Known
  <2>2. PICK c \in Copy, n \in Row :
          /\ Written(r.job, c, n) /\ Cached(r.proc, r.job, c) /\ Derived(old, c)
          /\ c.status = "running" /\ c.owner = r.proc
          /\ n.owner = row[r.job].owner /\ n.ttl = row[r.job].ttl
    BY <1>3, RunStartIs
  <2>3. r.proc # Null
    BY <1>1, JobConstants
  <2>4. row[r.job].owner = r.proc /\ row[r.job].ttl > 0 /\ row[r.job].attempt = r.attempt
    BY <1>1, <2>1, <2>3, OwnedRow
  <2>5. row'[r.job] = n /\ n.status = "running" /\ n.attempt = r.attempt /\ c.attempt = r.attempt
    BY <1>1, <2>1, <2>2 DEF Written, Derived
  <2>6. RowFate(r.job)
    BY <2>2, <2>3, <2>4, <2>5 DEF RowFate, Kept
  <2>7. Mirrored(r.proc, r.job)
    BY <1>1, <2>1, <2>2, <2>3, <2>5 DEF Mirrored, Cached, Leaseless
  <2> QED BY <1>1, <2>2, <2>6, <2>7, FateWritten
<1> QED BY <1>2, <1>3

LEMMA FateComplete ==
    ASSUME TypeOK, SlotInv, NEW r \in runs, NEW status \in Terminal, Complete(r, status)
    PROVE  Fate
<1>1. r.proc \in Workers /\ r.job \in Jobs /\ UNCHANGED <<pending, links, proc>>
  BY DEF TypeOK, Run, Complete
<1>2. CASE UNCHANGED <<row, cache, toRelease>>
  BY <1>1, <1>2, FateSame
<1>3. CASE ~UNCHANGED <<row, cache, toRelease>>
  <2> DEFINE old == cache[r.proc][r.job]
  <2>1. HoldsInMemory(r.proc, r.job, r.attempt) /\ Owns(r.job, r.proc, r.attempt)
    BY <1>3, CompleteIs
  <2>2. PICK c \in Copy, n \in Row :
          /\ Written(r.job, c, n) /\ Cached(r.proc, r.job, c) /\ Derived(old, c)
          /\ c.status = status /\ c.owner = Null /\ GivenUp(n)
    BY <1>3, CompleteIs
  <2>3. r.proc # Null
    BY <1>1, JobConstants
  <2>4. row[r.job].owner = r.proc /\ row[r.job].ttl > 0 /\ row[r.job].attempt = r.attempt
    BY <1>1, <2>1, <2>3, OwnedRow
  <2>5. /\ row'[r.job] = n /\ n.status = status /\ n.attempt = r.attempt
        /\ c.attempt = r.attempt /\ n.owner = Null
    BY <1>1, <2>1, <2>2 DEF Written, Derived, HoldsInMemory, GivenUp
  <2>6. RowFate(r.job)
    BY <2>3, <2>4, <2>5 DEF RowFate, Yielded
  <2>7. Mirrored(r.proc, r.job)
    BY <1>1, <2>2, <2>5 DEF Mirrored, Cached, Ended
  <2> QED BY <1>1, <2>2, <2>6, <2>7, FateWritten
<1> QED BY <1>2, <1>3

LEMMA FateRunRejectDescriptor ==
    ASSUME TypeOK, NEW r \in runs, RunRejectDescriptor(r)
    PROVE  Fate
<1>1. UNCHANGED <<row, pending, links, proc>>
  BY DEF RunRejectDescriptor
<1>2. \A j \in Jobs : RowFate(j)
  BY <1>1 DEF RowFate, Kept
<1>3. \A w \in Workers : RestFate(w)
  BY <1>1, FateRest
<1>4. \A w \in Workers, j \in Jobs : MemoryFate(w, j)
  BY RejectedCopy DEF MemoryFate
<1> QED BY <1>2, <1>3, <1>4 DEF Fate

LEMMA FateCancel ==
    ASSUME TypeOK, SlotInv, NEW w \in Workers, NEW k \in Jobs, Cancel(w, k)
    PROVE  Fate
<1> DEFINE old == cache[w][k]
<1>1. old \in Copy /\ old.status \in Active /\ Owns(k, old.owner, old.attempt)
  BY CancelIs
<1>2. PICK c \in Copy, n \in Row :
        /\ Written(k, c, n) /\ Cached(w, k, c) /\ Derived(old, c)
        /\ c.status = "cancelled" /\ c.owner = Null /\ GivenUp(n)
  BY CancelIs
<1>3. /\ row[k] \in Row /\ row[k].owner = old.owner /\ row[k].attempt = old.attempt
      /\ old.owner # Null => row[k].ttl > 0 /\ row[k].status \in Active
      /\ Exists(k)
  BY <1>1, OwnedRow
<1>4. /\ row'[k] = n /\ n.status = "cancelled" /\ n.attempt = old.attempt
      /\ c.attempt = old.attempt /\ n.owner = Null
  BY <1>2 DEF Written, Derived, GivenUp
<1>5. CopiesSound /\ old.owner = Null => row[k].status \in Active \cup {"cancelled"}
  <2>1. SUFFICES ASSUME CopiesSound, old.owner = Null
                 PROVE  row[k].status \in Active \cup {"cancelled"}
    OBVIOUS
  <2>2. FreeSound(row[k], old) /\ old # NoCopy
    BY <1>1, <2>1 DEF CopiesSound, FreeCopies, Known, Cancel
  <2>3. row[k].attempt \in Nat /\ row[k].attempt = old.attempt /\ row[k].status # "pruned"
    BY <1>3 DEF Row, Exists
  <2> QED BY <2>2, <2>3 DEF FreeSound
<1>6. RowFate(k)
  BY <1>3, <1>4, <1>5 DEF RowFate, Yielded, Terminal, Exists
<1>7. Mirrored(w, k)
  BY <1>2, <1>4 DEF Mirrored, Cached, Ended, Terminal
<1>8. UNCHANGED <<pending, links, proc>>
  BY DEF Cancel
<1> QED BY <1>2, <1>6, <1>7, <1>8, FateWritten

LEMMA FateReleaseLease ==
    ASSUME TypeOK, SlotInv, LifeInv, NEW w \in Workers, ReleaseLease(w)
    PROVE  Fate
<1>1. UNCHANGED <<pending, links, proc>>
  BY DEF ReleaseLease
<1>2. PICK p \in releasing[w] :
        /\ p.job \in Jobs /\ p.copy \in Copy
        /\ \/ UNCHANGED <<row, cache, toRelease>>
           \/ /\ Owns(p.job, p.copy.owner, p.copy.attempt)
              /\ \E c \in Copy, n \in Row :
                    /\ Written(p.job, c, n) /\ Derived(p.copy, c)
                    /\ c.status = IF p.copy.status \in Terminal THEN p.copy.status
                                  ELSE "queued"
                    /\ c.owner = Null /\ GivenUp(n)
                    /\ Cached(w, p.job, c) \/ UNCHANGED cache
  BY ReleaseLeaseIs
<1>3. CASE UNCHANGED <<row, cache, toRelease>>
  BY <1>1, <1>3, FateSame
<1>4. CASE ~UNCHANGED <<row, cache, toRelease>>
  <2>1. PICK c \in Copy, n \in Row :
          /\ Written(p.job, c, n) /\ Derived(p.copy, c)
          /\ c.status \in Terminal \cup {"queued"}
          /\ c.owner = Null /\ GivenUp(n)
          /\ Cached(w, p.job, c) \/ UNCHANGED cache
    BY <1>2, <1>4
  <2>2. p.copy.owner # Null
    BY <1>2 DEF SlotInv, LeasesSound, ReleasingLeases, ItemSound, Copy, NoCopy
  <2>3. /\ row[p.job].owner # Null /\ row[p.job].ttl > 0
        /\ row[p.job].attempt = p.copy.attempt
    BY <1>2, <1>4, <2>2, OwnedRow
  <2>4. /\ row'[p.job] = n /\ n.status = c.status /\ n.attempt = p.copy.attempt
        /\ c.attempt = p.copy.attempt /\ n.owner = Null
    BY <1>2, <2>1 DEF Written, Derived, GivenUp
  <2>5. proc[w] # "up"
    BY AtWork
  <2>6. RowFate(p.job)
    BY <2>1, <2>3, <2>4 DEF RowFate, Yielded
  <2>7. Cached(w, p.job, c) => Mirrored(w, p.job)
    BY <1>2, <2>1, <2>4, <2>5 DEF Mirrored, Cached
  <2> QED BY <1>1, <1>2, <2>1, <2>6, <2>7, FateWritten
<1> QED BY <1>3, <1>4

LEMMA FateLinkRetry ==
    ASSUME TypeOK, SlotInv, NEW w \in Workers, LinkRetry(w)
    PROVE  Fate
<1>1. UNCHANGED <<proc, pending>>
  BY Zenon, LinkRetryIs
<1>2. PICK l \in links[w] : /\ l.parent \in Jobs /\ l.child \in Jobs
                            /\ links' = [links EXCEPT ![w] = @ \ {l}]
                            /\ Relates(w, l) \/ Loses(w, l)
  BY LinkRetryIs
<1>3. \A v \in Workers : RestFate(v)
  BY <1>1, <1>2, FateRest DEF TypeOK
<1>4. CASE Loses(w, l)
  BY <1>3, <1>4 DEF Loses, Fate, RowFate, Kept, MemoryFate
<1>5. CASE Relates(w, l)
  <2>1. \A j \in Jobs : row'[j] \in Row /\ SameLease(row[j], row'[j])
    BY <1>5 DEF Relates
  <2>2. \A j \in Jobs : RowFate(j)
    BY <2>1 DEF SameLease, RowFate, Kept
  <2>3. \A v \in Workers, j \in Jobs :
          cache'[v][j] = IF v = w /\ j \in {l.parent, l.child}
                         THEN Refreshed(cache[w][j], row'[j]) ELSE cache[v][j]
    BY <1>5 DEF Relates
  <2>4. ASSUME NEW j \in {l.parent, l.child} PROVE Mirrored(w, j)
    <3> DEFINE c == cache[w][j]
               c2 == Refreshed(c, row'[j])
    <3>1. j \in Jobs /\ row[j] \in Row /\ Exists(j)
      BY <1>2, <1>5, <2>4 DEF Relates, Consumable, TypeOK, Exists
    <3>2. row'[j] \in Row /\ row'[j].status \in Active \cup Terminal
      BY <2>1, <3>1 DEF Exists, Row, SameLease, Active
    <3>3. c \in Copy \cup {NoCopy} /\ cache'[w][j] = c2
      BY <2>3, <3>1 DEF TypeOK
    <3>4. c2 \in Copy
      BY <3>2, <3>3, RefreshedType
    <3>5. /\ c2.status = row'[j].status
          /\ ~Leaseless(c) => c2.owner = c.owner /\ c2.attempt = c.attempt
          /\ Leaseless(c) => c2.owner = Null /\ c2.attempt = row'[j].attempt
      BY DEF Refreshed, CopyOf, Leaseless
    <3>6. CopiesSound /\ Leaseless(c) => row'[j].owner = Null
      <4>1. SUFFICES ASSUME CopiesSound, Leaseless(c) PROVE row[j].owner = Null
        BY <2>1, <3>1 DEF SameLease
      <4>2. RowSound(row[j])
        BY <3>1 DEF SlotInv, RowsSound
      <4>3. CASE j = l.parent
        BY <1>5, <4>2, <4>3 DEF RowSound, Relates, Consumable, Active
      <4>4. CASE j = l.child
        <5>1. Ended(row[j]) \/ row[j].owner = Null
          BY <1>2, <4>1, <4>4 DEF CopiesSound, LinkedChildren
        <5> QED BY <4>2, <5>1 DEF RowSound, Ended, Active, Terminal
      <4> QED BY <2>4, <4>3, <4>4
    <3> HIDE DEF c2
    <3> QED BY <3>3, <3>4, <3>5, <3>6 DEF Mirrored
  <2>5. \A v \in Workers, j \in Jobs : MemoryFate(v, j)
    BY <2>3, <2>4 DEF MemoryFate
  <2> QED BY <1>3, <2>2, <2>5 DEF Fate
<1> QED BY <1>2, <1>4, <1>5

LEMMA FateClaims ==
    ASSUME NEW w \in Workers, NEW k, NEW n, Claims(w, k, n), proc[w] = "up"
    PROVE  (\A j \in Jobs : RowFate(j)) /\ LeaseOwned(k, w, n.attempt)' /\ row'[k] = n
<1>1. row'[k] = n /\ RowFate(k)
  BY DEF Claims, RowFate, Taken
<1>2. \A j \in Jobs : RowFate(j)
  BY <1>1, FateRow DEF Claims
<1>3. LeaseOwned(k, w, n.attempt)'
  BY <1>1, JobConstants DEF Claims, LeaseOwned, Active
<1> QED BY <1>1, <1>2, <1>3

LEMMA FateRegisterClaim ==
    ASSUME TypeOK, LifeInv, NEW w \in Workers, RegisterClaim(w)
    PROVE  Fate
<1>1. PICK c \in creating[w] : \E n, gone : Registers(w, c, n, gone)
  BY RegisterClaimIs
<1>2. PICK n, gone : Registers(w, c, n, gone)
  BY <1>1
<1>3. proc[w] = "up" /\ Claims(w, c.job, n) /\ UNCHANGED <<proc, pending>>
  BY <1>1, <1>2, AtWork DEF Registers
<1>4. \A j \in Jobs : RowFate(j)
  BY <1>3, FateClaims
<1>5. /\ c.job \in Jobs /\ n.owner = w /\ n.status = "queued" /\ row'[c.job] = n
      /\ CopyOf(n) \in Copy
      /\ CopyOf(n).owner = w /\ CopyOf(n).attempt = n.attempt /\ CopyOf(n).status = n.status
  BY <1>3 DEF Claims, CopyOf
<1>6. \A v \in Workers, j \in Jobs :
        cache'[v][j] = IF v = w /\ j = c.job THEN CopyOf(n)
                       ELSE IF v = w /\ j \in gone THEN NoCopy ELSE cache[v][j]
  BY <1>2 DEF Registers
<1>7. \A j \in gone : cache[w][j] # NoCopy /\ cache[w][j].status \in Terminal
  BY <1>2 DEF Registers
<1>8. Mirrored(w, c.job)
  BY <1>5, <1>6, JobConstants DEF Mirrored
<1>9. \A v \in Workers, j \in Jobs : MemoryFate(v, j)
  BY <1>6, <1>7, <1>8 DEF MemoryFate
<1>10. ~Leaseless(cache'[w][c.job])
  BY <1>5, <1>6, JobConstants DEF Leaseless, Copy, NoCopy
<1>11. \A v \in Workers : \A l \in links'[v] :
          l \in links[v] \/ ~Leaseless(cache'[v][l.child])
  BY <1>2, <1>10 DEF TypeOK, Registers
<1>12. \A v \in Workers : RestFate(v)
  BY <1>3, <1>11, FateRest
<1> QED BY <1>4, <1>9, <1>12 DEF Fate

LEMMA FateClaimRecoverable ==
    ASSUME TypeOK, NEW w \in Workers, ClaimRecoverable(w)
    PROVE  Fate
<1>1. PICK k \in Jobs, n \in Row :
        /\ proc[w] = "up" /\ Claims(w, k, n)
        /\ pending' = [pending EXCEPT ![w] = @ \cup {[job |-> k, copy |-> CopyOf(n)]}]
        /\ UNCHANGED <<proc, cache, links>>
  BY ClaimRecoverableIs
<1>2. (\A j \in Jobs : RowFate(j)) /\ LeaseOwned(k, w, n.attempt)' /\ row'[k] = n
  BY <1>1, FateClaims
<1>3. CopyOf(n).status = "queued" /\ CopyOf(n).attempt = n.attempt /\ Claimable(k)
  BY <1>1 DEF Claims, CopyOf
<1>4. \A v \in Workers : \A p \in pending'[v] :
        p \in pending[v] \/ (v = w /\ p.job = k /\ p.copy = CopyOf(n))
  BY <1>1 DEF TypeOK
<1>5. \A v \in Workers : RestFate(v)
  BY <1>1, <1>2, <1>3, <1>4 DEF RestFate
<1>6. \A v \in Workers, j \in Jobs : MemoryFate(v, j)
  BY <1>1 DEF MemoryFate
<1> QED BY <1>2, <1>5, <1>6 DEF Fate

LEMMA FateStartRecovered ==
    ASSUME TypeOK, NEW w \in Workers, StartRecovered(w)
    PROVE  Fate
<1>1. PICK p \in pending[w] :
        /\ pending' = [pending EXCEPT ![w] = @ \ {p}]
        /\ cache' = [cache EXCEPT ![w][p.job] = p.copy]
        /\ UNCHANGED <<row, proc, links>>
  BY DEF StartRecovered
<1>2. \A j \in Jobs : RowFate(j)
  BY <1>1 DEF RowFate, Kept
<1>3. \A v \in Workers : RestFate(v)
  BY <1>1, FateRest DEF TypeOK
<1>4. \A v \in Workers, j \in Jobs :
        cache'[v][j] = cache[v][j] \/ (v = w /\ j = p.job /\ cache'[v][j] = p.copy)
  BY <1>1 DEF TypeOK
<1>5. \A v \in Workers, j \in Jobs : MemoryFate(v, j)
  BY <1>4 DEF MemoryFate
<1> QED BY <1>2, <1>3, <1>5 DEF Fate

LEMMA FateRows ==
    ASSUME TypeOK, SlotInv, NEW w \in Workers,
           \/ \E j \in Jobs, parent \in Jobs \cup {Null} : RegisterCreate(w, j, parent)
           \/ RegisterUndo(w) \/ Prune(w)
    PROVE  Fate
<1>1. UNCHANGED <<proc, cache, pending, links>>
  BY DEF RegisterCreate, RegisterUndo, Prune
<1>2. Deleted.status = "pruned"
  BY DEF Deleted, NoRow
<1>3. ASSUME NEW k \in Jobs, NEW parent \in Jobs \cup {Null}, RegisterCreate(w, k, parent)
      PROVE  \A j \in Jobs : RowFate(j)
  <2> DEFINE new == [NoRow EXCEPT !.status = "queued", !.retryable = TRUE, !.resumable = TRUE]
  <2>1. new.status = "queued" /\ new.attempt = 0 /\ new.owner = Null
    BY DEF NoRow
  <2>2. row[k].status = "absent" /\ row' = [row EXCEPT ![k] = new]
    BY <1>3 DEF RegisterCreate
  <2> HIDE DEF new
  <2>3. row'[k] = new /\ \A j \in Jobs : j # k => row'[j] = row[j]
    BY <2>2 DEF TypeOK
  <2>4. RowFate(k)
    BY <2>1, <2>2, <2>3 DEF RowFate, Born
  <2> QED BY <2>3, <2>4, FateRow
<1>4. CASE RegisterUndo(w)
  <2>1. \A j \in Jobs : row'[j] = row[j] \/ row'[j] = Deleted
    BY <1>4 DEF TypeOK, RegisterUndo
  <2> QED BY <1>1, <1>2, <2>1, FateQuiet DEF RowFate, Kept
<1>5. CASE Prune(w)
  <2>1. \A j \in Jobs : row'[j] = row[j] \/ row'[j] = Deleted
    BY <1>5 DEF TypeOK, Prune
  <2> QED BY <1>1, <1>2, <2>1, FateQuiet DEF RowFate, Kept
<1> QED BY <1>1, <1>3, <1>4, <1>5, FateQuiet

LEMMA FateTick ==
    ASSUME TypeOK, Tick
    PROVE  Fate
<1>1. \A j \in Jobs : row[j] \in Row /\ row'[j] = [row[j] EXCEPT !.ttl = Aged(row[j].ttl)]
  BY DEF TypeOK, Tick
<1>2. \A j \in Jobs : /\ row'[j].status = row[j].status /\ row'[j].owner = row[j].owner
                      /\ row'[j].attempt = row[j].attempt /\ row'[j].ttl = Aged(row[j].ttl)
  <2>1. ASSUME NEW j \in Jobs
        PROVE  /\ row'[j].status = row[j].status /\ row'[j].owner = row[j].owner
               /\ row'[j].attempt = row[j].attempt /\ row'[j].ttl = Aged(row[j].ttl)
    <3>1. row[j] \in Row /\ row'[j] = [row[j] EXCEPT !.ttl = Aged(row[j].ttl)]
      BY <1>1
    <3> QED BY <3>1 DEF Row
  <2> QED BY <2>1
<1>3. ASSUME NEW j \in Jobs PROVE row[j].ttl \in Nat
  <2>1. row[j] \in Row /\ LeaseTicks \in Nat
    BY <1>1, JobConstants
  <2> QED BY <2>1 DEF Row
<1>4. ASSUME NEW j \in Jobs PROVE RowFate(j)
  <2>1. row'[j].ttl = Aged(row[j].ttl) /\ row[j].ttl \in Nat
    BY <1>2, <1>3
  <2>2. row[j].ttl > 1 => row'[j].ttl > 0
    BY <2>1 DEF Aged
  <2>3. row[j].ttl = 0 => row'[j].ttl = 0
    BY <2>1 DEF Aged
  <2>4. Kept(row[j], row'[j])
    BY <1>2, <2>2, <2>3 DEF Kept
  <2> QED BY <2>4 DEF RowFate
<1> QED BY <1>4, FateQuiet DEF Tick

LEMMA FateHeartbeat ==
    ASSUME TypeOK, NEW r \in runs, Heartbeat(r)
    PROVE  Fate
<1>1. UNCHANGED <<proc, cache, pending, links>> /\ r.job \in Jobs
  BY DEF TypeOK, Run, Heartbeat
<1>2. CASE UNCHANGED row
  BY <1>1, <1>2, FateSame
<1>3. CASE row' = [row EXCEPT ![r.job].ttl = LeaseTicks] /\ LeaseOwned(r.job, r.proc, r.attempt)
  <2>1. row[r.job] \in Row /\ row'[r.job] = [row[r.job] EXCEPT !.ttl = LeaseTicks]
    BY <1>1, <1>3 DEF TypeOK
  <2>2. /\ row'[r.job].status = row[r.job].status /\ row'[r.job].owner = row[r.job].owner
        /\ row'[r.job].attempt = row[r.job].attempt /\ row'[r.job].ttl = LeaseTicks
    BY <2>1, TtlFields
  <2>3. RowFate(r.job)
    BY <1>3, <2>2, JobConstants DEF RowFate, Kept, LeaseOwned
  <2>4. \A j \in Jobs : j # r.job => row'[j] = row[j]
    BY <1>1, <1>3 DEF TypeOK
  <2> QED BY <1>1, <2>3, <2>4, FateRow, FateQuiet
<1> QED BY <1>2, <1>3 DEF Heartbeat

LEMMA FateStep ==
    ASSUME TypeOK, SlotInv, LifeInv, [Next]_vars
    PROVE  Fate
<1>1. ASSUME NEW w \in Workers, Start(w) \/ ProcessStep(w) \/ Request(w)
      PROVE  Fate
  <2>1. CASE \/ ClearExpiredSlot(w) \/ ReleaseRecoverySlot(w) \/ ShutdownReadLease(w)
    BY <2>1, FateSame DEF ClearExpiredSlot, ReleaseRecoverySlot, ShutdownReadLease
  <2>2. CASE Shutdown(w) \/ ShutdownSweep(w)
    BY <2>2, FateSame DEF TypeOK, Shutdown, ShutdownSweep
  <2>3. CASE ProcessStep(w)
    BY <2>1, <2>2, <2>3, FateRegisterClaim, FateRows, FateLinkRetry, FateClaimRecoverable,
       FateStartRecovered, FateReleaseLease, FateForget DEF ProcessStep
  <2>4. CASE Request(w)
    BY <2>2, <2>4, FateRows, FateLoad, FateCancel, FateForget DEF Request
  <2> QED BY <1>1, <2>3, <2>4, FateStart
<1>2. ASSUME NEW r \in runs, RunStep(r) \/ Heartbeat(r) \/ HeartbeatFault(r)
      PROVE  Fate
  <2>1. CASE RunCapture(r) \/ RunExit(r) \/ HeartbeatFault(r)
    BY <2>1, FateSame DEF RunCapture, RunExit, HeartbeatFault
  <2>2. CASE RunFailRejected(r) \/ RunFinish(r)
    <3>1. PICK status \in Terminal : Complete(r, status)
      BY <2>2 DEF RunFailRejected, RunFinish, Outcomes, Terminal
    <3> QED BY <3>1, FateComplete
  <2> QED BY <1>2, <2>1, <2>2, FateRunStart, FateRunRejectDescriptor, FateHeartbeat
          DEF RunStep
<1>3. CASE UNCHANGED vars
  BY <1>3, FateSame DEF vars
<1> QED BY <1>1, <1>2, <1>3, FateTick DEF Next
-----------------------------------------------------------------------------
(* A terminal status is final *)

\* With one process at a time, or without graceful shutdowns, no process shows a lease
\* given back by its own shutdown while another one works under a newer lease.
Sole == SingleInstance \/ ~Graceful

LEMMA EndedStays ==
    ASSUME TypeOK, SlotInv, CopiesSound, Fate, NEW j \in Jobs, Ended(row[j])
    PROVE  row'[j].status \in {row[j].status, "pruned"}
<1>1. RowFate(j) /\ RowSound(row[j]) /\ row[j].status \in Terminal \cup {"pruned"}
  BY DEF Fate, SlotInv, RowsSound, Ended
<1>2. row[j].owner = Null
  BY <1>1 DEF RowSound, Active, Terminal
<1> QED BY <1>1, <1>2 DEF RowFate, Born, Kept, Taken, Claimable, Yielded, Active, Terminal

LEMMA FreeStays ==
    ASSUME TypeOK, SlotInv, CopiesSound, Fate, NEW j \in Jobs, NEW c \in Copy,
           FreeSound(row[j], c)
    PROVE  FreeSound(row'[j], c)
<1>1. RowFate(j) /\ RowSound(row[j]) /\ row[j].attempt \in Nat /\ c.attempt \in Nat
  BY DEF Fate, SlotInv, RowsSound, TypeOK, Row, Copy
<1>2. CASE row[j].status = "pruned"
  BY <1>2, EndedStays DEF Ended, FreeSound
<1>3. CASE row[j].status # "pruned"
  BY <1>1, <1>3 DEF FreeSound, RowSound, RowFate, Born, Kept, Taken, Claimable, Yielded, Active
<1> QED BY <1>2, <1>3

LEMMA MovedCopy ==
    ASSUME TypeOK, SlotInv, CopiesSound, Fate, NEW w \in Workers, NEW j \in Jobs,
           cache'[w][j] # cache[w][j], ~GaveUp(cache[w][j], cache'[w][j]),
           ~(cache'[w][j] = NoCopy)
    PROVE  \/ ~Leaseless(cache'[w][j]) /\ cache'[w][j].status = "queued"
           \/ Mirrored(w, j)
<1>1. MemoryFate(w, j)
  BY DEF Fate
<1>2. ASSUME NEW p \in pending[w], p.job = j, cache'[w][j] = p.copy
      PROVE  ~Leaseless(cache'[w][j]) /\ cache'[w][j].status = "queued"
  <2>1. p.copy \in Copy /\ p.copy # NoCopy
    BY NoCopyIsNone DEF TypeOK
  <2>2. p.copy.owner # Null
    BY <2>1 DEF SlotInv, LeasesSound, PendingLeases, ItemSound
  <2>3. p.copy.status = "queued"
    BY DEF CopiesSound, ClaimedCopies
  <2> QED BY <1>2, <2>1, <2>2, <2>3 DEF Leaseless
<1> QED BY <1>1, <1>2 DEF MemoryFate

\* The lease a shutdown gave back stays free, for want of another process.
LEMMA ReturnedStays ==
    ASSUME TypeOK, SlotInv, LifeInv, Sole, CopiesSound, Fate, NEW w \in Workers, NEW j \in Jobs,
           links[w] # {}, proc[w] # "up",
           row[j].status \in Active, row[j].owner = Null
    PROVE  \/ Ended(row'[j])
           \/ row'[j].status \in Active /\ row'[j].owner = Null
<1>1. Serving(w) /\ proc[w] \in {"stopping", "sweeping"}
  BY AtWork DEF Serving
<1>2. ~Taken(j)
  <2>1. ASSUME NEW v \in Workers, proc[v] = "up" PROVE FALSE
    <3>1. Serving(v) /\ v # w
      BY <2>1 DEF Serving
    <3>2. ~SingleInstance
      BY <1>1, <3>1 DEF LifeInv
    <3>3. Graceful
      BY <1>1, JobConstants DEF LifeInv, ProcSound
    <3> QED BY <3>2, <3>3 DEF Sole
  <2> QED BY <2>1 DEF Taken
<1>3. RowFate(j)
  BY DEF Fate
<1> QED BY <1>2, <1>3 DEF RowFate, Born, Kept, Yielded, Ended, Active, Terminal

LEMMA CopiesStep ==
    ASSUME TypeOK, TypeOK', SlotInv, LifeInv, Sole, CopiesSound, Fate
    PROVE  CopiesSound'
<1>1. ASSUME NEW w \in Workers, NEW j \in Jobs, cache'[w][j] # NoCopy
      PROVE  /\ cache'[w][j].owner = Null /\ cache'[w][j].status \in Active
                => FreeSound(row'[j], cache'[w][j])
             /\ cache'[w][j].status \in Terminal => Ended(row'[j])
  <2>1. CASE cache'[w][j] = cache[w][j] \/ GaveUp(cache[w][j], cache'[w][j])
    <3>1. /\ cache[w][j] \in Copy /\ cache[w][j] # NoCopy
          /\ cache'[w][j].owner = cache[w][j].owner
          /\ cache'[w][j].status = cache[w][j].status
          /\ cache'[w][j].attempt = cache[w][j].attempt
      BY <1>1, <2>1, GaveUpFields DEF TypeOK, GaveUp
    <3>2. /\ cache[w][j].owner = Null /\ cache[w][j].status \in Active
             => FreeSound(row[j], cache[w][j])
          /\ cache[w][j].status \in Terminal => Ended(row[j])
      BY <3>1 DEF CopiesSound, FreeCopies, EndedCopies
    <3>3. Ended(row[j]) => Ended(row'[j])
      BY EndedStays DEF Ended
    <3>4. FreeSound(row[j], cache[w][j]) => FreeSound(row'[j], cache'[w][j])
      BY <3>1, FreeStays DEF FreeSound
    <3> QED BY <3>1, <3>2, <3>3, <3>4
  <2>2. CASE cache'[w][j] # cache[w][j] /\ ~GaveUp(cache[w][j], cache'[w][j])
    <3>1. CASE ~Leaseless(cache'[w][j]) /\ cache'[w][j].status = "queued"
      BY <3>1 DEF Leaseless, Terminal
    <3>2. CASE Mirrored(w, j)
      BY <3>2 DEF Mirrored, FreeSound, Ended, Leaseless
    <3> QED BY <1>1, <2>2, <3>1, <3>2, MovedCopy
  <2> QED BY <2>1, <2>2
<1>2. FreeCopies' /\ EndedCopies'
  BY <1>1 DEF FreeCopies, EndedCopies, FreeSound, Ended
<1>3. ClaimedCopies'
  BY DEF Fate, RestFate, CopiesSound, ClaimedCopies
<1>4. ASSUME NEW w \in Workers, NEW l \in links'[w], Leaseless(cache'[w][l.child])
      PROVE  \/ Ended(row'[l.child])
             \/ /\ row'[l.child].status \in Active /\ row'[l.child].owner = Null
                /\ proc'[w] # "up"
  <2> DEFINE j == l.child
  <2>1. l \in links[w] /\ j \in Jobs /\ (proc'[w] = "up" => proc[w] = "up")
    BY <1>4 DEF Fate, RestFate, TypeOK
  <2>2. Ended(row[j]) => Ended(row'[j])
    BY <2>1, EndedStays DEF Ended
  <2>3. CASE Leaseless(cache[w][j])
    <3>1. \/ Ended(row[j])
          \/ row[j].status \in Active /\ row[j].owner = Null /\ proc[w] # "up"
      BY <2>1, <2>3 DEF CopiesSound, LinkedChildren
    <3> QED BY <2>1, <2>2, <3>1, ReturnedStays
  <2>4. CASE ~Leaseless(cache[w][j]) /\ cache'[w][j] = NoCopy
    <3>1. MemoryFate(w, j) /\ cache[w][j] # NoCopy
      BY <2>1, <2>4 DEF Fate, Leaseless
    <3>2. cache[w][j].status \in Terminal
      <4>1. ~Mirrored(w, j)
        BY <2>4, NoCopyIsNone DEF Mirrored
      <4>2. \A p \in pending[w] : p.copy # NoCopy
        BY NoCopyIsNone DEF TypeOK
      <4>3. ~GaveUp(cache[w][j], cache'[w][j])
        BY <2>4, GaveUpFields
      <4> QED BY <1>4, <2>4, <3>1, <4>1, <4>2, <4>3 DEF MemoryFate
    <3> QED BY <2>1, <2>2, <3>1, <3>2 DEF CopiesSound, EndedCopies
  <2>5. CASE ~Leaseless(cache[w][j]) /\ cache'[w][j] # NoCopy
    <3>1. Mirrored(w, j)
      BY <1>4, <2>1, <2>5, MovedCopy, GaveUpFields DEF Leaseless
    <3>2. /\ cache'[w][j] \in Copy /\ cache'[w][j].status = row'[j].status
          /\ cache'[w][j].owner = Null
      BY <1>4, <2>5, <3>1 DEF Mirrored, Leaseless
    <3>3. row'[j].owner = Null /\ (Ended(row'[j]) \/ proc[w] # "up")
      BY <2>5, <3>1, <3>2 DEF Mirrored, Leaseless
    <3>4. row'[j].status \in Active \cup Terminal
      BY <3>2 DEF Copy, Active
    <3> QED BY <2>1, <3>3, <3>4 DEF Ended
  <2> QED BY <2>3, <2>4, <2>5
<1>5. LinkedChildren'
  BY <1>4 DEF LinkedChildren, Ended, Leaseless
<1> QED BY <1>2, <1>3, <1>5 DEF CopiesSound

LEMMA CopiesInit == Init => CopiesSound
BY DEF Init, CopiesSound, FreeCopies, EndedCopies, ClaimedCopies, LinkedChildren

\* What every behaviour keeps of the rows, the leases and the processes.
LEMMA CoreSound == Spec => [](TypeOK /\ SlotInv /\ LifeInv)
<1>1. Init => SlotInv /\ LifeInv
  BY JobConstants, SlotInit, LifeInit
<1>2. TypeOK /\ TypeOK' /\ SlotInv /\ LifeInv /\ [Next]_vars => SlotInv' /\ LifeInv'
  BY JobConstants, SlotStep, LifeStep
<1> QED BY <1>1, <1>2, TypeCorrect, PTL DEF Spec

\* With one process at a time, or when processes only crash, a job that reached a
\* terminal state keeps it until it is pruned: a stale worker, a lease given back, a
\* cancellation from a stale copy and a late link of a retry leave it alone.
THEOREM FinalStatus == ASSUME SingleInstance \/ ~Graceful PROVE Spec => TerminalIsFinal
<1>1. Init => CopiesSound
  BY CopiesInit
<1>2. TypeOK /\ SlotInv /\ LifeInv /\ TypeOK' /\ CopiesSound /\ [Next]_vars => CopiesSound'
  <2> SUFFICES ASSUME TypeOK, SlotInv, LifeInv, TypeOK', CopiesSound, [Next]_vars
               PROVE  CopiesSound'
    OBVIOUS
  <2>1. Fate
    BY FateStep
  <2>2. Sole
    BY DEF Sole
  <2> QED BY <2>1, <2>2, CopiesStep
<1>3. TypeOK /\ SlotInv /\ LifeInv /\ CopiesSound /\ [Next]_vars
      => [\A j \in Jobs : row[j].status \in Terminal =>
             row'[j].status \in {row[j].status, "pruned"}]_vars
  BY FateStep, EndedStays DEF Ended
<1> QED BY <1>1, <1>2, <1>3, CoreSound, PTL DEF Spec, TerminalIsFinal
-----------------------------------------------------------------------------
(* Who cancels a job *)

\* Where a worker is under the lease it has caught.
InHand == {"start", "reject", "index"}

\* What stops a worker.
Stopped(r) ==
    \/ r.job \in asked' \/ proc'[r.proc] = "stopping" \/ MaxFaults # 0
    \/ r.at \in InHand /\ ~LeaseOwned(r.job, r.proc, r.attempt)
Moved(r, x) ==
    /\ x.proc = r.proc /\ x.job = r.job /\ x.born = r.born
    /\ \/ /\ r.at = "new" /\ x.at = "start" /\ x.live = r.live
          /\ cache[x.proc][x.job] # NoCopy
          /\ cache[x.proc][x.job].owner = x.proc
          /\ cache[x.proc][x.job].attempt = x.attempt
       \/ /\ r.at = "start" /\ x.at \in {"reject", "index"}
          /\ x.live = r.live /\ x.attempt = r.attempt
       \/ /\ x.at = r.at /\ x.attempt = r.attempt /\ ~x.live /\ Stopped(r)
\* A worker starts for a job claimed in this step, or for a claim that waited.
Begun(x) ==
    /\ x.at = "new" /\ x.live /\ x.born = x.attempt /\ proc'[x.proc] = "up"
    /\ \A w \in Workers : pending'[w] \subseteq pending[w]
    /\ \/ /\ Claimable(x.job)
          /\ LeaseOwned(x.job, x.proc, x.attempt)'
          /\ HoldsInMemory(x.proc, x.job, x.attempt)'
       \/ \E p \in pending[x.proc] \ pending'[x.proc] :
             /\ p.job = x.job /\ p.copy.attempt = x.attempt
             /\ cache'[x.proc][x.job] = p.copy
RunFate(x) ==
    \/ x \in runs \/ x.at = "exit" \/ Begun(x)
    \/ \E r \in runs : Moved(r, x) /\ (x.live => r \notin runs')
Works(r) == r.live /\ r.at # "exit"
\* Only a worker whose lease is no longer in memory outlives the call to ShutdownJobs.
Spared(x) ==
    x.live /\ proc[x.proc] = "up" /\ proc'[x.proc] # "up"
    => ~(Known(x.proc, x.job) /\ x.born = cache[x.proc][x.job].attempt)
Onward ==
    /\ asked \subseteq asked'
    /\ \A x \in runs' : RunFate(x)
    /\ \A x, y \in runs' \ runs : Works(x) /\ Works(y) => x = y
    /\ \A x \in runs' : Spared(x)
    /\ \A w \in Workers : proc[w] = "stopping" => proc'[w] \in {"stopping", "sweeping", "down"}

LEMMA OnwardQuiet ==
    ASSUME UNCHANGED <<proc, asked>>, runs' \subseteq runs
    PROVE  Onward
BY DEF Onward, RunFate, Spared

LEMMA OnwardNew ==
    ASSUME UNCHANGED <<proc, asked>>, NEW x, runs' = runs \cup {x}, Begun(x)
    PROVE  Onward
BY DEF Onward, RunFate, Spared

LEMMA OnwardMoved ==
    ASSUME UNCHANGED <<proc, asked>>, NEW r \in runs, NEW s, runs' = Replace(r, s),
           s.at = "exit" \/ Moved(r, s)
    PROVE  Onward
BY DEF Onward, RunFate, Replace, Spared

LEMMA OnwardCancelled ==
    ASSUME TypeOK, NEW w \in Workers, NEW js, runs' = WithCancelled(w, js), asked \subseteq asked',
           js \subseteq asked' \/ proc'[w] = "stopping",
           js = Jobs \/ UNCHANGED proc,
           \A v \in Workers : proc'[v] = proc[v] \/ (v = w /\ proc[v] # "stopping")
    PROVE  Onward
<1>1. ASSUME NEW x \in runs' PROVE RunFate(x) /\ (x \in runs \/ ~x.live)
  <2>1. PICK q \in runs : \/ x = q
                          \/ x = [q EXCEPT !.live = FALSE] /\ q.proc = w /\ q.job \in js
    BY CancelledRuns
  <2>2. CASE x = q
    BY <2>2 DEF RunFate
  <2>3. CASE x = [q EXCEPT !.live = FALSE] /\ q.proc = w /\ q.job \in js
    <3>1. /\ x.proc = q.proc /\ x.job = q.job /\ x.at = q.at /\ x.born = q.born
          /\ x.attempt = q.attempt /\ ~x.live
      BY <2>3, RunFields DEF TypeOK, SameRun
    <3>2. Stopped(q)
      BY <2>3 DEF Stopped
    <3> QED BY <3>1, <3>2 DEF RunFate, Moved
  <2> QED BY <2>1, <2>2, <2>3
<1>2. ASSUME NEW x \in runs' PROVE Spared(x)
  <2>1. CASE UNCHANGED proc
    BY <2>1 DEF Spared
  <2>2. CASE js = Jobs /\ x.live
    <3>1. x \in runs /\ x.job \in Jobs /\ x.proc \in Workers
      BY <1>1, <2>2 DEF TypeOK, Run
    <3>2. x.proc = w /\ Known(w, x.job) => x.born # cache[w][x.job].attempt
      <4>1. SUFFICES ASSUME x.proc = w, Known(w, x.job), x.born = cache[w][x.job].attempt
                     PROVE  FALSE
        OBVIOUS
      <4>2. PICK q \in runs :
              x = IF q.proc = w /\ q.job \in js /\ Known(w, q.job)
                     /\ q.born = cache[w][q.job].attempt
                  THEN [q EXCEPT !.live = FALSE] ELSE q
        BY DEF WithCancelled
      <4>3. ~[q EXCEPT !.live = FALSE].live
        BY RunFields DEF TypeOK
      <4> QED BY <2>2, <3>1, <4>1, <4>2, <4>3
    <3> QED BY <3>1, <3>2 DEF Spared
  <2> QED BY <2>1, <2>2 DEF Spared
<1> QED BY <1>1, <1>2 DEF Onward, Works

LEMMA OnwardProcess ==
    ASSUME TypeOK, LifeInv, NEW w \in Workers, Start(w) \/ ProcessStep(w)
    PROVE  Onward
<1>1. CASE Start(w)
  BY <1>1 DEF TypeOK, Start, Onward, RunFate, Spared
<1>2. CASE RegisterClaim(w)
  <2>1. PICK c \in creating[w] : \E n, gone : Registers(w, c, n, gone)
    BY <1>2, RegisterClaimIs
  <2>2. PICK n, gone : Registers(w, c, n, gone)
    BY <2>1
  <2> DEFINE x == NewRun(w, c.job, n.attempt, FALSE)
  <2>3. runs' = runs \cup {x} /\ UNCHANGED <<proc, asked, pending>>
    BY <2>2 DEF Registers
  <2>4. /\ x.proc = w /\ x.job = c.job /\ x.attempt = n.attempt /\ x.born = n.attempt
        /\ x.at = "new" /\ x.live
    BY DEF NewRun
  <2>5. /\ proc'[w] = "up" /\ proc[w] = "up" /\ Claims(w, c.job, n) /\ Claimable(c.job) /\ n.owner = w
        /\ CopyOf(n) \in Copy
    BY <2>1, <2>2, <2>3, AtWork DEF Registers, Claims
  <2>6. LeaseOwned(c.job, w, n.attempt)'
    BY <2>5, FateClaims
  <2>7. cache'[w][c.job] = CopyOf(n)
    BY <2>2 DEF Registers
  <2>8. HoldsInMemory(w, c.job, n.attempt)'
    BY <2>5, <2>7, NoCopyIsNone DEF HoldsInMemory, Known, CopyOf
  <2> HIDE DEF x
  <2>9. Begun(x)
    BY <2>3, <2>4, <2>5, <2>6, <2>8 DEF Begun, LeaseOwned, HoldsInMemory, Known
  <2> QED BY <2>3, <2>9, OnwardNew
<1>3. CASE StartRecovered(w)
  <2>1. PICK p \in pending[w] :
          /\ runs' = runs \cup {NewRun(w, p.job, p.copy.attempt, TRUE)}
          /\ pending' = [pending EXCEPT ![w] = @ \ {p}]
          /\ cache' = [cache EXCEPT ![w][p.job] = p.copy]
          /\ UNCHANGED <<proc, asked>>
    BY <1>3 DEF StartRecovered
  <2> DEFINE x == NewRun(w, p.job, p.copy.attempt, TRUE)
  <2>2. /\ x.proc = w /\ x.job = p.job /\ x.attempt = p.copy.attempt
        /\ x.born = p.copy.attempt /\ x.at = "new" /\ x.live
    BY DEF NewRun
  <2>3. /\ p \in pending[w] \ pending'[w] /\ cache'[w][p.job] = p.copy
        /\ \A v \in Workers : pending'[v] \subseteq pending[v]
    BY <2>1 DEF TypeOK
  <2>4. proc'[w] = "up"
    BY <2>1, AtWork
  <2>5. Begun(x)
    <3> HIDE DEF x
    <3> QED BY <2>2, <2>3, <2>4 DEF Begun
  <2> QED BY <2>1, <2>5, OnwardNew
<1>4. CASE LinkRetry(w)
  <2>1. PICK l \in links[w] : Relates(w, l) \/ Loses(w, l)
    BY <1>4, LinkRetryIs
  <2>2. UNCHANGED proc
    BY Zenon, <1>4, LinkRetryIs
  <2>3. CASE Relates(w, l)
    BY <2>2, <2>3, OnwardQuiet DEF Relates
  <2>4. CASE Loses(w, l)
    <3>1. runs' = WithCancelled(w, {l.child}) /\ asked' = asked \cup {l.child}
      BY <2>4 DEF Loses
    <3> QED BY <2>2, <3>1, OnwardCancelled
  <2> QED BY <2>1, <2>3, <2>4
<1>5. CASE ShutdownSweep(w) \/ ShutdownDone(w)
  <2>1. /\ proc[w] \in {"stopping", "sweeping"} /\ UNCHANGED <<runs, asked>>
        /\ \A v \in Workers : proc'[v] = proc[v] \/ (v = w /\ proc'[v] \in {"sweeping", "down"})
    BY <1>5 DEF TypeOK, ShutdownSweep, ShutdownDone
  <2>2. \A x \in runs' : Spared(x)
    BY <2>1 DEF TypeOK, Run, Spared
  <2> QED BY <2>1, <2>2 DEF Onward, RunFate
<1>6. CASE \/ RegisterUndo(w) \/ ClaimRecoverable(w) \/ ClearExpiredSlot(w)
           \/ ReleaseRecoverySlot(w) \/ ReleaseLease(w) \/ ShutdownReadLease(w)
  <2>1. UNCHANGED <<proc, runs, asked>>
    BY <1>6 DEF RegisterUndo, ClaimRecoverable, ClearExpiredSlot, ReleaseRecoverySlot,
       ReleaseLease, ShutdownReadLease
  <2> QED BY <2>1, OnwardQuiet
<1> QED BY <1>1, <1>2, <1>3, <1>4, <1>5, <1>6 DEF ProcessStep

LEMMA OnwardRequest ==
    ASSUME TypeOK, LifeInv, NEW w \in Workers, Request(w)
    PROVE  Onward
<1>1. ASSUME NEW j \in Jobs, Cancel(w, j) PROVE Onward
  <2>1. runs' = WithCancelled(w, {j}) /\ asked' = asked \cup {j} /\ UNCHANGED proc
    BY <1>1 DEF Cancel
  <2> QED BY <2>1, OnwardCancelled
<1>2. CASE Shutdown(w)
  <2>1. runs' = WithCancelled(w, Jobs) /\ UNCHANGED asked /\ proc[w] = "up"
        /\ proc' = [proc EXCEPT ![w] = "stopping"]
    BY <1>2 DEF Shutdown
  <2>2. proc'[w] = "stopping" /\ \A v \in Workers : v # w => proc'[v] = proc[v]
    BY <2>1 DEF TypeOK
  <2> QED BY <2>1, <2>2, OnwardCancelled
<1>3. CASE Crash(w)
  BY <1>3 DEF TypeOK, Crash, RunsOf, Onward, RunFate, Spared
<1>4. ASSUME \/ Prune(w)
             \/ \E j \in Jobs, parent \in Jobs \cup {Null} : RegisterCreate(w, j, parent)
             \/ \E j \in Jobs : Load(w, j)
      PROVE  Onward
  BY <1>4, OnwardQuiet DEF Prune, RegisterCreate, Load
<1> QED BY <1>1, <1>2, <1>3, <1>4 DEF Request

LEMMA OnwardRun ==
    ASSUME TypeOK, NEW r \in runs, RunStep(r) \/ Heartbeat(r) \/ HeartbeatFault(r)
    PROVE  Onward
<1>1. r \in Run /\ r.proc \in Workers /\ r.job \in Jobs
  BY DEF TypeOK, Run
<1>2. CASE RunCapture(r)
  <2> DEFINE c == cache[r.proc][r.job]
             s == [r EXCEPT !.at = "start", !.attempt = c.attempt]
             x == [r EXCEPT !.at = "exit", !.live = FALSE]
  <2>1. UNCHANGED <<proc, asked>> /\ r.at = "new"
    BY <1>2 DEF RunCapture
  <2>2. \/ c # NoCopy /\ c.owner = r.proc /\ runs' = Replace(r, s)
        \/ runs' = Replace(r, x)
    BY <1>2 DEF RunCapture
  <2>3. /\ s.proc = r.proc /\ s.job = r.job /\ s.born = r.born
        /\ s.at = "start" /\ s.live = r.live
        /\ s.attempt = c.attempt /\ x.at = "exit"
    BY <1>1, RunFields DEF SameRun
  <2>4. c # NoCopy /\ c.owner = r.proc => Moved(r, s)
    BY <2>1, <2>3 DEF Moved
  <2> HIDE DEF s, x
  <2> QED BY <2>1, <2>2, <2>3, <2>4, OnwardMoved
<1>3. CASE RunStart(r)
  <2> DEFINE s == [r EXCEPT !.at = "index"]
  <2>1. UNCHANGED <<proc, asked>> /\ r.at = "start" /\ runs' = Replace(r, s)
    BY <1>3 DEF RunStart
  <2>2. /\ s.proc = r.proc /\ s.job = r.job /\ s.born = r.born
        /\ s.at = "index" /\ s.live = r.live
        /\ s.attempt = r.attempt
    BY <1>1, RunFields DEF SameRun
  <2>3. Moved(r, s)
    BY <2>1, <2>2 DEF Moved
  <2> HIDE DEF s
  <2> QED BY <2>1, <2>3, OnwardMoved
<1>4. ASSUME NEW status, Complete(r, status) PROVE Onward
  <2> DEFINE x == [r EXCEPT !.at = "exit", !.live = FALSE]
  <2>1. UNCHANGED <<proc, asked>> /\ runs' = Replace(r, x)
    BY <1>4 DEF Complete
  <2>2. x.at = "exit"
    BY <1>1 DEF Run
  <2> HIDE DEF x
  <2> QED BY <2>1, <2>2, OnwardMoved
<1>5. CASE RunFailRejected(r) \/ RunFinish(r)
  BY <1>4, <1>5 DEF RunFailRejected, RunFinish
<1>8. CASE RunRejectDescriptor(r)
  <2> DEFINE s == [r EXCEPT !.at = "reject"]
  <2>1. UNCHANGED <<proc, asked>> /\ r.at = "start" /\ runs' = Replace(r, s)
    BY <1>8 DEF RunRejectDescriptor
  <2>2. /\ s.proc = r.proc /\ s.job = r.job /\ s.born = r.born
        /\ s.at = "reject" /\ s.live = r.live
        /\ s.attempt = r.attempt
    BY <1>1, RunFields DEF SameRun
  <2>3. Moved(r, s)
    BY <2>1, <2>2 DEF Moved
  <2> HIDE DEF s
  <2> QED BY <2>1, <2>3, OnwardMoved
<1>6. CASE RunExit(r)
  BY <1>6, OnwardQuiet DEF RunExit
<1>7. CASE Heartbeat(r) \/ HeartbeatFault(r)
  <2> DEFINE s == [r EXCEPT !.live = FALSE]
  <2>1. UNCHANGED <<proc, asked>> /\ r.at \in InHand
    BY <1>7 DEF Heartbeat, HeartbeatFault, InHand
  <2>2. \/ runs' = runs
        \/ /\ runs' = Replace(r, s)
           /\ ~LeaseOwned(r.job, r.proc, r.attempt) \/ MaxFaults # 0
    BY <1>7, JobConstants DEF TypeOK, Heartbeat, HeartbeatFault
  <2>3. /\ s.proc = r.proc /\ s.job = r.job /\ s.born = r.born
        /\ s.at = r.at /\ ~s.live
        /\ s.attempt = r.attempt
    BY <1>1, RunFields DEF SameRun
  <2>4. ~LeaseOwned(r.job, r.proc, r.attempt) \/ MaxFaults # 0 => Moved(r, s)
    BY <2>1, <2>3 DEF Moved, Stopped
  <2> HIDE DEF s
  <2> QED BY <2>1, <2>2, <2>4, OnwardMoved, OnwardQuiet
<1> QED BY <1>2, <1>3, <1>5, <1>6, <1>7, <1>8 DEF RunStep

LEMMA OnwardStep ==
    ASSUME TypeOK, LifeInv, [Next]_vars
    PROVE  Onward
<1>1. CASE Tick \/ UNCHANGED vars
  BY <1>1, OnwardQuiet DEF Tick, vars
<1> QED BY <1>1, OnwardProcess, OnwardRequest, OnwardRun DEF Next

LEMMA ReleasesRead ==
    ASSUME TypeOK, [Next]_vars, NEW w \in Workers, NEW p \in releasing'[w]
    PROVE  p \in releasing[w] \/ p.copy = NoCopy \/ p.copy = cache[w][p.job]
<1>1. ASSUME NEW v \in Workers,
             Crash(v) \/ ShutdownSweep(v) \/ ShutdownReadLease(v)
      PROVE  p \in releasing[w] \/ p.copy = NoCopy \/ p.copy = cache[w][p.job]
  BY <1>1 DEF TypeOK, Crash, ShutdownSweep, ShutdownReadLease
<1>2. ASSUME NEW v \in Workers, ReleaseLease(v)
      PROVE  p \in releasing[w]
  <2>1. PICK q \in releasing[v] : releasing' = [releasing EXCEPT ![v] = @ \ {q}]
    BY <1>2, ReleaseLeaseIs
  <2> QED BY <2>1 DEF TypeOK
<1>3. ASSUME NEW r \in runs, RunExit(r)
      PROVE  p \in releasing[w] \/ p.copy = cache[w][p.job]
  BY <1>3 DEF TypeOK, RunExit
<1>4. ASSUME NEW v \in Workers, LinkRetry(v) PROVE p \in releasing[w]
  BY <1>4, LinkRetryIs
<1>5. ASSUME NEW v \in Workers, \/ Start(v) \/ RegisterClaim(v) \/ RegisterUndo(v)
                                \/ ClaimRecoverable(v) \/ ClearExpiredSlot(v)
                                \/ StartRecovered(v) \/ ReleaseRecoverySlot(v)
                                \/ ShutdownDone(v)
      PROVE  p \in releasing[w]
  BY <1>5 DEF Start, RegisterClaim, RegisterUndo, ClaimRecoverable, ClearExpiredSlot,
     StartRecovered, ReleaseRecoverySlot, ShutdownDone
<1>6. ASSUME NEW v \in Workers, \/ \E j \in Jobs : Load(v, j) \/ Cancel(v, j)
                                \/ \E j \in Jobs, parent \in Jobs \cup {Null} :
                                      RegisterCreate(v, j, parent)
                                \/ Shutdown(v) \/ Prune(v)
      PROVE  p \in releasing[w]
  BY <1>6 DEF Load, Cancel, RegisterCreate, Shutdown, Prune
<1>7. ASSUME NEW r \in runs, \/ RunCapture(r) \/ RunStart(r) \/ RunRejectDescriptor(r)
                             \/ RunFailRejected(r) \/ RunFinish(r)
                             \/ Heartbeat(r) \/ HeartbeatFault(r)
      PROVE  p \in releasing[w]
  BY <1>7 DEF RunCapture, RunStart, RunRejectDescriptor, RunFailRejected, RunFinish,
     Complete, Heartbeat, HeartbeatFault
<1>8. CASE Tick \/ UNCHANGED vars
  BY <1>8 DEF Tick, vars
<1> QED
  BY <1>1, <1>2, <1>3, <1>4, <1>5, <1>6, <1>7, <1>8 DEF Next, ProcessStep, Request, RunStep

\* A worker's lease, and one it no longer has.
RunLease(o, r) ==
    \/ o.status = "pruned"
    \/ r.attempt < o.attempt
    \/ r.attempt = o.attempt /\ o.owner \in {Null, r.proc}
RunOver(o, r) ==
    \/ o.status = "pruned"
    \/ r.attempt < o.attempt
    \/ r.attempt = o.attempt /\ (o.owner = Null \/ o.ttl = 0)

CancelledCopies ==
    \A w \in Workers, j \in Jobs : cache[w][j].status = "cancelled" => Ended(row[j])
CancelledReleases ==
    \A w \in Workers : \A p \in releasing[w] :
        p.copy.status = "cancelled" => Ended(row[p.job])
RunLeases ==
    \A r \in runs : r.at \in InHand => RunLease(row[r.job], r)
\* A worker was stopped by a request or a shutdown, or has lost its lease for good.
StoppedRuns ==
    \A r \in runs : r.at # "exit" /\ ~r.live =>
        \/ r.job \in asked \/ proc[r.proc] = "stopping"
        \/ r.at # "new" /\ RunOver(row[r.job], r)
\* The invariant behind CancelledByHolder.
CancelInv == /\ CancelledCopies /\ ClaimedCopies
             /\ CancelledReleases /\ RunLeases /\ StoppedRuns

LEMMA LeaseStays ==
    ASSUME TypeOK, SlotInv, Fate, NEW r \in runs
    PROVE  /\ RunLease(row[r.job], r) => RunLease(row'[r.job], r)
           /\ RunOver(row[r.job], r) => RunOver(row'[r.job], r)
<1>1. r.job \in Jobs /\ r.attempt \in Nat
  BY DEF TypeOK, Run
<1>2. RowFate(r.job) /\ RowSound(row[r.job]) /\ row[r.job].attempt \in Nat
  BY <1>1 DEF Fate, SlotInv, RowsSound, TypeOK, Row
<1> QED BY <1>1, <1>2 DEF RunLease, RunOver, RowSound, RowFate, Born, Kept, Taken, Claimable,
           Yielded, Active

LEMMA CapturedLease ==
    ASSUME TypeOK, SlotInv, NEW r \in runs, cache[r.proc][r.job] # NoCopy,
           cache[r.proc][r.job].owner = r.proc, NEW x, x.proc = r.proc,
           x.attempt = cache[r.proc][r.job].attempt
    PROVE  RunLease(row[r.job], x)
<1>1. r.job \in Jobs /\ r.proc \in Workers /\ r.proc # Null
  BY JobConstants DEF TypeOK, Run
<1>2. LeaseKnown(row[r.job], cache[r.proc][r.job])
  BY <1>1 DEF SlotInv, LeasesSound, MemoryLeases, CopySound
<1> QED BY <1>2 DEF LeaseKnown, RunLease

LEMMA LostLease ==
    ASSUME TypeOK, SlotInv, NEW r \in runs, RunLease(row[r.job], r),
           ~LeaseOwned(r.job, r.proc, r.attempt)
    PROVE  RunOver(row[r.job], r)
<1>1. r.job \in Jobs /\ r.proc \in Workers /\ r.proc # Null
  BY JobConstants DEF TypeOK, Run
<1>2. RowSound(row[r.job]) /\ row[r.job].ttl \in 0..LeaseTicks /\ LeaseTicks \in Nat
  BY <1>1, JobConstants DEF SlotInv, RowsSound, TypeOK, Row
<1> QED BY <1>1, <1>2 DEF RunLease, RunOver, RowSound, LeaseOwned

LEMMA CancelRuns ==
    ASSUME TypeOK, SlotInv, LifeInv, LifeInv', TypeOK', Fate, Onward, MaxFaults = 0,
           RunLeases, StoppedRuns
    PROVE  RunLeases' /\ StoppedRuns'
<1> SUFFICES ASSUME NEW x \in runs'
             PROVE  /\ x.at \in InHand => RunLease(row'[x.job], x)
                    /\ x.at # "exit" /\ ~x.live =>
                          \/ x.job \in asked' \/ proc'[x.proc] = "stopping"
                          \/ x.at # "new" /\ RunOver(row'[x.job], x)
  BY DEF RunLeases, StoppedRuns, RunLease, RunOver
<1>1. RunFate(x) /\ asked \subseteq asked'
  BY DEF Onward
<1>2. x.proc \in Workers /\ (proc[x.proc] = "stopping" => proc'[x.proc] = "stopping")
  <2>1. x.proc \in Workers /\ Serving(x.proc)' /\ proc'[x.proc] # "sweeping"
    BY DEF TypeOK, Run, LifeInv, ProcSound
  <2> QED BY <2>1 DEF Onward, Serving
<1>3. CASE x \in runs
  <2>1. x.at \in InHand => RunLease(row[x.job], x)
    BY <1>3 DEF RunLeases
  <2>2. x.at # "exit" /\ ~x.live =>
           \/ x.job \in asked \/ proc[x.proc] = "stopping"
           \/ x.at # "new" /\ RunOver(row[x.job], x)
    BY <1>3 DEF StoppedRuns
  <2> QED BY <1>1, <1>2, <1>3, <2>1, <2>2, LeaseStays
<1>4. ASSUME NEW r \in runs, Moved(r, x)
      PROVE  /\ x.at \in InHand => RunLease(row'[x.job], x)
             /\ x.at # "exit" /\ ~x.live =>
                   \/ x.job \in asked' \/ proc'[x.proc] = "stopping"
                   \/ x.at # "new" /\ RunOver(row'[x.job], x)
  <2>1. x.proc = r.proc /\ x.job = r.job
    BY <1>4 DEF Moved
  <2>2. x.attempt = r.attempt =>
          /\ RunLease(row[r.job], r) => RunLease(row'[x.job], x)
          /\ RunOver(row[r.job], r) => RunOver(row'[x.job], x)
    BY <2>1, LeaseStays DEF RunLease, RunOver
  <2>3. r.at \in InHand => RunLease(row[r.job], r)
    BY DEF RunLeases
  <2>4. r.at # "exit" /\ ~r.live =>
           \/ r.job \in asked \/ proc[r.proc] = "stopping"
           \/ r.at # "new" /\ RunOver(row[r.job], r)
    BY DEF StoppedRuns
  <2>5. CASE r.at = "new" /\ x.at = "start" /\ x.live = r.live
    <3>1. RunLease(row[r.job], x)
      BY <1>4, <2>1, <2>5, CapturedLease DEF Moved
    <3>2. RunLease(row'[x.job], x)
      <4>1. x.job \in Jobs /\ x.attempt \in Nat
        BY DEF TypeOK, Run
      <4>2. RowFate(x.job) /\ RowSound(row[x.job]) /\ row[x.job].attempt \in Nat
        BY <4>1 DEF Fate, SlotInv, RowsSound, TypeOK, Row
      <4> QED BY <2>1, <3>1, <4>1, <4>2 DEF RunLease, RowSound, RowFate, Born, Kept, Taken,
                 Claimable, Yielded, Active
    <3> QED BY <1>1, <1>2, <2>1, <2>4, <2>5, <3>2 DEF InHand
  <2>6. CASE /\ r.at = "start" /\ x.at \in {"reject", "index"}
             /\ x.live = r.live /\ x.attempt = r.attempt
    BY <1>1, <1>2, <2>1, <2>2, <2>3, <2>4, <2>6 DEF InHand
  <2>7. CASE x.at = r.at /\ x.attempt = r.attempt /\ ~x.live /\ Stopped(r)
    <3>1. CASE r.job \in asked' \/ proc'[r.proc] = "stopping"
      BY <2>1, <2>2, <2>3, <2>7, <3>1
    <3>2. CASE r.at \in InHand /\ ~LeaseOwned(r.job, r.proc, r.attempt)
      BY <2>1, <2>2, <2>3, <2>7, <3>2, LostLease DEF InHand
    <3> QED BY <2>7, <3>1, <3>2 DEF Stopped
  <2> QED BY <1>4, <2>5, <2>6, <2>7 DEF Moved
<1>5. Begun(x) => x.at = "new" /\ x.live
  BY DEF Begun
<1> QED BY <1>1, <1>3, <1>4, <1>5 DEF RunFate, InHand

\* A job is asked to be cancelled, or its own worker at work may say that it was.
Cancellable(j) ==
    \/ j \in asked'
    \/ \E r \in runs : r.job = j /\ r.live /\ LeaseOwned(j, r.proc, r.attempt)

\* The rows that become cancelled.
LEMMA CancelledRows ==
    ASSUME TypeOK, SlotInv, LifeInv, CancelInv, Onward, [Next]_vars,
           NEW j \in Jobs, row[j].status # "cancelled", row'[j].status = "cancelled"
    PROVE  Cancellable(j)
<1>1. asked \subseteq asked' /\ row[j].status # row'[j].status
  BY DEF Onward
<1>2. ASSUME NEW w \in Workers, Cancel(w, j) PROVE Cancellable(j)
  BY <1>2 DEF Cancel, Cancellable
<1>3. ASSUME NEW w \in Workers, NEW k \in Jobs, Cancel(w, k), k # j PROVE Cancellable(j)
  <2>1. row'[j] = row[j]
    BY <1>3 DEF TypeOK, Cancel
  <2> QED BY <1>1, <2>1
<1>4. ASSUME NEW r \in runs, NEW status \in Terminal, Complete(r, status),
             status = "cancelled" => r.at = "index"
      PROVE  Cancellable(j)
  <2>1. r.proc \in Workers /\ r.job \in Jobs /\ r.proc # Null
    BY JobConstants DEF TypeOK, Run
  <2>2. CASE UNCHANGED row
    BY <1>1, <2>2
  <2>3. CASE ~UNCHANGED row
    <3>1. ~LeftToNext(r.proc, status) /\ Owns(r.job, r.proc, r.attempt)
      BY <1>4, <2>3, CompleteIs
    <3>2. PICK c \in Copy, n \in Row : Written(r.job, c, n) /\ c.status = status
      BY <1>4, <2>3, CompleteIs
    <3>3. n.status = status /\ row'[j] = IF j = r.job THEN n ELSE row[j]
      BY <3>2 DEF Written
    <3>4. CASE j # r.job \/ status # "cancelled"
      BY <1>1, <3>3, <3>4
    <3>5. CASE j = r.job /\ status = "cancelled"
      <4>1. r.at = "index" /\ proc[r.proc] # "stopping"
        BY <1>4, <3>1, <3>5 DEF LeftToNext
      <4>2. /\ row[r.job] \in Row /\ row[r.job].attempt = r.attempt
            /\ row[r.job].owner = r.proc /\ row[r.job].ttl > 0 /\ Exists(r.job)
        BY <2>1, <3>1, OwnedRow
      <4>3. row[r.job].attempt \in Nat /\ row[r.job].ttl # 0 /\ row[r.job].status # "pruned"
        BY <4>2 DEF Row, Exists
      <4>4. ~RunOver(row[r.job], r)
        BY <2>1, <4>2, <4>3 DEF RunOver
      <4>5. ~r.live => r.job \in asked
        BY <4>1, <4>4 DEF CancelInv, StoppedRuns
      <4>6. LeaseOwned(r.job, r.proc, r.attempt)
        BY <2>1, <3>1, <4>2, OwnedRow DEF LeaseOwned
      <4> QED BY <1>1, <3>5, <4>5, <4>6 DEF Cancellable
    <3> QED BY <3>4, <3>5
  <2> QED BY <2>2, <2>3
<1>5. ASSUME NEW r \in runs, RunFailRejected(r) \/ RunFinish(r) PROVE Cancellable(j)
  <2>1. CASE RunFailRejected(r)
    BY <1>4, <2>1 DEF RunFailRejected, Terminal
  <2>2. CASE RunFinish(r)
    <3>1. PICK status \in Terminal : Complete(r, status)
      BY <2>2 DEF RunFinish, Outcomes, Terminal
    <3>2. r.at = "index"
      BY <2>2 DEF RunFinish
    <3> QED BY <1>4, <3>1, <3>2
  <2> QED BY <1>5, <2>1, <2>2
<1>6. ASSUME NEW w \in Workers, ReleaseLease(w) PROVE Cancellable(j)
  <2>1. PICK p \in releasing[w] :
          /\ p.job \in Jobs /\ p.copy \in Copy
          /\ \/ UNCHANGED row
             \/ /\ Owns(p.job, p.copy.owner, p.copy.attempt)
                /\ \E c \in Copy, n \in Row :
                      /\ Written(p.job, c, n)
                      /\ c.status = IF p.copy.status \in Terminal THEN p.copy.status
                                    ELSE "queued"
    BY <1>6, ReleaseLeaseIs
  <2>2. row'[j].status = row[j].status \/ (j = p.job /\ p.copy.status = "cancelled")
    BY <2>1 DEF Written
  <2>3. j = p.job /\ p.copy.status = "cancelled" /\ Owns(p.job, p.copy.owner, p.copy.attempt)
    BY <1>1, <2>1, <2>2
  <2>4. p.copy.owner # Null
    BY <2>1, NoCopyIsNone DEF SlotInv, LeasesSound, ReleasingLeases, ItemSound
  <2>5. row[j].status \in Active
    BY <2>3, <2>4, OwnedRow
  <2>6. Ended(row[j])
    BY <2>3 DEF CancelInv, CancelledReleases
  <2> QED BY <2>5, <2>6 DEF Ended, Active, Terminal
<1>7. ASSUME UNCHANGED row PROVE Cancellable(j)
  BY <1>1, <1>7
<1>8. ASSUME NEW r \in runs, RunStart(r) PROVE Cancellable(j)
  <2>1. row'[j] = row[j] \/ row'[j].status = "running"
    BY <1>8, RunStartIs DEF Written
  <2> QED BY <1>1, <2>1
<1>9. ASSUME NEW r \in runs, Heartbeat(r) PROVE Cancellable(j)
  <2>1. row[j] \in Row /\ (row'[j] = row[j] \/ row'[j] = [row[j] EXCEPT !.ttl = LeaseTicks])
    BY <1>9 DEF TypeOK, Heartbeat
  <2>2. row'[j].status = row[j].status
    BY <2>1 DEF Row
  <2> QED BY <1>1, <2>2
<1>10. CASE Tick
  <2>1. row[j] \in Row /\ row'[j] = [row[j] EXCEPT !.ttl = Aged(row[j].ttl)]
    BY <1>10 DEF TypeOK, Tick
  <2>2. row'[j].status = row[j].status
    BY <2>1, TtlFields
  <2> QED BY <1>1, <2>2
<1>11. ASSUME NEW w \in Workers, \/ RegisterUndo(w) \/ Prune(w)
                                 \/ \E k \in Jobs, parent \in Jobs \cup {Null} :
                                       RegisterCreate(w, k, parent)
       PROVE  Cancellable(j)
  <2>1. [NoRow EXCEPT !.status = "queued", !.retryable = TRUE, !.resumable = TRUE].status = "queued"
        /\ Deleted.status = "pruned"
    BY DEF NoRow, Deleted
  <2>2. \/ row'[j] = row[j] \/ row'[j] = Deleted
        \/ row'[j] = [NoRow EXCEPT !.status = "queued", !.retryable = TRUE, !.resumable = TRUE]
    BY <1>11 DEF TypeOK, RegisterUndo, Prune, RegisterCreate
  <2> QED BY <1>1, <2>1, <2>2
<1>12. ASSUME NEW w \in Workers, RegisterClaim(w) PROVE Cancellable(j)
  <2>1. PICK c \in creating[w] : \E n, gone : Registers(w, c, n, gone)
    BY <1>12, RegisterClaimIs
  <2>2. row'[j] = row[j] \/ row'[j].status = "queued"
    BY <2>1 DEF Registers, Claims
  <2> QED BY <1>1, <2>2
<1>13. ASSUME NEW w \in Workers, ClaimRecoverable(w) PROVE Cancellable(j)
  <2>1. row'[j] = row[j] \/ row'[j].status = "queued"
    BY <1>13, ClaimRecoverableIs DEF Claims
  <2> QED BY <1>1, <2>1
<1>14. ASSUME NEW w \in Workers, LinkRetry(w) PROVE Cancellable(j)
  <2>1. PICK l \in links[w] : Relates(w, l) \/ Loses(w, l)
    BY <1>14, LinkRetryIs
  <2>2. row'[j].status = row[j].status
    BY <2>1 DEF Relates, Loses, SameLease
  <2> QED BY <1>1, <2>2
<1>15. ASSUME NEW w \in Workers,
              \/ Start(w) \/ ClearExpiredSlot(w) \/ StartRecovered(w) \/ ReleaseRecoverySlot(w)
              \/ ShutdownSweep(w) \/ ShutdownReadLease(w) \/ ShutdownDone(w)
              \/ Crash(w) \/ Shutdown(w) \/ \E k \in Jobs : Load(w, k)
       PROVE  UNCHANGED row
  BY <1>15 DEF Start, ClearExpiredSlot, StartRecovered, ReleaseRecoverySlot, ShutdownSweep,
     ShutdownReadLease, ShutdownDone, Crash, Shutdown, Load
<1>16. ASSUME NEW r \in runs, \/ RunCapture(r) \/ RunRejectDescriptor(r)
                              \/ RunExit(r) \/ HeartbeatFault(r)
       PROVE  UNCHANGED row
  BY <1>16 DEF RunCapture, RunRejectDescriptor, RunExit, HeartbeatFault
<1>17. CASE UNCHANGED vars
  BY <1>7, <1>17 DEF vars
<1>18. ASSUME NEW w \in Workers, Start(w) \/ ProcessStep(w) \/ Request(w)
       PROVE  Cancellable(j)
  BY <1>2, <1>3, <1>6, <1>7, <1>11, <1>12, <1>13, <1>14, <1>15, <1>18
     DEF ProcessStep, Request
<1>19. ASSUME NEW r \in runs, RunStep(r) \/ Heartbeat(r) \/ HeartbeatFault(r)
       PROVE  Cancellable(j)
  BY <1>5, <1>7, <1>8, <1>9, <1>16, <1>19 DEF RunStep
<1> QED BY <1>10, <1>17, <1>18, <1>19 DEF Next

\* A row that ended stays so, whatever copies are in memory.
LEMMA EndedLasts ==
    ASSUME SlotInv, Fate, NEW j \in Jobs, Ended(row[j])
    PROVE  Ended(row'[j])
<1>1. RowFate(j) /\ RowSound(row[j]) /\ row[j].status \in Terminal \cup {"pruned"}
  BY DEF Fate, SlotInv, RowsSound, Ended
<1>2. row[j].owner = Null
  BY <1>1 DEF RowSound, Active, Terminal
<1> QED BY <1>1, <1>2 DEF RowFate, Born, Kept, Taken, Claimable, Yielded, Ended, Active, Terminal

LEMMA CancelStep ==
    ASSUME TypeOK, TypeOK', SlotInv, LifeInv, LifeInv', MaxFaults = 0, CancelInv, [Next]_vars
    PROVE  CancelInv'
<1>1. Fate /\ Onward
  BY FateStep, OnwardStep
<1>3. ClaimedCopies'
  BY <1>1 DEF Fate, RestFate, CancelInv, ClaimedCopies
<1>4. RunLeases' /\ StoppedRuns'
  BY <1>1, CancelRuns DEF CancelInv
<1>5. NoCopy.status # "cancelled"
  BY DEF NoCopy
<1>6. ASSUME NEW w \in Workers, NEW j \in Jobs, cache'[w][j].status = "cancelled"
      PROVE  Ended(row'[j])
  <2>1. MemoryFate(w, j)
    BY <1>1 DEF Fate
  <2>2. CASE cache'[w][j] = cache[w][j] \/ GaveUp(cache[w][j], cache'[w][j])
    <3>1. cache[w][j].status = "cancelled"
      BY <1>6, <2>2, GaveUpFields
    <3> QED BY <1>1, <3>1, EndedLasts DEF CancelInv, CancelledCopies
  <2>3. CASE Mirrored(w, j)
    BY <1>6, <2>3 DEF Mirrored, Ended, Terminal
  <2>4. \A p \in pending[w] : p.copy.status = "queued"
    BY DEF CancelInv, ClaimedCopies
  <2> QED BY <1>5, <1>6, <2>1, <2>2, <2>3, <2>4 DEF MemoryFate
<1>7. ASSUME NEW w \in Workers, NEW p \in releasing'[w], p.copy.status = "cancelled"
      PROVE  Ended(row'[p.job])
  <2>1. p \in releasing[w] \/ p.copy = cache[w][p.job]
    BY <1>5, <1>7, ReleasesRead
  <2>2. p.job \in Jobs
    BY DEF TypeOK
  <2>3. Ended(row[p.job])
    BY <1>7, <2>1, <2>2 DEF CancelInv, CancelledCopies, CancelledReleases
  <2> QED BY <1>1, <2>2, <2>3, EndedLasts
<1>8. CancelledCopies' /\ CancelledReleases'
  BY <1>6, <1>7 DEF CancelledCopies, CancelledReleases, Ended
<1> QED BY <1>3, <1>4, <1>8 DEF CancelInv

LEMMA CancelInit == Init => CancelInv
<1> SUFFICES ASSUME Init PROVE CancelInv
  OBVIOUS
<1>1. NoCopy.status # "cancelled"
  BY DEF NoCopy
<1>2. CancelledCopies
  BY <1>1 DEF Init, CancelledCopies
<1>3. ClaimedCopies /\ CancelledReleases /\ RunLeases /\ StoppedRuns
  BY DEF Init, ClaimedCopies, CancelledReleases, RunLeases, StoppedRuns
<1> QED BY <1>2, <1>3 DEF CancelInv

\* As long as no renewal fails and the store refuses no write, a job becomes cancelled
\* only when a client, or the loser of a retry race, asked for it, or by the worker that
\* nobody stopped and that holds its lease, when a call inside it ran into a deadline:
\* shutdowns, crashes, lapsed leases, leases given back and overtaken workers never
\* make it so, in any number of processes at once.
THEOREM OnlyHoldersCancel == ASSUME MaxFaults = 0 PROVE Spec => CancelledByHolder
<1>1. Init => CancelInv
  BY CancelInit
<1>2. (TypeOK /\ SlotInv /\ LifeInv) /\ (TypeOK' /\ LifeInv') /\ CancelInv /\ [Next]_vars
      => CancelInv'
  <2> SUFFICES ASSUME TypeOK, SlotInv, LifeInv, TypeOK', LifeInv', CancelInv, [Next]_vars
               PROVE  CancelInv'
    OBVIOUS
  <2> QED BY CancelStep
<1>3. TypeOK /\ SlotInv /\ LifeInv /\ CancelInv /\ [Next]_vars
      => [\A j \in Jobs : row[j].status # "cancelled" /\ row'[j].status = "cancelled" =>
            \/ j \in asked'
            \/ \E r \in runs : /\ r.job = j /\ r.live
                                /\ LeaseOwned(j, r.proc, r.attempt)]_vars
  <2> SUFFICES ASSUME TypeOK, SlotInv, LifeInv, CancelInv, [Next]_vars,
                      NEW j \in Jobs, row[j].status # "cancelled",
                      row'[j].status = "cancelled"
               PROVE  Cancellable(j)
    BY DEF Cancellable
  <2>1. Onward
    BY OnwardStep
  <2> QED BY <2>1, CancelledRows
<1> QED BY <1>1, <1>2, <1>3, CoreSound, PTL DEF Spec, CancelledByHolder
-----------------------------------------------------------------------------
(* One live worker *)

\* Process w holds job j at attempt a: its lease is live, or the job has ended.
Held(j, w, a) == Ended(row[j]) \/ LeaseOwned(j, w, a)

RunsHold ==
    \A r \in runs : Works(r) => Held(r.job, r.proc, r.attempt)
ClaimsHold ==
    \A w \in Workers : \A p \in pending[w] :
        p.copy.owner = w /\ Held(p.job, w, p.copy.attempt)
\* The lease a worker was started with is the one it works under, and is in memory.
RunsRemember ==
    \A r \in runs : Works(r) =>
        \/ Ended(row[r.job])
        \/ HoldsInMemory(r.proc, r.job, r.attempt) /\ r.born = r.attempt
\* So ShutdownJobs tells every worker of an unfinished job to stop.
RunsUp ==
    \A r \in runs : Works(r) /\ proc[r.proc] # "up" => Ended(row[r.job])
ClaimsAlone ==
    \A v, w \in Workers : \A p \in pending[v] : \A q \in pending[w] :
        p.job = q.job => v = w /\ p = q
ClaimsIdle ==
    \A w \in Workers : \A p \in pending[w] : \A r \in runs :
        Works(r) => r.job # p.job
\* The inductive strengthening of OneLiveWorker.
HolderInv == /\ RunsHold /\ RunsRemember /\ RunsUp
             /\ ClaimsHold /\ ClaimsAlone /\ ClaimsIdle
             /\ OneLiveWorker

\* Heartbeats are on time: no lease lapses under a worker or a waiting claim.
LEMMA TickWaits ==
    ASSUME ~Stalls, Tick
    PROVE  /\ \A r \in runs : Works(r) /\ LeaseOwned(r.job, r.proc, r.attempt)
                 => row[r.job].ttl > 1
           /\ \A w \in Workers : \A p \in pending[w] :
                 LeaseOwned(p.job, w, p.copy.attempt) => row[p.job].ttl > 1
BY DEF Tick, Works

LEMMA HeldStays ==
    ASSUME TypeOK, SlotInv, LifeInv, CopiesSound, Fate,
           NEW j \in Jobs, NEW w \in Workers, NEW a, Held(j, w, a),
           (\E v \in Workers : releasing[v] # {}) => Ended(row[j]),
           Tick /\ LeaseOwned(j, w, a) => row[j].ttl > 1
    PROVE  Held(j, w, a)'
<1>1. CASE Ended(row[j])
  <2>1. row[j].status \in Terminal \cup {"pruned"}
    BY <1>1 DEF Ended
  <2>2. row'[j].status \in {row[j].status, "pruned"}
    BY <1>1, EndedStays
  <2> QED BY <2>1, <2>2 DEF Held, Ended
<1>2. CASE LeaseOwned(j, w, a)
  <2>1. /\ row[j].status \in Active /\ row[j].owner = w /\ row[j].attempt = a
        /\ row[j].ttl > 0 /\ w # Null
    BY <1>2, JobConstants DEF LeaseOwned
  <2>2. RowFate(j)
    BY DEF Fate
  <2>3. row[j].ttl # 0
    BY <2>1
  <2>4. ~Taken(j) /\ ~Born(row[j], row'[j])
    BY <2>1, <2>3 DEF Taken, Claimable, Born, Active
  <2>5. \A v \in Workers : releasing[v] = {}
    BY <2>1 DEF Ended, Active, Terminal
  <2>6. CASE row'[j].status = "pruned"
    BY <2>6 DEF Held, Ended
  <2>7. CASE Yielded(row[j], row'[j])
    BY <2>1, <2>5, <2>7 DEF Yielded, Held, Ended
  <2>8. CASE Kept(row[j], row'[j])
    <3>1. row'[j].ttl > 0
      BY <1>2, <2>1, <2>8 DEF Kept
    <3> QED BY <2>1, <2>8, <3>1 DEF Kept, Held, LeaseOwned, Active
  <2> QED BY <2>2, <2>4, <2>6, <2>7, <2>8 DEF RowFate
<1> QED BY <1>1, <1>2 DEF Held

\* A held job is not claimable.
LEMMA HeldTaken ==
    ASSUME NEW j, NEW w \in Workers, NEW a, Held(j, w, a)
    PROVE  ~Claimable(j)
<1>1. w # Null /\ \A n : n > 0 => n # 0
  BY JobConstants
<1> QED BY <1>1 DEF Held, Ended, LeaseOwned, Claimable, Active, Terminal

\* All that the lemmas below know of a step.
HolderStart ==
    /\ TypeOK /\ SlotInv /\ LifeInv /\ CopiesSound /\ Fate /\ Onward /\ HolderInv
    /\ TypeOK' /\ LifeInv'

\* While leases are given back no other process works, for want of one.
LEMMA ReleasingDown ==
    ASSUME TypeOK, LifeInv, Sole, NEW v \in Workers, releasing[v] # {},
           NEW w \in Workers, Serving(w)
    PROVE  proc[w] # "up"
<1>1. Serving(v) /\ proc[v] \in {"stopping", "sweeping"} /\ Graceful
  BY JobConstants DEF LifeInv, ProcSound, Serving
<1>2. v = w
  BY <1>1 DEF LifeInv, Sole
<1> QED BY <1>1, <1>2

LEMMA HeldRuns ==
    ASSUME ~Stalls, Sole, HolderStart, NEW r \in runs, Works(r)
    PROVE  Held(r.job, r.proc, r.attempt)'
<1>1. r.job \in Jobs /\ r.proc \in Workers
  BY DEF HolderStart, TypeOK, Run
<1>2. Held(r.job, r.proc, r.attempt)
  BY DEF HolderStart, HolderInv, RunsHold
<1>3. Tick /\ LeaseOwned(r.job, r.proc, r.attempt) => row[r.job].ttl > 1
  BY TickWaits
<1>4. ASSUME NEW v \in Workers, releasing[v] # {} PROVE Ended(row[r.job])
  <2>1. proc[r.proc] # "up"
    BY <1>1, <1>4, ReleasingDown DEF HolderStart, LifeInv, ProcSound
  <2> QED BY <2>1 DEF HolderStart, HolderInv, RunsUp
<1> QED BY <1>1, <1>2, <1>3, <1>4, HeldStays DEF HolderStart

LEMMA HeldClaims ==
    ASSUME ~Stalls, Sole, HolderStart, NEW w \in Workers, NEW p \in pending[w]
    PROVE  Held(p.job, w, p.copy.attempt)'
<1>1. p.job \in Jobs
  BY DEF HolderStart, TypeOK
<1>2. Held(p.job, w, p.copy.attempt)
  BY DEF HolderStart, HolderInv, ClaimsHold
<1>3. Tick /\ LeaseOwned(p.job, w, p.copy.attempt) => row[p.job].ttl > 1
  BY TickWaits
<1>4. \A v \in Workers : releasing[v] = {}
  <2>1. proc[w] = "up" /\ Serving(w)
    BY DEF HolderStart, LifeInv, ProcSound, Serving
  <2> QED BY <2>1, ReleasingDown DEF HolderStart
<1> QED BY <1>1, <1>2, <1>3, <1>4, HeldStays DEF HolderStart

\* A worker at work after the step was at work before it, or has just begun.
Origin(r, x) ==
    /\ r \in runs /\ Works(r) /\ r.job = x.job /\ r.proc = x.proc /\ r.born = x.born
    /\ x.attempt = r.attempt \/ Ended(row[r.job])
    /\ x = r \/ r \notin runs'

LEMMA WorkerOrigin ==
    ASSUME HolderStart, NEW x \in runs', Works(x)
    PROVE  \/ \E r \in runs : Origin(r, x)
           \/ Begun(x) /\ x \notin runs
<1>1. RunFate(x)
  BY DEF HolderStart, Onward
<1>2. CASE x \in runs
  BY <1>2 DEF Origin
<1>3. ASSUME NEW r \in runs, Moved(r, x), r \notin runs'
      PROVE  Origin(r, x)
  <2>1. /\ x.proc = r.proc /\ x.job = r.job /\ x.born = r.born /\ x.live
        /\ \/ /\ r.at = "new" /\ x.at = "start" /\ r.live
              /\ cache[x.proc][x.job].attempt = x.attempt
           \/ r.at = "start" /\ x.at \in {"reject", "index"} /\ r.live /\ x.attempt = r.attempt
    BY <1>3 DEF Moved, Works
  <2>2. Works(r)
    BY <2>1 DEF Works
  <2>3. Ended(row[r.job]) \/ cache[r.proc][r.job].attempt = r.attempt
    BY <2>2 DEF HolderStart, HolderInv, RunsRemember, HoldsInMemory
  <2> QED BY <1>3, <2>1, <2>2, <2>3 DEF Origin
<1> QED BY <1>1, <1>2, <1>3 DEF RunFate, Works, Origin

\* Who starts to work on a job in a step takes it over from nobody.
LEMMA BegunAlone ==
    ASSUME HolderStart, NEW x \in runs', Begun(x)
    PROVE  /\ \A r \in runs : Works(r) => r.job # x.job
           /\ \A w \in Workers : \A p \in pending'[w] : p.job # x.job
<1>1. x.proc \in Workers
  BY DEF HolderStart, TypeOK, Run
<1>2. \A w \in Workers : pending'[w] \subseteq pending[w]
  BY DEF Begun
<1>3. CASE Claimable(x.job)
  <2>1. ASSUME NEW r \in runs, Works(r) PROVE r.job # x.job
    <3>1. Held(r.job, r.proc, r.attempt) /\ r.proc \in Workers
      BY <2>1 DEF HolderStart, HolderInv, RunsHold, TypeOK, Run
    <3> QED BY <1>3, <3>1, HeldTaken
  <2>2. ASSUME NEW w \in Workers, NEW p \in pending'[w] PROVE p.job # x.job
    <3>1. Held(p.job, w, p.copy.attempt)
      BY <1>2 DEF HolderStart, HolderInv, ClaimsHold
    <3> QED BY <1>3, <3>1, HeldTaken
  <2> QED BY <2>1, <2>2
<1>4. ASSUME NEW p \in pending[x.proc], p \notin pending'[x.proc], p.job = x.job
      PROVE  /\ \A r \in runs : Works(r) => r.job # x.job
             /\ \A w \in Workers : \A q \in pending'[w] : q.job # x.job
  <2>1. \A r \in runs : Works(r) => r.job # x.job
    BY <1>1, <1>4 DEF HolderStart, HolderInv, ClaimsIdle
  <2>2. ASSUME NEW w \in Workers, NEW q \in pending'[w], q.job = x.job PROVE FALSE
    <3>1. q \in pending[w]
      BY <1>2
    <3>2. w = x.proc /\ p = q
      BY <1>1, <1>4, <2>2, <3>1 DEF HolderStart, HolderInv, ClaimsAlone
    <3> QED BY <1>4, <3>2
  <2> QED BY <2>1, <2>2
<1> QED BY <1>3, <1>4 DEF Begun

LEMMA OneWorkerStep ==
    ASSUME HolderStart
    PROVE  OneLiveWorker'
<1> SUFFICES ASSUME NEW x \in runs', NEW y \in runs', x.job = y.job, Works(x), Works(y)
             PROVE  x = y
  BY DEF OneLiveWorker, Works
<1>1. ASSUME NEW r \in runs, NEW q \in runs, Origin(r, x), Origin(q, y) PROVE x = y
  <2>1. r = q
    BY <1>1 DEF HolderStart, HolderInv, OneLiveWorker, Origin, Works
  <2>2. CASE x \in runs /\ y \in runs
    BY <2>2 DEF HolderStart, HolderInv, OneLiveWorker, Works
  <2>3. CASE x \notin runs /\ y \notin runs
    BY <2>3 DEF HolderStart, Onward
  <2>4. CASE x \in runs /\ y \notin runs
    <3>1. OneLiveWorker /\ Works(r) /\ r.job = x.job
      BY <1>1 DEF HolderStart, HolderInv, Origin
    <3>2. x = r
      BY <2>4, <3>1 DEF OneLiveWorker, Works
    <3> QED BY <1>1, <2>1, <2>4, <3>2 DEF Origin
  <2>5. CASE x \notin runs /\ y \in runs
    <3>1. OneLiveWorker /\ Works(q) /\ q.job = y.job
      BY <1>1 DEF HolderStart, HolderInv, Origin
    <3>2. y = q
      BY <2>5, <3>1 DEF OneLiveWorker, Works
    <3> QED BY <1>1, <2>1, <2>5, <3>2 DEF Origin
  <2> QED BY <2>2, <2>3, <2>4, <2>5
<1>2. ASSUME NEW r \in runs, Origin(r, x), Begun(y) PROVE FALSE
  <2>1. Works(r) /\ r.job = x.job
    BY <1>2 DEF Origin
  <2> QED BY <1>2, <2>1, BegunAlone
<1>3. ASSUME NEW r \in runs, Origin(r, y), Begun(x) PROVE FALSE
  <2>1. Works(r) /\ r.job = y.job
    BY <1>3 DEF Origin
  <2> QED BY <1>3, <2>1, BegunAlone
<1>4. ASSUME x \notin runs, y \notin runs PROVE x = y
  BY <1>4 DEF HolderStart, Onward
<1> QED BY <1>1, <1>2, <1>3, <1>4, WorkerOrigin

LEMMA ClaimsStep ==
    ASSUME ~Stalls, Sole, HolderStart
    PROVE  ClaimsHold' /\ ClaimsAlone' /\ ClaimsIdle'
<1>1. ASSUME NEW w \in Workers, NEW p \in pending'[w], p \notin pending[w]
      PROVE  /\ Claimable(p.job) /\ p.copy = CopyOf(row'[p.job])
             /\ LeaseOwned(p.job, w, p.copy.attempt)' /\ row'[p.job].owner = w
  BY <1>1 DEF HolderStart, Fate, RestFate, LeaseOwned
<1>2. ASSUME NEW w \in Workers, NEW p \in pending[w] PROVE ~Claimable(p.job)
  <2>1. Held(p.job, w, p.copy.attempt)
    BY DEF HolderStart, HolderInv, ClaimsHold
  <2> QED BY <2>1, HeldTaken
<1>3. ASSUME NEW w \in Workers, NEW p \in pending'[w]
      PROVE  p.copy.owner = w /\ Held(p.job, w, p.copy.attempt)'
  <2>1. CASE p \in pending[w]
    <3>1. Held(p.job, w, p.copy.attempt)'
      BY <2>1, HeldClaims
    <3>2. p.copy.owner = w
      BY <2>1 DEF HolderStart, HolderInv, ClaimsHold
    <3> QED BY <3>1, <3>2
  <2>2. CASE p \notin pending[w]
    <3>1. /\ p.copy = CopyOf(row'[p.job]) /\ row'[p.job].owner = w
          /\ LeaseOwned(p.job, w, p.copy.attempt)'
      BY <1>1, <2>2
    <3>2. p.copy.owner = w
      BY <3>1 DEF CopyOf
    <3> QED BY <3>1, <3>2 DEF Held
  <2> QED BY <2>1, <2>2
<1>4. ClaimsHold'
  BY <1>3 DEF ClaimsHold, Held, LeaseOwned, Ended
<1>5. ASSUME NEW v \in Workers, NEW w \in Workers, NEW p \in pending'[v],
             NEW q \in pending'[w], p.job = q.job
      PROVE  v = w /\ p = q
  <2>1. CASE p \in pending[v] /\ q \in pending[w]
    BY <1>5, <2>1 DEF HolderStart, HolderInv, ClaimsAlone
  <2>2. CASE p \notin pending[v] /\ q \notin pending[w]
    <3>1. v = w /\ p.copy = q.copy
      BY <1>1, <1>5, <2>2
    <3>2. p \in [job: Jobs, copy: Copy] /\ q \in [job: Jobs, copy: Copy]
      BY DEF HolderStart, TypeOK
    <3> QED BY <1>5, <3>1, <3>2
  <2> QED BY <1>1, <1>2, <1>5, <2>1, <2>2
<1>6. ClaimsAlone'
  BY <1>5 DEF ClaimsAlone
<1>7. ASSUME NEW w \in Workers, NEW p \in pending'[w], NEW x \in runs', Works(x), x.job = p.job
      PROVE  FALSE
  <2>1. ~Begun(x)
    BY <1>7, BegunAlone
  <2>2. PICK r \in runs : Origin(r, x)
    BY <1>7, <2>1, WorkerOrigin
  <2>3. Works(r) /\ r.job = p.job /\ r.proc \in Workers
    BY <1>7, <2>2 DEF Origin, HolderStart, TypeOK, Run
  <2>4. p \notin pending[w]
    BY <2>3 DEF HolderStart, HolderInv, ClaimsIdle
  <2>5. Held(r.job, r.proc, r.attempt)
    BY <2>3 DEF HolderStart, HolderInv, RunsHold
  <2> QED BY <1>1, <2>3, <2>4, <2>5, HeldTaken
<1>8. ClaimsIdle'
  BY <1>7 DEF ClaimsIdle, Works
<1> QED BY <1>4, <1>6, <1>8

LEMMA RunsStep ==
    ASSUME ~Stalls, Sole, HolderStart
    PROVE  RunsHold'
<1>1. ASSUME NEW x \in runs', Works(x) PROVE Held(x.job, x.proc, x.attempt)'
  <2>1. x.job \in Jobs /\ x.proc \in Workers
    BY DEF HolderStart, TypeOK, Run
  <2>2. ASSUME NEW r \in runs, Origin(r, x) PROVE Held(x.job, x.proc, x.attempt)'
    <3>1. Held(r.job, r.proc, r.attempt)'
      BY <2>2, HeldRuns DEF Origin
    <3>2. CASE x.attempt = r.attempt
      BY <2>2, <3>1, <3>2 DEF Origin, Held, LeaseOwned
    <3>3. CASE Ended(row[r.job])
      <4>1. row'[x.job].status \in {row[x.job].status, "pruned"} /\ Ended(row[x.job])
        BY <2>1, <2>2, <3>3, EndedStays DEF HolderStart, Origin
      <4> QED BY <4>1 DEF Held, Ended
    <3> QED BY <2>2, <3>2, <3>3 DEF Origin
  <2>3. CASE Begun(x)
    <3>1. CASE LeaseOwned(x.job, x.proc, x.attempt)'
      BY <3>1 DEF Held
    <3>2. ASSUME NEW p \in pending[x.proc], p.job = x.job, p.copy.attempt = x.attempt
          PROVE  Held(x.job, x.proc, x.attempt)'
      <4>1. Held(p.job, x.proc, p.copy.attempt)'
        BY <2>1, HeldClaims
      <4> QED BY <3>2, <4>1 DEF Held, LeaseOwned
    <3> QED BY <2>3, <3>1, <3>2 DEF Begun
  <2> QED BY <1>1, <2>2, <2>3, WorkerOrigin
<1> QED BY <1>1 DEF RunsHold, Works, Held, LeaseOwned, Ended

LEMMA RememberStep ==
    ASSUME ~Stalls, Sole, HolderStart, RunsHold'
    PROVE  RunsRemember'
<1> SUFFICES ASSUME NEW x \in runs', Works(x), ~Ended(row'[x.job])
             PROVE  HoldsInMemory(x.proc, x.job, x.attempt)' /\ x.born = x.attempt
  BY DEF RunsRemember, Works, Ended, HoldsInMemory, Known
<1> DEFINE w == x.proc
           j == x.job
<1>1. w \in Workers /\ j \in Jobs
  BY DEF HolderStart, TypeOK, Run
<1>2. ~Ended(row[j]) /\ LeaseOwned(j, w, x.attempt)'
  <2>1. Ended(row[j]) => row'[j].status \in {row[j].status, "pruned"}
    BY <1>1, EndedStays DEF HolderStart
  <2>2. Held(j, w, x.attempt)'
    BY DEF RunsHold, Works
  <2> QED BY <2>1, <2>2 DEF Held, Ended
<1>3. CASE Begun(x)
  <2>1. ASSUME NEW p \in pending[w], p.copy.attempt = x.attempt, cache'[w][j] = p.copy
        PROVE  HoldsInMemory(w, j, x.attempt)'
    <3>1. p.copy \in Copy /\ p.copy.owner = w
      BY <1>1 DEF HolderStart, TypeOK, HolderInv, ClaimsHold
    <3> QED BY <2>1, <3>1, NoCopyIsNone DEF HoldsInMemory, Known
  <2> QED BY <1>3, <2>1 DEF Begun
<1>4. ASSUME NEW r \in runs, Origin(r, x)
      PROVE  HoldsInMemory(w, j, x.attempt)' /\ x.born = x.attempt
  <2>1. /\ Works(r) /\ r.proc = w /\ r.job = j
        /\ HoldsInMemory(w, j, x.attempt) /\ x.born = x.attempt
    BY <1>2, <1>4 DEF Origin, HolderStart, HolderInv, RunsRemember
  <2>2. cache[w][j] # NoCopy /\ cache[w][j].owner = w /\ cache[w][j].attempt = x.attempt
    BY <2>1 DEF HoldsInMemory, Known
  <2>3. CASE cache'[w][j] = cache[w][j]
    BY <2>1, <2>2, <2>3 DEF HoldsInMemory, Known
  <2>4. CASE cache'[w][j] # cache[w][j]
    <3>1. MemoryFate(w, j)
      BY <1>1 DEF HolderStart, Fate
    <3>2. Serving(w)'
      BY <1>1 DEF HolderStart, LifeInv, ProcSound
    <3>3. cache[w][j].status \notin Terminal
      BY <1>1, <1>2, <2>2 DEF HolderStart, CopiesSound, EndedCopies
    <3>4. \A p \in pending[w] : p.job # j
      BY <1>1, <2>1 DEF HolderStart, HolderInv, ClaimsIdle
    <3>5. GaveUp(cache[w][j], cache'[w][j]) \/ Mirrored(w, j)
      BY <2>4, <3>1, <3>2, <3>3, <3>4 DEF MemoryFate
    <3>6. row'[j].owner = w /\ row'[j].attempt = x.attempt /\ CopiesSound
      BY <1>2 DEF LeaseOwned, HolderStart
    <3>7. CASE GaveUp(cache[w][j], cache'[w][j])
      BY <2>1, <2>2, <3>7, GaveUpFields DEF HoldsInMemory, Known
    <3>8. CASE Mirrored(w, j)
      <4>1. /\ cache'[w][j] \in Copy /\ cache'[w][j].owner = w
            /\ cache'[w][j].attempt = x.attempt
        BY <2>2, <3>6, <3>8 DEF Mirrored
      <4> QED BY <2>1, <4>1, NoCopyIsNone DEF HoldsInMemory, Known
    <3> QED BY <3>5, <3>7, <3>8
  <2> QED BY <2>3, <2>4
<1> QED BY <1>3, <1>4, WorkerOrigin DEF Begun

LEMMA UpStep ==
    ASSUME ~Stalls, Sole, HolderStart
    PROVE  RunsUp'
<1>1. ASSUME NEW x \in runs', Works(x), proc'[x.proc] # "up" PROVE Ended(row'[x.job])
  <2>1. ~Begun(x)
    BY <1>1 DEF Begun
  <2>2. PICK r \in runs : Origin(r, x)
    BY <1>1, <2>1, WorkerOrigin
  <2>3. Works(r) /\ r.proc = x.proc /\ r.job = x.job /\ r.born = x.born
    BY <2>2 DEF Origin
  <2>4. Ended(row[r.job])
    <3>1. CASE proc[r.proc] # "up"
      BY <2>3, <3>1 DEF HolderStart, HolderInv, RunsUp
    <3>2. CASE proc[r.proc] = "up"
      <4>1. ~(Known(r.proc, r.job) /\ r.born = cache[r.proc][r.job].attempt)
        BY <1>1, <2>3, <3>2 DEF HolderStart, Onward, Spared, Works
      <4> QED BY <2>3, <4>1 DEF HolderStart, HolderInv, RunsRemember, HoldsInMemory
    <3> QED BY <3>1, <3>2
  <2>5. x.job \in Jobs
    BY DEF HolderStart, TypeOK, Run
  <2>6. row'[x.job].status \in {row[x.job].status, "pruned"}
    BY <2>3, <2>4, <2>5, EndedStays DEF HolderStart
  <2> QED BY <2>3, <2>4, <2>6 DEF Ended
<1> QED BY <1>1 DEF RunsUp, Works, Ended

LEMMA HolderStep ==
    ASSUME TypeOK, TypeOK', SlotInv, LifeInv, LifeInv', CopiesSound, HolderInv,
           ~Stalls, Sole, [Next]_vars
    PROVE  HolderInv'
<1>1. HolderStart
  BY FateStep, OnwardStep DEF HolderStart
<1> QED BY <1>1, OneWorkerStep, ClaimsStep, RunsStep, RememberStep, UpStep DEF HolderInv

LEMMA HolderInit == Init => HolderInv
BY DEF Init, HolderInv, RunsHold, RunsRemember, RunsUp, ClaimsHold, ClaimsAlone, ClaimsIdle,
   OneLiveWorker

\* As long as heartbeats are on time a job is never worked on twice at once, by one
\* process or by two: not after a crash, a restart, a recovery by another process, a
\* cancellation or a failed registration, nor by the process that follows a graceful
\* shutdown.  Several processes that are shut down gracefully are excluded: each also
\* gives back the leases it read from rows of the others.
THEOREM OneWorkerPerJob ==
    ASSUME ~Stalls, SingleInstance \/ ~Graceful
    PROVE  Spec => []OneLiveWorker
<1>1. Init => CopiesSound /\ HolderInv
  BY CopiesInit, HolderInit
<1>2. /\ TypeOK /\ TypeOK' /\ SlotInv /\ LifeInv /\ LifeInv'
      /\ CopiesSound /\ HolderInv /\ [Next]_vars
      => CopiesSound' /\ HolderInv'
  <2> SUFFICES ASSUME TypeOK, TypeOK', SlotInv, LifeInv, LifeInv', CopiesSound, HolderInv,
                      [Next]_vars
               PROVE  CopiesSound' /\ HolderInv'
    OBVIOUS
  <2>1. Fate
    BY FateStep
  <2>2. CopiesSound'
    BY <2>1, CopiesStep DEF Sole
  <2>3. HolderInv'
    BY HolderStep DEF Sole
  <2> QED BY <2>2, <2>3
<1>3. HolderInv => OneLiveWorker
  BY DEF HolderInv
<1> QED BY <1>1, <1>2, <1>3, CoreSound, PTL DEF Spec
-----------------------------------------------------------------------------
(* A shutdown leaves the jobs to the next process *)

\* A worker that was told to stop goes on until its call returns, or dies.
LEMMA ToldToStop ==
    ASSUME TypeOK, [Next]_vars, NEW r \in runs \ runs', r.at = "index", ~r.live
    PROVE  RunFinish(r) \/ UNCHANGED row
<1>1. r \in Run /\ r.live = FALSE
  BY DEF TypeOK, Run
<1>2. ASSUME NEW w, NEW js, runs' = WithCancelled(w, js) PROVE FALSE
  <2>1. [r EXCEPT !.live = FALSE] = r
    BY <1>1 DEF Run
  <2> QED BY <1>2, <2>1 DEF WithCancelled
<1>3. ASSUME NEW q \in runs, RunStep(q) \/ Heartbeat(q) \/ HeartbeatFault(q)
      PROVE  RunFinish(r)
  <2>1. q = r
    BY <1>3 DEF RunStep, RunCapture, RunStart, RunRejectDescriptor, RunFailRejected, RunFinish,
       Complete, RunExit, Heartbeat, HeartbeatFault, Replace
  <2> QED BY <1>3, <2>1 DEF RunStep, RunCapture, RunStart, RunRejectDescriptor, RunFailRejected,
          RunExit, Heartbeat, HeartbeatFault
<1>4. ASSUME NEW w \in Workers, ProcessStep(w) PROVE FALSE
  <2>1. CASE LinkRetry(w)
    BY <1>2, <2>1, LinkRetryIs DEF Relates, Loses
  <2>2. CASE RegisterClaim(w)
    BY <2>2 DEF RegisterClaim
  <2> QED BY <1>4, <2>1, <2>2
          DEF ProcessStep, RegisterUndo, ClaimRecoverable, ClearExpiredSlot, StartRecovered,
              ReleaseRecoverySlot, ReleaseLease, ShutdownSweep, ShutdownReadLease, ShutdownDone
<1>5. ASSUME NEW w \in Workers, Request(w) PROVE UNCHANGED row
  <2>1. CASE Crash(w)
    BY <2>1 DEF Crash
  <2>2. CASE Shutdown(w) \/ \E j \in Jobs : Cancel(w, j)
    BY <1>2, <2>2 DEF Shutdown, Cancel
  <2> QED BY <1>5, <2>1, <2>2 DEF Request, RegisterCreate, Load, Prune
<1> QED BY <1>3, <1>4, <1>5 DEF Next, Start, Tick, vars

\* A reindex job interrupted by ShutdownJobs is left to the next process, unless a client
\* asked for its end (an import job reports the error of the interrupted call).
THEOREM ShutdownLeavesJobs == ASSUME Imports = {} PROVE Spec => ShutdownKeepsJob
<1>1. ASSUME TypeOK, [Next]_vars, NEW r \in runs \ runs', r.at = "index", ~r.live,
             proc[r.proc] = "stopping", LeaseOwned(r.job, r.proc, r.attempt)
      PROVE  row'[r.job].status \notin {"failed", "cancelled"}
  <2>1. row[r.job].status \notin {"failed", "cancelled"} /\ r.job \in Jobs /\ r.proc \in Workers
    BY <1>1 DEF LeaseOwned, Active, TypeOK, Run
  <2>2. CASE RunFinish(r)
    <3>1. PICK status \in {"succeeded", "cancelled"} : Complete(r, status)
      BY <1>1, <2>2 DEF RunFinish, Outcomes
    <3>2. CASE UNCHANGED row
      BY <2>1, <3>2
    <3>3. CASE ~UNCHANGED row
      <4>1. /\ ~LeftToNext(r.proc, status)
            /\ \E c \in Copy, n \in Row : Written(r.job, c, n) /\ c.status = status
        BY <1>1, <3>1, <3>3, CompleteIs DEF Terminal
      <4>2. status = "succeeded"
        BY <1>1, <3>1, <4>1 DEF LeftToNext
      <4> QED BY <2>1, <4>1, <4>2 DEF Written
    <3> QED BY <3>2, <3>3
  <2> QED BY <1>1, <2>1, <2>2, ToldToStop
<1>2. TypeOK /\ [Next]_vars =>
      [\A r \in runs \ runs' :
          /\ r.at = "index" /\ ~r.live
          /\ proc[r.proc] = "stopping"
          /\ LeaseOwned(r.job, r.proc, r.attempt)
          => \/ row'[r.job].status \notin {"failed", "cancelled"}
             \/ r.job \in asked]_vars
  BY <1>1
<1> QED BY <1>2, TypeCorrect, PTL DEF Spec, ShutdownKeepsJob
-----------------------------------------------------------------------------
(* A failed job has one child *)

\* Process w has the copy d of job j: in memory, or in a claim or a release under way.
Carries(w, j, d) ==
    /\ d \in Copy
    /\ \/ cache[w][j] = d
       \/ \E p \in pending[w] \cup releasing[w] : p.job = j /\ p.copy = d
\* d says of job j what its row says after the step.
Tells(j, d) ==
    /\ Exists(j)' /\ d.status = row'[j].status
    /\ d.parent = row'[j].parent /\ d.retries = row'[j].retries

\* What a step that links no retry may make of the parent and the retries of a row:
\* the row goes, is inserted, keeps them, or is written from a copy.
Removed(j) ==
    /\ row'[j].status = "pruned"
    /\ \/ row[j].status \in Terminal /\ j \notin Protected
       \/ \E w \in Workers : \E c \in creating[w] : c.job = j
Founded(j) ==
    row[j].status = "absent" /\ row'[j].parent = Null /\ row'[j].retries = 0
Upheld(r, r2) ==
    /\ r2.parent = r.parent /\ r2.retries = r.retries /\ r2.retryable = r.retryable
    /\ r.status = "absent" => r2.status = "absent"
    /\ r2.status = "pruned" => r.status = "pruned"
Writes(w, j) ==
    \E d \in Copy :
        /\ Carries(w, j, d) /\ Owns(j, d.owner, d.attempt)
        /\ d.owner = Null => d.status \in Active
        /\ row'[j].parent = d.parent /\ row'[j].retries = d.retries
        /\ row'[j].status # "pruned"
        /\ \/ d = cache[w][j]
           \/ /\ row'[j].owner = Null
              /\ \/ cache'[w][j] = NoCopy \/ cache'[w][j].status \in Terminal
                 \/ cache'[w][j].parent = d.parent
RowLine(j) ==
    \/ Removed(j) \/ Founded(j) \/ Upheld(row[j], row'[j])
    \/ \E w \in Workers : Writes(w, j)
MemoryLine(w, j) ==
    \/ cache'[w][j] \in {NoCopy, cache[w][j]} \/ GaveUp(cache[w][j], cache'[w][j])
    \/ \E p \in pending[w] : /\ p.job = j /\ cache'[w][j] = p.copy
                             /\ releasing'[w] = {}
    \/ Tells(j, cache'[w][j])
\* A request is opened, becomes the link of its retry, or is dropped.
Opens(w, c) ==
    /\ row[c.job].status = "absent" /\ row'[c.job].status # "absent"
    /\ c.parent # Null =>
          /\ cache[w][c.parent] \in Copy /\ cache[w][c.parent].status = "failed"
          /\ cache[w][c.parent].retries < MaxRetries
          /\ c.count = cache[w][c.parent].retries + 1
RequestLine(w) ==
    \/ creating'[w] \subseteq creating[w] /\ links'[w] \subseteq links[w]
    \/ /\ creating'[w] = {}
       /\ \E c \in creating[w] : c.parent # Null /\ links'[w] = links[w] \cup
             {[parent |-> c.parent, child |-> c.job, count |-> c.count]}
    \/ links'[w] = links[w] /\ \E c : creating'[w] = {c} /\ Opens(w, c)
Line ==
    /\ \A j \in Jobs : RowLine(j)
    /\ \A w \in Workers, j \in Jobs : MemoryLine(w, j)
    /\ \A w \in Workers : RequestLine(w)
\* The step that does link one.
Linking(w, l) ==
    /\ l \in links[w] /\ links' = [links EXCEPT ![w] = @ \ {l}] /\ Relates(w, l)
    /\ UNCHANGED <<creating, pending, releasing>>

LEMMA LineRows ==
    ASSUME \A j \in Jobs : RowLine(j), UNCHANGED <<cache, creating, links>>
    PROVE  Line
BY DEF Line, MemoryLine, RequestLine

LEMMA LineSame ==
    ASSUME UNCHANGED <<row, creating, links>>,
           \A w \in Workers, j \in Jobs : MemoryLine(w, j)
    PROVE  Line
BY DEF Line, RowLine, Upheld, RequestLine

\* Steps that write row k, and the copy of process w with it, from a copy d.
LEMMA LineWritten ==
    ASSUME TypeOK, NEW w \in Workers, NEW k \in Jobs, NEW d \in Copy, NEW c, NEW n,
           Carries(w, k, d), Owns(k, d.owner, d.attempt),
           d.owner = Null => d.status \in Active,
           Written(k, c, n), Derived(d, c),
           \/ d = cache[w][k] /\ Cached(w, k, c)
           \/ /\ n.owner = Null
              /\ \/ Cached(w, k, c)
                 \/ /\ UNCHANGED cache
                    /\ cache[w][k] = NoCopy \/ cache[w][k].status \in Terminal,
           UNCHANGED <<creating, links>>
    PROVE  Line
<1>1. row'[k] = n /\ \A j \in Jobs : j # k => row'[j] = row[j]
  BY DEF Written
<1>2. /\ n.parent = d.parent /\ n.retries = d.retries /\ c \in Copy
      /\ c.status = n.status /\ c.parent = n.parent /\ c.retries = n.retries
  BY DEF Written, Derived
<1>3. Exists(k)'
  BY <1>1, <1>2, NoCopyIsNone DEF Exists, Active, Terminal
<1>4. Writes(w, k)
  BY <1>1, <1>2, <1>3 DEF Writes, Cached, Exists
<1>5. \A j \in Jobs : RowLine(j)
  BY <1>1, <1>4 DEF RowLine, Upheld
<1>6. Cached(w, k, c) => Tells(k, cache'[w][k])
  BY <1>1, <1>2, <1>3 DEF Cached, Tells
<1>7. \A v \in Workers, j \in Jobs : MemoryLine(v, j)
  BY <1>6 DEF MemoryLine, Cached
<1> QED BY <1>5, <1>7 DEF Line, RequestLine

LEMMA LineRun ==
    ASSUME TypeOK, SlotInv, NEW r \in runs,
           RunStart(r) \/ \E status \in Terminal : Complete(r, status)
    PROVE  Line
<1> DEFINE w == r.proc
           k == r.job
           old == cache[w][k]
<1>1. w \in Workers /\ k \in Jobs /\ UNCHANGED <<creating, links>>
  BY DEF TypeOK, Run, RunStart, Complete
<1>2. CASE UNCHANGED <<row, cache>>
  BY <1>1, <1>2, LineSame DEF MemoryLine
<1>3. CASE ~UNCHANGED <<row, cache>>
  <2>1. /\ HoldsInMemory(w, k, r.attempt) /\ Owns(k, w, r.attempt)
        /\ \E c \in Copy, n \in Row :
              Written(k, c, n) /\ Cached(w, k, c) /\ Derived(old, c)
    <3>1. CASE RunStart(r)
      BY <1>3, <3>1, RunStartIs
    <3>2. CASE \E status \in Terminal : Complete(r, status)
      <4>1. PICK status \in Terminal : Complete(r, status)
        BY <3>2
      <4> QED BY <1>3, <4>1, CompleteIs
    <3> QED BY <3>1, <3>2
  <2>2. old \in Copy /\ old.owner = w /\ old.attempt = r.attempt /\ w # Null
    BY <1>1, <2>1, JobConstants DEF TypeOK, HoldsInMemory, Known
  <2>3. Carries(w, k, old) /\ Owns(k, old.owner, old.attempt)
    BY <2>1, <2>2 DEF Carries
  <2>4. PICK c \in Copy, n \in Row : Written(k, c, n) /\ Cached(w, k, c) /\ Derived(old, c)
    BY <2>1
  <2> QED BY <1>1, <2>2, <2>3, <2>4, LineWritten
<1> QED BY <1>2, <1>3

LEMMA LineRejectDescriptor ==
    ASSUME TypeOK, NEW r \in runs, RunRejectDescriptor(r)
    PROVE  Line
<1>1. UNCHANGED <<row, creating, links>>
  BY DEF RunRejectDescriptor
<1> QED BY <1>1, RejectedCopy, LineSame DEF MemoryLine

LEMMA LineCancel ==
    ASSUME TypeOK, NEW w \in Workers, NEW k \in Jobs, Cancel(w, k)
    PROVE  Line
<1>1. /\ cache[w][k] \in Copy /\ cache[w][k].status \in Active
      /\ Owns(k, cache[w][k].owner, cache[w][k].attempt)
      /\ \E c \in Copy, n \in Row :
            Written(k, c, n) /\ Cached(w, k, c) /\ Derived(cache[w][k], c)
  BY CancelIs
<1>2. Carries(w, k, cache[w][k]) /\ UNCHANGED <<creating, links>>
  BY <1>1 DEF Carries, Cancel
<1> QED BY <1>1, <1>2, LineWritten

LEMMA LineReleaseLease ==
    ASSUME TypeOK, SlotInv, NEW w \in Workers, ReleaseLease(w)
    PROVE  Line
<1>1. UNCHANGED <<creating, links>>
  BY DEF ReleaseLease
<1>2. PICK p \in releasing[w] :
        /\ p.job \in Jobs /\ p.copy \in Copy
        /\ \/ UNCHANGED <<row, cache, toRelease>>
           \/ /\ Owns(p.job, p.copy.owner, p.copy.attempt)
              /\ \E c \in Copy, n \in Row :
                    /\ Written(p.job, c, n) /\ Derived(p.copy, c)
                    /\ GivenUp(n)
                    /\ \/ Cached(w, p.job, c)
                       \/ /\ UNCHANGED cache
                          /\ \/ cache[w][p.job] = NoCopy
                             \/ cache[w][p.job].status \in Terminal
  BY ReleaseLeaseIs
<1>3. CASE UNCHANGED <<row, cache, toRelease>>
  BY <1>1, <1>3, LineSame DEF MemoryLine
<1>4. CASE ~UNCHANGED <<row, cache, toRelease>>
  <2>1. p.copy.owner # Null
    BY <1>2, NoCopyIsNone DEF SlotInv, LeasesSound, ReleasingLeases, ItemSound
  <2>2. Carries(w, p.job, p.copy)
    BY <1>2 DEF Carries
  <2>3. PICK c \in Copy, n \in Row :
           /\ Written(p.job, c, n) /\ Derived(p.copy, c) /\ n.owner = Null
           /\ \/ Cached(w, p.job, c)
              \/ /\ UNCHANGED cache
                 /\ \/ cache[w][p.job] = NoCopy
                    \/ cache[w][p.job].status \in Terminal
    BY <1>2, <1>4 DEF GivenUp
  <2> QED BY <1>1, <1>2, <1>4, <2>1, <2>2, <2>3, LineWritten
<1> QED BY <1>3, <1>4

LEMMA LineRead ==
    ASSUME NEW j \in Jobs, Exists(j), UNCHANGED row
    PROVE  Tells(j, CopyOf(row[j]))
BY DEF Tells, Exists, CopyOf

LEMMA LineMemory ==
    ASSUME TypeOK, LifeInv, NEW w \in Workers,
           \/ Start(w) \/ (\E j \in Jobs : Load(w, j)) \/ StartRecovered(w)
    PROVE  Line
<1>1. UNCHANGED <<row, creating, links>>
  BY DEF Start, Load, StartRecovered
<1>2. CASE Start(w)
  <2>1. \A v \in Workers, j \in Jobs :
           cache'[v][j] = IF v # w THEN cache[v][j]
                          ELSE IF Exists(j) THEN CopyOf(row[j]) ELSE NoCopy
    BY <1>2 DEF TypeOK, Start
  <2> QED BY <1>1, <2>1, LineRead, LineSame DEF MemoryLine
<1>3. ASSUME NEW k \in Jobs, Load(w, k) PROVE Line
  <2>1. Exists(k) /\ \A v \in Workers, j \in Jobs :
           cache'[v][j] = cache[v][j] \/ (j = k /\ cache'[v][j] = CopyOf(row[k]))
    BY <1>3 DEF TypeOK, Load
  <2> QED BY <1>1, <2>1, LineRead, LineSame DEF MemoryLine
<1>4. CASE StartRecovered(w)
  <2>1. PICK p \in pending[w] : cache' = [cache EXCEPT ![w][p.job] = p.copy]
    BY <1>4 DEF StartRecovered
  <2>2. releasing'[w] = {}
    BY <1>4, <2>1 DEF LifeInv, ProcSound, StartRecovered
  <2>3. \A v \in Workers, j \in Jobs :
           cache'[v][j] = cache[v][j] \/ (v = w /\ j = p.job /\ cache'[v][j] = p.copy)
    BY <2>1 DEF TypeOK
  <2> QED BY <1>1, <2>2, <2>3, LineSame DEF MemoryLine
<1> QED BY <1>2, <1>3, <1>4

LEMMA LineForget ==
    ASSUME TypeOK, NEW w \in Workers, Crash(w) \/ ShutdownDone(w)
    PROVE  Line
<1>1. UNCHANGED row
  BY DEF Crash, ShutdownDone
<1>2. \A v \in Workers :
        /\ creating'[v] \subseteq creating[v] /\ links'[v] \subseteq links[v]
        /\ \A j \in Jobs : cache'[v][j] = IF v = w THEN NoCopy ELSE cache[v][j]
  <2>1. CASE Crash(w)
    BY <2>1 DEF TypeOK, Crash
  <2>2. CASE ShutdownDone(w)
    BY <2>2 DEF TypeOK, ShutdownDone
  <2> QED BY <2>1, <2>2
<1> QED BY <1>1, <1>2 DEF Line, RowLine, Upheld, MemoryLine, RequestLine

LEMMA LineClaims ==
    ASSUME NEW w \in Workers, NEW k, NEW n, Claims(w, k, n)
    PROVE  (\A j \in Jobs : RowLine(j)) /\ Tells(k, CopyOf(n)) /\ row'[k] = n
<1>1. row'[k] = n /\ \A j \in Jobs : j # k => row'[j] = row[j]
  BY DEF Claims
<1>2. Upheld(row[k], n)
  BY DEF Claims, Claimable, Active, Upheld
<1>3. Tells(k, CopyOf(n))
  BY <1>1 DEF Claims, Tells, CopyOf, Exists
<1>4. \A j \in Jobs : Upheld(row[j], row'[j])
  BY <1>1, <1>2 DEF Upheld
<1> QED BY <1>1, <1>3, <1>4 DEF RowLine

LEMMA LineRegisterClaim ==
    ASSUME TypeOK, NEW w \in Workers, RegisterClaim(w)
    PROVE  Line
<1>1. PICK c \in creating[w] : \E n, gone : Registers(w, c, n, gone)
  BY RegisterClaimIs
<1>2. PICK n, gone : Registers(w, c, n, gone)
  BY <1>1
<1>3. (\A j \in Jobs : RowLine(j)) /\ Tells(c.job, CopyOf(n))
  BY <1>2, LineClaims DEF Registers
<1>4. \A v \in Workers, j \in Jobs : MemoryLine(v, j)
  BY <1>2, <1>3 DEF Registers, MemoryLine
<1>5. /\ links' = [links EXCEPT ![w] = IF c.parent = Null THEN @ ELSE @ \cup
              {[parent |-> c.parent, child |-> c.job, count |-> c.count]}]
      /\ creating' = [creating EXCEPT ![w] = {}]
  BY <1>2 DEF Registers
<1>6. \A v \in Workers : RequestLine(v)
  <2>1. ASSUME NEW v \in Workers, v # w PROVE RequestLine(v)
    BY <1>5, <2>1 DEF TypeOK, RequestLine
  <2>2. CASE c.parent = Null
    BY <1>5, <2>2 DEF TypeOK, RequestLine
  <2>3. CASE c.parent # Null
    BY <1>5, <2>3 DEF TypeOK, RequestLine
  <2>4. RequestLine(w)
    BY <2>2, <2>3
  <2> QED BY <2>1, <2>4
<1> QED BY <1>3, <1>4, <1>6 DEF Line

LEMMA LineClaimRecoverable ==
    ASSUME TypeOK, NEW w \in Workers, ClaimRecoverable(w)
    PROVE  Line
<1>1. PICK k \in Jobs, n \in Row : Claims(w, k, n) /\ UNCHANGED <<cache, creating, links>>
  BY ClaimRecoverableIs
<1> QED BY <1>1, LineClaims, LineRows

LEMMA LineRegisterCreate ==
    ASSUME TypeOK, NEW w \in Workers, NEW k \in Jobs, NEW parent \in Jobs \cup {Null},
           RegisterCreate(w, k, parent)
    PROVE  Line
<1> DEFINE new == [NoRow EXCEPT !.status = "queued", !.retryable = TRUE, !.resumable = TRUE]
           c == [job |-> k, parent |-> parent,
                 count |-> IF parent = Null THEN 0 ELSE cache[w][parent].retries + 1]
<1>1. new.status = "queued" /\ new.parent = Null /\ new.retries = 0
  BY DEF NoRow
<1>2. /\ row[k].status = "absent" /\ row' = [row EXCEPT ![k] = new]
      /\ creating[w] = {} /\ creating' = [creating EXCEPT ![w] = {c}]
      /\ UNCHANGED <<cache, links>>
      /\ parent # Null => Retryable(w, parent)
  BY DEF RegisterCreate
<1> HIDE DEF new
<1>3. row'[k] = new /\ \A j \in Jobs : j # k => row'[j] = row[j]
  BY <1>2 DEF TypeOK
<1>4. \A j \in Jobs : RowLine(j)
  BY <1>1, <1>2, <1>3 DEF RowLine, Founded, Upheld
<1>5. /\ c.job = k /\ c.parent = parent
      /\ parent # Null => c.count = cache[w][parent].retries + 1
  OBVIOUS
<1> HIDE DEF c
<1>6. Opens(w, c)
  <2>1. parent # Null => cache[w][parent] \in Copy
    BY <1>2 DEF Retryable, Known, TypeOK
  <2> QED BY <1>1, <1>2, <1>3, <1>5, <2>1 DEF Opens, Retryable
<1>7. \A v \in Workers : RequestLine(v)
  BY <1>2, <1>6 DEF TypeOK, RequestLine
<1> QED BY <1>2, <1>4, <1>7 DEF Line, MemoryLine

LEMMA LineRegisterUndo ==
    ASSUME TypeOK, NEW w \in Workers, RegisterUndo(w)
    PROVE  Line
<1>1. Deleted.status = "pruned"
  BY DEF Deleted, NoRow
<1>2. PICK c \in creating[w] : /\ row' = [row EXCEPT ![c.job] = Deleted] \/ UNCHANGED row
                               /\ creating' = [creating EXCEPT ![w] = {}]
                               /\ UNCHANGED <<cache, links>>
  BY DEF RegisterUndo
<1>3. \A j \in Jobs : row'[j] = row[j] \/ (j = c.job /\ row'[j] = Deleted)
  BY <1>2 DEF TypeOK
<1>4. \A j \in Jobs : RowLine(j)
  BY <1>1, <1>2, <1>3 DEF RowLine, Removed, Upheld
<1>5. \A v \in Workers : RequestLine(v)
  BY <1>2 DEF TypeOK, RequestLine
<1> QED BY <1>2, <1>4, <1>5 DEF Line, MemoryLine

LEMMA LinePrune ==
    ASSUME TypeOK, NEW w \in Workers, Prune(w)
    PROVE  Line
<1>1. Deleted.status = "pruned"
  BY DEF Deleted, NoRow
<1>2. \A j \in Jobs : \/ row'[j] = row[j]
                      \/ /\ row'[j] = Deleted
                         /\ row[j].status \in Terminal /\ j \notin Protected
  BY DEF TypeOK, Prune
<1>3. \A j \in Jobs : RowLine(j)
  BY <1>1, <1>2 DEF RowLine, Removed, Upheld
<1> QED BY <1>3, LineRows DEF Prune

LEMMA LineTime ==
    ASSUME TypeOK, Tick \/ \E r \in runs : Heartbeat(r)
    PROVE  Line
<1>1. ASSUME NEW r \in Row, NEW n PROVE Upheld(r, [r EXCEPT !.ttl = n])
  BY <1>1 DEF Row, Upheld
<1>2. \A j \in Jobs : row'[j] = row[j] \/ \E n : row'[j] = [row[j] EXCEPT !.ttl = n]
  <2>1. CASE Tick
    BY <2>1 DEF Tick
  <2>2. ASSUME NEW r \in runs, Heartbeat(r)
        PROVE  \A j \in Jobs : row'[j] = row[j] \/ \E n : row'[j] = [row[j] EXCEPT !.ttl = n]
    <3>1. \/ UNCHANGED row
          \/ \A j \in Jobs : \/ row'[j] = row[j]
                             \/ row'[j] = [row[j] EXCEPT !.ttl = LeaseTicks]
      BY <2>2 DEF TypeOK, Run, Heartbeat
    <3> QED BY <3>1
  <2> QED BY <2>1, <2>2
<1>3. ASSUME NEW j \in Jobs PROVE Upheld(row[j], row'[j])
  <2>1. row[j] \in Row
    BY DEF TypeOK
  <2>2. CASE row'[j] = row[j]
    BY <2>2 DEF Upheld
  <2>3. ASSUME NEW n, row'[j] = [row[j] EXCEPT !.ttl = n] PROVE Upheld(row[j], row'[j])
    BY <1>1, <2>1, <2>3
  <2> QED BY <1>2, <2>2, <2>3
<1> QED BY <1>3, LineRows DEF RowLine, Tick, Heartbeat

LEMMA LineLinkRetry ==
    ASSUME TypeOK, NEW w \in Workers, LinkRetry(w)
    PROVE  Line \/ \E l \in links[w] : Linking(w, l)
<1>1. PICK l \in links[w] : /\ links' = [links EXCEPT ![w] = @ \ {l}]
                            /\ Relates(w, l) \/ Loses(w, l)
  BY LinkRetryIs
<1>2. UNCHANGED <<creating, pending, releasing>>
  BY LinkRetryIs
<1>3. CASE Relates(w, l)
  BY <1>1, <1>2, <1>3 DEF Linking
<1>4. CASE Loses(w, l)
  BY <1>1, <1>2, <1>4 DEF TypeOK, Loses, Line, RowLine, Upheld, MemoryLine, RequestLine
<1> QED BY <1>1, <1>3, <1>4

LEMMA LineStep ==
    ASSUME TypeOK, SlotInv, LifeInv, [Next]_vars
    PROVE  Line \/ \E w \in Workers : \E l \in links[w] : Linking(w, l)
<1>1. ASSUME UNCHANGED <<row, cache, creating, links>> PROVE Line
  BY <1>1, LineSame DEF MemoryLine
<1>2. ASSUME NEW w \in Workers, Start(w) \/ ProcessStep(w) \/ Request(w)
      PROVE  Line \/ \E l \in links[w] : Linking(w, l)
  <2>1. CASE \/ ClearExpiredSlot(w) \/ ReleaseRecoverySlot(w) \/ ShutdownReadLease(w)
             \/ Shutdown(w) \/ ShutdownSweep(w)
    BY <1>1, <2>1 DEF ClearExpiredSlot, ReleaseRecoverySlot, ShutdownReadLease, Shutdown,
       ShutdownSweep
  <2>2. CASE ProcessStep(w)
    BY <2>1, <2>2, LineRegisterClaim, LineRegisterUndo, LineLinkRetry, LineClaimRecoverable,
       LineMemory, LineReleaseLease, LineForget DEF ProcessStep
  <2>3. CASE Request(w)
    BY <2>1, <2>3, LineRegisterCreate, LineMemory, LineCancel, LineForget, LinePrune DEF Request
  <2> QED BY <1>2, <2>2, <2>3, LineMemory
<1>3. ASSUME NEW r \in runs, RunStep(r) \/ Heartbeat(r) \/ HeartbeatFault(r)
      PROVE  Line
  <2>1. CASE RunCapture(r) \/ RunExit(r) \/ HeartbeatFault(r)
    BY <1>1, <2>1 DEF RunCapture, RunExit, HeartbeatFault
  <2>2. CASE RunFailRejected(r) \/ RunFinish(r)
    <3>1. \E status \in Terminal : Complete(r, status)
      BY <2>2 DEF RunFailRejected, RunFinish, Outcomes, Terminal
    <3> QED BY <3>1, LineRun
  <2> QED BY <1>3, <2>1, <2>2, LineRun, LineRejectDescriptor, LineTime DEF RunStep
<1>4. CASE UNCHANGED vars
  BY <1>1, <1>4 DEF vars
<1> QED BY <1>2, <1>3, <1>4, LineTime DEF Next

\* Job c is a child of p with n retries: its row says so, or a copy some process has.
Named(c, p, n) ==
    \/ Exists(c) /\ row[c].parent = p /\ row[c].retries = n
    \/ \E w \in Workers, d \in Copy :
          Carries(w, c, d) /\ d.parent = p /\ d.retries = n
Parentless(j) == \A k \in Jobs, n \in Nat : ~Named(j, k, n)
Unnamed(j)    == Parentless(j) /\ \A k \in Jobs, n \in Nat : ~Named(k, j, n)
\* A retry with n retries of the failed job p: it counts at most one more than p has, ...
Counted(p, n) ==
    n \in 1..MaxRetries /\ (row[p].status = "failed" => n <= row[p].retries + 1)
\* ... and no further one will count the same.
Used(p, n) ==
    \/ row[p].status = "pruned"
    \/ row[p].status = "failed" /\ (row[p].retryable => n <= row[p].retries)

OnlyChild ==
    \A c1, c2, p \in Jobs, n \in Nat :
        Named(c1, p, n) /\ Named(c2, p, n) => c1 = c2
ParentsUsed ==
    \A c, p \in Jobs, n \in Nat : Named(c, p, n) => Used(p, n) /\ Counted(p, n)
\* A job without a parent has no retries.
RootsFirst ==
    /\ \A j \in Jobs : Exists(j) /\ row[j].parent = Null => row[j].retries = 0
    /\ \A w \in Workers, j \in Jobs, d \in Copy :
          Carries(w, j, d) /\ d.parent = Null => d.retries = 0
\* A retry still to be linked: its child is nobody's child yet, and no other link waits
\* for it.  (Its child may be a failed job that is itself being retried.)
LinksOpen ==
    \A w \in Workers : \A l \in links[w] :
        /\ Parentless(l.child) /\ row[l.child].status # "absent" /\ l.parent # l.child
        /\ Ended(row[l.parent]) /\ Counted(l.parent, l.count)
        /\ \A m \in links[w] : m.child = l.child => m = l
CreatedNew ==
    \A w \in Workers : \A c \in creating[w] :
        /\ Unnamed(c.job) /\ row[c.job].status # "absent" /\ c.parent # c.job
        /\ \A l \in links[w] : l.child # c.job /\ l.parent # c.job
        /\ c.parent # Null => Ended(row[c.parent]) /\ Counted(c.parent, c.count)
\* Nobody has a copy of a job that was never inserted.
Unborn ==
    \A w \in Workers, j \in Jobs, d \in Copy : Carries(w, j, d) => row[j].status # "absent"
FailedAlike ==
    \A w \in Workers, j \in Jobs :
        cache[w][j] # NoCopy /\ cache[w][j].status = "failed" =>
            \/ row[j].status = "pruned"
            \/ row[j].status = "failed" /\ row[j].retries = cache[w][j].retries
\* The inductive strengthening of RetryOnce.
FamilyInv == /\ OnlyChild /\ ParentsUsed /\ RootsFirst /\ LinksOpen /\ CreatedNew
             /\ Unborn /\ FailedAlike

LEMMA RequestTypes ==
    ASSUME TypeOK, NEW w \in Workers
    PROVE  /\ \A l \in links[w] : l.parent \in Jobs /\ l.child \in Jobs /\ l.count \in Nat
           /\ \A c \in creating[w] :
                 c.job \in Jobs /\ c.parent \in Jobs \cup {Null} /\ c.count \in Nat
BY DEF TypeOK

\* One process at a time: whatever is at work is so in the same process.
LEMMA OneServes ==
    ASSUME TypeOK, LifeInv, SingleInstance, NEW v \in Workers, NEW w \in Workers, v # w,
           links[w] # {}
    PROVE  /\ links[v] = {} /\ creating[v] = {} /\ \A j \in Jobs : cache[v][j] = NoCopy
           /\ pending[v] = {} /\ releasing[v] = {}
<1>1. Serving(w) /\ ~Serving(v)
  BY AtWork DEF LifeInv
<1> QED BY <1>1, AtWork DEF Serving

LEMMA LinkingRows ==
    ASSUME TypeOK, NEW w \in Workers, NEW l \in links[w], Linking(w, l)
    PROVE  /\ Consumable(l) /\ l.parent \in Jobs /\ l.child \in Jobs /\ l.count \in Nat
           /\ \A j \in Jobs :
                 /\ row'[j].status = row[j].status /\ (Exists(j)' <=> Exists(j))
                 /\ j # l.child => /\ row'[j].parent = row[j].parent
                                   /\ row'[j].retries = row[j].retries
                 /\ j \notin {l.parent, l.child} => row'[j] = row[j]
           /\ l.parent # l.child => row'[l.parent].retryable = FALSE
           /\ row'[l.child].parent = l.parent /\ row'[l.child].retries = l.count
           /\ Exists(l.child)
<1>1. Relates(w, l) /\ l.parent \in Jobs /\ l.child \in Jobs /\ l.count \in Nat
  BY RequestTypes DEF Linking
<1> QED BY <1>1 DEF Relates, SameLease, Exists

LEMMA LinkingMemory ==
    ASSUME TypeOK, NEW w \in Workers, NEW l \in links[w], Linking(w, l),
           NEW v \in Workers, NEW j \in Jobs
    PROVE  cache'[v][j] = cache[v][j] \/ Tells(j, cache'[v][j])
<1>1. cache'[v][j] = IF v = w /\ j \in {l.parent, l.child}
                     THEN Refreshed(cache[w][j], row'[j]) ELSE cache[v][j]
  BY DEF Linking, Relates
<1>2. j \in {l.parent, l.child} => Exists(j)'
  BY LinkingRows DEF Consumable, Exists
<1>3. LET c == Refreshed(cache[w][j], row'[j]) IN
        c.status = row'[j].status /\ c.parent = row'[j].parent /\ c.retries = row'[j].retries
  BY DEF Refreshed, CopyOf
<1> QED BY <1>1, <1>2, <1>3 DEF Tells

\* d says what the copy e said, but that the descriptor may have been rejected.
Alike(e, d) == e = d \/ GaveUp(e, d)

\* A copy some process has after a step it had before, or it reads the new row.
LEMMA CopiesStay ==
    ASSUME TypeOK, TypeOK', Fate, [Next]_vars,
           Line \/ \E w \in Workers : \E l \in links[w] : Linking(w, l),
           NEW v \in Workers, NEW j \in Jobs, NEW d \in Copy, Carries(v, j, d)'
    PROVE  (\E e \in Copy : Carries(v, j, e) /\ Alike(e, d)) \/ Tells(j, d)
<1>1. CASE Carries(v, j, d)
  BY <1>1 DEF Alike
<1>2. CASE cache'[v][j] = d
  <2>1. CASE Line
    <3>1. MemoryLine(v, j) /\ d # NoCopy
      BY <2>1, NoCopyIsNone DEF Line
    <3>2. CASE GaveUp(cache[v][j], d)
      <4>1. PICK e \in Copy : e = cache[v][j] /\ GaveUp(e, d)
        BY <3>2 DEF GaveUp
      <4> QED BY <4>1 DEF Carries, Alike
    <3> QED BY <1>1, <1>2, <3>1, <3>2 DEF MemoryLine, Carries
  <2> QED BY <1>1, <1>2, <2>1, LinkingMemory DEF Carries
<1>3. ASSUME NEW p \in pending'[v], p.job = j, p.copy = d
      PROVE  Carries(v, j, d) \/ Tells(j, d)
  <2>1. CASE p \in pending[v]
    BY <1>3, <2>1 DEF Carries
  <2>2. CASE p \notin pending[v]
    <3>1. d = CopyOf(row'[j]) /\ d.status \in {"queued"}
      BY <1>3, <2>2 DEF Fate, RestFate
    <3>2. d.status = row'[j].status /\ d.parent = row'[j].parent /\ d.retries = row'[j].retries
      BY <3>1 DEF CopyOf
    <3> QED BY <3>1, <3>2 DEF Tells, Exists
  <2> QED BY <2>1, <2>2
<1>4. ASSUME NEW p \in releasing'[v], p.job = j, p.copy = d
      PROVE  Carries(v, j, d)
  BY <1>4, ReleasesRead, NoCopyIsNone DEF Carries
<1> QED BY <1>1, <1>2, <1>3, <1>4 DEF Carries

\* A row written from a copy was active or cancelled.
LEMMA WrittenRow ==
    ASSUME TypeOK, SlotInv, CopiesSound, NEW w \in Workers, NEW j \in Jobs, Writes(w, j)
    PROVE  row[j].status \in Active \cup {"cancelled"}
<1>1. PICK d \in Copy : /\ Carries(w, j, d) /\ Owns(j, d.owner, d.attempt)
                        /\ d.owner = Null => d.status \in Active
  BY DEF Writes
<1>2. /\ row[j].attempt = d.attempt /\ Exists(j) /\ row[j].attempt \in Nat
      /\ d.owner # Null => row[j].status \in Active
  BY <1>1, OwnedRow DEF Row
<1>3. CASE d.owner = Null
  <2>1. \A p \in pending[w] \cup releasing[w] : p.copy # d
    BY <1>3, NoCopyIsNone
       DEF SlotInv, LeasesSound, PendingLeases, ReleasingLeases, ItemSound
  <2>2. cache[w][j] = d /\ d # NoCopy
    BY <1>1, <2>1, NoCopyIsNone DEF Carries
  <2>3. FreeSound(row[j], d)
    BY <1>1, <1>3, <2>2 DEF CopiesSound, FreeCopies
  <2> QED BY <1>2, <2>3 DEF FreeSound, Exists
<1> QED BY <1>2, <1>3

\* Without a link, families do not grow: who is named afterwards was named before.
LEMMA NamesStay ==
    ASSUME TypeOK, TypeOK', SlotInv, Fate, [Next]_vars, Line,
           NEW c \in Jobs, NEW p \in Jobs, NEW n \in Nat, Named(c, p, n)'
    PROVE  Named(c, p, n)
<1>1. Exists(c)' /\ row'[c].parent = p /\ row'[c].retries = n => Named(c, p, n)
  <2>1. SUFFICES ASSUME Exists(c)', row'[c].parent = p, row'[c].retries = n
                 PROVE  Named(c, p, n)
    OBVIOUS
  <2>2. RowLine(c) /\ RowFate(c) /\ p # Null
    BY JobConstants DEF Line, Fate
  <2>3. CASE Upheld(row[c], row'[c])
    <3>1. row[c].status # "absent"
      BY <2>1, <2>3 DEF Upheld, Exists
    <3>2. CASE row[c].status = "pruned"
      BY <2>1, <2>2, <3>2
         DEF SlotInv, RowsSound, RowSound, RowFate, Born, Kept, Taken, Claimable, Yielded,
             Exists, Active
    <3> QED BY <2>1, <2>3, <3>1, <3>2 DEF Upheld, Named, Exists
  <2>4. ASSUME NEW w \in Workers, Writes(w, c) PROVE Named(c, p, n)
    BY <2>1, <2>4 DEF Writes, Named
  <2> QED BY <2>1, <2>2, <2>3, <2>4 DEF RowLine, Removed, Founded, Exists
<1>2. ASSUME NEW w \in Workers, NEW d \in Copy, Carries(w, c, d)', d.parent = p, d.retries = n
      PROVE  Named(c, p, n)
  <2>1. (\E e \in Copy : Carries(w, c, e) /\ Alike(e, d)) \/ Tells(c, d)
    BY <1>2, CopiesStay
  <2> QED BY <1>1, <1>2, <2>1, GaveUpFields DEF Named, Tells, Alike
<1> QED BY <1>1, <1>2 DEF Named

\* A link adds its own child and parent.
LEMMA NamesLinked ==
    ASSUME TypeOK, TypeOK', Fate, [Next]_vars,
           NEW w \in Workers, NEW l \in links[w], Linking(w, l),
           NEW c \in Jobs, NEW p \in Jobs, NEW n \in Nat, Named(c, p, n)'
    PROVE  Named(c, p, n) \/ (c = l.child /\ p = l.parent /\ n = l.count)
<1>1. Exists(c)' /\ row'[c].parent = p /\ row'[c].retries = n
      => Named(c, p, n) \/ (c = l.child /\ p = l.parent /\ n = l.count)
  BY LinkingRows DEF Named
<1>2. ASSUME NEW v \in Workers, NEW d \in Copy, Carries(v, c, d)', d.parent = p, d.retries = n
      PROVE  Named(c, p, n) \/ (c = l.child /\ p = l.parent /\ n = l.count)
  <2>1. (\E e \in Copy : Carries(v, c, e) /\ Alike(e, d)) \/ Tells(c, d)
    BY <1>2, CopiesStay
  <2> QED BY <1>1, <1>2, <2>1, GaveUpFields DEF Named, Tells, Alike
<1> QED BY <1>1, <1>2 DEF Named

\* Ended rows stay, and failed ones say what they said.
LEMMA FailedStays ==
    ASSUME TypeOK, SlotInv, CopiesSound, Fate, Line, NEW j \in Jobs, Ended(row[j])
    PROVE  /\ row'[j].status \in {row[j].status, "pruned"}
           /\ row'[j].status = "failed" =>
                 row'[j].retries = row[j].retries /\ row'[j].retryable = row[j].retryable
<1>1. row'[j].status \in {row[j].status, "pruned"}
  BY EndedStays
<1>2. ASSUME row'[j].status = "failed" PROVE Upheld(row[j], row'[j])
  <2>1. row[j].status = "failed" /\ RowLine(j)
    BY <1>1, <1>2 DEF Line
  <2>2. \A w \in Workers : ~Writes(w, j)
    BY <2>1, WrittenRow DEF Active
  <2> QED BY <1>2, <2>1, <2>2 DEF RowLine, Removed, Founded
<1> QED BY <1>1, <1>2 DEF Upheld

LEMMA ConsumedStays ==
    ASSUME TypeOK, SlotInv, CopiesSound, Fate, Line, NEW p \in Jobs, NEW n, Ended(row[p])
    PROVE  /\ Ended(row'[p]) /\ (Counted(p, n) => Counted(p, n)')
           /\ Used(p, n) => Used(p, n)'
<1>1. row'[p].status \in {row[p].status, "pruned"}
  BY FailedStays
<1>2. row'[p].status = "failed" =>
         row'[p].retries = row[p].retries /\ row'[p].retryable = row[p].retryable
  BY FailedStays
<1> QED BY <1>1, <1>2 DEF Ended, Used, Counted, Terminal

\* A link only raises the retries of its child, which had none.
LEMMA ConsumedLinked ==
    ASSUME TypeOK, NEW w \in Workers, NEW l \in links[w], Linking(w, l), FamilyInv,
           NEW p \in Jobs, NEW n \in Nat
    PROVE  /\ Ended(row[p]) => Ended(row'[p])
           /\ Counted(p, n) => Counted(p, n)'
           /\ Used(p, n) /\ Counted(p, n) => Used(p, n)'
<1>1. row'[p].status = row[p].status
  BY LinkingRows
<1>2. CASE p # l.child
  <2>1. /\ row'[p].retries = row[p].retries
        /\ row'[p].retryable = FALSE \/ row'[p] = row[p]
    BY <1>2, LinkingRows
  <2> QED BY <1>1, <2>1 DEF Ended, Used, Counted
<1>3. CASE p = l.child
  <2>1. /\ Parentless(l.child) /\ l.count \in 1..MaxRetries /\ Exists(l.child)
        /\ row'[p].retries = l.count /\ row[p] \in Row
    BY <1>3, LinkingRows DEF FamilyInv, LinksOpen, Counted, TypeOK
  <2>2. row[p].parent = Null
    <3>1. row[p].parent \in Jobs => Named(p, row[p].parent, row[p].retries)
      BY <1>3, <2>1 DEF Named
    <3>2. row[p].retries \in Nat /\ row[p].parent \in Jobs \cup {Null}
      BY <2>1 DEF Row
    <3> QED BY <1>3, <2>1, <3>1, <3>2 DEF Parentless
  <2>3. row[p].retries = 0 /\ row[p].status # "pruned"
    BY <1>3, <2>1, <2>2 DEF FamilyInv, RootsFirst, Exists
  <2>4. l.count \in Nat /\ l.count >= 1
    BY <2>1, JobConstants
  <2> QED BY <1>1, <2>1, <2>3, <2>4 DEF Ended, Used, Counted
<1> QED BY <1>2, <1>3

LEMMA FamilyLine ==
    ASSUME TypeOK, TypeOK', SlotInv, LifeInv, CopiesSound, Fate, [Next]_vars, Line,
           FamilyInv
    PROVE  FamilyInv'
<1>1. OnlyChild'
  BY NamesStay DEF FamilyInv, OnlyChild
<1>2. ParentsUsed'
  <2>1. SUFFICES ASSUME NEW c \in Jobs, NEW p \in Jobs, NEW n \in Nat, Named(c, p, n)'
                 PROVE  Used(p, n)' /\ Counted(p, n)'
    BY DEF ParentsUsed
  <2>2. Used(p, n) /\ Counted(p, n)
    BY <2>1, NamesStay DEF FamilyInv, ParentsUsed
  <2>3. Ended(row[p])
    BY <2>2 DEF Used, Ended, Terminal
  <2> QED BY <2>2, <2>3, ConsumedStays
<1>3. Unborn'
  <2>1. SUFFICES ASSUME NEW w \in Workers, NEW j \in Jobs, NEW d \in Copy, Carries(w, j, d)',
                        row'[j].status = "absent"
                 PROVE  FALSE
    BY DEF Unborn
  <2>2. row[j].status = "absent"
    BY <2>1 DEF Fate, RowFate, Born, Kept, Taken, Yielded, Terminal
  <2>3. ~Tells(j, d)
    BY <2>1 DEF Tells, Exists
  <2> QED BY <2>1, <2>2, <2>3, CopiesStay DEF FamilyInv, Unborn
<1>10. RootsFirst'
  <2>1. ASSUME NEW j \in Jobs, Exists(j)', row'[j].parent = Null PROVE row'[j].retries = 0
    <3>1. RowLine(j) /\ RowFate(j)
      BY DEF Line, Fate
    <3>2. CASE Upheld(row[j], row'[j])
      <4>1. row[j].status = "pruned" => row'[j].status = "pruned"
        BY EndedStays DEF Ended
      <4> QED BY <2>1, <3>2, <4>1 DEF Upheld, Exists, FamilyInv, RootsFirst
    <3>3. ASSUME NEW w \in Workers, Writes(w, j) PROVE row'[j].retries = 0
      BY <2>1, <3>3 DEF Writes, FamilyInv, RootsFirst
    <3> QED BY <2>1, <3>1, <3>2, <3>3 DEF RowLine, Removed, Founded, Exists
  <2>2. ASSUME NEW w \in Workers, NEW j \in Jobs, NEW d \in Copy, Carries(w, j, d)',
               d.parent = Null
        PROVE  d.retries = 0
    <3>1. (\E e \in Copy : Carries(w, j, e) /\ Alike(e, d)) \/ Tells(j, d)
      BY <2>2, CopiesStay
    <3>2. CASE Tells(j, d)
      BY <2>1, <2>2, <3>2 DEF Tells
    <3>3. ASSUME NEW e \in Copy, Carries(w, j, e), Alike(e, d) PROVE d.retries = 0
      <4>1. e.parent = d.parent /\ e.retries = d.retries
        BY <3>3, GaveUpFields DEF Alike
      <4> QED BY <2>2, <3>3, <4>1 DEF FamilyInv, RootsFirst
    <3> QED BY <3>1, <3>2, <3>3
  <2> QED BY <2>1, <2>2 DEF RootsFirst
<1>4. FailedAlike'
  <2>1. SUFFICES ASSUME NEW w \in Workers, NEW j \in Jobs, cache'[w][j] # NoCopy,
                        cache'[w][j].status = "failed"
                 PROVE  \/ row'[j].status = "pruned"
                        \/ /\ row'[j].status = "failed"
                           /\ row'[j].retries = cache'[w][j].retries
    BY DEF FailedAlike
  <2>2. CASE cache'[w][j] = cache[w][j]
    <3>1. \/ row[j].status = "pruned"
          \/ row[j].status = "failed" /\ row[j].retries = cache[w][j].retries
      BY <2>1, <2>2 DEF FamilyInv, FailedAlike
    <3>2. Ended(row[j])
      BY <3>1 DEF Ended, Terminal
    <3> QED BY <2>2, <3>1, <3>2, FailedStays
  <2>3. \A p \in pending[w] : p.copy.status = "queued"
    BY DEF CopiesSound, ClaimedCopies
  <2>4. MemoryLine(w, j)
    BY DEF Line
  <2>5. CASE GaveUp(cache[w][j], cache'[w][j])
    <3>1. /\ cache[w][j] # NoCopy /\ cache[w][j].status = "failed"
          /\ cache'[w][j].retries = cache[w][j].retries
      BY <2>1, <2>5, GaveUpFields
    <3>2. \/ row[j].status = "pruned"
          \/ row[j].status = "failed" /\ row[j].retries = cache[w][j].retries
      BY <3>1 DEF FamilyInv, FailedAlike
    <3>3. Ended(row[j])
      BY <3>2 DEF Ended, Terminal
    <3> QED BY <3>1, <3>2, <3>3, FailedStays
  <2> QED BY <2>1, <2>2, <2>3, <2>4, <2>5 DEF MemoryLine, Tells
<1>5. ASSUME NEW j \in Jobs
      PROVE  (Unnamed(j) => Unnamed(j)') /\ (Parentless(j) => Parentless(j)')
  BY NamesStay DEF Unnamed, Parentless
<1>6. ASSUME NEW j \in Jobs, row[j].status # "absent" PROVE row'[j].status # "absent"
  BY <1>6 DEF Fate, RowFate, Born, Kept, Taken, Yielded, Terminal
<1>7. LinksOpen'
  <2>1. SUFFICES ASSUME NEW w \in Workers
                 PROVE  \A l \in links'[w] :
                           /\ Parentless(l.child)' /\ row'[l.child].status # "absent" /\ l.parent # l.child
                           /\ Ended(row'[l.parent]) /\ Counted(l.parent, l.count)'
                           /\ \A m \in links'[w] : m.child = l.child => m = l
    BY DEF LinksOpen, Ended
  <2>2. \A l \in links[w] :
           /\ l.parent \in Jobs /\ l.child \in Jobs
           /\ Parentless(l.child) /\ row[l.child].status # "absent" /\ l.parent # l.child
           /\ Ended(row[l.parent]) /\ Counted(l.parent, l.count)
           /\ \A m \in links[w] : m.child = l.child => m = l
    BY RequestTypes DEF FamilyInv, LinksOpen
  <2>3. \A l \in links[w] :
           /\ Parentless(l.child)' /\ row'[l.child].status # "absent" /\ l.parent # l.child
           /\ Ended(row'[l.parent]) /\ Counted(l.parent, l.count)'
    BY <1>5, <1>6, <2>2, ConsumedStays
  <2>4. CASE links'[w] \subseteq links[w]
    BY <2>2, <2>3, <2>4
  <2>5. ASSUME NEW c \in creating[w], c.parent # Null,
               links'[w] = links[w] \cup
                  {[parent |-> c.parent, child |-> c.job, count |-> c.count]}
        PROVE  \A l \in links'[w] :
                  /\ Parentless(l.child)' /\ row'[l.child].status # "absent" /\ l.parent # l.child
                  /\ Ended(row'[l.parent]) /\ Counted(l.parent, l.count)'
                  /\ \A m \in links'[w] : m.child = l.child => m = l
    <3>1. PICK k : k = [parent |-> c.parent, child |-> c.job, count |-> c.count]
      OBVIOUS
    <3>2. /\ k.parent = c.parent /\ k.child = c.job /\ k.count = c.count
          /\ links'[w] = links[w] \cup {k} /\ c.parent \in Jobs /\ c.job \in Jobs
      BY <2>5, <3>1, RequestTypes
    <3>3. /\ Unnamed(c.job) /\ row[c.job].status # "absent" /\ c.parent # c.job
          /\ \A l \in links[w] : l.child # c.job /\ l.parent # c.job
          /\ Ended(row[c.parent]) /\ Counted(c.parent, c.count)
      BY <2>5 DEF FamilyInv, CreatedNew
    <3>4. /\ Parentless(c.job)' /\ row'[c.job].status # "absent"
          /\ Ended(row'[c.parent]) /\ Counted(c.parent, c.count)'
      BY <1>5, <1>6, <3>2, <3>3, ConsumedStays DEF Unnamed
    <3>5. \A l \in links'[w] : \A m \in links'[w] :
             m.child = l.child => m = l
      BY <2>2, <3>2, <3>3
    <3> QED BY <2>3, <3>2, <3>3, <3>4, <3>5
  <2>6. RequestLine(w)
    BY DEF Line
  <2> QED BY <2>4, <2>5, <2>6 DEF RequestLine
<1>8. CreatedNew'
  <2>1. SUFFICES ASSUME NEW w \in Workers, NEW c \in creating'[w]
                 PROVE  /\ Unnamed(c.job)' /\ row'[c.job].status # "absent"
                        /\ c.parent # c.job
                        /\ \A l \in links'[w] : l.child # c.job /\ l.parent # c.job
                        /\ c.parent # Null =>
                              Ended(row'[c.parent]) /\ Counted(c.parent, c.count)'
    BY DEF CreatedNew, Ended
  <2>2. c.job \in Jobs /\ c.parent \in Jobs \cup {Null} /\ c.count \in Nat
    BY DEF TypeOK
  <2>3. CASE c \in creating[w] /\ links'[w] \subseteq links[w]
    <3>1. /\ Unnamed(c.job) /\ row[c.job].status # "absent" /\ c.parent # c.job
          /\ \A l \in links[w] : l.child # c.job /\ l.parent # c.job
          /\ c.parent # Null => Ended(row[c.parent]) /\ Counted(c.parent, c.count)
      BY <2>3 DEF FamilyInv, CreatedNew
    <3>2. c.parent # Null => Ended(row'[c.parent]) /\ Counted(c.parent, c.count)'
      BY <2>2, <3>1, ConsumedStays
    <3> QED BY <1>5, <1>6, <2>2, <2>3, <3>1, <3>2
  <2>4. CASE links'[w] = links[w] /\ Opens(w, c)
    <3>1. row[c.job].status = "absent" /\ row'[c.job].status # "absent"
      BY <2>4 DEF Opens
    <3>2. Unnamed(c.job)
      <4>1. \A k \in Jobs, n \in Nat : ~Named(c.job, k, n)
        BY <2>2, <3>1 DEF Named, Exists, FamilyInv, Unborn
      <4>2. \A k \in Jobs, n \in Nat : ~Named(k, c.job, n)
        <5>1. \A n \in Nat : ~Used(c.job, n)
          BY <3>1 DEF Used
        <5> QED BY <2>2, <5>1 DEF FamilyInv, ParentsUsed
      <4> QED BY <4>1, <4>2 DEF Unnamed, Parentless
    <3>3. c.parent # Null =>
             /\ c.parent # c.job
             /\ Ended(row[c.parent]) /\ Counted(c.parent, c.count)
      <4>1. SUFFICES ASSUME c.parent # Null
                     PROVE  /\ c.parent # c.job
                            /\ Ended(row[c.parent]) /\ Counted(c.parent, c.count)
        OBVIOUS
      <4>2. c.parent \in Jobs
        BY <2>2, <4>1
      <4>3. PICK old \in Copy : old = cache[w][c.parent] /\ old # NoCopy
        BY <2>4, <4>1, NoCopyIsNone DEF Opens
      <4>4. /\ old.status = "failed" /\ old.retries < MaxRetries /\ c.count = old.retries + 1
        BY <2>4, <4>1, <4>3 DEF Opens
      <4>5. c.parent # c.job
        <5>1. Carries(w, c.parent, old)
          BY <4>3 DEF Carries
        <5> QED BY <3>1, <4>2, <5>1 DEF FamilyInv, Unborn
      <4>6. \/ row[c.parent].status = "pruned"
            \/ row[c.parent].status = "failed" /\ row[c.parent].retries = old.retries
        BY <4>2, <4>3, <4>4 DEF FamilyInv, FailedAlike
      <4>7. c.count \in 1..MaxRetries
        <5>1. old.retries \in Nat /\ MaxRetries \in Nat
          BY JobConstants DEF Copy
        <5> QED BY <4>4, <5>1
      <4> QED BY <4>4, <4>5, <4>6, <4>7 DEF Ended, Terminal, Counted
    <3>4. \A l \in links[w] : l.child # c.job /\ l.parent # c.job
      BY <3>1 DEF FamilyInv, LinksOpen, Ended, Terminal
    <3>6. c.parent # Null => Ended(row'[c.parent]) /\ Counted(c.parent, c.count)'
      BY <2>2, <3>3, ConsumedStays
    <3>7. c.parent # c.job
      BY <2>2, <3>3, JobConstants
    <3> QED BY <1>5, <2>2, <2>4, <3>1, <3>2, <3>4, <3>6, <3>7
  <2>5. RequestLine(w)
    BY DEF Line
  <2> QED BY <2>3, <2>4, <2>5 DEF RequestLine
<1> QED BY <1>1, <1>2, <1>3, <1>4, <1>7, <1>8, <1>10 DEF FamilyInv

LEMMA FamilyLinked ==
    ASSUME TypeOK, TypeOK', SlotInv, LifeInv, CopiesSound, Fate, [Next]_vars, SingleInstance,
           NEW w \in Workers, NEW l \in links[w], Linking(w, l), FamilyInv
    PROVE  FamilyInv'
<1>1. /\ Consumable(l) /\ l.parent \in Jobs /\ l.child \in Jobs /\ l.count \in Nat
      /\ Parentless(l.child) /\ Counted(l.parent, l.count) /\ l.parent # l.child
      /\ \A m \in links[w] : m.child = l.child => m = l
  BY LinkingRows DEF FamilyInv, LinksOpen
<1>2. \A c \in Jobs : ~Named(c, l.parent, l.count)
  <2>1. /\ row[l.parent].status = "failed" /\ row[l.parent].retryable
        /\ row[l.parent].retries < l.count /\ row[l.parent].retries \in Nat
    BY <1>1 DEF Consumable, TypeOK, Row
  <2>2. ~Used(l.parent, l.count)
    BY <1>1, <2>1 DEF Used
  <2> QED BY <1>1, <2>2 DEF FamilyInv, ParentsUsed
<1>3. \A v \in Workers : v # w =>
         links[v] = {} /\ creating[v] = {} /\ \A j \in Jobs : cache[v][j] = NoCopy
  BY OneServes
<1>4. OnlyChild'
  BY <1>2, NamesLinked DEF FamilyInv, OnlyChild
<1>5. ParentsUsed'
  <2>1. SUFFICES ASSUME NEW c \in Jobs, NEW p \in Jobs, NEW n \in Nat, Named(c, p, n)'
                 PROVE  Used(p, n)' /\ Counted(p, n)'
    BY DEF ParentsUsed
  <2>2. CASE Named(c, p, n)
    <3>1. Used(p, n) /\ Counted(p, n)
      BY <2>2 DEF FamilyInv, ParentsUsed
    <3> QED BY <3>1, ConsumedLinked
  <2>3. CASE p = l.parent /\ n = l.count
    <3>1. row'[p].status = "failed" /\ row'[p].retryable = FALSE
      BY <1>1, <2>3, LinkingRows DEF Consumable
    <3>2. Counted(p, n)'
      BY <1>1, <2>3, ConsumedLinked
    <3> QED BY <3>1, <3>2 DEF Used
  <2> QED BY <2>1, <2>2, <2>3, NamesLinked
<1>6. Unborn'
  BY CopiesStay, LinkingRows DEF FamilyInv, Unborn, Tells, Exists
<1>7. FailedAlike'
  <2>1. SUFFICES ASSUME NEW v \in Workers, NEW j \in Jobs, cache'[v][j] # NoCopy,
                        cache'[v][j].status = "failed", ~Tells(j, cache'[v][j])
                 PROVE  \/ row'[j].status = "pruned"
                        \/ /\ row'[j].status = "failed"
                           /\ row'[j].retries = cache'[v][j].retries
    BY DEF FailedAlike, Tells
  <2>2. cache'[v][j] = cache[v][j]
    BY <2>1, LinkingMemory
  <2>3. v = w
    BY <1>3, <2>1, <2>2
  <2>4. j # l.child
    <3>1. j = l.child => cache'[v][j] = Refreshed(cache[w][j], row'[j])
      BY <1>1, <2>3 DEF Linking, Relates
    <3>2. LET c == Refreshed(cache[w][j], row'[j]) IN
            c.status = row'[j].status /\ c.parent = row'[j].parent /\ c.retries = row'[j].retries
      BY DEF Refreshed, CopyOf
    <3>3. Exists(l.child)'
      BY <1>1, LinkingRows
    <3> QED BY <2>1, <3>1, <3>2, <3>3 DEF Tells
  <2>5. row'[j].status = row[j].status /\ row'[j].retries = row[j].retries
    BY <2>4, LinkingRows
  <2> QED BY <2>1, <2>2, <2>5 DEF FamilyInv, FailedAlike
<1>12. RootsFirst'
  <2>1. ASSUME NEW j \in Jobs, Exists(j)', row'[j].parent = Null PROVE row'[j].retries = 0
    <3>1. j # l.child
      BY <1>1, <2>1, LinkingRows, JobConstants
    <3> QED BY <2>1, <3>1, LinkingRows DEF FamilyInv, RootsFirst
  <2>2. ASSUME NEW v \in Workers, NEW j \in Jobs, NEW d \in Copy, Carries(v, j, d)',
               d.parent = Null
        PROVE  d.retries = 0
    <3>1. (\E e \in Copy : Carries(v, j, e) /\ Alike(e, d)) \/ Tells(j, d)
      BY <2>2, CopiesStay
    <3>2. CASE Tells(j, d)
      BY <2>1, <2>2, <3>2 DEF Tells
    <3>3. ASSUME NEW e \in Copy, Carries(v, j, e), Alike(e, d) PROVE d.retries = 0
      <4>1. e.parent = d.parent /\ e.retries = d.retries
        BY <3>3, GaveUpFields DEF Alike
      <4> QED BY <2>2, <3>3, <4>1 DEF FamilyInv, RootsFirst
    <3> QED BY <3>1, <3>2, <3>3
  <2> QED BY <2>1, <2>2 DEF RootsFirst
<1>8. ASSUME NEW j \in Jobs, j # l.child
      PROVE  /\ Parentless(j) => Parentless(j)'
             /\ Unnamed(j) /\ j # l.parent => Unnamed(j)'
  BY <1>8, NamesLinked DEF Unnamed, Parentless
<1>9. /\ creating' = creating /\ \A v \in Workers : links'[v] \subseteq links[v]
      /\ links'[w] = links[w] \ {l}
  BY DEF TypeOK, Linking
<1>10. LinksOpen'
  <2>1. SUFFICES ASSUME NEW m \in links'[w]
                 PROVE  /\ Parentless(m.child)' /\ row'[m.child].status # "absent"
                        /\ m.parent # m.child
                        /\ Ended(row'[m.parent]) /\ Counted(m.parent, m.count)'
                        /\ \A k \in links'[w] : k.child = m.child => k = m
    BY <1>3, <1>9 DEF LinksOpen, Ended
  <2>2. /\ m \in links[w] /\ m # l /\ m.parent \in Jobs /\ m.child \in Jobs
        /\ Parentless(m.child) /\ row[m.child].status # "absent" /\ m.parent # m.child
        /\ Ended(row[m.parent]) /\ Counted(m.parent, m.count) /\ m.count \in Nat
        /\ \A k \in links[w] : k.child = m.child => k = m
    BY <1>9, RequestTypes DEF FamilyInv, LinksOpen
  <2>3. m.child # l.child
    BY <1>1, <2>2
  <2>4. row'[m.child].status # "absent"
    BY <2>2, LinkingRows
  <2>5. Ended(row'[m.parent]) /\ Counted(m.parent, m.count)'
    BY <2>2, ConsumedLinked
  <2> QED BY <1>8, <1>9, <2>2, <2>3, <2>4, <2>5
<1>11. CreatedNew'
  <2>1. SUFFICES ASSUME NEW c \in creating[w]
                 PROVE  /\ Unnamed(c.job)' /\ row'[c.job].status # "absent"
                        /\ c.parent # c.job
                        /\ \A m \in links'[w] : m.child # c.job /\ m.parent # c.job
                        /\ c.parent # Null =>
                              Ended(row'[c.parent]) /\ Counted(c.parent, c.count)'
    BY <1>3, <1>9 DEF CreatedNew, Ended
  <2>2. /\ c.job \in Jobs /\ c.count \in Nat /\ c.parent \in Jobs \cup {Null}
        /\ Unnamed(c.job) /\ row[c.job].status # "absent" /\ c.parent # c.job
        /\ \A m \in links[w] : m.child # c.job /\ m.parent # c.job
        /\ c.parent # Null => Ended(row[c.parent]) /\ Counted(c.parent, c.count)
    BY RequestTypes DEF FamilyInv, CreatedNew
  <2>3. row'[c.job].status # "absent"
    BY <2>2, LinkingRows
  <2>4. c.parent # Null => Ended(row'[c.parent]) /\ Counted(c.parent, c.count)'
    BY <2>2, ConsumedLinked
  <2>5. Unnamed(c.job)'
    BY <1>8, <2>2
  <2> QED BY <1>9, <2>2, <2>3, <2>4, <2>5
<1> QED BY <1>4, <1>5, <1>6, <1>7, <1>10, <1>11, <1>12 DEF FamilyInv

LEMMA FamilyInit == Init => FamilyInv
<1> SUFFICES ASSUME Init PROVE FamilyInv
  OBVIOUS
<1>1. \A j \in Jobs : row[j].status = "absent"
  BY DEF Init, NoRow
<1>2. \A w \in Workers, j \in Jobs, d \in Copy : ~Carries(w, j, d)
  BY NoCopyIsNone DEF Init, Carries
<1>3. \A c, p \in Jobs, n \in Nat : ~Named(c, p, n)
  BY <1>1, <1>2 DEF Named, Exists
<1>4. LinksOpen /\ CreatedNew /\ FailedAlike
  BY DEF Init, LinksOpen, CreatedNew, FailedAlike
<1>5. RootsFirst
  BY <1>1, <1>2 DEF RootsFirst, Exists
<1> QED BY <1>2, <1>3, <1>4, <1>5 DEF FamilyInv, OnlyChild, ParentsUsed, Unborn

LEMMA FamilyStep ==
    ASSUME TypeOK, TypeOK', SlotInv, LifeInv, CopiesSound, [Next]_vars,
           SingleInstance, FamilyInv
    PROVE  FamilyInv'
<1>1. Fate
  BY FateStep
<1> QED BY <1>1, LineStep, FamilyLine, FamilyLinked

LEMMA FamilySound ==
    ASSUME SingleInstance
    PROVE  Spec => [](TypeOK /\ SlotInv /\ LifeInv /\ CopiesSound /\ FamilyInv)
<1>1. Init => CopiesSound /\ FamilyInv
  BY CopiesInit, FamilyInit
<1>2. TypeOK /\ TypeOK' /\ SlotInv /\ LifeInv /\ CopiesSound /\ FamilyInv /\ [Next]_vars
      => CopiesSound' /\ FamilyInv'
  BY FateStep, CopiesStep, FamilyStep DEF Sole
<1> QED BY <1>1, <1>2, CoreSound, PTL DEF Spec

\* One process at a time: no two retries of one job count the same, whatever crashes,
\* shutdowns, lost leases, failing writes, stale copies, late links and requests that race
\* for the job do.
THEOREM RetriedOnce == ASSUME SingleInstance PROVE Spec => []RetryOnce
<1>1. TypeOK /\ FamilyInv => RetryOnce
  <2> SUFFICES ASSUME TypeOK, FamilyInv, NEW c1 \in Jobs, NEW c2 \in Jobs,
                      Exists(c1), Exists(c2), row[c1].parent # Null,
                      row[c1].parent = row[c2].parent, row[c1].retries = row[c2].retries
               PROVE  c1 = c2
    BY DEF RetryOnce
  <2> DEFINE p == row[c1].parent
  <2>1. p \in Jobs /\ row[c1].retries \in Nat /\ row[c2].retries \in Nat
    BY DEF TypeOK, Row
  <2>2. Named(c1, p, row[c1].retries) /\ Named(c2, p, row[c2].retries)
    BY DEF Named
  <2> QED BY <2>1, <2>2 DEF FamilyInv, OnlyChild
<1> QED BY <1>1, FamilySound, PTL

\* A copy the store would accept a write from (Owns, and what Cancel asks of it).
Valid(r, d) ==
    /\ r.status \notin {"absent", "pruned"}
    /\ d.owner = r.owner /\ d.attempt = r.attempt
    /\ d.owner = Null => d.status \in Active

\* No write brings back a parent: a valid copy with a parent has that of the row, and
\* the copy in memory, which is the next to be written, knows it too.
ParentStays ==
    \A w \in Workers, j \in Jobs, d \in Copy :
        Carries(w, j, d) /\ Valid(row[j], d) /\ d.parent # Null => row[j].parent = d.parent
MemoryAhead ==
    \A w \in Workers : \A p \in pending[w] \cup releasing[w] :
        LET c == cache[w][p.job] IN
        /\ p.copy \in Copy /\ Valid(row[p.job], p.copy) /\ p.copy.parent # Null
        /\ c \in Copy /\ Valid(row[p.job], c)
        => c.parent = p.copy.parent
ClaimsAgree ==
    \A w \in Workers : \A p, q \in pending[w] :
        /\ p.job = q.job /\ Valid(row[p.job], p.copy) /\ Valid(row[q.job], q.copy)
        /\ q.copy.parent # Null
        => p.copy.parent = q.copy.parent
ParentsStored ==
    \A c \in Jobs : Exists(c) /\ row[c].parent # Null => Exists(row[c].parent)
\* The inductive strengthening of RetryChain, with FamilyInv.
ChainInv == ParentStays /\ MemoryAhead /\ ClaimsAgree /\ ParentsStored

\* What a process has of a lease is in step with the row.
LEMMA CarriedSound ==
    ASSUME TypeOK, SlotInv, NEW w \in Workers, NEW j \in Jobs, NEW d \in Copy, Carries(w, j, d)
    PROVE  /\ d.owner # Null => LeaseKnown(row[j], d)
           /\ d.owner = Null => cache[w][j] = d
<1>1. d # NoCopy
  BY NoCopyIsNone
<1>2. CASE cache[w][j] = d
  BY <1>1, <1>2 DEF SlotInv, LeasesSound, MemoryLeases, CopySound
<1>3. ASSUME NEW p \in pending[w] \cup releasing[w], p.job = j, p.copy = d
      PROVE  d.owner # Null /\ LeaseKnown(row[j], d)
  BY <1>1, <1>3 DEF SlotInv, LeasesSound, PendingLeases, ReleasingLeases, ItemSound
<1> QED BY <1>2, <1>3 DEF Carries

\* A copy does not become valid.
LEMMA ValidStays ==
    ASSUME TypeOK, SlotInv, CopiesSound, Fate, Unborn,
           NEW w \in Workers, NEW j \in Jobs, NEW d \in Copy, Carries(w, j, d),
           Valid(row'[j], d)
    PROVE  Valid(row[j], d) /\ row'[j].attempt = row[j].attempt
<1>1. RowFate(j) /\ row[j].attempt \in Nat /\ d.attempt \in Nat
  BY DEF Fate, TypeOK, Row, Copy
<1>2. row[j].status # "absent" /\ row[j].status # "pruned"
  <2>1. row[j].status = "pruned" => row'[j].status = "pruned"
    BY EndedStays DEF Ended
  <2> QED BY <2>1 DEF Unborn, Valid
<1>3. d.attempt <= row[j].attempt
      /\ (d.owner = Null /\ d.attempt = row[j].attempt => row[j].owner = Null)
  <2>1. CASE d.owner # Null
    BY <1>1, <1>2, <2>1, CarriedSound DEF LeaseKnown
  <2>2. CASE d.owner = Null
    <3>1. cache[w][j] = d /\ d # NoCopy /\ d.status \in Active
      BY <2>2, CarriedSound, NoCopyIsNone DEF Valid
    <3>2. FreeSound(row[j], d)
      BY <2>2, <3>1 DEF CopiesSound, FreeCopies
    <3> QED BY <1>1, <1>2, <3>2 DEF FreeSound
  <2> QED BY <2>1, <2>2
<1>4. CASE Kept(row[j], row'[j])
  BY <1>2, <1>4 DEF Kept, Valid
<1>5. ~Taken(j)
  BY <1>1, <1>3 DEF Taken, Valid
<1>6. CASE Yielded(row[j], row'[j])
  BY <1>2, <1>3, <1>6 DEF Yielded, Valid
<1> QED BY <1>1, <1>2, <1>4, <1>5, <1>6 DEF RowFate, Born, Valid

\* A new claim is of a new attempt.
LEMMA ClaimedAnew ==
    ASSUME TypeOK, TypeOK', Fate, NEW w \in Workers, NEW p \in pending'[w], p \notin pending[w]
    PROVE  /\ p.job \in Jobs /\ p.copy = CopyOf(row'[p.job]) /\ Exists(p.job)'
           /\ row'[p.job].attempt # row[p.job].attempt
<1>1. /\ p.job \in Jobs /\ p.copy = CopyOf(row'[p.job]) /\ p.copy.status = "queued"
      /\ Claimable(p.job) /\ LeaseOwned(p.job, w, p.copy.attempt)' /\ RowFate(p.job)
  BY DEF Fate, RestFate, TypeOK
<1>2. row[p.job].attempt \in Nat /\ w # Null /\ row'[p.job].status \in Active
  BY <1>1, JobConstants DEF TypeOK, Row, LeaseOwned
<1>3. row'[p.job].owner = w /\ row'[p.job].ttl > 0
  BY <1>1 DEF LeaseOwned
<1>4. ~Kept(row[p.job], row'[p.job])
  BY <1>1, <1>2, <1>3 DEF Claimable, Kept
<1>5. Taken(p.job)
  BY <1>1, <1>2, <1>3, <1>4 DEF RowFate, Born, Yielded, Active
<1> QED BY <1>1, <1>2, <1>5 DEF Taken, Exists, Active

LEMMA ParentLine ==
    ASSUME TypeOK, TypeOK', SlotInv, SlotInv', LifeInv, CopiesSound, Fate, [Next]_vars, Line,
           SingleInstance, Unborn, ParentStays, MemoryAhead
    PROVE  ParentStays'
<1>1. SUFFICES ASSUME NEW w \in Workers, NEW j \in Jobs, NEW d \in Copy, Carries(w, j, d)',
                      Valid(row'[j], d), d.parent # Null, ~Tells(j, d)
               PROVE  row'[j].parent = d.parent
  BY DEF ParentStays, Tells, Valid
<1>2. PICK x \in Copy : Carries(w, j, x) /\ Alike(x, d)
  BY <1>1, CopiesStay
<1>6. /\ x.owner = d.owner /\ x.attempt = d.attempt /\ x.status = d.status
      /\ x.parent = d.parent
  BY <1>2, GaveUpFields DEF Alike
<1>3. Valid(row[j], x) /\ row[j].parent = d.parent /\ Valid(row[j], d)
  <2>1. Valid(row'[j], x)
    BY <1>1, <1>6 DEF Valid
  <2>2. Valid(row[j], x)
    BY <1>2, <2>1, ValidStays
  <2> QED BY <1>1, <1>2, <1>6, <2>2 DEF ParentStays, Valid
<1>4. ASSUME NEW v \in Workers, Writes(v, j) PROVE row'[j].parent = d.parent
  <2>1. PICK e \in Copy :
          /\ Carries(v, j, e) /\ Owns(j, e.owner, e.attempt)
          /\ e.owner = Null => e.status \in Active
          /\ row'[j].parent = e.parent
          /\ \/ e = cache[v][j]
             \/ /\ row'[j].owner = Null
                /\ \/ cache'[v][j] = NoCopy \/ cache'[v][j].status \in Terminal
                   \/ cache'[v][j].parent = e.parent
    BY <1>4 DEF Writes
  <2>2. Serving(v) /\ Serving(w)
    BY <1>2, <2>1, AtWork, NoCopyIsNone DEF Carries, Serving
  <2>3. v = w
    BY <2>2 DEF LifeInv
  <2>4. CASE e = cache[v][j]
    <3>1. Valid(row[j], e)
      BY <2>1 DEF Owns, Exists, Valid
    <3>2. e.parent = d.parent
      BY <1>1, <1>2, <1>3, <1>6, <2>3, <2>4, <3>1 DEF Carries, MemoryAhead
    <3> QED BY <2>1, <3>2
  <2>5. CASE row'[j].owner = Null /\ e # cache[v][j]
    <3>1. d.owner = Null
      BY <1>1, <2>5 DEF Valid
    <3>2. cache'[w][j] = d
      BY <1>1, <3>1, NoCopyIsNone
         DEF Carries, SlotInv, LeasesSound, PendingLeases, ReleasingLeases, ItemSound
    <3>3. d # NoCopy /\ d.status \notin Terminal
      BY <1>1, <3>1, NoCopyIsNone DEF Valid, Active, Terminal
    <3> QED BY <2>1, <2>3, <2>5, <3>2, <3>3
  <2> QED BY <2>4, <2>5, <2>1
<1>5. row[j].status # "absent" /\ RowLine(j)
  BY <1>2 DEF Unborn, Line
<1> QED BY <1>1, <1>3, <1>4, <1>5 DEF RowLine, Removed, Founded, Upheld, Valid

LEMMA ParentLinked ==
    ASSUME TypeOK, TypeOK', SlotInv, CopiesSound, Fate, [Next]_vars,
           NEW w \in Workers, NEW l \in links[w], Linking(w, l), FamilyInv, ParentStays
    PROVE  ParentStays'
<1>1. SUFFICES ASSUME NEW v \in Workers, NEW j \in Jobs, NEW d \in Copy, Carries(v, j, d)',
                      Valid(row'[j], d), d.parent # Null, ~Tells(j, d)
               PROVE  row'[j].parent = d.parent
  BY DEF ParentStays, Tells, Valid
<1>2. PICK x \in Copy : Carries(v, j, x) /\ Alike(x, d)
  BY <1>1, CopiesStay
<1>5. /\ x.owner = d.owner /\ x.attempt = d.attempt /\ x.status = d.status
      /\ x.parent = d.parent
  BY <1>2, GaveUpFields DEF Alike
<1>3. Valid(row[j], x) /\ row[j].parent = d.parent
  <2>1. Valid(row'[j], x)
    BY <1>1, <1>5 DEF Valid
  <2>2. Valid(row[j], x)
    BY <1>2, <2>1, ValidStays DEF FamilyInv
  <2> QED BY <1>1, <1>2, <1>5, <2>2 DEF ParentStays
<1>4. j # l.child
  <2>1. Parentless(l.child)
    BY DEF FamilyInv, LinksOpen
  <2>2. x.parent \in Jobs /\ x.retries \in Nat
    BY <1>1, <1>5 DEF Copy
  <2>3. Named(j, x.parent, x.retries)
    BY <1>2 DEF Named
  <2> QED BY <2>1, <2>2, <2>3 DEF Parentless
<1> QED BY <1>3, <1>4, LinkingRows

LEMMA MemoryStays ==
    ASSUME TypeOK, TypeOK', SlotInv, CopiesSound, Fate, [Next]_vars, Unborn,
           \A w \in Workers, j \in Jobs : MemoryLine(w, j),
           MemoryAhead, ClaimsAgree, ParentStays'
    PROVE  MemoryAhead'
<1>1. SUFFICES ASSUME NEW w \in Workers, NEW p \in pending'[w] \cup releasing'[w],
                      p.copy \in Copy, Valid(row'[p.job], p.copy), p.copy.parent # Null,
                      cache'[w][p.job] \in Copy, Valid(row'[p.job], cache'[w][p.job]),
                      ~Tells(p.job, cache'[w][p.job])
               PROVE  cache'[w][p.job].parent = p.copy.parent
  <2>1. ASSUME NEW w \in Workers, NEW p \in pending'[w] \cup releasing'[w],
               p.copy \in Copy, Valid(row'[p.job], p.copy), p.copy.parent # Null,
               Tells(p.job, cache'[w][p.job])
        PROVE  cache'[w][p.job].parent = p.copy.parent
    <3>1. Carries(w, p.job, p.copy)' /\ p.job \in Jobs
      BY <2>1 DEF Carries, TypeOK
    <3>2. row'[p.job].parent = p.copy.parent
      BY <2>1, <3>1 DEF ParentStays
    <3> QED BY <2>1, <3>2 DEF Tells
  <2> QED BY <2>1 DEF MemoryAhead, Valid
<1> DEFINE j == p.job
           c == cache'[w][j]
<1>2. j \in Jobs /\ c # NoCopy
  BY <1>1, NoCopyIsNone DEF TypeOK
<1>3. MemoryLine(w, j)
  BY <1>2
<1>4. CASE Alike(cache[w][j], c)
  <2>6. /\ cache[w][j] \in Copy /\ c.parent = cache[w][j].parent
        /\ Valid(row'[j], cache[w][j])
    <3>1. cache[w][j] \in Copy
      BY <1>1, <1>4 DEF Alike, GaveUp
    <3>2. /\ c.parent = cache[w][j].parent /\ c.owner = cache[w][j].owner
          /\ c.attempt = cache[w][j].attempt /\ c.status = cache[w][j].status
      BY <1>4, GaveUpFields DEF Alike
    <3> QED BY <1>1, <3>1, <3>2 DEF Valid
  <2>1. Carries(w, j, cache[w][j])
    BY <2>6 DEF Carries
  <2>2. Valid(row[j], cache[w][j]) /\ row'[j].attempt = row[j].attempt
    BY <1>2, <2>1, <2>6, ValidStays
  <2>3. CASE p \in pending[w] \cup releasing[w]
    <3>1. Carries(w, j, p.copy)
      BY <1>1, <2>3 DEF Carries
    <3>2. Valid(row[j], p.copy)
      BY <1>1, <1>2, <3>1, ValidStays
    <3> QED BY <1>1, <2>2, <2>3, <2>6, <3>2 DEF MemoryAhead
  <2>4. CASE p \in pending'[w] /\ p \notin pending[w]
    BY <2>2, <2>4, ClaimedAnew
  <2>5. CASE p \in releasing'[w] /\ p \notin releasing[w]
    BY <1>1, <2>5, <2>6, ReleasesRead, NoCopyIsNone
  <2> QED BY <2>3, <2>4, <2>5
<1>5. ASSUME NEW q \in pending[w], q.job = j, c = q.copy, releasing'[w] = {}
      PROVE  c.parent = p.copy.parent
  <2>1. Carries(w, j, c)
    BY <1>1, <1>5 DEF Carries
  <2>2. Valid(row[j], c) /\ row'[j].attempt = row[j].attempt
    BY <1>1, <1>2, <2>1, ValidStays
  <2>3. p \in pending[w]
    BY <1>5, <2>2, ClaimedAnew
  <2>4. Carries(w, j, p.copy)
    BY <1>1, <2>3 DEF Carries
  <2>5. Valid(row[j], p.copy)
    BY <1>1, <1>2, <2>4, ValidStays
  <2> QED BY <1>1, <1>5, <2>2, <2>3, <2>5 DEF ClaimsAgree
<1> QED BY <1>1, <1>2, <1>3, <1>4, <1>5 DEF MemoryLine, Alike

LEMMA ClaimsStay ==
    ASSUME TypeOK, TypeOK', SlotInv, CopiesSound, Fate, Unborn, ClaimsAgree
    PROVE  ClaimsAgree'
<1>1. SUFFICES ASSUME NEW w \in Workers, NEW p \in pending'[w], NEW q \in pending'[w],
                      p.job = q.job, Valid(row'[p.job], p.copy), Valid(row'[q.job], q.copy),
                      q.copy.parent # Null
               PROVE  p.copy.parent = q.copy.parent
  BY DEF ClaimsAgree, Valid
<1>2. \A x \in pending'[w] : x.job \in Jobs /\ x.copy \in Copy
  BY DEF TypeOK
<1>3. ASSUME NEW x \in pending'[w], x \in pending[w], Valid(row'[x.job], x.copy)
      PROVE  Valid(row[x.job], x.copy) /\ row'[x.job].attempt = row[x.job].attempt
  <2>1. Carries(w, x.job, x.copy)
    BY <1>2, <1>3 DEF Carries
  <2> QED BY <1>2, <1>3, <2>1, ValidStays
<1>4. CASE p \in pending[w] /\ q \in pending[w]
  BY <1>1, <1>3, <1>4 DEF ClaimsAgree
<1>5. CASE p \notin pending[w] /\ q \notin pending[w]
  BY <1>1, <1>5, ClaimedAnew
<1>6. CASE (p \in pending[w]) # (q \in pending[w])
  BY <1>1, <1>3, <1>6, ClaimedAnew
<1> QED BY <1>4, <1>5, <1>6

LEMMA StoredLine ==
    ASSUME TypeOK, TypeOK', SlotInv, CopiesSound, Fate, Line, FamilyInv, ParentStays,
           ParentsStored
    PROVE  ParentsStored'
<1>1. SUFFICES ASSUME NEW c \in Jobs, NEW p \in Jobs, Exists(c)', row'[c].parent = p
               PROVE  Exists(p)'
  <2>1. \A c \in Jobs : row'[c].parent \in Jobs \cup {Null}
    BY DEF TypeOK, Row
  <2> QED BY <2>1 DEF ParentsStored, Exists
<1>2. Exists(c) /\ row[c].parent = p
  <2>1. RowLine(c)
    BY DEF Line
  <2>2. CASE Upheld(row[c], row'[c])
    <3>1. row[c].status = "pruned" => row'[c].status = "pruned"
      BY EndedStays DEF Ended
    <3> QED BY <1>1, <2>2, <3>1 DEF Upheld, Exists
  <2>3. ASSUME NEW w \in Workers, Writes(w, c) PROVE Exists(c) /\ row[c].parent = p
    <3>1. PICK e \in Copy : /\ Carries(w, c, e) /\ Owns(c, e.owner, e.attempt)
                            /\ e.owner = Null => e.status \in Active
                            /\ row'[c].parent = e.parent
      BY <2>3 DEF Writes
    <3>2. Valid(row[c], e) /\ Exists(c)
      BY <3>1 DEF Owns, Exists, Valid
    <3>3. e.parent # Null
      BY <1>1, <3>1, JobConstants
    <3> QED BY <1>1, <3>1, <3>2, <3>3 DEF ParentStays
  <2> QED BY <1>1, <2>1, <2>2, <2>3, JobConstants DEF RowLine, Removed, Founded, Exists
<1>3. Exists(p) /\ row[c].retries \in Nat
  BY <1>1, <1>2, JobConstants DEF TypeOK, Row, ParentsStored
<1>4. RowLine(p) /\ RowFate(p)
  BY <1>3 DEF Line, Fate
<1>5. row'[p].status # "absent"
  BY <1>3, <1>4 DEF RowFate, Born, Kept, Taken, Yielded, Terminal, Exists
<1>6. ~Removed(p)
  <2>1. p \in Protected
    BY <1>2 DEF Protected
  <2>2. Named(c, p, row[c].retries)
    BY <1>2 DEF Named
  <2>3. ~Unnamed(p)
    BY <1>3, <2>2 DEF Unnamed
  <2> QED BY <2>1, <2>3 DEF FamilyInv, CreatedNew, Removed
<1>7. row'[p].status # "pruned"
  BY <1>3, <1>4, <1>6 DEF RowLine, Founded, Upheld, Writes, Exists
<1> QED BY <1>5, <1>7 DEF Exists

LEMMA StoredLinked ==
    ASSUME TypeOK, TypeOK', NEW w \in Workers, NEW l \in links[w], Linking(w, l),
           ParentsStored
    PROVE  ParentsStored'
<1>1. SUFFICES ASSUME NEW c \in Jobs, NEW p \in Jobs, Exists(c)', row'[c].parent = p
               PROVE  Exists(p)'
  <2>1. \A c \in Jobs : row'[c].parent \in Jobs \cup {Null}
    BY DEF TypeOK, Row
  <2> QED BY <2>1 DEF ParentsStored, Exists
<1>2. CASE c = l.child
  BY <1>1, <1>2, LinkingRows DEF Consumable, Exists
<1>3. CASE c # l.child
  <2>1. row'[c].parent = row[c].parent /\ Exists(c)
    BY <1>1, <1>3, LinkingRows
  <2>2. row[c].parent \in Jobs /\ Exists(row[c].parent)
    BY <1>1, <2>1, JobConstants DEF ParentsStored
  <2> QED BY <1>1, <2>1, <2>2, LinkingRows
<1> QED BY <1>2, <1>3

LEMMA ChainStep ==
    ASSUME TypeOK, TypeOK', SlotInv, SlotInv', LifeInv, CopiesSound, [Next]_vars,
           SingleInstance, FamilyInv, ChainInv
    PROVE  ChainInv'
<1>1. Fate
  BY FateStep
<1>2. Unborn
  BY DEF FamilyInv
<1>3. CASE Line
  BY <1>1, <1>2, <1>3, ParentLine, MemoryStays, ClaimsStay, StoredLine DEF ChainInv, Line
<1>4. ASSUME NEW w \in Workers, NEW l \in links[w], Linking(w, l) PROVE ChainInv'
  <2>1. \A v \in Workers, j \in Jobs : MemoryLine(v, j)
    BY <1>4, LinkingMemory DEF MemoryLine
  <2> QED BY <1>1, <1>2, <1>4, <2>1, ParentLinked, MemoryStays, ClaimsStay, StoredLinked
          DEF ChainInv
<1> QED BY <1>3, <1>4, LineStep

LEMMA ChainInit == Init => ChainInv
<1> SUFFICES ASSUME Init PROVE ChainInv
  OBVIOUS
<1>1. \A w \in Workers, j \in Jobs, d \in Copy : ~Carries(w, j, d)
  BY NoCopyIsNone DEF Init, Carries
<1>2. ParentStays
  BY <1>1 DEF ParentStays
<1>3. MemoryAhead /\ ClaimsAgree
  BY DEF Init, MemoryAhead, ClaimsAgree
<1>4. ParentsStored
  BY DEF Init, ParentsStored, Exists, NoRow
<1> QED BY <1>2, <1>3, <1>4 DEF ChainInv

\* One process at a time: a stored child's parent is stored and failed; the child counts
\* one retry more than its parent, which then is consumed, or was started before its parent
\* was counted; nothing counts more than MaxRetries.  Neither pruning nor a write from a
\* copy older than the link breaks a chain.
THEOREM ChainsHold == ASSUME SingleInstance PROVE Spec => []RetryChain
<1>1. Init => ChainInv
  BY ChainInit
<1>2. /\ TypeOK /\ TypeOK' /\ SlotInv /\ SlotInv' /\ LifeInv /\ CopiesSound /\ FamilyInv
      /\ ChainInv /\ [Next]_vars
      => ChainInv'
  <2> SUFFICES ASSUME TypeOK, TypeOK', SlotInv, SlotInv', LifeInv, CopiesSound, FamilyInv,
                      ChainInv, [Next]_vars
               PROVE  ChainInv'
    OBVIOUS
  <2> QED BY ChainStep
<1>3. TypeOK /\ FamilyInv /\ ChainInv => RetryChain
  <2> SUFFICES ASSUME TypeOK, FamilyInv, ChainInv, NEW c \in Jobs, Exists(c),
                      row[c].parent # Null
               PROVE  LET p == row[c].parent IN
                      /\ Exists(p) /\ row[p].status = "failed"
                      /\ \/ row[c].retries = row[p].retries + 1 /\ ~row[p].retryable
                         \/ row[c].retries <= row[p].retries
                      /\ row[c].retries \in 1..MaxRetries
    BY DEF RetryChain
  <2> DEFINE p == row[c].parent
  <2>1. p \in Jobs /\ row[c].retries \in Nat /\ Exists(p)
    BY DEF TypeOK, Row, ChainInv, ParentsStored
  <2>2. Named(c, p, row[c].retries)
    BY DEF Named
  <2>3. Used(p, row[c].retries) /\ Counted(p, row[c].retries)
    BY <2>1, <2>2 DEF FamilyInv, ParentsUsed
  <2>4. row[p].status = "failed" /\ row[p].retries \in Nat
    BY <2>1, <2>3 DEF Used, Exists, TypeOK, Row
  <2> QED BY <2>1, <2>3, <2>4 DEF Used, Counted
<1> QED BY <1>1, <1>2, <1>3, FamilySound, PTL DEF Spec
=============================================================================
