------------------------------ MODULE MCPJobs ------------------------------
(***************************************************************************)
(* Durable MCP jobs: the SQLite job store (mcp_job_store.go) and the       *)
(* handlers of AppService that run over it (app_service.go): registration, *)
(* the worker of a job with its heartbeat, completion, user cancellation,  *)
(* retry, graceful shutdown, crash, restart and lease recovery.            *)
(*                                                                         *)
(* Every statement or transaction of the store is one atomic step.  A      *)
(* handler that issues several of them is several steps, so a crash, a     *)
(* clock tick or another process can fall between any two.                 *)
(*                                                                         *)
(* Time.  A stored lease_expires_at is modelled by the ticks it has left:  *)
(* ttl > 0 stands for "lease_expires_at > now", and Tick ages every lease. *)
(***************************************************************************)
EXTENDS Integers, FiniteSets

CONSTANTS
    Jobs,           \* job identifiers (util.NextID never reuses one)
    Workers,        \* process incarnations: each start draws a new mcpWorkerID
    Slots,          \* rows of mcp_job_recovery_slots (4 of them)
    Null,           \* the empty lease_owner / parent_job_id / slot binding
    LeaseTicks,     \* mcpJobLeaseDuration, in ticks
    MaxRetries,     \* mcpJobMaxRetries
    Imports,        \* the jobs of type "import"; the others are reindex jobs
    Keep,           \* terminal jobs PruneWithCount spares (50)
    MemoryKeep,     \* jobs pruneMCPJobsLocked leaves in memory (50)
    Stable,         \* incarnations that neither crash nor are shut down
    SingleInstance, \* TRUE: a process starts only when no other one runs
    Stalls,         \* TRUE: a live worker may miss heartbeats and lose its lease
    Graceful,       \* TRUE: ShutdownJobs may be called
    Cancels,        \* TRUE: clients may cancel jobs
    MaxAttempt,     \* bound: claims of one job
    MaxFaults       \* bound: failed store writes or staging renewals

ASSUME JobConstants ==
    /\ Null \notin Jobs \cup Workers
    /\ LeaseTicks \in Nat \ {0}
    /\ MaxRetries \in Nat /\ Keep \in Nat /\ MemoryKeep \in Nat
    /\ MaxAttempt \in Nat /\ MaxFaults \in Nat
    /\ Slots \subseteq Nat /\ IsFiniteSet(Slots)
    /\ Imports \subseteq Jobs /\ Stable \subseteq Workers
    /\ SingleInstance \in BOOLEAN /\ Stalls \in BOOLEAN
    /\ Graceful \in BOOLEAN /\ Cancels \in BOOLEAN

VARIABLES
    row,        \* mcp_jobs, by job id
    slot,       \* mcp_job_recovery_slots, by slot id
    proc,       \* life of each process incarnation
    cache,      \* mcpJobs + mcpJobLeases of each process
    runs,       \* runMCPJobWorker goroutines
    creating,   \* registrations between Create and Claim, per process
    retrying,   \* mcpJobRetrying of each process
    pending,    \* recovery claims not yet started, per process
    links,      \* retries whose child runs but is not yet linked, per process
    releasing,  \* lease releases of a shutdown in progress, per process
    toRelease,  \* ReleaseRecoverySlot calls still to be made, per process
    asked,      \* observer: jobs whose cancellation was requested
    faults      \* observer: faults injected so far

vars == <<row, slot, proc, cache, runs, creating, retrying, pending, links,
          releasing, toRelease, asked, faults>>

Active   == {"queued", "running"}
Terminal == {"succeeded", "failed", "cancelled"}
Recovery == {"", "recovering", "recovered", "shutdown"}

\* The columns a process copies into memory (model.MCPJob and the lease token).
Copy == [status: {"queued", "running"} \cup Terminal, retryable: BOOLEAN,
         resumable: BOOLEAN, retries: Nat, parent: Jobs \cup {Null},
         recovery: Recovery, attempt: Nat, owner: Workers \cup {Null}]
Row  == [status: {"absent", "pruned", "queued", "running"} \cup Terminal,
         retryable: BOOLEAN, resumable: BOOLEAN, retries: Nat,
         parent: Jobs \cup {Null}, recovery: Recovery, attempt: Nat,
         owner: Workers \cup {Null}, ttl: 0..LeaseTicks]
Run   == [proc: Workers, job: Jobs, born: Nat, attempt: Nat, recovered: BOOLEAN,
          live: BOOLEAN, at: {"new", "start", "reject", "index", "exit"}]
Token == [job: Jobs, owner: Workers \cup {Null}, attempt: Nat]

NoCopy == [status |-> "unknown"]
NoRow  == [status |-> "absent", retryable |-> FALSE, resumable |-> FALSE,
           retries |-> 0, parent |-> Null, recovery |-> "", attempt |-> 0,
           owner |-> Null, ttl |-> 0]
Deleted  == [NoRow EXCEPT !.status = "pruned"]
FreeSlot == [worker |-> Null, job |-> Null, attempt |-> 0, ttl |-> 0]

Init ==
    /\ row = [j \in Jobs |-> NoRow]
    /\ slot = [s \in Slots |-> FreeSlot]
    /\ proc = [w \in Workers |-> "off"]
    /\ cache = [w \in Workers |-> [j \in Jobs |-> NoCopy]]
    /\ runs = {}
    /\ creating = [w \in Workers |-> {}]
    /\ retrying = [w \in Workers |-> {}]
    /\ pending = [w \in Workers |-> {}]
    /\ links = [w \in Workers |-> {}]
    /\ releasing = [w \in Workers |-> {}]
    /\ toRelease = [w \in Workers |-> {}]
    /\ asked = {}
    /\ faults = 0
-----------------------------------------------------------------------------
(* Store helpers *)

Exists(j)   == row[j].status \notin {"absent", "pruned"}
CopyOf(r)   == [status |-> r.status, retryable |-> r.retryable,
                resumable |-> r.resumable, retries |-> r.retries,
                parent |-> r.parent, recovery |-> r.recovery,
                attempt |-> r.attempt, owner |-> r.owner]
Known(w, j) == cache[w][j] # NoCopy

\* The WHERE clause of Update and UpdateState.
Owns(j, owner, attempt) ==
    /\ Exists(j)
    /\ row[j].owner = owner
    /\ row[j].attempt = attempt
    /\ row[j].owner = Null \/ row[j].ttl > 0

\* The WHERE clause of RenewLease and LeaseOwned.
LeaseOwned(j, owner, attempt) ==
    /\ row[j].status \in Active
    /\ row[j].owner = owner
    /\ row[j].attempt = attempt
    /\ row[j].ttl > 0

\* Mutants of Claimable: a scan that forgets the status, takes a lease before it has
\* expired, or only one without an owner.
ClaimableAnyStatus(j) == row[j].resumable /\ (row[j].owner = Null \/ row[j].ttl = 0)
ClaimableEarly(j) ==
    row[j].status \in Active /\ row[j].resumable /\ row[j].ttl <= 1
ClaimableUnowned(j) ==
    row[j].status \in Active /\ row[j].resumable /\ row[j].owner = Null

\* The WHERE clause of Claim and of the recovery scan.
Claimable(j) ==
    /\ row[j].status \in Active
    /\ row[j].resumable
    /\ row[j].owner = Null \/ row[j].ttl = 0

\* Update rewrites every column but the id; the lease columns are cleared.
Update(copy) ==
    [status |-> copy.status, retryable |-> copy.retryable,
     resumable |-> copy.resumable, retries |-> copy.retries,
     parent |-> copy.parent, recovery |-> copy.recovery,
     attempt |-> copy.attempt, owner |-> Null, ttl |-> 0]

\* UpdateState leaves lease_owner and lease_expires_at alone.
UpdateState(j, copy) ==
    [Update(copy) EXCEPT !.owner = row[j].owner, !.ttl = row[j].ttl]

\* Mutant: the lease is one heartbeat too long.
ClaimedLong(j, w, recovery) ==
    [row[j] EXCEPT !.status = "queued", !.recovery = recovery, !.owner = w,
                   !.attempt = row[j].attempt + 1, !.ttl = LeaseTicks + 1]

\* Claim and claimRecoverableOne: a new attempt with a fresh lease.
Claimed(j, w, recovery) ==
    [row[j] EXCEPT !.status = "queued", !.recovery = recovery, !.owner = w,
                   !.attempt = row[j].attempt + 1, !.ttl = LeaseTicks]

\* Mutant: the renewal forgets the recovery slot.
NoSlotsRenewed(j, w, attempt) == slot

\* The slots of a renewed attempt get the new expiry (RenewLease).
RenewedSlots(j, w, attempt) ==
    [s \in Slots |->
        IF slot[s].job = j /\ slot[s].worker = w /\ slot[s].attempt = attempt
        THEN [slot[s] EXCEPT !.ttl = LeaseTicks] ELSE slot[s]]

\* The slots of a finished attempt are cleared.
ReleasedSlots(j, w, attempt) ==
    [s \in Slots |->
        IF slot[s].job = j /\ slot[s].worker = w /\ slot[s].attempt = attempt
        THEN FreeSlot ELSE slot[s]]

\* The memory token of process w for job j (mcpJobLeaseMatches).
HoldsInMemory(w, j, attempt) ==
    /\ Known(w, j)
    /\ cache[w][j].owner = w
    /\ cache[w][j].attempt = attempt

NewRun(w, j, attempt, recovered) ==
    [proc |-> w, job |-> j, born |-> attempt, attempt |-> attempt,
     recovered |-> recovered, live |-> TRUE, at |-> "new"]
RunsOf(w)    == {r \in runs : r.proc = w}
Replace(r, s) == (runs \ {r}) \cup {s}

\* mcpJobCancels[j] of process w belongs to the last run started for the job.
WithCancelled(w, js) ==
    {IF r.proc = w /\ r.job \in js /\ Known(w, r.job)
        /\ r.born = cache[w][r.job].attempt
     THEN [r EXCEPT !.live = FALSE] ELSE r : r \in runs}
-----------------------------------------------------------------------------
(* Processes *)

\* NewAppServiceWithJobStore / restoreMCPJobs: List the durable jobs, with the
\* lease of whichever process holds it, into memory.
Start(w) ==
    /\ proc[w] = "off"
    /\ SingleInstance => \A v \in Workers : proc[v] \in {"off", "down"}
    /\ proc' = [proc EXCEPT ![w] = "up"]
    /\ cache' = [cache EXCEPT ![w] = [j \in Jobs |->
                    IF Exists(j) THEN CopyOf(row[j]) ELSE NoCopy]]
    /\ UNCHANGED <<row, slot, runs, creating, retrying, pending, links,
                   releasing, toRelease, asked, faults>>

\* Requests that are already being served go on during a shutdown: the deadline
\* http.Server.Shutdown gets in main.go was set when the server started.
Serving(w) == proc[w] \in {"up", "stopping", "sweeping"}

\* ensureMCPJobLoaded: a job another process created enters the memory.
Load(w, j) ==
    /\ Serving(w)
    /\ creating[w] = {}
    /\ ~Known(w, j)
    /\ Exists(j)
    /\ cache' = [cache EXCEPT ![w][j] = CopyOf(row[j])]
    /\ UNCHANGED <<row, slot, proc, runs, creating, retrying, pending, links,
                   releasing, toRelease, asked, faults>>

\* The process dies: goroutines, memory and half-done handlers are gone.
Crash(w) ==
    /\ w \notin Stable
    /\ proc[w] \in {"up", "stopping", "sweeping"}
    /\ proc' = [proc EXCEPT ![w] = "down"]
    /\ runs' = runs \ RunsOf(w)
    /\ cache' = [cache EXCEPT ![w] = [j \in Jobs |-> NoCopy]]
    /\ creating' = [creating EXCEPT ![w] = {}]
    /\ retrying' = [retrying EXCEPT ![w] = {}]
    /\ pending' = [pending EXCEPT ![w] = {}]
    /\ links' = [links EXCEPT ![w] = {}]
    /\ releasing' = [releasing EXCEPT ![w] = {}]
    /\ toRelease' = [toRelease EXCEPT ![w] = {}]
    /\ UNCHANGED <<row, slot, asked, faults>>

Aged(n) == IF n = 0 THEN 0 ELSE n - 1

\* Time passes.  Without Stalls the heartbeat of a live worker (every 10s
\* against a 30s lease) comes before its lease lapses, and a claimed job is
\* started within its lease.
Tick ==
    /\ \/ \E j \in Jobs : row[j].ttl > 0
       \/ \E s \in Slots : slot[s].ttl > 0
    /\ ~Stalls => \A r \in runs :
          r.live /\ LeaseOwned(r.job, r.proc, r.attempt) => row[r.job].ttl > 1
    /\ ~Stalls => \A w \in Workers : \A p \in pending[w] :
          LeaseOwned(p.job, w, p.copy.attempt) => row[p.job].ttl > 1
    /\ row' = [j \in Jobs |-> [row[j] EXCEPT !.ttl = Aged(row[j].ttl)]]
    /\ slot' = [s \in Slots |-> [slot[s] EXCEPT !.ttl = Aged(slot[s].ttl)]]
    /\ UNCHANGED <<proc, cache, runs, creating, retrying, pending, links,
                   releasing, toRelease, asked, faults>>
-----------------------------------------------------------------------------
(* Registration: registerMCPJobWithDescriptorAndItems, under the lifecycle *)
(* lock; parent # Null when RetryMCPJobAs starts the child of a retry.     *)

\* The guards of RetryMCPJobAs, on the copy in memory.
Retryable(w, j) ==
    /\ Known(w, j)
    /\ cache[w][j].status = "failed"
    /\ cache[w][j].retryable
    /\ cache[w][j].retries < MaxRetries
    /\ j \notin retrying[w]

RegisterCreate(w, j, parent) ==
    /\ proc[w] = "up"
    /\ creating[w] = {} /\ pending[w] = {}
    /\ row[j].status = "absent"
    /\ parent # Null => Retryable(w, parent)
    /\ row' = [row EXCEPT ![j] = [NoRow EXCEPT !.status = "queued",
                                   !.retryable = TRUE, !.resumable = TRUE]]
    /\ creating' = [creating EXCEPT ![w] = {[job |-> j, parent |-> parent,
          count |-> IF parent = Null THEN 0 ELSE cache[w][parent].retries + 1]}]
    /\ retrying' = [retrying EXCEPT ![w] = @ \cup ({parent} \ {Null})]
    /\ UNCHANGED <<slot, proc, cache, runs, pending, links, releasing,
                   toRelease, asked, faults>>

\* pruneMCPJobsLocked: terminal copies leave a full memory, oldest first (any
\* order here); one with a child still there is skipped.
Evicted(mem) ==
    LET known     == {j \in Jobs : mem[j] # NoCopy}
        evictable == {j \in known : mem[j].status \in Terminal}
        kids(j)   == {c \in known : mem[c].parent = j}
    IN {gone \in SUBSET evictable :
          /\ \A j \in gone : kids(j) \subseteq gone
          /\ gone # {} => Cardinality(known \ gone) >= MemoryKeep
          /\ Cardinality(known \ gone) > MemoryKeep =>
                {j \in evictable : kids(j) = {}} \subseteq gone}

\* Claim grants the creator the row it inserted, and its worker starts.
RegisterClaim(w) ==
    \E c \in creating[w] :
        LET new == Claimed(c.job, w, "")
            mem == [cache[w] EXCEPT ![c.job] = CopyOf(new)]
        IN
        /\ Claimable(c.job)
        /\ new.attempt <= MaxAttempt
        /\ row' = [row EXCEPT ![c.job] = new]
        /\ \E gone \in Evicted(mem) :
              /\ cache' = [cache EXCEPT ![w] =
                    [j \in Jobs |-> IF j \in gone THEN NoCopy ELSE mem[j]]]
              /\ retrying' = [retrying EXCEPT ![w] = @ \ gone]
        /\ runs' = runs \cup {NewRun(w, c.job, new.attempt, FALSE)}
        /\ links' = [links EXCEPT ![w] = IF c.parent = Null THEN @ ELSE @ \cup
              {[parent |-> c.parent, child |-> c.job, count |-> c.count]}]
        /\ creating' = [creating EXCEPT ![w] = {}]
        /\ UNCHANGED <<slot, proc, pending, releasing, toRelease, asked,
                       faults>>

\* Claim finds the row taken by another process, or fails: the row is deleted,
\* whoever runs it by then, and the request fails.  The error of the deletion is
\* ignored, so a failing store may keep the row.
RegisterUndo(w) ==
    \E c \in creating[w] :
        /\ \/ /\ ~Claimable(c.job) \/ faults < MaxFaults
              /\ row' = [row EXCEPT ![c.job] = Deleted]
              /\ slot' = [s \in Slots |->
                    IF slot[s].job = c.job THEN FreeSlot ELSE slot[s]]
              /\ faults' = IF Claimable(c.job) THEN faults + 1 ELSE faults
           \/ /\ faults < MaxFaults
              /\ faults' = faults + 1
              /\ UNCHANGED <<row, slot>>
        /\ creating' = [creating EXCEPT ![w] = {}]
        /\ retrying' = [retrying EXCEPT ![w] = @ \ {c.parent}]
        /\ UNCHANGED <<proc, cache, runs, pending, links, releasing, toRelease,
                       asked>>

\* Mutant: the parent's retryable column is not checked.
ConsumableAgain(l) ==
    /\ row[l.parent].status = "failed"
    /\ row[l.parent].retries < l.count

\* The compare-and-set on the parent in LinkRetry.
Consumable(l) ==
    /\ row[l.parent].status = "failed"
    /\ row[l.parent].retryable
    /\ row[l.parent].retries < l.count

\* Mutant: memory keeps the copy read before the link.
NotRefreshed(copy, r) == copy

\* The copy in memory after LinkRetry; the lease token in memory is not touched.
Refreshed(copy, r) ==
    IF copy # NoCopy /\ copy.owner # Null
    THEN [CopyOf(r) EXCEPT !.owner = copy.owner, !.attempt = copy.attempt]
    ELSE [CopyOf(r) EXCEPT !.owner = Null]

\* LinkRetry, in one transaction: consume the retryable failed parent, relate
\* the child to it, whoever leases the child.  When another retry consumed the
\* parent, the child is cancelled.
LinkRetry(w) ==
    \E l \in links[w] :
        /\ links' = [links EXCEPT ![w] = @ \ {l}]
        /\ retrying' = [retrying EXCEPT ![w] = @ \ {l.parent}]
        /\ \/ /\ Consumable(l) /\ Exists(l.child)
              /\ LET parent == [row[l.parent] EXCEPT !.retryable = FALSE]
                     child  == [row[l.child] EXCEPT
                                  !.retries = l.count, !.parent = l.parent,
                                  !.retryable = \/ @
                                                \/ /\ row[l.child].status = "failed"
                                                   /\ l.count < MaxRetries]
                 IN row' = [row EXCEPT ![l.parent] = parent, ![l.child] = child]
              /\ cache' = [cache EXCEPT ![w] = [j \in Jobs |->
                    IF j \in {l.parent, l.child}
                    THEN Refreshed(cache[w][j], row'[j]) ELSE cache[w][j]]]
              /\ UNCHANGED <<runs, asked>>
           \/ /\ ~(Consumable(l) /\ Exists(l.child))
              /\ runs' = WithCancelled(w, {l.child})
              /\ asked' = asked \cup {l.child}
              /\ UNCHANGED <<row, cache>>
        /\ UNCHANGED <<slot, proc, creating, pending, releasing, toRelease,
                       faults>>
-----------------------------------------------------------------------------
(* Recovery: claimRecoverableMCPJobs, at start and from the 5s monitor *)

\* Mutants: a slot counts as free a tick early, or only when it was released.
FreeSlotsEarly    == {s \in Slots : slot[s].worker = Null \/ slot[s].ttl <= 1}
FreeSlotsReleased == {s \in Slots : slot[s].worker = Null}

FreeSlots == {s \in Slots : slot[s].worker = Null \/ slot[s].ttl = 0}

\* claimRecoverableOne: one transaction takes a free or expired slot, claims a
\* recoverable job and binds the slot to the new attempt.  The in-process limit
\* (mcpJobRecoverySlots) leaves room for the goroutine.  The scan takes the job
\* with the oldest updated_at; any recoverable job stands for it here.
ClaimRecoverable(w) ==
    /\ proc[w] = "up"
    /\ creating[w] = {}
    /\ Cardinality({r \in RunsOf(w) : r.recovered}) + Cardinality(pending[w])
          < Cardinality(Slots)
    /\ \E s \in FreeSlots, j \in Jobs :
          LET new == Claimed(j, w, "recovering") IN
          /\ \A t \in FreeSlots : s <= t
          /\ Claimable(j)
          /\ new.attempt <= MaxAttempt
          /\ row' = [row EXCEPT ![j] = new]
          /\ slot' = [slot EXCEPT ![s] = [worker |-> w, job |-> j,
                        attempt |-> new.attempt, ttl |-> LeaseTicks]]
          /\ pending' = [pending EXCEPT ![w] =
                @ \cup {[job |-> j, copy |-> CopyOf(new)]}]
    /\ UNCHANGED <<proc, cache, runs, creating, retrying, links, releasing,
                   toRelease, asked, faults>>

\* claimRecoverableOne with no job to recover: an expired slot is left cleared.
ClearExpiredSlot(w) ==
    /\ proc[w] = "up"
    /\ creating[w] = {}
    /\ \A j \in Jobs : ~Claimable(j)
    /\ \E s \in FreeSlots :
          /\ \A t \in FreeSlots : s <= t
          /\ slot[s] # FreeSlot
          /\ slot' = [slot EXCEPT ![s] = FreeSlot]
    /\ UNCHANGED <<row, proc, cache, runs, creating, retrying, pending, links,
                   releasing, toRelease, asked, faults>>

\* startRecoveredMCPJob: the claimed record, read inside the claim's transaction,
\* replaces the copy and the lease in memory, and the worker starts.
StartRecovered(w) ==
    \E p \in pending[w] :
        /\ pending' = [pending EXCEPT ![w] = @ \ {p}]
        /\ cache' = [cache EXCEPT ![w][p.job] = p.copy]
        /\ runs' = runs \cup {NewRun(w, p.job, p.copy.attempt, TRUE)}
        /\ UNCHANGED <<row, slot, proc, creating, retrying, links, releasing,
                       toRelease, asked, faults>>
-----------------------------------------------------------------------------
(* The worker: runMCPJobWorker and the run functions of each job type *)

\* The goroutine captures its lease from memory when it first runs.  Without one
\* there (the job was cancelled before) every later write is refused.
RunCapture(r) ==
    LET copy == cache[r.proc][r.job] IN
    /\ r.at = "new"
    /\ runs' = Replace(r,
          IF copy # NoCopy /\ copy.owner = r.proc
          THEN [r EXCEPT !.at = "start", !.attempt = copy.attempt]
          ELSE [r EXCEPT !.at = "exit", !.live = FALSE])
    /\ UNCHANGED <<row, slot, proc, cache, creating, retrying, pending, links,
                   releasing, toRelease, asked, faults>>

\* updateMCPJobWithLease to "running"; a refused write is ignored and the worker
\* goes on to the call that indexes.  (The later progress updates write the same
\* columns from the same copy.)
RunStart(r) ==
    LET copy == [cache[r.proc][r.job] EXCEPT !.status = "running",
                    !.recovery = IF @ = "recovering" THEN "recovered" ELSE @]
        granted == /\ HoldsInMemory(r.proc, r.job, r.attempt)
                   /\ cache[r.proc][r.job].status \notin Terminal
                   /\ Owns(r.job, r.proc, r.attempt)
    IN
    /\ r.at = "start"
    /\ runs' = Replace(r, [r EXCEPT !.at = "index"])
    /\ row' = IF granted THEN [row EXCEPT ![r.job] = UpdateState(r.job, copy)]
              ELSE row
    /\ cache' = IF granted THEN [cache EXCEPT ![r.proc][r.job] = copy] ELSE cache
    /\ UNCHANGED <<slot, proc, creating, retrying, pending, links, releasing,
                   toRelease, asked, faults>>

\* Mutant: a process that shuts down may complete a job as cancelled.
NeverLeft(w, status) == FALSE

\* What a shutting down process leaves to the next one.
LeftToNext(w, status) == status = "cancelled" /\ proc[w] = "stopping"

\* completeMCPJobWithLease: refused without effect when a shutdown is not to look
\* like a cancellation, when memory has moved on, or by the store's lease guard.
\* A fault is a failed Update.  The slot is released by a second statement.
Complete(r, status) ==
    LET w    == r.proc
        old  == cache[w][r.job]
        copy == [old EXCEPT !.status = status,
                    !.retryable = /\ status = "failed"
                                  /\ old.resumable
                                  /\ old.retries < MaxRetries,
                    !.resumable = @ /\ status # "cancelled",
                    !.recovery = IF @ = "recovering" THEN "recovered" ELSE @,
                    !.owner = Null]
        granted == /\ ~LeftToNext(w, status)
                   /\ HoldsInMemory(w, r.job, r.attempt)
                   /\ old.status \notin Terminal
                   /\ Owns(r.job, w, r.attempt)
    IN
    /\ runs' = Replace(r, [r EXCEPT !.at = "exit", !.live = FALSE])
    /\ \/ /\ granted
          /\ row' = [row EXCEPT ![r.job] = Update(copy)]
          /\ cache' = [cache EXCEPT ![w][r.job] = copy]
          /\ toRelease' = [toRelease EXCEPT ![w] = @ \cup
                {[job |-> r.job, owner |-> w, attempt |-> r.attempt]}]
          /\ UNCHANGED faults
       \/ /\ ~granted
          /\ UNCHANGED <<row, cache, toRelease, faults>>
       \/ /\ granted
          /\ faults < MaxFaults
          /\ faults' = faults + 1
          /\ UNCHANGED <<row, cache, toRelease>>
    /\ UNCHANGED <<slot, proc, creating, retrying, pending, links, releasing,
                   asked>>

\* runRecoveredMCPJob: the persisted descriptor of a recovered job is invalid.  Memory
\* gives the job up first, whatever lease is there, and unlocks ...
RunRejectDescriptor(r) ==
    /\ r.at = "start"
    /\ r.recovered
    /\ runs' = Replace(r, [r EXCEPT !.at = "reject"])
    /\ cache' = IF Known(r.proc, r.job)
                THEN [cache EXCEPT ![r.proc][r.job].resumable = FALSE] ELSE cache
    /\ UNCHANGED <<row, slot, proc, creating, retrying, pending, links, releasing,
                   toRelease, asked, faults>>

\* ... and then the job is completed as failed.
RunFailRejected(r) ==
    /\ r.at = "reject"
    /\ Complete(r, "failed")

\* Mutant: the context is not consulted when the call returns an error.
OutcomesUnchecked(r) == {"succeeded", "failed"}

\* The indexing call returns.  A reindex job reports cancelled when its context was
\* cancelled or when the call ran into a deadline of its own (12s for an embedding),
\* and failed for any other error of a live context.  An import job reports any error
\* of the call as failed, unless it finds the document indexed, and cancelled only
\* when it looks at a cancelled context itself.
Outcomes(r) ==
    CASE r.job \in Imports /\ r.live     -> {"succeeded", "failed"}
      [] r.job \in Imports /\ ~r.live    -> {"succeeded", "failed", "cancelled"}
      [] r.job \notin Imports /\ r.live  -> {"succeeded", "failed", "cancelled"}
      [] r.job \notin Imports /\ ~r.live -> {"succeeded", "cancelled"}

RunFinish(r) ==
    /\ r.at = "index"
    /\ \E status \in Outcomes(r) : Complete(r, status)

\* The heartbeat goroutine: RenewLease extends job and slot in one transaction;
\* when the lease is no longer owned, the worker's context is cancelled.
Heartbeat(r) ==
    /\ r.at \in {"start", "reject", "index"}
    /\ r.live
    /\ \/ /\ LeaseOwned(r.job, r.proc, r.attempt)
          /\ row[r.job].ttl < LeaseTicks
          /\ row' = [row EXCEPT ![r.job].ttl = LeaseTicks]
          /\ slot' = RenewedSlots(r.job, r.proc, r.attempt)
          /\ UNCHANGED runs
       \/ /\ ~LeaseOwned(r.job, r.proc, r.attempt)
          /\ runs' = Replace(r, [r EXCEPT !.live = FALSE])
          /\ UNCHANGED <<row, slot>>
    /\ UNCHANGED <<proc, cache, creating, retrying, pending, links, releasing,
                   toRelease, asked, faults>>

\* The renewal itself fails (SQLite, or the lease of a staged upload): the
\* worker is stopped although it still holds the job's lease.
HeartbeatFault(r) ==
    /\ r.at \in {"start", "reject", "index"}
    /\ r.live
    /\ faults < MaxFaults
    /\ faults' = faults + 1
    /\ runs' = Replace(r, [r EXCEPT !.live = FALSE])
    /\ UNCHANGED <<row, slot, proc, cache, creating, retrying, pending, links,
                   releasing, toRelease, asked>>

\* ReleaseRecoverySlot: by owner and attempt, after the row was written.
ReleaseRecoverySlot(w) ==
    \E t \in toRelease[w] :
        /\ toRelease' = [toRelease EXCEPT ![w] = @ \ {t}]
        /\ slot' = ReleasedSlots(t.job, t.owner, t.attempt)
        /\ UNCHANGED <<row, proc, cache, runs, creating, retrying, pending,
                       links, releasing, asked, faults>>

\* The worker function has returned.  During a shutdown it gives its lease back:
\* releaseMCPJobLeaseForLease reads the job under the memory lock ...
RunExit(r) ==
    /\ r.at = "exit"
    /\ runs' = runs \ {r}
    /\ releasing' = [releasing EXCEPT ![r.proc] =
          IF proc[r.proc] = "stopping" /\ HoldsInMemory(r.proc, r.job, r.attempt)
          THEN @ \cup {[job |-> r.job, copy |-> cache[r.proc][r.job]]} ELSE @]
    /\ UNCHANGED <<row, slot, proc, cache, creating, retrying, pending, links,
                   toRelease, asked, faults>>

\* ... and writes what it read, without that lock: the job goes back to the queue
\* without a lease, guarded by the lease it read.  A refused write is given up.
ReleaseLease(w) ==
    \E p \in releasing[w] :
        LET old  == p.copy
            done == old.status \in Terminal
            copy == [old EXCEPT !.status = IF done THEN @ ELSE "queued",
                                !.recovery = IF done THEN @ ELSE "shutdown",
                                !.owner = Null]
        IN
        /\ old # NoCopy
        /\ releasing' = [releasing EXCEPT ![w] = @ \ {p}]
        /\ \/ /\ Owns(p.job, old.owner, old.attempt)
              /\ row' = [row EXCEPT ![p.job] = Update(copy)]
              /\ cache' = [cache EXCEPT ![w][p.job] =
                    IF Known(w, p.job) /\ @.status \notin Terminal THEN copy ELSE @]
              /\ toRelease' = [toRelease EXCEPT ![w] = @ \cup
                    {[job |-> p.job, owner |-> old.owner, attempt |-> old.attempt]}]
           \/ /\ ~Owns(p.job, old.owner, old.attempt)
              /\ UNCHANGED <<row, cache, toRelease>>
        /\ UNCHANGED <<slot, proc, runs, creating, retrying, pending, links,
                       asked, faults>>
-----------------------------------------------------------------------------
(* Requests and shutdown *)

\* CancelMCPJobAs: the terminal write needs the lease in memory to be the stored
\* one, whichever process it belongs to; otherwise the request fails.
Cancel(w, j) ==
    LET old  == cache[w][j]
        copy == [old EXCEPT !.status = "cancelled", !.retryable = FALSE,
                            !.resumable = FALSE, !.owner = Null]
    IN
    /\ Cancels /\ Serving(w)
    /\ creating[w] = {}
    /\ Known(w, j)
    /\ old.status \in Active
    /\ Owns(j, old.owner, old.attempt)
    /\ row' = [row EXCEPT ![j] = Update(copy)]
    /\ cache' = [cache EXCEPT ![w][j] = copy]
    /\ toRelease' = [toRelease EXCEPT ![w] = IF old.owner = Null THEN @ ELSE @ \cup
          {[job |-> j, owner |-> old.owner, attempt |-> old.attempt]}]
    /\ runs' = WithCancelled(w, {j})
    /\ asked' = asked \cup {j}
    /\ UNCHANGED <<slot, proc, creating, retrying, pending, links, releasing,
                   faults>>

\* ShutdownJobs: no more registrations or scans, every worker is told to stop.
Shutdown(w) ==
    /\ Graceful
    /\ w \notin Stable
    /\ proc[w] = "up"
    /\ creating[w] = {} /\ pending[w] = {}
    /\ proc' = [proc EXCEPT ![w] = "stopping"]
    /\ runs' = WithCancelled(w, Jobs)
    /\ UNCHANGED <<row, slot, cache, creating, retrying, pending, links,
                   releasing, toRelease, asked, faults>>

\* releaseMCPJobLeases, once every worker has returned: it lists every lease in
\* memory, also one that restoreMCPJobs read from another process's row ...
ShutdownSweep(w) ==
    /\ proc[w] = "stopping"
    /\ RunsOf(w) = {} /\ releasing[w] = {} /\ toRelease[w] = {}
    /\ proc' = [proc EXCEPT ![w] = "sweeping"]
    /\ releasing' = [releasing EXCEPT ![w] = {[job |-> j, copy |-> NoCopy] :
          j \in {j \in Jobs : Known(w, j) /\ cache[w][j].owner # Null}}]
    /\ UNCHANGED <<row, slot, cache, runs, creating, retrying, pending, links,
                   toRelease, asked, faults>>

\* ... and releases them one by one (ReleaseLease), each as memory has it by then.
ShutdownReadLease(w) ==
    \E p \in releasing[w] :
        /\ p.copy = NoCopy
        /\ releasing' = [releasing EXCEPT ![w] = (@ \ {p}) \cup
              IF Known(w, p.job) /\ cache[w][p.job].owner # Null
              THEN {[job |-> p.job, copy |-> cache[w][p.job]]} ELSE {}]
        /\ UNCHANGED <<row, slot, proc, cache, runs, creating, retrying,
                       pending, links, toRelease, asked, faults>>

\* The process ends, and with it the requests still being served.
ShutdownDone(w) ==
    /\ proc[w] = "sweeping"
    /\ releasing[w] = {} /\ toRelease[w] = {}
    /\ proc' = [proc EXCEPT ![w] = "down"]
    /\ cache' = [cache EXCEPT ![w] = [j \in Jobs |-> NoCopy]]
    /\ retrying' = [retrying EXCEPT ![w] = {}]
    /\ links' = [links EXCEPT ![w] = {}]
    /\ UNCHANGED <<row, slot, runs, creating, pending, releasing, toRelease,
                   asked, faults>>

\* Mutant: retry ancestors are pruned like any terminal job.
ProtectedNone == {}

\* The jobs some stored row names as its parent.
Protected == {row[c].parent : c \in {c \in Jobs : Exists(c)}}

\* PruneWithCount: of the unprotected terminal jobs all but Keep are deleted (the
\* newest stay; here any Keep of them may be newest).
Prune(w) ==
    LET candidates == {j \in Jobs : row[j].status \in Terminal} \ Protected IN
    /\ proc[w] = "up"
    /\ Cardinality(candidates) > Keep
    /\ \E kept \in SUBSET candidates :
          /\ Cardinality(kept) = Keep
          /\ row' = [j \in Jobs |->
                IF j \in candidates \ kept THEN Deleted ELSE row[j]]
    /\ UNCHANGED <<slot, proc, cache, runs, creating, retrying, pending, links,
                   releasing, toRelease, asked, faults>>
-----------------------------------------------------------------------------
RunStep(r) ==
    \/ RunCapture(r) \/ RunStart(r) \/ RunRejectDescriptor(r)
    \/ RunFailRejected(r) \/ RunFinish(r) \/ RunExit(r)

\* What the process does on its own once it is up.
ProcessStep(w) ==
    \/ RegisterClaim(w) \/ RegisterUndo(w) \/ LinkRetry(w) \/ ClaimRecoverable(w)
    \/ ClearExpiredSlot(w) \/ StartRecovered(w) \/ ReleaseRecoverySlot(w)
    \/ ReleaseLease(w) \/ ShutdownSweep(w) \/ ShutdownReadLease(w)
    \/ ShutdownDone(w)

\* What a client, the operator or the environment may do.
Request(w) ==
    \/ \E j \in Jobs, parent \in Jobs \cup {Null} : RegisterCreate(w, j, parent)
    \/ \E j \in Jobs : Load(w, j) \/ Cancel(w, j)
    \/ Crash(w) \/ Shutdown(w) \/ Prune(w)

Next ==
    \/ \E w \in Workers : Start(w) \/ ProcessStep(w) \/ Request(w)
    \/ \E r \in runs : RunStep(r) \/ Heartbeat(r) \/ HeartbeatFault(r)
    \/ Tick

Spec == Init /\ [][Next]_vars

\* Fairness, one condition per kind of goroutine: some handler of a registration, the
\* recovery monitor, whoever gives leases and slots back, some worker and some
\* heartbeat keep being scheduled while their process runs; time passes, and a stable
\* incarnation is eventually started.  Nothing is assumed of clients, operators,
\* crashes or faults.
Fairness ==
    /\ WF_vars(Tick)
    /\ \A w \in Workers :
          /\ WF_vars(RegisterClaim(w) \/ RegisterUndo(w) \/ LinkRetry(w))
          /\ WF_vars(ClaimRecoverable(w) \/ StartRecovered(w))
          /\ WF_vars(ReleaseRecoverySlot(w) \/ ReleaseLease(w) \/ ShutdownSweep(w)
                      \/ ShutdownReadLease(w) \/ ShutdownDone(w))
          /\ WF_vars(\E r \in RunsOf(w) : RunStep(r))
          /\ WF_vars(\E r \in RunsOf(w) : Heartbeat(r))
    /\ \A w \in Stable : WF_vars(Start(w))

FairSpec == Spec /\ Fairness
-----------------------------------------------------------------------------
(* Properties *)

\* Type invariant: every variable stays in its domain, and no lease of a job or of a
\* slot has more time left than a claim or a renewal grants.
TypeOK ==
    /\ row \in [Jobs -> Row]
    /\ slot \in [Slots -> [worker: Workers \cup {Null}, job: Jobs \cup {Null},
                           attempt: Nat, ttl: 0..LeaseTicks]]
    /\ proc \in [Workers -> {"off", "up", "stopping", "sweeping", "down"}]
    /\ cache \in [Workers -> [Jobs -> Copy \cup {NoCopy}]]
    /\ runs \subseteq Run
    /\ creating \in [Workers -> SUBSET [job: Jobs, parent: Jobs \cup {Null},
                                        count: Nat]]
    /\ retrying \in [Workers -> SUBSET Jobs]
    /\ pending \in [Workers -> SUBSET [job: Jobs, copy: Copy]]
    /\ links \in [Workers -> SUBSET [parent: Jobs, child: Jobs, count: Nat]]
    /\ releasing \in [Workers -> SUBSET [job: Jobs, copy: Copy \cup {NoCopy}]]
    /\ toRelease \in [Workers -> SUBSET Token]
    /\ asked \subseteq Jobs
    /\ faults \in Nat

\* A job whose unexpired lease was granted by the recovery scan.
RecoveredLive(j) ==
    /\ row[j].status \in Active
    /\ row[j].recovery \in {"recovering", "recovered"}
    /\ row[j].owner # Null
    /\ row[j].ttl > 0

\* Every recovered job with a live lease holds a recovery slot of its own, bound
\* to the same owner and attempt and expiring with the lease: a slot is never
\* freed, stolen or left to expire while the attempt it was taken for is alive.
SlotBinding ==
    \A j \in Jobs : RecoveredLive(j) =>
        \E s \in Slots : slot[s] = [worker |-> row[j].owner, job |-> j,
                                    attempt |-> row[j].attempt, ttl |-> row[j].ttl]

\* ClaimRecoverableLimited: the limit on recovered jobs "is enforced across
\* processes sharing the same SQLite Job Store".
RecoveryLimit == Cardinality({j \in Jobs : RecoveredLive(j)}) <= Cardinality(Slots)

\* While heartbeats are on time, no two live workers ever execute the same job.
OneLiveWorker ==
    \A r1, r2 \in runs :
        /\ r1.job = r2.job
        /\ r1.live /\ r1.at # "exit"
        /\ r2.live /\ r2.at # "exit"
        => r1 = r2

\* A job that reached a terminal state keeps it until it is pruned, whatever a
\* stale worker, a stale copy in memory or a late cancellation still writes.
TerminalIsFinal ==
    [][\A j \in Jobs : row[j].status \in Terminal =>
          row'[j].status \in {row[j].status, "pruned"}]_vars

\* While one process at a time works on the store, two retries of one job never count
\* the same: requests that race for it, in memory or across a restart, get one child
\* between them.  (A job that is retried before LinkRetry has counted it is given back
\* once and has a second child, with a higher count.)
RetryOnce ==
    \A c1, c2 \in Jobs :
        /\ Exists(c1) /\ Exists(c2)
        /\ row[c1].parent # Null
        /\ row[c1].parent = row[c2].parent
        /\ row[c1].retries = row[c2].retries
        => c1 = c2

\* Retry chains, while one process at a time works on the store: the parent of a retry
\* is still stored (Prune spares it) and failed; the retry counts one more than its
\* parent, which is then consumed, or was started before its parent was counted, and
\* then counts no more than it; nothing counts more than mcpJobMaxRetries.
RetryChain ==
    \A c \in Jobs : Exists(c) /\ row[c].parent # Null =>
        LET parent == row[row[c].parent] IN
        /\ Exists(row[c].parent)
        /\ parent.status = "failed"
        /\ \/ row[c].retries = parent.retries + 1 /\ ~parent.retryable
           \/ row[c].retries <= parent.retries
        /\ row[c].retries \in 1..MaxRetries

\* While renewals do not fail, a job becomes cancelled at a client's request (or as the
\* loser of a retry race), or by its own worker that nobody interrupted, holding the
\* job's current lease, when a call inside it ran into a deadline.  Neither a shutdown,
\* a lost lease nor a worker that was overtaken cancels a job.
CancelledByHolder ==
    [][\A j \in Jobs : row[j].status # "cancelled" /\ row'[j].status = "cancelled" =>
          \/ j \in asked'
          \/ \E r \in runs : /\ r.job = j /\ r.live
                              /\ LeaseOwned(j, r.proc, r.attempt)]_vars

\* A worker interrupted by ShutdownJobs leaves its job to the next process: the
\* job does not end as failed or cancelled unless a client asked for it.
ShutdownKeepsJob ==
    [][\A r \in runs \ runs' :
          /\ r.at = "index" /\ ~r.live
          /\ proc[r.proc] = "stopping"
          /\ LeaseOwned(r.job, r.proc, r.attempt)
          => \/ row'[r.job].status \notin {"failed", "cancelled"}
             \/ r.job \in asked]_vars

\* A stored job no scan may claim although it never ended: its descriptor was rejected,
\* the terminal write failed, and a shutdown put the copy in memory back in the queue.
Shelved(j) == row[j].status \in Active /\ ~row[j].resumable

\* Every stored job ends or is shelved, across crashes, shutdowns, lost leases, rejected
\* descriptors and failed writes.
EventuallyTerminal ==
    \A j \in Jobs : Exists(j) ~> (row[j].status \notin Active \/ Shelved(j))

\* A slot bound to a dead attempt is usable again.
SlotsRecycled ==
    \A s \in Slots : slot[s] # FreeSlot ~> s \in FreeSlots
=============================================================================
