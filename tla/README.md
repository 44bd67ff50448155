# A verification project for LocalRAG

TLA+ models of the Go backend of LocalRAG (`src/backend`), the TLC
configurations that check them on small instances, and TLAPS proofs of the
properties that hold for every size. Every definition is translated from the
code; `PROJECT.json` gives for each one the lines it stands for.

Contents: [the system](#1-the-system) · [the modules](#2-the-modules) ·
[the runs](#3-the-runs) · [bounds](#4-bounds-and-why-they-are-enough) ·
[fairness](#5-fairness) · [proofs](#6-proofs) · [findings](#7-findings) ·
[seen while modelling](#8-seen-while-modelling) ·
[not modelled](#9-not-modelled) · [plan](#10-plan)

## 1. The system

LocalRAG is one server process with an HTTP API and an MCP endpoint. Documents
are uploaded, staged, indexed (text, chunks, embeddings, points in Qdrant) and
retrieved for a chat. Long work runs as *durable jobs* that survive the process.

| component | state | operations | module |
|---|---|---|---|
| job store (`mcp_job_store.go`) | SQLite: `mcp_jobs`, `mcp_job_recovery_slots` | Create, Claim, ClaimRecoverable, RenewLease, Update, LinkRetry, ReleaseRecoverySlot, Prune, Delete | MCPJobs |
| job manager (`app_service.go`) | `mcpJobs`, `mcpJobLeases`, `mcpJobRetrying`, a goroutine per worker, a monitor | register, run with a heartbeat, complete, retry, cancel, recover, shut down, restore | MCPJobs |
| batch index jobs (`app_service.go`, `mcp_job_items.go`) | `mcp_job_items`, a pool of workers per run | prepare, load, hand out, mark, checkpoint, cancel, aggregate | BatchIndex |
| upload staging (`upload_staging_service.go`) | a manifest and staged files | stage, claim, renew, release, consume, delete, clean up, reload | UploadStaging |
| index operations (`index_operation.go`, `index_idempotency.go`, `indexed_content_store.go`) | fence and marker of each document, reservations, points, extracted contents | reserve, begin, commit, undo, fail, abort, retire | KnowledgeIndex |
| application state (`app_state_store.go`, `app_service.go`) | knowledge bases, documents, configuration: in memory and in one JSON file | create, delete, save, undo, restart | KnowledgeIndex, AuthSessions, EvalDatasets (each the part it needs) |
| retrieval (`rag_service.go`, `retrieval_*.go`, `semantic_cache.go`, `reranker.go`, `evidence.go`) | a cache in memory | resolve, look up, filter, search, select, follow up; fuse, rerank, choose, gate, cut | Retrieval, Ranking |
| model runtime (`model_runtime_gate.go`, `resilience.go`, `llm_service.go`) | two queues, one goroutine | enqueue, take, call, retry, stream, give up | ModelRuntime |
| chat history (`chat_history_store.go`, `clear_conversations.go`) | SQLite conversations, a lifecycle lock | save, chat, edit, delete, clear | ChatHistory |
| authentication (`auth_service.go`) | the root user, sessions and API keys, part of the state file | set up, log in, change the password, log out, make and revoke keys | AuthSessions |
| MCP server (`internal/mcp`) and confirmations | rate windows, nonces in memory, the table of tools | admit, authorize, confirm, run, start and retry jobs | McpCalls, McpTools |
| evaluation (`eval_dataset_generator.go`, `eval_run_service.go`) | datasets and runs, part of the state file | generate, edit, review, run, prune, delete | EvalDatasets |
| parsing and chunking, clients of Qdrant and of the models, HTTP handlers, frontend | – | data handling and I/O | [not modelled](#9-not-modelled) |

**Interaction.** A request registers a job: a row is created, then claimed
(owner, attempt, lease of 30 s), then a goroutine runs it while a heartbeat
(every 10 s) renews the lease. A monitor (every 5 s) claims jobs whose lease has
expired, at most as many at a time as there are recovery slots (4). A batch job
claims each staged upload with a lease of its own, asks for a reservation of its
content, begins an index operation, commits it, consumes the upload and writes a
checkpoint: five stores, one after the other, each guarded by the attempt that
holds the job. An index operation writes a generation of points and contents
beside the visible one, switches the document's fence in the state, saves the
state file and retires the old generation. A search reads the state for the
fences it filters by, and once more to drop what was replaced meanwhile.

**What is hard.** Handlers take a lock, copy, unlock and write later. One logical
step is several transactions, with a crash possible between any two. A save
writes the state of all requests, and its failure is undone in memory by the one
that noticed. Workers whose lease lapsed go on running. A graceful shutdown uses
the same cancelled context as a user's cancellation. Retries form chains whose
links are written after the child already runs. `PROJECT.json` lists these
hazards, each at its line, with the properties that would notice it going wrong.

**What makes each component correct.**
*Jobs*: an attempt alone writes its job; a finished job stays finished; no more
recovered jobs than slots; requests that race for a retry get one child between
them; a shutdown is not a cancellation; every job ends.
*Batches*: no file is lost, indexed twice, or reported as indexed when it is not;
stale attempts change nothing; every batch ends.
*Staging*: one holder per upload; a source is deleted only when it is no longer
needed; quotas hold; the directory empties.
*Index operations*: the visible generation is complete; what was acknowledged
stays; what failed never shows; no generation is lost.
*Retrieval*: an answer shows nothing its scope did not show while the request was
at work; what is kept does not depend on who answered first.
*Runtime*: every caller has one job and one answer; a stream is not repeated.
*Conversations*: a clear is final, a scope is kept.
*Account*: a session lives no longer than its password; a revocation is final.
*MCP*: a nonce runs one operation, once; nothing is changed without its scope.
*Evaluation*: what was reported as saved is kept, what was deleted stays deleted.

## 2. The modules

Each module holds the mutants of its definitions beside them (marked `Mutant:`):
plausible bugs under which TLC finds one of its properties violated.

### MCPJobs

The job store and the handlers over it. Every SQL statement or transaction is one
atomic step; a handler that issues several is several steps. Several process
incarnations share the store.

| variable | in the code |
|---|---|
| `row` | table `mcp_jobs`; `ttl` is `lease_expires_at` minus now, in ticks; `resumable` is whether a scan may claim it |
| `slot` | table `mcp_job_recovery_slots` |
| `proc` | a process: up, `ShutdownJobs` called, sweeping leases, gone |
| `cache` | `mcpJobs` and `mcpJobLeases` of a process |
| `runs` | `runMCPJobWorker` goroutines, with the lease they captured and their context |
| `creating`, `links`, `pending`, `releasing`, `toRelease`, `retrying` | handlers between two statements |
| `asked`, `faults` | observers: cancellations requested, faults injected |

Actions, by group: registration (`RegisterCreate`, `RegisterClaim`,
`RegisterUndo`), retry (`LinkRetry`), recovery (`ClaimRecoverable`,
`ClearExpiredSlot`, `StartRecovered`), a worker (`RunCapture`, `RunStart`,
`RunRejectDescriptor`, `RunFailRejected`, `RunFinish`, `Heartbeat`, `HeartbeatFault`, `RunExit`,
`ReleaseLease`, `ReleaseRecoverySlot`), `Cancel`, shutdown (`Shutdown`,
`ShutdownSweep`, `ShutdownReadLease`, `ShutdownDone`), `Prune`, and the
environment (`Start`, `Load`, `Crash`, `Tick`). What a worker does inside its
indexing call is one state, `index`. A call that ran into a deadline of its own (12 s
for one embedding) makes a reindex or evaluation job cancelled though its context is
live, so `Outcomes` of a live run has "cancelled". A recovered job whose descriptor is
invalid is rejected in two steps, as in the code: `RunRejectDescriptor` takes
`resumable` away in memory, and after the unlock `RunFailRejected` writes the end.

Constants choose the environment: `SingleInstance` (the documented deployment: a
process starts when no other runs), `Stalls` (a live process may miss its
heartbeats), `Graceful` (`ShutdownJobs` may be called), `Cancels`, `Stable`
(processes that do not die), `Imports` (jobs run by the import worker).

### BatchIndex

One batch job with its retry, through every process that works on it. The row of
the job, which MCPJobs models in full, is reduced to its status, its attempt and
the state of its lease; in exchange a run is modelled down to each file.

| variable | in the code |
|---|---|
| `job`, `batch`, `input` | the row, and the `UploadIDs` and `InputBytes` of its descriptor |
| `item`, `sized` | `mcp_job_items`: status, error code, retryable; which have a checksum and a size |
| `staged` | the staging manifest: status, processing owner, whether the lease is live |
| `docs` | `KnowledgeBases[..].Documents`: upload, attempt that began it, status |
| `run` | `runBatchIndexJobWithLease` of each attempt: its context, idle pool workers, files not handed out, where each file stands |
| `creating`, `cancelling` | the registration and `CancelMCPJobAs` between two transactions |
| `lost`, `faults` | observers: contents deleted by a user or expired, failures so far |

A file passes `Take`, `Mark`, `Claim`, `Check`, `Reserve`, `Begin`, `Index`,
`Commit`, `ConsumeIndexed`, `Checkpoint`, or leaves through `HandleError`; each
is the code between two reads of shared state. Two attempts overlap when a lease
lapses under a live run (`LeaseLapses`, `StagingLapses`); `Heartbeat` is how the
older one finds out. `CancelItems` and `CancelJob` are the two transactions of a
cancellation. An item whose call ran into a deadline ends as cancelled under a live
context, like a job (`HandleError`). An upload is a name with a content, a sum of sizes is the bag of
the contents that were summed, a failure is retryable or not, and time is whether
a lease is still live. A change of the documents in memory and the save that
follows are one step; KnowledgeIndex takes them apart.

### KnowledgeIndex and GenerationCatalog

Knowledge bases, documents and the generations behind them, in four stores that
cannot change together: `mem` (the `AppState`), `disk` (the state file), `points`
(Qdrant) and `contents` (the extracted contents). `op` is what each request is
doing: a step is one call of a store with the checks that follow it, or one
section under the state lock. `StartIndex`, `StartOnDocument`, `Reserve`, `Begin`,
`Work`, `EnsureCollection`, `Scroll`, `Upsert`, `Capture`, `Commit`, their saves
(`...Save`) and undos (`...Undo`), the abort and the retirement of a generation
(`AbortPoints`, `AbortContent`, `RetirePoints`, `RetireContent`), `Fail`,
`Cancel`, the deletion of a document (`Delete...`), the creation and the deletion
of a knowledge base (`Create...`, `Drop...`), `OtherSave` (any other request's
save writes the same file) and `CrashRestart`.

`mode` says which of two hazards a behaviour has: `overlap` (requests run at once,
saves succeed) or `faultySaves` (saves fail, one request at a time). With `both`
the undo of a failed save meets the changes of another request, and the code does
not keep the properties: that is the run KnowledgeUndo and three entries of
[section 8](#8-seen-while-modelling).

GenerationCatalog is the abstract specification: a catalog names at most one
generation of each document, and only what is stored completely. `Catalog` in
KnowledgeIndex is the refinement mapping, from the state file to the catalog and
from contents with their points to what is stored (`INSTANCE ... WITH`), and
`CatalogSpec` the property. Retrieval extends the same catalog: what it assumes
of the index lifecycle is what KnowledgeIndex implements.

### UploadStaging

`items` and `manifest` are the entries in memory and on disk, `files` and `temps`
what is in the directory, `reserved` the uploads being copied. Uploads are
reserved, copied and committed (`StageReserve`, `StageCommit`, `StageFails`),
claimed by workers under a lease (`Claim`, `Renew`, `Fence`, `Lapse`), and
released, consumed or withdrawn (`WorkStep`, `Withdraw`); the cleaner removes
what expired and what no entry names (`CleanStep`); `Crash` and `Reload` lose
memory, and a manifest that cannot be read is kept aside. Every write of the
manifest may fail; the operation that made it puts back what it changed.

### ModelRuntime

`modelRuntimeScheduler` with its two bounded queues and its goroutine (`loop`),
the callers (`call`, `blocked`, `answer`), and the attempts of `retryModelCall`
around a call that may stream (`shown`, `replay`). A caller leaves at any point;
its job stays and runs with an ended context.

### Retrieval and Ranking

Retrieval: one step per read of the catalog, the cache or the vector store, beside
any steps of the catalog. Scores are left out: the best candidates may be any.
Ranking is what Retrieval leaves out: the answers of searches that run at once,
in the order in which they come through a channel (`arrived`), their fusion
(`Collect`: highest score of several queries, or reciprocal rank fusion in
hybrid search), `Rerank`, `SelectChunks` (places per document), `Gate`
(evidence) and `Trim` (the length of the context). Scores are integers in
millionths; a text is its length.

### ChatHistory

Requests on conversations (`Kinds`: chatting, regenerating, saving, editing, deleting) and
`DeleteAllConversations`. The lifecycle lock is `locks` and `writer`: a clear only
tries the write side, and a request that saves takes the read side twice. What is
stored is the scope of a conversation and a version of it.

### AuthSessions

The account in memory (`auth`), in the file (`disk`), and in the copy of a save
that is under way (`saving`). Requests compare and hash passwords between two
steps. A save fails or replaces the file; `Restart` reads it, with a password of
the environment to set up or reset.

### McpCalls and McpTools

McpCalls: admission under the rate of a window, authorization, the confirmation
nonce of a dangerous operation, the run. McpTools: the table of tools with the
scopes they ask for (`RequiredScope`), jobs started under a job type as the caller
spelled it, their retry and cancellation, and which scopes admit what.

### EvalDatasets

Datasets with their cases, and runs, in memory and in the file. A request changes
memory under the lock, saves after the unlock, and puts back what it saw before if
the save failed. `evalMode` separates overlapping requests from failing saves, as
in KnowledgeIndex.

### MC modules and proofs

`MCMCPJobs`, `MCBatchIndex` and `MCKnowledgeIndex` give the constants their
values. `MCServices` holds an instance of each of the nine small modules above;
a behaviour exercises one of them, the one `service` names, so that their states
add up instead of multiplying. The modules named `...Proofs` hold the theorems
(`ServiceProofs` those of McpCalls, McpTools, AuthSessions, Retrieval, ModelRuntime,
ChatHistory and EvalDatasets, `KnowledgeLedgerProofs` the ledger of stored generations
over `KnowledgeIndexProofs`); `FiniteInduction` holds the inductions over numbers and
sets that several of them need.

## 3. The runs

| run | instance | checks |
|---|---|---|
| JobsSingle | 2 jobs, 2 incarnations one after the other, 1 slot, leases of 2 ticks, stalls, crash, shutdown | `TypeOK`, `SlotBinding`, `RecoveryLimit`, `CancelledByHolder`, `TerminalIsFinal`, `ShutdownKeepsJob` |
| JobsOverlap | 2 jobs, 2 processes on one store, heartbeats on time | `OneLiveWorker` |
| JobsRetry | 3 jobs in retry chains, nothing kept by pruning, 1 job in memory | `RetryOnce`, `RetryChain` |
| JobsLive | 2 jobs, crashes or a shutdown, two store faults, fairness | `EventuallyTerminal`, `SlotsRecycled` |
| BatchResume | 2 uploads of one content, 1 pool worker, 2 attempts, a retry, one failure, crash, shutdown, cancellation, deletion, expiry, fairness | `TypeOK`, `NoDuplicateDocument`, `SuccessIsIndexed`, `SourceKept`, `BatchEnds` |
| BatchStall | 2 uploads of one content, 2 pool workers, 2 attempts that may overlap | `CheckpointsFrozen` |
| KnowledgePass | 2 knowledge bases, 2 documents, 2 requests, 3 operations, 2 failing saves or 2 overlapping requests, 2 faults | `TypeOK`, `VisibleComplete`, `AckedKept`, `FailedNotVisible`, `Accounted`, `CatalogSpec` |
| Services | the nine small modules, below | `TypesOK` and 16 others |
| JobsShutdownImport, BatchDuplicate, BatchPool, KnowledgeUndo | the smallest instance of each | one disagreement each, see [findings](#7-findings) |

Services runs, each on an instance of its own:

| `service` | instance | checks |
|---|---|---|
| staging | one upload and one worker with two faults; one upload and two workers with one; two uploads of one principal against a quota of one file | `FileKept`, `UploadKept`, `QuotaKept`, `LeaseRespected`, `Settles` |
| runtime | three callers, one streaming, one of low priority; queues of one | `OneJobEach`, `StreamOnce`, `Settles` |
| search | one document, two generations, one reader, a cache of one entry, one candidate | `AnswersFresh` |
| chat | two requests, one conversation, two scopes | `ClearIsFinal`, `ScopeKept`, `Settles` |
| accounts | two requests, two sessions, one key, two passwords, one fault | `CurrentPasswordOnly`, `KeyRevocationKept` |
| calls | two calls, a user and two of its keys, one nonce, a minute | `DangerConfirmed` |
| tools | two keys and the compatible token, every set of scopes listed in MCServices, one job | `ChangesGranted` |
| datasets | two requests, one dataset of one case, one fault | `EvalsKept` |
| ranking | three chunks of two documents and two texts, three scores, places for two, texts of up to five characters | `RankingSound` |

What they say, in words. *SlotBinding* ties a live recovered attempt to a slot of
its own with the same expiry. *TerminalIsFinal* and *OneLiveWorker* say what late
writers cannot do; *CancelledByHolder* says who cancels a job: a request, the loser of
a retry race, or the uninterrupted worker that holds the lease. *RetryOnce* says that
no two retries of a job count the same, so that racing requests get one child between
them; *RetryChain* keeps the parents stored and failed, and the counts within the limit
and consistent along a chain. *EventuallyTerminal* excepts the one case in which the
code leaves an active job that nothing can claim (`Shelved`,
[section 8](#8-seen-while-modelling)). *SuccessIsIndexed* and *SourceKept* relate the three
stores that a file goes through, whatever is interrupted between them;
*CheckpointsFrozen* is the fence on the checkpoints. *VisibleComplete*,
*AckedKept*, *FailedNotVisible* and *Accounted* relate what readers see in memory,
what the next process will read from the file, and what Qdrant and the content
store hold; *CatalogSpec* is the refinement. *UploadKept* and *FileKept* keep
manifest and directory together across failed writes and unreadable manifests.
*AnswersFresh* compares an answer with everything its scope showed while the
request ran. *ClearIsFinal* and *ScopeKept* are about requests that overtake each
other. *CurrentPasswordOnly* and *KeyRevocationKept* hold in memory and in the
file. *ChangesGranted* follows a job type through three readings of it.
*EvalsKept* relates what was reported, memory and file, and asks once no request is at
work that the two have the same datasets; and the same runs only where no save fails,
since a run whose save failed stays in memory while the caller is told of an error. It
is about requests that overlap or saves that fail, not both. *RankingSound* is the
conjunction of four statements, one per stage of the
pipeline. *Settles* is the liveness of staging, runtime and chat.

`CHECK_DEADLOCK FALSE` is used where the system stops: processes that have all
ended, batches that are over, bounds that are used up. KnowledgePass and
KnowledgeUndo check for deadlock: requests that have all returned are a step of
their own (`Rest`), so a request that waits for ever would be found.

## 4. Bounds, and why they are enough

* Two jobs and one recovery slot are the least for which jobs compete for slots;
  three jobs the least for a chain of two retries and for two racing children.
  Two incarnations give one interruption, which is where a stale copy, lease or
  slot meets its successor; `MaxAttempt = 2` (4 in JobsLive, 1 in JobsRetry) bounds
  the claims of a job. `LeaseTicks = 2` separates "expires at the next tick" from "renewed"; 1
  is used where expiry is not what the run is about.
* Two uploads of one content cover both duplicates inside a pool and duplicates
  across attempts; `Concurrency` 1 serialises the files (the second waits while
  the first fails), 2 lets them race. `Attempts = 2` is one interruption, or one
  retry. The last attempt is not interrupted: crash, shutdown and stalls are
  guarded by `job.attempt < Attempts`, which is a bound and not a claim about the
  code.
* `MaxFence = 4` gives three operations after the initial generation: one that
  indexes again, one that deletes or drops, and one that meets what they left.
  A crash with an operation under way and a second one after it needs two of them.
* A fault more than the one a property is about is allowed where the code handles
  a second one differently (a failed undo, a save that fails again); single faults
  elsewhere. JobsLive has two: one makes the terminal write of a rejected descriptor
  fail, and another interruption may follow it.
* In Services, two actors are what every race in these modules needs, a capacity of
  one makes a queue full and a cache evict, and one key, nonce, dataset or job is
  what the two fight for. Ranking needs three chunks: one that is kept, one that is
  cut, and one that a wrong order would swap.
* `KnowledgePass` uses symmetry over the requests, the safety runs of MCPJobs over
  the jobs: their constants treat all of them alike. The liveness runs use none.
* `Stable` is the second incarnation in JobsSingle, JobsRetry and JobsLive: nothing
  starts after it, so its end would only add states nobody observes. `Cancels` is
  FALSE in JobsRetry: a cancelled job leaves the retry chains.

## 5. Fairness

*MCPJobs*: weak fairness for each kind of goroutine of a process (some handler of a
registration, the monitor, whoever gives leases and slots back, some worker, some
heartbeat), since the Go scheduler runs them; time passes, and a stopped process is
started again. Which of two workers moves is left open, so the properties need no more
than that some worker does. Requests, crashes, shutdowns and faults are not fair.
`Stable` names the last incarnation, which does not die: a process that crashes
for ever ends no job.

*BatchIndex*: the same, and strong fairness for the steps that take the lock of
the jobs (`Recover`, the steps of a run, `ShutdownDone`). A client that cancels a
job with an expired lease again and again takes and returns that lock without
changing anything; Go's mutexes hand the lock to a waiter that has waited for a
millisecond, so others get it. Leases lapse by fairness only when nothing renews
them.

*UploadStaging*: workers and copies return, the cleaner's ticker fires, an
unreadable manifest is read again, uploads expire and leases nobody holds lapse.
*ModelRuntime*: the goroutine runs, and the HTTP client's timeout ends each call;
nothing is assumed of callers. That is enough for those of high priority. Low
priority has none: the code lets it starve, and `Settles` does not say otherwise.
*ChatHistory*: a request that has begun goes on, and a clear that has the lock ends.

## 6. Proofs

Every theorem holds for any sets of processes, jobs, requests, keys and documents and
any values of the bounds. The assumptions are the named `ASSUME`s of the modules
(`JobConstants`, `KnowledgeConstants`, `BatchConstants`, `StagingConstants`,
`CallConstants`, `AuthConstants`, `RuntimeConstants`, `EvalConstants`,
`RetrievalConstants`, `RankingConstants`; the other modules with proofs need none):
which constants are numbers, which sets contain which, that the slots are a finite set
of numbers, that null values are not members of the sets they stand beside; of Ranking,
the ranges in which `validateRetrievalConfig` keeps the limits. TLC evaluates each of
them in a run.

| module | theorem | statement |
|---|---|---|
| MCPJobsProofs | TypeCorrect | `Spec => []TypeOK` |
| MCPJobsProofs | SlotsBound, RecoveryBounded | `Spec => []SlotBinding`, `Spec => []RecoveryLimit` |
| MCPJobsProofs | FinalStatus | with `SingleInstance` or `~Graceful`: `TerminalIsFinal` |
| MCPJobsProofs | OnlyHoldersCancel | with `MaxFaults = 0`: `CancelledByHolder` |
| MCPJobsProofs | OneWorkerPerJob | with `~Stalls`, and `SingleInstance` or `~Graceful`: `[]OneLiveWorker` |
| MCPJobsProofs | ShutdownLeavesJobs | with `Imports = {}`: `ShutdownKeepsJob` |
| MCPJobsProofs | RetriedOnce, ChainsHold | with `SingleInstance`: `[]RetryOnce`, `[]RetryChain` |
| KnowledgeIndexProofs | TypesKept, ShownIsComplete, FailureStaysHidden, ReportedStays, ImplementsCatalog | unless `mode` is `both`: `[]TypeOK`, `[]VisibleComplete`, `[]FailedNotVisible`, `[]AckedKept`, `CatalogSpec` |
| KnowledgeLedgerProofs | NothingLost | unless `mode` is `both`: `[]Accounted` |
| BatchIndexProofs | BatchTypes, StoredOnce, SuccessFounded, NoSourceLost | `Spec => []...` of `TypeOK`, `NoDuplicateDocument`, `SuccessIsIndexed`, `SourceKept` |
| BatchIndexProofs | FinishedIsFinal | `CheckpointsFrozen` |
| UploadStagingProofs | StagingTyped, FilesStay | `[]StagingTypeOK`, `[]FileKept` |
| UploadStagingProofs | UploadsStay, LeasesHold | `UploadKept`, `LeaseRespected` |
| UploadStagingProofs | QuotaRespected | with `KeysApart`: `[]QuotaKept` |
| ServiceProofs (McpTools) | ToolsTyped, ChangesAlwaysGranted | types; `ChangesGranted` |
| ServiceProofs (McpCalls) | CallsTyped, OneRunPerConfirmation | the rate limits; `DangerConfirmed` |
| ServiceProofs (AuthSessions) | AuthTyped, PasswordsCurrent, RevocationsKept | types; `CurrentPasswordOnly`; `KeyRevocationKept` |
| ServiceProofs (Retrieval) | CatalogStored, RetrievalTyped, AnswersAlwaysFresh | of the catalog: `VisibleStored`; of retrieval over it: types, with the limit of the cache; `AnswersFresh` |
| RankingProofs | RankingsTyped, RankingsSound | `[]RankingTypeOK`; `[]RankingSound` |
| ServiceProofs (ModelRuntime) | RuntimeTyped, JobsAreSingle, StreamsAreSingle | types; `[]OneJobEach`; `[]StreamOnce` |
| ServiceProofs (ChatHistory) | ChatTyped, ClearsAreFinal, ScopesKept | types; `[][...]` of `ClearIsFinal` and `ScopeKept` |
| ServiceProofs (EvalDatasets) | EvalTyped, EvalsStay | `[]EvalTypeOK`, with the limit of kept runs; `[]EvalsKept` |

**MCPJobs.** `SlotBinding` alone is not inductive: a late release of a slot, or a
heartbeat with the lease of an older attempt, would break it in an unreachable state.
The inductive invariant is `SlotInv`, the conjunction of `RowsSound` (a stored row
with an owner has been claimed, a pruned one is empty); `MemoryLeases`,
`PendingLeases`, `ReleasingLeases` (a lease that a process remembers, in its cache, in
a claim it has not started or in a release it is about to write, is not ahead of the
row, and if it is the row's attempt it agrees with it); `ReleasesOver` (an attempt
whose slot release is still to be written holds no lease, and never will); and
`SlotBinding`. The argument follows the rows: `RowStep` says what any step may do to a
row, `LeasesStep` that such steps keep what is remembered sound, `SlotQuiet` that a
step which touches neither leases nor slots keeps the binding; the actions that do
touch them have a lemma each. `RecoveryBounded` follows by an injection from recovered
jobs into slots.

The other three share a description of a step. `Fate` says what any step may make of a
row (it is born, kept, taken by a claim, or its lease is yielded), of a copy in memory
(unchanged, evicted, a claim's copy, or as the row is after the step) and of claims and
links; `Onward` says what it may make of a worker (it moves on, stops for a reason, or
begins with a lease). Each action is shown once to have such a fate (`FateStep`,
`OnwardStep`), and no later argument looks at the actions again, save `CancelledRows`,
which asks of every action whether it can cancel a row. `LifeInv` says what a process
in each stage of its life holds.

`TerminalIsFinal` rests on `CopiesSound`: a copy in memory without a lease is of an
attempt whose row had none either and at most was claimed or cancelled since; a copy
that shows an end is of an ended row; a claim not yet started shows its job queued; and
a child still to be linked whose lease is forgotten has ended, or this process gave the
lease back. The last part is why several processes that are shut down gracefully are
excluded: a late link refreshes a released child's copy, without its lease but with the
attempt of the process that runs it by then, and a cancellation with that copy
overwrites the end the other process wrote.

`CancelledByHolder` rests on `CancelInv`: a copy or a release that shows a job
cancelled is of an ended row; a worker's lease is the row's or an older one; and a
worker that was stopped was asked to, is in a process that shuts down, or has lost its
lease for good, so that the store refuses what it writes. What is left to write
"cancelled" is a request, or a live worker under the current lease. With faults that is
not so: a renewal that fails stops a worker that still owns its lease
(`HeartbeatFault`), and its job ends as cancelled though nobody asked.

`OneLiveWorker` rests on `HolderInv`: a live worker, and a claim not yet started, holds
its job's lease or the job has ended (`RunsHold`, `ClaimsHold`), finds the lease it was
started with in memory (`RunsRemember`), and is told of a shutdown (`RunsUp`); claims of
one job are alone, and idle while a worker is at it (`ClaimsAlone`, `ClaimsIdle`). A
held job is not claimable, so who begins (`BegunAlone`) takes over from nobody. `Stalls`
is excluded since a lease that lapses under a live worker is what the lease allows;
several processes with graceful shutdowns are excluded because a process that shuts
down also gives back the leases it read from rows of the others at its start, and TLC
finds two live workers in ten steps.

`ShutdownKeepsJob` is about the step in which a worker that was told to stop leaves. It
leaves by its own end, by a crash, which writes no row, or not at all (`ToldToStop`);
and its own end writes failed or cancelled only if the job was asked to be cancelled.
The job of an import is the exception the code makes, it reports the error of the
interrupted call: `JobsShutdownImport` (section 7), hence `Imports = {}`.

`RetryOnce` and `RetryChain` rest on one more description of a step, `Line`, of the
parents of jobs: what a row, a copy in memory and the requests of a process may name
after a step they named before it, save that a link names its child (`Linking`); each
action is shown once to be of this kind (`LineStep`). A retry is named in many places
before and after its row names its parent: in memory, in a claim not yet started, in a
release about to be written. `FamilyInv` therefore speaks of every copy that any process
carries (`Named`), with the number of retries it counts. A parent has one child of each
count by all of these (`OnlyChild`); such a count is used up (`ParentsUsed`): it is at
most one more than the parent's (`Counted`), and the parent is pruned, or failed and
either consumed or has come to count as many itself (`Used`). A job without a parent
counts nothing (`RootsFirst`). A link still to be written is of a child that names no
parent yet and of a parent that ended, and no two links are of one child (`LinksOpen`);
its child may itself have failed and be retried already. The transaction that writes
the link checks the parent's row and consumes it. A child still to be created is new
(`CreatedNew`, `Unborn`); and memory shows a failed job with the count of its row
(`FailedAlike`), which is why the count that was read from memory is right when the link
is written. `ChainInv` adds that no row forgets its parent: the rows are written whole,
from copies, under a guard on owner and attempt only, so every copy that would pass that
guard (`Valid`) and names a parent agrees with the row (`ParentStays`), memory, which is
written next, knows what a claim or a release does (`MemoryAhead`, `ClaimsAgree`), and
the parents themselves are not pruned (`ParentsStored`).

`SingleInstance` is needed: TLC refutes `RetryOnce` where another process completes the
parent's job from an older copy, and the parent becomes retryable again. The count in
`RetryOnce` is needed too: that a failed job has one child whatever it counts is false
of the code (section 8).

**KnowledgeIndex.** The theorems are about behaviours in which requests overlap or
saves fail, not both: `KnowledgeUndo` is the counterexample when they come together
(section 7). The invariant `KInv` says of the two copies of the state that every record
is sound (`DocSound`: the generation it shows is complete and no failed one, and is not
the one its marker names), and of each request (`OpSound`): its fence is its own and
unseen but from its commit to its return (`Own`, `Hidden`, `Marks`); the attempt whose
marker it replaced was never visible (`Superseded`); what it is about to commit is
complete (`Written`); what it has committed stays until it has retired the old
generation (`Holds`); what it removed stays removed while it cleans up (`Removed`,
`Dropped`); and the copy an undo would put back is as sound as the state (`Remembers`).
`Apart` says of two requests that they share no fence and, once reserved, no content.
`OtherKeeps` is the heart of the argument: a step within its footprint (its own
document, fences of its own, knowledge bases that are gone) keeps what every other
request relies on, so each action only has to be shown to keep its own part.
`ImplementsCatalog` then needs no more than that a step either leaves the set of
complete generations alone, or adds one, or removes some without touching the file.
`ReportedStays` has an invariant of its own, `AckInv`: where saves may fail and a request
is alone, what an undo would put back shows a generation for every document that was
reported (`PutsShown`, `Undeletes`), until its commit the file shows what memory shows
(`Saved`), and a commit that replaced a generation finds it in the file (`Uncommits`).

`Accounted` is the opposite question: not what may be shown, but who still knows a
stored generation that is not. `KnowledgeLedgerProofs` adds `Ledger` to `KInv`, and each
part of it leans on those before. `Controlled` says what the step a request is at says of
its kind, of what it has listed and of whether it replaced a marker. `Stocked` says when
a request can have written its own points and contents, and that no points are left of a
document once a deletion has removed them. `Marking` says where an attempt's marker is:
in memory from its begin and in the file once that is saved, until the commit, unless the
document is gone. `Filed` says that the file names whatever memory and the copies of
requests name, except a marker that is about to be saved; it is why a restart loses
nothing. On these, the two ledgers, `PointsKept` and `ContentsKept`: a generation that is
not one of the known leaks is named by memory, or some request keeps it
(`KeepsPoints`, `KeepsContents`), that is, will remove it or names it in the copy that
its undo would put back. The two differ, since points go before contents when a deletion
or an abort cleans up. What `Accounted` excepts, `leaked`, is what the code itself leaves
behind: what a failed removal missed, the superseded generation of an attempt that failed
before it listed its points, what was stored for a knowledge base whose creation is
undone, and at a crash what only a request still knew (`Lost`).

**BatchIndex.** Nothing is assumed of the batch, the attempts, the pool or the faults.
The inductive invariant `BatchInv` is the types, `Leased` (only an active job is leased,
and one that is being created is queued and free), `NoDuplicateDocument`, and `Founded`:
an upload that is gone, a checkpoint that says success, a task of any attempt that is
past its commit, and a batch that succeeded each rest on a document that is stored, or
on one that was deleted since (an upload may also expire). An attempt that was overtaken
keeps running on what it read, so `Founded` speaks of the tasks of every attempt and not
of the current one. `TaskEffect` says what a step of a task may change, `StepEffect`
what any step may (`Honest`: a new claim of success is backed when it is made; `Frozen`:
a finished batch keeps its checkpoints), and each action is shown once to have such an
effect. Which uploads an attempt has to do, and which a retry takes up again, is a
filter of the batch by `Only`. It is a recursive function, not `SelectSeq`, whose
definition in the standard module recurs on an operator and cannot be reasoned about
here; what it keeps and that it keeps no more is proved by induction over the length of
the batch.

**UploadStaging.** `StageInv` relates the four places an upload is known in.
`UploadSound` is about an upload: what waits in the manifest has its file; memory says
what the manifest says, except of an abandoned claim whose release could not be written
(`Freed`), and says nothing after a manifest that could not be read; a reserved upload
is known nowhere yet; and one that was acknowledged waits until it was served or has
expired. `WorkerSound` and `CleanerSound` say that what a worker or the cleaner decided
under the lock is still right when it acts on the file system after the unlock: a file
is removed only when no manifest will name it again. Each action is `Sound`: it keeps
the invariant and is a step that `UploadKept` and `LeaseRespected` allow. Most actions
are one of two kinds, a step that leaves the items alone (`QuietStep`) and one that
writes one item (`WriteStep`). The quota needs an invariant of its own, `QuotaInv`,
about the manifest and not about memory: after a manifest that could not be read memory
is empty while the files and their sizes remain, and a later restart brings them back.
Every action but a reservation `Shrinks` what fills the staging directory, and a
reservation asks for the room while it holds the lock. `Bytes` is a sum that is computed
in an order of its own, so that a subset has no more bytes than its superset, and a new
element adds its size, are inductions over finite sets. `KeysApart` is the one
hypothesis: the code counts a new upload under the caller's API key, user, or else kind
of authentication (`stagedUploadPrincipalKey`), and a stored one under its API key or
user, or else as anonymous (`stagedUploadPrincipalKeyFromItem`). The two are one for
everybody with an API key or a user. A caller with neither, whose uploads go from a key
of the kind `auth:` to the anonymous one, must not meet a caller for whom both keys are
the anonymous one, since the limit of the latter is not asked when the former's file is
complete.

**FiniteInduction.** The library states induction with a predicate as a parameter, which
no prover here instantiates. A property is therefore a set, the set of the arguments for
which it holds: if a set of numbers up to `n` has 0, and has every number whose
predecessor it has, it is all of them (`NumberInduction`), and likewise for the subsets
of a finite set (`SubsetInduction`). Both follow from a least counterexample (`Smallest`),
and that from the well-foundedness of the numbers.

**McpTools.** A job acts long after the call that started it, so `JobsGranted` keeps
with every job that its owner had the scope for what it will do, and that whoever set
it going last was the owner or an administrator. `ScopeOfTool` and `ScopeOfJob` are
the tables: what a tool is called with, and what a job type is read as, against what
the handler changes.

**McpCalls.** A nonce is unknown, stored, with the one call that took it, or used
(`Placed`); taking it out of the store and into a call is one section under the lock,
which is why two calls that show it at once do not both run. The rate limits are part
of the types: a count never passes its limit.

**Retrieval.** `CatalogStored` is about the abstract catalog, which KnowledgeIndex
implements (`ImplementsCatalog`). `AnswersAlwaysFresh` follows the hits from the
filter over the wider search and the cache into the answer; nothing is assumed of what
the cache or the vector store hold.

**ModelRuntime.** `OneJobEach` counts the places a caller's job is in; the invariant
`RuntimeInv` says where it is. A job that is still wanted is at one spot of one queue, or
with the goroutine, or its answer is in the channel, and it is nowhere once its caller has
left (`Placed`); who waits for room is in the one list of its priority, once, and has no
job (`Blocked`); a caller whose job waits was shown nothing yet, and one whose stream runs
was shown what the attempt at hand has sent (`Told`). A caller that gives up makes its job
unwanted wherever it is, so the next call of the same caller meets no other wanted job of
its own. A caller that leaves the list for room is taken out of it by its place
(`RemoveAt`); what that does to a sequence is `RemovedAt`.

**EvalDatasets.** `EvalInv` depends on the mode. Where requests overlap no save fails,
nothing is ever undone (`Alone`), and what a request is about to report is in memory, or
was changed or deleted since (`SaveSound`). Where saves fail a request is alone, and what
it would put back makes memory what the file is (`Undoable`); a request that is not saving
finds the same datasets in the two (`Synced`). The runs in memory and in the file are
the same, where no save fails, except while a request still has to save (`RunsSynced`). The limit of kept runs needs that no two runs have the
same start, those that are going included (`RunsSound`, `Starts`): all that
`pruneEvalRunHistoryLocked` keeps but the first are later than the first, and fewer than
the limit are (`PrunedFits`).

**ChatHistory.** Every request at work holds the lifecycle lock (`Locked`), so a clear
finds none. A record that is about to be written is the stored one, unless another
request overtook it (`Current`).

**AuthSessions.** What a save is about to write is never behind the file and never
ahead of memory (`AheadOf`), since copies are taken and written under one lock; so
what a request is about to report is in its copy (`Reflects`), and stays in the file.

**Ranking.** Here the state is small and the functions are large: each list is a fold
over another. `RankingInv` says that every list is `Ranked` (in order, no chunk twice),
that what a search answered names each chunk once (`AnswersSound`), which queries came
through the channel (`Arrivals`), and the property. The rest are lemmas about the
functions. A fold of the library is a function over the subsets of a domain, chosen by
`CHOOSE`; `FoldExists` shows that such a function exists, and a lemma for each fold
(`BetterFold`, `ScoresFold`, `TakeFold`, `KeepFold`, `SelectFold`, `TrimFold`) unrolls it
into a sequence of steps, `h[i]` from `h[i - 1]`, to which an induction over numbers
applies. What the inductions carry along: the scores are the best of the items seen so
far (`BestOf`), so the order of the answers cannot matter, a maximum being taken in any
order; of the first n items, what was not chosen found the list or its document full
(`ChoiceOf`, `RoundsOf`); after each text there is a character left for every one to come
(`TrimmedFits`). `Sorted` chooses an order, which exists (`SortExists`), because ties are
broken by the place of a chunk. The fusion needs arithmetic: the worth of a rank falls
with the rank only as long as 1000000 divided by 60 + r differs from the quotient of the
next rank, which holds up to `MaxRank`, far above any limit of the configuration
(`WorthFalls`).

**Only model-checked.** `TypesOK` over the run that joins the nine services; each of its
nine parts is a theorem about the service it belongs to. Out of the prover's reach: liveness under
fairness (`EventuallyTerminal`, `SlotsRecycled`, `BatchEnds`, `Settles`).
## 7. Findings

Each is a run in which TLC finds the quoted statement of the code violated.

* **JobsShutdownImport**: an import interrupted by a graceful shutdown is stored as
  failed; only `"cancelled"` is held back for the next process.
* **BatchDuplicate**: an interrupted file leaves its document "processing". When the
  batch resumes, the file gets a new document ID and is refused as the duplicate of
  that document, not retryable, though its content was never indexed.
* **BatchPool**: a pool worker ends with the first file that fails. When all have
  ended, the files still waiting are reported as cancelled.
* **KnowledgeUndo**: another request's save writes a commit to the file before the
  commit's own save fails; the undo reaches memory only, the generation is removed,
  and after a restart the file shows it.

## 8. Seen while modelling

Not runs of their own; each is in the models, or is why a property is checked
under a narrower environment.

*Jobs.* The release of a lease during the shutdown writes back a copy of the job
older than its retry link (`app_service.go:3041`). A job that fails and is retried
before its own link is written becomes retryable again when that link is written
(`mcp_job_store.go:723`), and has a second child, which counts one more than the first:
`app_service.go:3303` says "A failed attempt can produce only one child". With four
jobs TLC finds it; `RetryOnce` and `RetryChain` say what does hold. When the terminal
write of a rejected descriptor fails and a graceful shutdown follows within the lease,
the release stores the job as queued with `resumable = 0`
(`app_service.go:2719-2738`, `3029-3041`), which no scan ever claims: `Shelved`, which
`EventuallyTerminal` excepts. `releaseMCPJobLeases` also releases leases of other processes that
`restoreMCPJobs` read into memory; it needs two processes on one store, which the
deployment documents rule out, and `TerminalIsFinal` is checked with one at a time
for the same reason. A heartbeat that fails once while the lease is still held
cancels the worker, and the job is stored as cancelled though nobody asked
(`CancelledByHolder` is checked without faults). So is a reindex or evaluation job, and
an item of a batch, whose call ran into a deadline of its own (`app_service.go:2339`,
`2411`, `1672`): cancelled, hence not retryable, though nobody asked. Between the two transactions of
a cancellation a pool worker can mark its next item as running. A failed batch
cannot be retried once the source of one of its retryable files is gone.

*State file.* One that cannot be read at the start is replaced by the default state
with the next save. `UpdateConfig` restores the whole previous configuration when
its save fails, over what others changed meanwhile. `CreateKnowledgeBase` leaves the
knowledge base in the file when its collection cannot be made.

*Index operations.* Under `both`: an edit is lost to the save of an overlapping
undo; the undo of `DeleteDocument` puts back a deleted knowledge base, or loses
documents that came in meanwhile (`app_service.go:4627`). A failed document blocks
the upload of the same content. The collection of a deleted knowledge base is made
again by an operation still under way. Generations are leaked by retirements that
fail or are interrupted (`leaked` names them). A cancelled `failIndexOperation`
leaves marker and "processing".

*Staging.* A missing manifest counts as an empty one. The cleaner's undo puts back
copies that were released meanwhile. The quota of a principal that is neither a
user nor a key counts under another name than its items. The branch for a claim by
the same owner is not reachable.

*Retrieval.* A follow-up round may be answered from the cache of the first one. An
empty result stays cached for an hour and hides documents indexed meanwhile. With
several knowledge bases the results are concatenated unsorted, so `takeTopChunks`
may leave out the best chunk (`app_service.go`, around 5815). In hybrid search the
fused score becomes the raw score, which stays below the semantic thresholds of the
evidence gate (`retrieval_strategy.go`, around 925). A hybrid search whose sparse
channel fails returns up to twice the candidates. The rewriter of queries is shared,
and reconfigured per request.

*Runtime.* A stream is attempted again after the service reported an error in the
middle of it, and the client sees its beginning twice; `replay` marks it, and the
tests expect it. `onChunk` may be called after `run` returned to a caller that gave
up.

*Conversations.* The metadata-encode error of `SaveConversation` returns without a
rollback, with one connection in the pool. A chat that overlaps the deletion of its
conversation writes it back. Two requests that both create a conversation can move
its scope.

*Account.* `Logout` and `LogoutAll`, tried again after a failed save, report success
and save nothing.

*MCP.* A request that read the clock in one minute and gets the lock in the next
resets every window.

*Evaluation.* With overlapping requests the undo of a failed save restores the whole
dataset and loses the other's change, or brings a deleted dataset back. A run that
ends after its dataset was deleted is stored. A run whose save failed stays in
memory. A run that took long is the first to be pruned, by its start.

## 9. Not modelled

*Of the job manager*: owners and scopes of jobs (McpTools has the ownership that
retry and cancellation check), sanitising of results, parsing of descriptors beyond
"valid or not", progress, the schema migration, the limit channel for workers; an
error of the store in the middle of a scan, which drops the records claimed so far
(`app_service.go:2607-2611`; their leases lapse, as after a crash), and a failing write
of a lease's or slot's release (they lapse too). *Of batches*: the validation of a request, the aggregate result, documents added outside
the batch; a run loads its items in one step, though a cancellation can fall between
reading and resetting them. *Of index operations*: reports of verification and
governance, which only read. *Of retrieval*: how a text is scored, the rewriting of
queries, the compression of a context, answers computed from tables. *Of the
runtime*: the thresholds of the circuit breaker. *Of evaluation*: how cases are drawn
from texts and how a run scores them; `DeleteKnowledgeBase`, which also deletes the
datasets and runs of the knowledge base and puts them back when its save fails
(`app_service.go:4244-4268`), so that `EvalsKept` says nothing of them. *Of all that is
in the state file*: a file that cannot be read at the start (section 8): `CrashRestart`,
`EvalCrash` and `Restart` read what was saved last. *Of authentication*: token formats, hashes, the
lock-out after failed logins. *Of MCP*: the protocol's envelope, metrics, texts.

Not modelled at all: parsing and chunking (data handling over formats), the HTTP
clients of Qdrant and of the models (their outcomes are choices in the modules that
call them), HTTP handlers, router and configuration (decoding, environment), the
frontend.


## 10. Plan

1. Show BatchIndex with its job reduced to what `MCPJobs` promises about attempts.
2. Chunking as operators over sequences (`document_chunking.go`): every character in
   some chunk, overlaps of the configured size, no chunk over the limit.
3. `UpdateConfig` and its undo beside the other writers of the state file.
