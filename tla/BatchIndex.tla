----------------------------- MODULE BatchIndex -----------------------------
(***************************************************************************)
(* One batch-index job from its registration to its end: the item          *)
(* checkpoints (mcp_job_items.go), the worker pool that hands the files    *)
(* out (runBatchIndexJobWithLease), and the registration of each staged    *)
(* upload as a document (registerStagedUploadAsForJobWithLease,            *)
(* IndexDocumentWithContext), with the staged uploads' processing leases   *)
(* and the documents of the knowledge base.                                *)
(*                                                                         *)
(* The row of the parent job, which MCPJobs models in full, is reduced to  *)
(* its status, its attempt and the state of its lease.  There is one       *)
(* process at a time; an attempt whose lease lapsed may still run in it    *)
(* beside the attempt that replaced it.  A change of the in-memory         *)
(* documents and the save that follows are one step.                       *)
(***************************************************************************)
EXTENDS Integers, Sequences, FiniteSets

CONSTANTS
    Uploads,      \* staged uploads of the batch
    Files,        \* the batch, in order: a sequence of distinct uploads
    Contents,     \* contents, told apart by their SHA-256
    Checksum,     \* content of each upload
    Concurrency,  \* pool workers of the batch
    MaxRetries,   \* mcpJobMaxRetries
    Stalls,       \* TRUE: a live process may miss heartbeats and lose leases
    Graceful,     \* TRUE: ShutdownJobs may be called
    Cancels,      \* TRUE: a client may cancel the job
    Deletes,      \* TRUE: a user may delete documents
    Expires,      \* TRUE: the TTL of a staged upload may run out
    Attempts,     \* bound: claims of the job and of its retries
    MaxFaults     \* bound: indexing failures

ASSUME BatchConstants ==
    /\ Files \in Seq(Uploads) /\ Checksum \in [Uploads -> Contents]
    /\ IsFiniteSet(Uploads)
    /\ Concurrency \in Nat \ {0} /\ MaxRetries \in Nat
    /\ Attempts \in Nat /\ MaxFaults \in Nat
    /\ Stalls \in BOOLEAN /\ Graceful \in BOOLEAN /\ Cancels \in BOOLEAN
    /\ Deletes \in BOOLEAN /\ Expires \in BOOLEAN

VARIABLES
    proc,       \* the process: "up", "stopping" (ShutdownJobs) or "down"
    job,        \* row of the newest job of the retry chain
    batch,      \* its UploadIDs
    input,      \* its InputBytes, as the uploads that were counted
    sized,      \* uploads whose item carries a checksum and a size
    item,       \* mcp_job_items of that job, by upload
    staged,     \* the staging manifest, by upload
    docs,       \* documents of the knowledge base
    run,        \* runBatchIndexJob of each attempt
    creating,   \* registerMCPJobWithDescriptorAndItems: its next statement
    cancelling, \* CancelMCPJobAs: between CancelItems and the job's own row
    lost,       \* observer: contents a user deleted, uploads that expired
    faults      \* observer: indexing failures so far

\* What the registration fixes.
meta == <<batch, input, sized>>
vars == <<proc, job, meta, item, staged, docs, run, creating, cancelling, lost,
          faults>>

Runs     == 1..Attempts
Active   == {"queued", "running"}
Terminal == {"succeeded", "failed", "cancelled"}

\* Where the handling of one upload stands in one run.
Busy  == {"taken", "claim", "check", "reserve", "begin", "index", "commit",
          "consume", "checkpoint", "error"}
Codes == {"", "duplicate_document", "source_unreadable", "index_failed",
          "deadline", "cancelled"}

Missing == [status |-> "missing", code |-> "", retryable |-> FALSE]
Item(status, code, retryable) ==
    [status |-> status, code |-> code, retryable |-> retryable]
Pending == Item("pending", "", TRUE)

NoTask == [at |-> "none", code |-> ""]
NoRun  == [at |-> "off", ctx |-> FALSE, idle |-> 0, todo |-> <<>>,
           task |-> [u \in Uploads |-> NoTask]]
NewRun == [NoRun EXCEPT !.at = "load", !.ctx = TRUE]

Staged == [status |-> "staged", owner |-> 0, live |-> FALSE]
Gone   == [Staged EXCEPT !.status = "gone"]

Init ==
    /\ proc = "up"
    /\ job = [status |-> "absent", lease |-> "free", attempt |-> 0,
              retryable |-> FALSE, retries |-> 0]
    /\ batch = <<>> /\ input = {} /\ sized = {}
    /\ item = [u \in Uploads |-> Missing]
    /\ staged = [u \in Uploads |-> Staged]
    /\ docs = {}
    /\ run = [a \in Runs |-> NoRun]
    /\ creating = "no"
    /\ cancelling = FALSE
    /\ lost = {}
    /\ faults = 0
-----------------------------------------------------------------------------
(* Helpers *)

Elems(s) == {s[i] : i \in 1..Len(s)}

\* The elements of s that are in keep, in their order (a function rather than
\* SelectSeq, for the sake of proofs).
Only(s, keep) ==
    LET f[i \in 0..Len(s)] ==
            IF i = 0 THEN <<>>
            ELSE IF s[i] \in keep THEN Append(f[i - 1], s[i]) ELSE f[i - 1]
    IN f[Len(s)]

\* Mutant: a fence of nothing but the attempt.
HoldsByAttempt(a) == job.attempt = a

\* LeaseOwned, and the guard on the parent row in UpdateItem.
Holds(a) ==
    /\ job.status \in Active
    /\ job.lease = "held"
    /\ job.attempt = a

\* Mutant: a document that is still being processed counts as indexed.
IndexedOrProcessing(d) == d.status \in {"indexed", "processing"}

\* isIndexedDocumentStatus.
IsIndexed(d) == d.status = "indexed"

\* Mutant: only an indexed document is a duplicate.
IndexedWith(c) == {d \in docs : Checksum[d.upload] = c /\ IsIndexed(d)}

\* findDocumentByChecksum, findDuplicateDocument: whatever the status.
DocsWith(c) == {d \in docs : Checksum[d.upload] = c}
Indexed(c)  == \E d \in DocsWith(c) : IsIndexed(d)

\* The reservation of a content is held while a task is inside
\* IndexDocumentWithContext (it is process-local and released on return).
Reserved(c) ==
    \E a \in Runs, u \in Uploads :
        /\ Checksum[u] = c
        /\ run[a].task[u].at \in {"begin", "index", "commit"}

\* persistMCPBatchItemWithLease: refused when the attempt lost the job.
Persist(a, u, new) ==
    item' = IF Holds(a) THEN [item EXCEPT ![u] = new] ELSE item

\* ReleaseWithLeaseAttempt and MarkConsumedWithLeaseAttempt followed by Delete:
\* only for the worker that holds the processing lease.
HoldsStaged(a, u) == staged[u].status = "processing" /\ staged[u].owner = a
Release(a, u) ==
    staged' = IF HoldsStaged(a, u) THEN [staged EXCEPT ![u] = Staged] ELSE staged
Consume(a, u) ==
    staged' = IF HoldsStaged(a, u) THEN [staged EXCEPT ![u] = Gone] ELSE staged

\* mcpBatchItemRetryable.
CodeRetryable(code) == code = "index_failed"

Live(a) == run[a].at \notin {"off", "over"}
At(a, u, at) == run[a].task[u].at = at
Goto(a, u, at) == run' = [run EXCEPT ![a].task[u].at = at]
Fail(a, u, code) ==
    run' = [run EXCEPT ![a].task[u] = [at |-> "error", code |-> code]]
-----------------------------------------------------------------------------
(* Registration of the job and of its retry *)

\* GetAs: an upload that is being processed is not available either.
Available(u) == staged[u].status = "staged"

\* prepareMCPBatchItems: a file whose source is gone fails from the start.
Prepared(u) ==
    IF u \in input THEN Pending ELSE Item("failed", "index_failed", FALSE)

\* mcpBatchInputBytes: the sum of the sizes.  Uploads of one content have one size;
\* the sums of different bags of contents are taken to differ.
InputBytes(us) == [c \in Contents |-> Cardinality({u \in us : Checksum[u] = c})]

\* retryableMCPBatchUploadIDs.
RetryableFiles ==
    Only(batch, {u \in Elems(batch) : item[u].status # "succeeded" /\ item[u].retryable})

\* Create prepares the items and inserts the row of the job, or of the child of a
\* failed batch: there the sources of checksummed items must be available still.
Create ==
    /\ proc = "up" /\ creating = "no" /\ ~cancelling
    /\ \/ /\ job.status = "absent"
          /\ batch' = Files
          /\ job' = [job EXCEPT !.status = "queued", !.retryable = TRUE]
       \/ /\ job.status = "failed" /\ job.retryable
          /\ job.attempt < Attempts
          /\ RetryableFiles # <<>>
          /\ \A u \in Elems(RetryableFiles) \cap sized : Available(u)
          /\ batch' = RetryableFiles
          /\ job' = [job EXCEPT !.status = "queued", !.retries = @ + 1]
    /\ input' = {u \in Elems(batch') : Available(u)}
    /\ sized' = {}
    /\ item' = [u \in Uploads |-> Missing]
    /\ creating' = "items"
    /\ UNCHANGED <<proc, staged, docs, run, cancelling, lost, faults>>

\* CreateItems stores what was prepared, in a transaction of its own.
CreateItems ==
    /\ creating = "items"
    /\ item' = [u \in Uploads |->
                  IF u \in Elems(batch) THEN Prepared(u) ELSE Missing]
    /\ sized' = input
    /\ creating' = "claim"
    /\ UNCHANGED <<proc, job, batch, input, staged, docs, run, cancelling, lost, faults>>

StartAttempt ==
    /\ job' = [job EXCEPT !.status = "queued", !.lease = "held",
                          !.attempt = @ + 1]
    /\ run' = [run EXCEPT ![job.attempt + 1] = NewRun]

\* Claim, and the worker of the new job.
ClaimNew ==
    /\ creating = "claim"
    /\ job.attempt < Attempts
    /\ StartAttempt
    /\ creating' = "no"
    /\ UNCHANGED <<proc, meta, item, staged, docs, cancelling, lost, faults>>

\* The recovery scan: a job without a lease, or with an expired one.
Recover ==
    /\ proc = "up" /\ creating = "no" /\ ~cancelling
    /\ job.status \in Active
    /\ job.lease \in {"free", "expired"}
    /\ job.attempt < Attempts
    /\ StartAttempt
    /\ UNCHANGED <<proc, meta, item, staged, docs, creating, cancelling, lost,
                   faults>>
-----------------------------------------------------------------------------
(* The run of one attempt: runBatchIndexJobWithLease *)

\* What completeMCPJobWithLease leaves to the next process.
LeftToNext(status) == status = "cancelled" /\ proc = "stopping"

\* completeMCPJobWithLease, then the end of runMCPJobWorker: during a shutdown it
\* gives back the lease of a job that is not finished.
Complete(a, status, resumable) ==
    /\ ~cancelling
    /\ run' = [run EXCEPT ![a].at = "over", ![a].ctx = FALSE]
    /\ job' = CASE ~Holds(a) -> job
                [] Holds(a) /\ ~LeftToNext(status) ->
                     [job EXCEPT !.status = status, !.lease = "free",
                         !.retryable = /\ status = "failed" /\ resumable
                                       /\ job.retries < MaxRetries]
                [] Holds(a) /\ LeftToNext(status) ->
                     [job EXCEPT !.status = "queued", !.lease = "free"]

\* loadMCPBatchItemsForWorker: missing checkpoints are created, failed where the
\* source is not available, and sizes that are missing are read again.
MissingItems == {u \in Elems(batch) : item[u] = Missing}
Loaded(u) ==
    IF item[u] # Missing THEN item[u]
    ELSE IF Available(u) THEN Pending
    ELSE Item("failed", "index_failed", CodeRetryable("index_failed"))
LoadedSizes == sized \cup
    {u \in Elems(batch) : /\ Available(u)
                          /\ item[u].status \notin {"failed", "cancelled"}}

SizeMismatch == input # {} /\ InputBytes(LoadedSizes) # InputBytes(input)

LoadItems == [u \in Uploads |-> IF u \in Elems(batch) THEN Loaded(u) ELSE item[u]]

\* The missing checkpoints cannot be created without the lease; an input size that
\* no longer is the descriptor's rejects the job.
LoadRejected(a) ==
    /\ run[a].at = "load"
    /\ \/ /\ MissingItems # {} /\ ~Holds(a)
          /\ Complete(a, "failed", TRUE)
          /\ UNCHANGED <<item, sized>>
       \/ /\ MissingItems = {} \/ Holds(a)
          /\ SizeMismatch
          /\ Complete(a, "failed", FALSE)
          /\ item' = LoadItems
          /\ sized' = LoadedSizes
    /\ UNCHANGED <<proc, batch, input, staged, docs, creating, cancelling, lost,
                   faults>>

\* The files are sorted: finished ones keep their outcome, a succeeded one whose
\* document is gone is replayed, the others are handed out in order.
Load(a) ==
    LET stale(u) == Loaded(u).status = "succeeded" /\ ~Indexed(Checksum[u])
        final(u) == CASE Loaded(u).status = "succeeded" /\ ~stale(u) -> "ok"
                      [] Loaded(u).status = "failed" /\ ~Loaded(u).retryable -> "failed"
                      [] Loaded(u).status = "cancelled" -> "failed"
                      [] OTHER -> "none"
        todo == Only(batch, {u \in Elems(batch) : final(u) = "none"})
    IN
    /\ run[a].at = "load" /\ ~cancelling
    /\ MissingItems = {} \/ Holds(a)
    /\ ~SizeMismatch
    /\ sized' = LoadedSizes
    /\ item' = IF ~Holds(a) THEN item ELSE
          [u \in Uploads |->
              IF u \in Elems(batch) /\ stale(u) THEN Pending ELSE LoadItems[u]]
    /\ job' = IF Holds(a) THEN [job EXCEPT !.status = "running"] ELSE job
    /\ run' = [run EXCEPT ![a].at = "work", ![a].todo = todo,
          ![a].idle = IF Len(todo) < Concurrency THEN Len(todo) ELSE Concurrency,
          ![a].task = [u \in Uploads |-> [at |->
              IF u \in Elems(batch) THEN final(u) ELSE "none", code |-> ""]]]
    /\ UNCHANGED <<proc, batch, input, staged, docs, creating, cancelling, lost,
                   faults>>

\* Mutant: a file is handed out though no worker is free.
TakeUnbounded(a) ==
    /\ run[a].at = "work" /\ run[a].todo # <<>>
    /\ run' = [run EXCEPT ![a].idle = @ - 1, ![a].todo = Tail(@),
                          ![a].task[Head(run[a].todo)].at = "taken"]
    /\ UNCHANGED <<proc, job, meta, item, staged, docs, creating, cancelling,
                   lost, faults>>

\* A pool worker receives the next file (its select may still choose it after the
\* context is cancelled).
Take(a) ==
    /\ run[a].at = "work" /\ run[a].idle > 0 /\ run[a].todo # <<>>
    /\ run' = [run EXCEPT ![a].idle = @ - 1, ![a].todo = Tail(@),
                          ![a].task[Head(run[a].todo)].at = "taken"]
    /\ UNCHANGED <<proc, job, meta, item, staged, docs, creating, cancelling,
                   lost, faults>>

\* mcpBatchCancelledItem: a shutdown leaves the stored checkpoint as it is.
PersistCancelled(a, u) ==
    IF proc = "stopping" THEN UNCHANGED item
    ELSE Persist(a, u, Item("cancelled", "cancelled", FALSE))

\* markMCPBatchItemRunningWithLease, unless the context is cancelled already: then
\* the worker goes on to its next file.  Without the lease the worker ends.
Mark(a, u) ==
    /\ At(a, u, "taken")
    /\ \/ /\ ~run[a].ctx
          /\ PersistCancelled(a, u)
          /\ run' = [run EXCEPT ![a].task[u].at = "failed", ![a].idle = @ + 1]
       \/ /\ run[a].ctx /\ Holds(a)
          /\ Persist(a, u, Item("running", "", TRUE))
          /\ Goto(a, u, "claim")
       \/ /\ run[a].ctx /\ ~Holds(a)
          /\ Goto(a, u, "failed")
          /\ UNCHANGED item
    /\ UNCHANGED <<proc, job, meta, staged, docs, creating, cancelling, lost,
                   faults>>
-----------------------------------------------------------------------------
(* Registration of one staged upload *)

\* Mutant: an abandoned processing lease blocks the upload.
StagedOnly(u) == staged[u].status = "staged"

\* ClaimWithLeaseAs grants an upload nobody holds a live lease on.
Free(u) ==
    \/ staged[u].status = "staged"
    \/ staged[u].status = "processing" /\ ~staged[u].live

\* claimMCPStagedUpload waits while another attempt holds the upload (its lease of
\* 15s ends before the wait of 60s does).
Claim(a, u) ==
    /\ At(a, u, "claim")
    /\ \/ /\ run[a].ctx /\ Holds(a) /\ Free(u)
          /\ staged' = [staged EXCEPT ![u] =
                          [status |-> "processing", owner |-> a, live |-> TRUE]]
          /\ Goto(a, u, "check")
       \/ /\ ~run[a].ctx \/ ~Holds(a) \/ staged[u].status = "gone"
          /\ Fail(a, u, "index_failed")
          /\ UNCHANGED staged
    /\ UNCHANGED <<proc, job, meta, item, docs, creating, cancelling, lost,
                   faults>>

\* The content is indexed already: consume the upload and report that document.
\* Otherwise copy the file, which needs the staging lease.
Check(a, u) ==
    /\ At(a, u, "check")
    /\ \/ /\ ~run[a].ctx \/ ~Holds(a)
          /\ Release(a, u)
          /\ Fail(a, u, "index_failed")
       \/ /\ run[a].ctx /\ Holds(a) /\ Indexed(Checksum[u])
          /\ Consume(a, u)
          /\ Goto(a, u, "checkpoint")
       \/ /\ run[a].ctx /\ Holds(a) /\ ~Indexed(Checksum[u])
          /\ IF HoldsStaged(a, u) THEN Goto(a, u, "reserve")
             ELSE Fail(a, u, "index_failed")
          /\ UNCHANGED staged
    /\ UNCHANGED <<proc, job, meta, item, docs, creating, cancelling, lost,
                   faults>>

\* The DuplicateDocumentError of reserveDocumentIndex and beginIndexOperation: a
\* success when the other document is indexed, a failure when it is not.
Duplicate(a, u) ==
    IF Indexed(Checksum[u])
    THEN Consume(a, u) /\ Goto(a, u, "checkpoint")
    ELSE Release(a, u) /\ Fail(a, u, "duplicate_document")

\* reserveDocumentIndex waits for the reservation of another task.
Reserve(a, u) ==
    /\ At(a, u, "reserve")
    /\ \/ /\ ~run[a].ctx \/ ~Holds(a)
          /\ Release(a, u)
          /\ Fail(a, u, "index_failed")
       \/ /\ run[a].ctx /\ Holds(a) /\ DocsWith(Checksum[u]) # {}
          /\ Duplicate(a, u)
       \/ /\ run[a].ctx /\ Holds(a) /\ DocsWith(Checksum[u]) = {}
          /\ ~Reserved(Checksum[u])
          /\ Goto(a, u, "begin")
          /\ UNCHANGED staged
    /\ UNCHANGED <<proc, job, meta, item, docs, creating, cancelling, lost,
                   faults>>

\* beginIndexOperation stores the new document as "processing"; it is taken back
\* when the save fails.
Begin(a, u) ==
    /\ At(a, u, "begin")
    /\ \/ /\ ~run[a].ctx \/ ~Holds(a)
          /\ Release(a, u)
          /\ Fail(a, u, "index_failed")
          /\ UNCHANGED <<docs, faults>>
       \/ /\ run[a].ctx /\ Holds(a) /\ DocsWith(Checksum[u]) # {}
          /\ Duplicate(a, u)
          /\ UNCHANGED <<docs, faults>>
       \/ /\ run[a].ctx /\ Holds(a) /\ DocsWith(Checksum[u]) = {}
          /\ docs' = docs \cup {[upload |-> u, by |-> a, status |-> "processing"]}
          /\ Goto(a, u, "index")
          /\ UNCHANGED <<staged, faults>>
       \/ /\ run[a].ctx /\ Holds(a) /\ DocsWith(Checksum[u]) = {}
          /\ faults < MaxFaults
          /\ faults' = faults + 1
          /\ Release(a, u)
          /\ Fail(a, u, "index_failed")
          /\ UNCHANGED docs
    /\ UNCHANGED <<proc, job, meta, item, creating, cancelling, lost>>

\* The document that upload u of attempt a began, while the operation is still active on it.
Own(a, u) == {d \in docs : d.upload = u /\ d.by = a /\ d.status = "processing"}
Marked(a, u, status) ==
    docs' = (docs \ Own(a, u)) \cup {[d EXCEPT !.status = status] : d \in Own(a, u)}

\* reindexDocumentWithConfig: text, chunks, vectors, each of which may also fail by
\* a deadline of its own.  failIndexOperation records a failure, but not once the
\* context or the lease is gone.
Index(a, u) ==
    LET active == run[a].ctx /\ Holds(a) /\ Own(a, u) # {} IN
    /\ At(a, u, "index")
    /\ \/ /\ active
          /\ Goto(a, u, "commit")
          /\ UNCHANGED <<docs, staged, faults>>
       \/ /\ active /\ faults < MaxFaults
          /\ faults' = faults + 1
          /\ Marked(a, u, "failed")
          /\ Release(a, u)
          /\ \E code \in {"index_failed", "source_unreadable", "deadline"} :
                Fail(a, u, code)
       \/ /\ ~active
          /\ Release(a, u)
          /\ Fail(a, u, "index_failed")
          /\ UNCHANGED <<docs, faults>>
    /\ UNCHANGED <<proc, job, meta, item, creating, cancelling, lost>>

\* commitIndexOperation.  When the save fails the new document is taken back.
Commit(a, u) ==
    LET active == run[a].ctx /\ Holds(a) /\ Own(a, u) # {} IN
    /\ At(a, u, "commit")
    /\ \/ /\ active
          /\ Marked(a, u, "indexed")
          /\ Goto(a, u, "consume")
          /\ UNCHANGED <<staged, faults>>
       \/ /\ active /\ faults < MaxFaults
          /\ faults' = faults + 1
          /\ docs' = docs \ Own(a, u)
          /\ Release(a, u)
          /\ Fail(a, u, "index_failed")
       \/ /\ ~active
          /\ Release(a, u)
          /\ Fail(a, u, "index_failed")
          /\ UNCHANGED <<docs, faults>>
    /\ UNCHANGED <<proc, job, meta, item, creating, cancelling, lost>>

\* The indexed upload is consumed, by the worker that still has the job.
ConsumeIndexed(a, u) ==
    /\ At(a, u, "consume")
    /\ \/ /\ Holds(a)
          /\ Consume(a, u)
          /\ Goto(a, u, "checkpoint")
       \/ /\ ~Holds(a)
          /\ Fail(a, u, "index_failed")
          /\ UNCHANGED staged
    /\ UNCHANGED <<proc, job, meta, item, docs, creating, cancelling, lost,
                   faults>>

\* The checkpoint of a success; the worker goes on to its next file.
Checkpoint(a, u) ==
    /\ At(a, u, "checkpoint")
    /\ Persist(a, u, Item("succeeded", "", FALSE))
    /\ run' = [run EXCEPT ![a].task[u].at = "ok", ![a].idle = @ + 1]
    /\ UNCHANGED <<proc, job, meta, staged, docs, creating, cancelling, lost,
                   faults>>

\* The call returned an error.  An indexed document with the checksum of the item,
\* or the duplicate that was reported, is taken for the success of an earlier
\* attempt; a cancelled context makes the item cancelled, and so does a call that
\* ran into its deadline.  The pool worker returns in every case.
HandleError(a, u) ==
    LET code == run[a].task[u].code
        completed == /\ u \in sized \/ code = "duplicate_document"
                     /\ Indexed(Checksum[u])
        cancelled == ~run[a].ctx \/ code = "deadline" IN
    /\ At(a, u, "error")
    /\ \/ /\ completed
          /\ Persist(a, u, Item("succeeded", "", FALSE))
          /\ Goto(a, u, "ok")
       \/ /\ ~completed /\ cancelled
          /\ PersistCancelled(a, u)
          /\ Goto(a, u, "failed")
       \/ /\ ~completed /\ ~cancelled
          /\ Persist(a, u, Item("failed", code, CodeRetryable(code)))
          /\ Goto(a, u, "failed")
    /\ UNCHANGED <<proc, job, meta, staged, docs, creating, cancelling, lost,
                   faults>>

\* Every pool worker has returned: those still waiting for a file do when there is
\* none left or the context is cancelled.  A file without a result is reported as
\* cancelled.
Finish(a) ==
    LET allOk == \A u \in Elems(batch) : At(a, u, "ok") IN
    /\ run[a].at = "work"
    /\ \A u \in Uploads : run[a].task[u].at \notin Busy
    /\ run[a].idle = 0 \/ run[a].todo = <<>> \/ ~run[a].ctx
    /\ Complete(a, IF ~run[a].ctx THEN "cancelled"
                   ELSE IF allOk THEN "succeeded" ELSE "failed", TRUE)
    /\ UNCHANGED <<proc, meta, item, staged, docs, creating, cancelling, lost,
                   faults>>

\* The heartbeat cancels the context of a run that lost the job or one of the
\* uploads it works on (an upload already consumed or released is passed over).
Heartbeat(a) ==
    /\ Live(a) /\ run[a].ctx
    /\ \/ ~Holds(a)
       \/ \E u \in Uploads :
             /\ run[a].task[u].at \in {"check", "reserve", "begin", "index",
                                       "commit", "consume"}
             /\ staged[u].status = "processing"
             /\ staged[u].owner # a \/ ~staged[u].live
    /\ run' = [run EXCEPT ![a].ctx = FALSE]
    /\ UNCHANGED <<proc, job, meta, item, staged, docs, creating, cancelling,
                   lost, faults>>
-----------------------------------------------------------------------------
(* Clients, users, time and failure *)

\* CancelMCPJobAs, under the lock of the jobs in memory: CancelItems ...
CancelItems ==
    /\ Cancels /\ proc \in {"up", "stopping"} /\ creating = "no" /\ ~cancelling
    /\ job.status \in Active
    /\ cancelling' = TRUE
    /\ item' = IF job.lease = "expired" THEN item ELSE
          [u \in Uploads |-> IF item[u].status \in {"pending", "running"}
                             THEN Item("cancelled", "cancelled", FALSE)
                             ELSE item[u]]
    /\ UNCHANGED <<proc, job, meta, staged, docs, run, creating, lost, faults>>

\* ... then the job, unless its lease lapsed in between, and its context.
CancelJob ==
    /\ cancelling
    /\ cancelling' = FALSE
    /\ \/ /\ job.lease # "expired"
          /\ job' = [job EXCEPT !.status = "cancelled", !.lease = "free",
                                !.retryable = FALSE]
          /\ run' = [a \in Runs |-> [run[a] EXCEPT
                        !.ctx = @ /\ a # job.attempt]]
       \/ /\ job.lease = "expired"
          /\ UNCHANGED <<job, run>>
    /\ UNCHANGED <<proc, meta, item, staged, docs, creating, lost, faults>>

\* A lease lapses once nothing renews it, or because the process stalled.
Abandoned(a) == a \notin {b \in Runs : Live(b) /\ run[b].ctx}
LeaseLapses ==
    /\ job.lease = "held"
    /\ Abandoned(job.attempt) \/ (Stalls /\ job.attempt < Attempts)
    /\ job.status \in Active
    /\ job' = [job EXCEPT !.lease = "expired"]
    /\ UNCHANGED <<proc, meta, item, staged, docs, run, creating, cancelling,
                   lost, faults>>

StagingLapses(u) ==
    /\ staged[u].status = "processing" /\ staged[u].live
    /\ Abandoned(staged[u].owner) \/ (Stalls /\ job.attempt < Attempts)
    /\ staged' = [staged EXCEPT ![u].live = FALSE]
    /\ UNCHANGED <<proc, job, meta, item, docs, run, creating, cancelling, lost,
                   faults>>

\* CleanupExpired: an abandoned upload is given back, one past its TTL deleted.
CleanUp(u) ==
    /\ proc # "down" /\ Free(u)
    /\ \/ /\ staged[u].status = "processing"
          /\ staged' = [staged EXCEPT ![u] = Staged]
          /\ UNCHANGED lost
       \/ /\ Expires
          /\ staged' = [staged EXCEPT ![u] = Gone]
          /\ lost' = lost \cup {Checksum[u]}
    /\ UNCHANGED <<proc, job, meta, item, docs, run, creating, cancelling, faults>>

\* DeleteDocument, which waits for the reservation of the content.
DeleteDocument(d) ==
    /\ Deletes /\ proc # "down"
    /\ ~Reserved(Checksum[d.upload])
    /\ docs' = docs \ {d}
    /\ lost' = lost \cup {Checksum[d.upload]}
    /\ UNCHANGED <<proc, job, meta, item, staged, run, creating, cancelling,
                   faults>>

\* The process ends: goroutines and half-done requests are gone.
Crash ==
    /\ proc \in {"up", "stopping"} /\ job.attempt < Attempts
    /\ job.status \notin {"absent"} \cup Terminal
    /\ proc' = "down"
    /\ run' = [a \in Runs |-> IF Live(a) THEN [NoRun EXCEPT !.at = "over"]
                              ELSE run[a]]
    /\ creating' = "no"
    /\ cancelling' = FALSE
    /\ UNCHANGED <<job, meta, item, staged, docs, lost, faults>>

Start ==
    /\ proc = "down"
    /\ proc' = "up"
    /\ UNCHANGED <<job, meta, item, staged, docs, run, creating, cancelling,
                   lost, faults>>

\* ShutdownJobs cancels the context of every run and waits for them ...
Shutdown ==
    /\ Graceful /\ proc = "up" /\ creating = "no"
    /\ job.attempt < Attempts /\ job.status \in Active
    /\ proc' = "stopping"
    /\ run' = [a \in Runs |-> [run[a] EXCEPT !.ctx = FALSE]]
    /\ UNCHANGED <<job, meta, item, staged, docs, creating, cancelling, lost,
                   faults>>

\* ... and gives back a lease that is still in memory.
ShutdownDone ==
    /\ proc = "stopping" /\ ~cancelling
    /\ \A a \in Runs : ~Live(a)
    /\ proc' = "down"
    /\ job' = IF job.status \in Active /\ job.lease = "held"
              THEN [job EXCEPT !.status = "queued", !.lease = "free"] ELSE job
    /\ UNCHANGED <<meta, item, staged, docs, run, creating, cancelling, lost,
                   faults>>
-----------------------------------------------------------------------------
TaskStep(a, u) ==
    \/ Mark(a, u) \/ Claim(a, u) \/ Check(a, u) \/ Reserve(a, u) \/ Begin(a, u)
    \/ Index(a, u) \/ Commit(a, u) \/ ConsumeIndexed(a, u) \/ Checkpoint(a, u)
    \/ HandleError(a, u)

RunStep(a) == Load(a) \/ LoadRejected(a) \/ Take(a) \/ Finish(a)

Environment ==
    \/ CancelItems \/ Crash \/ Shutdown
    \/ \E u \in Uploads : CleanUp(u)
    \/ \E d \in docs : DeleteDocument(d)

Next ==
    \/ Create \/ CreateItems \/ ClaimNew \/ Recover
    \/ \E a \in Runs : RunStep(a) \/ Heartbeat(a) \/ \E u \in Uploads : TaskStep(a, u)
    \/ CancelJob \/ LeaseLapses \/ (\E u \in Uploads : StagingLapses(u))
    \/ Start \/ ShutdownDone
    \/ Environment

Spec == Init /\ [][Next]_vars

\* Goroutines are scheduled, time passes for abandoned leases, a stopped process
\* is started again and its monitor keeps scanning.  Steps that take the lock of
\* the jobs get it though cancellations keep taking it too (Go's mutexes hand the
\* lock to a waiter).
Fairness ==
    /\ WF_vars(CreateItems) /\ WF_vars(ClaimNew) /\ SF_vars(Recover)
    /\ WF_vars(CancelJob) /\ WF_vars(Start) /\ SF_vars(ShutdownDone)
    /\ WF_vars(Abandoned(job.attempt) /\ LeaseLapses)
    /\ \A u \in Uploads : WF_vars(Abandoned(staged[u].owner) /\ StagingLapses(u))
    /\ \A a \in Runs :
          /\ SF_vars(RunStep(a)) /\ WF_vars(Heartbeat(a))
          /\ \A u \in Uploads : WF_vars(TaskStep(a, u))

FairSpec == Spec /\ Fairness
-----------------------------------------------------------------------------
(* Properties *)

\* What the code calls indexed, said once more without its help.
Stored(c) == \E d \in docs : Checksum[d.upload] = c /\ d.status = "indexed"

\* Type invariant.
TypeOK ==
    /\ proc \in {"up", "stopping", "down"}
    /\ job \in [status: {"absent"} \cup Active \cup Terminal,
                lease: {"free", "held", "expired"}, attempt: 0..Attempts,
                retryable: BOOLEAN, retries: Nat]
    /\ batch \in Seq(Uploads)
    /\ input \subseteq Uploads /\ sized \subseteq Uploads
    /\ item \in [Uploads -> [status: {"missing", "pending", "running"} \cup Terminal,
                             code: Codes, retryable: BOOLEAN]]
    /\ staged \in [Uploads -> [status: {"staged", "processing", "gone"},
                               owner: 0..Attempts, live: BOOLEAN]]
    /\ docs \subseteq [upload: Uploads, by: Runs,
                       status: {"processing", "indexed", "failed"}]
    /\ run \in [Runs -> [at: {"off", "load", "work", "over"}, ctx: BOOLEAN,
                         idle: Nat, todo: Seq(Uploads),
                         task: [Uploads -> [at: {"none", "ok", "failed"} \cup Busy,
                                            code: Codes]]]]
    /\ creating \in {"no", "items", "claim"}
    /\ cancelling \in BOOLEAN
    /\ lost \subseteq Contents
    /\ faults \in Nat

\* A content is stored once: neither two files of a batch, nor an attempt that was
\* interrupted and the attempt that resumed it, leave two documents with it.
NoDuplicateDocument ==
    \A d, e \in docs : Checksum[d.upload] = Checksum[e.upload] => d = e

\* A succeeded checkpoint, and the success of the whole job, stand for documents
\* that are indexed (unless a user deleted them since), across every interruption
\* between the commit of a document, the end of its upload and its checkpoint.
SuccessIsIndexed ==
    \A u \in Elems(batch) :
        item[u].status = "succeeded" \/ job.status = "succeeded" =>
            Stored(Checksum[u]) \/ Checksum[u] \in lost

\* No upload is lost: its staged source is removed only once its content is
\* indexed (or it expired), whatever attempt consumed it.
SourceKept ==
    \A u \in Uploads : staged[u].status = "gone" =>
        Stored(Checksum[u]) \/ Checksum[u] \in lost

\* The checkpoints of a finished job do not change any more, though workers of
\* this and of earlier attempts may still be running.
CheckpointsFrozen ==
    [][job.status \in Terminal /\ job'.status = job.status => item' = item]_vars

\* Every batch that was stored comes to an end, across crashes and shutdowns.
BatchEnds == job.status \in Active ~> ~(job.status \in Active)

\* reserveDocumentIndex: a waiting attempt is to "either report its successful
\* document or take over after a failure"; so no file is refused as the duplicate
\* of a document that was never indexed.
TakesOver ==
    \A u \in Elems(batch) : item[u].code = "duplicate_document" =>
        Stored(Checksum[u]) \/ Checksum[u] \in lost

\* runBatchIndexJobWithLease: a file without a result "can only happen when
\* cancellation races with worker startup": a batch that ran to its end gave every
\* file a result.
EveryFileHandled ==
    [][\A a \in Runs :
          /\ run[a].at = "work" /\ run'[a].at = "over" /\ proc' # "down"
          /\ run[a].ctx
          => \A u \in Elems(batch) : run[a].task[u].at # "none"]_vars
=============================================================================
