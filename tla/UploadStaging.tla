---------------------------- MODULE UploadStaging ----------------------------
(***************************************************************************)
(* UploadStagingService: files that clients upload wait in a directory,    *)
(* under a quota and with an expiry, until a worker has indexed them.      *)
(*                                                                         *)
(* The items are kept in memory and written as a whole to a manifest after *)
(* every change; a write may fail, and the process may stop between any    *)
(* two steps.  A worker holds an item by a lease with an attempt number,   *)
(* goes through registerStagedUploadAsForJobWithLease, and may be stalled, *)
(* cancelled or replaced while it does.  A cleaner runs every few minutes  *)
(* beside everything else.  A step is one section under the service's      *)
(* lock, or one operation on the directory outside it.                     *)
(***************************************************************************)
EXTENDS Integers, FiniteSets, FiniteSetsExt

CONSTANTS
    Uploads,      \* identifiers of uploads, each handed out once
    Owner,        \* the principal that stages each upload
    Size,         \* and its size
    Content,      \* what is in it, told apart by SHA-256
    QuotaKey,     \* principal -> the key its staging is counted under
    ItemKey,      \* principal -> the key its stored items are counted under
    Workers,      \* attempts of jobs, and requests, that index uploads
    Setups,       \* what a behaviour runs with: the limits of the quota, the
                  \* uploads clients bring, the workers at hand, and the
                  \* bound on faults: failed writes and removals, unreadable
                  \* files, failed index calls, lost job leases and crashes
    MaxAttempt    \* bound: claims of one upload

ASSUME StagingConstants ==
    /\ Uploads # {}
    /\ Size \in [Uploads -> Nat \ {0}]
    /\ Setups \subseteq [files : Nat, bytes : Nat, total : Nat, faults : Nat,
                         uploads : SUBSET Uploads, workers : SUBSET Workers]
    /\ MaxAttempt \in Nat

VARIABLES
    setup,        \* the member of Setups a behaviour runs with
    items,        \* the items in memory
    manifest,     \* manifest.json
    files,        \* uploads with their file in the staging directory
    temps,        \* uploads with a temporary file there
    reserved,     \* uploads being copied, counted before they are stored
    live,         \* uploads whose processing lease lies in the future
    expired,      \* uploads whose expiry lies in the past
    aged,         \* uploads whose file is older than the time to live
    work,         \* what each worker is doing
    cleaner,      \* what CleanupExpired is doing
    loadFailed,   \* manifestLoadFailed: the manifest could not be read
    indexed,      \* contents the knowledge base has as indexed documents
    issued,       \* identifiers handed out
    acked,        \* observer: uploads a client was told about, not withdrawn
    served,       \* observer: uploads whose content a worker saw indexed
    faults        \* faults so far

clock == <<live, expired, aged>>
observers == <<acked, served>>
stagingVars == <<setup, items, manifest, files, temps, reserved, clock, work, cleaner,
          loadFailed, indexed, issued, observers, faults>>

NoItem  == [status |-> "none", attempt |-> 0]
Staged(n)     == [status |-> "staged", attempt |-> n]
Processing(n) == [status |-> "processing", attempt |-> n]
Consumed(n)   == [status |-> "consumed", attempt |-> n]
Waiting == {"staged", "processing"}

Resting == [at |-> "idle", upload |-> CHOOSE u \in Uploads : TRUE, attempt |-> 0,
            fenced |-> FALSE]
Quiet   == [at |-> "idle", gone |-> {}, orphans |-> {}]

\* Worker steps while the lease of the upload is tracked by the heartbeat.
Tracked == {"claimed", "copy", "index", "recheck", "consume"}

StagingInit ==
    /\ setup \in Setups
    /\ items = [u \in Uploads |-> NoItem]
    /\ manifest = items
    /\ files = {} /\ temps = {} /\ reserved = {}
    /\ live = {} /\ expired = {} /\ aged = {}
    /\ work = [w \in Workers |-> Resting]
    /\ cleaner = Quiet
    /\ loadFailed = FALSE
    /\ indexed = {} /\ issued = {}
    /\ acked = {} /\ served = {}
    /\ faults = 0
-----------------------------------------------------------------------------
(* Helpers *)

Fault == faults < setup.faults /\ faults' = faults + 1

\* saveManifestLocked: the whole of the items, through a temporary file and a
\* rename.  ensureManifestHealthy probes the directory first; a failed probe and
\* a failed write both leave the item as it was.
Stored(u, item) ==
    /\ items' = [items EXCEPT ![u] = item]
    /\ manifest' = items'
    /\ UNCHANGED faults
Refused == Fault /\ UNCHANGED <<items, manifest>>

Goto(w, step) == work' = [work EXCEPT ![w].at = step]
Return(w)     == work' = [work EXCEPT ![w] = Resting]

\* stagedUploadLeaseActive, isStagedUploadExpired.
LeaseActive(u) == items[u].status = "processing" /\ u \in live
Lapsed(u)      == u \in expired /\ ~LeaseActive(u)

\* Mutant: the attempt is not compared.
HoldsAnyAttempt(w) == items[work[w].upload].status = "processing"

\* validateStagedUploadLease; every claim has an owner string of its own, so the
\* attempt alone tells claims apart.
Holds(w) ==
    /\ items[work[w].upload].status = "processing"
    /\ items[work[w].upload].attempt = work[w].attempt

\* checkQuotaLocked: what waits or is being copied, expired items aside.
Counted == {u \in Uploads : items[u].status \in Waiting /\ ~Lapsed(u)}
Bytes(us) == MapThenSumSet(LAMBDA u : Size[u], us)

\* Mutant: uploads that are still being copied do not count.
StoredOnly(key, copying) == {v \in Counted : ItemKey[Owner[v]] = key}

CountedFor(key, copying) ==
    {v \in Counted : ItemKey[Owner[v]] = key}
    \cup {v \in copying : QuotaKey[Owner[v]] = key}

WithinQuota(u, copying) ==
    LET mine == CountedFor(QuotaKey[Owner[u]], copying) IN
    /\ Cardinality(mine) < setup.files
    /\ Bytes(mine) + Size[u] <= setup.bytes
    /\ Bytes(Counted \cup copying) + Size[u] <= setup.total
-----------------------------------------------------------------------------
(* Staging *)

\* stageFromReader up to the copy.
StageReserve(u) ==
    /\ ~loadFailed
    /\ u \in setup.uploads \ issued
    /\ WithinQuota(u, reserved)
    /\ issued' = issued \cup {u}
    /\ reserved' = reserved \cup {u}
    /\ temps' = temps \cup {u}
    /\ UNCHANGED <<setup, items, manifest, files, clock, work, cleaner,
                   loadFailed, indexed, observers, faults>>

\* The reader fails, or the client goes away.
StageFails(u) ==
    /\ u \in reserved
    /\ reserved' = reserved \ {u}
    /\ temps' = temps \ {u}
    /\ UNCHANGED <<setup, items, manifest, files, clock, work, cleaner,
                   loadFailed, indexed, issued, observers, faults>>

\* stageFromReader after the copy: the quota again, the rename, the manifest.
StageCommit(u) ==
    /\ u \in reserved
    /\ WithinQuota(u, reserved \ {u})
    /\ reserved' = reserved \ {u}
    /\ temps' = temps \ {u}
    /\ \/ /\ Stored(u, Staged(0))
          /\ files' = files \cup {u}
          /\ acked' = acked \cup {u}
       \/ /\ Refused
          /\ UNCHANGED <<files, acked>>
    /\ UNCHANGED <<setup, clock, work, cleaner, loadFailed, indexed, issued,
                   served>>

\* StartMCPImportJobAs deletes the upload it has just staged when it cannot
\* register the job; nobody else knows of it yet.
Withdraw(w, u) ==
    /\ w \in setup.workers /\ work[w].at = "idle"
    /\ items[u] = Staged(0)
    /\ \/ /\ Stored(u, NoItem)
          /\ acked' = acked \ {u}
          /\ work' = [work EXCEPT ![w].at = "remove", ![w].upload = u]
       \/ Refused /\ UNCHANGED <<acked, work>>
    /\ UNCHANGED <<setup, files, temps, reserved, clock, cleaner, loadFailed,
                   indexed, issued, served>>
-----------------------------------------------------------------------------
(* A worker: registerStagedUploadAsForJobWithLease *)

\* ClaimWithLeaseAs: a staged item, or one whose lease has lapsed; its worker
\* waits, and gives up after a while, when neither is the case.
Claim(w, u) ==
    LET next == items[u].attempt + 1 IN
    /\ w \in setup.workers /\ work[w].at = "idle"
    /\ ~loadFailed
    /\ items[u].status \in Waiting /\ ~LeaseActive(u) /\ u \notin expired
    /\ next <= MaxAttempt
    /\ \/ /\ Stored(u, Processing(next))
          /\ live' = live \cup {u}
          /\ work' = [work EXCEPT ![w] = [at |-> "claimed", upload |-> u,
                                          attempt |-> next, fenced |-> FALSE]]
       \/ Refused /\ UNCHANGED <<live, work>>
    /\ UNCHANGED <<setup, files, temps, reserved, expired, aged, cleaner,
                   loadFailed, indexed, issued, observers>>

\* The job's lease, then findDocumentByChecksum.
Check(w) ==
    LET u == work[w].upload IN
    /\ work[w].at = "claimed"
    /\ IF work[w].fenced
       THEN Goto(w, "release") /\ UNCHANGED served
       ELSE IF Content[u] \in indexed
       THEN Goto(w, "consume") /\ served' = served \cup {u}
       ELSE Goto(w, "copy") /\ UNCHANGED served
    /\ UNCHANGED <<setup, items, manifest, files, temps, reserved, clock,
                   cleaner, loadFailed, indexed, issued, acked, faults>>

\* CopyToWithLeaseAttempt: the file is read, and its checksum compared.
Copy(w) ==
    LET u == work[w].upload IN
    /\ work[w].at = "copy"
    /\ \/ /\ Holds(w) /\ ~Lapsed(u) /\ u \in files
          /\ Goto(w, "index")
          /\ UNCHANGED faults
       \/ /\ ~Holds(w) \/ Lapsed(u)
          /\ Goto(w, "release")
          /\ UNCHANGED faults
       \/ Fault /\ Goto(w, "release")
    /\ UNCHANGED <<setup, items, manifest, files, temps, reserved, clock,
                   cleaner, loadFailed, indexed, issued, observers>>

\* The job's lease, then IndexDocumentWithContext, which ends with the content
\* indexed by this worker or by another one, or with an error.
Index(w) ==
    LET u == work[w].upload IN
    /\ work[w].at = "index"
    /\ \/ /\ work[w].fenced
          /\ Goto(w, "release")
          /\ UNCHANGED <<indexed, served, faults>>
       \/ /\ ~work[w].fenced
          /\ indexed' = indexed \cup {Content[u]}
          /\ served' = served \cup {u}
          /\ Goto(w, IF Content[u] \in indexed THEN "consume" ELSE "recheck")
          /\ UNCHANGED faults
       \/ /\ ~work[w].fenced
          /\ Fault
          /\ Goto(w, "release")
          /\ UNCHANGED <<indexed, served>>
    /\ UNCHANGED <<setup, items, manifest, files, temps, reserved, clock,
                   cleaner, loadFailed, issued, acked>>

\* The job's lease once more: a worker that lost it leaves the upload alone.
Recheck(w) ==
    /\ work[w].at = "recheck"
    /\ IF work[w].fenced THEN Return(w) ELSE Goto(w, "consume")
    /\ UNCHANGED <<setup, items, manifest, files, temps, reserved, clock,
                   cleaner, loadFailed, indexed, issued, observers, faults>>

\* MarkConsumedWithLeaseAttempt; an error is logged and the item stays.
Consume(w) ==
    LET u == work[w].upload IN
    /\ work[w].at = "consume"
    /\ \/ /\ Holds(w)
          /\ Stored(u, Consumed(items[u].attempt))
          /\ live' = live \ {u}
          /\ Goto(w, "delete")
       \/ /\ Holds(w)
          /\ Refused /\ UNCHANGED live
          /\ Return(w)
       \/ /\ ~Holds(w)
          /\ Return(w)
          /\ UNCHANGED <<items, manifest, live, faults>>
    /\ UNCHANGED <<setup, files, temps, reserved, expired, aged, cleaner,
                   loadFailed, indexed, issued, observers>>

\* Delete: the item, under the lock ...
Delete(w) ==
    LET u == work[w].upload IN
    /\ work[w].at = "delete"
    /\ \/ items[u] # NoItem /\ Stored(u, NoItem) /\ Goto(w, "remove")
       \/ items[u] # NoItem /\ Refused /\ Return(w)
       \/ items[u] = NoItem /\ Return(w) /\ UNCHANGED <<items, manifest, faults>>
    /\ UNCHANGED <<setup, files, temps, reserved, clock, cleaner, loadFailed,
                   indexed, issued, observers>>

\* ... and then its file.
RemoveFile(w) ==
    /\ work[w].at = "remove"
    /\ \/ files' = files \ {work[w].upload} /\ UNCHANGED faults
       \/ Fault /\ UNCHANGED files
    /\ Return(w)
    /\ UNCHANGED <<setup, items, manifest, temps, reserved, clock, cleaner,
                   loadFailed, indexed, issued, observers>>

\* ReleaseWithLeaseAttempt; its error is ignored.
Release(w) ==
    LET u == work[w].upload IN
    /\ work[w].at = "release"
    /\ \/ Holds(w) /\ Stored(u, Staged(items[u].attempt)) /\ live' = live \ {u}
       \/ Holds(w) /\ Refused /\ UNCHANGED live
       \/ ~Holds(w) /\ UNCHANGED <<items, manifest, live, faults>>
    /\ Return(w)
    /\ UNCHANGED <<setup, files, temps, reserved, expired, aged, cleaner,
                   loadFailed, indexed, issued, observers>>

\* RenewProcessingLease by the heartbeat: the expiry of an item moves on only
\* once it has passed.  A renewal that fails cancels the worker.
Renew(w) ==
    LET u == work[w].upload IN
    /\ work[w].at \in Tracked /\ ~work[w].fenced
    /\ Holds(w) /\ u \in live /\ u \in expired
    /\ \/ Stored(u, items[u]) /\ expired' = expired \ {u} /\ UNCHANGED work
       \/ /\ Refused
          /\ work' = [work EXCEPT ![w].fenced = TRUE]
          /\ UNCHANGED expired
    /\ UNCHANGED <<setup, files, temps, reserved, live, aged, cleaner,
                   loadFailed, indexed, issued, observers>>

\* The job's lease is lost or its context is cancelled.
Fence(w) ==
    /\ work[w].at \in Tracked /\ ~work[w].fenced
    /\ Fault
    /\ work' = [work EXCEPT ![w].fenced = TRUE]
    /\ UNCHANGED <<setup, items, manifest, files, temps, reserved, clock,
                   cleaner, loadFailed, indexed, issued, observers>>
-----------------------------------------------------------------------------
(* The cleaner: CleanupExpired *)

Abandoned == {u \in Uploads : /\ items[u].status = "processing"
                              /\ u \notin live /\ u \notin expired}
Overdue == {u \in Uploads : items[u] # NoItem /\ Lapsed(u)}

\* Mutant: the file of every item may be removed as an orphan.
OrphansAll == aged
\* Files older than the time to live that no item points to.
Orphans == aged \ {u \in Uploads : items[u] # NoItem /\ u \notin Overdue}

\* One section under the lock.  When the manifest cannot be written the overdue
\* items come back, and the abandoned ones stay released in memory only.
CleanUp ==
    LET freed == [u \in Uploads |-> IF u \in Abandoned
                                    THEN Staged(items[u].attempt) ELSE items[u]]
        kept  == [u \in Uploads |-> IF u \in Overdue THEN NoItem ELSE freed[u]]
    IN
    /\ cleaner.at = "idle" /\ ~loadFailed
    /\ Abandoned \cup Overdue \cup Orphans # {}
    /\ \/ /\ items' = kept
          /\ manifest' = IF Abandoned \cup Overdue = {} THEN manifest ELSE kept
          /\ cleaner' = [at |-> "remove", gone |-> Overdue, orphans |-> Orphans]
          /\ UNCHANGED faults
       \/ /\ Abandoned \cup Overdue # {}
          /\ Fault
          /\ items' = freed
          /\ UNCHANGED <<manifest, cleaner>>
    /\ UNCHANGED <<setup, files, temps, reserved, clock, work, loadFailed,
                   indexed, issued, observers>>

\* The files of the items removed; an error ends the round.
CleanRemove ==
    /\ cleaner.at = "remove"
    /\ \/ /\ files' = files \ cleaner.gone
          /\ cleaner' = [cleaner EXCEPT !.at = "scan"]
          /\ UNCHANGED faults
       \/ /\ Fault
          /\ files' \in {files \ done : done \in SUBSET cleaner.gone}
          /\ cleaner' = Quiet
    /\ UNCHANGED <<setup, items, manifest, temps, reserved, clock, work,
                   loadFailed, indexed, issued, observers>>

\* The scan of the directory, against the paths and the time of the first step.
CleanScan ==
    /\ cleaner.at = "scan"
    /\ files' = files \ cleaner.orphans
    /\ temps' = temps \ cleaner.orphans
    /\ cleaner' = Quiet
    /\ UNCHANGED <<setup, items, manifest, reserved, clock, work, loadFailed,
                   indexed, issued, observers, faults>>
-----------------------------------------------------------------------------
(* The clock, the process, the user *)

Lapse(u) ==
    /\ u \in live
    /\ live' = live \ {u}
    /\ UNCHANGED <<setup, items, manifest, files, temps, reserved, expired, aged,
                   work, cleaner, loadFailed, indexed, issued, observers, faults>>

\* The time to live passes, since the upload or since its expiry was moved.
Expire(u) ==
    /\ u \in issued \ (reserved \cup expired)
    /\ expired' = expired \cup {u}
    /\ aged' = aged \cup {u}
    /\ UNCHANGED <<setup, items, manifest, files, temps, reserved, live, work,
                   cleaner, loadFailed, indexed, issued, observers, faults>>

\* The process stops anywhere, also between the rename of a staged file and the
\* write of the manifest, and starts again: loadManifest.
Crash ==
    /\ Fault
    /\ \E renamed \in {{}} \cup {{u} : u \in reserved} :
         /\ files' = files \cup renamed
         /\ temps' = temps \ renamed
    /\ reserved' = {}
    /\ work' = [w \in Workers |-> Resting]
    /\ cleaner' = Quiet
    /\ \/ items' = manifest /\ loadFailed' = FALSE
       \/ items' = [u \in Uploads |-> NoItem] /\ loadFailed' = TRUE
    /\ UNCHANGED <<setup, manifest, clock, indexed, issued, observers>>

\* Mutant: the service carries on with no items.
ReloadEmpty ==
    /\ loadFailed
    /\ loadFailed' = FALSE
    /\ manifest' = items
    /\ UNCHANGED <<setup, items, files, temps, reserved, clock, work,
                   cleaner, indexed, issued, observers, faults>>

\* ManifestHealth reads the manifest again on every call that needs it.
Reload ==
    /\ loadFailed
    /\ loadFailed' = FALSE
    /\ items' = manifest
    /\ UNCHANGED <<setup, manifest, files, temps, reserved, clock, work,
                   cleaner, indexed, issued, observers, faults>>

\* A user deletes a document.
Forget(c) ==
    /\ c \in indexed
    /\ indexed' = indexed \ {c}
    /\ UNCHANGED <<setup, items, manifest, files, temps, reserved, clock, work,
                   cleaner, loadFailed, issued, observers, faults>>

WorkStep(w) == Check(w) \/ Copy(w) \/ Index(w) \/ Recheck(w) \/ Consume(w)
               \/ Delete(w) \/ RemoveFile(w) \/ Release(w)
CleanStep == CleanUp \/ CleanRemove \/ CleanScan

StagingNext ==
    \/ \E u \in Uploads : \/ StageReserve(u) \/ StageFails(u) \/ StageCommit(u)
                          \/ Lapse(u) \/ Expire(u) \/ Forget(Content[u])
    \/ \E w \in Workers : \/ WorkStep(w) \/ Renew(w) \/ Fence(w)
                          \/ \E u \in Uploads : Claim(w, u) \/ Withdraw(w, u)
    \/ CleanStep \/ Crash \/ Reload

\* A lease nobody holds any more: no heartbeat renews it.
LapseUnheld(u) ==
    /\ \A w \in Workers : ~(work[w].at \in Tracked /\ work[w].upload = u /\ Holds(w))
    /\ Lapse(u)

\* Copies and calls return, the cleaner's ticker fires, time passes.
StagingFairness ==
    /\ \A w \in Workers : WF_stagingVars(WorkStep(w))
    /\ \A u \in Uploads : /\ WF_stagingVars(StageFails(u) \/ StageCommit(u))
                          /\ WF_stagingVars(Expire(u)) /\ WF_stagingVars(LapseUnheld(u))
    /\ WF_stagingVars(CleanStep) /\ WF_stagingVars(Reload)

StagingSpec == StagingInit /\ [][StagingNext]_stagingVars /\ StagingFairness
-----------------------------------------------------------------------------
(* Properties *)

Items == [status : {"none", "staged", "processing", "consumed"}, attempt : 0..MaxAttempt]

\* Types of the variables.
StagingTypeOK ==
    /\ setup \in Setups
    /\ items \in [Uploads -> Items] /\ manifest \in [Uploads -> Items]
    /\ issued \subseteq Uploads
    /\ files \subseteq issued /\ temps \subseteq issued /\ reserved \subseteq issued
    /\ live \subseteq issued /\ expired \subseteq issued /\ aged \subseteq issued
    /\ work \in [Workers -> [at : {"idle", "release", "delete", "remove"} \cup Tracked,
                             upload : Uploads, attempt : 0..MaxAttempt,
                             fenced : BOOLEAN]]
    /\ cleaner \in [at : {"idle", "remove", "scan"}, gone : SUBSET Uploads,
                    orphans : SUBSET Uploads]
    /\ loadFailed \in BOOLEAN
    /\ indexed \subseteq {Content[u] : u \in Uploads}
    /\ acked \subseteq issued /\ served \subseteq issued
    /\ faults \in 0..setup.faults

\* An upload that waits, in memory or in the manifest a restart will read, has
\* its file: commits, deletions, clean-ups and crashes change the two in an
\* order that never leaves an entry without one.
FileKept ==
    \A u \in Uploads :
        items[u].status \in Waiting \/ manifest[u].status \in Waiting => u \in files

\* An upload a client was told about leaves the manifest only when its content
\* is indexed, or when it has expired and no lease protects it: neither a failed
\* write, a crash, an unreadable manifest nor a late worker drops it.
UploadKept ==
    [][\A u \in acked' :
          \/ manifest'[u].status \in Waiting
          \/ u \in served'
          \/ Lapsed(u)]_stagingVars

\* What a principal has waiting or in copy stays within its quota however many
\* copies run at once, and so does the total.  (A principal that is neither a
\* user nor an API key is counted under another key than its items.)
QuotaKept ==
    /\ \A u \in Uploads :
         QuotaKey[Owner[u]] = ItemKey[Owner[u]] =>
            LET mine == CountedFor(QuotaKey[Owner[u]], reserved) \cup
                        {v \in reserved : QuotaKey[Owner[v]] = QuotaKey[Owner[u]]}
            IN Cardinality(mine) <= setup.files /\ Bytes(mine) <= setup.bytes
    /\ Bytes(Counted \cup reserved) <= setup.total

\* A claim under an active lease is ended by its own worker and nobody else: a
\* stalled worker whose upload was claimed again cannot release or consume it,
\* and the cleaner leaves it alone.
LeaseRespected ==
    [][\A u \in Uploads :
          \/ ~LeaseActive(u) \/ items'[u] = items[u] \/ loadFailed'
          \/ \E w \in Workers : /\ work[w].upload = u
                                /\ work[w].attempt = items[u].attempt
                                /\ work'[w] # work[w]]_stagingVars

\* What the staging directory owes: a file in it is removed in the end, those of
\* expired and of consumed uploads and what crashes and failed removals left.
InDirectory(u) == u \in files \cup temps
=============================================================================
