--------------------------- MODULE KnowledgeIndex ---------------------------
(***************************************************************************)
(* Knowledge bases, their documents and the index generations behind them: *)
(* IndexDocument, ReindexDocument, DeleteDocument, CreateKnowledgeBase and *)
(* DeleteKnowledgeBase, with the state in memory, the state file, the      *)
(* points in Qdrant and the extracted contents on disk.                    *)
(*                                                                         *)
(* Every operation runs against four stores that cannot change together.   *)
(* An indexing attempt writes a new generation beside the one the document *)
(* shows, promotes it by changing the document's fence, and then removes   *)
(* the old one; a marker on the document names the attempt in progress.    *)
(* A step is one call of a store together with the check of the marker and *)
(* of the context that follows it, or one section under the state lock.    *)
(***************************************************************************)
EXTENDS Integers, FiniteSets

CONSTANTS
    KBs,          \* knowledge base identifiers
    Docs,         \* document identifiers
    Contents,     \* contents, told apart by their SHA-256
    Checksum,     \* content of each document
    Procs,        \* requests and jobs that run at once
    First,        \* the knowledge base of the initial state
    Indexed,      \* documents the initial state shows as indexed
    Modes,        \* of "overlap", "faultySaves", "both": see Save, CanStart
    MaxFence,     \* bound: operations started, the initial state being the first
    MaxSaveFaults,\* bound: saves of the state file that fail
    MaxFaults     \* bound: failing calls of Qdrant or of the content store,
                  \* unreadable sources, cancellations and crashes together

ASSUME KnowledgeConstants ==
    /\ First \in KBs /\ Indexed \subseteq Docs /\ Docs # {}
    /\ Checksum \in [Docs -> Contents]
    /\ \A a, b \in Indexed : Checksum[a] = Checksum[b] => a = b
    /\ Modes \subseteq {"overlap", "faultySaves", "both"}
    /\ MaxFence \in Nat \ {0} /\ MaxSaveFaults \in Nat /\ MaxFaults \in Nat

VARIABLES
    mode,         \* what a behaviour allows: callers that overlap, saves that fail
    mem,          \* AppState in memory: knowledge bases and their documents
    disk,         \* the state file
    points,       \* generations with points in Qdrant
    contents,     \* generations in the indexed content store
    collections,  \* knowledge bases with a Qdrant collection
    op,           \* what each process is doing
    fences,       \* fences handed out
    used,         \* identifiers of knowledge bases handed out
    acked,        \* observer: documents reported as indexed, not deleted since
    failed,       \* observer: fences of attempts that returned an error
    cut,          \* observer: generations whose points a deletion removed
    leaked,       \* observer: generations a clean-up could not reach
    spent         \* observer: faults so far, by kind

stores    == <<points, contents, collections>>
observers == <<acked, failed, cut, leaked>>
vars == <<mode, mem, disk, stores, op, fences, used, observers, spent>>

Fences == 0..MaxFence
Gens   == KBs \X Docs \X Fences

NoDoc == [fence |-> 0, marker |-> 0, status |-> "none", run |-> 0]
NoDocs == [d \in Docs |-> NoDoc]

Begun == {"work", "collect", "scroll", "upsert", "capture", "commit",
          "commitSave", "commitUndo", "abortPoints", "abortContent", "fail",
          "failSave", "failUndo"}
Retiring == {"retirePoints", "retireContent"}
\* Between the reservation of the content and the return.
Reserving == {"reserved", "beginSave", "beginUndo", "undoSave"} \cup Begun
             \cup Retiring
             \cup {"deletePoints", "deleteRemove", "deleteSave", "deleteUndo",
                   "deleteContent"}
Steps == {"idle", "reserve"} \cup Reserving
         \cup {"dropSave", "dropUndo", "dropCollection", "dropContent",
               "createSave", "createUndo", "createCollection"}

\* snap is the previousKB (or originalDocuments) the operation captured;
\* receipt is how much of the generation receipt is filled in.
Idle == [at |-> "idle", kind |-> "none", kb |-> First,
         doc |-> CHOOSE d \in Docs : TRUE, fence |-> 0, prev |-> 0,
         superseded |-> 0, new |-> FALSE, snap |-> NoDocs,
         receipt |-> "none", then |-> "fail", cancelled |-> FALSE]

Init ==
    /\ mode \in Modes
    /\ mem = [kbs |-> {First},
              doc |-> [k \in KBs |-> [d \in Docs |->
                  IF k = First /\ d \in Indexed
                  THEN [fence |-> 1, marker |-> 0, status |-> "indexed", run |-> 1]
                  ELSE NoDoc]]]
    /\ disk = mem
    /\ points = {First} \X Indexed \X {1}
    /\ contents = points
    /\ collections = {First}
    /\ op = [p \in Procs |-> Idle]
    /\ fences = 1
    /\ used = {First}
    /\ acked = {First} \X Indexed
    /\ failed = {} /\ cut = {} /\ leaked = {}
    /\ spent = [save |-> 0, fault |-> 0]
-----------------------------------------------------------------------------
(* Helpers *)

Has(st, k, d) == k \in st.kbs /\ st.doc[k][d].status # "none"

Gen(k, d, f) == <<k, d, f>>

\* A document, as <<k, d>>, that shows a generation; one whose commit is not saved.
Shows(st, a) == Has(st, a[1], a[2]) /\ st.doc[a[1]][a[2]].fence # 0
Pending(a) == \E p \in Procs : /\ op[p].at \in {"commitSave", "commitUndo"}
                              /\ <<op[p].kb, op[p].doc>> = a
Of(k, d) == {g \in Gens : g[1] = k /\ g[2] = d}
OfKB(k)  == {g \in Gens : g[1] = k}

\* The generations op[p] knows by these fences; 0 is no fence.
Held(p, fs) == {Gen(op[p].kb, op[p].doc, f) : f \in fs \ {0}}

Goto(p, step) == op' = [op EXCEPT ![p].at = step]
Return(p)     == op' = [op EXCEPT ![p] = Idle]

SetDoc(st, k, d, new) == [st EXCEPT !.doc[k][d] = new]
Current(p) == mem.doc[op[p].kb][op[p].doc]
SetCurrent(p, new) == mem' = SetDoc(mem, op[p].kb, op[p].doc, new)

Fault == spent.fault < MaxFaults /\ spent' = [spent EXCEPT !.fault = @ + 1]

Overlaps == mode \in {"overlap", "both"}
Faulty   == mode \in {"faultySaves", "both"}

\* saveState: the copy under the read lock is the state that reaches the file;
\* a save that fails leaves the file as it was (a temporary file and a rename).
Save == disk' = mem /\ UNCHANGED spent
SaveFails ==
    /\ Faulty /\ spent.save < MaxSaveFaults
    /\ spent' = [spent EXCEPT !.save = @ + 1]
    /\ UNCHANGED disk

\* The copy taken before the change is dropped once the change is saved.
SaveThen(p, saved, refused) ==
    \/ Save /\ op' = [op EXCEPT ![p].at = saved, ![p].snap = NoDocs]
    \/ SaveFails /\ Goto(p, refused)

CanStart(p) ==
    /\ op[p].at = "idle"
    /\ fences < MaxFence
    /\ Overlaps \/ \A q \in Procs : op[q].at = "idle"

\* Mutant: an attempt takes two fences.
StartTwice(p, kind, k, d, at, snap) ==
    /\ op' = [op EXCEPT ![p] =
               [Idle EXCEPT !.at = at, !.kind = kind, !.kb = k, !.doc = d,
                            !.fence = fences + 1, !.snap = snap]]
    /\ fences' = fences + 2

Start(p, kind, k, d, at, snap) ==
    /\ op' = [op EXCEPT ![p] =
               [Idle EXCEPT !.at = at, !.kind = kind, !.kb = k, !.doc = d,
                            !.fence = fences + 1, !.snap = snap]]
    /\ fences' = fences + 1

AnyDoc == Idle.doc

\* findDocumentByChecksum, findDuplicateDocument: another document with the
\* same content, whatever its status.
Duplicate(k, d) ==
    \E e \in Docs \ {d} : Has(mem, k, e) /\ Checksum[e] = Checksum[d]

\* indexReservations: one holder per knowledge base and content.
Reserved(p) ==
    \E q \in Procs \ {p} :
        /\ op[q].at \in Reserving
        /\ op[q].kb = op[p].kb
        /\ Checksum[op[q].doc] = Checksum[op[p].doc]

\* ensureIndexOperationActive, ensureIndexOperationLease: the context lives, the
\* document still shows the generation the attempt replaces and names it.
Active(p) ==
    /\ ~op[p].cancelled
    /\ Has(mem, op[p].kb, op[p].doc)
    /\ Current(p).fence = op[p].prev
    /\ Current(p).marker = op[p].fence

\* An indexing attempt returns an error; "left" is what its clean-up missed.
\* A superseded generation is only cleaned up when its points were listed.
Leave(p, left) ==
    /\ Return(p)
    /\ failed' = failed \cup {op[p].fence}
    /\ leaked' = leaked \cup left \cup
         (IF op[p].receipt = "points" THEN {} ELSE Held(p, {op[p].superseded}))
-----------------------------------------------------------------------------
(* Reservation and begin *)

\* IndexDocumentWithContext of a document the knowledge base does not have; for
\* one it has, the call returns what is there.
StartIndex(p, k, d) ==
    /\ CanStart(p)
    /\ k \in mem.kbs /\ ~Has(mem, k, d)
    /\ Start(p, "index", k, d, "reserve", NoDocs)
    /\ UNCHANGED <<mode, mem, disk, stores, used, observers, spent>>

\* reindexDocumentWithContext and DeleteDocument look the document up first.
StartOnDocument(p, k, d) ==
    /\ CanStart(p)
    /\ Has(mem, k, d)
    /\ \E kind \in {"reindex", "delete"} :
           Start(p, kind, k, d, "reserve", NoDocs)
    /\ UNCHANGED <<mode, mem, disk, stores, used, observers, spent>>

\* reserveDocumentIndex waits for the holder; the lookups that follow it read
\* the document again, except in DeleteDocument.
Reserve(p) ==
    LET k == op[p].kb  d == op[p].doc IN
    /\ op[p].at = "reserve"
    /\ ~Reserved(p)
    /\ IF \/ op[p].cancelled
          \/ k \notin mem.kbs
          \/ Duplicate(k, d)
          \/ op[p].kind = "index" /\ Has(mem, k, d)
          \/ op[p].kind = "reindex" /\ ~Has(mem, k, d)
       THEN Return(p)
       ELSE IF op[p].kind = "delete"
       THEN Goto(p, "deletePoints")
       ELSE op' = [op EXCEPT ![p].at = "reserved",
                             ![p].prev = Current(p).fence]
    /\ UNCHANGED <<mode, mem, disk, stores, fences, used, observers, spent>>

\* beginIndexOperation under the lock: a compare-and-swap on the visible fence
\* for a known document, a duplicate check for a new one.
Begin(p) ==
    LET k == op[p].kb  d == op[p].doc  cur == Current(p)
        begun == [op EXCEPT ![p].at = "beginSave", ![p].snap = mem.doc[k]]
    IN
    /\ op[p].at = "reserved"
    /\ \/ /\ \/ op[p].cancelled
             \/ k \notin mem.kbs
             \/ Has(mem, k, d) /\ cur.fence # op[p].prev
             \/ ~Has(mem, k, d) /\ Duplicate(k, d)
          /\ Return(p)
          /\ UNCHANGED mem
       \/ /\ ~op[p].cancelled
          /\ Has(mem, k, d) /\ cur.fence = op[p].prev
          /\ SetCurrent(p, [cur EXCEPT !.marker = op[p].fence])
          /\ op' = [begun EXCEPT ![p].superseded = cur.marker]
       \/ /\ ~op[p].cancelled
          /\ k \in mem.kbs /\ ~Has(mem, k, d) /\ ~Duplicate(k, d)
          /\ SetCurrent(p, [fence |-> op[p].prev, marker |-> op[p].fence,
                            status |-> "processing", run |-> 0])
          /\ op' = [begun EXCEPT ![p].new = TRUE]
    /\ UNCHANGED <<mode, disk, stores, fences, used, observers, spent>>

BeginSave(p) ==
    /\ op[p].at = "beginSave"
    /\ SaveThen(p, "work", "beginUndo")
    /\ UNCHANGED <<mode, mem, stores, fences, used, observers>>

\* rollbackIndexOperationStart, in memory.
BeginUndo(p) ==
    LET before == op[p].snap[op[p].doc] IN
    /\ op[p].at = "beginUndo"
    /\ IF Has(mem, op[p].kb, op[p].doc) /\ Current(p).marker = op[p].fence
       THEN SetCurrent(p, IF op[p].new THEN NoDoc ELSE before)
       ELSE UNCHANGED mem
    /\ Goto(p, "undoSave")
    /\ UNCHANGED <<mode, disk, stores, fences, used, observers, spent>>

\* Its save, whose error is ignored.
UndoSave(p) ==
    /\ op[p].at = "undoSave"
    /\ Save \/ SaveFails
    /\ Leave(p, {})
    /\ UNCHANGED <<mode, mem, stores, fences, used, acked, cut>>
-----------------------------------------------------------------------------
(* Writing the new generation *)

\* reindexDocumentWithConfig before the stores are touched: the source is
\* verified, its text extracted, chunked and embedded.
Work(p) ==
    /\ op[p].at = "work"
    /\ \/ /\ Active(p)
          /\ op' = [op EXCEPT ![p].at = "collect", ![p].receipt = "fences"]
          /\ UNCHANGED spent
       \/ /\ Fault
          /\ Goto(p, "fail")
       \/ /\ ~Active(p)
          /\ \/ Goto(p, "fail")
             \/ op' = [op EXCEPT ![p].at = "abortPoints", ![p].receipt = "fences"]
          /\ UNCHANGED spent
    /\ UNCHANGED <<mode, mem, disk, stores, fences, used, observers>>

\* ensureKnowledgeBaseCollectionWithContext: only the context is checked before.
EnsureCollection(p) ==
    LET k == op[p].kb IN
    /\ op[p].at = "collect"
    /\ \/ /\ op[p].cancelled
          /\ Goto(p, "abortPoints")
          /\ UNCHANGED <<collections, spent>>
       \/ /\ ~op[p].cancelled
          /\ collections' = collections \cup {k}
          /\ Goto(p, IF Active(p) THEN "scroll" ELSE "abortPoints")
          /\ UNCHANGED spent
       \/ /\ ~op[p].cancelled
          /\ Fault
          /\ collections' \in {collections, collections \cup {k}}
          /\ Goto(p, "abortPoints")
    /\ UNCHANGED <<mode, mem, disk, points, contents, fences, used, observers>>

\* The points the document has so far are listed in the receipt.
Scroll(p) ==
    /\ op[p].at = "scroll"
    /\ \/ /\ op[p].kb \in collections /\ Active(p)
          /\ op' = [op EXCEPT ![p].at = "upsert", ![p].receipt = "points"]
          /\ UNCHANGED spent
       \/ /\ op[p].kb \notin collections \/ ~Active(p)
          /\ Goto(p, "abortPoints")
          /\ UNCHANGED spent
       \/ Fault /\ Goto(p, "abortPoints")
    /\ UNCHANGED <<mode, mem, disk, stores, fences, used, observers>>

\* upsertDocumentChunksWithContextForOperation; a call that fails may have
\* written its points.
Upsert(p) ==
    LET written == points \cup Held(p, {op[p].fence}) IN
    /\ op[p].at = "upsert"
    /\ \/ /\ op[p].kb \in collections
          /\ points' = written
          /\ Goto(p, IF Active(p) THEN "capture" ELSE "abortPoints")
          /\ UNCHANGED spent
       \/ /\ op[p].kb \notin collections
          /\ Goto(p, "abortPoints")
          /\ UNCHANGED <<points, spent>>
       \/ /\ Fault
          /\ op[p].kb \in collections
          /\ points' \in {points, written}
          /\ Goto(p, "abortPoints")
    /\ UNCHANGED <<mode, mem, disk, contents, collections, fences, used, observers>>

\* captureIndexedDocumentWithContextForOperation: IndexedContentStore.Put.
Capture(p) ==
    /\ op[p].at = "capture"
    /\ \/ /\ contents' = contents \cup Held(p, {op[p].fence})
          /\ Goto(p, IF Active(p) THEN "commit" ELSE "abortPoints")
          /\ UNCHANGED spent
       \/ /\ Fault
          /\ Goto(p, "abortPoints")
          /\ UNCHANGED contents
    /\ UNCHANGED <<mode, mem, disk, points, collections, fences, used, observers>>
-----------------------------------------------------------------------------
(* Commit, retirement, failure *)

\* commitIndexOperation under the lock.  An error from here on is not recorded
\* by failIndexOperation.
Commit(p) ==
    /\ op[p].at = "commit"
    /\ \/ /\ Active(p)
          /\ SetCurrent(p, [fence |-> op[p].fence, marker |-> 0,
                            status |-> "indexed", run |-> op[p].fence])
          /\ op' = [op EXCEPT ![p].at = "commitSave",
                              ![p].snap = mem.doc[op[p].kb]]
          /\ acked' = acked \cup {<<op[p].kb, op[p].doc>>}
       \/ /\ ~Active(p)
          /\ op' = [op EXCEPT ![p].at = "abortPoints", ![p].then = "return"]
          /\ UNCHANGED <<mem, acked>>
    /\ UNCHANGED <<mode, disk, stores, fences, used, failed, cut,
                   leaked, spent>>

\* Mutant: the error of the save is ignored.
CommitSaveIgnored(p) ==
    /\ op[p].at = "commitSave"
    /\ SaveThen(p, "retirePoints", "retirePoints")
    /\ UNCHANGED <<mode, mem, stores, fences, used, observers>>

CommitSave(p) ==
    /\ op[p].at = "commitSave"
    /\ SaveThen(p, "retirePoints", "commitUndo")
    /\ UNCHANGED <<mode, mem, stores, fences, used, observers>>

\* Mutant: the document is removed whether it is new or not.
RestoredRemoved(p) == NoDoc

\* The document as previousKB has it, without the marker; nothing for a new one.
Restored(p) ==
    IF op[p].new THEN NoDoc
    ELSE [op[p].snap[op[p].doc] EXCEPT !.marker = 0]

\* Mutant: the fence stays.
CommitUndoKeeps(p) ==
    /\ op[p].at = "commitUndo"
    /\ op' = [op EXCEPT ![p].at = "abortPoints", ![p].then = "return"]
    /\ UNCHANGED <<mode, mem, disk, stores, fences, used, observers, spent>>

\* rollbackCommittedIndexOperationLocked: in memory only, and only when the
\* document still is what this commit made of it.
CommitUndo(p) ==
    /\ op[p].at = "commitUndo"
    /\ IF /\ Has(mem, op[p].kb, op[p].doc)
          /\ Current(p).fence = op[p].fence /\ Current(p).run = op[p].fence
          /\ Current(p).marker = 0
       THEN SetCurrent(p, Restored(p))
       ELSE UNCHANGED mem
    /\ acked' = IF op[p].snap[op[p].doc].fence = 0
                THEN acked \ {<<op[p].kb, op[p].doc>>} ELSE acked
    /\ op' = [op EXCEPT ![p].at = "abortPoints", ![p].then = "return"]
    /\ UNCHANGED <<mode, disk, stores, fences, used, failed, cut,
                   leaked, spent>>

\* Mutant: the points of the document instead of those in the receipt.
AbortAllPoints(p) ==
    /\ op[p].at = "abortPoints"
    /\ points' = points \ Of(op[p].kb, op[p].doc)
    /\ Goto(p, "abortContent")
    /\ UNCHANGED <<mode, mem, disk, contents, collections, fences, used,
                   observers, spent>>

\* abortIndexGeneration: the points of the receipt ...
AbortPoints(p) ==
    LET mine == Held(p, {op[p].fence, op[p].superseded}) IN
    /\ op[p].at = "abortPoints"
    /\ \/ /\ points' = IF op[p].receipt = "points" THEN points \ mine ELSE points
          /\ UNCHANGED <<leaked, spent>>
       \/ /\ op[p].receipt = "points"
          /\ Fault
          /\ points' \in {points, points \ mine}
          /\ leaked' = leaked \cup (points' \cap mine)
    /\ Goto(p, "abortContent")
    /\ UNCHANGED <<mode, mem, disk, contents, collections, fences, used, acked,
                   failed, cut>>

\* ... and the contents of both fences, whichever of the two can be removed.
AbortContent(p) ==
    LET mine == Held(p, {op[p].fence, op[p].superseded}) IN
    /\ op[p].at = "abortContent"
    /\ \E left \in SUBSET (contents \cap mine) :
         /\ IF left = {} THEN UNCHANGED spent ELSE Fault
         /\ contents' = contents \ (mine \ left)
         /\ IF op[p].then = "return" THEN Leave(p, left)
            ELSE /\ Goto(p, "fail")
                 /\ leaked' = leaked \cup left
                 /\ UNCHANGED failed
    /\ UNCHANGED <<mode, mem, disk, points, collections, fences, used, acked, cut>>

\* Mutant: the superseded generation is forgotten.
RetirePrevious(p) ==
    LET old == Held(p, {op[p].prev}) IN
    /\ op[p].at = "retirePoints"
    /\ points' = points \ old
    /\ Goto(p, "retireContent")
    /\ UNCHANGED <<mode, mem, disk, contents, collections, fences, used,
                   observers, spent>>

\* retirePreviousGeneration: an error is only logged.
RetirePoints(p) ==
    LET old == Held(p, {op[p].prev, op[p].superseded}) IN
    /\ op[p].at = "retirePoints"
    /\ \/ /\ points' = points \ old
          /\ UNCHANGED <<leaked, spent>>
       \/ /\ Fault
          /\ points' \in {points, points \ old}
          /\ leaked' = leaked \cup (points' \cap old)
    /\ Goto(p, "retireContent")
    /\ UNCHANGED <<mode, mem, disk, contents, collections, fences, used, acked,
                   failed, cut>>

RetireContent(p) ==
    LET old == Held(p, {op[p].prev, op[p].superseded}) IN
    /\ op[p].at = "retireContent"
    /\ \E left \in SUBSET (contents \cap old) :
         /\ IF left = {} THEN UNCHANGED spent ELSE Fault
         /\ contents' = contents \ (old \ left)
         /\ leaked' = leaked \cup left
    /\ Return(p)
    /\ UNCHANGED <<mode, mem, disk, points, collections, fences, used, acked,
                   failed, cut>>

\* failIndexOperation: the document becomes "failed" and shows what it showed;
\* nothing is recorded once the context is cancelled or the marker has moved.
Fail(p) ==
    /\ op[p].at = "fail"
    /\ IF Active(p)
       THEN /\ SetCurrent(p, [Current(p) EXCEPT !.status = "failed", !.marker = 0,
                                                !.run = op[p].fence])
            /\ op' = [op EXCEPT ![p].at = "failSave",
                                ![p].snap = mem.doc[op[p].kb]]
            /\ UNCHANGED <<failed, leaked>>
       ELSE Leave(p, {}) /\ UNCHANGED mem
    /\ UNCHANGED <<mode, disk, stores, fences, used, acked, cut, spent>>

FailSave(p) ==
    /\ op[p].at = "failSave"
    /\ \/ Save /\ Leave(p, {})
       \/ /\ SaveFails
          /\ Goto(p, "failUndo")
          /\ UNCHANGED <<failed, leaked>>
    /\ UNCHANGED <<mode, mem, stores, fences, used, acked, cut>>

\* rollbackFailedIndexOperationLocked.
FailUndo(p) ==
    /\ op[p].at = "failUndo"
    /\ IF /\ Has(mem, op[p].kb, op[p].doc)
          /\ Current(p).run = op[p].fence /\ Current(p).marker = 0
       THEN SetCurrent(p, Restored(p))
       ELSE UNCHANGED mem
    /\ Leave(p, {})
    /\ UNCHANGED <<mode, disk, stores, fences, used, acked, cut, spent>>

\* The caller's context is cancelled, or the job's lease is lost.
Cancel(p) ==
    /\ op[p].kind \in {"index", "reindex"} /\ ~op[p].cancelled
    /\ Fault
    /\ op' = [op EXCEPT ![p].cancelled = TRUE]
    /\ UNCHANGED <<mode, mem, disk, stores, fences, used, observers>>
-----------------------------------------------------------------------------
(* Deleting a document *)

\* deleteDocumentChunks: every point of the document, before the state changes.
DeletePoints(p) ==
    LET all == points \cap Of(op[p].kb, op[p].doc) IN
    /\ op[p].at = "deletePoints"
    /\ \/ /\ Goto(p, "deleteRemove")
          /\ points' = points \ all
          /\ UNCHANGED spent
       \/ /\ Fault
          /\ Return(p)
          /\ points' \in {points, points \ all}
    /\ cut' = cut \cup (points \ points')
    /\ UNCHANGED <<mode, mem, disk, contents, collections, fences, used, acked,
                   failed, leaked>>

DeleteRemove(p) ==
    LET k == op[p].kb  d == op[p].doc IN
    /\ op[p].at = "deleteRemove"
    /\ IF Has(mem, k, d)
       THEN /\ SetCurrent(p, NoDoc)
            /\ acked' = acked \ {<<k, d>>}
            /\ op' = [op EXCEPT ![p].at = "deleteSave", ![p].snap = mem.doc[k]]
       ELSE Return(p) /\ UNCHANGED <<mem, acked>>
    /\ UNCHANGED <<mode, disk, stores, fences, used, failed, cut,
                   leaked, spent>>

DeleteSave(p) ==
    /\ op[p].at = "deleteSave"
    /\ SaveThen(p, "deleteContent", "deleteUndo")
    /\ UNCHANGED <<mode, mem, stores, fences, used, observers>>

\* The knowledge base as it was captured is put back, all its documents with it.
DeleteUndo(p) ==
    LET k == op[p].kb IN
    /\ op[p].at = "deleteUndo"
    /\ mem' = [mem EXCEPT !.kbs = @ \cup {k}, !.doc[k] = op[p].snap]
    /\ Return(p)
    /\ UNCHANGED <<mode, disk, stores, fences, used, observers, spent>>

\* deleteIndexedDocumentWithContext: an error is only logged.
DeleteContent(p) ==
    LET all == contents \cap Of(op[p].kb, op[p].doc) IN
    /\ op[p].at = "deleteContent"
    /\ \E left \in SUBSET all :
         /\ IF left = {} THEN UNCHANGED spent ELSE Fault
         /\ contents' = contents \ (all \ left)
         /\ leaked' = leaked \cup left
    /\ Return(p)
    /\ UNCHANGED <<mode, mem, disk, points, collections, fences, used, acked,
                   failed, cut>>
-----------------------------------------------------------------------------
(* Knowledge bases *)

\* CreateKnowledgeBase: the identifier is new.
CreateKB(p, k) ==
    /\ CanStart(p)
    /\ k \notin used
    /\ mem' = [mem EXCEPT !.kbs = @ \cup {k}]
    /\ used' = used \cup {k}
    /\ Start(p, "create", k, AnyDoc, "createSave", NoDocs)
    /\ UNCHANGED <<mode, disk, stores, observers, spent>>

CreateSave(p) ==
    /\ op[p].at = "createSave"
    /\ SaveThen(p, "createCollection", "createUndo")
    /\ UNCHANGED <<mode, mem, stores, fences, used, observers>>

\* A collection that cannot be made takes the knowledge base out of memory; the
\* state file is left as it is.
CreateCollection(p) ==
    LET k == op[p].kb IN
    /\ op[p].at = "createCollection"
    /\ \/ /\ collections' = collections \cup {k}
          /\ Return(p)
          /\ UNCHANGED spent
       \/ /\ Fault
          /\ collections' \in {collections, collections \cup {k}}
          /\ Goto(p, "createUndo")
    /\ UNCHANGED <<mode, mem, disk, points, contents, fences, used, observers>>

Without(st, k) == [kbs |-> st.kbs \ {k}, doc |-> [st.doc EXCEPT ![k] = NoDocs]]
Forget(k)      == acked' = acked \ ({k} \X Docs)

\* Documents that came in meanwhile go with it.
CreateUndo(p) ==
    /\ op[p].at = "createUndo"
    /\ mem' = Without(mem, op[p].kb)
    /\ Forget(op[p].kb)
    /\ leaked' = leaked \cup ((points \cup contents) \cap OfKB(op[p].kb))
    /\ Return(p)
    /\ UNCHANGED <<mode, disk, stores, fences, used, failed, cut, spent>>

\* DeleteKnowledgeBase takes no reservation: attempts of its documents go on.
DropKB(p, k) ==
    /\ CanStart(p)
    /\ k \in mem.kbs
    /\ mem' = Without(mem, k)
    /\ Forget(k)
    /\ Start(p, "drop", k, AnyDoc, "dropSave", mem.doc[k])
    /\ UNCHANGED <<mode, disk, stores, used, failed, cut, leaked, spent>>

DropSave(p) ==
    /\ op[p].at = "dropSave"
    /\ \/ Save /\ Goto(p, "dropCollection")
       \/ SaveFails /\ Goto(p, "dropUndo")
    /\ UNCHANGED <<mode, mem, stores, fences, used, observers>>

DropUndo(p) ==
    LET k == op[p].kb IN
    /\ op[p].at = "dropUndo"
    /\ mem' = [mem EXCEPT !.kbs = @ \cup {k}, !.doc[k] = op[p].snap]
    /\ Return(p)
    /\ UNCHANGED <<mode, disk, stores, fences, used, observers, spent>>

DropCollection(p) ==
    LET k == op[p].kb IN
    /\ op[p].at = "dropCollection"
    /\ \/ /\ collections' = collections \ {k}
          /\ points' = points \ OfKB(k)
          /\ UNCHANGED <<leaked, spent>>
       \/ /\ Fault
          /\ leaked' = leaked \cup (points \cap OfKB(k))
          /\ \/ UNCHANGED <<collections, points>>
             \/ collections' = collections \ {k} /\ points' = points \ OfKB(k)
    /\ Goto(p, "dropContent")
    /\ UNCHANGED <<mode, mem, disk, contents, fences, used, acked, failed, cut>>

\* The contents of the documents the knowledge base had when it was removed.
DropContent(p) ==
    LET listed == {d \in Docs : op[p].snap[d].status # "none"}
        all == contents \cap ({op[p].kb} \X listed \X Fences)
    IN
    /\ op[p].at = "dropContent"
    /\ \E left \in SUBSET all :
         /\ IF left = {} THEN UNCHANGED spent ELSE Fault
         /\ contents' = contents \ (all \ left)
         /\ leaked' = leaked \cup left
    /\ Return(p)
    /\ UNCHANGED <<mode, mem, disk, points, collections, fences, used, acked,
                   failed, cut>>
-----------------------------------------------------------------------------
(* The process *)

\* Any other request that changes the configuration, a conversation's settings
\* or a user saves the whole state.
OtherSave ==
    /\ Overlaps
    /\ mem # disk
    /\ Save
    /\ UNCHANGED <<mode, mem, stores, op, fences, used, observers>>

\* What a crash of op[p] leaves to nobody: the generation its marker had taken
\* the place of, the one its commit did not get to retire, and its own when the
\* knowledge base is gone.
Lost(p) ==
    CASE op[p].kind = "delete" -> Of(op[p].kb, op[p].doc)
      [] op[p].kind = "drop" -> OfKB(op[p].kb)
      [] op[p].kind \in {"index", "reindex"} ->
            Held(p, {op[p].superseded}
                    \cup (IF op[p].at \in Retiring \cup {"commitSave"}
                          THEN {op[p].prev} ELSE {})
                    \cup (IF Has(disk, op[p].kb, op[p].doc) THEN {} ELSE {op[p].fence}))
      [] OTHER -> {}

\* The process stops at any point and starts again: NewAppServiceWithJobStore
\* loads the state file, makes a knowledge base when there is none, makes sure
\* of the collections and saves.
CrashRestart ==
    /\ Fault
    /\ \/ disk.kbs # {} /\ mem' = disk /\ UNCHANGED used
       \/ \E k \in KBs \ used :
            /\ disk.kbs = {}
            /\ mem' = [disk EXCEPT !.kbs = {k}]
            /\ used' = used \cup {k}
    /\ disk' = mem'
    /\ collections' = collections \cup mem'.kbs
    /\ op' = [p \in Procs |-> Idle]
    /\ acked' = {a \in acked : Shows(disk, a) \/ ~Pending(a)}
    /\ leaked' = leaked \cup ((points \cup contents)
                              \cap UNION {Lost(p) : p \in Procs})
    /\ UNCHANGED <<mode, points, contents, fences, failed, cut>>

\* Every request has returned.
Rest ==
    /\ \A p \in Procs : op[p].at = "idle"
    /\ UNCHANGED vars

Step(p) ==
    \/ \E k \in KBs, d \in Docs : StartIndex(p, k, d) \/ StartOnDocument(p, k, d)
    \/ Reserve(p) \/ Begin(p) \/ BeginSave(p) \/ BeginUndo(p) \/ UndoSave(p)
    \/ Work(p) \/ EnsureCollection(p) \/ Scroll(p) \/ Upsert(p) \/ Capture(p)
    \/ Commit(p) \/ CommitSave(p) \/ CommitUndo(p)
    \/ AbortPoints(p) \/ AbortContent(p) \/ RetirePoints(p) \/ RetireContent(p)
    \/ Fail(p) \/ FailSave(p) \/ FailUndo(p) \/ Cancel(p)
    \/ DeletePoints(p) \/ DeleteRemove(p) \/ DeleteSave(p) \/ DeleteUndo(p)
    \/ DeleteContent(p)
    \/ \E k \in KBs : CreateKB(p, k) \/ DropKB(p, k)
    \/ CreateSave(p) \/ CreateCollection(p) \/ CreateUndo(p)
    \/ DropSave(p) \/ DropUndo(p) \/ DropCollection(p) \/ DropContent(p)

Next == (\E p \in Procs : Step(p)) \/ OtherSave \/ CrashRestart \/ Rest

Spec == Init /\ [][Next]_vars
-----------------------------------------------------------------------------
(* Properties *)

DocRecs == [fence : Fences, marker : Fences, run : Fences,
            status : {"none", "processing", "indexed", "failed"}]
States  == [kbs : SUBSET KBs, doc : [KBs -> [Docs -> DocRecs]]]
Ops == [at : Steps, kind : {"none", "index", "reindex", "delete", "create", "drop"},
        kb : KBs, doc : Docs, fence : Fences, prev : Fences,
        superseded : Fences, new : BOOLEAN, snap : [Docs -> DocRecs],
        receipt : {"none", "fences", "points"}, then : {"fail", "return"},
        cancelled : BOOLEAN]

\* Types of the variables.
TypeOK ==
    /\ mode \in Modes
    /\ mem \in States /\ disk \in States
    /\ points \subseteq Gens /\ contents \subseteq Gens
    /\ collections \subseteq KBs
    /\ op \in [Procs -> Ops]
    /\ fences \in Fences
    /\ used \subseteq KBs
    /\ acked \subseteq KBs \X Docs
    /\ failed \subseteq Fences
    /\ cut \subseteq Gens /\ leaked \subseteq Gens
    /\ spent \in [{"save", "fault"} -> Nat]

\* The generation a document of st shows, if it shows one.
Shown(st, k, d) == {Gen(k, d, st.doc[k][d].fence)} \ {Gen(k, d, 0)}
ShownBy(st) == UNION {Shown(st, n[1], n[2]) : n \in {x \in KBs \X Docs : Has(st, x[1], x[2])}}

\* The fence a reader filters by in memory leads to stored contents, and to
\* points unless a deletion already removed them.
VisibleComplete == ShownBy(mem) \subseteq contents \cap (points \cup cut)

\* A document whose indexing was reported goes on showing a generation until a
\* user deletes it: in memory and, once its commit has been saved, in the file.
AckedKept == \A a \in acked : Shows(mem, a) /\ (Shows(disk, a) \/ Pending(a))

\* An attempt that returned an error is never what a document shows, neither in
\* memory nor in the file that the next process starts from.
FailedNotVisible == \A g \in ShownBy(mem) \cup ShownBy(disk) : g[3] \notin failed

\* A stored generation is shown, or named by the marker of its document, or in
\* the hands of a request, or one of the known leaks: no interleaving of
\* attempts and deletions loses one.
InHand(p, g) ==
    /\ op[p].at # "idle" /\ op[p].kb = g[1]
    /\ \/ op[p].kind = "drop"
       \/ op[p].doc = g[2] /\ op[p].kind = "delete"
       \/ op[p].doc = g[2] /\ g[3] \in {op[p].fence, op[p].prev, op[p].superseded}
Accounted ==
    \A g \in (points \cup contents) \ leaked :
        \/ Has(mem, g[1], g[2]) /\ g[3] \in {mem.doc[g[1]][g[2]].fence,
                                             mem.doc[g[1]][g[2]].marker}
        \/ \E p \in Procs : InHand(p, g)

\* The state file and the two stores of generations implement the catalog.
Catalog == INSTANCE GenerationCatalog WITH
    Names <- KBs \X Docs, Generations <- Gens, None <- <<>>,
    visible <- [n \in KBs \X Docs |->
                  IF Has(disk, n[1], n[2]) /\ disk.doc[n[1]][n[2]].fence # 0
                  THEN Gen(n[1], n[2], disk.doc[n[1]][n[2]].fence) ELSE <<>>],
    stored <- contents \cap (points \cup cut)

\* Every step of the code is a step of the catalog: a generation the state file
\* shows is complete, and is removed only after the file stopped showing it.
CatalogSpec == Catalog!Spec
=============================================================================
