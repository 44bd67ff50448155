------------------------- MODULE KnowledgeLedgerProofs -------------------------
(***************************************************************************)
(* No stored generation is lost: each is named by its document, or some    *)
(* request still has it to remove, or it is one of the leaks the code has. *)
(*                                                                         *)
(* KnowledgeIndexProofs says which generations may be shown.  Here it is   *)
(* who still knows one that is not.  The step a request is at says what it *)
(* is and what it has listed (Control); that says what it can have written *)
(* (Stocked), where its marker is, in memory and in the file (Marking),    *)
(* and that the file names what memory and the copies name, but for a      *)
(* marker about to be saved (Filed).  With these, the two ledgers of       *)
(* points and of contents are kept by every step: a generation that memory *)
(* stops naming is in the request that made it do so, a request that stops *)
(* knowing one has removed it or left it behind, and a crash leaves to     *)
(* memory what the file names.                                             *)
(***************************************************************************)
EXTENDS KnowledgeIndexProofs
-----------------------------------------------------------------------------
(* How a request goes on *)

SameRequest(o, r) == SameAttempt(o, r) /\ r.kind = o.kind /\ r.receipt = o.receipt
Passes(p, at, snap) ==
    /\ OthersSame(p)
    /\ \E r \in Ops : op'[p] = r /\ r.at = at /\ r.snap = snap /\ SameRequest(op[p], r)

LEMMA PassesGoto ==
    ASSUME KInv, NEW p \in Procs, NEW at \in Steps, Goto(p, at) PROVE Passes(p, at, op[p].snap)
<1>1. PICK o \in Ops : o = op[p]
  BY OpOf
<1> DEFINE new == [o EXCEPT !.at = at]
<1>2. new \in Ops /\ new.at = at /\ SameRequest(o, new) /\ new.snap = o.snap
  BY DEF Ops, SameRequest, SameAttempt
<1>3. op' = [op EXCEPT ![p] = new]
  BY <1>1 DEF Goto
<1> QED BY <1>1, <1>2, <1>3, Alters DEF Passes

\* An attempt that returns after its clean-up; one whose copy is dropped, its
\* change saved; one with more in its receipt.
GivesUp(p, at) == op' = [op EXCEPT ![p].at = at, ![p].then = "return"]
Drops(p, at) == op' = [op EXCEPT ![p].at = at, ![p].snap = NoDocs]
Lists(p, at, receipt) == op' = [op EXCEPT ![p].at = at, ![p].receipt = receipt]

LEMMA PassesBack ==
    ASSUME KInv, NEW p \in Procs, NEW at \in Steps, GivesUp(p, at)
    PROVE  Passes(p, at, op[p].snap)
<1>1. PICK o \in Ops : o = op[p]
  BY OpOf
<1> DEFINE new == [o EXCEPT !.at = at, !.then = "return"]
<1>2. new \in Ops /\ new.at = at /\ SameRequest(o, new) /\ new.snap = o.snap
  BY DEF Ops, SameRequest, SameAttempt
<1>3. op' = [op EXCEPT ![p] = new]
  BY <1>1, OpOf DEF GivesUp
<1> QED BY <1>1, <1>2, <1>3, Alters DEF Passes

LEMMA PassesWith ==
    ASSUME KInv, NEW p \in Procs, NEW at \in Steps, NEW snap \in [Docs -> DocRecs],
           op' = [op EXCEPT ![p].at = at, ![p].snap = snap]
    PROVE  Passes(p, at, snap)
<1>1. PICK o \in Ops : o = op[p]
  BY OpOf
<1> DEFINE new == [o EXCEPT !.at = at, !.snap = snap]
<1>2. new \in Ops /\ new.at = at /\ SameRequest(o, new) /\ new.snap = snap
  BY DEF Ops, SameRequest, SameAttempt
<1>3. op' = [op EXCEPT ![p] = new]
  BY <1>1, OpOf
<1> QED BY <1>1, <1>2, <1>3, Alters DEF Passes

LEMMA PassesSaved ==
    ASSUME KInv, NEW p \in Procs, NEW at \in Steps, Drops(p, at) PROVE Passes(p, at, NoDocs)
BY NothingKept, PassesWith DEF Drops

LEMMA PassesCopying ==
    ASSUME KInv, NEW p \in Procs, NEW at \in Steps, Copies(p, at)
    PROVE  Passes(p, at, mem.doc[op[p].kb])
<1>1. mem.doc[op[p].kb] \in [Docs -> DocRecs]
  BY OpOf, OpFields, StateFields DEF KInv, KTypes
<1> QED BY <1>1, PassesWith DEF Copies

LEMMA PassesListing ==
    ASSUME KInv, NEW p \in Procs, NEW at \in Steps, NEW receipt \in {"fences", "points"},
           Lists(p, at, receipt)
    PROVE  /\ OthersSame(p)
           /\ \E r \in Ops : /\ op'[p] = r /\ r.at = at /\ SameAttempt(op[p], r)
                             /\ r.kind = op[p].kind /\ r.receipt = receipt
<1>1. PICK o \in Ops : o = op[p]
  BY OpOf
<1> DEFINE new == [o EXCEPT !.at = at, !.receipt = receipt]
<1>2. /\ new \in Ops /\ new.at = at /\ SameAttempt(o, new) /\ new.kind = o.kind
      /\ new.receipt = receipt
  BY DEF Ops, SameAttempt
<1>3. op' = [op EXCEPT ![p] = new]
  BY <1>1, OpOf DEF Lists
<1> QED BY <1>1, <1>2, <1>3, Alters
-----------------------------------------------------------------------------
(* What the step a request is at says of it *)

Deleting == {"deletePoints", "deleteRemove"} \cup Removing
Beginning == {"beginSave", "beginUndo", "undoSave", "work"}
Listed == {"upsert", "capture", "commit"} \cup Promoted
Attempts == {"index", "reindex"}
Control(o) ==
    /\ o.at \in After \cup {"reserved"} => o.kind \in Attempts
    /\ o.at \in Deleting => o.kind = "delete"
    /\ o.at \in Dropping => o.kind = "drop"
    /\ o.at \in Listed => o.receipt = "points"
    /\ o.at \in Waiting => ~o.new /\ o.kind \in Attempts \cup {"delete"}
    /\ o.at \in Waiting \cup Beginning => o.receipt = "none"
    /\ o.new => o.prev = 0
Controlled == \A p \in Procs : Control(op[p])

\* A step from a to b that needs nothing that a does not give.
Leads(a, b) ==
    /\ b \in After \cup {"reserved"} => a \in After \cup {"reserved"}
    /\ b \in Deleting => a \in Deleting
    /\ b \in Dropping => a \in Dropping
    /\ b \in Listed => a \in Listed
    /\ b \notin Waiting
    /\ b \in Beginning => a \in Waiting \cup Beginning

LEMMA ControlPasses ==
    ASSUME NEW p \in Procs, Control(op[p]), NEW at, NEW snap, Passes(p, at, snap),
           Leads(op[p].at, at)
    PROVE  Control(op[p])'
BY DEF Passes, SameRequest, SameAttempt, Control, Leads

LEMMA ControlEnds ==
    ASSUME NEW p \in Procs, Ends(p), op'[p].at = "idle" => ~op'[p].new PROVE Control(op[p])'
BY DEF Ends, Control, After, Begun, Retiring, Deleting, Removing, Dropping, Listed, Promoted,
   Waiting, Beginning

LEMMA ReturnIs == ASSUME KInv, NEW p \in Procs, Return(p) PROVE op'[p] = Idle /\ Ends(p)
BY EndsReturn, OpOf DEF Return

LEMMA ControlReturn ==
    ASSUME KInv, NEW p \in Procs, Return(p) PROVE OthersSame(p) /\ Control(op[p])'
<1>1. op'[p] = Idle /\ Ends(p) /\ ~Idle.new
  BY ReturnIs DEF Idle
<1> QED BY <1>1, ControlEnds DEF Ends

LEMMA ControlGoto ==
    ASSUME KInv, NEW p \in Procs, Control(op[p]), NEW at \in Steps, Leads(op[p].at, at),
           Goto(p, at)
    PROVE  OthersSame(p) /\ Control(op[p])'
BY PassesGoto, ControlPasses DEF Passes

LEMMA Paths ==
    /\ \A a \in Begun \ {"work", "collect", "scroll"}, b \in {"abortPoints", "abortContent", "fail"} :
           Leads(a, b)
    /\ \A b \in {"collect", "abortPoints", "fail"} : Leads("work", b)
    /\ \A b \in {"scroll", "abortPoints"} : Leads("collect", b)
    /\ Leads("scroll", "abortPoints")
    /\ Leads("upsert", "capture") /\ Leads("capture", "commit") /\ Leads("commit", "commitSave")
    /\ Leads("commitSave", "retirePoints") /\ Leads("commitSave", "commitUndo")
    /\ Leads("retirePoints", "retireContent")
    /\ Leads("fail", "failSave") /\ Leads("failSave", "failUndo")
    /\ Leads("beginSave", "work") /\ Leads("beginSave", "beginUndo") /\ Leads("beginUndo", "undoSave")
BY DEF Leads, After, Begun, Retiring, Deleting, Removing, Dropping, Listed, Promoted, Waiting,
   Beginning
LEMMA OtherPaths ==
    /\ Leads("deletePoints", "deleteRemove") /\ Leads("deleteRemove", "deleteSave")
    /\ Leads("deleteSave", "deleteContent") /\ Leads("deleteSave", "deleteUndo")
    /\ \A a \in {"createSave", "createCollection"}, b \in {"createCollection", "createUndo"} :
           Leads(a, b)
    /\ \A a \in {"dropSave", "dropCollection"}, b \in Dropping : Leads(a, b)
BY DEF Leads, After, Begun, Retiring, Deleting, Removing, Dropping, Listed, Promoted, Waiting,
   Beginning

LEMMA AttemptSteps ==
    /\ Begun \cup Retiring \cup Beginning \cup Removing \cup Dropping \subseteq Steps
    /\ {"reserve", "reserved", "deletePoints", "deleteRemove", "createSave", "createUndo",
        "createCollection"} \subseteq Steps
BY DEF Steps, Reserving, Begun, Retiring, Beginning, Removing, Dropping

\* A request that lists more points than it did.
LEMMA ControlListing ==
    ASSUME KInv, NEW p \in Procs, Control(op[p]), op[p].at \in {"work", "scroll"},
           NEW at \in {"collect", "abortPoints", "upsert"}, NEW receipt \in {"fences", "points"},
           at = "upsert" => receipt = "points",
           Lists(p, at, receipt)
    PROVE  OthersSame(p) /\ Control(op[p])'
<1>1. at \in Steps
  BY DEF Steps, Reserving, Begun
<1>2. /\ OthersSame(p)
      /\ \E r \in Ops : /\ op'[p] = r /\ r.at = at /\ SameAttempt(op[p], r)
                        /\ r.kind = op[p].kind /\ r.receipt = receipt
  BY <1>1, PassesListing
<1>3. /\ at \notin Waiting \cup Beginning \cup Deleting \cup Dropping
      /\ at \in Listed => at = "upsert"
      /\ op[p].at \in After
  BY DEF After, Begun, Retiring, Deleting, Removing, Dropping, Listed, Promoted, Waiting, Beginning
<1> QED BY <1>2, <1>3 DEF Control, SameAttempt

LEMMA WorkControl ==
    ASSUME KInv, NEW p \in Procs, Control(op[p]),
           \/ Work(p) \/ EnsureCollection(p) \/ Scroll(p) \/ Upsert(p) \/ Capture(p)
    PROVE  OthersSame(p) /\ Control(op[p])'
<1>1. CASE \E at \in {"collect", "abortPoints", "upsert"}, receipt \in {"fences", "points"} :
               /\ at = "upsert" => receipt = "points"
               /\ op[p].at \in {"work", "scroll"}
               /\ Lists(p, at, receipt)
  BY <1>1, ControlListing
<1>2. CASE \E at \in {"fail", "scroll", "abortPoints", "capture", "commit"} :
               Leads(op[p].at, at) /\ Goto(p, at)
  <2>1. {"fail", "scroll", "abortPoints", "capture", "commit"} \subseteq Steps
    BY DEF Steps, Reserving, Begun
  <2> QED BY <1>2, <2>1, ControlGoto
<1>3. CASE Work(p)
  BY <1>1, <1>2, <1>3, Paths DEF Work, Lists
<1>4. CASE EnsureCollection(p)
  BY <1>2, <1>4, Paths DEF EnsureCollection
<1>5. CASE Scroll(p)
  BY <1>1, <1>2, <1>5, Paths DEF Scroll, Lists
<1>6. CASE Upsert(p) \/ Capture(p)
  <2>1. {"upsert", "capture"} \subseteq Begun \ {"work", "collect", "scroll"}
    BY DEF Begun
  <2> QED BY <1>2, <1>6, <2>1, Paths DEF Upsert, Capture
<1> QED BY <1>3, <1>4, <1>5, <1>6

LEMMA AbortControl ==
    ASSUME KInv, NEW p \in Procs, Control(op[p]),
           \/ AbortPoints(p) \/ AbortContent(p) \/ RetirePoints(p) \/ RetireContent(p)
    PROVE  OthersSame(p) /\ Control(op[p])'
<1>1. Return(p) \/ \E at \in {"abortContent", "fail", "retireContent"} : Leads(op[p].at, at) /\ Goto(p, at)
  <2>1. {"abortPoints", "abortContent"} \subseteq Begun \ {"work", "collect", "scroll"}
    BY DEF Begun
  <2> QED BY <2>1, Paths DEF AbortPoints, AbortContent, RetirePoints, RetireContent, Leave
<1>2. {"abortContent", "fail", "retireContent"} \subseteq Steps
  BY DEF Steps, Reserving, Begun, Retiring
<1> QED BY <1>1, <1>2, ControlReturn, ControlGoto

LEMMA DeleteControl ==
    ASSUME KInv, NEW p \in Procs, Control(op[p]),
           \/ DeletePoints(p) \/ DeleteRemove(p) \/ DeleteSave(p) \/ DeleteUndo(p)
           \/ DeleteContent(p)
    PROVE  OthersSame(p) /\ Control(op[p])'
<1>1. CASE Return(p)
  BY <1>1, ControlReturn
<1>2. CASE \E at \in {"deleteRemove", "deleteUndo"} : Leads(op[p].at, at) /\ Goto(p, at)
  BY <1>2, AttemptSteps, ControlGoto DEF Removing
<1>3. CASE Leads(op[p].at, "deleteSave") /\ Copies(p, "deleteSave")
  BY <1>3, AttemptSteps, PassesCopying, ControlPasses DEF Passes, Removing
<1>4. CASE /\ Leads(op[p].at, "deleteContent")
           /\ Drops(p, "deleteContent")
  BY <1>4, AttemptSteps, PassesSaved, ControlPasses DEF Passes, Removing
<1>5. CASE DeletePoints(p) \/ DeleteUndo(p) \/ DeleteContent(p)
  BY <1>1, <1>2, <1>5, OtherPaths DEF DeletePoints, DeleteUndo, DeleteContent
<1>6. CASE DeleteRemove(p)
  BY <1>1, <1>3, <1>6, OtherPaths DEF DeleteRemove, Copies
<1>7. CASE DeleteSave(p)
  BY <1>2, <1>4, <1>7, OtherPaths DEF DeleteSave, SaveThen, Drops
<1> QED BY <1>5, <1>6, <1>7

LEMMA CreateControl ==
    ASSUME KInv, NEW p \in Procs, Control(op[p]),
           \/ CreateSave(p) \/ CreateCollection(p) \/ CreateUndo(p)
           \/ DropSave(p) \/ DropUndo(p) \/ DropCollection(p) \/ DropContent(p)
    PROVE  OthersSame(p) /\ Control(op[p])'
<1>1. CASE Return(p)
  BY <1>1, ControlReturn
<1>2. CASE \E at \in {"createUndo", "dropCollection", "dropUndo", "dropContent"} :
               Leads(op[p].at, at) /\ Goto(p, at)
  BY <1>2, AttemptSteps, ControlGoto DEF Dropping
<1>3. CASE /\ Leads(op[p].at, "createCollection")
           /\ Drops(p, "createCollection")
  BY <1>3, AttemptSteps, PassesSaved, ControlPasses DEF Passes
<1>4. CASE CreateSave(p)
  BY <1>2, <1>3, <1>4, OtherPaths DEF CreateSave, SaveThen, Drops
<1>5. CASE CreateCollection(p) \/ CreateUndo(p) \/ DropUndo(p) \/ DropContent(p)
  BY <1>1, <1>2, <1>5, OtherPaths DEF CreateCollection, CreateUndo, DropUndo, DropContent
<1>6. CASE DropSave(p) \/ DropCollection(p)
  BY <1>2, <1>6, OtherPaths DEF DropSave, DropCollection, Dropping
<1> QED BY <1>4, <1>5, <1>6

LEMMA CommitControl ==
    ASSUME KInv, NEW p \in Procs, Control(op[p]),
           Commit(p) \/ CommitSave(p) \/ CommitUndo(p) \/ Fail(p) \/ FailSave(p) \/ FailUndo(p)
    PROVE  OthersSame(p) /\ Control(op[p])'
<1>1. CASE Return(p)
  BY <1>1, ControlReturn
<1>2. CASE \E at \in {"commitUndo", "failUndo"} : Leads(op[p].at, at) /\ Goto(p, at)
  BY <1>2, AttemptSteps, ControlGoto DEF Begun
<1>3. CASE \E at \in {"commitSave", "failSave"} : Leads(op[p].at, at) /\ Copies(p, at)
  BY <1>3, AttemptSteps, PassesCopying, ControlPasses DEF Passes, Begun
<1>4. CASE /\ Leads(op[p].at, "retirePoints")
           /\ Drops(p, "retirePoints")
  BY <1>4, AttemptSteps, PassesSaved, ControlPasses DEF Passes, Retiring
<1>5. CASE /\ Leads(op[p].at, "abortPoints")
           /\ GivesUp(p, "abortPoints")
  BY <1>5, AttemptSteps, PassesBack, ControlPasses DEF Passes, Begun
<1>6. "commit" \in Begun \ {"work", "collect", "scroll"} /\ "commitUndo" \in Begun \ {"work", "collect", "scroll"}
  BY DEF Begun
<1>7. CASE Commit(p)
  BY <1>3, <1>5, <1>6, <1>7, Paths DEF Commit, Copies, GivesUp
<1>8. CASE CommitSave(p)
  BY <1>2, <1>4, <1>8, Paths DEF CommitSave, SaveThen, Drops
<1>9. CASE CommitUndo(p)
  BY <1>5, <1>6, <1>9, Paths DEF CommitUndo, GivesUp
<1>10. CASE Fail(p) \/ FailSave(p) \/ FailUndo(p)
  BY <1>1, <1>2, <1>3, <1>10, Paths DEF Fail, FailSave, FailUndo, Copies, Leave
<1> QED BY <1>7, <1>8, <1>9, <1>10

LEMMA CancelPasses ==
    ASSUME KInv, NEW p \in Procs, Cancel(p) PROVE Passes(p, op[p].at, op[p].snap)
<1>1. PICK o \in Ops : o = op[p]
  BY OpOf
<1> DEFINE new == [o EXCEPT !.cancelled = TRUE]
<1>2. new \in Ops /\ new.at = o.at /\ SameRequest(o, new) /\ new.snap = o.snap
  BY DEF Ops, SameRequest, SameAttempt
<1>3. op' = [op EXCEPT ![p] = new]
  BY <1>1, OpOf DEF Cancel
<1> QED BY <1>1, <1>2, <1>3, Alters DEF Passes

LEMMA CancelControl ==
    ASSUME KInv, NEW p \in Procs, Control(op[p]), Cancel(p)
    PROVE  OthersSame(p) /\ Control(op[p])'
BY CancelPasses DEF Passes, SameRequest, SameAttempt, Control

\* A request that starts.
LEMMA StartIs ==
    ASSUME KInv, NEW p \in Procs, NEW kind, NEW k, NEW d, NEW at, NEW snap,
           Start(p, kind, k, d, at, snap)
    PROVE  /\ OthersSame(p)
           /\ \E r : /\ op'[p] = r /\ r.at = at /\ r.kind = kind /\ r.kb = k /\ r.doc = d
                     /\ r.fence = fences + 1 /\ r.prev = 0 /\ r.superseded = 0 /\ ~r.new
                     /\ r.snap = snap /\ r.receipt = "none"
<1> DEFINE r == [Idle EXCEPT !.at = at, !.kind = kind, !.kb = k, !.doc = d,
                             !.fence = fences + 1, !.snap = snap]
<1>1. /\ r.at = at /\ r.kind = kind /\ r.kb = k /\ r.doc = d
      /\ r.fence = fences + 1 /\ r.prev = 0 /\ r.superseded = 0 /\ ~r.new
      /\ r.snap = snap /\ r.receipt = "none"
  BY DEF Idle
<1>2. OthersSame(p) /\ op'[p] = r
  BY OpOf DEF Start, OthersSame
<1> QED BY <1>1, <1>2

LEMMA StartControl ==
    ASSUME KInv, NEW p \in Procs,
           \/ \E k \in KBs, d \in Docs : StartIndex(p, k, d) \/ StartOnDocument(p, k, d)
           \/ \E k \in KBs : CreateKB(p, k) \/ DropKB(p, k)
    PROVE  OthersSame(p) /\ Control(op[p])'
<1>1. \E kind, k, d, snap, at :
          /\ Start(p, kind, k, d, at, snap)
          /\ \/ at = "reserve" /\ kind \in Attempts \cup {"delete"}
             \/ at = "createSave" /\ kind = "create"
             \/ at = "dropSave" /\ kind = "drop"
  BY DEF StartIndex, StartOnDocument, CreateKB, DropKB, Attempts
<1>2. PICK kind, k, d, snap, at :
          /\ Start(p, kind, k, d, at, snap)
          /\ \/ at = "reserve" /\ kind \in Attempts \cup {"delete"}
             \/ at = "createSave" /\ kind = "create"
             \/ at = "dropSave" /\ kind = "drop"
  BY <1>1
<1>3. PICK r : /\ op'[p] = r /\ r.at = at /\ r.kind = kind /\ ~r.new /\ r.receipt = "none"
  BY <1>2, StartIs
<1>4. {"reserve", "createSave", "dropSave"} \cap (After \cup {"reserved"} \cup Deleting \cup Listed) = {}
      /\ "reserve" \notin Dropping /\ "createSave" \notin Dropping
  BY DEF After, Begun, Retiring, Deleting, Removing, Dropping, Listed, Promoted
<1>5. OthersSame(p)
  BY <1>2, StartIs
<1>6. CASE at = "reserve" /\ kind \in Attempts \cup {"delete"}
  BY <1>3, <1>4, <1>5, <1>6 DEF Control
<1>7. CASE at = "createSave"
  <2>1. "createSave" \notin Waiting \cup Beginning
    BY DEF Waiting, Beginning
  <2> QED BY <1>3, <1>4, <1>5, <1>7, <2>1 DEF Control
<1>8. CASE at = "dropSave" /\ kind = "drop"
  <2>1. "dropSave" \notin Waiting \cup Beginning
    BY DEF Waiting, Beginning
  <2> QED BY <1>3, <1>4, <1>5, <1>8, <2>1 DEF Control
<1> QED BY <1>2, <1>6, <1>7, <1>8

LEMMA ReserveControl ==
    ASSUME KInv, NEW p \in Procs, Control(op[p]), Reserve(p)
    PROVE  OthersSame(p) /\ Control(op[p])'
<1>1. PICK o \in Ops : o = op[p]
  BY OpOf
<1>2. o.at = "reserve" /\ o.at \in Waiting
  BY <1>1 DEF Reserve, Waiting
<1>3. CASE Return(p)
  BY <1>3, ControlReturn
<1>4. CASE o.kind = "delete" /\ Goto(p, "deletePoints")
  <2>1. Passes(p, "deletePoints", o.snap)
    BY <1>1, <1>4, AttemptSteps, PassesGoto
  <2>2. "deletePoints" \notin After \cup {"reserved"} \cup Dropping \cup Listed \cup Waiting \cup Beginning
    BY DEF After, Begun, Retiring, Dropping, Listed, Promoted, Waiting, Beginning
  <2> QED BY <1>1, <1>2, <1>4, <2>1, <2>2 DEF Passes, SameRequest, SameAttempt, Control
<1>5. CASE /\ o.kind # "delete"
           /\ op' = [op EXCEPT ![p].at = "reserved", ![p].prev = Current(p).fence]
  <2> DEFINE r == [o EXCEPT !.at = "reserved", !.prev = Current(p).fence]
  <2>1. /\ r.at = "reserved" /\ r.kind = o.kind /\ r.new = o.new /\ r.receipt = o.receipt
    BY DEF Ops
  <2>2. OthersSame(p) /\ op'[p] = r
    BY <1>1, <1>5, OpOf DEF OthersSame
  <2>3. /\ "reserved" \notin After \cup Deleting \cup Dropping \cup Listed \cup Beginning
    BY DEF After, Begun, Retiring, Deleting, Removing, Dropping, Listed, Promoted, Beginning
  <2> HIDE DEF r
  <2>4. ~r.new /\ r.kind \in Attempts /\ r.receipt = "none"
    BY <1>1, <1>2, <1>5, <2>1 DEF Control
  <2>5. Control(r)
    BY <2>1, <2>3, <2>4 DEF Control
  <2> QED BY <2>2, <2>5 DEF Control
<1> QED BY <1>1, <1>3, <1>4, <1>5 DEF Reserve

LEMMA BeginControl ==
    ASSUME KInv, NEW p \in Procs, Control(op[p]), Begin(p)
    PROVE  OthersSame(p) /\ Control(op[p])'
<1>1. PICK o \in Ops : o = op[p]
  BY OpOf
<1>2. o.at = "reserved" /\ o.at \in Waiting /\ o.at # "idle"
  BY <1>1 DEF Begin, Waiting
<1>3. CASE Return(p)
  BY <1>3, ControlReturn
<1> DEFINE begun == [op EXCEPT ![p].at = "beginSave", ![p].snap = mem.doc[op[p].kb]]
<1>4. "beginSave" \notin Waiting \cup {"reserved"} \cup Deleting \cup Dropping \cup Listed
  BY DEF After, Begun, Retiring, Deleting, Removing, Dropping, Listed, Promoted, Beginning, Waiting
<1>5. CASE op' = [begun EXCEPT ![p].superseded = Current(p).marker]
  <2> DEFINE r == [o EXCEPT !.at = "beginSave", !.snap = mem.doc[o.kb], !.superseded = Current(p).marker]
  <2>1. /\ r.at = "beginSave" /\ r.kind = o.kind /\ r.new = o.new /\ r.receipt = o.receipt
        /\ r.prev = o.prev
    BY DEF Ops
  <2>2. OthersSame(p) /\ op'[p] = r
    BY <1>1, <1>5, OpOf DEF OthersSame
  <2> HIDE DEF r
  <2>3. Control(r)
    BY <1>1, <1>2, <1>4, <2>1 DEF Control
  <2> QED BY <2>2, <2>3 DEF Control
<1>6. CASE /\ op' = [begun EXCEPT ![p].new = TRUE]
           /\ o.kb \in mem.kbs /\ ~Has(mem, o.kb, o.doc)
  <2> DEFINE r == [o EXCEPT !.at = "beginSave", !.snap = mem.doc[o.kb], !.new = TRUE]
  <2>1. /\ r.at = "beginSave" /\ r.kind = o.kind /\ r.receipt = o.receipt
        /\ r.prev = o.prev
    BY DEF Ops
  <2>2. OthersSame(p) /\ op'[p] = r
    BY <1>1, <1>6, OpOf DEF OthersSame
  <2>3. o.prev = 0
    <3>1. Waits(o)
      BY <1>1, <1>2 DEF KInv, OpSound
    <3> QED BY <1>2, <1>6, <3>1 DEF Waits, Has
  <2> HIDE DEF r
  <2>4. Control(r)
    BY <1>1, <1>2, <1>4, <2>1, <2>3 DEF Control
  <2> QED BY <2>2, <2>4 DEF Control
<1> QED BY <1>1, <1>3, <1>5, <1>6 DEF Begin

LEMMA BeginSaveControl ==
    ASSUME KInv, NEW p \in Procs, Control(op[p]), BeginSave(p) \/ BeginUndo(p) \/ UndoSave(p)
    PROVE  OthersSame(p) /\ Control(op[p])'
<1>1. CASE \E at \in {"beginUndo", "undoSave"} : Leads(op[p].at, at) /\ Goto(p, at)
  BY <1>1, AttemptSteps, ControlGoto DEF Beginning
<1>2. CASE Leads(op[p].at, "work") /\ Drops(p, "work")
  BY <1>2, AttemptSteps, PassesSaved, ControlPasses DEF Passes, Begun
<1>3. CASE UndoSave(p)
  BY <1>3, ControlReturn DEF UndoSave, Leave
<1> QED BY <1>1, <1>2, <1>3, Paths DEF BeginSave, BeginUndo, SaveThen, Drops

LEMMA StepControls ==
    ASSUME KInv, NEW p \in Procs, Control(op[p]), Step(p) PROVE OthersSame(p) /\ Control(op[p])'
BY WorkControl, AbortControl, DeleteControl, CreateControl, CommitControl, CancelControl,
   StartControl, ReserveControl, BeginControl, BeginSaveControl DEF Step

\* A property of every request that its own step alone can break.
LEMMA NextControls ==
    ASSUME KInv, Controlled, [Next]_vars PROVE Controlled'
<1>1. CASE \E p \in Procs : Step(p)
  <2>1. PICK p \in Procs : Step(p)
    BY <1>1
  <2>2. OthersSame(p) /\ Control(op[p])'
    BY <2>1, StepControls DEF Controlled
  <2> QED BY <2>2 DEF Controlled, Control, OthersSame
<1>2. CASE OtherSave \/ UNCHANGED vars
  BY <1>2 DEF OtherSave, vars, Controlled, Control
<1>3. CASE CrashRestart
  <2>1. /\ "idle" \notin After \cup {"reserved"} \cup Deleting \cup Dropping \cup Listed \cup Waiting
                         \cup Beginning
    BY DEF After, Begun, Retiring, Deleting, Removing, Dropping, Listed, Promoted, Beginning, Waiting
  <2>2. Idle.at = "idle" /\ ~Idle.new
    BY DEF Idle
  <2>3. op' = [q \in Procs |-> Idle]
    BY <1>3 DEF CrashRestart
  <2> QED BY <2>1, <2>2, <2>3 DEF Controlled, Control
<1> QED BY <1>1, <1>2, <1>3 DEF Next, Rest

LEMMA InitControls == ASSUME Init PROVE Controlled
<1>1. /\ "idle" \notin After \cup {"reserved"} \cup Deleting \cup Dropping \cup Listed \cup Waiting
                       \cup Beginning
  BY DEF After, Begun, Retiring, Deleting, Removing, Dropping, Listed, Promoted, Beginning, Waiting
<1>2. Idle.at = "idle" /\ ~Idle.new /\ op = [q \in Procs |-> Idle]
  BY DEF Idle, Init
<1> QED BY <1>1, <1>2 DEF Controlled, Control
-----------------------------------------------------------------------------
(* What a request has written so far *)

OwnGen(o) == Gen(o.kb, o.doc, o.fence)
Pointing == {"capture", "commit"} \cup Promoted
Containing == {"commit", "abortPoints", "abortContent"} \cup Promoted
Emptied == {"deleteRemove"} \cup Removing
MayHavePoints(o) == o.at \in Pointing \/ (o.at = "abortPoints" /\ o.receipt = "points")
OwnStored(o) ==
    o.at # "idle" =>
        /\ OwnGen(o) \in points \ leaked => MayHavePoints(o)
        /\ OwnGen(o) \in contents \ leaked => o.at \in Containing
Pointless(o) == o.at \in Emptied => points \cap Of(o.kb, o.doc) = {}
Numbered == \A g \in points \cup contents : g[3] \in 1..fences
Stocked == Numbered /\ \A p \in Procs : OwnStored(op[p]) /\ Pointless(op[p])

\* What a step of p may add to the stores: the generation of its attempt.
Writes(p) ==
    /\ leaked \subseteq leaked' /\ fences <= fences' /\ fences' \in Fences
    /\ \/ points' \cup contents' \subseteq points \cup contents
          /\ points' \subseteq points /\ contents' \subseteq contents
       \/ /\ op[p].at \in Begun
          /\ points' \subseteq points \cup {OwnGen(op[p])}
          /\ contents' \subseteq contents \cup {OwnGen(op[p])}

LEMMA StockIs ==
    ASSUME NEW q \in Procs, NEW r, op'[q] = r, OwnStored(r)', Pointless(r)'
    PROVE  OwnStored(op[q])' /\ Pointless(op[q])'
BY DEF OwnStored, Pointless, MayHavePoints, OwnGen

LEMMA StockOther ==
    ASSUME KInv, Stocked, NEW p \in Procs, Writes(p), NEW q \in Procs, q # p, op'[q] = op[q]
    PROVE  OwnStored(op[q])' /\ Pointless(op[q])'
<1>1. PICK o \in Ops : o = op[p]
  BY OpOf
<1>2. PICK r \in Ops : r = op[q]
  BY OpOf
<1>3. CASE r.at = "idle"
  <2>1. "idle" \notin Emptied
    BY DEF Emptied, Removing
  <2>2. OwnStored(r)' /\ Pointless(r)'
    BY <1>3, <2>1 DEF OwnStored, Pointless
  <2> QED BY <1>2, <2>2, StockIs
<1>4. CASE r.at # "idle"
  <2>1. OwnStored(r) /\ Pointless(r) /\ Apart(o, r)
    BY <1>1, <1>2 DEF Stocked, KInv
  <2>2. r.kb \in KBs /\ r.doc \in Docs /\ r.fence \in Fences
    BY OpFields
  <2>3. ASSUME o.at \in Begun PROVE OwnGen(o) # OwnGen(r)
    <3>1. o.at # "idle"
      BY <2>3 DEF Begun
    <3> QED BY <1>4, <2>1, <3>1 DEF Apart, OwnGen, Gen
  <2>4. OwnStored(r)'
    BY <1>1, <1>4, <2>1, <2>3 DEF OwnStored, Writes, OwnGen, MayHavePoints
  <2>5. ASSUME o.at \in Begun, r.at \in Emptied PROVE OwnGen(o) \notin Of(r.kb, r.doc)
    <3>1. o.at # "idle" /\ o.at \in Reserving /\ r.at \in Reserving
      BY <2>5 DEF Begun, Reserving, Emptied, Removing
    <3>2. o.kb = r.kb => o.doc # r.doc
      BY <1>4, <2>1, <3>1 DEF Apart
    <3> QED BY <3>2 DEF OwnGen, Gen, Of
  <2>6. Pointless(r)'
    BY <1>1, <2>1, <2>5 DEF Pointless, Writes
  <2> QED BY <1>2, <2>4, <2>6, StockIs
<1> QED BY <1>2, <1>3, <1>4

LEMMA StockCore ==
    ASSUME KInv, Stocked, NEW p \in Procs, OthersSame(p), Writes(p), NEW r, op'[p] = r,
           OwnStored(r)', Pointless(r)'
    PROVE  Stocked'
<1>1. \A q \in Procs : OwnStored(op[q])' /\ Pointless(op[q])'
  BY StockIs, StockOther DEF OthersSame
<1>2. Numbered'
  <2>1. fences \in Nat /\ fences' \in Nat /\ fences <= fences'
    BY FenceNumbers DEF Writes, KInv, KTypes
  <2>2. ASSUME NEW g \in points' \cup contents' PROVE g[3] \in 1..fences'
    <3>1. CASE g \in points \cup contents
      BY <2>1, <3>1 DEF Stocked, Numbered
    <3>2. CASE op[p].at \in Begun /\ g = OwnGen(op[p])
      <4>1. PICK o \in Ops : o = op[p]
        BY OpOf
      <4>2. o.fence \in 1..fences /\ g[3] = o.fence
        <5>1. o.at # "idle"
          BY <3>2, <4>1 DEF Begun
        <5> QED BY <3>2, <4>1, <5>1 DEF KInv, OpSound, Own, OwnGen, Gen
      <4> QED BY <2>1, <4>2
    <3> QED BY <2>2, <3>1, <3>2 DEF Writes
  <2> QED BY <2>2 DEF Numbered
<1> QED BY <1>1, <1>2 DEF Stocked

LEMMA StockEnds ==
    ASSUME KInv, Stocked, NEW p \in Procs, Ends(p), Writes(p) PROVE Stocked'
<1>1. PICK r : r = op'[p]
  OBVIOUS
<1>2. "idle" \notin Emptied
  BY DEF Emptied, Removing
<1>3. OwnStored(r)' /\ Pointless(r)' /\ OthersSame(p)
  BY <1>1, <1>2 DEF Ends, OwnStored, Pointless
<1> QED BY <1>1, <1>3, StockCore

\* A step that removes, or leaves the stores as they are, on a way that keeps
\* what may be there.
Still(a, b) ==
    /\ a \in Pointing => b \in Pointing \cup {"abortPoints"}
    /\ a # "abortPoints"
    /\ a \in Containing => b \in Containing
    /\ b \in Emptied => a \in Emptied

LEMMA StockPasses ==
    ASSUME KInv, Controlled, Stocked, NEW p \in Procs, op[p].at # "idle", OthersSame(p), Writes(p),
           points' \subseteq points, contents' \subseteq contents,
           NEW r, op'[p] = r, r.kb = op[p].kb, r.doc = op[p].doc, r.fence = op[p].fence,
           r.receipt = op[p].receipt \/ op[p].at \in {"work", "scroll"},
           Still(op[p].at, r.at)
    PROVE  Stocked'
<1>1. PICK o \in Ops : o = op[p]
  BY OpOf
<1>2. OwnStored(o) /\ Pointless(o) /\ Control(o)
  BY <1>1 DEF Stocked, Controlled
<1>3. OwnGen(r) = OwnGen(o)
  BY <1>1 DEF OwnGen
<1>4. Pointless(r)'
  BY <1>1, <1>2 DEF Pointless, Still
<1>5. MayHavePoints(o) => MayHavePoints(r)
  <2>1. Pointing \subseteq Listed /\ "work" \notin Pointing /\ "scroll" \notin Pointing
    BY DEF Pointing, Listed, Promoted, Retiring
  <2> QED BY <1>1, <1>2, <2>1 DEF MayHavePoints, Still, Control
<1>6. OwnStored(r)'
  BY <1>1, <1>2, <1>3, <1>5 DEF OwnStored, Still, Writes
<1> QED BY <1>4, <1>6, StockCore

LEMMA StillPaths ==
    /\ \A b \in {"collect", "abortPoints", "fail"} : Still("work", b)
    /\ \A b \in {"scroll", "abortPoints"} : Still("collect", b)
    /\ \A b \in {"upsert", "abortPoints"} : Still("scroll", b)
    /\ Still("upsert", "abortPoints")
    /\ Still("capture", "abortPoints")
    /\ \A b \in {"commitSave", "abortPoints"} : Still("commit", b)
    /\ \A b \in {"retirePoints", "commitUndo"} : Still("commitSave", b)
    /\ Still("commitUndo", "abortPoints") /\ Still("retirePoints", "retireContent")
    /\ Still("fail", "failSave") /\ Still("failSave", "failUndo")
    /\ Still("beginSave", "work") /\ Still("beginSave", "beginUndo") /\ Still("beginUndo", "undoSave")
    /\ \A b \in {"deletePoints", "reserved"} : Still("reserve", b)
    /\ Still("reserved", "beginSave") /\ Still("deleteRemove", "deleteSave")
    /\ Still("deleteSave", "deleteContent") /\ Still("deleteSave", "deleteUndo")
    /\ \A a \in {"createSave", "createCollection"}, b \in {"createCollection", "createUndo"} :
           Still(a, b)
    /\ \A a \in {"dropSave", "dropCollection"}, b \in Dropping : Still(a, b)
BY DEF Still, Pointing, Containing, Emptied, Promoted, Retiring, Removing, Dropping

LEMMA StockSame ==
    ASSUME KInv, NEW p \in Procs, UNCHANGED <<points, contents, fences>>, leaked \subseteq leaked'
    PROVE  Writes(p)
BY FenceNumbers DEF Writes, KInv, KTypes

\* A request that goes on, whatever it does in memory.
LEMMA StockGoes ==
    ASSUME KInv, Controlled, Stocked, NEW p \in Procs, op[p].at # "idle", Writes(p),
           points' \subseteq points, contents' \subseteq contents,
           NEW at, NEW snap, Passes(p, at, snap), Still(op[p].at, at)
    PROVE  Stocked'
BY StockPasses DEF Passes, SameRequest, SameAttempt

LEMMA WorkStocks ==
    ASSUME KInv, Controlled, Stocked, NEW p \in Procs,
           Work(p) \/ EnsureCollection(p) \/ Scroll(p) PROVE Stocked'
<1>1. /\ op[p].at \in {"work", "collect", "scroll"} /\ op[p].at # "idle"
      /\ UNCHANGED <<points, contents, fences, leaked>>
  BY DEF Work, EnsureCollection, Scroll, stores, observers
<1>2. Writes(p)
  BY <1>1, StockSame
<1>3. CASE \E at \in {"collect", "abortPoints", "upsert"}, receipt \in {"fences", "points"} :
               Still(op[p].at, at) /\ op[p].at \in {"work", "scroll"} /\ Lists(p, at, receipt)
  <2>1. {"collect", "abortPoints", "upsert"} \subseteq Steps
    BY DEF Steps, Reserving, Begun
  <2>2. OthersSame(p) /\ \E r : /\ op'[p] = r /\ Still(op[p].at, r.at) /\ SameAttempt(op[p], r)
    BY <1>3, <2>1, PassesListing
  <2> QED BY <1>1, <1>2, <1>3, <2>2, StockPasses DEF SameAttempt
<1>4. CASE \E at \in {"fail", "scroll", "abortPoints"} : Still(op[p].at, at) /\ Goto(p, at)
  <2>1. {"fail", "scroll", "abortPoints"} \subseteq Steps
    BY DEF Steps, Reserving, Begun
  <2> QED BY <1>1, <1>2, <1>4, <2>1, PassesGoto, StockGoes
<1>5. CASE Work(p)
  BY <1>3, <1>4, <1>5, StillPaths DEF Work, Lists
<1>6. CASE EnsureCollection(p)
  BY <1>4, <1>6, StillPaths DEF EnsureCollection
<1>7. CASE Scroll(p)
  BY <1>3, <1>4, <1>7, StillPaths DEF Scroll, Lists
<1> QED BY <1>5, <1>6, <1>7

\* A write, and the steps that may follow it.
LEMMA WriteStocks ==
    ASSUME KInv, Controlled, Stocked, NEW p \in Procs, Upsert(p) \/ Capture(p) PROVE Stocked'
<1>1. PICK o \in Ops : o = op[p]
  BY OpOf
<1>2. o.at \in {"upsert", "capture"} /\ o.at # "idle" /\ UNCHANGED <<fences, leaked>>
  BY <1>1 DEF Upsert, Capture, observers
<1>3. o.receipt = "points" /\ o.at \in Begun /\ OwnStored(o)
  BY <1>1, <1>2 DEF Controlled, Control, Listed, Begun, Stocked
<1>4. Held(p, {op[p].fence}) = {OwnGen(o)}
  BY <1>1, <1>2, HeldOwn DEF OwnGen
<1>5. /\ points' \subseteq points \cup {OwnGen(o)}
      /\ contents' \subseteq contents \cup {OwnGen(o)}
      /\ o.at = "upsert" => contents' = contents
      /\ o.at = "capture" => points' = points
  BY <1>1, <1>4 DEF Upsert, Capture
<1>6. Writes(p)
  BY <1>1, <1>2, <1>3, <1>5, FenceNumbers DEF Writes, KInv, KTypes
<1>7. \E at \in {"capture", "commit", "abortPoints"} :
          /\ Passes(p, at, op[p].snap) /\ (o.at = "upsert" => at # "commit")
          /\ o.at = "capture" => at # "capture"
  <2>1. {"capture", "commit", "abortPoints"} \subseteq Steps
    BY DEF Steps, Reserving, Begun
  <2> QED BY <1>1, <2>1, PassesGoto DEF Upsert, Capture
<1>8. PICK r : /\ op'[p] = r /\ r.kb = o.kb /\ r.doc = o.doc /\ r.fence = o.fence
               /\ r.receipt = "points" /\ r.at \in {"capture", "commit", "abortPoints"}
               /\ o.at = "upsert" => r.at # "commit"
               /\ o.at = "capture" => r.at # "capture"
  BY <1>1, <1>3, <1>7 DEF Passes, SameRequest, SameAttempt
<1>9. OwnGen(r) = OwnGen(o) /\ MayHavePoints(r)
  BY <1>8 DEF OwnGen, MayHavePoints, Pointing
<1>10. OwnGen(r) \in contents' \ leaked' => r.at \in Containing
  <2>1. CASE o.at = "upsert"
    BY <1>2, <1>3, <1>5, <1>8, <1>9, <2>1 DEF OwnStored, Containing, Promoted, Retiring
  <2>2. CASE o.at = "capture"
    BY <1>8, <2>2 DEF Containing
  <2> QED BY <1>2, <2>1, <2>2
<1>11. OwnStored(r)' /\ Pointless(r)' /\ OthersSame(p)
  BY <1>7, <1>8, <1>9, <1>10 DEF OwnStored, Pointless, Emptied, Removing, Passes
<1> QED BY <1>6, <1>8, <1>11, StockCore

LEMMA CommitStocks ==
    ASSUME KInv, Controlled, Stocked, NEW p \in Procs,
           Commit(p) \/ CommitSave(p) \/ CommitUndo(p) PROVE Stocked'
<1>1. /\ op[p].at \in {"commit", "commitSave", "commitUndo"} /\ op[p].at # "idle"
      /\ UNCHANGED <<points, contents, fences, leaked>>
  BY DEF Commit, CommitSave, CommitUndo, stores, observers
<1>2. Writes(p)
  BY <1>1, StockSame
<1>3. CASE Still(op[p].at, "commitSave") /\ Copies(p, "commitSave")
  BY <1>1, <1>2, <1>3, AttemptSteps, PassesCopying, StockGoes DEF Begun
<1>4. CASE Still(op[p].at, "abortPoints") /\ GivesUp(p, "abortPoints")
  BY <1>1, <1>2, <1>4, AttemptSteps, PassesBack, StockGoes DEF Begun
<1>5. CASE Still(op[p].at, "commitUndo") /\ Goto(p, "commitUndo")
  BY <1>1, <1>2, <1>5, AttemptSteps, PassesGoto, StockGoes DEF Begun
<1>6. CASE Still(op[p].at, "retirePoints") /\ Drops(p, "retirePoints")
  BY <1>1, <1>2, <1>6, AttemptSteps, PassesSaved, StockGoes DEF Retiring
<1> QED BY <1>3, <1>4, <1>5, <1>6, StillPaths DEF Commit, CommitSave, CommitUndo, SaveThen, Copies,
        GivesUp, Drops

LEMMA FailStocks ==
    ASSUME KInv, Controlled, Stocked, NEW p \in Procs,
           Fail(p) \/ FailSave(p) \/ FailUndo(p) \/ UndoSave(p) PROVE Stocked'
<1>1. /\ op[p].at \in {"fail", "failSave", "failUndo", "undoSave"} /\ op[p].at # "idle"
      /\ UNCHANGED <<points, contents, fences>> /\ leaked \subseteq leaked'
  BY DEF Fail, FailSave, FailUndo, UndoSave, stores, Leave
<1>2. Writes(p)
  BY <1>1, StockSame
<1>3. CASE Leave(p, {})
  BY <1>2, <1>3, EndsLeave, StockEnds
<1>4. CASE Still(op[p].at, "failSave") /\ Copies(p, "failSave")
  BY <1>1, <1>2, <1>4, AttemptSteps, PassesCopying, StockGoes DEF Begun
<1>5. CASE Still(op[p].at, "failUndo") /\ Goto(p, "failUndo")
  BY <1>1, <1>2, <1>5, AttemptSteps, PassesGoto, StockGoes DEF Begun
<1> QED BY <1>3, <1>4, <1>5, StillPaths DEF Fail, FailSave, FailUndo, UndoSave, Copies

LEMMA BeginStocks ==
    ASSUME KInv, Controlled, Stocked, NEW p \in Procs,
           BeginSave(p) \/ BeginUndo(p) PROVE Stocked'
<1>1. /\ op[p].at \in {"beginSave", "beginUndo"} /\ op[p].at # "idle"
      /\ UNCHANGED <<points, contents, fences, leaked>>
  BY DEF BeginSave, BeginUndo, stores, observers
<1>2. Writes(p)
  BY <1>1, StockSame
<1>3. CASE \E at \in Beginning : Still(op[p].at, at) /\ Goto(p, at)
  BY <1>1, <1>2, <1>3, AttemptSteps, PassesGoto, StockGoes
<1>4. CASE Still(op[p].at, "work") /\ Drops(p, "work")
  BY <1>1, <1>2, <1>4, AttemptSteps, PassesSaved, StockGoes DEF Begun
<1> QED BY <1>3, <1>4, StillPaths DEF BeginSave, BeginUndo, SaveThen, Drops, Beginning

LEMMA HeldHas ==
    ASSUME KInv, NEW p \in Procs, op[p].at # "idle", NEW fs, op[p].fence \in fs
    PROVE  OwnGen(op[p]) \in Held(p, fs)
<1>1. op[p].fence # 0
  BY OpOf, Found
<1> QED BY <1>1 DEF Held, OwnGen

\* A clean-up takes what it removes, or leaves it behind.
LEMMA AbortStocks ==
    ASSUME KInv, Controlled, Stocked, NEW p \in Procs,
           AbortPoints(p) \/ AbortContent(p) PROVE Stocked'
<1>1. PICK o \in Ops : o = op[p]
  BY OpOf
<1>2. /\ o.at \in {"abortPoints", "abortContent"} /\ o.at # "idle" /\ OwnStored(o)
      /\ points' \subseteq points /\ contents' \subseteq contents /\ UNCHANGED fences
      /\ leaked \subseteq leaked'
  BY <1>1 DEF AbortPoints, AbortContent, Stocked, Leave
<1>3. Writes(p)
  BY <1>2, FenceNumbers DEF Writes, KInv, KTypes
<1>4. OwnGen(o) \in Held(p, {op[p].fence, op[p].superseded})
  BY <1>1, <1>2, HeldHas
<1>5. CASE AbortPoints(p)
  <2>1. o.at = "abortPoints" /\ contents' = contents
    BY <1>1, <1>5 DEF AbortPoints
  <2>2. OwnGen(o) \notin points' \ leaked'
    BY <1>1, <1>2, <1>4, <1>5, <2>1 DEF AbortPoints, OwnStored, MayHavePoints, Pointing, Promoted, Retiring
  <2>3. Passes(p, "abortContent", o.snap)
    BY <1>1, <1>5, AttemptSteps, PassesGoto DEF AbortPoints, Begun
  <2>4. PICK r : op'[p] = r /\ r.at = "abortContent" /\ r.kb = o.kb /\ r.doc = o.doc /\ r.fence = o.fence
    BY <1>1, <2>3 DEF Passes, SameRequest, SameAttempt
  <2>5. OwnGen(r) = OwnGen(o)
    BY <2>4 DEF OwnGen
  <2>6. OwnStored(r)' /\ Pointless(r)' /\ OthersSame(p)
    BY <2>2, <2>3, <2>4, <2>5 DEF OwnStored, Containing, Pointless, Emptied, Removing, Passes
  <2> QED BY <1>3, <2>4, <2>6, StockCore
<1>6. CASE AbortContent(p)
  <2>1. o.at = "abortContent" /\ points' = points
    BY <1>1, <1>6 DEF AbortContent
  <2>2. CASE \E left : Leave(p, left)
    BY <1>3, <2>2, EndsLeave, StockEnds
  <2>3. CASE /\ Goto(p, "fail")
             /\ OwnGen(o) \notin contents' \ leaked'
    <3>1. Passes(p, "fail", o.snap)
      BY <1>1, <2>3, AttemptSteps, PassesGoto DEF Begun
    <3>2. PICK r : op'[p] = r /\ r.at = "fail" /\ r.kb = o.kb /\ r.doc = o.doc /\ r.fence = o.fence
      BY <1>1, <3>1 DEF Passes, SameRequest, SameAttempt
    <3>3. OwnGen(r) = OwnGen(o) /\ ~MayHavePoints(o)
      BY <2>1, <3>2 DEF OwnGen, MayHavePoints, Pointing, Promoted, Retiring
    <3>4. OwnStored(r)' /\ Pointless(r)' /\ OthersSame(p)
      BY <1>2, <2>1, <2>3, <3>1, <3>2, <3>3 DEF OwnStored, Pointless, Emptied, Removing, Passes
    <3> QED BY <1>3, <3>2, <3>4, StockCore
  <2>4. OwnGen(o) \notin contents' \ leaked' \/ \E left : Leave(p, left)
    BY <1>4, <1>6 DEF AbortContent
  <2> QED BY <1>6, <2>2, <2>3, <2>4 DEF AbortContent
<1> QED BY <1>5, <1>6

LEMMA RetireStocks ==
    ASSUME KInv, Controlled, Stocked, NEW p \in Procs,
           RetirePoints(p) \/ RetireContent(p) PROVE Stocked'
<1>1. /\ op[p].at \in {"retirePoints", "retireContent"} /\ op[p].at # "idle"
      /\ points' \subseteq points /\ contents' \subseteq contents /\ UNCHANGED fences
      /\ leaked \subseteq leaked'
  BY DEF RetirePoints, RetireContent
<1>2. Writes(p)
  BY <1>1, FenceNumbers DEF Writes, KInv, KTypes
<1>3. CASE Return(p)
  BY <1>2, <1>3, EndsReturn, StockEnds
<1>4. CASE op[p].at = "retirePoints" /\ Goto(p, "retireContent")
  BY <1>1, <1>2, <1>4, StillPaths, AttemptSteps, PassesGoto, StockGoes DEF Retiring
<1> QED BY <1>3, <1>4 DEF RetirePoints, RetireContent

LEMMA DeletePointsStocks ==
    ASSUME KInv, Controlled, Stocked, NEW p \in Procs, DeletePoints(p) PROVE Stocked'
<1>1. PICK o \in Ops : o = op[p]
  BY OpOf
<1>2. /\ o.at = "deletePoints" /\ o.at # "idle" /\ OwnStored(o)
      /\ points' \subseteq points /\ contents' = contents /\ UNCHANGED <<fences, leaked>>
  BY <1>1 DEF DeletePoints, Stocked
<1>3. Writes(p)
  BY <1>2, FenceNumbers DEF Writes, KInv, KTypes
<1>4. CASE Return(p)
  BY <1>3, <1>4, EndsReturn, StockEnds
<1>5. CASE Goto(p, "deleteRemove") /\ points' \cap Of(o.kb, o.doc) = {}
  <2>1. Passes(p, "deleteRemove", o.snap)
    BY <1>1, <1>5, AttemptSteps, PassesGoto
  <2>2. PICK r : op'[p] = r /\ r.at = "deleteRemove" /\ r.kb = o.kb /\ r.doc = o.doc /\ r.fence = o.fence
    BY <1>1, <2>1 DEF Passes, SameRequest, SameAttempt
  <2>3. OwnGen(r) = OwnGen(o) /\ ~MayHavePoints(o) /\ o.at \notin Containing
    BY <1>2, <2>2 DEF OwnGen, MayHavePoints, Pointing, Containing, Promoted, Retiring
  <2>4. OwnStored(r)' /\ Pointless(r)' /\ OthersSame(p)
    BY <1>2, <1>5, <2>1, <2>2, <2>3 DEF OwnStored, Pointless, Passes
  <2> QED BY <1>3, <2>2, <2>4, StockCore
<1> QED BY <1>1, <1>4, <1>5 DEF DeletePoints

LEMMA DeleteStocks ==
    ASSUME KInv, Controlled, Stocked, NEW p \in Procs,
           DeleteRemove(p) \/ DeleteSave(p) \/ DeleteUndo(p) \/ DeleteContent(p) PROVE Stocked'
<1>1. /\ op[p].at \in {"deleteRemove", "deleteSave", "deleteUndo", "deleteContent"}
      /\ op[p].at # "idle"
      /\ points' \subseteq points /\ contents' \subseteq contents /\ UNCHANGED fences
      /\ leaked \subseteq leaked'
  BY DEF DeleteRemove, DeleteSave, DeleteUndo, DeleteContent, stores, observers
<1>2. Writes(p)
  BY <1>1, FenceNumbers DEF Writes, KInv, KTypes
<1>3. CASE Return(p)
  BY <1>2, <1>3, EndsReturn, StockEnds
<1>4. CASE Still(op[p].at, "deleteSave") /\ Copies(p, "deleteSave")
  BY <1>1, <1>2, <1>4, AttemptSteps, PassesCopying, StockGoes DEF Removing
<1>5. CASE Still(op[p].at, "deleteUndo") /\ Goto(p, "deleteUndo")
  BY <1>1, <1>2, <1>5, AttemptSteps, PassesGoto, StockGoes DEF Removing
<1>6. CASE Still(op[p].at, "deleteContent") /\ Drops(p, "deleteContent")
  BY <1>1, <1>2, <1>6, AttemptSteps, PassesSaved, StockGoes DEF Removing
<1> QED BY <1>3, <1>4, <1>5, <1>6, StillPaths DEF DeleteRemove, DeleteSave, DeleteUndo,
        DeleteContent, SaveThen, Copies, Drops

LEMMA CreateStocks ==
    ASSUME KInv, Controlled, Stocked, NEW p \in Procs,
           \/ CreateSave(p) \/ CreateCollection(p) \/ CreateUndo(p)
           \/ DropSave(p) \/ DropUndo(p) \/ DropCollection(p) \/ DropContent(p)
    PROVE  Stocked'
<1>1. /\ op[p].at \in {"createSave", "createCollection", "createUndo", "dropSave", "dropUndo",
                       "dropCollection", "dropContent"}
      /\ op[p].at # "idle"
      /\ points' \subseteq points /\ contents' \subseteq contents /\ UNCHANGED fences
      /\ leaked \subseteq leaked'
  BY DEF CreateSave, CreateCollection, CreateUndo, DropSave, DropUndo, DropCollection, DropContent,
     stores, observers
<1>2. Writes(p)
  BY <1>1, FenceNumbers DEF Writes, KInv, KTypes
<1>3. CASE Return(p)
  BY <1>2, <1>3, EndsReturn, StockEnds
<1>4. CASE \E at \in {"createUndo", "dropCollection", "dropUndo", "dropContent"} :
               Still(op[p].at, at) /\ Goto(p, at)
  BY <1>1, <1>2, <1>4, AttemptSteps, PassesGoto, StockGoes DEF Dropping
<1>5. CASE Still(op[p].at, "createCollection") /\ Drops(p, "createCollection")
  BY <1>1, <1>2, <1>5, AttemptSteps, PassesSaved, StockGoes
<1>6. CASE CreateSave(p)
  BY <1>4, <1>5, <1>6, StillPaths DEF CreateSave, SaveThen, Drops
<1>7. CASE CreateCollection(p) \/ CreateUndo(p) \/ DropUndo(p) \/ DropContent(p)
  BY <1>3, <1>4, <1>7, StillPaths DEF CreateCollection, CreateUndo, DropUndo, DropContent
<1>8. CASE DropSave(p) \/ DropCollection(p)
  BY <1>4, <1>8, StillPaths DEF DropSave, DropCollection, Dropping
<1> QED BY <1>6, <1>7, <1>8

LEMMA CancelStocks ==
    ASSUME KInv, Controlled, Stocked, NEW p \in Procs, Cancel(p) PROVE Stocked'
<1>1. PICK o \in Ops : o = op[p]
  BY OpOf
<1>2. UNCHANGED <<points, contents, leaked, fences>> /\ OwnStored(o) /\ Pointless(o)
  BY <1>1 DEF Cancel, stores, observers, Stocked
<1>3. Writes(p)
  BY <1>2, StockSame
<1>4. PICK r : /\ op'[p] = r /\ r.at = o.at /\ r.kb = o.kb /\ r.doc = o.doc /\ r.fence = o.fence
               /\ r.receipt = o.receipt
  BY <1>1, CancelPasses DEF Passes, SameRequest, SameAttempt
<1>5. OwnStored(r)' /\ Pointless(r)'
  BY <1>2, <1>4 DEF OwnStored, Pointless, OwnGen, MayHavePoints
<1>6. OthersSame(p)
  BY CancelPasses DEF Passes
<1> QED BY <1>3, <1>4, <1>5, <1>6, StockCore

\* A new fence is no generation's.
LEMMA StartStocks ==
    ASSUME KInv, Controlled, Stocked, NEW p \in Procs,
           \/ \E k \in KBs, d \in Docs : StartIndex(p, k, d) \/ StartOnDocument(p, k, d)
           \/ \E k \in KBs : CreateKB(p, k) \/ DropKB(p, k)
    PROVE  Stocked'
<1>1. /\ UNCHANGED <<points, contents, leaked>> /\ CanStart(p)
      /\ \E kind, k, d, snap, at :
             at \in {"reserve", "createSave", "dropSave"} /\ Start(p, kind, k, d, at, snap)
  BY DEF StartIndex, StartOnDocument, CreateKB, DropKB, stores, observers
<1>2. PICK kind, k, d, snap, at :
          at \in {"reserve", "createSave", "dropSave"} /\ Start(p, kind, k, d, at, snap)
  BY <1>1
<1>3. PICK r : /\ op'[p] = r /\ r.at = at /\ r.fence = fences + 1
  BY <1>2, StartIs
<1>4. fences \in Nat /\ fences' = fences + 1 /\ fences' \in Fences
  BY <1>1, <1>2, KnowledgeConstants, FenceNumbers DEF KInv, KTypes, CanStart, Start, Fences
<1>5. Writes(p)
  BY <1>1, <1>4 DEF Writes
<1>6. OwnGen(r) \notin points \cup contents
  <2>1. OwnGen(r)[3] = fences + 1
    BY <1>3 DEF OwnGen, Gen
  <2>2. ~(fences + 1 \in 1..fences)
    BY <1>4
  <2> QED BY <2>1, <2>2 DEF Stocked, Numbered
<1>7. OwnStored(r)' /\ Pointless(r)'
  BY <1>1, <1>2, <1>3, <1>6 DEF OwnStored, Pointless, Emptied, Removing
<1>8. OthersSame(p)
  BY <1>2, StartIs
<1> QED BY <1>3, <1>5, <1>7, <1>8, StockCore

SameIds(o, r) ==
    /\ r.kb = o.kb /\ r.doc = o.doc /\ r.fence = o.fence /\ r.kind = o.kind
    /\ r.receipt = o.receipt

LEMMA ReserveIs ==
    ASSUME KInv, NEW p \in Procs, Reserve(p)
    PROVE  /\ OthersSame(p)
           /\ \/ op'[p].at = "idle"
              \/ \E r : /\ op'[p] = r /\ SameIds(op[p], r) /\ r.at \in {"reserved", "deletePoints"}
                        /\ r.superseded = op[p].superseded /\ r.new = op[p].new
<1>1. PICK o \in Ops : o = op[p]
  BY OpOf
<1>2. CASE Return(p)
  BY <1>2, ReturnIs DEF Ends
<1>3. CASE Goto(p, "deletePoints")
  <2>1. Passes(p, "deletePoints", o.snap)
    BY <1>1, <1>3, AttemptSteps, PassesGoto
  <2> QED BY <2>1 DEF Passes, SameRequest, SameAttempt, SameIds
<1>4. CASE op' = [op EXCEPT ![p].at = "reserved", ![p].prev = Current(p).fence]
  <2> DEFINE r == [o EXCEPT !.at = "reserved", !.prev = Current(p).fence]
  <2>1. r.at = "reserved" /\ SameIds(o, r) /\ r.superseded = o.superseded /\ r.new = o.new
    BY DEF Ops, SameIds
  <2>2. OthersSame(p) /\ op'[p] = r
    BY <1>1, <1>4, OpOf DEF OthersSame
  <2> QED BY <1>1, <2>1, <2>2
<1> QED BY <1>2, <1>3, <1>4 DEF Reserve

\* The record of an attempt that begins, on a document that is there or a new one.
BeginsOn(p, cur, r) ==
    /\ op'[p] = r /\ SameIds(op[p], r) /\ r.at = "beginSave" /\ r.prev = op[p].prev
    /\ r.snap = mem.doc[op[p].kb]
    /\ \/ /\ Has(mem, op[p].kb, op[p].doc) /\ cur.fence = op[p].prev
          /\ SetCurrent(p, [cur EXCEPT !.marker = op[p].fence])
          /\ r.superseded = cur.marker /\ r.new = op[p].new
       \/ /\ op[p].kb \in mem.kbs /\ ~Has(mem, op[p].kb, op[p].doc)
          /\ SetCurrent(p, [fence |-> op[p].prev, marker |-> op[p].fence,
                            status |-> "processing", run |-> 0])
          /\ r.superseded = op[p].superseded /\ r.new = TRUE

LEMMA BeginIs ==
    ASSUME KInv, NEW p \in Procs, Begin(p)
    PROVE  /\ OthersSame(p)
           /\ \/ Return(p) /\ UNCHANGED mem
              \/ \E r : BeginsOn(p, Current(p), r)
<1>1. PICK o \in Ops : o = op[p]
  BY OpOf
<1> DEFINE begun == [op EXCEPT ![p].at = "beginSave", ![p].snap = mem.doc[op[p].kb]]
<1>2. CASE Return(p) /\ UNCHANGED mem
  BY <1>2, ReturnIs DEF Ends
<1>3. CASE /\ op' = [begun EXCEPT ![p].superseded = Current(p).marker]
           /\ Has(mem, o.kb, o.doc) /\ Current(p).fence = o.prev
           /\ SetCurrent(p, [Current(p) EXCEPT !.marker = o.fence])
  <2> DEFINE r == [o EXCEPT !.at = "beginSave", !.snap = mem.doc[o.kb], !.superseded = Current(p).marker]
  <2>1. /\ r.at = "beginSave" /\ SameIds(o, r) /\ r.new = o.new /\ r.prev = o.prev
        /\ r.snap = mem.doc[o.kb] /\ r.superseded = Current(p).marker
    BY DEF Ops, SameIds
  <2>2. OthersSame(p) /\ op'[p] = r
    BY <1>1, <1>3, OpOf DEF OthersSame
  <2> HIDE DEF r
  <2>3. BeginsOn(p, Current(p), r)
    BY <1>1, <1>3, <2>1, <2>2 DEF BeginsOn
  <2> QED BY <2>2, <2>3
<1>4. CASE /\ op' = [begun EXCEPT ![p].new = TRUE]
           /\ o.kb \in mem.kbs /\ ~Has(mem, o.kb, o.doc)
           /\ SetCurrent(p, [fence |-> o.prev, marker |-> o.fence,
                             status |-> "processing", run |-> 0])
  <2> DEFINE r == [o EXCEPT !.at = "beginSave", !.snap = mem.doc[o.kb], !.new = TRUE]
  <2>1. /\ r.at = "beginSave" /\ SameIds(o, r) /\ r.prev = o.prev
        /\ r.snap = mem.doc[o.kb] /\ r.superseded = o.superseded /\ r.new = TRUE
    BY DEF Ops, SameIds
  <2>2. OthersSame(p) /\ op'[p] = r
    BY <1>1, <1>4, OpOf DEF OthersSame
  <2> HIDE DEF r
  <2>3. BeginsOn(p, Current(p), r)
    BY <1>1, <1>4, <2>1, <2>2 DEF BeginsOn
  <2> QED BY <2>2, <2>3
<1> QED BY <1>1, <1>2, <1>3, <1>4 DEF Begin

LEMMA ReserveStocks ==
    ASSUME KInv, Controlled, Stocked, NEW p \in Procs, Reserve(p) \/ Begin(p) PROVE Stocked'
<1>1. /\ op[p].at \in {"reserve", "reserved"} /\ op[p].at # "idle"
      /\ UNCHANGED <<points, contents, fences, leaked>>
  BY DEF Reserve, Begin, stores, observers
<1>2. Writes(p) /\ OthersSame(p)
  BY <1>1, StockSame, ReserveIs, BeginIs
<1>3. CASE op'[p].at = "idle"
  BY <1>2, <1>3, StockEnds DEF Ends
<1>4. CASE \E r : /\ op'[p] = r /\ SameIds(op[p], r) /\ Still(op[p].at, r.at)
  BY <1>1, <1>2, <1>4, StockPasses DEF SameIds
<1>5. CASE Reserve(p)
  <2>1. op[p].at = "reserve"
    BY <1>5 DEF Reserve
  <2> QED BY <1>3, <1>4, <1>5, <2>1, ReserveIs, StillPaths
<1>6. CASE Begin(p)
  <2>1. op[p].at = "reserved"
    BY <1>6 DEF Begin
  <2> QED BY <1>3, <1>4, <1>6, <2>1, BeginIs, ReturnIs, StillPaths DEF BeginsOn, Ends
<1> QED BY <1>5, <1>6

LEMMA NextStocks ==
    ASSUME KInv, Controlled, Stocked, [Next]_vars PROVE Stocked'
<1>1. CASE \E p \in Procs : Step(p)
  BY <1>1, WorkStocks, WriteStocks, CommitStocks, FailStocks, BeginStocks, AbortStocks, RetireStocks,
     DeletePointsStocks, DeleteStocks, CreateStocks, CancelStocks, StartStocks, ReserveStocks DEF Step
<1>2. CASE OtherSave \/ UNCHANGED vars
  <2>1. UNCHANGED <<points, contents, op, fences, leaked>>
    BY <1>2 DEF OtherSave, vars, stores, observers
  <2> QED BY <2>1 DEF Stocked, Numbered, OwnStored, Pointless, OwnGen, MayHavePoints
<1>3. CASE CrashRestart
  <2>1. UNCHANGED <<points, contents, fences>> /\ op' = [q \in Procs |-> Idle]
    BY <1>3 DEF CrashRestart
  <2>2. Idle.at = "idle" /\ "idle" \notin Emptied
    BY DEF Idle, Emptied, Removing
  <2> QED BY <2>1, <2>2 DEF Stocked, Numbered, OwnStored, Pointless
<1> QED BY <1>1, <1>2, <1>3 DEF Next, Rest

LEMMA InitStocks == ASSUME Init PROVE Stocked
<1>1. Idle.at = "idle" /\ "idle" \notin Emptied /\ op = [q \in Procs |-> Idle]
  BY DEF Idle, Emptied, Removing, Init
<1>2. fences = 1 /\ points = {First} \X Indexed \X {1} /\ contents = points
  BY DEF Init
<1>3. \A g \in points \cup contents : g[3] = 1
  BY <1>2
<1> QED BY <1>1, <1>2, <1>3 DEF Stocked, Numbered, OwnStored, Pointless
-----------------------------------------------------------------------------
(* The marker of an attempt, in memory and in the file *)

Writing == {"work", "collect", "scroll", "upsert", "capture", "commit"}
Aborting == {"abortPoints", "abortContent"}
Marked(st, o) ==
    st.doc[o.kb][o.doc].status = "none" \/ st.doc[o.kb][o.doc].marker = o.fence
\* In memory from its begin on, until it is committed or, where saves may fail,
\* until the commit is taken back.
MemMarked(o) ==
    o.at \in Writing \cup {"beginSave"} \/ (mode = "overlap" /\ o.at \in Aborting) => Marked(mem, o)
\* In the file once the begin is saved, until the commit is.
DiskMarked(o) ==
    \/ o.at \in Writing \cup Aborting \cup {"commitUndo"}
    \/ mode = "faultySaves" /\ o.at = "commitSave"
    => Marked(disk, o)
Marking == \A p \in Procs : MemMarked(op[p]) /\ DiskMarked(op[p])

\* A step of p, where requests overlap, leaves the other documents alone, or
\* takes them away with their knowledge base.
Touches(p) ==
    /\ mode' = mode
    /\ mode = "overlap" =>
         \A k \in KBs, d \in Docs :
             \/ mem'.doc[k][d] = mem.doc[k][d] \/ mem'.doc[k][d] = NoDoc
             \/ k = op[p].kb /\ d = op[p].doc /\ op[p].at \in Reserving

LEMMA MarkIs ==
    ASSUME NEW q \in Procs, NEW r, op'[q] = r, MemMarked(r)', DiskMarked(r)'
    PROVE  MemMarked(op[q])' /\ DiskMarked(op[q])'
BY DEF MemMarked, DiskMarked, Marked

LEMMA MarkOther ==
    ASSUME KInv, Marking, NEW p \in Procs, Touches(p), disk' \in {disk, mem},
           op[p].at # "idle" \/ CanStart(p), NEW q \in Procs, q # p, op'[q] = op[q]
    PROVE  MemMarked(op[q])' /\ DiskMarked(op[q])'
<1>1. PICK o \in Ops : o = op[p]
  BY OpOf
<1>2. PICK r \in Ops : r = op[q]
  BY OpOf
<1>3. /\ Writing \cup Aborting \cup {"beginSave", "commitUndo", "commitSave"} \subseteq Reserving
      /\ "idle" \notin Reserving /\ "idle" \notin Writing /\ "idle" \notin Aborting
      /\ "commitUndo" \in Undoing /\ "commitSave" \notin Writing \cup Aborting
      /\ "beginSave" \notin Aborting
  BY DEF Writing, Aborting, Reserving, Begun, Retiring, Undoing
<1>4. CASE r.at \notin Reserving
  <2>1. MemMarked(r)' /\ DiskMarked(r)'
    BY <1>3, <1>4 DEF MemMarked, DiskMarked
  <2> QED BY <1>2, <2>1, MarkIs
<1>5. CASE r.at \in Reserving
  <2>1. r.at # "idle" /\ mode = "overlap"
    BY <1>2, <1>3, <1>5, SoloAt DEF Solo, KInv, KTypes
  <2>2. r.at # "commitUndo" /\ MemMarked(r) /\ DiskMarked(r) /\ r.kb \in KBs /\ r.doc \in Docs
    BY <1>2, <1>3, <2>1, OpFields DEF KInv, OpSound, Marking
  <2>3. ~(r.kb = o.kb /\ r.doc = o.doc /\ o.at \in Reserving)
    BY <1>1, <1>2, <1>3, <1>5, <2>1 DEF KInv, Apart
  <2>4. \/ mem'.doc[r.kb][r.doc] = mem.doc[r.kb][r.doc]
        \/ mem'.doc[r.kb][r.doc].status = "none"
    BY <1>1, <2>1, <2>2, <2>3, Nothing DEF Touches
  <2>5. mode' = "overlap"
    BY <2>1 DEF Touches
  <2>6. MemMarked(r)'
    BY <2>1, <2>2, <2>4, <2>5 DEF MemMarked, Marked
  <2>7. DiskMarked(r)'
    BY <1>3, <2>1, <2>2, <2>5 DEF MemMarked, DiskMarked, Marked
  <2> QED BY <1>2, <2>6, <2>7, MarkIs
<1> QED BY <1>4, <1>5

LEMMA MarkCore ==
    ASSUME KInv, Marking, NEW p \in Procs, op[p].at # "idle" \/ CanStart(p), OthersSame(p),
           Touches(p), disk' \in {disk, mem}, NEW r, op'[p] = r, MemMarked(r)', DiskMarked(r)'
    PROVE  Marking'
BY MarkIs, MarkOther DEF Marking, OthersSame

Markers == Writing \cup Aborting \cup {"beginSave", "commitUndo", "commitSave"}
LEMMA MarkQuiet ==
    ASSUME KInv, Marking, NEW p \in Procs, op[p].at # "idle" \/ CanStart(p), OthersSame(p),
           Touches(p), disk' \in {disk, mem}, op'[p].at \notin Markers
    PROVE  Marking'
<1>1. PICK r : r = op'[p]
  OBVIOUS
<1>2. MemMarked(r)' /\ DiskMarked(r)'
  BY <1>1 DEF MemMarked, DiskMarked, Markers
<1> QED BY <1>1, <1>2, MarkCore

\* Neither memory nor the file changes, and the request is where what it needs
\* was so before.
MarkedOn(a, b) ==
    /\ b \in Writing \cup {"beginSave"} => a \in Writing \cup {"beginSave"}
    /\ b \in Aborting => a \in Writing \cup {"beginSave"} \cup Aborting
    /\ b \in Writing \cup Aborting \cup {"commitUndo"} => a \in Writing \cup Aborting \cup {"commitUndo"}
    /\ b = "commitSave" => a = "commitSave"
LEMMA MarkPasses ==
    ASSUME KInv, Marking, NEW p \in Procs, op[p].at # "idle", OthersSame(p),
           UNCHANGED <<mode, mem, disk>>,
           NEW r, op'[p] = r, r.kb = op[p].kb, r.doc = op[p].doc, r.fence = op[p].fence,
           MarkedOn(op[p].at, r.at)
    PROVE  Marking'
<1>1. PICK o \in Ops : o = op[p]
  BY OpOf
<1>2. MemMarked(o) /\ DiskMarked(o)
  BY <1>1 DEF Marking
<1>3. MemMarked(r)' /\ DiskMarked(r)'
  BY <1>1, <1>2 DEF MemMarked, DiskMarked, Marked, MarkedOn
<1>4. Touches(p)
  BY DEF Touches
<1> QED BY <1>3, <1>4, MarkCore

\* Of all documents that of p changes at most, to r.
Puts(p, r) ==
    /\ mem'.kbs = mem.kbs
    /\ \A k \in KBs, d \in Docs :
           mem'.doc[k][d] = IF k = op[p].kb /\ d = op[p].doc THEN r ELSE mem.doc[k][d]

LEMMA PutsSet == ASSUME KInv, NEW p \in Procs, NEW r, SetCurrent(p, r) PROVE Puts(p, r)
<1>1. PICK o \in Ops : o = op[p]
  BY OpOf
<1>2. /\ o.kb \in KBs /\ o.doc \in Docs /\ mem.doc \in [KBs -> [Docs -> DocRecs]]
      /\ mem = [kbs |-> mem.kbs, doc |-> mem.doc]
  BY OpFields DEF KInv, KTypes, States
<1>3. mem'.kbs = mem.kbs /\ mem'.doc = [mem.doc EXCEPT ![o.kb][o.doc] = r]
  BY <1>1, <1>2 DEF SetCurrent, SetDoc
<1>4. ASSUME NEW k \in KBs, NEW d \in Docs
      PROVE  mem'.doc[k][d] = IF k = o.kb /\ d = o.doc THEN r ELSE mem.doc[k][d]
  BY <1>2, <1>3
<1> QED BY <1>1, <1>3, <1>4 DEF Puts

LEMMA TouchesSet ==
    ASSUME KInv, NEW p \in Procs, op[p].at \in Reserving, mode' = mode,
           NEW r, SetCurrent(p, r) \/ UNCHANGED mem
    PROVE  Touches(p)
BY PutsSet DEF Touches, Puts

LEMMA WorkMarks ==
    ASSUME KInv, Marking, NEW p \in Procs,
           \/ Work(p) \/ EnsureCollection(p) \/ Scroll(p) \/ Upsert(p) \/ Capture(p)
           \/ AbortPoints(p)
    PROVE  Marking'
<1>1. /\ op[p].at \in Writing \cup {"abortPoints"} /\ op[p].at # "idle"
      /\ UNCHANGED <<mode, mem, disk>>
  BY DEF Work, EnsureCollection, Scroll, Upsert, Capture, AbortPoints, observers, Writing
<1>2. \E at \in Writing \cup Aborting \cup {"fail"} :
          /\ Becomes(p, at)
          /\ op[p].at = "abortPoints" => at = "abortContent"
  BY <1>1, AttemptSteps, Goes, GoesListing DEF Work, EnsureCollection, Scroll, Upsert, Capture,
     AbortPoints, Writing, Aborting, Begun
<1>3. PICK r : /\ op'[p] = r /\ SameAttempt(op[p], r) /\ r.at \in Writing \cup Aborting \cup {"fail"}
               /\ op[p].at = "abortPoints" => r.at = "abortContent"
  BY <1>2, Alters DEF Becomes
<1>4. MarkedOn(op[p].at, r.at)
  BY <1>1, <1>3 DEF MarkedOn, Writing, Aborting
<1>5. OthersSame(p)
  BY <1>2, Alters DEF Becomes
<1> QED BY <1>1, <1>3, <1>4, <1>5, MarkPasses DEF SameAttempt

\* Steps that leave the markers behind.
LEMMA PassedMarks ==
    ASSUME KInv, Controlled, Marking, NEW p \in Procs,
           \/ AbortContent(p) \/ RetirePoints(p) \/ RetireContent(p) \/ Fail(p) \/ FailSave(p)
           \/ DeletePoints(p) \/ DeleteRemove(p) \/ DeleteSave(p) \/ DeleteContent(p)
    PROVE  Marking'
<1>1. OthersSame(p) /\ op[p].at # "idle"
  BY AbortControl, DeleteControl, CommitControl DEF Controlled, AbortContent, RetirePoints,
     RetireContent, Fail, FailSave, DeletePoints, DeleteRemove, DeleteSave, DeleteContent
<1>2. op[p].at \in Reserving /\ mode' = mode /\ disk' \in {disk, mem}
  BY DEF AbortContent, RetirePoints, RetireContent, Fail, FailSave, DeletePoints, DeleteRemove,
     DeleteSave, DeleteContent, Reserving, Begun, Retiring, SaveThen, Save, SaveFails
<1>3. Touches(p)
  BY <1>2, TouchesSet DEF AbortContent, RetirePoints, RetireContent, Fail, FailSave, DeletePoints,
     DeleteRemove, DeleteSave, DeleteContent
<1>4. \/ Return(p)
      \/ \E at \in {"fail", "retireContent", "failUndo", "deleteRemove", "deleteUndo"} : Goto(p, at)
      \/ \E at \in {"failSave", "deleteSave"} : Copies(p, at)
      \/ Drops(p, "deleteContent")
  BY DEF AbortContent, RetirePoints, RetireContent, Fail, FailSave, DeletePoints, DeleteRemove,
     DeleteSave, DeleteContent, SaveThen, Leave, Copies, Drops
<1>5. op'[p].at \in {"idle", "fail", "retireContent", "failUndo", "deleteRemove", "deleteUndo",
                     "failSave", "deleteSave", "deleteContent"}
  <2>1. {"fail", "retireContent", "failUndo", "deleteRemove", "deleteUndo",
                     "failSave", "deleteSave", "deleteContent"} \subseteq Steps
    BY DEF Steps, Reserving, Begun, Retiring
  <2>2. CASE Return(p)
    BY <2>2, EndsReturn DEF Ends
  <2>3. CASE \E at \in {"fail", "retireContent", "failUndo", "deleteRemove", "deleteUndo"} : Goto(p, at)
    BY <2>1, <2>3, PassesGoto DEF Passes
  <2>4. CASE \E at \in {"failSave", "deleteSave"} : Copies(p, at)
    BY <2>1, <2>4, PassesCopying DEF Passes
  <2>5. CASE Drops(p, "deleteContent")
    BY <2>1, <2>5, PassesSaved DEF Passes
  <2> QED BY <1>4, <2>2, <2>3, <2>4, <2>5
<1>6. op'[p].at \notin Markers
  BY <1>5 DEF Markers, Writing, Aborting
<1> QED BY <1>1, <1>2, <1>3, <1>6, MarkQuiet

\* Undone: only where saves fail, and requests do not overlap.
LEMMA UndoMarks ==
    ASSUME KInv, Controlled, Marking, NEW p \in Procs,
           BeginUndo(p) \/ UndoSave(p) \/ FailUndo(p) \/ DeleteUndo(p) \/ DropUndo(p)
    PROVE  Marking'
<1>1. PICK o \in Ops : o = op[p]
  BY OpOf
<1>2. o.at \in Undoing /\ o.at # "idle" /\ mode' = mode /\ disk' \in {disk, mem}
  BY <1>1 DEF BeginUndo, UndoSave, FailUndo, DeleteUndo, DropUndo, Undoing, Save, SaveFails
<1>3. mode = "faultySaves"
  BY <1>1, <1>2, UndoAlone
<1>4. Touches(p)
  BY <1>2, <1>3 DEF Touches
<1>5. OthersSame(p)
  BY BeginSaveControl, CommitControl, DeleteControl, CreateControl DEF Controlled
<1>6. op'[p].at \in {"idle", "undoSave"}
  <2>1. CASE Return(p)
    BY <2>1, EndsReturn DEF Ends
  <2>2. CASE Goto(p, "undoSave")
    BY <2>2, AttemptSteps, PassesGoto DEF Passes, Beginning
  <2> QED BY <2>1, <2>2 DEF BeginUndo, UndoSave, FailUndo, DeleteUndo, DropUndo, Leave
<1>7. op'[p].at \notin Markers
  BY <1>6 DEF Markers, Writing, Aborting
<1> QED BY <1>1, <1>2, <1>4, <1>5, <1>7, MarkQuiet

LEMMA CommitMarks ==
    ASSUME KInv, Controlled, Marking, NEW p \in Procs,
           Commit(p) \/ CommitSave(p) \/ CommitUndo(p)
    PROVE  Marking'
<1>1. PICK o \in Ops : o = op[p]
  BY OpOf
<1>2. /\ o.at \in {"commit", "commitSave", "commitUndo"} /\ o.at # "idle" /\ o.at \in Reserving
      /\ mode' = mode /\ disk' \in {disk, mem} /\ MemMarked(o) /\ DiskMarked(o)
  BY <1>1 DEF Commit, CommitSave, CommitUndo, SaveThen, Save, SaveFails, Reserving, Begun, Marking
<1>3. Touches(p)
  BY <1>1, <1>2, TouchesSet DEF Commit, CommitSave, CommitUndo
<1>4. OthersSame(p)
  BY CommitControl DEF Controlled
<1>5. CASE Copies(p, "commitSave") /\ UNCHANGED disk /\ o.at = "commit"
  <2>1. PICK r : op'[p] = r /\ r.at = "commitSave" /\ SameAttempt(o, r)
    BY <1>1, <1>5, AttemptSteps, PassesCopying DEF Passes, SameRequest, Begun
  <2>2. MemMarked(r)' /\ DiskMarked(r)'
    BY <1>2, <1>5, <2>1 DEF MemMarked, DiskMarked, Marked, SameAttempt, Writing, Aborting
  <2> QED BY <1>1, <1>2, <1>3, <1>4, <2>1, <2>2, MarkCore
<1>6. CASE GivesUp(p, "abortPoints") /\ UNCHANGED <<disk, mem>> /\ o.at = "commit"
  <2>1. PICK r : op'[p] = r /\ r.at = "abortPoints" /\ SameAttempt(o, r)
    BY <1>1, <1>6, AttemptSteps, PassesBack DEF Passes, SameRequest, Begun
  <2>2. MemMarked(r)' /\ DiskMarked(r)'
    BY <1>2, <1>6, <2>1 DEF MemMarked, DiskMarked, Marked, SameAttempt, Writing, Aborting
  <2> QED BY <1>1, <1>2, <1>3, <1>4, <2>1, <2>2, MarkCore
<1>7. CASE Drops(p, "retirePoints")
  <2>1. op'[p].at = "retirePoints"
    BY <1>7, AttemptSteps, PassesSaved DEF Passes, Retiring
  <2>2. "retirePoints" \notin Markers
    BY DEF Markers, Writing, Aborting
  <2> QED BY <1>1, <1>2, <1>3, <1>4, <2>1, <2>2, MarkQuiet
<1>8. CASE Goto(p, "commitUndo") /\ SaveFails /\ o.at = "commitSave"
  <2>1. PICK r : op'[p] = r /\ r.at = "commitUndo" /\ SameAttempt(o, r)
    BY <1>1, <1>8, AttemptSteps, PassesGoto DEF Passes, SameRequest, Begun
  <2>2. mode = "faultySaves" /\ disk' = disk
    BY <1>8 DEF SaveFails, Faulty, KInv, KTypes
  <2>3. MemMarked(r)' /\ DiskMarked(r)'
    BY <1>2, <1>8, <2>1, <2>2 DEF MemMarked, DiskMarked, Marked, SameAttempt, Writing, Aborting
  <2> QED BY <1>1, <1>2, <1>3, <1>4, <2>1, <2>3, MarkCore
<1>9. CASE GivesUp(p, "abortPoints") /\ UNCHANGED disk /\ o.at = "commitUndo"
  <2>1. PICK r : op'[p] = r /\ r.at = "abortPoints" /\ SameAttempt(o, r)
    BY <1>1, <1>9, AttemptSteps, PassesBack DEF Passes, SameRequest, Begun
  <2>2. mode = "faultySaves"
    BY <1>1, <1>9, UndoAlone DEF Undoing
  <2>3. MemMarked(r)' /\ DiskMarked(r)'
    BY <1>2, <1>9, <2>1, <2>2 DEF MemMarked, DiskMarked, Marked, SameAttempt, Writing, Aborting
  <2> QED BY <1>1, <1>2, <1>3, <1>4, <2>1, <2>3, MarkCore
<1> QED BY <1>1, <1>5, <1>6, <1>7, <1>8, <1>9 DEF Commit, CommitSave, CommitUndo, SaveThen, Copies,
        GivesUp, Drops

LEMMA BeginSaveMarks ==
    ASSUME KInv, Controlled, Marking, NEW p \in Procs, BeginSave(p) PROVE Marking'
<1>1. PICK o \in Ops : o = op[p]
  BY OpOf
<1>2. /\ o.at = "beginSave" /\ o.at # "idle" /\ o.at \in Reserving /\ UNCHANGED <<mode, mem>>
      /\ disk' \in {disk, mem} /\ MemMarked(o)
  BY <1>1 DEF BeginSave, SaveThen, Save, SaveFails, Reserving, Marking
<1>3. Touches(p) /\ OthersSame(p)
  BY <1>1, <1>2, TouchesSet, BeginSaveControl DEF Controlled
<1>4. CASE Drops(p, "work") /\ Save
  <2>1. PICK r : op'[p] = r /\ r.at = "work" /\ SameAttempt(o, r)
    BY <1>1, <1>4, AttemptSteps, PassesSaved DEF Passes, SameRequest, Begun
  <2>2. disk' = mem /\ mem' = mem
    BY <1>2, <1>4 DEF Save
  <2>3. MemMarked(r)' /\ DiskMarked(r)'
    BY <1>2, <2>1, <2>2 DEF MemMarked, DiskMarked, Marked, SameAttempt, Writing, Aborting
  <2> QED BY <1>1, <1>2, <1>3, <2>1, <2>3, MarkCore
<1>5. CASE Goto(p, "beginUndo")
  <2>1. op'[p].at = "beginUndo"
    BY <1>5, AttemptSteps, PassesGoto DEF Passes, Beginning
  <2>2. "beginUndo" \notin Markers
    BY DEF Markers, Writing, Aborting
  <2> QED BY <1>1, <1>2, <1>3, <2>1, <2>2, MarkQuiet
<1> QED BY <1>4, <1>5 DEF BeginSave, SaveThen, Drops

LEMMA ReserveMarks ==
    ASSUME KInv, Controlled, Marking, NEW p \in Procs, Reserve(p) PROVE Marking'
<1>1. op[p].at # "idle" /\ UNCHANGED <<mode, mem, disk>> /\ Touches(p)
  BY DEF Reserve, Touches
<1>2. OthersSame(p) /\ op'[p].at \in {"idle", "reserved", "deletePoints"}
  BY ReserveIs
<1>3. op'[p].at \notin Markers
  BY <1>2 DEF Markers, Writing, Aborting
<1> QED BY <1>1, <1>2, <1>3, MarkQuiet

LEMMA BeginMarks ==
    ASSUME KInv, Controlled, Marking, NEW p \in Procs, Begin(p) PROVE Marking'
<1>1. PICK o \in Ops : o = op[p]
  BY OpOf
<1>2. o.at = "reserved" /\ o.at # "idle" /\ o.at \in Reserving /\ UNCHANGED <<mode, disk>>
  BY <1>1 DEF Begin, Reserving
<1>3. OthersSame(p)
  BY BeginIs
<1>4. CASE Return(p) /\ UNCHANGED mem
  <2>1. op'[p].at = "idle" /\ "idle" \notin Markers /\ Touches(p)
    BY <1>2, <1>4, EndsReturn DEF Ends, Markers, Writing, Aborting, Touches
  <2> QED BY <1>1, <1>2, <1>3, <2>1, MarkQuiet
<1>5. CASE \E r : BeginsOn(p, Current(p), r)
  <2>1. PICK r : BeginsOn(p, Current(p), r)
    BY <1>5
  <2>2. \E s : s.marker = o.fence /\ SetCurrent(p, s)
    <3>1. PICK cur \in DocRecs : cur = Current(p)
      BY <1>1, <1>2, Found
    <3>2. [cur EXCEPT !.marker = o.fence].marker = o.fence
      BY DEF DocRecs
    <3>3. [fence |-> o.prev, marker |-> o.fence, status |-> "processing", run |-> 0].marker = o.fence
      OBVIOUS
    <3> QED BY <1>1, <2>1, <3>1, <3>2, <3>3 DEF BeginsOn
  <2>3. PICK s : s.marker = o.fence /\ SetCurrent(p, s)
    BY <2>2
  <2>4. Touches(p) /\ Puts(p, s)
    BY <1>1, <1>2, <2>3, TouchesSet, PutsSet
  <2>5. mem'.doc[o.kb][o.doc].marker = o.fence
    BY <1>1, <2>3, <2>4, OpFields DEF Puts
  <2>6. MemMarked(r)' /\ DiskMarked(r)' /\ op'[p] = r
    BY <1>1, <2>1, <2>5 DEF BeginsOn, SameIds, MemMarked, DiskMarked, Marked, Writing, Aborting
  <2> QED BY <1>1, <1>2, <1>3, <2>4, <2>6, MarkCore
<1> QED BY <1>3, <1>4, <1>5, BeginIs

LEMMA WithoutTakes ==
    ASSUME KInv, NEW k \in KBs, mem' = Without(mem, k)
    PROVE  /\ mem'.kbs = mem.kbs \ {k}
           /\ \A j \in KBs, d \in Docs : mem'.doc[j][d] = IF j = k THEN NoDoc ELSE mem.doc[j][d]
<1>1. mem.doc \in [KBs -> [Docs -> DocRecs]]
  BY StateFields DEF KInv, KTypes
<1> QED BY <1>1 DEF Without, NoDocs

LEMMA StartMarks ==
    ASSUME KInv, Controlled, Marking, NEW p \in Procs,
           \/ \E k \in KBs, d \in Docs : StartIndex(p, k, d) \/ StartOnDocument(p, k, d)
           \/ \E k \in KBs : CreateKB(p, k) \/ DropKB(p, k)
    PROVE  Marking'
<1>1. /\ UNCHANGED <<mode, disk>> /\ CanStart(p)
      /\ \E kind, k, d, snap, at :
             at \in {"reserve", "createSave", "dropSave"} /\ Start(p, kind, k, d, at, snap)
  BY DEF StartIndex, StartOnDocument, CreateKB, DropKB
<1>2. OthersSame(p) /\ op'[p].at \in {"reserve", "createSave", "dropSave"}
  BY <1>1, StartIs
<1>3. op'[p].at \notin Markers
  BY <1>2 DEF Markers, Writing, Aborting
<1>4. \/ mem'.doc = mem.doc
      \/ \E k \in KBs : mem' = Without(mem, k)
  <2>1. mem = [kbs |-> mem.kbs, doc |-> mem.doc]
    BY DEF KInv, KTypes, States
  <2> QED BY <2>1 DEF StartIndex, StartOnDocument, CreateKB, DropKB
<1>5. Touches(p)
  BY <1>1, <1>4, WithoutTakes DEF Touches
<1> QED BY <1>1, <1>2, <1>3, <1>5, MarkQuiet

LEMMA CreateMarks ==
    ASSUME KInv, Controlled, Marking, NEW p \in Procs,
           \/ CreateSave(p) \/ CreateCollection(p) \/ CreateUndo(p)
           \/ DropSave(p) \/ DropCollection(p) \/ DropContent(p)
    PROVE  Marking'
<1>1. op[p].at # "idle" /\ mode' = mode /\ disk' \in {disk, mem}
  BY DEF CreateSave, CreateCollection, CreateUndo, DropSave, DropCollection, DropContent, SaveThen,
     Save, SaveFails
<1>2. mem' = mem \/ mem' = Without(mem, op[p].kb)
  BY DEF CreateSave, CreateCollection, CreateUndo, DropSave, DropCollection, DropContent
<1>3. Touches(p)
  BY <1>1, <1>2, WithoutTakes, OpOf, OpFields DEF Touches
<1>4. OthersSame(p)
  BY CreateControl DEF Controlled
<1>5. op'[p].at \in {"idle", "createUndo", "dropCollection", "dropUndo", "dropContent",
                     "createCollection"}
  <2>1. {"createUndo", "dropCollection", "dropUndo", "dropContent", "createCollection"} \subseteq Steps
    BY DEF Steps
  <2>2. CASE Return(p)
    BY <2>2, EndsReturn DEF Ends
  <2>3. CASE \E at \in {"createUndo", "dropCollection", "dropUndo", "dropContent"} : Goto(p, at)
    BY <2>1, <2>3, PassesGoto DEF Passes
  <2>4. CASE Drops(p, "createCollection")
    BY <2>1, <2>4, PassesSaved DEF Passes
  <2> QED BY <2>2, <2>3, <2>4 DEF CreateSave, CreateCollection, CreateUndo, DropSave,
          DropCollection, DropContent, SaveThen, Drops
<1>6. op'[p].at \notin Markers
  BY <1>5 DEF Markers, Writing, Aborting
<1> QED BY <1>1, <1>3, <1>4, <1>6, MarkQuiet

LEMMA CancelMarks ==
    ASSUME KInv, Marking, NEW p \in Procs, Cancel(p) PROVE Marking'
<1>1. UNCHANGED <<mode, mem, disk>>
  BY DEF Cancel
<1>2. PICK r : op'[p] = r /\ r.at = op[p].at /\ SameAttempt(op[p], r)
  BY CancelPasses DEF Passes, SameRequest
<1>3. OthersSame(p)
  BY CancelPasses DEF Passes
<1>4. ASSUME NEW q \in Procs PROVE MemMarked(op[q])' /\ DiskMarked(op[q])'
  <2>1. MemMarked(op[q]) /\ DiskMarked(op[q])
    BY DEF Marking
  <2> QED BY <1>1, <1>2, <1>3, <2>1 DEF OthersSame, SameAttempt, MemMarked, DiskMarked, Marked
<1> QED BY <1>4 DEF Marking

LEMMA NextMarks ==
    ASSUME KInv, Controlled, Marking, [Next]_vars PROVE Marking'
<1>1. CASE \E p \in Procs : Step(p)
  BY <1>1, WorkMarks, PassedMarks, UndoMarks, CommitMarks, BeginSaveMarks, ReserveMarks, BeginMarks,
     StartMarks, CreateMarks, CancelMarks DEF Step
<1>2. CASE OtherSave
  <2>1. mode = "overlap" /\ UNCHANGED <<mode, mem, op>> /\ disk' = mem
    BY <1>2 DEF OtherSave, Overlaps, Save, KInv, KTypes
  <2>2. ASSUME NEW q \in Procs PROVE MemMarked(op[q])' /\ DiskMarked(op[q])'
    <3>1. op[q].at # "commitUndo"
      BY <2>1 DEF KInv, OpSound, Undoing
    <3> QED BY <2>1, <3>1 DEF Marking, MemMarked, DiskMarked, Marked
  <2> QED BY <2>2 DEF Marking
<1>3. CASE UNCHANGED vars
  BY <1>3 DEF vars, Marking, MemMarked, DiskMarked, Marked
<1>4. CASE CrashRestart
  <2>1. op' = [q \in Procs |-> Idle] /\ Idle.at = "idle"
    BY <1>4 DEF CrashRestart, Idle
  <2>2. "idle" \notin Writing \cup Aborting
    BY DEF Writing, Aborting
  <2> QED BY <2>1, <2>2 DEF Marking, MemMarked, DiskMarked
<1> QED BY <1>1, <1>2, <1>3, <1>4 DEF Next, Rest

LEMMA InitMarks == ASSUME Init PROVE Marking
<1>1. op = [q \in Procs |-> Idle] /\ Idle.at = "idle" /\ "idle" \notin Writing \cup Aborting
  BY DEF Init, Idle, Writing, Aborting
<1> QED BY <1>1 DEF Marking, MemMarked, DiskMarked
-----------------------------------------------------------------------------
(* What memory names the file names *)

Names(r, f) == r.status # "none" /\ f \in {r.fence, r.marker}
InFile(k, d, f) == f = 0 \/ Names(disk.doc[k][d], f)
RecordSaved(k, d, r) == r.status # "none" => InFile(k, d, r.fence) /\ InFile(k, d, r.marker)
\* A marker that no save has reached yet.
AboutToSave(k, d, f) ==
    \E p \in Procs : /\ op[p].at \in {"beginSave", "beginUndo"}
                     /\ op[p].kb = k /\ op[p].doc = d /\ op[p].fence = f
DocSaved(k, d, r) ==
    r.status # "none" =>
        InFile(k, d, r.fence) /\ (InFile(k, d, r.marker) \/ AboutToSave(k, d, r.marker))
MemSaved == \A k \in KBs, d \in Docs : DocSaved(k, d, mem.doc[k][d])

\* Where saves may fail: the copy, and what the change made of it.
CopySaved(o) == o.at \in Remembering => \A d \in Docs : RecordSaved(o.kb, d, o.snap[d])
BeginCopy(o) ==
    o.at \in {"beginSave", "beginUndo"} =>
        IF o.new THEN mem.doc[o.kb][o.doc].fence = 0
        ELSE o.snap[o.doc].status # "none" /\ o.snap[o.doc].fence = mem.doc[o.kb][o.doc].fence
CommitCopy(o) ==
    o.at \in Committing =>
        /\ mem.doc[o.kb][o.doc].status # "none"
        /\ o.snap[o.doc].status # "none" /\ o.snap[o.doc].fence = o.prev
FailCopy(o) ==
    o.at \in {"failSave", "failUndo"} =>
        /\ o.snap[o.doc].status # "none" /\ o.snap[o.doc].fence = mem.doc[o.kb][o.doc].fence
        /\ mem.doc[o.kb][o.doc].marker = 0
        /\ o.new => o.snap[o.doc].fence = 0
DeleteCopy(o) ==
    o.at \in {"deleteSave", "deleteUndo"} =>
        \A d \in Docs : d # o.doc => mem.doc[o.kb][d] = o.snap[d]
Copied(o) ==
    mode = "faultySaves" =>
        CopySaved(o) /\ BeginCopy(o) /\ CommitCopy(o) /\ FailCopy(o) /\ DeleteCopy(o)
Filed == MemSaved /\ \A p \in Procs : Copied(op[p])
-----------------------------------------------------------------------------
(* Who still knows a generation *)

Failing == {"fail", "failSave", "failUndo"}
\* A request that will remove these points, or names them in its copy.
KeepsPoints(o, g) ==
    /\ g[1] = o.kb
    /\ \/ o.at \in Dropping \ {"dropContent"} /\ Names(o.snap[g[2]], g[3])
       \/ /\ g[2] = o.doc
          /\ \/ /\ g[3] = o.superseded /\ o.at \in After \ {"retireContent"}
                /\ o.at \in Failing \cup {"abortContent"} => o.receipt # "points"
             \/ g[3] = o.prev /\ o.at \in Committing \cup {"retirePoints"}
             \/ /\ g[3] = o.fence
                /\ \/ o.at \in {"capture", "commit", "commitUndo"}
                   \/ o.at = "abortPoints" /\ o.receipt = "points"
KeepsContents(o, g) ==
    /\ g[1] = o.kb
    /\ \/ o.at \in Dropping /\ Names(o.snap[g[2]], g[3])
       \/ /\ g[2] = o.doc
          /\ \/ o.at \in {"deleteSave", "deleteUndo"} /\ Names(o.snap[g[2]], g[3])
             \/ o.at = "deleteContent"
             \/ /\ g[3] = o.superseded /\ o.at \in After
                /\ o.at \in Failing => o.receipt # "points"
             \/ g[3] = o.prev /\ o.at \in Promoted
             \/ g[3] = o.fence /\ o.at \in {"commit", "abortPoints", "abortContent", "commitUndo"}
InMem(g) == Names(mem.doc[g[1]][g[2]], g[3])
PointsKept == \A g \in points \ leaked : InMem(g) \/ \E p \in Procs : KeepsPoints(op[p], g)
ContentsKept == \A g \in contents \ leaked : InMem(g) \/ \E p \in Procs : KeepsContents(op[p], g)
-----------------------------------------------------------------------------
(* What memory names the file names: the parts *)

Unsaved == {"beginSave", "beginUndo"}
LEMMA RememberingSteps ==
    /\ Unsaved \subseteq Remembering /\ Committing \subseteq Remembering
    /\ {"failSave", "failUndo", "deleteSave", "deleteUndo"} \subseteq Remembering
    /\ "idle" \notin Remembering /\ "idle" \notin Unsaved
BY DEF Unsaved, Remembering, Committing

LEMMA CopiedIs ==
    ASSUME NEW q \in Procs, NEW r, op'[q] = r, Copied(r)' PROVE Copied(op[q])'
BY DEF Copied, CopySaved, BeginCopy, CommitCopy, FailCopy, DeleteCopy, RecordSaved, InFile

LEMMA Uncopied == ASSUME NEW r, r.at \notin Remembering PROVE Copied(r)'
BY RememberingSteps DEF Copied, CopySaved, BeginCopy, CommitCopy, FailCopy, DeleteCopy, Unsaved

\* Where requests overlap no undo puts a copy back; where saves may fail the
\* others are idle.
LEMMA FiledCore ==
    ASSUME KInv, Filed, NEW p \in Procs, op[p].at # "idle" \/ CanStart(p), OthersSame(p),
           mode' = mode, MemSaved', NEW r, op'[p] = r, mode = "faultySaves" => Copied(r)'
    PROVE  Filed'
<1>1. ASSUME NEW q \in Procs PROVE Copied(op[q])'
  <2>1. CASE mode # "faultySaves"
    BY <2>1 DEF Copied
  <2>2. CASE q = p /\ mode = "faultySaves"
    BY <2>2, CopiedIs
  <2>3. CASE q # p /\ mode = "faultySaves"
    <3>1. op'[q].at = "idle"
      BY <2>3, SoloAt DEF Solo, OthersSame
    <3> QED BY <3>1, Uncopied, CopiedIs, RememberingSteps
  <2> QED BY <2>1, <2>2, <2>3
<1> QED BY <1>1 DEF Filed

LEMMA SavedAll == ASSUME disk'.doc = mem'.doc PROVE MemSaved'
BY DEF MemSaved, DocSaved, InFile, Names

\* A step that does not save.
LEMMA SavedStep ==
    ASSUME KInv, MemSaved, NEW p \in Procs, NEW o, o = op[p], OthersSame(p), disk' = disk,
           \A k \in KBs, d \in Docs :
               mem'.doc[k][d] = mem.doc[k][d] \/ DocSaved(k, d, mem.doc[k][d])',
           \/ o.at \notin Unsaved
           \/ DocSaved(o.kb, o.doc, mem.doc[o.kb][o.doc])'
           \/ /\ op'[p].at \in Unsaved /\ op'[p].kb = o.kb /\ op'[p].doc = o.doc
              /\ op'[p].fence = o.fence
    PROVE  MemSaved'
<1>1. ASSUME NEW k \in KBs, NEW d \in Docs PROVE DocSaved(k, d, mem.doc[k][d])'
  <2>1. CASE mem'.doc[k][d] = mem.doc[k][d]
    <3>1. PICK r : r = mem.doc[k][d]
      OBVIOUS
    <3>2. DocSaved(k, d, r)
      BY <3>1 DEF MemSaved
    <3>3. CASE r.status # "none" /\ AboutToSave(k, d, r.marker)
      <4>1. PICK q \in Procs : /\ op[q].at \in Unsaved /\ op[q].kb = k /\ op[q].doc = d
                               /\ op[q].fence = r.marker
        BY <3>3 DEF AboutToSave, Unsaved
      <4>2. CASE /\ op'[q].at \in Unsaved /\ op'[q].kb = k /\ op'[q].doc = d
                 /\ op'[q].fence = r.marker
        <5>1. AboutToSave(k, d, r.marker)'
          BY <4>2 DEF AboutToSave, Unsaved
        <5> QED BY <2>1, <3>1, <3>2, <5>1 DEF DocSaved, InFile
      <4>3. CASE q # p
        BY <4>1, <4>2, <4>3 DEF OthersSame
      <4>4. CASE q = p
        BY <4>1, <4>2, <4>4
      <4> QED BY <4>3, <4>4
    <3>4. CASE ~(r.status # "none" /\ AboutToSave(k, d, r.marker))
      BY <2>1, <3>1, <3>2, <3>4 DEF DocSaved, InFile
    <3> QED BY <3>3, <3>4
  <2> QED BY <2>1
<1> QED BY <1>1 DEF MemSaved

LEMMA FiledQuiet ==
    ASSUME KInv, Filed, NEW p \in Procs, op[p].at # "idle" \/ CanStart(p), OthersSame(p),
           mode' = mode, mem'.doc = mem.doc,
           disk' = mem \/ (disk' = disk /\ op[p].at \notin Unsaved),
           op'[p].at \notin Remembering
    PROVE  Filed'
<1>1. MemSaved'
  <2>1. CASE disk' = mem
    BY <2>1, SavedAll
  <2>2. CASE disk' = disk /\ op[p].at \notin Unsaved
    BY <2>2, SavedStep DEF Filed
  <2> QED BY <2>1, <2>2
<1>2. PICK r : r = op'[p]
  OBVIOUS
<1>3. Copied(r)'
  BY <1>2, Uncopied
<1> QED BY <1>1, <1>2, <1>3, FiledCore

\* Where a step that only keeps its request leads.
LEMMA Leading ==
    ASSUME KInv, NEW p \in Procs, NEW at \in Steps \cup {"idle"},
           \/ Goto(p, at) \/ GivesUp(p, at) \/ Drops(p, at)
           \/ \E receipt \in {"fences", "points"} : Lists(p, at, receipt)
           \/ at = "idle" /\ Return(p)
           \/ at = "idle" /\ \E left : Leave(p, left)
    PROVE  OthersSame(p) /\ op'[p].at = at
<1>1. "idle" \in Steps
  BY DEF Steps
<1>2. CASE Goto(p, at)
  BY <1>1, <1>2, PassesGoto DEF Passes
<1>3. CASE GivesUp(p, at)
  BY <1>1, <1>3, PassesBack DEF Passes
<1>4. CASE Drops(p, at)
  BY <1>1, <1>4, PassesSaved DEF Passes
<1>5. CASE \E receipt \in {"fences", "points"} : Lists(p, at, receipt)
  BY <1>1, <1>5, PassesListing
<1>6. CASE at = "idle" /\ (Return(p) \/ \E left : Leave(p, left))
  BY <1>6, EndsReturn, EndsLeave DEF Ends
<1> QED BY <1>2, <1>3, <1>4, <1>5, <1>6

\* The steps with nothing to put back.
Rested == {"idle", "collect", "scroll", "upsert", "capture", "commit", "abortPoints", "abortContent",
           "fail", "work", "undoSave", "retirePoints", "retireContent", "deletePoints",
           "deleteRemove", "deleteContent", "reserved", "dropCollection", "dropContent",
           "createCollection", "createUndo"}
LEMMA RestedSteps == Rested \subseteq Steps /\ Rested \cap Remembering = {}
BY DEF Rested, Steps, Reserving, Begun, Retiring, Remembering

LEMMA FiledRests ==
    ASSUME KInv, Filed, NEW p \in Procs, op[p].at # "idle",
           UNCHANGED <<mode, mem>>,
           disk' = mem \/ (disk' = disk /\ op[p].at \notin Unsaved), NEW at \in Rested,
           \/ Goto(p, at) \/ GivesUp(p, at) \/ Drops(p, at)
           \/ \E receipt \in {"fences", "points"} : Lists(p, at, receipt)
           \/ at = "idle" /\ Return(p)
           \/ at = "idle" /\ \E left : Leave(p, left)
    PROVE  Filed'
BY RestedSteps, Leading, FiledQuiet

LEMMA WorkFiled ==
    ASSUME KInv, Filed, NEW p \in Procs,
           \/ Work(p) \/ EnsureCollection(p) \/ Scroll(p) \/ Upsert(p) \/ Capture(p)
           \/ AbortPoints(p) \/ AbortContent(p) \/ RetirePoints(p) \/ RetireContent(p)
    PROVE  Filed'
<1>1. /\ op[p].at # "idle" /\ op[p].at \notin Unsaved /\ UNCHANGED <<mode, mem, disk>>
  BY DEF Work, EnsureCollection, Scroll, Upsert, Capture, AbortPoints, AbortContent, RetirePoints,
     RetireContent, Unsaved
<1>2. \E at \in Rested :
           \/ Goto(p, at) \/ GivesUp(p, at)
           \/ \E receipt \in {"fences", "points"} : Lists(p, at, receipt)
           \/ at = "idle" /\ Return(p)
           \/ at = "idle" /\ \E left : Leave(p, left)
  <2>1. CASE Work(p)
    BY <2>1 DEF Work, Lists, Rested
  <2>2. CASE EnsureCollection(p)
    BY <2>2 DEF EnsureCollection, Rested
  <2>3. CASE Scroll(p)
    BY <2>3 DEF Scroll, Lists, Rested
  <2>4. CASE Upsert(p) \/ Capture(p)
    BY <2>4 DEF Upsert, Capture, Rested
  <2>5. CASE AbortPoints(p) \/ AbortContent(p)
    BY <2>5 DEF AbortPoints, AbortContent, Rested
  <2>6. CASE RetirePoints(p) \/ RetireContent(p)
    BY <2>6 DEF RetirePoints, RetireContent, Rested
  <2> QED BY <2>1, <2>2, <2>3, <2>4, <2>5, <2>6
<1> QED BY <1>1, <1>2, FiledRests

LEMMA StoreFiled ==
    ASSUME KInv, Filed, NEW p \in Procs,
           \/ DeletePoints(p) \/ DeleteContent(p) \/ DropCollection(p) \/ DropContent(p)
           \/ CreateCollection(p) \/ UndoSave(p)
    PROVE  Filed'
<1>1. /\ op[p].at # "idle" /\ op[p].at \notin Unsaved /\ UNCHANGED <<mode, mem>>
      /\ disk' \in {disk, mem}
  BY DEF DeletePoints, DeleteContent, DropCollection, DropContent, CreateCollection, UndoSave,
     Unsaved, Save, SaveFails
<1>2. \E at \in Rested :
           \/ Goto(p, at)
           \/ at = "idle" /\ Return(p)
           \/ at = "idle" /\ \E left : Leave(p, left)
  BY DEF DeletePoints, DeleteContent, DropCollection, DropContent, CreateCollection, UndoSave, Rested
<1> QED BY <1>1, <1>2, FiledRests

\* A save that fails, or a cancellation: the request keeps what it has.
Holding(o, r) == SameAttempt(o, r) /\ r.snap = o.snap /\ (r.at = o.at \/ <<o.at, r.at>> \in Refused)
LEMMA HoldingFiled ==
    ASSUME KInv, Filed, NEW p \in Procs, OthersSame(p),
           UNCHANGED <<mode, mem, disk>>, NEW r, op'[p] = r, Holding(op[p], r)
    PROVE  Filed'
<1>1. PICK o \in Ops : o = op[p]
  BY OpOf
<1>2. o.at \in Unsaved <=> r.at \in Unsaved
  BY <1>1 DEF Holding, Refused, Unsaved
<1>3. MemSaved'
  BY <1>1, <1>2, SavedStep DEF Filed, Holding, SameAttempt
<1>4. Copied(o)
  BY <1>1 DEF Filed
<1>5. /\ o.at \in Remembering <=> r.at \in Remembering
      /\ o.at \in Committing <=> r.at \in Committing
      /\ o.at \in {"failSave", "failUndo"} <=> r.at \in {"failSave", "failUndo"}
      /\ o.at \in {"deleteSave", "deleteUndo"} <=> r.at \in {"deleteSave", "deleteUndo"}
  BY <1>1 DEF Holding, Refused, Remembering, Committing
<1>6. Copied(r)'
  <2> SUFFICES ASSUME mode = "faultySaves" PROVE Copied(r)'
    BY DEF Copied
  <2>1. CopySaved(r)'
    BY <1>1, <1>4, <1>5 DEF Copied, CopySaved, RecordSaved, InFile, Holding, SameAttempt
  <2>2. BeginCopy(r)'
    BY <1>1, <1>2, <1>4 DEF Copied, BeginCopy, Holding, SameAttempt, Unsaved
  <2>3. CommitCopy(r)' /\ FailCopy(r)' /\ DeleteCopy(r)'
    BY <1>1, <1>4, <1>5 DEF Copied, CommitCopy, FailCopy, DeleteCopy, Holding, SameAttempt
  <2> QED BY <2>1, <2>2, <2>3 DEF Copied
<1>7. ASSUME NEW q \in Procs PROVE Copied(op[q])'
  <2>1. CASE q = p
    BY <1>6, <2>1, CopiedIs
  <2>2. CASE q # p
    <3>1. Copied(op[q]) /\ op'[q] = op[q]
      BY <2>2 DEF Filed, OthersSame
    <3> QED BY <3>1 DEF Copied, CopySaved, RecordSaved, InFile, BeginCopy, CommitCopy, FailCopy,
            DeleteCopy
  <2> QED BY <2>1, <2>2
<1> QED BY <1>3, <1>7 DEF Filed

LEMMA RefusedFiled ==
    ASSUME KInv, Filed, NEW p \in Procs, NEW at, <<op[p].at, at>> \in Refused, SaveFails,
           Goto(p, at), UNCHANGED <<mode, mem>>
    PROVE  Filed'
<1>1. at \in Steps /\ op[p].at # "idle"
  BY RefusedSteps
<1>2. PICK r : op'[p] = r /\ r.at = at /\ r.snap = op[p].snap /\ SameAttempt(op[p], r)
  BY <1>1, PassesGoto DEF Passes, SameRequest
<1>3. OthersSame(p) /\ disk' = disk
  BY <1>1, PassesGoto DEF Passes, SaveFails
<1> QED BY <1>1, <1>2, <1>3, HoldingFiled DEF Holding

LEMMA SaveFiled ==
    ASSUME KInv, Filed, NEW p \in Procs,
           \/ BeginSave(p) \/ CommitSave(p) \/ FailSave(p) \/ DeleteSave(p) \/ DropSave(p)
           \/ CreateSave(p)
    PROVE  Filed'
<1>1. /\ op[p].at # "idle" /\ UNCHANGED <<mode, mem>>
  BY DEF BeginSave, CommitSave, FailSave, DeleteSave, DropSave, CreateSave
<1>2. CASE /\ Save
           /\ \E at \in Rested : \/ Drops(p, at) \/ Goto(p, at)
                                 \/ at = "idle" /\ \E left : Leave(p, left)
  BY <1>1, <1>2, FiledRests DEF Save
<1>3. CASE SaveFails /\ \E at : <<op[p].at, at>> \in Refused /\ Goto(p, at)
  BY <1>1, <1>3, RefusedFiled
<1>4. CASE SaveFails /\ op[p].at = "createSave" /\ Goto(p, "createUndo")
  BY <1>1, <1>4, FiledRests DEF SaveFails, Rested, Unsaved
<1>5. CASE BeginSave(p)
  BY <1>2, <1>3, <1>5 DEF BeginSave, SaveThen, Drops, Rested, Refused
<1>6. CASE CommitSave(p)
  BY <1>2, <1>3, <1>6 DEF CommitSave, SaveThen, Drops, Rested, Refused
<1>7. CASE FailSave(p)
  BY <1>2, <1>3, <1>7 DEF FailSave, Rested, Refused
<1>8. CASE DeleteSave(p)
  BY <1>2, <1>3, <1>8 DEF DeleteSave, SaveThen, Drops, Rested, Refused
<1>9. CASE DropSave(p)
  BY <1>2, <1>3, <1>9 DEF DropSave, Rested, Refused
<1>10. CASE CreateSave(p)
  BY <1>2, <1>4, <1>10 DEF CreateSave, SaveThen, Drops, Rested
<1> QED BY <1>5, <1>6, <1>7, <1>8, <1>9, <1>10

LEMMA CancelFiled ==
    ASSUME KInv, Filed, NEW p \in Procs, Cancel(p) PROVE Filed'
<1>1. PICK r : op'[p] = r /\ Holding(op[p], r)
  BY CancelPasses DEF Passes, SameRequest, Holding
<1> QED BY <1>1, CancelPasses, HoldingFiled DEF Passes, Cancel

\* What is copied where saves may fail is in the file.
LEMMA TakenSaved ==
    ASSUME KInv, Filed, NEW p \in Procs, op[p].at # "idle" \/ CanStart(p), op[p].at \notin Unsaved,
           mode = "faultySaves"
    PROVE  \A k \in KBs, d \in Docs : RecordSaved(k, d, mem.doc[k][d])
<1>1. \A k, d, f : ~AboutToSave(k, d, f)
  BY SoloAt DEF AboutToSave, Solo, Unsaved
<1> QED BY <1>1 DEF Filed, MemSaved, DocSaved, RecordSaved

\* A step that gives its document the record s.
LEMMA FiledOwn ==
    ASSUME KInv, Filed, NEW p \in Procs, NEW o \in Ops, o = op[p], o.at # "idle", OthersSame(p),
           UNCHANGED <<mode, disk>>, NEW s, Puts(p, s), DocSaved(o.kb, o.doc, s)',
           NEW r, op'[p] = r, mode = "faultySaves" => Copied(r)'
    PROVE  Filed'
<1>1. o.kb \in KBs /\ o.doc \in Docs
  BY OpFields
<1>2. /\ mem'.doc[o.kb][o.doc] = s
      /\ \A k \in KBs, d \in Docs : mem'.doc[k][d] = mem.doc[k][d] \/ (k = o.kb /\ d = o.doc)
  BY <1>1 DEF Puts
<1>3. DocSaved(o.kb, o.doc, mem.doc[o.kb][o.doc])'
  BY <1>2 DEF DocSaved
<1>4. MemSaved'
  <2>1. ASSUME NEW k \in KBs, NEW d \in Docs
        PROVE  mem'.doc[k][d] = mem.doc[k][d] \/ DocSaved(k, d, mem.doc[k][d])'
    BY <1>2, <1>3
  <2> QED BY <1>3, <2>1, SavedStep DEF Filed
<1> QED BY <1>4, FiledCore

\* The document of p, when it has one, is in the file but for a marker.
LEMMA FoundSaved ==
    ASSUME KInv, Filed, NEW p \in Procs, NEW o \in Ops, o = op[p], o.at # "idle",
           o.at \notin Unsaved, Has(mem, o.kb, o.doc), NEW cur, cur = Current(p)
    PROVE  /\ InFile(o.kb, o.doc, cur.fence)
           /\ cur.marker = o.fence => InFile(o.kb, o.doc, o.fence)
<1>1. DocSaved(o.kb, o.doc, cur) /\ cur.status # "none"
  BY OpFields DEF Filed, MemSaved, Current, Has
<1>2. ~AboutToSave(o.kb, o.doc, o.fence)
  <2>1. ASSUME NEW q \in Procs, op[q].at \in Unsaved, op[q].fence = o.fence PROVE q = p
    BY <2>1, RememberingSteps DEF KInv, Apart
  <2> QED BY <2>1 DEF AboutToSave, Unsaved
<1> QED BY <1>1, <1>2 DEF DocSaved

LEMMA CommitFiled ==
    ASSUME KInv, Controlled, Filed, NEW p \in Procs, Commit(p) PROVE Filed'
<1>1. PICK o \in Ops : o = op[p]
  BY OpOf
<1>2. o.at = "commit" /\ o.at # "idle" /\ o.at \notin Unsaved /\ UNCHANGED <<mode, disk>>
  BY <1>1 DEF Commit, Unsaved
<1>3. CASE GivesUp(p, "abortPoints") /\ UNCHANGED mem
  BY <1>1, <1>2, <1>3, FiledRests DEF Rested
<1>4. CASE Active(p) /\ Copies(p, "commitSave")
  <2> DEFINE s == [fence |-> o.fence, marker |-> 0, status |-> "indexed", run |-> o.fence]
  <2>1. Puts(p, s)
    BY <1>1, <1>2, <1>4, PutsSet DEF Commit
  <2>2. PICK cur : cur = Current(p)
    OBVIOUS
  <2>3. /\ Has(mem, o.kb, o.doc) /\ cur.fence = o.prev /\ cur.marker = o.fence
        /\ cur = mem.doc[o.kb][o.doc]
    BY <1>1, <1>4, <2>2 DEF Active, Current
  <2>4. InFile(o.kb, o.doc, o.fence)
    BY <1>1, <1>2, <2>2, <2>3, FoundSaved
  <2>5. DocSaved(o.kb, o.doc, s)'
    BY <1>2, <2>4 DEF DocSaved, InFile
  <2>6. PICK r : op'[p] = r /\ r.at = "commitSave" /\ SameAttempt(o, r) /\ r.snap = mem.doc[o.kb]
    BY <1>1, <1>4, AttemptSteps, PassesCopying DEF Passes, SameRequest, Begun
  <2>7. o.kb \in KBs /\ o.doc \in Docs
    BY OpFields
  <2>8. ASSUME mode = "faultySaves" PROVE Copied(r)'
    <3>1. CopySaved(r)'
      BY <1>1, <1>2, <2>6, <2>7, <2>8, TakenSaved DEF CopySaved, RecordSaved, InFile, SameAttempt
    <3>2. CommitCopy(r)'
      <4>1. mem'.doc[o.kb][o.doc].status # "none"
        BY <1>1, <2>1, <2>7 DEF Puts
      <4> QED BY <2>3, <2>6, <4>1 DEF CommitCopy, SameAttempt, Has
    <3>3. BeginCopy(r)' /\ FailCopy(r)' /\ DeleteCopy(r)'
      BY <2>6 DEF BeginCopy, FailCopy, DeleteCopy
    <3> QED BY <3>1, <3>2, <3>3 DEF Copied
  <2>9. OthersSame(p)
    BY CommitControl DEF Controlled
  <2> HIDE DEF s
  <2> QED BY <1>1, <1>2, <2>1, <2>5, <2>6, <2>8, <2>9, FiledOwn
<1> QED BY <1>3, <1>4 DEF Commit, GivesUp, Copies

LEMMA FailFiled ==
    ASSUME KInv, Controlled, Filed, NEW p \in Procs, Fail(p) PROVE Filed'
<1>1. PICK o \in Ops : o = op[p]
  BY OpOf
<1>2. o.at = "fail" /\ o.at # "idle" /\ o.at \notin Unsaved /\ UNCHANGED <<mode, disk>> /\ Control(o)
  BY <1>1 DEF Fail, Unsaved, Controlled
<1>3. CASE Leave(p, {}) /\ UNCHANGED mem
  BY <1>1, <1>2, <1>3, FiledRests DEF Rested
<1>4. CASE Active(p) /\ Copies(p, "failSave")
  <2>1. PICK cur \in DocRecs : cur = Current(p)
    BY <1>1, <1>2, Found
  <2> DEFINE s == [cur EXCEPT !.status = "failed", !.marker = 0, !.run = o.fence]
  <2>2. s.status = "failed" /\ s.marker = 0 /\ s.fence = cur.fence
    BY DEF DocRecs
  <2>3. Puts(p, s)
    BY <1>1, <1>2, <1>4, <2>1, PutsSet DEF Fail, Copies, Leave
  <2> HIDE DEF s
  <2>4. /\ Has(mem, o.kb, o.doc) /\ cur.fence = o.prev /\ cur.marker = o.fence
        /\ cur = mem.doc[o.kb][o.doc]
    BY <1>1, <1>4, <2>1 DEF Active, Current
  <2>5. InFile(o.kb, o.doc, cur.fence)
    BY <1>1, <1>2, <2>1, <2>4, FoundSaved
  <2>6. DocSaved(o.kb, o.doc, s)'
    BY <1>2, <2>2, <2>5 DEF DocSaved, InFile
  <2>7. PICK r : op'[p] = r /\ r.at = "failSave" /\ SameAttempt(o, r) /\ r.snap = mem.doc[o.kb]
    BY <1>1, <1>4, AttemptSteps, PassesCopying DEF Passes, SameRequest, Begun
  <2>8. o.kb \in KBs /\ o.doc \in Docs
    BY OpFields
  <2>9. ASSUME mode = "faultySaves" PROVE Copied(r)'
    <3>1. CopySaved(r)'
      BY <1>1, <1>2, <2>7, <2>8, <2>9, TakenSaved DEF CopySaved, RecordSaved, InFile, SameAttempt
    <3>2. FailCopy(r)'
      <4>1. mem'.doc[o.kb][o.doc] = s
        BY <1>1, <2>3, <2>8 DEF Puts
      <4>2. o.new => cur.fence = 0
        BY <1>2, <2>4 DEF Control
      <4> QED BY <2>2, <2>4, <2>7, <4>1, <4>2 DEF FailCopy, SameAttempt, Has
    <3>3. BeginCopy(r)' /\ CommitCopy(r)' /\ DeleteCopy(r)'
      BY <2>7 DEF BeginCopy, CommitCopy, DeleteCopy, Committing
    <3> QED BY <3>1, <3>2, <3>3 DEF Copied
  <2>10. OthersSame(p)
    BY CommitControl DEF Controlled
  <2> QED BY <1>1, <1>2, <2>3, <2>6, <2>7, <2>9, <2>10, FiledOwn
<1> QED BY <1>3, <1>4 DEF Fail, Copies

LEMMA RemoveFiled ==
    ASSUME KInv, Controlled, Filed, NEW p \in Procs, DeleteRemove(p) PROVE Filed'
<1>1. PICK o \in Ops : o = op[p]
  BY OpOf
<1>2. /\ o.at = "deleteRemove" /\ o.at # "idle" /\ o.at \notin Unsaved /\ UNCHANGED <<mode, disk>>
  BY <1>1 DEF DeleteRemove, Unsaved
<1>3. CASE Return(p) /\ UNCHANGED mem
  BY <1>1, <1>2, <1>3, FiledRests DEF Rested
<1>4. CASE SetCurrent(p, NoDoc) /\ Copies(p, "deleteSave")
  <2>1. Puts(p, NoDoc)
    BY <1>4, PutsSet
  <2>2. DocSaved(o.kb, o.doc, NoDoc)'
    BY Nothing DEF DocSaved
  <2>3. PICK r : op'[p] = r /\ r.at = "deleteSave" /\ SameAttempt(o, r) /\ r.snap = mem.doc[o.kb]
    BY <1>1, <1>4, AttemptSteps, PassesCopying DEF Passes, SameRequest, Removing
  <2>4. o.kb \in KBs /\ o.doc \in Docs
    BY OpFields
  <2>5. ASSUME mode = "faultySaves" PROVE Copied(r)'
    <3>1. CopySaved(r)'
      BY <1>1, <1>2, <2>3, <2>4, <2>5, TakenSaved DEF CopySaved, RecordSaved, InFile, SameAttempt
    <3>2. DeleteCopy(r)'
      BY <1>1, <2>1, <2>3, <2>4 DEF DeleteCopy, SameAttempt, Puts
    <3>3. BeginCopy(r)' /\ CommitCopy(r)' /\ FailCopy(r)'
      BY <2>3 DEF BeginCopy, CommitCopy, FailCopy, Committing
    <3> QED BY <3>1, <3>2, <3>3 DEF Copied
  <2>6. OthersSame(p)
    BY DeleteControl DEF Controlled
  <2> QED BY <1>1, <1>2, <2>1, <2>2, <2>3, <2>5, <2>6, FiledOwn
<1> QED BY <1>3, <1>4 DEF DeleteRemove, Copies

LEMMA BeginFiled ==
    ASSUME KInv, Controlled, Filed, NEW p \in Procs, Begin(p) PROVE Filed'
<1>1. PICK o \in Ops : o = op[p]
  BY OpOf
<1>2. /\ o.at = "reserved" /\ o.at # "idle" /\ o.at \notin Unsaved /\ UNCHANGED <<mode, disk>>
      /\ Control(o)
  BY <1>1 DEF Begin, Unsaved, Controlled
<1>3. OthersSame(p)
  BY BeginIs
<1>4. CASE Return(p) /\ UNCHANGED mem
  BY <1>1, <1>2, <1>4, FiledRests DEF Rested
<1>5. CASE \E r : BeginsOn(p, Current(p), r)
  <2>1. PICK r : BeginsOn(p, Current(p), r)
    BY <1>5
  <2>2. PICK cur \in DocRecs : cur = Current(p)
    BY <1>1, <1>2, Found
  <2>3. /\ op'[p] = r /\ SameIds(o, r) /\ r.at = "beginSave" /\ r.snap = mem.doc[o.kb]
    BY <1>1, <2>1 DEF BeginsOn
  <2>4. o.kb \in KBs /\ o.doc \in Docs /\ cur = mem.doc[o.kb][o.doc]
    BY <1>1, <2>2, OpFields DEF Current
  <2>5. ~o.new
    BY <1>2 DEF Control, Waiting
  <2>6. \E s : /\ Puts(p, s) /\ s.marker = o.fence /\ s.fence = o.prev
               /\ \/ Has(mem, o.kb, o.doc) /\ cur.fence = s.fence /\ ~r.new
                  \/ s.fence = 0 /\ r.new
    <3>1. CASE Has(mem, o.kb, o.doc)
      <4>1. /\ SetCurrent(p, [cur EXCEPT !.marker = o.fence]) /\ cur.fence = o.prev /\ r.new = o.new
        BY <1>1, <2>1, <2>2, <3>1 DEF BeginsOn
      <4>2. Puts(p, [cur EXCEPT !.marker = o.fence])
        BY <4>1, PutsSet
      <4>3. [cur EXCEPT !.marker = o.fence].marker = o.fence /\ [cur EXCEPT !.marker = o.fence].fence = cur.fence
        BY DEF DocRecs
      <4> QED BY <2>5, <3>1, <4>1, <4>2, <4>3
    <3>2. CASE ~Has(mem, o.kb, o.doc)
      <4> DEFINE s == [fence |-> o.prev, marker |-> o.fence, status |-> "processing", run |-> 0]
      <4>1. SetCurrent(p, s) /\ r.new = TRUE /\ o.kb \in mem.kbs
        BY <1>1, <2>1, <3>2 DEF BeginsOn
      <4>2. Puts(p, s)
        BY <4>1, PutsSet
      <4>3. o.prev = 0
        <5>1. Waits(o)
          BY <1>1, <1>2 DEF KInv, OpSound
        <5> QED BY <1>2, <3>2, <4>1, <5>1 DEF Waits, Has
      <4> QED BY <4>1, <4>2, <4>3
    <3> QED BY <3>1, <3>2
  <2>7. PICK s : /\ Puts(p, s) /\ s.marker = o.fence /\ s.fence = o.prev
                 /\ \/ Has(mem, o.kb, o.doc) /\ cur.fence = s.fence /\ ~r.new
                    \/ s.fence = 0 /\ r.new
    BY <2>6
  <2>8. DocSaved(o.kb, o.doc, s)'
    <3>1. AboutToSave(o.kb, o.doc, s.marker)'
      BY <2>3, <2>7 DEF AboutToSave, SameIds
    <3>2. InFile(o.kb, o.doc, s.fence)'
      <4>1. CASE Has(mem, o.kb, o.doc) /\ cur.fence = s.fence
        BY <1>1, <1>2, <2>2, <4>1, FoundSaved DEF InFile
      <4>2. CASE s.fence = 0
        BY <4>2 DEF InFile
      <4> QED BY <2>7, <4>1, <4>2
    <3> QED BY <3>1, <3>2 DEF DocSaved
  <2>9. mem'.doc[o.kb][o.doc] = s
    BY <1>1, <2>4, <2>7 DEF Puts
  <2>10. ASSUME mode = "faultySaves" PROVE Copied(r)'
    <3>1. CopySaved(r)'
      BY <1>1, <1>2, <2>3, <2>4, <2>10, TakenSaved DEF CopySaved, RecordSaved, InFile, SameIds
    <3>2. BeginCopy(r)'
      <4>1. CASE r.new
        BY <2>3, <2>7, <2>9, <4>1 DEF BeginCopy, SameIds
      <4>2. CASE ~r.new
        BY <2>3, <2>4, <2>7, <2>9, <4>2 DEF BeginCopy, SameIds, Has
      <4> QED BY <4>1, <4>2
    <3>3. CommitCopy(r)' /\ FailCopy(r)' /\ DeleteCopy(r)'
      BY <2>3 DEF CommitCopy, FailCopy, DeleteCopy, Committing
    <3> QED BY <3>1, <3>2, <3>3 DEF Copied
  <2> QED BY <1>1, <1>2, <1>3, <2>3, <2>7, <2>8, <2>10, FiledOwn
<1> QED BY <1>4, <1>5, BeginIs

\* Undone: what is put back is in the file.
LEMMA UndoneSaved ==
    ASSUME KInv, Filed, NEW p \in Procs, NEW o \in Ops, o = op[p], o.at \in Undoing,
           o.at \in Remembering
    PROVE  mode = "faultySaves" /\ o.at # "idle" /\ \A d \in Docs : RecordSaved(o.kb, d, o.snap[d])
BY UndoAlone DEF Filed, Copied, CopySaved

LEMMA UndoFiled ==
    ASSUME KInv, Controlled, Filed, NEW p \in Procs, BeginUndo(p) \/ CommitUndo(p) \/ FailUndo(p)
    PROVE  Filed'
<1>1. PICK o \in Ops : o = op[p]
  BY OpOf
<1>2. /\ o.at \in Undoing /\ o.at \in Remembering /\ UNCHANGED <<mode, disk>>
  BY <1>1 DEF BeginUndo, CommitUndo, FailUndo, Undoing, Remembering
<1>3. /\ mode = "faultySaves" /\ o.at # "idle" /\ o.kb \in KBs /\ o.doc \in Docs
      /\ \A d \in Docs : RecordSaved(o.kb, d, o.snap[d])
  BY <1>1, <1>2, UndoneSaved, OpFields
<1>4. op'[p].at \in {"idle", "undoSave", "abortPoints"} /\ OthersSame(p)
  <2>1. \/ Goto(p, "undoSave") \/ GivesUp(p, "abortPoints") \/ \E left : Leave(p, left)
    BY DEF BeginUndo, CommitUndo, FailUndo, GivesUp
  <2>2. {"undoSave", "abortPoints"} \subseteq Steps \cup {"idle"}
    BY AttemptSteps DEF Beginning, Begun
  <2> QED BY <2>1, <2>2, Leading
<1>5. PICK r : r = op'[p]
  OBVIOUS
<1>6. Copied(r)'
  <2>1. r.at \notin Remembering
    BY <1>4, <1>5 DEF Remembering
  <2> QED BY <2>1, Uncopied
<1>7. CASE \E s : Puts(p, s) /\ RecordSaved(o.kb, o.doc, s)
  <2>1. PICK s : Puts(p, s) /\ RecordSaved(o.kb, o.doc, s)
    BY <1>7
  <2>2. DocSaved(o.kb, o.doc, s)'
    BY <1>2, <2>1 DEF RecordSaved, DocSaved, InFile
  <2> QED BY <1>1, <1>2, <1>3, <1>4, <1>5, <1>6, <2>1, <2>2, FiledOwn
<1>8. CASE /\ UNCHANGED mem
           /\ o.at \in Unsaved => ~(Has(mem, o.kb, o.doc) /\ mem.doc[o.kb][o.doc].marker = o.fence)
  <2>1. MemSaved'
    <3>1. CASE o.at \notin Unsaved
      BY <1>1, <1>2, <1>4, <1>8, <3>1, SavedStep DEF Filed
    <3>2. CASE o.at \in Unsaved
      <4>1. PICK s : s = mem.doc[o.kb][o.doc]
        OBVIOUS
      <4>2. DocSaved(o.kb, o.doc, s) /\ (s.status # "none" => s.marker # o.fence)
        <5>1. s.status # "none" => o.kb \in mem.kbs
          BY <1>3, <4>1 DEF KInv, Global, StateSound
        <5> QED BY <1>3, <1>8, <3>2, <4>1, <5>1 DEF Filed, MemSaved, Has
      <4>3. ~AboutToSave(o.kb, o.doc, s.marker) \/ s.status = "none"
        <5>1. ASSUME NEW q \in Procs, op[q].at \in Unsaved PROVE q = p
          BY <1>1, <1>3, <5>1, SoloAt, RememberingSteps DEF Solo
        <5> QED BY <1>1, <4>2, <5>1 DEF AboutToSave, Unsaved
      <4>4. DocSaved(o.kb, o.doc, mem.doc[o.kb][o.doc])'
        BY <1>2, <1>8, <4>1, <4>2, <4>3 DEF DocSaved, InFile
      <4> QED BY <1>1, <1>2, <1>4, <1>8, <4>4, SavedStep DEF Filed
    <3> QED BY <3>1, <3>2
  <2> QED BY <1>1, <1>2, <1>3, <1>4, <1>5, <1>6, <2>1, FiledCore
<1>9. RecordSaved(o.kb, o.doc, NoDoc) /\ RecordSaved(o.kb, o.doc, o.snap[o.doc])
  BY <1>3, Nothing DEF RecordSaved
<1>10. RecordSaved(o.kb, o.doc, Restored(p))
  <2>1. o.snap[o.doc] \in DocRecs
    BY OpFields
  <2>2. RecordSaved(o.kb, o.doc, [o.snap[o.doc] EXCEPT !.marker = 0])
    <3>1. /\ [o.snap[o.doc] EXCEPT !.marker = 0].marker = 0
          /\ [o.snap[o.doc] EXCEPT !.marker = 0].fence = o.snap[o.doc].fence
          /\ [o.snap[o.doc] EXCEPT !.marker = 0].status = o.snap[o.doc].status
      BY <2>1 DEF DocRecs
    <3> QED BY <1>9, <3>1 DEF RecordSaved, InFile
  <2> QED BY <1>1, <1>9, <2>2 DEF Restored
<1>11. CASE BeginUndo(p)
  <2>1. CASE UNCHANGED mem /\ ~(Has(mem, o.kb, o.doc) /\ mem.doc[o.kb][o.doc].marker = o.fence)
    BY <1>8, <2>1
  <2>2. CASE SetCurrent(p, NoDoc)
    BY <1>7, <1>9, <2>2, PutsSet
  <2>3. CASE SetCurrent(p, o.snap[o.doc])
    BY <1>7, <1>9, <2>3, PutsSet
  <2> QED BY <1>1, <1>11, <2>1, <2>2, <2>3 DEF BeginUndo, Current
<1>12. CASE CommitUndo(p) \/ FailUndo(p)
  <2>1. o.at \notin Unsaved
    BY <1>1, <1>12 DEF CommitUndo, FailUndo, Unsaved
  <2>2. CASE UNCHANGED mem
    BY <1>8, <2>1, <2>2
  <2>3. CASE SetCurrent(p, Restored(p))
    BY <1>7, <1>10, <2>3, PutsSet
  <2> QED BY <1>12, <2>2, <2>3 DEF CommitUndo, FailUndo
<1> QED BY <1>11, <1>12

LEMMA StartFiled ==
    ASSUME KInv, Filed, NEW p \in Procs,
           \/ \E k \in KBs, d \in Docs : StartIndex(p, k, d) \/ StartOnDocument(p, k, d)
           \/ \E k \in KBs : CreateKB(p, k)
    PROVE  Filed'
<1>1. /\ UNCHANGED <<mode, disk>> /\ mem'.doc = mem.doc /\ CanStart(p) /\ op[p].at = "idle"
      /\ \E kind, k, d, snap, at : at \in {"reserve", "createSave"} /\ Start(p, kind, k, d, at, snap)
  <2>1. mem = [kbs |-> mem.kbs, doc |-> mem.doc]
    BY DEF KInv, KTypes, States
  <2> QED BY <2>1 DEF StartIndex, StartOnDocument, CreateKB, CanStart
<1>2. OthersSame(p) /\ op'[p].at \in {"reserve", "createSave"}
  BY <1>1, StartIs
<1>3. op'[p].at \notin Remembering /\ op[p].at \notin Unsaved
  BY <1>1, <1>2 DEF Remembering, Unsaved
<1> QED BY <1>1, <1>2, <1>3, FiledQuiet

LEMMA DropKBFiled ==
    ASSUME KInv, Filed, NEW p \in Procs, NEW k \in KBs, DropKB(p, k) PROVE Filed'
<1>1. /\ UNCHANGED <<mode, disk>> /\ CanStart(p) /\ op[p].at = "idle" /\ op[p].at \notin Unsaved
      /\ mem' = Without(mem, k) /\ Start(p, "drop", k, AnyDoc, "dropSave", mem.doc[k])
  BY DEF DropKB, CanStart, Unsaved
<1>2. /\ OthersSame(p)
      /\ \E r : op'[p] = r /\ r.at = "dropSave" /\ r.kb = k /\ r.snap = mem.doc[k]
  BY <1>1, StartIs
<1>3. PICK r : op'[p] = r /\ r.at = "dropSave" /\ r.kb = k /\ r.snap = mem.doc[k]
  BY <1>2
<1>4. MemSaved'
  <2>1. ASSUME NEW j \in KBs, NEW d \in Docs
        PROVE  mem'.doc[j][d] = mem.doc[j][d] \/ DocSaved(j, d, mem.doc[j][d])'
    BY <1>1, WithoutTakes, Nothing DEF DocSaved
  <2> QED BY <1>1, <1>2, <2>1, SavedStep DEF Filed
<1>5. ASSUME mode = "faultySaves" PROVE Copied(r)'
  <2>1. CopySaved(r)'
    BY <1>1, <1>3, <1>5, TakenSaved DEF CopySaved, RecordSaved, InFile
  <2> QED BY <1>3, <2>1 DEF Copied, BeginCopy, CommitCopy, FailCopy, DeleteCopy, Committing
<1> QED BY <1>1, <1>2, <1>3, <1>4, <1>5, FiledCore

LEMMA ReserveFiled ==
    ASSUME KInv, Filed, NEW p \in Procs, Reserve(p) PROVE Filed'
<1>1. op[p].at # "idle" /\ op[p].at \notin Unsaved /\ UNCHANGED <<mode, mem, disk>>
  BY DEF Reserve, Unsaved
<1>2. OthersSame(p) /\ op'[p].at \in {"idle", "reserved", "deletePoints"}
  BY ReserveIs
<1>3. op'[p].at \notin Remembering
  BY <1>2 DEF Remembering
<1> QED BY <1>1, <1>2, <1>3, FiledQuiet

\* A knowledge base that goes, or comes back as its copy has it.
LEMMA BaseFiled ==
    ASSUME KInv, Filed, NEW p \in Procs, CreateUndo(p) \/ DeleteUndo(p) \/ DropUndo(p)
    PROVE  Filed'
<1>1. PICK o \in Ops : o = op[p]
  BY OpOf
<1>2. /\ o.at \in {"createUndo", "deleteUndo", "dropUndo"} /\ o.at # "idle" /\ o.at \notin Unsaved
      /\ UNCHANGED <<mode, disk>> /\ Return(p)
  BY <1>1 DEF CreateUndo, DeleteUndo, DropUndo, Unsaved
<1>3. OthersSame(p) /\ op'[p].at = "idle" /\ o.kb \in KBs
  BY <1>2, EndsReturn, OpFields DEF Ends
<1>4. PICK r : r = op'[p]
  OBVIOUS
<1>5. Copied(r)'
  BY <1>3, <1>4, Uncopied, RememberingSteps
<1>6. ASSUME NEW k \in KBs, NEW d \in Docs
      PROVE  mem'.doc[k][d] = mem.doc[k][d] \/ DocSaved(k, d, mem.doc[k][d])'
  <2>1. CASE CreateUndo(p)
    BY <1>1, <1>3, <2>1, WithoutTakes, Nothing DEF CreateUndo, DocSaved
  <2>2. CASE DeleteUndo(p) \/ DropUndo(p)
    <3>1. o.at \in Undoing /\ o.at \in Remembering
      BY <1>1, <2>2 DEF DeleteUndo, DropUndo, Undoing, Remembering
    <3>2. RecordSaved(o.kb, d, o.snap[d])
      BY <1>1, <3>1, UndoneSaved
    <3>3. /\ mem.doc \in [KBs -> [Docs -> DocRecs]]
          /\ mem'.doc = [mem.doc EXCEPT ![o.kb] = o.snap]
      BY <1>1, <2>2 DEF DeleteUndo, DropUndo, KInv, KTypes, States
    <3>4. mem'.doc[k][d] = IF k = o.kb THEN o.snap[d] ELSE mem.doc[k][d]
      BY <1>3, <3>3
    <3> QED BY <1>2, <3>2, <3>4 DEF DocSaved, RecordSaved, InFile
  <2> QED BY <1>2, <2>1, <2>2
<1>7. MemSaved'
  BY <1>1, <1>2, <1>3, <1>6, SavedStep DEF Filed
<1> QED BY <1>1, <1>2, <1>3, <1>4, <1>5, <1>7, FiledCore

LEMMA NextFiled ==
    ASSUME KInv, Controlled, Filed, [Next]_vars PROVE Filed'
<1>1. CASE \E p \in Procs : Step(p)
  BY <1>1, WorkFiled, StoreFiled, SaveFiled, CancelFiled, CommitFiled, FailFiled, RemoveFiled,
     BeginFiled, UndoFiled, StartFiled, DropKBFiled, ReserveFiled, BaseFiled DEF Step
<1>2. CASE OtherSave
  <2>1. mode = "overlap" /\ UNCHANGED <<mode, mem>> /\ disk' = mem
    BY <1>2 DEF OtherSave, Overlaps, Save, KInv, KTypes
  <2> QED BY <2>1, SavedAll DEF Filed, Copied
<1>3. CASE UNCHANGED vars
  BY <1>3 DEF vars, Filed, MemSaved, DocSaved, AboutToSave, Copied, CopySaved, RecordSaved, InFile,
     BeginCopy, CommitCopy, FailCopy, DeleteCopy
<1>4. CASE CrashRestart
  <2>1. op' = [q \in Procs |-> Idle] /\ disk' = mem'
    BY <1>4 DEF CrashRestart
  <2>2. Copied(Idle)'
    BY Uncopied, IdleOp, RememberingSteps
  <2>3. \A q \in Procs : Copied(op[q])'
    BY <2>1, <2>2, CopiedIs
  <2> QED BY <2>1, <2>3, SavedAll DEF Filed
<1> QED BY <1>1, <1>2, <1>3, <1>4 DEF Next, Rest

LEMMA InitFiled == ASSUME Init PROVE Filed
<1>1. op = [q \in Procs |-> Idle] /\ disk = mem /\ Idle.at \notin Remembering
  BY IdleOp, RememberingSteps DEF Init
<1>2. MemSaved
  BY <1>1 DEF MemSaved, DocSaved, InFile, Names
<1>3. ASSUME NEW q \in Procs PROVE Copied(op[q])
  BY <1>1, RememberingSteps DEF Copied, CopySaved, BeginCopy, CommitCopy, FailCopy, DeleteCopy, Unsaved
<1> QED BY <1>2, <1>3 DEF Filed
-----------------------------------------------------------------------------
(* Who still knows a generation: the parts *)

\* What a step of p owes: a generation that memory or its request named is
\* removed, left behind, or named again.
OwesPoints(p, r) ==
    \A g \in points' \ leaked' :
        InMem(g)' \/ KeepsPoints(r, g) \/ (g \in points /\ ~InMem(g) /\ ~KeepsPoints(op[p], g))
OwesContents(p, r) ==
    \A g \in contents' \ leaked' :
        InMem(g)' \/ KeepsContents(r, g) \/ (g \in contents /\ ~InMem(g) /\ ~KeepsContents(op[p], g))

LEMMA HeldCore ==
    ASSUME PointsKept, ContentsKept, NEW p \in Procs, OthersSame(p), leaked \subseteq leaked',
           NEW r, op'[p] = r, OwesPoints(p, r), OwesContents(p, r)
    PROVE  PointsKept' /\ ContentsKept'
<1>1. ASSUME NEW g \in points' \ leaked' PROVE InMem(g)' \/ \E q \in Procs : KeepsPoints(op'[q], g)
  <2>1. CASE InMem(g)' \/ KeepsPoints(r, g)
    BY <2>1
  <2>2. CASE g \in points /\ ~InMem(g) /\ ~KeepsPoints(op[p], g)
    <3>1. PICK q \in Procs : KeepsPoints(op[q], g)
      BY <1>1, <2>2 DEF PointsKept
    <3> QED BY <2>2, <3>1 DEF OthersSame
  <2> QED BY <1>1, <2>1, <2>2 DEF OwesPoints
<1>2. ASSUME NEW g \in contents' \ leaked' PROVE InMem(g)' \/ \E q \in Procs : KeepsContents(op'[q], g)
  <2>1. CASE InMem(g)' \/ KeepsContents(r, g)
    BY <2>1
  <2>2. CASE g \in contents /\ ~InMem(g) /\ ~KeepsContents(op[p], g)
    <3>1. PICK q \in Procs : KeepsContents(op[q], g)
      BY <1>2, <2>2 DEF ContentsKept
    <3> QED BY <2>2, <3>1 DEF OthersSame
  <2> QED BY <1>2, <2>1, <2>2 DEF OwesContents
<1> QED BY <1>1, <1>2 DEF PointsKept, ContentsKept, KeepsPoints, KeepsContents

\* A step from a to b on which a request goes on knowing what it knew.
KeepOn(a, b) ==
    /\ a \in Dropping \ {"dropContent"} => b \in Dropping \ {"dropContent"}
    /\ a = "dropContent" => b = "dropContent"
    /\ a \in {"deleteSave", "deleteUndo"} => b \in {"deleteSave", "deleteUndo"}
    /\ a = "deleteContent" => b = "deleteContent"
    /\ a \in After \ {"retireContent"} => b \in After \ {"retireContent"}
    /\ a = "retireContent" => b = "retireContent"
    /\ b \in Failing \cup {"abortContent"} => a = b \/ a \in Failing \/ (a = "work" /\ b = "fail")
    /\ a \in Promoted => b \in Promoted
    /\ a \in Committing \cup {"retirePoints"} => b \in Committing \cup {"retirePoints"}
    /\ a \in {"capture", "commit", "commitUndo", "abortPoints"}
       => b \in {"commit", "commitUndo", "abortPoints"} \/ a = b
    /\ a = "abortContent" => b = "abortContent"

LEMMA KeepsOn ==
    ASSUME NEW o, NEW r, Control(o), SameAttempt(o, r), KeepOn(o.at, r.at),
           r.snap = o.snap \/ o.at \notin Dropping \cup {"deleteSave", "deleteUndo"},
           r.receipt = o.receipt \/ (o.at \in {"work", "scroll"} /\ r.at \notin Failing), NEW g
    PROVE  /\ KeepsPoints(o, g) => KeepsPoints(r, g)
           /\ KeepsContents(o, g) => KeepsContents(r, g)
<1>1. /\ o.at \in {"capture", "commit", "commitUndo"} => o.receipt = "points"
      /\ o.at = "work" => o.receipt = "none"
      /\ "work" \notin Failing /\ "scroll" \notin Failing
  BY DEF Control, Listed, Beginning, Promoted, Failing
<1>2. Failing \cup Committing \cup {"commit", "abortPoints", "abortContent", "capture"} \subseteq After
      /\ Dropping \cap After = {} /\ Removing \cap After = {} /\ Promoted \subseteq After
  BY DEF Failing, Committing, After, Begun, Retiring, Dropping, Removing, Promoted
<1>3. KeepsPoints(o, g) => KeepsPoints(r, g)
  <2> SUFFICES ASSUME KeepsPoints(o, g) PROVE KeepsPoints(r, g)
    OBVIOUS
  <2>1. CASE o.at \in Dropping \ {"dropContent"} /\ Names(o.snap[g[2]], g[3])
    BY <2>1 DEF KeepsPoints, KeepOn, SameAttempt
  <2>2. CASE /\ g[2] = o.doc /\ g[3] = o.superseded /\ o.at \in After \ {"retireContent"}
             /\ o.at \in Failing \cup {"abortContent"} => o.receipt # "points"
    <3>1. r.at \in Failing \cup {"abortContent"} => r.receipt # "points"
      BY <1>1, <2>2 DEF KeepOn
    <3> QED BY <2>2, <3>1 DEF KeepsPoints, KeepOn, SameAttempt
  <2>3. CASE g[2] = o.doc /\ g[3] = o.prev /\ o.at \in Committing \cup {"retirePoints"}
    BY <2>3 DEF KeepsPoints, KeepOn, SameAttempt
  <2>4. CASE /\ g[2] = o.doc /\ g[3] = o.fence
             /\ \/ o.at \in {"capture", "commit", "commitUndo"}
                \/ o.at = "abortPoints" /\ o.receipt = "points"
    <3>1. r.receipt = "points"
      BY <1>1, <2>4
    <3> QED BY <2>4, <3>1 DEF KeepsPoints, KeepOn, SameAttempt
  <2> QED BY <2>1, <2>2, <2>3, <2>4 DEF KeepsPoints
<1>4. KeepsContents(o, g) => KeepsContents(r, g)
  <2> SUFFICES ASSUME KeepsContents(o, g) PROVE KeepsContents(r, g)
    OBVIOUS
  <2>1. CASE o.at \in Dropping /\ Names(o.snap[g[2]], g[3])
    BY <2>1 DEF KeepsContents, KeepOn, SameAttempt
  <2>2. CASE g[2] = o.doc /\ o.at \in {"deleteSave", "deleteUndo"} /\ Names(o.snap[g[2]], g[3])
    BY <2>2 DEF KeepsContents, KeepOn, SameAttempt
  <2>3. CASE g[2] = o.doc /\ o.at = "deleteContent"
    BY <2>3 DEF KeepsContents, KeepOn, SameAttempt
  <2>4. CASE /\ g[2] = o.doc /\ g[3] = o.superseded /\ o.at \in After
             /\ o.at \in Failing => o.receipt # "points"
    <3>1. r.at \in Failing => r.receipt # "points"
      BY <1>1, <2>4 DEF KeepOn
    <3>2. r.at \in After
      BY <2>4 DEF KeepOn
    <3> QED BY <2>4, <3>1, <3>2 DEF KeepsContents, SameAttempt
  <2>5. CASE g[2] = o.doc /\ g[3] = o.prev /\ o.at \in Promoted
    BY <2>5 DEF KeepsContents, KeepOn, SameAttempt
  <2>6. CASE /\ g[2] = o.doc /\ g[3] = o.fence
             /\ o.at \in {"commit", "abortPoints", "abortContent", "commitUndo"}
    BY <2>6 DEF KeepsContents, KeepOn, SameAttempt
  <2> QED BY <2>1, <2>2, <2>3, <2>4, <2>5, <2>6 DEF KeepsContents
<1> QED BY <1>3, <1>4

\* Steps between which a request knows nothing.
Unaware == {"idle", "reserve", "reserved", "deletePoints", "deleteRemove", "createSave",
            "createUndo", "createCollection"}
LEMMA KeepsNothing ==
    ASSUME NEW o, o.at \in Unaware, NEW g PROVE ~KeepsPoints(o, g) /\ ~KeepsContents(o, g)
BY DEF Unaware, KeepsPoints, KeepsContents, Dropping, After, Begun, Retiring, Committing, Promoted,
   Failing

\* A step that stores nothing new and leaves memory as it is.
LEMMA HeldOn ==
    ASSUME PointsKept, ContentsKept, NEW p \in Procs, OthersSame(p), leaked \subseteq leaked',
           mem'.doc = mem.doc, points' \subseteq points, contents' \subseteq contents,
           NEW r, op'[p] = r,
           \A g \in points' \ leaked' : KeepsPoints(op[p], g) => KeepsPoints(r, g),
           \A g \in contents' \ leaked' : KeepsContents(op[p], g) => KeepsContents(r, g)
    PROVE  PointsKept' /\ ContentsKept'
<1>1. \A g : InMem(g)' <=> InMem(g)
  BY DEF InMem
<1>2. OwesPoints(p, r) /\ OwesContents(p, r)
  BY <1>1 DEF OwesPoints, OwesContents
<1> QED BY <1>2, HeldCore

LEMMA KeepPaths ==
    /\ \A b \in {"collect", "abortPoints", "fail"} : KeepOn("work", b)
    /\ \A b \in {"scroll", "abortPoints"} : KeepOn("collect", b)
    /\ \A b \in {"upsert", "abortPoints"} : KeepOn("scroll", b)
    /\ \A b \in {"capture", "abortPoints"} : KeepOn("upsert", b)
    /\ \A b \in {"commit", "abortPoints"} : KeepOn("capture", b)
    /\ KeepOn("commit", "abortPoints")
    /\ \A b \in {"retirePoints", "commitUndo"} : KeepOn("commitSave", b)
    /\ KeepOn("failSave", "failUndo") /\ KeepOn("beginSave", "work") /\ KeepOn("beginSave", "beginUndo")
    /\ KeepOn("deleteSave", "deleteUndo")
    /\ \A b \in {"dropCollection", "dropUndo"} : KeepOn("dropSave", b)
BY DEF KeepOn, Dropping, After, Begun, Retiring, Failing, Promoted, Committing

LEMMA HeldPasses ==
    ASSUME Controlled, PointsKept, ContentsKept, NEW p \in Procs, OthersSame(p),
           leaked \subseteq leaked',
           mem'.doc = mem.doc, points' \subseteq points, contents' \subseteq contents,
           NEW o, o = op[p], NEW r, op'[p] = r, SameAttempt(o, r), KeepOn(o.at, r.at),
           r.snap = o.snap \/ o.at \notin Dropping \cup {"deleteSave", "deleteUndo"},
           r.receipt = o.receipt \/ (o.at \in {"work", "scroll"} /\ r.at \notin Failing)
    PROVE  PointsKept' /\ ContentsKept'
<1>1. Control(o)
  BY DEF Controlled
<1> QED BY <1>1, KeepsOn, HeldOn

LEMMA HeldUnaware ==
    ASSUME PointsKept, ContentsKept, NEW p \in Procs, op[p].at \in Unaware, OthersSame(p),
           leaked \subseteq leaked',
           mem'.doc = mem.doc, points' \subseteq points, contents' \subseteq contents
    PROVE  PointsKept' /\ ContentsKept'
<1>1. PICK r : r = op'[p]
  OBVIOUS
<1> QED BY <1>1, KeepsNothing, HeldOn

LEMMA GotoHeld ==
    ASSUME KInv, Controlled, PointsKept, ContentsKept, NEW p \in Procs, NEW at \in Steps,
           Goto(p, at) \/ GivesUp(p, at), KeepOn(op[p].at, at), leaked \subseteq leaked',
           mem'.doc = mem.doc, points' \subseteq points, contents' \subseteq contents
    PROVE  PointsKept' /\ ContentsKept'
<1>1. Passes(p, at, op[p].snap)
  BY PassesGoto, PassesBack
<1>2. PICK r : /\ op'[p] = r /\ r.at = at /\ r.snap = op[p].snap /\ SameAttempt(op[p], r)
               /\ r.receipt = op[p].receipt
  BY <1>1 DEF Passes, SameRequest
<1>3. OthersSame(p)
  BY <1>1 DEF Passes
<1> QED BY <1>2, <1>3, HeldPasses

LEMMA DropsHeld ==
    ASSUME KInv, Controlled, PointsKept, ContentsKept, NEW p \in Procs, NEW at \in Steps,
           Drops(p, at), KeepOn(op[p].at, at), op[p].at \notin Dropping \cup {"deleteSave", "deleteUndo"},
           leaked \subseteq leaked', mem'.doc = mem.doc, points' \subseteq points,
           contents' \subseteq contents
    PROVE  PointsKept' /\ ContentsKept'
<1>1. Passes(p, at, NoDocs)
  BY PassesSaved
<1>2. PICK r : /\ op'[p] = r /\ r.at = at /\ SameAttempt(op[p], r) /\ r.receipt = op[p].receipt
  BY <1>1 DEF Passes, SameRequest
<1>3. OthersSame(p)
  BY <1>1 DEF Passes
<1> QED BY <1>2, <1>3, HeldPasses

LEMMA ListsHeld ==
    ASSUME KInv, Controlled, PointsKept, ContentsKept, NEW p \in Procs,
           op[p].at \in {"work", "scroll"}, NEW at \in {"collect", "abortPoints", "upsert"},
           NEW receipt \in {"fences", "points"}, Lists(p, at, receipt), KeepOn(op[p].at, at),
           leaked \subseteq leaked', mem'.doc = mem.doc, points' \subseteq points,
           contents' \subseteq contents
    PROVE  PointsKept' /\ ContentsKept'
<1>1. {"collect", "abortPoints", "upsert"} \subseteq Steps
  BY AttemptSteps DEF Begun
<1>2. /\ OthersSame(p)
      /\ \E r \in Ops : /\ op'[p] = r /\ r.at = at /\ SameAttempt(op[p], r)
                        /\ r.kind = op[p].kind /\ r.receipt = receipt
  BY <1>1, PassesListing
<1>3. PICK r : op'[p] = r /\ r.at = at /\ SameAttempt(op[p], r)
  BY <1>2
<1>4. r.at \notin Failing /\ op[p].at \notin Dropping \cup {"deleteSave", "deleteUndo"}
  BY <1>3 DEF Failing, Dropping
<1> QED BY <1>2, <1>3, <1>4, HeldPasses

LEMMA WorkHeld ==
    ASSUME KInv, Controlled, PointsKept, ContentsKept, NEW p \in Procs,
           Work(p) \/ EnsureCollection(p) \/ Scroll(p)
    PROVE  PointsKept' /\ ContentsKept'
<1>1. UNCHANGED <<mem, points, contents, leaked>>
  BY DEF Work, EnsureCollection, Scroll, stores, observers
<1>2. CASE \E at \in {"collect", "abortPoints", "upsert"}, receipt \in {"fences", "points"} :
               KeepOn(op[p].at, at) /\ op[p].at \in {"work", "scroll"} /\ Lists(p, at, receipt)
  BY <1>1, <1>2, ListsHeld
<1>3. CASE \E at \in {"fail", "scroll", "abortPoints"} : KeepOn(op[p].at, at) /\ Goto(p, at)
  BY <1>1, <1>3, AttemptSteps, GotoHeld DEF Begun
<1>4. CASE Work(p)
  BY <1>2, <1>3, <1>4, KeepPaths DEF Work, Lists
<1>5. CASE EnsureCollection(p)
  BY <1>2, <1>3, <1>5, KeepPaths DEF EnsureCollection
<1>6. CASE Scroll(p)
  BY <1>2, <1>3, <1>6, KeepPaths DEF Scroll, Lists
<1> QED BY <1>4, <1>5, <1>6

LEMMA SaveHeld ==
    ASSUME KInv, Controlled, PointsKept, ContentsKept, NEW p \in Procs,
           BeginSave(p) \/ CommitSave(p) \/ DropSave(p)
    PROVE  PointsKept' /\ ContentsKept'
<1>1. UNCHANGED <<mem, points, contents, leaked>>
  BY DEF BeginSave, CommitSave, DropSave, stores, observers
<1>2. {"work", "retirePoints", "beginUndo", "commitUndo", "dropCollection", "dropUndo"} \subseteq Steps
  BY AttemptSteps DEF Begun, Beginning, Retiring, Dropping
<1>3. CASE BeginSave(p) \/ CommitSave(p)
  <2>1. op[p].at \notin Dropping \cup {"deleteSave", "deleteUndo"}
    BY <1>3 DEF BeginSave, CommitSave, Dropping
  <2> QED BY <1>1, <1>2, <1>3, <2>1, KeepPaths, GotoHeld, DropsHeld DEF BeginSave, CommitSave, SaveThen, Drops
<1>4. CASE DropSave(p)
  BY <1>1, <1>2, <1>4, KeepPaths, GotoHeld DEF DropSave
<1> QED BY <1>3, <1>4

LEMMA CancelHeld ==
    ASSUME KInv, Controlled, PointsKept, ContentsKept, NEW p \in Procs, Cancel(p)
    PROVE  PointsKept' /\ ContentsKept'
<1>1. UNCHANGED <<mem, points, contents, leaked>>
  BY DEF Cancel, stores, observers
<1>2. PICK r : /\ op'[p] = r /\ r.at = op[p].at /\ r.snap = op[p].snap /\ SameAttempt(op[p], r)
               /\ r.receipt = op[p].receipt
  BY CancelPasses DEF Passes, SameRequest
<1>3. OthersSame(p)
  BY CancelPasses DEF Passes
<1>4. KeepOn(op[p].at, r.at)
  BY <1>2 DEF KeepOn
<1> QED BY <1>1, <1>2, <1>3, <1>4, HeldPasses

\* Requests with nothing to remove yet.
LEMMA UnawareHeld ==
    ASSUME KInv, Controlled, PointsKept, ContentsKept, NEW p \in Procs,
           Reserve(p) \/ DeletePoints(p) \/ CreateSave(p) \/ CreateCollection(p)
    PROVE  PointsKept' /\ ContentsKept'
<1>1. /\ mem' = mem /\ points' \subseteq points /\ contents' = contents /\ leaked' = leaked
      /\ op[p].at \in Unaware
  BY DEF Reserve, DeletePoints, CreateSave, CreateCollection, stores, observers, Unaware
<1>2. OthersSame(p)
  BY ReserveControl, DeleteControl, CreateControl DEF Controlled
<1> QED BY <1>1, <1>2, HeldUnaware

LEMMA GenIs ==
    ASSUME NEW g \in Gens
    PROVE  g = <<g[1], g[2], g[3]>> /\ g[1] \in KBs /\ g[2] \in Docs /\ g[3] \in Fences
BY DEF Gens

LEMMA StoredIs ==
    ASSUME KInv, Stocked, NEW g \in points \cup contents
    PROVE  /\ g \in Gens /\ g = <<g[1], g[2], g[3]>> /\ g[1] \in KBs /\ g[2] \in Docs
           /\ g[3] \in Fences /\ g[3] # 0
<1>1. g \in Gens /\ g[3] \in 1..fences
  BY DEF KInv, KTypes, Stocked, Numbered
<1>2. g[3] # 0
  <2>1. fences \in Nat
    BY FenceNumbers DEF KInv, KTypes
  <2> QED BY <1>1, <2>1
<1> QED BY <1>1, <1>2, GenIs

LEMMA InHeld ==
    ASSUME KInv, Stocked, NEW g \in points \cup contents, NEW p \in Procs, g[1] = op[p].kb,
           g[2] = op[p].doc, NEW fs, g[3] \in fs
    PROVE  g \in Held(p, fs)
<1>1. g = <<g[1], g[2], g[3]>> /\ g[3] # 0
  BY StoredIs
<1> QED BY <1>1 DEF Held, Gen

\* What an attempt writes it names.
LEMMA WritesHeld ==
    ASSUME KInv, Controlled, Stocked, PointsKept, ContentsKept, NEW p \in Procs,
           Upsert(p) \/ Capture(p)
    PROVE  PointsKept' /\ ContentsKept'
<1>1. PICK o \in Ops : o = op[p]
  BY OpOf
<1>2. o.at \in {"upsert", "capture"} /\ o.at # "idle" /\ UNCHANGED <<mem, leaked>> /\ Control(o)
  BY <1>1 DEF Upsert, Capture, observers, Controlled
<1>3. o.receipt = "points"
  BY <1>2 DEF Control, Listed
<1>4. Held(p, {op[p].fence}) = {OwnGen(o)}
  BY <1>1, <1>2, HeldOwn DEF OwnGen
<1>5. /\ points' \subseteq points \cup {OwnGen(o)}
      /\ contents' \subseteq contents \cup {OwnGen(o)}
      /\ o.at = "upsert" => contents' = contents
      /\ o.at = "capture" => points' = points
  BY <1>1, <1>2, <1>4 DEF Upsert, Capture
<1>6. \E at \in {"capture", "commit", "abortPoints"} :
          /\ Passes(p, at, op[p].snap) /\ (o.at = "upsert" => at # "commit")
          /\ o.at = "capture" => at # "capture"
  BY <1>1, PassesGoto, AttemptSteps DEF Upsert, Capture, Begun
<1>7. PICK r : /\ op'[p] = r /\ SameAttempt(o, r) /\ r.snap = o.snap
               /\ r.receipt = "points" /\ r.at \in {"capture", "commit", "abortPoints"}
               /\ o.at = "upsert" => r.at # "commit"
               /\ o.at = "capture" => r.at # "capture"
  BY <1>1, <1>3, <1>6 DEF Passes, SameRequest
<1>8. OthersSame(p)
  BY WorkControl DEF Controlled
<1>9. KeepOn(o.at, r.at)
  BY <1>2, <1>7, KeepPaths
<1>10. \A g : InMem(g)' <=> InMem(g)
  BY <1>2 DEF InMem
<1>11. \A g : /\ KeepsPoints(o, g) => KeepsPoints(r, g)
              /\ KeepsContents(o, g) => KeepsContents(r, g)
  BY <1>2, <1>3, <1>7, <1>9, KeepsOn
<1>12. KeepsPoints(r, OwnGen(o))
  BY <1>7 DEF KeepsPoints, SameAttempt, OwnGen, Gen
<1>13. o.at = "capture" => KeepsContents(r, OwnGen(o))
  BY <1>7 DEF KeepsContents, SameAttempt, OwnGen, Gen
<1>14. OwesPoints(p, r) /\ OwesContents(p, r)
  BY <1>1, <1>2, <1>5, <1>10, <1>11, <1>12, <1>13 DEF OwesPoints, OwesContents
<1> QED BY <1>2, <1>7, <1>8, <1>14, HeldCore

\* A clean-up of generations by their fences.
LEMMA AbortPointsHeld ==
    ASSUME KInv, Controlled, Stocked, PointsKept, ContentsKept, NEW p \in Procs, AbortPoints(p)
    PROVE  PointsKept' /\ ContentsKept'
<1>1. PICK o \in Ops : o = op[p]
  BY OpOf
<1>2. /\ o.at = "abortPoints" /\ UNCHANGED <<mem, contents>> /\ points' \subseteq points
      /\ leaked \subseteq leaked'
  BY <1>1 DEF AbortPoints
<1>3. /\ OthersSame(p)
      /\ \E r : /\ op'[p] = r /\ SameAttempt(o, r) /\ r.at = "abortContent" /\ r.receipt = o.receipt
  BY <1>1, PassesGoto, AttemptSteps DEF AbortPoints, Passes, SameRequest, Begun
<1>4. PICK r : /\ op'[p] = r /\ SameAttempt(o, r) /\ r.at = "abortContent" /\ r.receipt = o.receipt
  BY <1>3
<1>5. ASSUME NEW g \in points' \ leaked', KeepsPoints(o, g) PROVE KeepsPoints(r, g)
  <2>1. g[1] = o.kb /\ g[2] = o.doc /\ g[3] \in {o.fence, o.superseded}
        /\ ((g[3] = o.fence /\ o.receipt = "points") \/ g[3] = o.superseded)
    BY <1>2, <1>5 DEF KeepsPoints, Dropping, Committing
  <2>2. CASE o.receipt = "points"
    <3>1. g \in Held(p, {op[p].fence, op[p].superseded})
      BY <1>1, <1>2, <2>1, InHeld
    <3> QED BY <1>1, <1>5, <2>2, <3>1 DEF AbortPoints
  <2>3. CASE o.receipt # "points"
    BY <1>4, <2>1, <2>3, KeepPaths DEF KeepsPoints, SameAttempt, After, Begun
  <2> QED BY <2>2, <2>3
<1>6. ASSUME NEW g, KeepsContents(o, g) PROVE KeepsContents(r, g)
  <2>1. g[1] = o.kb /\ g[2] = o.doc /\ g[3] \in {o.fence, o.superseded}
    BY <1>2, <1>6 DEF KeepsContents, Dropping, Promoted, Retiring
  <2> QED BY <1>4, <2>1 DEF KeepsContents, SameAttempt, After, Begun, Failing
<1> QED BY <1>1, <1>2, <1>3, <1>4, <1>5, <1>6, HeldOn

\* What is left of a superseded generation whose points were not listed.
LEMMA LeaveLeaks ==
    ASSUME KInv, Stocked, NEW p \in Procs, NEW left, Leave(p, left),
           NEW g \in points \cup contents, g[1] = op[p].kb, g[2] = op[p].doc,
           g[3] = op[p].superseded, op[p].receipt # "points"
    PROVE  g \in leaked'
<1>1. g \in Held(p, {op[p].superseded})
  BY InHeld
<1> QED BY <1>1 DEF Leave

LEMMA AbortContentHeld ==
    ASSUME KInv, Controlled, Stocked, PointsKept, ContentsKept, NEW p \in Procs, AbortContent(p)
    PROVE  PointsKept' /\ ContentsKept'
<1>1. PICK o \in Ops : o = op[p]
  BY OpOf
<1>2. /\ o.at = "abortContent" /\ UNCHANGED <<mem, points>> /\ contents' \subseteq contents
      /\ leaked \subseteq leaked'
  BY <1>1 DEF AbortContent, Leave
<1>3. PICK left \in SUBSET (contents \cap Held(p, {op[p].fence, op[p].superseded})) :
          /\ contents' = contents \ (Held(p, {op[p].fence, op[p].superseded}) \ left)
          /\ left \subseteq leaked'
          /\ Leave(p, left) \/ Goto(p, "fail")
  BY DEF AbortContent, Leave
<1>4. PICK r : r = op'[p]
  OBVIOUS
<1>5. OthersSame(p)
  BY AbortControl DEF Controlled
<1>6. ASSUME NEW g \in points' \ leaked', KeepsPoints(o, g) PROVE KeepsPoints(r, g)
  <2>1. g[1] = o.kb /\ g[2] = o.doc /\ g[3] = o.superseded /\ o.receipt # "points"
    BY <1>2, <1>6 DEF KeepsPoints, Dropping, Committing
  <2>2. CASE Leave(p, left)
    BY <1>1, <1>2, <1>6, <2>1, <2>2, LeaveLeaks
  <2>3. CASE Goto(p, "fail")
    <3>1. SameAttempt(o, r) /\ r.at = "fail" /\ r.receipt = o.receipt
      BY <1>1, <1>4, <2>3, PassesGoto, AttemptSteps DEF Passes, SameRequest, Begun
    <3> QED BY <2>1, <3>1 DEF KeepsPoints, SameAttempt, After, Begun
  <2> QED BY <1>3, <2>2, <2>3
<1>7. ASSUME NEW g \in contents' \ leaked', KeepsContents(o, g) PROVE KeepsContents(r, g)
  <2>1. g[1] = o.kb /\ g[2] = o.doc /\ g[3] \in {o.fence, o.superseded}
    BY <1>2, <1>7 DEF KeepsContents, Dropping, Promoted, Retiring
  <2>2. g \in Held(p, {op[p].fence, op[p].superseded})
    BY <1>1, <1>2, <2>1, InHeld
  <2> QED BY <1>3, <1>7, <2>2
<1> QED BY <1>1, <1>2, <1>4, <1>5, <1>6, <1>7, HeldOn

LEMMA RetireHeld ==
    ASSUME KInv, Controlled, Stocked, PointsKept, ContentsKept, NEW p \in Procs,
           RetirePoints(p) \/ RetireContent(p)
    PROVE  PointsKept' /\ ContentsKept'
<1>1. PICK o \in Ops : o = op[p]
  BY OpOf
<1>2. /\ o.at \in Retiring /\ mem' = mem /\ points' \subseteq points /\ contents' \subseteq contents
      /\ leaked \subseteq leaked'
  BY <1>1 DEF RetirePoints, RetireContent, Retiring
<1>3. PICK r : r = op'[p]
  OBVIOUS
<1>4. OthersSame(p)
  BY AbortControl DEF Controlled
<1> DEFINE old == Held(p, {op[p].prev, op[p].superseded})
<1>5. CASE RetirePoints(p)
  <2>1. o.at = "retirePoints" /\ contents' = contents /\ points' \cap old \subseteq leaked'
    BY <1>1, <1>5 DEF RetirePoints
  <2>2. SameAttempt(o, r) /\ r.at = "retireContent"
    BY <1>1, <1>3, <1>5, PassesGoto, AttemptSteps DEF RetirePoints, Passes, SameRequest, Retiring
  <2>3. ASSUME NEW g \in points' \ leaked', KeepsPoints(o, g) PROVE FALSE
    <3>1. g[1] = o.kb /\ g[2] = o.doc /\ g[3] \in {o.prev, o.superseded}
      BY <2>1, <2>3 DEF KeepsPoints, Dropping
    <3>2. g \in old
      BY <1>1, <1>2, <2>3, <3>1, InHeld
    <3> QED BY <2>1, <2>3, <3>2
  <2>4. ASSUME NEW g, KeepsContents(o, g) PROVE KeepsContents(r, g)
    <3>1. g[1] = o.kb /\ g[2] = o.doc /\ g[3] \in {o.prev, o.superseded}
      BY <2>1, <2>4 DEF KeepsContents, Dropping
    <3> QED BY <2>2, <3>1 DEF KeepsContents, SameAttempt, After, Retiring, Promoted, Failing
  <2> QED BY <1>1, <1>2, <1>3, <1>4, <2>3, <2>4, HeldOn
<1>6. CASE RetireContent(p)
  <2>1. o.at = "retireContent" /\ points' = points /\ contents' \cap old \subseteq leaked'
    BY <1>1, <1>6 DEF RetireContent
  <2>2. ASSUME NEW g, KeepsPoints(o, g) PROVE FALSE
    BY <2>1, <2>2 DEF KeepsPoints, Dropping, Committing
  <2>3. ASSUME NEW g \in contents' \ leaked', KeepsContents(o, g) PROVE FALSE
    <3>1. g[1] = o.kb /\ g[2] = o.doc /\ g[3] \in {o.prev, o.superseded}
      BY <2>1, <2>3 DEF KeepsContents, Dropping
    <3>2. g \in old
      BY <1>1, <1>2, <2>3, <3>1, InHeld
    <3> QED BY <2>1, <2>3, <3>2
  <2> QED BY <1>1, <1>2, <1>3, <1>4, <2>2, <2>3, HeldOn
<1> QED BY <1>5, <1>6

\* An attempt that returns with an error, with memory as it is.
LEMMA LeaveHeld ==
    ASSUME KInv, Controlled, Stocked, PointsKept, ContentsKept, NEW p \in Procs,
           op[p].at \in Failing \cup {"undoSave"}, Leave(p, {}),
           mem'.doc = mem.doc, UNCHANGED <<points, contents>>
    PROVE  PointsKept' /\ ContentsKept'
<1>1. PICK o \in Ops : o = op[p]
  BY OpOf
<1>2. Control(o) /\ leaked \subseteq leaked' /\ OthersSame(p)
  BY <1>1, EndsLeave DEF Controlled, Leave, Ends
<1>3. PICK r : r = op'[p]
  OBVIOUS
<1>4. /\ o.at \notin Dropping \cup Committing \cup Promoted
      /\ o.at \notin {"retirePoints", "capture", "commit", "commitUndo", "abortPoints",
                      "abortContent", "deleteSave", "deleteUndo", "deleteContent"}
  BY <1>1 DEF Failing, Dropping, Committing, Promoted, Retiring
<1>5. ASSUME NEW g \in points' \cup contents', KeepsPoints(o, g) \/ KeepsContents(o, g)
      PROVE  g \in leaked'
  <2>1. /\ g[1] = o.kb /\ g[2] = o.doc /\ g[3] = o.superseded
        /\ o.at \in Failing => o.receipt # "points"
    BY <1>4, <1>5 DEF KeepsPoints, KeepsContents
  <2>2. o.receipt # "points"
    BY <1>1, <1>2, <2>1 DEF Control, Beginning
  <2> QED BY <1>1, <1>5, <2>1, <2>2, LeaveLeaks
<1> QED BY <1>1, <1>2, <1>3, <1>5, HeldOn

LEMMA ReturnsHeld ==
    ASSUME KInv, Controlled, Stocked, PointsKept, ContentsKept, NEW p \in Procs,
           UndoSave(p) \/ FailSave(p)
    PROVE  PointsKept' /\ ContentsKept'
<1>1. op[p].at \in Failing \cup {"undoSave"} /\ UNCHANGED <<mem, points, contents>>
  BY DEF UndoSave, FailSave, Failing, stores
<1>2. CASE Leave(p, {})
  BY <1>1, <1>2, LeaveHeld
<1>3. CASE Goto(p, "failUndo") /\ op[p].at = "failSave" /\ UNCHANGED leaked
  BY <1>1, <1>3, KeepPaths, AttemptSteps, GotoHeld DEF Begun
<1> QED BY <1>2, <1>3 DEF UndoSave, FailSave

LEMMA DeleteHeld ==
    ASSUME KInv, Controlled, Stocked, PointsKept, ContentsKept, NEW p \in Procs,
           DeleteSave(p) \/ DeleteContent(p)
    PROVE  PointsKept' /\ ContentsKept'
<1>1. PICK o \in Ops : o = op[p]
  BY OpOf
<1>2. /\ o.at \in {"deleteSave", "deleteContent"} /\ UNCHANGED <<mem, points>>
      /\ contents' \subseteq contents /\ leaked \subseteq leaked'
  BY <1>1 DEF DeleteSave, DeleteContent, stores, observers
<1>3. \A g : ~KeepsPoints(o, g)
  BY <1>2 DEF KeepsPoints, Dropping, After, Begun, Retiring, Committing
<1>4. OthersSame(p)
  BY DeleteControl DEF Controlled
<1>5. PICK r : r = op'[p]
  OBVIOUS
<1>6. CASE Drops(p, "deleteContent") /\ o.at = "deleteSave"
  <2>1. SameAttempt(o, r) /\ r.at = "deleteContent"
    BY <1>1, <1>5, <1>6, PassesSaved, AttemptSteps DEF Passes, SameRequest, Removing
  <2>2. ASSUME NEW g, KeepsContents(o, g) PROVE KeepsContents(r, g)
    <3>1. g[1] = o.kb /\ g[2] = o.doc
      BY <1>6, <2>2 DEF KeepsContents, Dropping
    <3> QED BY <2>1, <3>1 DEF KeepsContents, SameAttempt
  <2> QED BY <1>1, <1>2, <1>3, <1>4, <1>5, <2>2, HeldOn
<1>7. CASE Goto(p, "deleteUndo") /\ o.at = "deleteSave"
  BY <1>1, <1>2, <1>7, KeepPaths, AttemptSteps, GotoHeld DEF Removing
<1>8. CASE DeleteContent(p)
  <2>1. o.at = "deleteContent" /\ contents' \cap Of(o.kb, o.doc) \subseteq leaked'
    BY <1>1, <1>8 DEF DeleteContent
  <2>2. ASSUME NEW g \in contents' \ leaked', KeepsContents(o, g) PROVE FALSE
    <3>1. g[1] = o.kb /\ g[2] = o.doc
      BY <2>1, <2>2 DEF KeepsContents, Dropping
    <3>2. g \in Of(o.kb, o.doc)
      BY <1>2, <2>2, <3>1, StoredIs DEF Of
    <3> QED BY <2>1, <2>2, <3>2
  <2> QED BY <1>1, <1>2, <1>3, <1>4, <1>5, <2>2, HeldOn
<1> QED BY <1>1, <1>6, <1>7, <1>8 DEF DeleteSave, SaveThen, Drops

LEMMA DropHeld ==
    ASSUME KInv, Controlled, Stocked, PointsKept, ContentsKept, NEW p \in Procs,
           DropCollection(p) \/ DropContent(p)
    PROVE  PointsKept' /\ ContentsKept'
<1>1. PICK o \in Ops : o = op[p]
  BY OpOf
<1>2. /\ o.at \in {"dropCollection", "dropContent"} /\ mem' = mem /\ points' \subseteq points
      /\ contents' \subseteq contents /\ leaked \subseteq leaked'
  BY <1>1 DEF DropCollection, DropContent
<1>3. OthersSame(p)
  BY CreateControl DEF Controlled
<1>4. PICK r : r = op'[p]
  OBVIOUS
<1>5. CASE DropCollection(p)
  <2>1. o.at = "dropCollection" /\ contents' = contents /\ points' \cap OfKB(o.kb) \subseteq leaked'
    BY <1>1, <1>5 DEF DropCollection
  <2>2. SameAttempt(o, r) /\ r.at = "dropContent" /\ r.snap = o.snap
    BY <1>1, <1>4, <1>5, PassesGoto, AttemptSteps DEF DropCollection, Passes, SameRequest, Dropping
  <2>3. ASSUME NEW g \in points' \ leaked', KeepsPoints(o, g) PROVE FALSE
    <3>1. g \in OfKB(o.kb)
      BY <1>2, <2>3, StoredIs DEF KeepsPoints, OfKB
    <3> QED BY <2>1, <2>3, <3>1
  <2>4. ASSUME NEW g, KeepsContents(o, g) PROVE KeepsContents(r, g)
    <3>1. g[1] = o.kb /\ Names(o.snap[g[2]], g[3])
      BY <2>1, <2>4 DEF KeepsContents, After, Begun, Retiring, Promoted
    <3> QED BY <2>2, <3>1 DEF KeepsContents, SameAttempt, Dropping
  <2> QED BY <1>1, <1>2, <1>3, <1>4, <2>3, <2>4, HeldOn
<1>6. CASE DropContent(p)
  <2>1. o.at = "dropContent" /\ points' = points
    BY <1>1, <1>6 DEF DropContent
  <2>2. ASSUME NEW g, KeepsPoints(o, g) PROVE FALSE
    BY <2>1, <2>2 DEF KeepsPoints, After, Begun, Retiring, Committing
  <2>3. ASSUME NEW g \in contents' \ leaked', KeepsContents(o, g) PROVE FALSE
    <3>1. g[1] = o.kb /\ Names(o.snap[g[2]], g[3])
      BY <2>1, <2>3 DEF KeepsContents, After, Begun, Retiring, Promoted
    <3>2. g \in {o.kb} \X {d \in Docs : o.snap[d].status # "none"} \X Fences
      <4>1. g = <<g[1], g[2], g[3]>> /\ g[2] \in Docs /\ g[3] \in Fences
        BY <1>2, <2>3, StoredIs
      <4> QED BY <3>1, <4>1 DEF Names
    <3> QED BY <1>1, <1>6, <2>3, <3>2 DEF DropContent
  <2> QED BY <1>1, <1>2, <1>3, <1>4, <2>2, <2>3, HeldOn
<1> QED BY <1>5, <1>6

\* A step that gives its document, which showed cur, the record s.
OwesDoc(p, o, r, cur, s) ==
    /\ \A g \in points \ leaked' :
           g[1] = o.kb /\ g[2] = o.doc /\ (Names(cur, g[3]) \/ KeepsPoints(o, g))
           => Names(s, g[3]) \/ KeepsPoints(r, g)
    /\ \A g \in contents \ leaked' :
           g[1] = o.kb /\ g[2] = o.doc /\ (Names(cur, g[3]) \/ KeepsContents(o, g))
           => Names(s, g[3]) \/ KeepsContents(r, g)

LEMMA HeldDoc ==
    ASSUME KInv, Stocked, PointsKept, ContentsKept, NEW p \in Procs, NEW o \in Ops, o = op[p],
           o.at \notin Dropping, OthersSame(p), NEW s, Puts(p, s), UNCHANGED <<points, contents>>,
           leaked \subseteq leaked', NEW r, op'[p] = r, NEW cur, cur = mem.doc[o.kb][o.doc],
           OwesDoc(p, o, r, cur, s)
    PROVE  PointsKept' /\ ContentsKept'
<1>1. ASSUME NEW g \in points \cup contents
      PROVE  /\ g[1] = o.kb /\ g[2] = o.doc
                => (InMem(g) <=> Names(cur, g[3])) /\ (InMem(g)' <=> Names(s, g[3]))
             /\ ~(g[1] = o.kb /\ g[2] = o.doc)
                => (InMem(g)' <=> InMem(g)) /\ ~KeepsPoints(o, g) /\ ~KeepsContents(o, g)
  <2>1. g[1] \in KBs /\ g[2] \in Docs
    BY StoredIs
  <2>2. mem'.doc[g[1]][g[2]] = IF g[1] = o.kb /\ g[2] = o.doc THEN s ELSE mem.doc[g[1]][g[2]]
    BY <2>1 DEF Puts
  <2> QED BY <2>2 DEF InMem, KeepsPoints, KeepsContents
<1>2. OwesPoints(p, r) /\ OwesContents(p, r)
  BY <1>1 DEF OwesDoc, OwesPoints, OwesContents
<1> QED BY <1>2, HeldCore

\* Only what the attempt wrote, where it may have written.
LEMMA OwnMissing ==
    ASSUME KInv, Stocked, NEW p \in Procs, NEW o, o = op[p], o.at # "idle",
           NEW g, g \in points \cup contents, g[1] = o.kb, g[2] = o.doc, g[3] = o.fence,
           g \notin leaked
    PROVE  /\ ~MayHavePoints(o) => g \notin points
           /\ o.at \notin Containing => g \notin contents
<1>1. g = OwnGen(o)
  BY StoredIs DEF OwnGen, Gen
<1> QED BY <1>1 DEF Stocked, OwnStored

LEMMA CommitHeld ==
    ASSUME KInv, Controlled, Stocked, PointsKept, ContentsKept, NEW p \in Procs, Commit(p)
    PROVE  PointsKept' /\ ContentsKept'
<1>1. PICK o \in Ops : o = op[p]
  BY OpOf
<1>2. /\ o.at = "commit" /\ o.at # "idle" /\ UNCHANGED <<points, contents, leaked>>
      /\ o.at \notin Dropping
  BY <1>1 DEF Commit, stores, Dropping
<1>3. CASE GivesUp(p, "abortPoints") /\ UNCHANGED mem
  BY <1>1, <1>2, <1>3, KeepPaths, AttemptSteps, GotoHeld DEF Begun
<1>4. CASE Active(p) /\ Copies(p, "commitSave")
  <2> DEFINE s == [fence |-> o.fence, marker |-> 0, status |-> "indexed", run |-> o.fence]
  <2>1. Puts(p, s)
    BY <1>1, <1>2, <1>4, PutsSet DEF Commit
  <2>2. PICK cur : cur = mem.doc[o.kb][o.doc]
    OBVIOUS
  <2>3. cur.fence = o.prev /\ cur.marker = o.fence
    BY <1>1, <1>4, <2>2 DEF Active, Current
  <2>4. PICK r : op'[p] = r /\ r.at = "commitSave" /\ SameAttempt(o, r) /\ r.receipt = o.receipt
    BY <1>1, <1>4, AttemptSteps, PassesCopying DEF Passes, SameRequest, Begun
  <2>5. OthersSame(p)
    BY CommitControl DEF Controlled
  <2>6. OwesDoc(p, o, r, cur, s)
    <3>1. ASSUME NEW g, g[1] = o.kb, g[2] = o.doc,
                 Names(cur, g[3]) \/ KeepsPoints(o, g) \/ KeepsContents(o, g)
          PROVE  g[3] \in {o.prev, o.fence, o.superseded}
      BY <1>2, <2>3, <3>1 DEF Names, KeepsPoints, KeepsContents
    <3>2. ASSUME NEW g, g[3] = o.fence PROVE Names(s, g[3])
      BY <3>2 DEF Names
    <3>3. ASSUME NEW g, g[1] = o.kb, g[2] = o.doc, g[3] \in {o.prev, o.superseded}
          PROVE  KeepsPoints(r, g) /\ KeepsContents(r, g)
      BY <2>4, <3>3 DEF KeepsPoints, KeepsContents, SameAttempt, Committing, Promoted, After, Begun, Failing
    <3> HIDE DEF s
    <3> QED BY <3>1, <3>2, <3>3 DEF OwesDoc
  <2> HIDE DEF s
  <2> QED BY <1>1, <1>2, <2>1, <2>2, <2>4, <2>5, <2>6, HeldDoc
<1> QED BY <1>3, <1>4 DEF Commit, GivesUp, Copies

LEMMA FailHeld ==
    ASSUME KInv, Controlled, Stocked, PointsKept, ContentsKept, NEW p \in Procs, Fail(p)
    PROVE  PointsKept' /\ ContentsKept'
<1>1. PICK o \in Ops : o = op[p]
  BY OpOf
<1>2. o.at = "fail" /\ o.at # "idle" /\ UNCHANGED <<points, contents>> /\ o.at \notin Dropping
  BY <1>1 DEF Fail, stores, Dropping
<1>3. CASE Leave(p, {}) /\ UNCHANGED mem
  BY <1>1, <1>2, <1>3, LeaveHeld DEF Failing
<1>4. CASE Active(p) /\ Copies(p, "failSave") /\ UNCHANGED leaked
  <2>1. PICK cur \in DocRecs : cur = Current(p)
    BY <1>1, <1>2, Found
  <2> DEFINE s == [cur EXCEPT !.status = "failed", !.marker = 0, !.run = o.fence]
  <2>2. s.status = "failed" /\ s.fence = cur.fence
    BY DEF DocRecs
  <2>3. Puts(p, s)
    BY <1>1, <1>2, <1>4, <2>1, PutsSet DEF Fail, Copies, Leave
  <2> HIDE DEF s
  <2>4. cur.marker = o.fence /\ cur = mem.doc[o.kb][o.doc]
    BY <1>1, <1>4, <2>1 DEF Active, Current
  <2>5. PICK r : op'[p] = r /\ r.at = "failSave" /\ SameAttempt(o, r) /\ r.receipt = o.receipt
    BY <1>1, <1>4, AttemptSteps, PassesCopying DEF Passes, SameRequest, Begun
  <2>6. OthersSame(p)
    BY CommitControl DEF Controlled
  <2>7. "fail" \notin Containing /\ ~MayHavePoints(o)
    BY <1>2 DEF Containing, MayHavePoints, Pointing, Promoted, Retiring
  <2>8. ASSUME NEW g \in points \cup contents, g \notin leaked, g[1] = o.kb, g[2] = o.doc,
               Names(cur, g[3]), ~Names(s, g[3])
        PROVE  FALSE
    <3>1. g[3] = o.fence
      BY <2>2, <2>4, <2>8 DEF Names
    <3> QED BY <1>1, <1>2, <2>7, <2>8, <3>1, OwnMissing
  <2>9. ASSUME NEW g
        PROVE  /\ KeepsPoints(o, g) => KeepsPoints(r, g)
               /\ KeepsContents(o, g) => KeepsContents(r, g)
    <3>1. KeepOn("fail", "failSave")
      BY DEF KeepOn, Dropping, After, Begun, Retiring, Failing, Promoted, Committing
    <3> QED BY <1>1, <1>2, <2>5, <3>1, KeepsOn DEF Controlled
  <2>10. OwesDoc(p, o, r, cur, s)
    BY <1>4, <2>8, <2>9 DEF OwesDoc
  <2> QED BY <1>1, <1>2, <1>4, <2>3, <2>4, <2>5, <2>6, <2>10, HeldDoc
<1> QED BY <1>3, <1>4 DEF Fail, Copies

LEMMA RemoveHeld ==
    ASSUME KInv, Controlled, Stocked, PointsKept, ContentsKept, NEW p \in Procs, DeleteRemove(p)
    PROVE  PointsKept' /\ ContentsKept'
<1>1. PICK o \in Ops : o = op[p]
  BY OpOf
<1>2. /\ o.at = "deleteRemove" /\ UNCHANGED <<points, contents, leaked>> /\ o.at \notin Dropping
      /\ o.at \in Unaware
  BY <1>1 DEF DeleteRemove, stores, Dropping, Unaware
<1>3. OthersSame(p)
  BY DeleteControl DEF Controlled
<1>4. CASE UNCHANGED mem
  BY <1>1, <1>2, <1>3, <1>4, HeldUnaware
<1>5. CASE SetCurrent(p, NoDoc) /\ Copies(p, "deleteSave")
  <2>1. Puts(p, NoDoc)
    BY <1>5, PutsSet
  <2>2. PICK r : op'[p] = r /\ r.at = "deleteSave" /\ SameAttempt(o, r) /\ r.snap = mem.doc[o.kb]
    BY <1>1, <1>5, AttemptSteps, PassesCopying DEF Passes, SameRequest, Removing
  <2>3. PICK cur : cur = mem.doc[o.kb][o.doc]
    OBVIOUS
  <2>4. ASSUME NEW g \in points PROVE ~(g[1] = o.kb /\ g[2] = o.doc)
    <3>1. points \cap Of(o.kb, o.doc) = {}
      BY <1>1, <1>2 DEF Stocked, Pointless, Emptied
    <3> QED BY <3>1, StoredIs DEF Of
  <2>5. ASSUME NEW g, g[1] = o.kb, g[2] = o.doc, Names(cur, g[3]) PROVE KeepsContents(r, g)
    BY <2>2, <2>3, <2>5 DEF KeepsContents, SameAttempt
  <2>6. OwesDoc(p, o, r, cur, NoDoc)
    BY <1>2, <2>4, <2>5, KeepsNothing DEF OwesDoc
  <2> QED BY <1>1, <1>2, <1>3, <2>1, <2>2, <2>3, <2>6, HeldDoc
<1> QED BY <1>4, <1>5 DEF DeleteRemove, Copies

\* A marker that an attempt takes the place of is its superseded generation.
LEMMA BeginHeld ==
    ASSUME KInv, Controlled, Stocked, PointsKept, ContentsKept, NEW p \in Procs, Begin(p)
    PROVE  PointsKept' /\ ContentsKept'
<1>1. PICK o \in Ops : o = op[p]
  BY OpOf
<1>2. /\ o.at = "reserved" /\ o.at # "idle" /\ o.at \in Unaware /\ o.at \notin Dropping
      /\ UNCHANGED <<points, contents, leaked>>
  BY <1>1 DEF Begin, Unaware, Dropping, stores, observers
<1>3. OthersSame(p)
  BY BeginIs
<1>4. CASE UNCHANGED mem
  BY <1>1, <1>2, <1>3, <1>4, HeldUnaware
<1>5. CASE \E r : BeginsOn(p, Current(p), r)
  <2>1. PICK r : BeginsOn(p, Current(p), r)
    BY <1>5
  <2>2. PICK cur \in DocRecs : cur = Current(p)
    BY <1>1, <1>2, Found
  <2>3. op'[p] = r /\ r.kb = o.kb /\ r.doc = o.doc /\ r.at = "beginSave" /\ cur = mem.doc[o.kb][o.doc]
    BY <1>1, <2>1, <2>2 DEF BeginsOn, SameIds, Current
  <2>4. \A g : ~KeepsPoints(o, g) /\ ~KeepsContents(o, g)
    BY <1>2, KeepsNothing
  <2>5. CASE Has(mem, o.kb, o.doc)
    <3> DEFINE s == [cur EXCEPT !.marker = o.fence]
    <3>1. Puts(p, s) /\ r.superseded = cur.marker
      BY <1>1, <2>1, <2>2, <2>5, PutsSet DEF BeginsOn
    <3>2. s.fence = cur.fence /\ s.status = cur.status
      BY DEF DocRecs
    <3> HIDE DEF s
    <3>3. ASSUME NEW g, g[1] = o.kb, g[2] = o.doc, g[3] = cur.marker
          PROVE  KeepsPoints(r, g) /\ KeepsContents(r, g)
      BY <2>3, <3>1, <3>3 DEF KeepsPoints, KeepsContents, After, Failing
    <3>4. OwesDoc(p, o, r, cur, s)
      BY <2>4, <3>2, <3>3 DEF OwesDoc, Names
    <3> QED BY <1>1, <1>2, <1>3, <2>3, <3>1, <3>4, HeldDoc
  <2>6. CASE ~Has(mem, o.kb, o.doc)
    <3>1. PICK s : Puts(p, s)
      BY <1>1, <2>1, <2>6, PutsSet DEF BeginsOn
    <3>2. \A f : ~Names(cur, f)
      BY <1>1, <2>1, <2>3, <2>6 DEF BeginsOn, Has, Names
    <3>3. OwesDoc(p, o, r, cur, s)
      BY <2>4, <3>2 DEF OwesDoc
    <3> QED BY <1>1, <1>2, <1>3, <2>3, <3>1, <3>3, HeldDoc
  <2> QED BY <2>5, <2>6
<1> QED BY <1>4, <1>5, BeginIs

LEMMA BeginUndoHeld ==
    ASSUME KInv, Controlled, Stocked, Filed, PointsKept, ContentsKept, NEW p \in Procs, BeginUndo(p)
    PROVE  PointsKept' /\ ContentsKept'
<1>1. PICK o \in Ops : o = op[p]
  BY OpOf
<1>2. /\ o.at = "beginUndo" /\ o.at # "idle" /\ o.at \notin Dropping
      /\ UNCHANGED <<points, contents, leaked>> /\ Goto(p, "undoSave")
  BY <1>1 DEF BeginUndo, Dropping, stores, observers
<1>3. KeepOn("beginUndo", "undoSave") /\ "undoSave" \in Steps
  BY AttemptSteps DEF KeepOn, Dropping, After, Begun, Retiring, Failing, Promoted, Committing, Beginning
<1>4. CASE UNCHANGED mem
  BY <1>1, <1>2, <1>3, <1>4, GotoHeld
<1>5. PICK r : op'[p] = r /\ SameAttempt(o, r) /\ r.at = "undoSave" /\ r.snap = o.snap /\ r.receipt = o.receipt
  BY <1>1, <1>2, <1>3, PassesGoto DEF Passes, SameRequest
<1>6. OthersSame(p)
  BY BeginSaveControl DEF Controlled
<1>7. ASSUME NEW g
      PROVE  /\ KeepsPoints(o, g) => KeepsPoints(r, g)
             /\ KeepsContents(o, g) => KeepsContents(r, g)
  BY <1>1, <1>2, <1>3, <1>5, KeepsOn DEF Controlled
<1>8. "beginUndo" \notin Containing /\ ~MayHavePoints(o)
  BY <1>2 DEF Containing, MayHavePoints, Pointing, Promoted, Retiring
<1>9. PICK cur : cur = mem.doc[o.kb][o.doc]
  OBVIOUS
<1>10. CASE /\ cur.marker = o.fence
            /\ SetCurrent(p, IF o.new THEN NoDoc ELSE o.snap[o.doc])
  <2> DEFINE s == IF o.new THEN NoDoc ELSE o.snap[o.doc]
  <2>1. Puts(p, s)
    BY <1>10, PutsSet
  <2>2. IF o.new THEN cur.fence = 0 ELSE s.status # "none" /\ s.fence = cur.fence
    <3>1. mode = "faultySaves"
      BY <1>1, <1>2, UndoAlone DEF Undoing
    <3> QED BY <1>1, <1>2, <1>9, <3>1 DEF Filed, Copied, BeginCopy
  <2> HIDE DEF s
  <2>3. ASSUME NEW g \in points \cup contents, g \notin leaked, g[1] = o.kb, g[2] = o.doc,
               Names(cur, g[3]), ~Names(s, g[3])
        PROVE  FALSE
    <3>1. g[3] # 0
      BY StoredIs
    <3>2. g[3] = o.fence
      BY <1>10, <2>2, <2>3, <3>1 DEF Names
    <3> QED BY <1>1, <1>2, <1>8, <2>3, <3>2, OwnMissing
  <2>4. OwesDoc(p, o, r, cur, s)
    BY <1>2, <1>7, <2>3 DEF OwesDoc
  <2> QED BY <1>1, <1>2, <1>5, <1>6, <1>9, <2>1, <2>4, HeldDoc
<1> QED BY <1>1, <1>4, <1>9, <1>10 DEF BeginUndo, Current

\* The failure is taken back in memory: the document shows what it showed.
LEMMA FailUndoHeld ==
    ASSUME KInv, Controlled, Stocked, Filed, PointsKept, ContentsKept, NEW p \in Procs, FailUndo(p)
    PROVE  PointsKept' /\ ContentsKept'
<1>1. PICK o \in Ops : o = op[p]
  BY OpOf
<1>2. /\ o.at = "failUndo" /\ o.at # "idle" /\ o.at \notin Dropping /\ o.at \in Failing
      /\ UNCHANGED <<points, contents>> /\ Leave(p, {})
  BY <1>1 DEF FailUndo, Dropping, stores, Failing
<1>3. CASE UNCHANGED mem
  BY <1>1, <1>2, <1>3, LeaveHeld
<1>4. CASE SetCurrent(p, Restored(p))
  <2>1. PICK s : s = Restored(p) /\ Puts(p, s)
    BY <1>4, PutsSet
  <2>2. PICK cur : cur = mem.doc[o.kb][o.doc]
    OBVIOUS
  <2>3. /\ o.snap[o.doc].status # "none" /\ o.snap[o.doc].fence = cur.fence /\ cur.marker = 0
        /\ o.new => o.snap[o.doc].fence = 0
    <3>1. mode = "faultySaves"
      BY <1>1, <1>2, UndoAlone DEF Undoing
    <3> QED BY <1>1, <1>2, <2>2, <3>1 DEF Filed, Copied, FailCopy
  <2>4. ~o.new => s.status # "none" /\ s.fence = cur.fence
    <3>1. o.snap[o.doc] \in DocRecs
      BY OpFields
    <3> QED BY <1>1, <2>1, <2>3, <3>1 DEF Restored, DocRecs
  <2>5. PICK r : op'[p] = r
    OBVIOUS
  <2>6. OthersSame(p) /\ leaked \subseteq leaked'
    BY <1>2, EndsLeave DEF Ends, Leave
  <2>7. ASSUME NEW g \in points \cup contents, g[1] = o.kb, g[2] = o.doc, Names(cur, g[3])
        PROVE  Names(s, g[3])
    <3>1. g[3] # 0
      BY StoredIs
    <3> QED BY <2>3, <2>4, <2>7, <3>1 DEF Names
  <2>8. ASSUME NEW g \in points \cup contents, KeepsPoints(o, g) \/ KeepsContents(o, g)
        PROVE  g \in leaked'
    <3>1. g[1] = o.kb /\ g[2] = o.doc /\ g[3] = o.superseded /\ o.receipt # "points"
      BY <1>2, <2>8 DEF KeepsPoints, KeepsContents, Dropping, Committing, Promoted, Retiring, Failing
    <3> QED BY <1>1, <1>2, <2>8, <3>1, LeaveLeaks
  <2>9. OwesDoc(p, o, r, cur, s)
    BY <2>7, <2>8 DEF OwesDoc
  <2> QED BY <1>1, <1>2, <2>1, <2>2, <2>5, <2>6, <2>9, HeldDoc
<1> QED BY <1>3, <1>4 DEF FailUndo

\* The commit is taken back in memory: the attempt still has its generation to
\* remove, and the document shows the one it replaced.
LEMMA CommitUndoHeld ==
    ASSUME KInv, Controlled, Stocked, Filed, PointsKept, ContentsKept, NEW p \in Procs, CommitUndo(p)
    PROVE  PointsKept' /\ ContentsKept'
<1>1. PICK o \in Ops : o = op[p]
  BY OpOf
<1>2. /\ o.at = "commitUndo" /\ o.at # "idle" /\ o.at \notin Dropping
      /\ UNCHANGED <<points, contents, leaked>> /\ GivesUp(p, "abortPoints")
  BY <1>1 DEF CommitUndo, Dropping, stores, GivesUp
<1>3. mode = "faultySaves" /\ Control(o) /\ OpSound(o)
  BY <1>1, <1>2, UndoAlone DEF Undoing, Controlled
<1>4. PICK cur : cur = mem.doc[o.kb][o.doc] /\ cur = Current(p)
  BY <1>1 DEF Current
<1>5. cur.status # "none" /\ o.snap[o.doc].status # "none" /\ o.snap[o.doc].fence = o.prev
  BY <1>1, <1>2, <1>3, <1>4 DEF Filed, Copied, CommitCopy, Committing
<1>6. cur.fence = o.fence /\ cur.marker = 0 /\ cur.run = o.fence
  BY <1>2, <1>3, <1>4, <1>5 DEF OpSound, Holds, Promoted
<1>7. Has(mem, o.kb, o.doc)
  <2>1. o.kb \in KBs /\ o.doc \in Docs
    BY OpFields
  <2> QED BY <1>4, <1>5, <2>1 DEF Has, KInv, Global, StateSound
<1>8. PICK s : s = Restored(p) /\ Puts(p, s)
  BY <1>1, <1>2, <1>4, <1>6, <1>7, PutsSet DEF CommitUndo
<1>9. ~o.new => s.status # "none" /\ s.fence = o.prev
  <2>1. o.snap[o.doc] \in DocRecs
    BY OpFields
  <2> QED BY <1>1, <1>5, <1>8, <2>1 DEF Restored, DocRecs
<1>10. o.receipt = "points" /\ (o.new => o.prev = 0)
  BY <1>2, <1>3 DEF Control, Listed, Promoted
<1>11. PICK r : op'[p] = r /\ SameAttempt(o, r) /\ r.at = "abortPoints" /\ r.receipt = "points"
  BY <1>1, <1>2, <1>10, PassesBack, AttemptSteps DEF Passes, SameRequest, Begun
<1>12. OthersSame(p)
  BY CommitControl DEF Controlled
<1>13. ASSUME NEW g \in points \cup contents, g[1] = o.kb, g[2] = o.doc,
              Names(cur, g[3]) \/ KeepsPoints(o, g) \/ KeepsContents(o, g)
       PROVE  Names(s, g[3]) \/ (KeepsPoints(r, g) /\ KeepsContents(r, g))
  <2>1. g[3] # 0
    BY StoredIs
  <2>2. g[3] \in {o.fence, o.prev, o.superseded}
    BY <1>2, <1>6, <1>13, <2>1 DEF Names, KeepsPoints, KeepsContents
  <2>3. CASE g[3] \in {o.fence, o.superseded}
    BY <1>11, <1>13, <2>3 DEF KeepsPoints, KeepsContents, SameAttempt, After, Begun, Failing
  <2>4. CASE g[3] = o.prev
    BY <1>9, <1>10, <2>1, <2>4 DEF Names
  <2> QED BY <2>2, <2>3, <2>4
<1>14. OwesDoc(p, o, r, cur, s)
  BY <1>13 DEF OwesDoc
<1> QED BY <1>1, <1>2, <1>4, <1>8, <1>11, <1>12, <1>14, HeldDoc
-----------------------------------------------------------------------------
(* Knowledge bases *)

LEMMA StartHeld ==
    ASSUME KInv, Controlled, Stocked, PointsKept, ContentsKept, NEW p \in Procs,
           \/ \E k \in KBs, d \in Docs : StartIndex(p, k, d) \/ StartOnDocument(p, k, d)
           \/ \E k \in KBs : CreateKB(p, k)
    PROVE  PointsKept' /\ ContentsKept'
<1>1. /\ mem'.doc = mem.doc /\ op[p].at = "idle" /\ UNCHANGED <<points, contents, leaked>>
      /\ \E kind, k, d, snap, at : Start(p, kind, k, d, at, snap)
  <2>1. mem = [kbs |-> mem.kbs, doc |-> mem.doc]
    BY DEF KInv, KTypes, States
  <2> QED BY <2>1 DEF StartIndex, StartOnDocument, CreateKB, CanStart, stores, observers
<1>2. OthersSame(p) /\ op[p].at \in Unaware
  BY <1>1, StartIs DEF Unaware
<1> QED BY <1>1, <1>2, HeldUnaware

\* A step on the whole knowledge base of a request, of which the others' stay.
LEMMA HeldBase ==
    ASSUME KInv, Stocked, PointsKept, ContentsKept, NEW p \in Procs, NEW k \in KBs, OthersSame(p),
           NEW snap, \A j \in KBs, d \in Docs : mem'.doc[j][d] = IF j = k THEN snap[d] ELSE mem.doc[j][d],
           UNCHANGED <<points, contents>>, leaked \subseteq leaked', NEW r, op'[p] = r,
           \A g : g[1] # k => ~KeepsPoints(op[p], g) /\ ~KeepsContents(op[p], g),
           \A g \in points \ leaked' :
               g[1] = k /\ (InMem(g) \/ KeepsPoints(op[p], g)) => Names(snap[g[2]], g[3]) \/ KeepsPoints(r, g),
           \A g \in contents \ leaked' :
               g[1] = k /\ (InMem(g) \/ KeepsContents(op[p], g)) => Names(snap[g[2]], g[3]) \/ KeepsContents(r, g)
    PROVE  PointsKept' /\ ContentsKept'
<1>1. ASSUME NEW g \in points \cup contents
      PROVE  /\ g[1] = k => (InMem(g)' <=> Names(snap[g[2]], g[3]))
             /\ g[1] # k => (InMem(g)' <=> InMem(g))
  <2>1. g[1] \in KBs /\ g[2] \in Docs
    BY StoredIs
  <2> QED BY <2>1 DEF InMem
<1>2. OwesPoints(p, r) /\ OwesContents(p, r)
  BY <1>1 DEF OwesPoints, OwesContents
<1> QED BY <1>2, HeldCore

LEMMA DropKBHeld ==
    ASSUME KInv, Controlled, Stocked, PointsKept, ContentsKept, NEW p \in Procs, NEW k \in KBs,
           DropKB(p, k)
    PROVE  PointsKept' /\ ContentsKept'
<1>1. /\ op[p].at = "idle" /\ UNCHANGED <<points, contents, leaked>> /\ mem' = Without(mem, k)
      /\ Start(p, "drop", k, AnyDoc, "dropSave", mem.doc[k])
  BY DEF DropKB, CanStart, stores
<1>2. OthersSame(p) /\ \E r : op'[p] = r /\ r.at = "dropSave" /\ r.kb = k /\ r.snap = mem.doc[k]
  BY <1>1, StartIs
<1>3. PICK r : op'[p] = r /\ r.at = "dropSave" /\ r.kb = k /\ r.snap = mem.doc[k]
  BY <1>2
<1>4. \A j \in KBs, d \in Docs : mem'.doc[j][d] = IF j = k THEN NoDocs[d] ELSE mem.doc[j][d]
  BY <1>1, WithoutTakes DEF NoDocs
<1>5. \A g : ~KeepsPoints(op[p], g) /\ ~KeepsContents(op[p], g)
  BY <1>1, KeepsNothing DEF Unaware
<1>6. ASSUME NEW g, g[1] = k, InMem(g) PROVE KeepsPoints(r, g) /\ KeepsContents(r, g)
  BY <1>3, <1>6 DEF InMem, KeepsPoints, KeepsContents, Dropping
<1> QED BY <1>1, <1>2, <1>3, <1>4, <1>5, <1>6, HeldBase

LEMMA CreateUndoHeld ==
    ASSUME KInv, Controlled, Stocked, PointsKept, ContentsKept, NEW p \in Procs, CreateUndo(p)
    PROVE  PointsKept' /\ ContentsKept'
<1>1. PICK o \in Ops : o = op[p]
  BY OpOf
<1>2. /\ o.at = "createUndo" /\ o.at \in Unaware /\ UNCHANGED <<points, contents>>
      /\ leaked' = leaked \cup ((points \cup contents) \cap OfKB(o.kb))
      /\ mem' = Without(mem, o.kb) /\ Return(p) /\ o.kb \in KBs
  BY <1>1, OpFields DEF CreateUndo, stores, Unaware
<1>3. OthersSame(p)
  BY <1>2, EndsReturn DEF Ends
<1>4. PICK r : op'[p] = r
  OBVIOUS
<1>5. \A j \in KBs, d \in Docs : mem'.doc[j][d] = IF j = o.kb THEN NoDocs[d] ELSE mem.doc[j][d]
  BY <1>2, WithoutTakes DEF NoDocs
<1>6. \A g : ~KeepsPoints(op[p], g) /\ ~KeepsContents(op[p], g)
  BY <1>1, <1>2, KeepsNothing
<1>7. ASSUME NEW g \in points \cup contents, g[1] = o.kb PROVE g \in leaked'
  BY <1>2, <1>7, StoredIs DEF OfKB
<1> QED BY <1>2, <1>3, <1>4, <1>5, <1>6, <1>7, HeldBase

\* The copy that a deletion puts back names what memory and the request named.
LEMMA PutsBackHeld ==
    ASSUME KInv, Controlled, Stocked, Filed, PointsKept, ContentsKept, NEW p \in Procs,
           DeleteUndo(p) \/ DropUndo(p)
    PROVE  PointsKept' /\ ContentsKept'
<1>1. PICK o \in Ops : o = op[p]
  BY OpOf
<1>2. /\ o.at \in {"deleteUndo", "dropUndo"} /\ UNCHANGED <<points, contents, leaked>> /\ Return(p)
      /\ mem' = [mem EXCEPT !.kbs = @ \cup {o.kb}, !.doc[o.kb] = o.snap]
      /\ o.kb \in KBs /\ o.doc \in Docs
  BY <1>1, OpFields DEF DeleteUndo, DropUndo, stores, observers
<1>3. mode = "faultySaves" /\ OpSound(o) /\ o.at # "idle"
  <2>1. o.at \in Undoing
    BY <1>2 DEF Undoing
  <2> QED BY <1>1, <2>1, UndoAlone
<1>4. OthersSame(p)
  BY <1>2, EndsReturn DEF Ends
<1>5. PICK r : op'[p] = r
  OBVIOUS
<1>6. \A j \in KBs, d \in Docs : mem'.doc[j][d] = IF j = o.kb THEN o.snap[d] ELSE mem.doc[j][d]
  <2>1. mem'.doc = [mem.doc EXCEPT ![o.kb] = o.snap] /\ mem.doc \in [KBs -> [Docs -> DocRecs]]
    BY <1>2 DEF KInv, KTypes, States
  <2> QED BY <1>2, <2>1
<1>7. ASSUME NEW g \in points \cup contents, g[1] = o.kb, InMem(g) PROVE Names(o.snap[g[2]], g[3])
  <2>1. g[2] \in Docs
    BY StoredIs
  <2>2. CASE o.at = "dropUndo"
    <3>1. mem.doc[o.kb][g[2]].status = "none"
      BY <1>2, <1>3, <2>1, <2>2 DEF OpSound, Dropped, Dropping, KInv, Global, StateSound
    <3> QED BY <1>7, <3>1 DEF InMem, Names
  <2>3. CASE o.at = "deleteUndo"
    <3>1. mem.doc[o.kb][o.doc].status = "none"
      BY <1>3, <2>3 DEF OpSound, Removed, Removing
    <3>2. \A d \in Docs : d # o.doc => mem.doc[o.kb][d] = o.snap[d]
      BY <1>1, <1>3, <2>3 DEF Filed, Copied, DeleteCopy
    <3> QED BY <1>7, <2>1, <3>1, <3>2 DEF InMem, Names
  <2> QED BY <1>2, <2>2, <2>3
<1>8. ASSUME NEW g, KeepsPoints(o, g) \/ KeepsContents(o, g)
      PROVE  g[1] = o.kb /\ Names(o.snap[g[2]], g[3])
  <2>1. o.at \notin After \cup Committing \cup Promoted
    BY <1>2 DEF After, Begun, Retiring, Committing, Promoted
  <2>2. o.at \notin {"retirePoints", "capture", "commit", "commitUndo", "abortPoints",
                     "abortContent", "deleteContent"}
    BY <1>2
  <2> QED BY <1>8, <2>1, <2>2 DEF KeepsPoints, KeepsContents
<1> QED BY <1>1, <1>2, <1>4, <1>5, <1>6, <1>7, <1>8, HeldBase
-----------------------------------------------------------------------------
(* A crash *)

\* What a request knew of the file does not name: it is lost with the request.
LEMMA KeptIsLost ==
    ASSUME KInv, Controlled, Stocked, Marking, Filed, NEW p \in Procs,
           NEW g \in points \cup contents, KeepsPoints(op[p], g) \/ KeepsContents(op[p], g)
    PROVE  g \in Lost(p) \/ Names(disk.doc[g[1]][g[2]], g[3])
<1>1. PICK o \in Ops : o = op[p]
  BY OpOf
<1>2. g[1] = o.kb /\ g \in Gens /\ g[3] # 0 /\ o.kb \in KBs /\ o.doc \in Docs
  BY <1>1, StoredIs, OpFields DEF KeepsPoints, KeepsContents
<1>3. o.at # "idle" /\ OpSound(o) /\ Control(o)
  <2>1. o.at \notin Unaware
    BY <1>1, KeepsNothing
  <2> QED BY <1>1, <2>1 DEF Unaware, Controlled, KInv, OpSound
<1>4. CASE o.at \in Dropping
  <2>1. o.kind = "drop"
    BY <1>3, <1>4 DEF Control
  <2> QED BY <1>1, <1>2, <2>1 DEF Lost, OfKB
<1>5. CASE o.at \in Removing /\ g[2] = o.doc
  <2>1. o.kind = "delete"
    BY <1>3, <1>5 DEF Control, Deleting
  <2> QED BY <1>1, <1>2, <1>5, <2>1 DEF Lost, Of
<1>6. CASE o.at \in After /\ g[2] = o.doc
  <2>1. /\ o.kind \in {"index", "reindex"} /\ o.kind # "delete" /\ o.kind # "drop"
    BY <1>3, <1>6 DEF Control, Attempts
  <2>2. ASSUME NEW fs, g[3] \in fs PROVE g \in Held(p, fs)
    BY <1>1, <1>2, <1>6, <2>2, InHeld
  <2> DEFINE fs == {o.superseded} \cup (IF o.at \in Retiring \cup {"commitSave"} THEN {o.prev} ELSE {})
                   \cup (IF Has(disk, o.kb, o.doc) THEN {} ELSE {o.fence})
  <2>3. g[3] \in fs => g \in Lost(p)
    <3>1. Lost(p) = Held(p, fs)
      BY <1>1, <2>1 DEF Lost
    <3> QED BY <2>2, <3>1
  <2>4. disk.doc[o.kb][o.doc].status # "none" => Has(disk, o.kb, o.doc)
    BY <1>2 DEF Has, KInv, Global, StateSound
  <2>5. CASE g[3] = o.superseded
    BY <2>3, <2>5
  <2>6. CASE g[3] = o.prev /\ o.at \in Retiring \cup {"commitSave"}
    BY <2>3, <2>6
  <2>7. CASE g[3] = o.prev /\ o.at = "commitUndo"
    <3>1. mode = "faultySaves"
      BY <1>1, <2>7, UndoAlone DEF Undoing
    <3>2. o.snap[o.doc].status # "none" /\ o.snap[o.doc].fence = o.prev
      BY <1>1, <2>7, <3>1 DEF Filed, Copied, CommitCopy, Committing
    <3>3. InFile(o.kb, o.doc, o.prev)
      BY <1>1, <1>2, <2>7, <3>1, <3>2 DEF Filed, Copied, CopySaved, Remembering, RecordSaved
    <3> QED BY <1>2, <1>6, <2>7, <3>3 DEF InFile
  <2>8. CASE g[3] = o.fence /\ o.at \in {"capture", "commit", "commitUndo"} \cup Aborting
    <3>1. o.at \in Writing \cup Aborting \cup {"commitUndo"}
      BY <2>8 DEF Writing
    <3>2. Marked(disk, o)
      BY <1>1, <3>1 DEF Marking, DiskMarked
    <3>3. CASE disk.doc[o.kb][o.doc].status = "none"
      <4>1. ~Has(disk, o.kb, o.doc)
        BY <3>3 DEF Has
      <4> QED BY <2>3, <2>8, <4>1
    <3>4. CASE disk.doc[o.kb][o.doc].status # "none" /\ disk.doc[o.kb][o.doc].marker = o.fence
      BY <1>2, <1>6, <2>8, <3>4 DEF Names
    <3> QED BY <3>2, <3>3, <3>4 DEF Marked
  <2> HIDE DEF fs
  <2>9. o.at \notin Dropping \cup Removing
    BY <1>6 DEF After, Begun, Retiring, Dropping, Removing
  <2>10. \/ g[3] = o.superseded
         \/ g[3] = o.prev /\ o.at \in Committing \cup Promoted \cup {"retirePoints"}
         \/ g[3] = o.fence /\ o.at \in {"capture", "commit", "commitUndo"} \cup Aborting
    BY <1>1, <2>9 DEF KeepsPoints, KeepsContents, Removing, Aborting
  <2> QED BY <2>5, <2>6, <2>7, <2>8, <2>10 DEF Committing, Promoted, Retiring
<1>7. o.at \in Dropping \/ (g[2] = o.doc /\ o.at \in Removing \cup After)
  BY <1>1 DEF KeepsPoints, KeepsContents, Removing, After, Begun, Retiring, Committing, Promoted
<1> QED BY <1>4, <1>5, <1>6, <1>7

\* What memory named the file names, or no store holds it yet.
LEMMA NamedIsFiled ==
    ASSUME KInv, Stocked, Filed, NEW g \in points \cup contents, g \notin leaked, InMem(g)
    PROVE  Names(disk.doc[g[1]][g[2]], g[3])
<1>1. g[1] \in KBs /\ g[2] \in Docs /\ g[3] # 0
  BY StoredIs
<1>2. InFile(g[1], g[2], g[3]) \/ AboutToSave(g[1], g[2], g[3])
  <2>1. DocSaved(g[1], g[2], mem.doc[g[1]][g[2]])
    BY <1>1 DEF Filed, MemSaved
  <2> QED BY <2>1 DEF DocSaved, InMem, Names
<1>3. ~AboutToSave(g[1], g[2], g[3])
  <2> SUFFICES ASSUME NEW p \in Procs, op[p].at \in {"beginSave", "beginUndo"}, op[p].kb = g[1],
                      op[p].doc = g[2], op[p].fence = g[3]
               PROVE  FALSE
    BY DEF AboutToSave
  <2>1. PICK o : o = op[p]
    OBVIOUS
  <2>2. o.at # "idle" /\ o.at \notin Containing /\ ~MayHavePoints(o)
    BY <2>1 DEF Containing, MayHavePoints, Pointing, Promoted, Retiring
  <2> QED BY <2>1, <2>2, OwnMissing
<1> QED BY <1>1, <1>2, <1>3 DEF InFile

LEMMA CrashHeld ==
    ASSUME KInv, Controlled, Stocked, Marking, Filed, PointsKept, ContentsKept, CrashRestart
    PROVE  PointsKept' /\ ContentsKept'
<1>1. /\ UNCHANGED <<points, contents>>
      /\ leaked' = leaked \cup ((points \cup contents) \cap UNION {Lost(p) : p \in Procs})
  BY DEF CrashRestart
<1>2. mem'.doc = disk.doc
  BY DEF CrashRestart, KInv, KTypes, States
<1>3. \A g : InMem(g)' <=> Names(disk.doc[g[1]][g[2]], g[3])
  BY <1>2 DEF InMem
<1>4. ASSUME NEW g \in points \cup contents, g \notin leaked',
             InMem(g) \/ \E p \in Procs : KeepsPoints(op[p], g) \/ KeepsContents(op[p], g)
      PROVE  InMem(g)'
  <2>1. g \notin leaked /\ \A p \in Procs : g \notin Lost(p)
    BY <1>1, <1>4
  <2> QED BY <1>3, <1>4, <2>1, NamedIsFiled, KeptIsLost
<1>5. PointsKept'
  BY <1>1, <1>4 DEF PointsKept
<1>6. ContentsKept'
  BY <1>1, <1>4 DEF ContentsKept
<1> QED BY <1>5, <1>6

LEMMA NextHeld ==
    ASSUME KInv, Controlled, Stocked, Marking, Filed, PointsKept, ContentsKept, [Next]_vars
    PROVE  PointsKept' /\ ContentsKept'
<1>1. ASSUME NEW p \in Procs, Step(p) PROVE PointsKept' /\ ContentsKept'
  <2>1. CASE \E k \in KBs : CreateKB(p, k) \/ DropKB(p, k)
    BY <2>1, StartHeld, DropKBHeld
  <2>2. CASE \/ \E k \in KBs, d \in Docs : StartIndex(p, k, d) \/ StartOnDocument(p, k, d)
             \/ Reserve(p) \/ Begin(p) \/ BeginSave(p) \/ BeginUndo(p) \/ UndoSave(p)
    BY <2>2, StartHeld, UnawareHeld, BeginHeld, SaveHeld, BeginUndoHeld, ReturnsHeld
  <2>3. CASE \/ Work(p) \/ EnsureCollection(p) \/ Scroll(p) \/ Upsert(p) \/ Capture(p)
             \/ Commit(p) \/ CommitSave(p) \/ CommitUndo(p)
    BY <2>3, WorkHeld, WritesHeld, CommitHeld, SaveHeld, CommitUndoHeld
  <2>4. CASE \/ AbortPoints(p) \/ AbortContent(p) \/ RetirePoints(p) \/ RetireContent(p)
             \/ Fail(p) \/ FailSave(p) \/ FailUndo(p) \/ Cancel(p)
    BY <2>4, AbortPointsHeld, AbortContentHeld, RetireHeld, FailHeld, ReturnsHeld, FailUndoHeld,
       CancelHeld
  <2>5. CASE \/ DeletePoints(p) \/ DeleteRemove(p) \/ DeleteSave(p) \/ DeleteUndo(p)
             \/ DeleteContent(p) \/ CreateSave(p) \/ CreateCollection(p) \/ CreateUndo(p)
             \/ DropSave(p) \/ DropUndo(p) \/ DropCollection(p) \/ DropContent(p)
    BY <2>5, UnawareHeld, RemoveHeld, DeleteHeld, PutsBackHeld, CreateUndoHeld, SaveHeld, DropHeld
  <2> QED BY <1>1, <2>1, <2>2, <2>3, <2>4, <2>5 DEF Step
<1>2. CASE OtherSave \/ UNCHANGED vars
  <2>1. UNCHANGED <<mem, points, contents, op, leaked>>
    BY <1>2 DEF OtherSave, vars, stores, observers
  <2> QED BY <2>1 DEF PointsKept, ContentsKept, InMem
<1> QED BY <1>1, <1>2, CrashHeld DEF Next, Rest

LEMMA InitHeld == ASSUME Init PROVE PointsKept /\ ContentsKept
<1>1. ASSUME NEW g \in points \cup contents PROVE InMem(g)
  <2>1. PICK d \in Indexed : g = <<First, d, 1>>
    BY <1>1 DEF Init
  <2>2. mem.doc[First][d] = [fence |-> 1, marker |-> 0, status |-> "indexed", run |-> 1]
    BY KnowledgeConstants DEF Init
  <2> QED BY <2>1, <2>2 DEF InMem, Names
<1> QED BY <1>1 DEF PointsKept, ContentsKept
-----------------------------------------------------------------------------
(* Nothing is lost *)

Ledger == Controlled /\ Stocked /\ Marking /\ Filed /\ PointsKept /\ ContentsKept

LEMMA InitLedger == ASSUME Init, mode # "both" PROVE KInv /\ Ledger
BY InitSound, InitControls, InitStocks, InitMarks, InitFiled, InitHeld DEF Ledger

LEMMA NextLedger == ASSUME KInv, Ledger, [Next]_vars PROVE Ledger'
BY NextControls, NextStocks, NextMarks, NextFiled, NextHeld DEF Ledger

LEMMA KnownIsInHand ==
    ASSUME KInv, Controlled, NEW p \in Procs, NEW g, KeepsPoints(op[p], g) \/ KeepsContents(op[p], g)
    PROVE  InHand(p, g)
<1>1. PICK o \in Ops : o = op[p]
  BY OpOf
<1>2. o.at # "idle" /\ Control(o) /\ o.kb = g[1]
  <2>1. o.at \notin Unaware
    BY <1>1, KeepsNothing
  <2> QED BY <1>1, <2>1 DEF Unaware, Controlled, KeepsPoints, KeepsContents
<1>3. CASE o.at \in Dropping
  BY <1>1, <1>2, <1>3 DEF Control, InHand
<1>4. CASE o.at \in Removing /\ g[2] = o.doc
  BY <1>1, <1>2, <1>4 DEF Control, Deleting, InHand
<1>5. CASE g[2] = o.doc /\ g[3] \in {o.fence, o.prev, o.superseded}
  BY <1>1, <1>2, <1>5 DEF InHand
<1> QED BY <1>1, <1>3, <1>4, <1>5 DEF KeepsPoints, KeepsContents, Removing

LEMMA LedgerAccounts == ASSUME KInv, Ledger PROVE Accounted
<1>1. ASSUME NEW g \in (points \cup contents) \ leaked, InMem(g)
      PROVE  Has(mem, g[1], g[2]) /\ g[3] \in {mem.doc[g[1]][g[2]].fence, mem.doc[g[1]][g[2]].marker}
  <2>1. g[1] \in KBs /\ g[2] \in Docs
    BY StoredIs DEF Ledger
  <2> QED BY <1>1, <2>1 DEF InMem, Names, Has, KInv, Global, StateSound
<1>2. ASSUME NEW g \in (points \cup contents) \ leaked PROVE InMem(g) \/ \E p \in Procs : InHand(p, g)
  BY KnownIsInHand DEF Ledger, PointsKept, ContentsKept
<1> QED BY <1>1, <1>2 DEF Accounted

\* A stored generation is shown, or named by the marker of its document, or in
\* the hands of a request, or one of the leaks the code has: no interleaving of
\* attempts, deletions, undos and restarts loses one.
THEOREM NothingLost == Spec /\ mode # "both" => []Accounted
<1>1. Init /\ mode # "both" => KInv /\ Ledger
  BY InitLedger
<1>2. KInv /\ Ledger /\ [Next]_vars => KInv' /\ Ledger'
  BY NextSound, NextLedger
<1>3. KInv /\ Ledger => Accounted
  BY LedgerAccounts
<1> QED BY <1>1, <1>2, <1>3, PTL DEF Spec
==============================================================================
