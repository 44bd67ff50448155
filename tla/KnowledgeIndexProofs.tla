------------------------- MODULE KnowledgeIndexProofs -------------------------
(***************************************************************************)
(* The index lifecycle, for any number of knowledge bases, documents,      *)
(* requests and faults, when requests do not overlap or saves do not fail. *)
(*                                                                         *)
(* A fence belongs to one attempt, which alone makes it visible.  Requests *)
(* on the same content exclude each other, so the record an attempt has    *)
(* promoted stays as it is until the attempt has retired what it replaced; *)
(* what an attempt removes is its own, or what nothing shows.              *)
(***************************************************************************)
EXTENDS KnowledgeIndex, TLAPS

\* From the marker of an attempt on its document to its return.
After == Begun \cup Retiring \cup {"beginSave", "beginUndo", "undoSave"}
\* Its fence is, or was until the undo, the one the document shows.
Promoted == Retiring \cup {"commitSave", "commitUndo"}
\* Only a save that failed leads here.
Undoing == {"beginUndo", "undoSave", "commitUndo", "failUndo", "deleteUndo", "dropUndo"}
\* Between a change and the answer of its save: the copy may be put back.
Remembering == {"beginSave", "beginUndo", "commitSave", "commitUndo", "failSave", "failUndo",
                "deleteSave", "deleteUndo", "dropSave", "dropUndo"}
Removing == {"deleteSave", "deleteUndo", "deleteContent"}
Dropping == {"dropSave", "dropUndo", "dropCollection", "dropContent"}

Complete == contents \cap (points \cup cut)

\* A record that may be shown for a document: its generation is complete, and no
\* failed one, and the attempt it names has not been promoted.
DocSound(k, d, r) ==
    /\ r.status = "none" => r.fence = 0 /\ r.marker = 0
    /\ r.fence <= fences /\ r.marker <= fences
    /\ r.fence # 0 => /\ Gen(k, d, r.fence) \in Complete
                      /\ r.fence \notin failed
                      /\ r.marker # r.fence

StateSound(st) ==
    \A k \in KBs, d \in Docs :
        /\ DocSound(k, d, st.doc[k][d])
        /\ k \notin st.kbs => st.doc[k][d].status = "none"

Unshown(st, f) == \A k \in KBs, d \in Docs : st.doc[k][d].fence # f

KTypes ==
    /\ mode \in {"overlap", "faultySaves"}
    /\ mem \in States /\ disk \in States
    /\ points \subseteq Gens /\ contents \subseteq Gens
    /\ op \in [Procs -> Ops]
    /\ fences \in Fences /\ used \subseteq KBs

Global ==
    /\ StateSound(mem) /\ StateSound(disk)
    /\ \A k \in KBs, d \in Docs :
           mem.doc[k][d].marker # 0 => disk.doc[k][d].fence # mem.doc[k][d].marker
    /\ mem.kbs \cup disk.kbs \subseteq used
    /\ failed \subseteq 1..fences

\* The fence of an attempt is its own, and unseen but from its commit to its return.
Own(o) ==
    /\ o.fence \in 1..fences /\ o.fence \notin failed /\ o.kb \in used
    /\ o.prev # o.fence
ShowsOnly(st, o) ==
    \A k \in KBs, d \in Docs :
        st.doc[k][d].fence = o.fence => o.at \in Promoted /\ k = o.kb /\ d = o.doc
Hidden(o) ==
    /\ ShowsOnly(mem, o) /\ ShowsOnly(disk, o)
    /\ mode = "faultySaves" /\ o.at \in {"commitSave", "commitUndo"} => Unshown(disk, o.fence)
Marks(o) ==
    \A k \in KBs, d \in Docs :
        mem.doc[k][d].marker = o.fence => o.at \in After /\ k = o.kb /\ d = o.doc
\* The attempt whose marker it replaced is over, and was never visible.
Superseded(o) ==
    o.superseded # 0 =>
        /\ o.at \in After /\ o.superseded <= fences /\ o.superseded # o.fence
        /\ mem.doc[o.kb][o.doc].fence # o.superseded
        /\ disk.doc[o.kb][o.doc].fence # o.superseded
\* A new document replaces no generation.
Waits(o) ==
    /\ o.at = "reserved" /\ o.kb \in mem.kbs /\ mem.doc[o.kb][o.doc].status = "none"
    => o.prev = 0
\* What is about to be committed is complete.
Written(o) ==
    LET g == Gen(o.kb, o.doc, o.fence) IN
    /\ o.at \in {"capture", "commit"} /\ o.kb \in mem.kbs => g \in points \cup cut
    /\ o.at = "commit" /\ o.kb \in mem.kbs => g \in contents
\* What was committed stays, in memory and then in the file, until it is retired.
Holds(o) ==
    LET r == mem.doc[o.kb][o.doc] IN
    /\ o.at \in Promoted =>
           r.status = "none" \/ r = [fence |-> o.fence, marker |-> 0, status |-> "indexed",
                                     run |-> o.fence]
    /\ o.at \in Retiring => disk.doc[o.kb][o.doc].fence \in {0, o.fence}
Removed(o) ==
    /\ o.at \in Removing => mem.doc[o.kb][o.doc].status = "none"
    /\ o.at = "deleteContent" => disk.doc[o.kb][o.doc].status = "none"
Dropped(o) ==
    /\ o.at \in Dropping => o.kb \notin mem.kbs
    /\ o.at \in {"dropCollection", "dropContent"} => o.kb \notin disk.kbs
\* The copy that an undo would put back is as sound as the state.
CopySound(o) ==
    \A d \in Docs :
        /\ DocSound(o.kb, d, o.snap[d])
        /\ o.snap[d].fence # o.fence
        /\ o.snap[d].marker # 0 => disk.doc[o.kb][d].fence # o.snap[d].marker
        /\ d = o.doc /\ o.superseded # 0 => o.snap[d].fence # o.superseded
Remembers(o) == mode = "faultySaves" /\ o.at \in Remembering => CopySound(o)

OpSound(o) ==
    o.at # "idle" =>
        /\ Own(o) /\ Hidden(o) /\ Marks(o) /\ Superseded(o) /\ Waits(o) /\ Written(o)
        /\ Holds(o) /\ Removed(o) /\ Dropped(o) /\ Remembers(o)
        /\ mode = "overlap" => o.at \notin Undoing

\* Two requests at once: saves do not fail, and they do not share a content.
Apart(o, r) ==
    o.at # "idle" /\ r.at # "idle" =>
        /\ mode = "overlap"
        /\ o.fence # r.fence /\ o.superseded # r.fence /\ r.superseded # o.fence
        /\ o.at \in Reserving /\ r.at \in Reserving /\ o.kb = r.kb => Checksum[o.doc] # Checksum[r.doc]

KInv ==
    /\ KTypes /\ Global
    /\ \A p \in Procs : OpSound(op[p])
    /\ \A p, q \in Procs : p # q => Apart(op[p], op[q])
-----------------------------------------------------------------------------
(* Types *)

LEMMA OpFields ==
    ASSUME NEW o \in Ops
    PROVE  /\ o.at \in Steps /\ o.kb \in KBs /\ o.doc \in Docs
           /\ o.fence \in Fences /\ o.prev \in Fences /\ o.superseded \in Fences
           /\ o.snap \in [Docs -> DocRecs]
BY DEF Ops

LEMMA RecFields ==
    ASSUME NEW r \in DocRecs
    PROVE  /\ r.fence \in Fences /\ r.marker \in Fences /\ r.run \in Fences
           /\ r.status \in {"none", "processing", "indexed", "failed"}
BY DEF DocRecs

LEMMA StateFields ==
    ASSUME NEW st \in States
    PROVE  /\ st.kbs \subseteq KBs /\ st.doc \in [KBs -> [Docs -> DocRecs]]
           /\ \A k \in KBs : st.doc[k] \in [Docs -> DocRecs]
           /\ \A k \in KBs, d \in Docs : st.doc[k][d] \in DocRecs
BY DEF States

LEMMA FenceNumbers == \A f \in Fences : f \in Nat /\ f <= MaxFence
BY KnowledgeConstants DEF Fences

\* A record that is shown has a fence.
LEMMA Nothing == NoDoc \in DocRecs /\ NoDoc.fence = 0 /\ NoDoc.marker = 0 /\ NoDoc.status = "none"
<1>1. 0 \in Fences
  BY KnowledgeConstants DEF Fences
<1> QED BY <1>1 DEF NoDoc, DocRecs
-----------------------------------------------------------------------------
(* The other requests *)

\* What a request may do to what others rely on.
DocKept(o, k, d) ==
    \/ mem'.doc[k][d] = mem.doc[k][d]
    \/ mem'.doc[k][d] = NoDoc /\ k \notin mem'.kbs
    \/ /\ k = o.kb /\ d = o.doc /\ o.at \in Reserving
       /\ mem'.doc[k][d].fence \in {mem.doc[k][d].fence, 0, o.fence}
       /\ mem'.doc[k][d].marker \in {mem.doc[k][d].marker, 0, o.fence}
Removes(o, k, d) == (k = o.kb /\ d = o.doc /\ o.at \in Reserving) \/ k \notin mem'.kbs
GenKept(o, k, d, f) ==
    /\ Gen(k, d, f) \in contents => Gen(k, d, f) \in contents' \/ Removes(o, k, d)
    /\ Gen(k, d, f) \in points \cup cut => Gen(k, d, f) \in points' \cup cut' \/ Removes(o, k, d)
Footprint(o) ==
    /\ mode' = mode /\ fences' \in Fences /\ fences <= fences' /\ used \subseteq used'
    /\ failed' \subseteq failed \cup {o.fence}
    /\ \A k \in mem'.kbs : k \in mem.kbs \/ k \notin used
    /\ \A k \in KBs, d \in Docs : DocKept(o, k, d)
    /\ disk' = disk \/ disk' = mem
    /\ \A k \in KBs, d \in Docs, f \in Fences : GenKept(o, k, d, f)

\* o does not hold what r holds.
Clear(o, r) ==
    /\ o.fence # r.fence
    /\ r.superseded # 0 => r.superseded # o.fence
    /\ o.at \in Reserving /\ r.at \in Reserving => o.kb # r.kb \/ o.doc # r.doc

LEMMA OtherDocs ==
    ASSUME KTypes, Global, NEW o \in Ops, NEW r \in Ops, r.at # "idle", OpSound(r), Clear(o, r),
           mem' \in States, Footprint(o)
    PROVE  /\ \A k \in KBs, d \in Docs :
                  /\ mem'.doc[k][d].fence = r.fence => mem.doc[k][d].fence = r.fence
                  /\ mem'.doc[k][d].marker = r.fence => mem.doc[k][d].marker = r.fence
                  /\ r.superseded # 0 /\ mem'.doc[k][d].fence = r.superseded
                     => mem.doc[k][d].fence = r.superseded
           /\ r.at \in Reserving => \/ mem'.doc[r.kb][r.doc] = mem.doc[r.kb][r.doc]
                                    \/ mem'.doc[r.kb][r.doc] = NoDoc /\ r.kb \notin mem'.kbs
           /\ r.kb \in mem'.kbs => r.kb \in mem.kbs
<1>1. r.kb \in KBs /\ r.doc \in Docs /\ r.fence # 0 /\ r.kb \in used
  BY OpFields, FenceNumbers DEF OpSound, Own
<1>2. ASSUME NEW k \in KBs, NEW d \in Docs
      PROVE  /\ mem'.doc[k][d].fence = r.fence => mem.doc[k][d].fence = r.fence
             /\ mem'.doc[k][d].marker = r.fence => mem.doc[k][d].marker = r.fence
             /\ r.superseded # 0 /\ mem'.doc[k][d].fence = r.superseded
                => mem.doc[k][d].fence = r.superseded
  <2>1. DocKept(o, k, d)
    BY DEF Footprint
  <2> QED BY <1>1, <2>1, Nothing DEF DocKept, Clear
<1>3. ASSUME r.at \in Reserving
      PROVE  \/ mem'.doc[r.kb][r.doc] = mem.doc[r.kb][r.doc]
             \/ mem'.doc[r.kb][r.doc] = NoDoc /\ r.kb \notin mem'.kbs
  <2>1. DocKept(o, r.kb, r.doc)
    BY <1>1 DEF Footprint
  <2> QED BY <1>3, <2>1 DEF DocKept, Clear
<1>4. r.kb \in mem'.kbs => r.kb \in mem.kbs
  BY <1>1 DEF Footprint
<1> QED BY <1>2, <1>3, <1>4

\* What a request holds is left alone by the others.
LEMMA OtherKeeps ==
    ASSUME KTypes, Global, mode = "overlap", NEW o \in Ops, NEW r \in Ops, r.at # "idle",
           OpSound(r), Clear(o, r), mem' \in States, Footprint(o)
    PROVE  OpSound(r)'
<1>1. /\ r.kb \in KBs /\ r.doc \in Docs /\ r.fence \in Fences /\ r.fence # 0
      /\ r.superseded \in Fences /\ r.prev \in Fences
  BY OpFields, FenceNumbers DEF OpSound, Own
<1>2. /\ \A k \in KBs, d \in Docs :
             /\ mem'.doc[k][d].fence = r.fence => mem.doc[k][d].fence = r.fence
             /\ mem'.doc[k][d].marker = r.fence => mem.doc[k][d].marker = r.fence
             /\ r.superseded # 0 /\ mem'.doc[k][d].fence = r.superseded
                => mem.doc[k][d].fence = r.superseded
      /\ r.at \in Reserving => \/ mem'.doc[r.kb][r.doc] = mem.doc[r.kb][r.doc]
                               \/ mem'.doc[r.kb][r.doc] = NoDoc /\ r.kb \notin mem'.kbs
      /\ r.kb \in mem'.kbs => r.kb \in mem.kbs
  BY OtherDocs
<1>3. disk' = disk \/ disk' = mem
  BY DEF Footprint
<1>4. mode' = mode /\ fences <= fences' /\ fences' \in Fences /\ fences \in Fences
  BY DEF Footprint, KTypes
<1>5. Own(r)'
  <2>1. r.fence \in 1..fences'
    BY <1>1, <1>4, FenceNumbers DEF OpSound, Own
  <2> QED BY <2>1 DEF OpSound, Own, Footprint, Clear
<1>6. Hidden(r)'
  <2>1. ShowsOnly(mem', r)
    BY <1>2 DEF OpSound, Hidden, ShowsOnly
  <2>2. ShowsOnly(disk', r)
    BY <1>3 DEF OpSound, Hidden, ShowsOnly
  <2> QED BY <1>4, <2>1, <2>2 DEF Hidden, ShowsOnly
<1>7. Marks(r)'
  BY <1>2 DEF OpSound, Marks
<1>8. Superseded(r)'
  <2> SUFFICES ASSUME r.superseded # 0 PROVE Superseded(r)'
    BY DEF Superseded
  <2>1. /\ r.at \in After /\ r.superseded <= fences /\ r.superseded # r.fence
        /\ mem.doc[r.kb][r.doc].fence # r.superseded
        /\ disk.doc[r.kb][r.doc].fence # r.superseded
    BY DEF OpSound, Superseded
  <2>2. r.superseded <= fences'
    BY <1>1, <1>4, <2>1, FenceNumbers
  <2> QED BY <1>1, <1>2, <1>3, <2>1, <2>2 DEF Superseded
<1>9. Waits(r)'
  <2>1. "reserved" \in Reserving
    BY DEF Reserving
  <2> QED BY <1>2, <2>1 DEF OpSound, Waits
<1>10. Written(r)'
  <2>1. "capture" \in Reserving /\ "commit" \in Reserving
    BY DEF Reserving, Begun
  <2>2. GenKept(o, r.kb, r.doc, r.fence)
    BY <1>1 DEF Footprint
  <2>3. r.at \in Reserving /\ r.kb \in mem'.kbs => ~Removes(o, r.kb, r.doc)
    BY DEF Removes, Clear
  <2> QED BY <1>2, <2>1, <2>2, <2>3 DEF OpSound, Written, GenKept
<1>11. Holds(r)'
  <2>1. Promoted \subseteq Reserving /\ Retiring \subseteq Promoted
    BY DEF Promoted, Reserving, Begun, Retiring
  <2>2. DocSound(r.kb, r.doc, mem.doc[r.kb][r.doc])
    BY <1>1 DEF Global, StateSound
  <2>3. Holds(r)
    BY DEF OpSound
  <2>4. r.at \in Promoted =>
            \/ mem'.doc[r.kb][r.doc] = mem.doc[r.kb][r.doc] \/ mem'.doc[r.kb][r.doc] = NoDoc
    BY <1>2, <2>1
  <2>5. r.at \in Retiring => disk'.doc[r.kb][r.doc].fence \in {0, r.fence}
    <3>1. CASE disk' = disk
      BY <2>3, <3>1 DEF Holds
    <3>2. CASE disk' = mem
      BY <2>1, <2>2, <2>3, <3>2 DEF Holds, DocSound
    <3> QED BY <3>1, <3>2 DEF Footprint
  <2> QED BY <2>3, <2>4, <2>5, Nothing DEF Holds
<1>12. Removed(r)'
  <2>1. Removing \subseteq Reserving /\ "deleteContent" \in Removing
    BY DEF Removing, Reserving
  <2> QED BY <1>2, <1>3, <2>1, Nothing DEF OpSound, Removed
<1>13. Dropped(r)'
  <2>1. {"dropCollection", "dropContent"} \subseteq Dropping
    BY DEF Dropping
  <2> QED BY <1>2, <1>3, <2>1 DEF OpSound, Dropped
<1>14. Remembers(r)'
  BY <1>4 DEF Remembers
<1> QED
  BY <1>4, <1>5, <1>6, <1>7, <1>8, <1>9, <1>10, <1>11, <1>12, <1>13, <1>14 DEF OpSound

\* The other way round: a request, whatever its record is called, is sound.
LEMMA SameOp ==
    ASSUME NEW q \in Procs, NEW r, op'[q] = r, OpSound(r)'
    PROVE  OpSound(op[q])'
<1>1. Own(r)' => Own(op[q])'
  BY DEF Own
<1>2. Hidden(r)' => Hidden(op[q])'
  BY DEF Hidden, ShowsOnly, Unshown
<1>3. Marks(r)' => Marks(op[q])'
  BY DEF Marks
<1>4. Superseded(r)' => Superseded(op[q])'
  BY DEF Superseded
<1>5. (Waits(r)' => Waits(op[q])') /\ (Written(r)' => Written(op[q])')
  BY DEF Waits, Written
<1>6. Holds(r)' => Holds(op[q])'
  BY DEF Holds
<1>7. (Removed(r)' => Removed(op[q])') /\ (Dropped(r)' => Dropped(op[q])')
  BY DEF Removed, Dropped
<1>8. Remembers(r)' => Remembers(op[q])'
  BY DEF Remembers, CopySound
<1> QED BY <1>1, <1>2, <1>3, <1>4, <1>5, <1>6, <1>7, <1>8 DEF OpSound
-----------------------------------------------------------------------------
(* One request's step *)

\* What a request goes on with: the same attempt, or nothing.
Continues(o, new) ==
    \/ new.at = "idle"
    \/ /\ new.kb = o.kb /\ new.doc = o.doc /\ new.fence = o.fence
       /\ new.superseded = o.superseded
       /\ new.at \in Reserving => o.at \in Reserving

StoreTypes ==
    /\ mode \in {"overlap", "faultySaves"}
    /\ mem \in States /\ disk \in States
    /\ points \subseteq Gens /\ contents \subseteq Gens
    /\ fences \in Fences /\ used \subseteq KBs

LEMMA ApartSame ==
    ASSUME NEW p \in Procs, NEW q \in Procs, NEW o, NEW r, op'[p] = o, op'[q] = r,
           mode' = mode, Apart(o, r)
    PROVE  Apart(op[p], op[q])'
BY DEF Apart

LEMMA ApartTurned == ASSUME NEW o, NEW r, Apart(o, r) PROVE Apart(r, o)
BY DEF Apart

\* f is what the step may touch, new what the request goes on with.
LEMMA StepKeeps ==
    ASSUME KInv, NEW p \in Procs, NEW f \in Ops, NEW new \in Ops, op' = [op EXCEPT ![p] = new],
           StoreTypes', Global', new.at # "idle" => OpSound(new)',
           mode' = mode, mode = "overlap" => Footprint(f),
           \A q \in Procs : q # p /\ op[q].at # "idle" =>
               mode = "overlap" /\ Clear(f, op[q]) /\ Apart(new, op[q])
    PROVE  KInv'
<1>1. mode' = mode
  OBVIOUS
<1>2. /\ op'[p] = new /\ \A q \in Procs : q # p => op'[q] = op[q]
      /\ op' \in [Procs -> Ops]
  BY DEF KInv, KTypes
<1>3. KTypes'
  BY <1>2 DEF StoreTypes, KTypes
<1>4. ASSUME NEW q \in Procs PROVE OpSound(op[q])'
  <2>1. CASE op'[q].at = "idle"
    BY <2>1 DEF OpSound
  <2>2. CASE op'[q].at # "idle" /\ q = p
    <3>1. OpSound(new)'
      BY <1>2, <2>2
    <3> QED BY <1>2, <2>2, <3>1, SameOp
  <2>3. CASE op'[q].at # "idle" /\ q # p
    <3>1. PICK r \in Ops : r = op[q]
      BY DEF KInv, KTypes
    <3>2. r.at # "idle" /\ OpSound(r) /\ mode = "overlap" /\ Clear(f, r)
      BY <1>2, <2>3, <3>1 DEF KInv
    <3>3. OpSound(r)'
      BY <3>2, OtherKeeps DEF KInv, StoreTypes
    <3>4. op'[q] = r
      BY <1>2, <2>3, <3>1
    <3> QED BY <3>3, <3>4, SameOp
  <2> QED BY <2>1, <2>2, <2>3
<1>5. ASSUME NEW q \in Procs, NEW r \in Procs, q # r PROVE Apart(op[q], op[r])'
  <2>1. PICK a \in Ops, b \in Ops : a = op'[q] /\ b = op'[r]
    BY <1>2
  <2>2. CASE a.at = "idle" \/ b.at = "idle"
    BY <1>1, <2>1, <2>2 DEF Apart
  <2>3. CASE a.at # "idle" /\ b.at # "idle" /\ q = p
    <3>1. r # p /\ b = op[r] /\ a = new
      BY <1>2, <1>5, <2>1, <2>3
    <3>2. Apart(a, b)
      BY <2>3, <3>1
    <3> QED BY <1>1, <2>1, <3>2, ApartSame
  <2>4. CASE a.at # "idle" /\ b.at # "idle" /\ r = p
    <3>1. q # p /\ a = op[q] /\ b = new
      BY <1>2, <1>5, <2>1, <2>4
    <3>2. Apart(b, a)
      BY <2>4, <3>1
    <3> QED BY <1>1, <2>1, <3>2, ApartSame, ApartTurned
  <2>5. CASE q # p /\ r # p
    <3>1. a = op[q] /\ b = op[r] /\ Apart(a, b)
      BY <1>2, <1>5, <2>1, <2>5 DEF KInv
    <3> QED BY <1>1, <2>1, <3>1, ApartSame
  <2> QED BY <2>2, <2>3, <2>4, <2>5
<1> QED BY <1>3, <1>4, <1>5 DEF KInv

LEMMA ApartFrom ==
    ASSUME KInv, NEW p \in Procs, NEW o \in Ops, o = op[p], o.at # "idle", NEW new,
           Continues(o, new)
    PROVE  \A q \in Procs : q # p /\ op[q].at # "idle" =>
               mode = "overlap" /\ Clear(o, op[q]) /\ Apart(new, op[q])
<1> SUFFICES ASSUME NEW q \in Procs, q # p, op[q].at # "idle"
             PROVE  mode = "overlap" /\ Clear(o, op[q]) /\ Apart(new, op[q])
  OBVIOUS
<1>1. PICK r \in Ops : r = op[q]
  BY DEF KInv, KTypes
<1>2. Apart(o, r) /\ r.at # "idle"
  BY <1>1 DEF KInv
<1>3. mode = "overlap" /\ Clear(o, r)
  BY <1>2 DEF Apart, Clear
<1>4. Apart(new, r)
  BY <1>2 DEF Apart, Continues
<1> QED BY <1>1, <1>3, <1>4

\* A request that is at work and goes on.
LEMMA GoesOn ==
    ASSUME KInv, NEW p \in Procs, NEW o \in Ops, o = op[p], o.at # "idle", NEW new \in Ops,
           op' = [op EXCEPT ![p] = new], Continues(o, new),
           StoreTypes', Global', new.at # "idle" => OpSound(new)',
           mode' = mode, mode = "overlap" => Footprint(o)
    PROVE  KInv'
BY ApartFrom, StepKeeps

\* While saves may fail there is one request.
LEMMA Alone ==
    ASSUME KInv, NEW p \in Procs, op[p].at # "idle", mode # "overlap"
    PROVE  \A q \in Procs : q # p => op[q].at = "idle"
BY DEF KInv, Apart
-----------------------------------------------------------------------------
(* The state as a whole *)

\* What st shows stays complete.
Stays(st) ==
    \A k \in KBs, d \in Docs :
        st.doc[k][d].fence # 0 /\ Gen(k, d, st.doc[k][d].fence) \in Complete
        => Gen(k, d, st.doc[k][d].fence) \in Complete'

\* A failure is recorded only of what nothing shows.
LEMMA GlobalKeeps ==
    ASSUME KTypes, Global, mem' \in States, disk' = disk \/ (disk' = mem /\ mem' = mem),
           fences' \in Fences, fences <= fences', used \subseteq used', mem'.kbs \subseteq used',
           NEW f \in Fences, failed' \subseteq failed \cup {f},
           \/ failed' \subseteq failed
           \/ f \in 1..fences' /\ Unshown(mem', f) /\ Unshown(disk', f),
           \A k \in KBs, d \in Docs :
               /\ \/ mem'.doc[k][d] = mem.doc[k][d]
                  \/ /\ DocSound(k, d, mem'.doc[k][d])
                     /\ mem'.doc[k][d].marker # 0
                        => disk.doc[k][d].fence # mem'.doc[k][d].marker
               /\ k \notin mem'.kbs => mem'.doc[k][d].status = "none",
           Stays(mem'), Stays(disk')
    PROVE  Global'
<1>1. fences \in Nat /\ fences' \in Nat /\ \A g \in Fences : g \in Nat
  BY FenceNumbers DEF KTypes
<1>2. ASSUME NEW k \in KBs, NEW d \in Docs, NEW r \in DocRecs, DocSound(k, d, r),
             failed' \subseteq failed \/ r.fence # f,
             r.fence # 0 /\ Gen(k, d, r.fence) \in Complete => Gen(k, d, r.fence) \in Complete'
      PROVE  DocSound(k, d, r)'
  <2>1. r.fence \in Nat /\ r.marker \in Nat
    BY <1>1, RecFields
  <2> QED BY <1>1, <1>2, <2>1 DEF DocSound
<1>3. ASSUME NEW k \in KBs, NEW d \in Docs
      PROVE  DocSound(k, d, mem.doc[k][d])' /\ DocSound(k, d, disk.doc[k][d])'
  <2>1. PICK r \in DocRecs : r = mem'.doc[k][d]
    BY StateFields
  <2>2. disk' \in States
    BY DEF KTypes
  <2>3. PICK s \in DocRecs : s = disk'.doc[k][d]
    BY <2>2, StateFields
  <2>4. DocSound(k, d, r) /\ DocSound(k, d, s)
    BY <2>1, <2>3 DEF Global, StateSound
  <2>5. DocSound(k, d, r)'
    BY <1>2, <2>1, <2>4 DEF Unshown, Stays
  <2>6. DocSound(k, d, s)'
    BY <1>2, <2>3, <2>4 DEF Unshown, Stays
  <2> QED BY <2>1, <2>3, <2>5, <2>6 DEF DocSound
<1>4. StateSound(mem)' /\ StateSound(disk)'
  BY <1>3 DEF StateSound, Global, DocSound
<1>5. ASSUME NEW k \in KBs, NEW d \in Docs, mem'.doc[k][d].marker # 0
      PROVE  disk'.doc[k][d].fence # mem'.doc[k][d].marker
  <2>1. CASE disk' = disk
    BY <1>5, <2>1 DEF Global
  <2>2. CASE disk' = mem
    BY <1>5, <2>2 DEF Global, StateSound, DocSound
  <2> QED BY <2>1, <2>2
<1>6. mem'.kbs \cup disk'.kbs \subseteq used' /\ failed' \subseteq 1..fences'
  <2>1. mem'.kbs \cup disk'.kbs \subseteq used'
    BY DEF Global
  <2>2. failed \subseteq 1..fences'
    BY <1>1 DEF Global
  <2> QED BY <2>1, <2>2
<1> QED BY <1>4, <1>5, <1>6 DEF Global
-----------------------------------------------------------------------------
(* Steps of the stores: what is removed is not shown *)

\* A step that leaves the state in memory alone, and may save it: what it removes
\* is of its document and not shown, or of a knowledge base that is gone.
Gone(o, gone, k, d, f) ==
    \/ k = o.kb /\ d = o.doc /\ f \in gone /\ o.at \in Reserving
    \/ k \notin mem.kbs /\ k \notin disk.kbs
StoreLeft(o, gone, before, after) ==
    \A k \in KBs, d \in Docs, f \in Fences :
        Gen(k, d, f) \in before => Gen(k, d, f) \in after \/ Gone(o, gone, k, d, f)

LEMMA StoresStep ==
    ASSUME KInv, NEW p \in Procs, NEW o \in Ops, o = op[p], o.at # "idle", NEW new \in Ops,
           op' = [op EXCEPT ![p] = new], Continues(o, new),
           UNCHANGED <<mode, mem, fences, used>>, disk' \in {disk, mem},
           points' \subseteq Gens, contents' \subseteq Gens,
           failed' \subseteq failed \cup {o.fence},
           failed' \subseteq failed \/ o.at \notin Promoted,
           NEW gone \in SUBSET Fences,
           mem.doc[o.kb][o.doc].fence = 0 \/ mem.doc[o.kb][o.doc].fence \notin gone,
           disk.doc[o.kb][o.doc].fence = 0 \/ disk.doc[o.kb][o.doc].fence \notin gone,
           StoreLeft(o, gone, contents, contents'),
           StoreLeft(o, gone, points \cup cut, points' \cup cut'),
           new.at # "idle" => OpSound(new)'
    PROVE  KInv'
<1>1. KTypes /\ Global /\ OpSound(o)
  BY DEF KInv
<1>2. /\ fences \in Fences /\ fences <= fences /\ o.fence \in 1..fences /\ o.fence \in Fences
      /\ mem \in States /\ disk \in States
  BY <1>1, OpFields, FenceNumbers DEF KTypes, OpSound, Own
<1>3. ASSUME NEW st \in States, st \in {mem, disk} PROVE Stays(st)
  <2> SUFFICES ASSUME NEW k \in KBs, NEW d \in Docs, st.doc[k][d].fence # 0,
                      Gen(k, d, st.doc[k][d].fence) \in Complete
               PROVE  Gen(k, d, st.doc[k][d].fence) \in Complete'
    BY DEF Stays
  <2>1. PICK f \in Fences : f = st.doc[k][d].fence
    BY StateFields, RecFields
  <2>2. ~Gone(o, gone, k, d, f)
    <3>1. StateSound(st)
      BY <1>1, <1>3 DEF Global
    <3>2. k \in st.kbs
      BY <3>1 DEF StateSound, DocSound
    <3> QED BY <1>3, <2>1, <3>2 DEF Gone
  <2>3. Gen(k, d, f) \in contents /\ Gen(k, d, f) \in points \cup cut
    BY <2>1 DEF Complete
  <2>4. Gen(k, d, f) \in contents' /\ Gen(k, d, f) \in points' \cup cut'
    BY <2>2, <2>3 DEF StoreLeft
  <2> QED BY <2>1, <2>4 DEF Complete
<1>4. Stays(mem') /\ Stays(disk')
  BY <1>2, <1>3 DEF Stays
<1>5. failed' \subseteq failed \/ (Unshown(mem', o.fence) /\ Unshown(disk', o.fence))
  <2> SUFFICES ASSUME o.at \notin Promoted PROVE Unshown(mem', o.fence) /\ Unshown(disk', o.fence)
    OBVIOUS
  <2>1. ShowsOnly(mem, o) /\ ShowsOnly(disk, o)
    BY <1>1 DEF OpSound, Hidden
  <2>2. Unshown(mem, o.fence) /\ Unshown(disk, o.fence)
    BY <2>1 DEF ShowsOnly, Unshown
  <2> QED BY <2>2 DEF Unshown
<1>6. Global'
  <2>1. \A k \in KBs, d \in Docs : k \notin mem'.kbs => mem'.doc[k][d].status = "none"
    BY <1>1 DEF Global, StateSound
  <2>2. mem'.kbs \subseteq used'
    BY <1>1 DEF Global
  <2> QED BY <1>1, <1>2, <1>4, <1>5, <2>1, <2>2, GlobalKeeps
<1>7. StoreTypes'
  BY <1>1, <1>2 DEF StoreTypes, KTypes
<1>8. Footprint(o)
  <2>1. ASSUME NEW k \in KBs, NEW d \in Docs, NEW f \in Fences PROVE GenKept(o, k, d, f)
    BY DEF StoreLeft, Gone, GenKept, Removes
  <2>2. ASSUME NEW k \in KBs, NEW d \in Docs PROVE DocKept(o, k, d)
    BY DEF DocKept
  <2> QED BY <1>2, <2>1, <2>2 DEF Footprint
<1> QED BY <1>6, <1>7, <1>8, GoesOn

\* Between the begin and the commit, and on the way out.
Plain == {"work", "collect", "scroll", "upsert", "capture", "commit", "abortPoints",
          "abortContent", "fail"}

LEMMA PlainSteps ==
    /\ Plain \subseteq Begun /\ Plain \subseteq Reserving /\ Plain \subseteq After
    /\ Plain \cap (Promoted \cup Undoing \cup Remembering \cup Removing \cup Dropping) = {}
    /\ "idle" \notin Plain /\ "reserved" \notin Plain /\ "commitSave" \notin Plain
    /\ "deleteContent" \notin Plain /\ "dropCollection" \notin Plain /\ "dropContent" \notin Plain
    /\ "commitUndo" \notin Plain /\ Retiring \cap Plain = {}
BY DEF Plain, Begun, Reserving, After, Promoted, Undoing, Remembering, Removing, Dropping, Retiring

SameAttempt(o, new) ==
    /\ new.kb = o.kb /\ new.doc = o.doc /\ new.fence = o.fence /\ new.prev = o.prev
    /\ new.superseded = o.superseded /\ new.new = o.new

LEMMA PlainSound ==
    ASSUME NEW o \in Ops, OpSound(o), o.at # "idle", NEW new \in Ops, new.at \in Plain,
           SameAttempt(o, new), o.at \in After, o.at \notin Promoted,
           UNCHANGED <<mode, mem, fences, used>>, disk' \in {disk, mem}, failed' \subseteq failed,
           new.at \in {"capture", "commit"} => Written(new)'
    PROVE  OpSound(new)'
<1> USE DEF SameAttempt
<1>1. Own(new)'
  BY DEF OpSound, Own
<1>2. Hidden(new)'
  <2>1. ShowsOnly(mem', new) /\ ShowsOnly(disk', new)
    BY DEF OpSound, Hidden, ShowsOnly
  <2> QED BY <2>1, PlainSteps DEF Hidden, ShowsOnly
<1>3. Marks(new)'
  BY PlainSteps DEF OpSound, Marks
<1>4. Superseded(new)'
  BY PlainSteps DEF OpSound, Superseded
<1>5. Waits(new)' /\ Holds(new)' /\ Removed(new)' /\ Dropped(new)' /\ Remembers(new)'
  BY PlainSteps DEF Waits, Holds, Removed, Dropped, Remembers
<1>6. Written(new)'
  BY DEF Written
<1> QED BY <1>1, <1>2, <1>3, <1>4, <1>5, <1>6, PlainSteps DEF OpSound

LEMMA PlainKeeps ==
    ASSUME KInv, NEW p \in Procs, NEW o \in Ops, o = op[p], o.at \in Plain, NEW new \in Ops,
           op' = [op EXCEPT ![p] = new],
           new.at = "idle" \/ (new.at \in Plain /\ SameAttempt(o, new) /\ failed' \subseteq failed),
           UNCHANGED <<mode, mem, disk, fences, used>>,
           points' \subseteq Gens, contents' \subseteq Gens,
           failed' \subseteq failed \cup {o.fence},
           StoreLeft(o, {o.fence, o.superseded} \ {0}, contents, contents'),
           StoreLeft(o, {o.fence, o.superseded} \ {0}, points \cup cut, points' \cup cut'),
           new.at \in {"capture", "commit"} => Written(new)'
    PROVE  KInv'
<1> DEFINE gone == {o.fence, o.superseded} \ {0}
<1>1. /\ o.at # "idle" /\ o.at \in After /\ o.at \notin Promoted /\ o.at \in Reserving
      /\ OpSound(o) /\ gone \in SUBSET Fences /\ o.kb \in KBs /\ o.doc \in Docs
  BY PlainSteps, OpFields DEF KInv
<1>2. ASSUME NEW st, st \in {mem, disk} PROVE st.doc[o.kb][o.doc].fence \notin gone
  <2>1. st.doc[o.kb][o.doc].fence # o.fence
    BY <1>1, <1>2 DEF OpSound, Hidden, ShowsOnly
  <2>2. o.superseded # 0 => st.doc[o.kb][o.doc].fence # o.superseded
    BY <1>1, <1>2 DEF OpSound, Superseded
  <2> QED BY <2>1, <2>2
<1>3. Continues(o, new)
  BY <1>1 DEF Continues, SameAttempt
<1>4. new.at # "idle" => OpSound(new)'
  BY <1>1, PlainSound
<1> HIDE DEF gone
<1>5. disk' \in {disk, mem} /\ (failed' \subseteq failed \/ o.at \notin Promoted)
  BY <1>1
<1>6. /\ mem.doc[o.kb][o.doc].fence = 0 \/ mem.doc[o.kb][o.doc].fence \notin gone
      /\ disk.doc[o.kb][o.doc].fence = 0 \/ disk.doc[o.kb][o.doc].fence \notin gone
  BY <1>2
<1>7. StoreLeft(o, gone, contents, contents') /\ StoreLeft(o, gone, points \cup cut, points' \cup cut')
  BY DEF gone
<1> QED BY <1>1, <1>3, <1>4, <1>5, <1>6, <1>7, StoresStep
-----------------------------------------------------------------------------
(* Writing the new generation *)
LEMMA IdleOp == Idle \in Ops /\ Idle.at = "idle"
<1>1. NoDocs \in [Docs -> DocRecs] /\ 0 \in Fences
  BY Nothing, KnowledgeConstants DEF NoDocs, Fences
<1>2. (CHOOSE d \in Docs : TRUE) \in Docs
  BY KnowledgeConstants
<1>3. "idle" \in Steps
  BY DEF Steps
<1> QED BY <1>1, <1>2, <1>3, KnowledgeConstants DEF Idle, Ops

\* The request of a step, as a record of its own.
LEMMA OpOf == ASSUME KInv, NEW p \in Procs PROVE op[p] \in Ops /\ op \in [Procs -> Ops]
BY DEF KInv, KTypes

\* A step that only writes points, or only contents, or neither.
LEMMA NothingLeft ==
    ASSUME NEW o, NEW gone, NEW before, NEW after, before \subseteq after
    PROVE  StoreLeft(o, gone, before, after)
BY DEF StoreLeft

LEMMA PlainControl ==
    ASSUME KInv, NEW p \in Procs, NEW o \in Ops, o = op[p], o.at \in Plain, NEW new \in Ops,
           op' = [op EXCEPT ![p] = new], new.at \in Plain, SameAttempt(o, new),
           UNCHANGED <<mode, mem, disk, fences, used, failed, cut>>,
           points \subseteq points', points' \subseteq Gens,
           contents \subseteq contents', contents' \subseteq Gens,
           new.at \in {"capture", "commit"} => Written(new)'
    PROVE  KInv'
<1>1. points \cup cut \subseteq points' \cup cut'
  OBVIOUS
<1>2. failed' \subseteq failed \cup {o.fence} /\ failed' \subseteq failed
  OBVIOUS
<1> QED BY <1>1, <1>2, NothingLeft, PlainKeeps
\* The request goes on to another step.
Becomes(p, at) ==
    \E new \in Ops : /\ op' = [op EXCEPT ![p] = new] /\ new.at = at
                     /\ SameAttempt(op[p], new) /\ new.snap = op[p].snap

LEMMA Goes ==
    ASSUME KInv, NEW p \in Procs, NEW at \in Steps, Goto(p, at) PROVE Becomes(p, at)
<1>1. PICK o \in Ops : o = op[p]
  BY OpOf
<1> DEFINE new == [o EXCEPT !.at = at]
<1>2. new \in Ops /\ new.at = at /\ SameAttempt(o, new) /\ new.snap = o.snap
  BY DEF Ops, SameAttempt
<1>3. op' = [op EXCEPT ![p] = new]
  BY <1>1 DEF Goto
<1> QED BY <1>1, <1>2, <1>3 DEF Becomes

LEMMA GoesListing ==
    ASSUME KInv, NEW p \in Procs, NEW at \in Steps, NEW receipt \in {"fences", "points"},
           op' = [op EXCEPT ![p].at = at, ![p].receipt = receipt]
    PROVE  Becomes(p, at)
<1>1. PICK o \in Ops : o = op[p]
  BY OpOf
<1> DEFINE new == [o EXCEPT !.at = at, !.receipt = receipt]
<1>2. new \in Ops /\ new.at = at /\ SameAttempt(o, new) /\ new.snap = o.snap
  BY DEF Ops, SameAttempt
<1>3. op' = [op EXCEPT ![p] = new]
  BY <1>1, OpOf
<1> QED BY <1>1, <1>2, <1>3 DEF Becomes

LEMMA GoesBack ==
    ASSUME KInv, NEW p \in Procs, NEW at \in Steps,
           op' = [op EXCEPT ![p].at = at, ![p].then = "return"]
    PROVE  Becomes(p, at)
<1>1. PICK o \in Ops : o = op[p]
  BY OpOf
<1> DEFINE new == [o EXCEPT !.at = at, !.then = "return"]
<1>2. new \in Ops /\ new.at = at /\ SameAttempt(o, new) /\ new.snap = o.snap
  BY DEF Ops, SameAttempt
<1>3. op' = [op EXCEPT ![p] = new]
  BY <1>1, OpOf
<1> QED BY <1>1, <1>2, <1>3 DEF Becomes

\* The copy is dropped.
LEMMA GoesSaved ==
    ASSUME KInv, NEW p \in Procs, NEW at \in Steps,
           op' = [op EXCEPT ![p].at = at, ![p].snap = NoDocs]
    PROVE  \E new \in Ops : /\ op' = [op EXCEPT ![p] = new] /\ new.at = at
                            /\ SameAttempt(op[p], new)
<1>1. PICK o \in Ops : o = op[p]
  BY OpOf
<1> DEFINE new == [o EXCEPT !.at = at, !.snap = NoDocs]
<1>2. NoDocs \in [Docs -> DocRecs]
  BY Nothing DEF NoDocs
<1>3. new \in Ops /\ new.at = at /\ SameAttempt(o, new)
  BY <1>2 DEF Ops, SameAttempt
<1>4. op' = [op EXCEPT ![p] = new]
  BY <1>1, OpOf
<1> QED BY <1>1, <1>3, <1>4

\* A step between two of the plain ones that writes points, contents or nothing.
LEMMA PlainBecomes ==
    ASSUME KInv, NEW p \in Procs, op[p].at \in Plain, NEW at \in Plain, Becomes(p, at),
           UNCHANGED <<mode, mem, disk, fences, used, failed, cut>>,
           points \subseteq points', points' \subseteq Gens,
           contents \subseteq contents', contents' \subseteq Gens,
           LET g == Gen(op[p].kb, op[p].doc, op[p].fence) IN
           /\ at \in {"capture", "commit"} => g \in points' \cup cut'
           /\ at = "commit" => g \in contents'
    PROVE  KInv'
<1>1. PICK o \in Ops : o = op[p]
  BY OpOf
<1>2. PICK new \in Ops : op' = [op EXCEPT ![p] = new] /\ new.at = at /\ SameAttempt(o, new)
  BY <1>1 DEF Becomes
<1>3. new.at \in {"capture", "commit"} => Written(new)'
  BY <1>1, <1>2 DEF Written, SameAttempt
<1> QED BY <1>1, <1>2, <1>3, PlainControl

LEMMA PlainAreSteps == Plain \subseteq Steps
BY PlainSteps DEF Steps

LEMMA WorkKeeps ==
    ASSUME KInv, NEW p \in Procs, Work(p) PROVE KInv'
<1>1. op[p].at \in Plain /\ {"collect", "fail", "abortPoints"} \subseteq Plain
  BY DEF Work, Plain
<1>2. \E at \in {"collect", "fail", "abortPoints"} : Becomes(p, at)
  BY <1>1, Goes, GoesListing, PlainAreSteps DEF Work
<1>3. /\ UNCHANGED <<mode, mem, disk, fences, used, failed, cut>>
      /\ points \subseteq points' /\ points' \subseteq Gens
      /\ contents \subseteq contents' /\ contents' \subseteq Gens
  BY DEF Work, stores, observers, KInv, KTypes
<1> QED BY <1>1, <1>2, <1>3, PlainBecomes

LEMMA EnsureCollectionKeeps ==
    ASSUME KInv, NEW p \in Procs, EnsureCollection(p) PROVE KInv'
<1>1. op[p].at \in Plain /\ {"scroll", "abortPoints"} \subseteq Plain
  BY DEF EnsureCollection, Plain
<1>2. \E at \in {"scroll", "abortPoints"} : Becomes(p, at)
  BY <1>1, Goes, PlainAreSteps DEF EnsureCollection
<1>3. /\ UNCHANGED <<mode, mem, disk, fences, used, failed, cut>>
      /\ points \subseteq points' /\ points' \subseteq Gens
      /\ contents \subseteq contents' /\ contents' \subseteq Gens
  BY DEF EnsureCollection, observers, KInv, KTypes
<1> QED BY <1>1, <1>2, <1>3, PlainBecomes

LEMMA ScrollKeeps ==
    ASSUME KInv, NEW p \in Procs, Scroll(p) PROVE KInv'
<1>1. op[p].at \in Plain /\ {"upsert", "abortPoints"} \subseteq Plain
  BY DEF Scroll, Plain
<1>2. \E at \in {"upsert", "abortPoints"} : Becomes(p, at)
  BY <1>1, Goes, GoesListing, PlainAreSteps DEF Scroll
<1>3. /\ UNCHANGED <<mode, mem, disk, fences, used, failed, cut>>
      /\ points \subseteq points' /\ points' \subseteq Gens
      /\ contents \subseteq contents' /\ contents' \subseteq Gens
  BY DEF Scroll, stores, observers, KInv, KTypes
<1> QED BY <1>1, <1>2, <1>3, PlainBecomes

\* The attempt's own generation.
LEMMA HeldOwn ==
    ASSUME KInv, NEW p \in Procs, op[p].at # "idle"
    PROVE  Held(p, {op[p].fence}) = {Gen(op[p].kb, op[p].doc, op[p].fence)}
           /\ Held(p, {op[p].fence}) \subseteq Gens
<1>1. PICK o \in Ops : o = op[p]
  BY OpOf
<1>2. o.fence # 0 /\ o.fence \in Fences /\ o.kb \in KBs /\ o.doc \in Docs
  BY <1>1, OpFields, FenceNumbers DEF KInv, OpSound, Own
<1> QED BY <1>1, <1>2 DEF Held, Gen, Gens

LEMMA UpsertKeeps ==
    ASSUME KInv, NEW p \in Procs, Upsert(p) PROVE KInv'
<1>1. op[p].at \in Plain /\ {"capture", "abortPoints"} \subseteq Plain /\ op[p].at # "idle"
  BY DEF Upsert, Plain
<1> DEFINE g == Gen(op[p].kb, op[p].doc, op[p].fence)
<1>2. \E at \in {"capture", "abortPoints"} : Becomes(p, at) /\ (at = "capture" => g \in points')
  BY <1>1, Goes, PlainAreSteps, HeldOwn DEF Upsert
<1>3. /\ UNCHANGED <<mode, mem, disk, fences, used, failed, cut>>
      /\ points \subseteq points' /\ points' \subseteq Gens
      /\ contents \subseteq contents' /\ contents' \subseteq Gens
  BY <1>1, HeldOwn DEF Upsert, observers, KInv, KTypes
<1> QED BY <1>1, <1>2, <1>3, PlainBecomes

LEMMA CaptureKeeps ==
    ASSUME KInv, NEW p \in Procs, Capture(p) PROVE KInv'
<1>1. op[p].at \in Plain /\ {"commit", "abortPoints"} \subseteq Plain /\ op[p].at # "idle"
  BY DEF Capture, Plain
<1> DEFINE g == Gen(op[p].kb, op[p].doc, op[p].fence)
<1>2. Active(p) => g \in points \cup cut
  <2>1. op[p].at = "capture" /\ OpSound(op[p])
    BY DEF Capture, KInv
  <2> QED BY <2>1 DEF OpSound, Written, Active, Has
<1>3. \E at \in {"commit", "abortPoints"} :
          Becomes(p, at) /\ (at = "commit" => g \in contents' /\ g \in points \cup cut)
  BY <1>1, <1>2, Goes, PlainAreSteps, HeldOwn DEF Capture
<1>4. /\ UNCHANGED <<mode, mem, disk, fences, used, failed, cut>>
      /\ points \subseteq points' /\ points' \subseteq Gens
      /\ contents \subseteq contents' /\ contents' \subseteq Gens
  BY <1>1, HeldOwn DEF Capture, observers, KInv, KTypes
<1> QED BY <1>1, <1>3, <1>4, PlainBecomes

-----------------------------------------------------------------------------
(* Giving an attempt up, and retiring what one has replaced *)

\* What op[p] removes by these fences is of its document.
LEMMA HeldLeft ==
    ASSUME KInv, NEW p \in Procs, op[p].at \in Reserving, NEW fs, NEW before, NEW after,
           before \ Held(p, fs) \subseteq after
    PROVE  StoreLeft(op[p], fs \ {0}, before, after)
BY DEF StoreLeft, Gone, Held, Gen

LEMMA AbortPointsKeeps ==
    ASSUME KInv, NEW p \in Procs, AbortPoints(p) PROVE KInv'
<1>1. PICK o \in Ops : o = op[p]
  BY OpOf
<1>2. o.at \in Plain /\ "abortContent" \in Plain /\ o.at \in Reserving
  BY <1>1, PlainSteps DEF AbortPoints, Plain
<1>3. PICK new \in Ops : op' = [op EXCEPT ![p] = new] /\ new.at = "abortContent" /\ SameAttempt(o, new)
  BY <1>1, <1>2, Goes, PlainAreSteps DEF AbortPoints, Becomes
<1>4. /\ UNCHANGED <<mode, mem, disk, fences, used, failed, cut, contents>>
      /\ points \ Held(p, {op[p].fence, op[p].superseded}) \subseteq points' /\ points' \subseteq points
  BY DEF AbortPoints
<1>5. StoreLeft(o, {o.fence, o.superseded} \ {0}, points \cup cut, points' \cup cut')
  BY <1>1, <1>2, <1>4, HeldLeft
<1>6. StoreLeft(o, {o.fence, o.superseded} \ {0}, contents, contents')
  BY <1>4, NothingLeft
<1>7. points' \subseteq Gens /\ contents' \subseteq Gens
  BY <1>4 DEF KInv, KTypes
<1> QED BY <1>1, <1>2, <1>3, <1>4, <1>5, <1>6, <1>7, PlainKeeps

\* Leave, or back to the caller, and the record that goes with it.
LEMMA Left ==
    ASSUME KInv, NEW p \in Procs, NEW left, Leave(p, left)
    PROVE  op' = [op EXCEPT ![p] = Idle] /\ failed' \subseteq failed \cup {op[p].fence}
BY DEF Leave, Return

LEMMA AbortContentKeeps ==
    ASSUME KInv, NEW p \in Procs, AbortContent(p) PROVE KInv'
<1>1. PICK o \in Ops : o = op[p]
  BY OpOf
<1>2. o.at \in Plain /\ "fail" \in Plain /\ o.at \in Reserving
  BY <1>1, PlainSteps DEF AbortContent, Plain
<1> DEFINE mine == Held(p, {op[p].fence, op[p].superseded})
<1>3. /\ UNCHANGED <<mode, mem, disk, fences, used, cut, points>>
      /\ contents \ mine \subseteq contents' /\ contents' \subseteq contents
      /\ \/ \E left : Leave(p, left)
         \/ Goto(p, "fail") /\ UNCHANGED failed
  <2>1. PICK left \in SUBSET (contents \cap mine) :
            /\ contents' = contents \ (mine \ left)
            /\ \/ Leave(p, left)
               \/ Goto(p, "fail") /\ UNCHANGED failed
    BY DEF AbortContent
  <2> QED BY <2>1 DEF AbortContent
<1>4. PICK new \in Ops :
          /\ op' = [op EXCEPT ![p] = new]
          /\ \/ new.at = "idle"
             \/ new.at = "fail" /\ SameAttempt(o, new) /\ failed' \subseteq failed
          /\ failed' \subseteq failed \cup {o.fence}
  <2>1. ASSUME NEW left, Leave(p, left)
        PROVE  op' = [op EXCEPT ![p] = Idle] /\ failed' \subseteq failed \cup {op[p].fence}
    BY <2>1, Left
  <2>2. CASE Goto(p, "fail") /\ UNCHANGED failed
    <3>1. Becomes(p, "fail")
      BY <1>2, <2>2, Goes, PlainAreSteps
    <3> QED BY <1>1, <2>2, <3>1 DEF Becomes
  <2> QED BY <1>1, <1>3, <2>1, <2>2, IdleOp
<1>5. StoreLeft(o, {o.fence, o.superseded} \ {0}, contents, contents')
  BY <1>1, <1>2, <1>3, HeldLeft
<1>6. StoreLeft(o, {o.fence, o.superseded} \ {0}, points \cup cut, points' \cup cut')
  BY <1>3, NothingLeft
<1>7. points' \subseteq Gens /\ contents' \subseteq Gens
  BY <1>3 DEF KInv, KTypes
<1>8. new.at \notin {"capture", "commit"}
  BY <1>4
<1> QED BY <1>1, <1>2, <1>3, <1>4, <1>5, <1>6, <1>7, <1>8, PlainKeeps

\* What a promoted attempt retires is not what its document shows.
LEMMA RetiresOld ==
    ASSUME KInv, NEW p \in Procs, op[p].at \in Retiring, NEW st, st \in {mem, disk}
    PROVE  st.doc[op[p].kb][op[p].doc].fence \notin {op[p].prev, op[p].superseded} \ {0}
<1>1. PICK o \in Ops : o = op[p]
  BY OpOf
<1>2. /\ o.kb \in KBs /\ o.doc \in Docs /\ OpSound(o) /\ o.at # "idle"
      /\ o.at \in Promoted /\ o.at \in Retiring
  BY <1>1, OpFields DEF KInv, Retiring, Promoted
<1>3. DocSound(o.kb, o.doc, mem.doc[o.kb][o.doc])
  BY <1>2 DEF KInv, Global, StateSound
<1>4. st.doc[o.kb][o.doc].fence \in {0, o.fence}
  <2>1. mem.doc[o.kb][o.doc].fence \in {0, o.fence}
    BY <1>2, <1>3 DEF OpSound, Holds, DocSound
  <2>2. disk.doc[o.kb][o.doc].fence \in {0, o.fence}
    BY <1>2 DEF OpSound, Holds
  <2> QED BY <2>1, <2>2
<1>5. o.prev # o.fence /\ (o.superseded # 0 => o.superseded # o.fence)
  BY <1>2 DEF OpSound, Own, Superseded
<1> QED BY <1>1, <1>4, <1>5

LEMMA RetireStep ==
    ASSUME KInv, NEW p \in Procs, op[p].at \in Retiring, NEW new \in Ops,
           op' = [op EXCEPT ![p] = new],
           new.at = "idle" \/ (new.at = "retireContent" /\ SameAttempt(op[p], new)),
           UNCHANGED <<mode, mem, disk, fences, used, failed, cut>>,
           points' \subseteq points, contents' \subseteq contents,
           points \ Held(p, {op[p].prev, op[p].superseded}) \subseteq points',
           contents \ Held(p, {op[p].prev, op[p].superseded}) \subseteq contents'
    PROVE  KInv'
<1>1. PICK o \in Ops : o = op[p]
  BY OpOf
<1> DEFINE gone == {o.prev, o.superseded} \ {0}
<1>2. /\ o.at # "idle" /\ o.at \in Reserving /\ o.at \in Promoted /\ OpSound(o)
      /\ o.at \in Retiring /\ o.at \in After
  BY <1>1 DEF KInv, Retiring, Reserving, Promoted, After
<1>3. gone \in SUBSET Fences
  BY OpFields
<1>4. /\ mem.doc[o.kb][o.doc].fence \notin gone /\ disk.doc[o.kb][o.doc].fence \notin gone
  BY <1>1, RetiresOld
<1>5. StoreLeft(o, gone, contents, contents') /\ StoreLeft(o, gone, points \cup cut, points' \cup cut')
  BY <1>1, <1>2, HeldLeft
<1>6. Continues(o, new)
  BY <1>1, <1>2 DEF Continues, SameAttempt
<1>7. new.at # "idle" => OpSound(new)'
  <2> SUFFICES ASSUME new.at = "retireContent" /\ SameAttempt(o, new) PROVE OpSound(new)'
    BY <1>1
  <2> USE DEF SameAttempt
  <2>1. /\ new.at \in Retiring /\ new.at \in Promoted /\ new.at \in After /\ new.at # "reserved"
        /\ new.at \notin Undoing \cup Remembering \cup Removing \cup Dropping
    BY DEF Retiring, Promoted, After, Undoing, Remembering, Removing, Dropping
  <2>2. Own(new)' /\ Hidden(new)'
    BY <1>2, <2>1 DEF OpSound, Own, Hidden, ShowsOnly
  <2>3. Marks(new)' /\ Superseded(new)'
    BY <1>2, <2>1 DEF OpSound, Marks, Superseded
  <2>4. Waits(new)' /\ Written(new)' /\ Removed(new)' /\ Dropped(new)' /\ Remembers(new)'
    BY <2>1 DEF Waits, Written, Removed, Dropped, Remembers
  <2>5. Holds(new)'
    BY <1>2, <2>1 DEF OpSound, Holds
  <2> QED BY <2>1, <2>2, <2>3, <2>4, <2>5 DEF OpSound
<1> HIDE DEF gone
<1>8. /\ points' \subseteq Gens /\ contents' \subseteq Gens /\ disk' \in {disk, mem}
      /\ failed' \subseteq failed /\ failed' \subseteq failed \cup {o.fence}
  BY DEF KInv, KTypes
<1>9. UNCHANGED <<mode, mem, fences, used>>
  OBVIOUS
<1> QED BY <1>1, <1>2, <1>3, <1>4, <1>5, <1>6, <1>7, <1>8, <1>9, StoresStep

LEMMA RetirePointsKeeps ==
    ASSUME KInv, NEW p \in Procs, RetirePoints(p) PROVE KInv'
<1>1. op[p].at \in Retiring /\ "retireContent" \in Steps
  BY DEF RetirePoints, Retiring, Steps, Reserving
<1>2. PICK new \in Ops : /\ op' = [op EXCEPT ![p] = new] /\ new.at = "retireContent"
                         /\ SameAttempt(op[p], new)
  BY <1>1, Goes DEF RetirePoints, Becomes
<1>3. /\ UNCHANGED <<mode, mem, disk, fences, used, failed, cut, contents>>
      /\ points' \subseteq points
      /\ points \ Held(p, {op[p].prev, op[p].superseded}) \subseteq points'
  BY DEF RetirePoints
<1> QED BY <1>1, <1>2, <1>3, RetireStep

LEMMA RetireContentKeeps ==
    ASSUME KInv, NEW p \in Procs, RetireContent(p) PROVE KInv'
<1>1. op[p].at \in Retiring /\ op' = [op EXCEPT ![p] = Idle]
  BY DEF RetireContent, Retiring, Return
<1>2. /\ UNCHANGED <<mode, mem, disk, fences, used, failed, cut, points>>
      /\ contents' \subseteq contents
      /\ contents \ Held(p, {op[p].prev, op[p].superseded}) \subseteq contents'
  BY DEF RetireContent
<1> QED BY <1>1, <1>2, IdleOp, RetireStep
-----------------------------------------------------------------------------
(* Deletions in the stores *)

\* Steps of which an invariant knows no more than that the fence is not used yet.
Aside == {"reserve", "deletePoints", "deleteRemove", "createSave", "createCollection",
          "createUndo"}

LEMMA AsideSteps ==
    /\ Aside \subseteq Steps /\ "idle" \notin Aside /\ "reserved" \notin Aside
    /\ Aside \cap (After \cup Promoted \cup Undoing \cup Remembering \cup Removing
                   \cup Dropping) = {}
    /\ Aside \cap {"capture", "commit", "commitSave", "commitUndo", "deleteContent",
                   "dropCollection", "dropContent"} = {}
    /\ Retiring \cap Aside = {}
BY DEF Aside, Steps, Reserving, After, Begun, Promoted, Undoing, Remembering, Removing, Dropping,
       Retiring

LEMMA AsideSound ==
    ASSUME NEW o \in Ops, OpSound(o), o.at # "idle", o.at \notin After, o.at \notin Promoted,
           NEW new \in Ops, new.at \in Aside, SameAttempt(o, new),
           UNCHANGED <<mode, mem, fences, used>>, disk' \in {disk, mem}, failed' \subseteq failed
    PROVE  OpSound(new)'
<1> USE DEF SameAttempt
<1>1. Own(new)'
  BY DEF OpSound, Own
<1>2. Hidden(new)'
  <2>1. ShowsOnly(mem', new) /\ ShowsOnly(disk', new)
    BY DEF OpSound, Hidden, ShowsOnly
  <2> QED BY <2>1, AsideSteps DEF Hidden, ShowsOnly
<1>3. Marks(new)' /\ Superseded(new)'
  BY DEF OpSound, Marks, Superseded
<1>4. Waits(new)' /\ Holds(new)' /\ Removed(new)' /\ Dropped(new)' /\ Remembers(new)'
      /\ Written(new)'
  BY AsideSteps DEF Waits, Holds, Removed, Dropped, Remembers, Written
<1> QED BY <1>1, <1>2, <1>3, <1>4, AsideSteps DEF OpSound

\* A step before the first save of a request, or of one that only keeps a store.
LEMMA AsideKeeps ==
    ASSUME KInv, NEW p \in Procs, NEW o \in Ops, o = op[p], o.at # "idle",
           o.at \notin After, o.at \notin Promoted, NEW new \in Ops,
           op' = [op EXCEPT ![p] = new],
           \/ new.at = "idle"
           \/ /\ new.at \in Aside /\ SameAttempt(o, new)
              /\ new.at \in Reserving => o.at \in Reserving,
           UNCHANGED <<mode, mem, contents, fences, used, failed>>, disk' \in {disk, mem},
           points' \subseteq Gens, points \cup cut \subseteq points' \cup cut'
    PROVE  KInv'
<1> DEFINE gone == {}
<1>1. Continues(o, new)
  BY DEF Continues, SameAttempt
<1>2. new.at # "idle" => OpSound(new)'
  BY AsideSound DEF KInv
<1>3. /\ contents' \subseteq Gens /\ failed' \subseteq failed
      /\ failed' \subseteq failed \cup {o.fence}
  BY DEF KInv, KTypes
<1>4. StoreLeft(o, gone, contents, contents') /\ StoreLeft(o, gone, points \cup cut, points' \cup cut')
  BY NothingLeft
<1>5. gone \in SUBSET Fences /\ mem.doc[o.kb][o.doc].fence \notin gone
      /\ disk.doc[o.kb][o.doc].fence \notin gone
  OBVIOUS
<1> HIDE DEF gone
<1> QED BY <1>1, <1>2, <1>3, <1>4, <1>5, StoresStep

LEMMA DeletePointsKeeps ==
    ASSUME KInv, NEW p \in Procs, DeletePoints(p) PROVE KInv'
<1>1. PICK o \in Ops : o = op[p]
  BY OpOf
<1>2. o.at = "deletePoints"
  BY <1>1 DEF DeletePoints
<1>3. /\ o.at # "idle" /\ o.at \notin After /\ o.at \notin Promoted
      /\ "deleteRemove" \in Aside /\ "deleteRemove" \in Steps /\ o.at \in Reserving
  BY <1>2, AsideSteps DEF Aside, Reserving
<1>4. PICK new \in Ops :
          /\ op' = [op EXCEPT ![p] = new]
          /\ new.at = "idle" \/ (new.at = "deleteRemove" /\ SameAttempt(o, new))
  <2>1. CASE Goto(p, "deleteRemove")
    BY <1>1, <1>3, <2>1, Goes DEF Becomes
  <2>2. CASE Return(p)
    BY <2>2, IdleOp DEF Return
  <2> QED BY <2>1, <2>2 DEF DeletePoints
<1>5. /\ UNCHANGED <<mode, mem, disk, contents, fences, used, failed>>
      /\ points' \subseteq points /\ cut' = cut \cup (points \ points')
  BY DEF DeletePoints
<1>6. points' \subseteq Gens /\ points \cup cut \subseteq points' \cup cut' /\ disk' \in {disk, mem}
  BY <1>5 DEF KInv, KTypes
<1> QED BY <1>1, <1>3, <1>4, <1>5, <1>6, AsideKeeps

LEMMA DeleteContentKeeps ==
    ASSUME KInv, NEW p \in Procs, DeleteContent(p) PROVE KInv'
<1>1. PICK o \in Ops : o = op[p]
  BY OpOf
<1>2. o.at = "deleteContent" /\ op' = [op EXCEPT ![p] = Idle]
  BY <1>1 DEF DeleteContent, Return
<1>3. /\ o.at # "idle" /\ o.at \in Reserving /\ OpSound(o) /\ o.at \in Removing
      /\ o.at \notin Promoted /\ o.kb \in KBs /\ o.doc \in Docs
  BY <1>1, <1>2, OpFields DEF KInv, Reserving, Removing, Promoted, Retiring
<1>4. /\ UNCHANGED <<mode, mem, disk, points, fences, used, failed, cut>>
      /\ contents' \subseteq contents /\ contents \ Of(op[p].kb, op[p].doc) \subseteq contents'
  BY DEF DeleteContent
<1>5. mem.doc[o.kb][o.doc].fence = 0 /\ disk.doc[o.kb][o.doc].fence = 0
  <2>1. mem.doc[o.kb][o.doc].status = "none" /\ disk.doc[o.kb][o.doc].status = "none"
    BY <1>2, <1>3 DEF OpSound, Removed
  <2> QED BY <1>3, <2>1 DEF KInv, Global, StateSound, DocSound
<1>6. StoreLeft(o, Fences, contents, contents')
  BY <1>1, <1>3, <1>4 DEF StoreLeft, Gone, Of, Gen
<1>7. StoreLeft(o, Fences, points \cup cut, points' \cup cut')
  BY <1>4, NothingLeft
<1>8. Continues(o, Idle) /\ Idle.at = "idle" /\ Idle \in Ops
  BY IdleOp DEF Continues
<1>9. /\ points' \subseteq Gens /\ contents' \subseteq Gens /\ disk' \in {disk, mem}
      /\ failed' \subseteq failed /\ failed' \subseteq failed \cup {o.fence}
      /\ Fences \in SUBSET Fences
  BY <1>4 DEF KInv, KTypes
<1> QED BY <1>1, <1>2, <1>3, <1>4, <1>5, <1>6, <1>7, <1>8, <1>9, StoresStep

\* A knowledge base that is gone from memory and from the file shows nothing.
LEMMA DropStep ==
    ASSUME KInv, NEW p \in Procs, op[p].at \in {"dropCollection", "dropContent"},
           op' = [op EXCEPT ![p] = Idle] \/ Goto(p, "dropContent"),
           UNCHANGED <<mode, mem, disk, fences, used, failed, cut>>,
           points' \subseteq points, contents' \subseteq contents,
           points \ OfKB(op[p].kb) \subseteq points',
           contents \ OfKB(op[p].kb) \subseteq contents'
    PROVE  KInv'
<1>1. PICK o \in Ops : o = op[p]
  BY OpOf
<1>2. /\ o.at # "idle" /\ OpSound(o) /\ o.at \in Dropping /\ o.at \notin After
      /\ o.at \notin Promoted /\ o.kb \in KBs
  BY <1>1, OpFields DEF KInv, Dropping, After, Begun, Promoted, Retiring
<1>3. o.kb \notin mem.kbs /\ o.kb \notin disk.kbs
  BY <1>1, <1>2 DEF OpSound, Dropped
<1>4. PICK new \in Ops : /\ op' = [op EXCEPT ![p] = new]
                         /\ new.at = "idle" \/ (new.at = "dropContent" /\ SameAttempt(o, new))
  <2>1. "dropContent" \in Steps
    BY DEF Steps
  <2> QED BY <1>1, <2>1, IdleOp, Goes DEF Becomes
<1>5. new.at # "idle" => OpSound(new)'
  <2> SUFFICES ASSUME new.at = "dropContent" /\ SameAttempt(o, new) PROVE OpSound(new)'
    BY <1>4
  <2> USE DEF SameAttempt
  <2>1. /\ new.at \notin After \cup Promoted \cup Undoing \cup Remembering \cup Removing
        /\ new.at # "reserved" /\ new.at \notin Retiring
    BY DEF After, Begun, Promoted, Retiring, Undoing, Remembering, Removing
  <2>2. Own(new)'
    BY <1>2 DEF OpSound, Own
  <2>3. Hidden(new)'
    BY <1>2, <2>1 DEF OpSound, Hidden, ShowsOnly
  <2>4. Marks(new)' /\ Superseded(new)'
    BY <1>2, <2>1 DEF OpSound, Marks, Superseded
  <2>5. Waits(new)' /\ Written(new)' /\ Removed(new)' /\ Remembers(new)' /\ Holds(new)'
    BY <2>1 DEF Waits, Written, Removed, Remembers, Holds
  <2>6. Dropped(new)'
    BY <1>3 DEF Dropped
  <2> QED BY <2>1, <2>2, <2>3, <2>4, <2>5, <2>6 DEF OpSound
<1>6. Continues(o, new)
  <2>1. "dropContent" \notin Reserving
    BY DEF Reserving, Begun, Retiring
  <2> QED BY <1>4, <2>1 DEF Continues, SameAttempt
<1>7. StoreLeft(o, {}, contents, contents') /\ StoreLeft(o, {}, points \cup cut, points' \cup cut')
  BY <1>1, <1>3 DEF StoreLeft, Gone, OfKB, Gen
<1>8. /\ points' \subseteq Gens /\ contents' \subseteq Gens /\ disk' \in {disk, mem}
      /\ failed' \subseteq failed /\ failed' \subseteq failed \cup {o.fence}
      /\ {} \in SUBSET Fences
  BY DEF KInv, KTypes
<1>9. mem.doc[o.kb][o.doc].fence \notin {} /\ disk.doc[o.kb][o.doc].fence \notin {}
  OBVIOUS
<1>10. UNCHANGED <<mode, mem, fences, used>>
  OBVIOUS
<1> QED BY <1>1, <1>2, <1>4, <1>5, <1>6, <1>7, <1>8, <1>9, <1>10, StoresStep

LEMMA DropCollectionKeeps ==
    ASSUME KInv, NEW p \in Procs, DropCollection(p) PROVE KInv'
<1>1. /\ op[p].at \in {"dropCollection", "dropContent"} /\ Goto(p, "dropContent")
      /\ UNCHANGED <<mode, mem, disk, fences, used, failed, cut, contents>>
      /\ points' \subseteq points /\ points \ OfKB(op[p].kb) \subseteq points'
  BY DEF DropCollection
<1> QED BY <1>1, DropStep

LEMMA DropContentKeeps ==
    ASSUME KInv, NEW p \in Procs, DropContent(p) PROVE KInv'
<1>1. /\ op[p].at \in {"dropCollection", "dropContent"} /\ op' = [op EXCEPT ![p] = Idle]
      /\ UNCHANGED <<mode, mem, disk, fences, used, failed, cut, points>>
  BY DEF DropContent, Return
<1>2. contents' \subseteq contents /\ contents \ OfKB(op[p].kb) \subseteq contents'
  BY DEF DropContent, OfKB, KInv, KTypes
<1> QED BY <1>1, <1>2, DropStep
-----------------------------------------------------------------------------
(* Saves *)

\* A save that is refused leaves everything, with the copy, to the undo.
Refused == {<<"beginSave", "beginUndo">>, <<"commitSave", "commitUndo">>, <<"failSave", "failUndo">>,
            <<"deleteSave", "deleteUndo">>, <<"dropSave", "dropUndo">>}

LEMMA RefusedSteps ==
    ASSUME NEW a, NEW b, <<a, b>> \in Refused
    PROVE  /\ b \in Steps /\ a # "idle" /\ b # "idle"
           /\ a \in After <=> b \in After
           /\ a \in Promoted <=> b \in Promoted
           /\ a \in Removing <=> b \in Removing
           /\ a \in Dropping <=> b \in Dropping
           /\ a \in Reserving <=> b \in Reserving
           /\ a \in Remembering /\ b \in Remembering
           /\ b \in {"commitSave", "commitUndo"} => a \in {"commitSave", "commitUndo"}
           /\ b \notin Retiring
           /\ b \notin {"reserved", "capture", "commit", "deleteContent", "dropCollection",
                        "dropContent"}
BY DEF Refused, Steps, After, Begun, Promoted, Removing, Dropping, Reserving, Remembering, Retiring

LEMMA RefusedSound ==
    ASSUME NEW o \in Ops, OpSound(o), NEW new \in Ops, <<o.at, new.at>> \in Refused,
           SameAttempt(o, new), new.snap = o.snap, mode # "overlap",
           UNCHANGED <<mode, mem, disk, points, contents, fences, used, cut, failed>>
    PROVE  OpSound(new)'
<1> USE DEF SameAttempt
<1> USE RefusedSteps
<1>1. Own(new)'
  BY DEF OpSound, Own
<1>2. Hidden(new)'
  BY DEF OpSound, Hidden, ShowsOnly, Unshown
<1>3. Marks(new)' /\ Superseded(new)'
  BY DEF OpSound, Marks, Superseded
<1>4. Waits(new)' /\ Written(new)'
  BY DEF Waits, Written
<1>5. Holds(new)' /\ Removed(new)' /\ Dropped(new)'
  BY DEF OpSound, Holds, Removed, Dropped
<1>6. Remembers(new)'
  BY DEF OpSound, Remembers, CopySound, DocSound, Complete
<1> QED BY <1>1, <1>2, <1>3, <1>4, <1>5, <1>6 DEF OpSound

\* A save, done or not, with the step that goes with it.
LEMMA SaveStep ==
    ASSUME KInv, NEW p \in Procs, NEW o \in Ops, o = op[p], o.at # "idle", NEW new \in Ops,
           op' = [op EXCEPT ![p] = new], Continues(o, new),
           UNCHANGED <<mode, mem, points, contents, fences, used, cut>>, disk' \in {disk, mem},
           failed' \subseteq failed \cup {o.fence},
           failed' \subseteq failed \/ o.at \notin Promoted,
           new.at # "idle" => OpSound(new)'
    PROVE  KInv'
<1>1. StoreLeft(o, {}, contents, contents') /\ StoreLeft(o, {}, points \cup cut, points' \cup cut')
  BY NothingLeft
<1>2. points' \subseteq Gens /\ contents' \subseteq Gens
  BY DEF KInv, KTypes
<1>3. /\ {} \in SUBSET Fences /\ UNCHANGED <<mode, mem, fences, used>>
      /\ mem.doc[o.kb][o.doc].fence \notin {} /\ disk.doc[o.kb][o.doc].fence \notin {}
  OBVIOUS
<1> QED BY <1>1, <1>2, <1>3, StoresStep

LEMMA RefusedKeeps ==
    ASSUME KInv, NEW p \in Procs, NEW at, <<op[p].at, at>> \in Refused, SaveFails, Goto(p, at),
           UNCHANGED <<mode, mem, points, contents, fences, used, cut, failed>>
    PROVE  KInv'
<1>1. PICK o \in Ops : o = op[p]
  BY OpOf
<1>2. PICK new \in Ops : /\ op' = [op EXCEPT ![p] = new] /\ new.at = at
                         /\ SameAttempt(o, new) /\ new.snap = o.snap
  BY <1>1, RefusedSteps, Goes DEF Becomes
<1>3. mode # "overlap" /\ disk' = disk
  BY DEF SaveFails, Faulty
<1>4. o.at # "idle" /\ Continues(o, new)
  BY <1>1, <1>2, RefusedSteps DEF Continues, SameAttempt
<1>5. OpSound(new)'
  <2>1. OpSound(o) /\ <<o.at, new.at>> \in Refused
    BY <1>1, <1>2 DEF KInv
  <2> QED BY <1>2, <1>3, <2>1, RefusedSound
<1>6. failed' \subseteq failed \cup {o.fence} /\ failed' \subseteq failed /\ disk' \in {disk, mem}
  BY <1>3
<1> QED BY <1>1, <1>2, <1>4, <1>5, <1>6, SaveStep

LEMMA BeginSaveKeeps ==
    ASSUME KInv, NEW p \in Procs, BeginSave(p) PROVE KInv'
<1>1. /\ op[p].at = "beginSave"
      /\ UNCHANGED <<mode, mem, points, contents, fences, used, cut, failed>>
  BY DEF BeginSave, stores, observers
<1>2. CASE SaveFails /\ Goto(p, "beginUndo")
  BY <1>1, <1>2, RefusedKeeps DEF Refused
<1>3. CASE Save /\ op' = [op EXCEPT ![p].at = "work", ![p].snap = NoDocs]
  <2>1. PICK o \in Ops : o = op[p]
    BY OpOf
  <2>2. /\ "work" \in Plain /\ "work" \in Steps /\ o.at \in After /\ o.at \in Reserving
        /\ o.at \notin Promoted /\ o.at # "idle"
    BY <1>1, <2>1, PlainAreSteps DEF Plain, After, Reserving, Promoted, Retiring
  <2>3. PICK new \in Ops : /\ op' = [op EXCEPT ![p] = new] /\ new.at = "work"
                           /\ SameAttempt(o, new)
    BY <1>3, <2>1, <2>2, GoesSaved
  <2>4. /\ disk' \in {disk, mem} /\ failed' \subseteq failed
        /\ failed' \subseteq failed \cup {o.fence} /\ UNCHANGED <<mode, mem, fences, used>>
    BY <1>1, <1>3 DEF Save
  <2>5. OpSound(new)'
    <3>1. OpSound(o)
      BY <2>1 DEF KInv
    <3> QED BY <2>2, <2>3, <2>4, <3>1, PlainSound
  <2>6. Continues(o, new)
    BY <2>2, <2>3 DEF Continues, SameAttempt
  <2> QED BY <1>1, <2>1, <2>2, <2>3, <2>4, <2>5, <2>6, SaveStep
<1> QED BY <1>2, <1>3 DEF BeginSave, SaveThen

LEMMA CommitSaveKeeps ==
    ASSUME KInv, NEW p \in Procs, CommitSave(p) PROVE KInv'
<1>1. /\ op[p].at = "commitSave"
      /\ UNCHANGED <<mode, mem, points, contents, fences, used, cut, failed>>
  BY DEF CommitSave, stores, observers
<1>2. CASE SaveFails /\ Goto(p, "commitUndo")
  BY <1>1, <1>2, RefusedKeeps DEF Refused
<1>3. CASE Save /\ op' = [op EXCEPT ![p].at = "retirePoints", ![p].snap = NoDocs]
  <2>1. PICK o \in Ops : o = op[p]
    BY OpOf
  <2>2. /\ "retirePoints" \in Steps /\ o.at \in After /\ o.at \in Reserving
        /\ o.at \in Promoted /\ o.at # "idle" /\ OpSound(o) /\ o.kb \in KBs /\ o.doc \in Docs
    BY <1>1, <2>1, OpFields DEF KInv, Steps, After, Begun, Reserving, Promoted, Retiring
  <2>3. PICK new \in Ops : /\ op' = [op EXCEPT ![p] = new] /\ new.at = "retirePoints"
                           /\ SameAttempt(o, new)
    BY <1>3, <2>1, <2>2, GoesSaved
  <2>4. disk' = mem /\ UNCHANGED <<mode, mem, fences, used, failed>>
    BY <1>1, <1>3 DEF Save
  <2>5. OpSound(new)'
    <3> USE DEF SameAttempt
    <3>1. /\ new.at \in Retiring /\ new.at \in Promoted /\ new.at \in After
          /\ new.at \notin Undoing \cup Remembering \cup Removing \cup Dropping
      BY <2>3 DEF Retiring, Promoted, After, Undoing, Remembering, Removing, Dropping
    <3>2. Own(new)'
      BY <2>2, <2>3, <2>4 DEF OpSound, Own
    <3>3. Hidden(new)'
      BY <2>2, <2>3, <2>4, <3>1 DEF OpSound, Hidden, ShowsOnly
    <3>4. Marks(new)' /\ Superseded(new)'
      BY <2>2, <2>3, <2>4, <3>1 DEF OpSound, Marks, Superseded
    <3>5. Waits(new)' /\ Written(new)' /\ Removed(new)' /\ Dropped(new)' /\ Remembers(new)'
      BY <2>3, <3>1 DEF Waits, Written, Removed, Dropped, Remembers
    <3>6. Holds(new)'
      <4>1. DocSound(o.kb, o.doc, mem.doc[o.kb][o.doc])
        BY <2>2 DEF KInv, Global, StateSound
      <4>2. Holds(o)
        BY <2>2 DEF OpSound
      <4>3. \/ mem.doc[o.kb][o.doc].status = "none"
            \/ mem.doc[o.kb][o.doc] = [fence |-> o.fence, marker |-> 0, status |-> "indexed",
                                       run |-> o.fence]
        BY <2>2, <4>2 DEF Holds
      <4>4. mem.doc[o.kb][o.doc].fence \in {0, o.fence}
        BY <4>1, <4>3 DEF DocSound
      <4>5. /\ new.kb = o.kb /\ new.doc = o.doc /\ new.fence = o.fence
            /\ mem' = mem /\ disk' = mem
        BY <2>3, <2>4
      <4> QED BY <4>3, <4>4, <4>5 DEF Holds
    <3> QED BY <3>1, <3>2, <3>3, <3>4, <3>5, <3>6 DEF OpSound
  <2>6. Continues(o, new)
    BY <2>2, <2>3 DEF Continues, SameAttempt
  <2>7. /\ disk' \in {disk, mem} /\ failed' \subseteq failed
        /\ failed' \subseteq failed \cup {o.fence}
    BY <2>4
  <2> QED BY <1>1, <2>1, <2>2, <2>3, <2>5, <2>6, <2>7, SaveStep
<1> QED BY <1>2, <1>3 DEF CommitSave, SaveThen

\* A request returns with its last save, or without it.
LEMMA SaveReturns ==
    ASSUME KInv, NEW p \in Procs, op[p].at \in {"failSave", "undoSave"}, NEW left, Leave(p, left),
           UNCHANGED <<mode, mem, points, contents, fences, used, cut>>, disk' \in {disk, mem}
    PROVE  KInv'
<1>1. PICK o \in Ops : o = op[p]
  BY OpOf
<1>2. o.at # "idle" /\ o.at \notin Promoted
  BY <1>1 DEF Promoted, Retiring
<1>3. op' = [op EXCEPT ![p] = Idle] /\ failed' \subseteq failed \cup {o.fence}
  BY <1>1, Left
<1>4. Continues(o, Idle) /\ Idle \in Ops /\ Idle.at = "idle"
  BY IdleOp DEF Continues
<1> QED BY <1>1, <1>2, <1>3, <1>4, SaveStep

LEMMA FailSaveKeeps ==
    ASSUME KInv, NEW p \in Procs, FailSave(p) PROVE KInv'
<1>1. /\ op[p].at = "failSave"
      /\ UNCHANGED <<mode, mem, points, contents, fences, used, cut>>
  BY DEF FailSave, stores
<1>2. CASE Save /\ Leave(p, {})
  BY <1>1, <1>2, SaveReturns DEF Save
<1>3. CASE SaveFails /\ Goto(p, "failUndo") /\ UNCHANGED <<failed, leaked>>
  BY <1>1, <1>3, RefusedKeeps DEF Refused
<1> QED BY <1>2, <1>3 DEF FailSave

LEMMA UndoSaveKeeps ==
    ASSUME KInv, NEW p \in Procs, UndoSave(p) PROVE KInv'
<1>1. /\ op[p].at = "undoSave" /\ disk' \in {disk, mem} /\ Leave(p, {})
      /\ UNCHANGED <<mode, mem, points, contents, fences, used, cut>>
  BY DEF UndoSave, stores, Save, SaveFails
<1> QED BY <1>1, SaveReturns

\* The save of a removal: what is removed in memory is now removed in the file.
LEMMA RemovalSound ==
    ASSUME KInv, NEW o \in Ops, OpSound(o), NEW new \in Ops, SameAttempt(o, new),
           o.at \notin After, o.at \notin Promoted, o.at # "idle",
           \/ new.at = "deleteContent" /\ o.at \in Removing
           \/ new.at = "dropCollection" /\ o.at \in Dropping,
           disk' = mem, UNCHANGED <<mode, mem, fences, used, failed>>
    PROVE  OpSound(new)'
<1> USE DEF SameAttempt
<1>1. /\ new.at \notin After \cup Promoted \cup Undoing \cup Remembering
      /\ new.at # "reserved" /\ new.at \notin Retiring
  BY DEF After, Begun, Promoted, Retiring, Undoing, Remembering
<1>2. /\ new.at = "deleteContent" => new.at \notin Dropping
      /\ new.at = "dropCollection" => new.at \notin Removing
  BY DEF Dropping, Removing
<1>3. Own(new)'
  BY DEF OpSound, Own
<1>4. Hidden(new)'
  BY <1>1 DEF OpSound, Hidden, ShowsOnly
<1>5. Marks(new)' /\ Superseded(new)'
  BY <1>1 DEF OpSound, Marks, Superseded
<1>6. Waits(new)' /\ Written(new)' /\ Remembers(new)' /\ Holds(new)'
  BY <1>1 DEF Waits, Written, Remembers, Holds
<1>7. Removed(new)'
  BY <1>2 DEF OpSound, Removed
<1>8. Dropped(new)'
  BY <1>2 DEF OpSound, Dropped
<1> QED BY <1>1, <1>3, <1>4, <1>5, <1>6, <1>7, <1>8 DEF OpSound

LEMMA DeleteSaveKeeps ==
    ASSUME KInv, NEW p \in Procs, DeleteSave(p) PROVE KInv'
<1>1. /\ op[p].at = "deleteSave"
      /\ UNCHANGED <<mode, mem, points, contents, fences, used, cut, failed>>
  BY DEF DeleteSave, stores, observers
<1>2. CASE SaveFails /\ Goto(p, "deleteUndo")
  BY <1>1, <1>2, RefusedKeeps DEF Refused
<1>3. CASE Save /\ op' = [op EXCEPT ![p].at = "deleteContent", ![p].snap = NoDocs]
  <2>1. PICK o \in Ops : o = op[p]
    BY OpOf
  <2>2. /\ "deleteContent" \in Steps /\ o.at \notin After /\ o.at \in Reserving
        /\ o.at \notin Promoted /\ o.at # "idle" /\ o.at \in Removing /\ OpSound(o)
    BY <1>1, <2>1 DEF KInv, Steps, After, Begun, Reserving, Promoted, Retiring, Removing
  <2>3. PICK new \in Ops : /\ op' = [op EXCEPT ![p] = new] /\ new.at = "deleteContent"
                           /\ SameAttempt(o, new)
    BY <1>3, <2>1, <2>2, GoesSaved
  <2>4. disk' = mem /\ UNCHANGED <<mode, mem, fences, used, failed>>
    BY <1>1, <1>3 DEF Save
  <2>5. OpSound(new)' /\ Continues(o, new)
    BY <2>2, <2>3, <2>4, RemovalSound DEF Continues, SameAttempt
  <2>6. /\ disk' \in {disk, mem} /\ failed' \subseteq failed
        /\ failed' \subseteq failed \cup {o.fence}
    BY <2>4
  <2> QED BY <1>1, <2>1, <2>2, <2>3, <2>5, <2>6, SaveStep
<1> QED BY <1>2, <1>3 DEF DeleteSave, SaveThen

LEMMA DropSaveKeeps ==
    ASSUME KInv, NEW p \in Procs, DropSave(p) PROVE KInv'
<1>1. /\ op[p].at = "dropSave"
      /\ UNCHANGED <<mode, mem, points, contents, fences, used, cut, failed>>
  BY DEF DropSave, stores, observers
<1>2. CASE SaveFails /\ Goto(p, "dropUndo")
  BY <1>1, <1>2, RefusedKeeps DEF Refused
<1>3. CASE Save /\ Goto(p, "dropCollection")
  <2>1. PICK o \in Ops : o = op[p]
    BY OpOf
  <2>2. /\ "dropCollection" \in Steps /\ o.at \notin After /\ "dropCollection" \notin Reserving
        /\ o.at \notin Promoted /\ o.at # "idle" /\ o.at \in Dropping /\ OpSound(o)
    BY <1>1, <2>1 DEF KInv, Steps, After, Begun, Reserving, Promoted, Retiring, Dropping
  <2>3. PICK new \in Ops : /\ op' = [op EXCEPT ![p] = new] /\ new.at = "dropCollection"
                           /\ SameAttempt(o, new)
    BY <1>3, <2>1, <2>2, Goes DEF Becomes
  <2>4. disk' = mem /\ UNCHANGED <<mode, mem, fences, used, failed>>
    BY <1>1, <1>3 DEF Save
  <2>5. OpSound(new)' /\ Continues(o, new)
    BY <2>2, <2>3, <2>4, RemovalSound DEF Continues, SameAttempt
  <2>6. /\ disk' \in {disk, mem} /\ failed' \subseteq failed
        /\ failed' \subseteq failed \cup {o.fence}
    BY <2>4
  <2> QED BY <1>1, <2>1, <2>2, <2>3, <2>5, <2>6, SaveStep
<1> QED BY <1>2, <1>3 DEF DropSave

LEMMA CreateSaveKeeps ==
    ASSUME KInv, NEW p \in Procs, CreateSave(p) PROVE KInv'
<1>1. PICK o \in Ops : o = op[p]
  BY OpOf
<1>2. /\ o.at = "createSave" /\ disk' \in {disk, mem}
      /\ UNCHANGED <<mode, mem, points, contents, fences, used, cut, failed>>
  BY <1>1 DEF CreateSave, stores, observers, SaveThen, Save, SaveFails
<1>3. /\ {"createCollection", "createUndo"} \subseteq Aside \ Reserving
      /\ o.at \in Aside /\ o.at # "idle" /\ o.at \notin After /\ o.at \notin Promoted
  BY <1>2, AsideSteps DEF Aside, Reserving, Begun, Retiring
<1>4. PICK new \in Ops : /\ op' = [op EXCEPT ![p] = new] /\ SameAttempt(o, new)
                         /\ new.at \in {"createCollection", "createUndo"}
  BY <1>1, <1>3, AsideSteps, Goes, GoesSaved DEF CreateSave, SaveThen, Becomes
<1>5. points' \subseteq Gens /\ points \cup cut \subseteq points' \cup cut'
  BY <1>2 DEF KInv, KTypes
<1> QED BY <1>1, <1>2, <1>3, <1>4, <1>5, AsideKeeps

LEMMA CreateCollectionKeeps ==
    ASSUME KInv, NEW p \in Procs, CreateCollection(p) PROVE KInv'
<1>1. PICK o \in Ops : o = op[p]
  BY OpOf
<1>2. /\ o.at = "createCollection" /\ disk' \in {disk, mem}
      /\ UNCHANGED <<mode, mem, points, contents, fences, used, cut, failed>>
  BY <1>1 DEF CreateCollection, observers
<1>3. /\ "createUndo" \in Aside \ Reserving
      /\ o.at \in Aside /\ o.at # "idle" /\ o.at \notin After /\ o.at \notin Promoted
  BY <1>2, AsideSteps DEF Aside, Reserving, Begun, Retiring
<1>4. PICK new \in Ops : /\ op' = [op EXCEPT ![p] = new]
                         /\ \/ new.at = "idle"
                            \/ SameAttempt(o, new) /\ new.at = "createUndo"
  BY <1>1, <1>3, AsideSteps, Goes, IdleOp DEF CreateCollection, Return, Becomes
<1>5. points' \subseteq Gens /\ points \cup cut \subseteq points' \cup cut'
  BY <1>2 DEF KInv, KTypes
<1> QED BY <1>1, <1>2, <1>3, <1>4, <1>5, AsideKeeps

\* Somebody else's save of the whole state.
LEMMA OtherSaveKeeps == ASSUME KInv, OtherSave PROVE KInv'
<1>1. /\ disk' = mem /\ mode = "overlap"
      /\ UNCHANGED <<mode, mem, points, contents, op, fences, used, cut, failed>>
  BY DEF OtherSave, Save, Overlaps, KInv, KTypes, stores, observers
<1>2. KTypes /\ Global
  BY DEF KInv
<1>3. Idle \in Ops /\ Idle.at = "idle" /\ Idle.fence = 0 /\ Idle.at \notin Reserving
  BY IdleOp DEF Idle, Reserving, Begun, Retiring
<1>4. mem' \in States /\ fences \in Fences /\ fences <= fences /\ Idle.fence \in Fences
  BY <1>1, <1>2, <1>3, FenceNumbers, OpFields DEF KTypes
<1>5. Footprint(Idle)
  <2>1. ASSUME NEW k \in KBs, NEW d \in Docs PROVE DocKept(Idle, k, d)
    BY <1>1 DEF DocKept
  <2>2. ASSUME NEW k \in KBs, NEW d \in Docs, NEW f \in Fences PROVE GenKept(Idle, k, d, f)
    BY <1>1 DEF GenKept
  <2> QED BY <1>1, <1>4, <2>1, <2>2 DEF Footprint
<1>6. ASSUME NEW q \in Procs PROVE OpSound(op[q])'
  <2>1. PICK r \in Ops : r = op[q]
    BY OpOf
  <2>2. CASE r.at = "idle"
    BY <1>1, <2>1, <2>2 DEF OpSound
  <2>3. CASE r.at # "idle"
    <3>1. OpSound(r)
      BY <2>1 DEF KInv
    <3>2. Clear(Idle, r)
      BY <1>3, <2>3, <3>1 DEF OpSound, Own, Clear
    <3>3. OpSound(r)'
      BY <1>1, <1>2, <1>3, <1>4, <1>5, <2>3, <3>1, <3>2, OtherKeeps
    <3> QED BY <1>1, <2>1, <3>3, SameOp
  <2> QED BY <2>2, <2>3
<1>7. Global'
  <2>1. Stays(mem') /\ Stays(disk')
    BY <1>1 DEF Stays, Complete
  <2>2. \A k \in KBs, d \in Docs : k \notin mem'.kbs => mem'.doc[k][d].status = "none"
    BY <1>1, <1>2 DEF Global, StateSound
  <2>3. mem'.kbs \subseteq used' /\ failed' \subseteq failed \cup {Idle.fence}
    BY <1>1, <1>2 DEF Global
  <2> QED BY <1>1, <1>2, <1>4, <2>1, <2>2, <2>3, GlobalKeeps
<1>8. KTypes'
  BY <1>1, <1>2 DEF KTypes
<1>9. ASSUME NEW q \in Procs, NEW r \in Procs, q # r PROVE Apart(op[q], op[r])'
  BY <1>1, <1>9 DEF KInv, Apart
<1> QED BY <1>6, <1>7, <1>8, <1>9 DEF KInv

\* A cancelled context changes nothing that is stored.
LEMMA CancelKeeps ==
    ASSUME KInv, NEW p \in Procs, Cancel(p) PROVE KInv'
<1>1. PICK o \in Ops : o = op[p]
  BY OpOf
<1> DEFINE new == [o EXCEPT !.cancelled = TRUE]
<1>2. new \in Ops /\ new.at = o.at /\ SameAttempt(o, new) /\ new.snap = o.snap
  BY DEF Ops, SameAttempt
<1>3. op' = [op EXCEPT ![p] = new]
  BY <1>1, OpOf DEF Cancel
<1>4. UNCHANGED <<mode, mem, disk, points, contents, fences, used, cut, failed>>
  BY DEF Cancel, stores, observers
<1> HIDE DEF new
<1>5. ASSUME NEW r \in Ops, OpSound(r), NEW s \in Ops, s.at = r.at, SameAttempt(r, s), s.snap = r.snap
      PROVE  OpSound(s)'
  <2> USE <1>4, <1>5 DEF SameAttempt
  <2>1. s.at # "idle" => Own(s)' /\ Hidden(s)' /\ Marks(s)' /\ Superseded(s)'
    BY DEF OpSound, Own, Hidden, ShowsOnly, Unshown, Marks, Superseded
  <2>2. s.at # "idle" => Waits(s)' /\ Written(s)' /\ Holds(s)' /\ Removed(s)' /\ Dropped(s)'
    BY DEF OpSound, Waits, Written, Holds, Removed, Dropped
  <2>3. Remembers(s)' \/ s.at = "idle"
    BY DEF OpSound, Remembers, CopySound, DocSound, Complete
  <2> QED BY <2>1, <2>2, <2>3 DEF OpSound
<1>6. ASSUME NEW q \in Procs
      PROVE  \E s \in Ops : /\ op'[q] = s /\ s.at = op[q].at /\ SameAttempt(op[q], s)
                            /\ s.snap = op[q].snap
  <2>1. CASE q = p
    BY <1>1, <1>2, <1>3, <2>1, OpOf
  <2>2. CASE q # p
    BY <1>3, <2>2, OpOf DEF SameAttempt
  <2> QED BY <2>1, <2>2
<1>7. ASSUME NEW q \in Procs PROVE OpSound(op[q])'
  <2>1. PICK r \in Ops : r = op[q]
    BY OpOf
  <2>2. PICK s \in Ops : op'[q] = s /\ s.at = r.at /\ SameAttempt(r, s) /\ s.snap = r.snap
    BY <1>6, <2>1
  <2>3. OpSound(r)
    BY <2>1 DEF KInv
  <2>4. OpSound(s)'
    BY <1>5, <2>2, <2>3
  <2> QED BY <2>2, <2>4, SameOp
<1>8. ASSUME NEW q \in Procs, NEW r \in Procs, q # r PROVE Apart(op[q], op[r])'
  <2>1. Apart(op[q], op[r])
    BY <1>8 DEF KInv
  <2> QED BY <1>4, <1>6, <2>1 DEF Apart, SameAttempt
<1>9. Global' /\ KTypes'
  <2>1. op' \in [Procs -> Ops]
    BY <1>2, <1>3, OpOf
  <2> QED BY <1>4, <2>1 DEF KInv, KTypes, Global, StateSound, DocSound, Complete
<1> QED BY <1>7, <1>8, <1>9 DEF KInv
-----------------------------------------------------------------------------
(* One document in memory *)

LEMMA SetDocIs ==
    ASSUME NEW st \in States, NEW k \in KBs, NEW d \in Docs, NEW r \in DocRecs
    PROVE  LET new == SetDoc(st, k, d, r) IN
           /\ new \in States /\ new.kbs = st.kbs
           /\ \A j \in KBs, e \in Docs :
                  new.doc[j][e] = IF j = k /\ e = d THEN r ELSE st.doc[j][e]
<1> DEFINE new == SetDoc(st, k, d, r)
<1>1. /\ st.kbs \subseteq KBs /\ st.doc \in [KBs -> [Docs -> DocRecs]]
      /\ st = [kbs |-> st.kbs, doc |-> st.doc]
  BY DEF States
<1>2. new.kbs = st.kbs /\ new.doc = [st.doc EXCEPT ![k][d] = r]
  BY <1>1 DEF SetDoc
<1>3. new.doc \in [KBs -> [Docs -> DocRecs]]
  <2> HIDE DEF new
  <2>1. PICK g \in [Docs -> DocRecs] : g = st.doc[k]
    BY <1>1
  <2>2. [g EXCEPT ![d] = r] \in [Docs -> DocRecs]
    OBVIOUS
  <2>3. [st.doc EXCEPT ![k] = [g EXCEPT ![d] = r]] \in [KBs -> [Docs -> DocRecs]]
    BY <1>1, <2>2
  <2> QED BY <1>1, <1>2, <2>1, <2>3
<1>4. new = [kbs |-> st.kbs, doc |-> [st.doc EXCEPT ![k][d] = r]]
  BY <1>1 DEF SetDoc
<1>5. new \in States
  BY <1>1, <1>2, <1>3, <1>4 DEF States
<1>6. ASSUME NEW j \in KBs, NEW e \in Docs
      PROVE  new.doc[j][e] = IF j = k /\ e = d THEN r ELSE st.doc[j][e]
  BY <1>1, <1>2
<1> QED BY <1>2, <1>5, <1>6

\* Of all documents, that of o changes at most, to r.
Gives(o, r) ==
    /\ mem' \in States /\ mem'.kbs = mem.kbs
    /\ \A k \in KBs, d \in Docs :
           mem'.doc[k][d] = IF k = o.kb /\ d = o.doc THEN r ELSE mem.doc[k][d]

LEMMA GivesSet ==
    ASSUME KInv, NEW p \in Procs, NEW o \in Ops, o = op[p], NEW r \in DocRecs, SetCurrent(p, r)
    PROVE  Gives(o, r)
<1>1. mem \in States /\ o.kb \in KBs /\ o.doc \in Docs /\ mem' = SetDoc(mem, o.kb, o.doc, r)
  BY OpFields DEF KInv, KTypes, SetCurrent
<1> QED BY <1>1, SetDocIs DEF Gives

LEMMA GivesSame ==
    ASSUME KInv, NEW p \in Procs, NEW o \in Ops, o = op[p], UNCHANGED mem
    PROVE  Gives(o, Current(p))
BY DEF KInv, KTypes, Gives, Current

\* A step that gives its document the record r.
LEMMA DocStep ==
    ASSUME KInv, NEW p \in Procs, NEW o \in Ops, o = op[p], o.at # "idle", o.at \in Reserving,
           NEW new \in Ops, op' = [op EXCEPT ![p] = new],
           NEW r \in DocRecs, Gives(o, r),
           UNCHANGED <<mode, disk, points, contents, cut, fences, used>>,
           failed' \subseteq failed \cup {o.fence},
           failed' \subseteq failed \/ (r.fence # o.fence /\ o.at \notin Promoted),
           DocSound(o.kb, o.doc, r), r.marker # 0 => disk.doc[o.kb][o.doc].fence # r.marker,
           r.status # "none" => o.kb \in mem.kbs,
           mode = "overlap" => /\ r.fence \in {mem.doc[o.kb][o.doc].fence, 0, o.fence}
                               /\ r.marker \in {mem.doc[o.kb][o.doc].marker, 0, o.fence},
           new.at # "idle" => OpSound(new)',
           \A q \in Procs : q # p /\ op[q].at # "idle" =>
               mode = "overlap" /\ Clear(o, op[q]) /\ Apart(new, op[q])
    PROVE  KInv'
<1>1. /\ KTypes /\ Global /\ OpSound(o) /\ o.kb \in KBs /\ o.doc \in Docs /\ o.fence \in Fences
      /\ o.fence \in 1..fences /\ fences \in Fences /\ fences <= fences
      /\ mem \in States /\ disk \in States
  BY OpFields, FenceNumbers DEF KInv, KTypes, OpSound, Own
<1>2. /\ mem' \in States /\ mem'.kbs = mem.kbs
      /\ \A k \in KBs, d \in Docs :
             mem'.doc[k][d] = IF k = o.kb /\ d = o.doc THEN r ELSE mem.doc[k][d]
  BY DEF Gives
<1>3. StoreTypes'
  BY <1>1, <1>2 DEF KTypes, StoreTypes
<1>4. Stays(mem') /\ Stays(disk')
  BY DEF Stays, Complete
<1>5. failed' \subseteq failed \/ (Unshown(mem', o.fence) /\ Unshown(disk', o.fence))
  <2> SUFFICES ASSUME r.fence # o.fence, o.at \notin Promoted
               PROVE  Unshown(mem', o.fence) /\ Unshown(disk', o.fence)
    OBVIOUS
  <2>1. ShowsOnly(mem, o) /\ ShowsOnly(disk, o)
    BY <1>1 DEF OpSound, Hidden
  <2>2. \A k \in KBs, d \in Docs : mem.doc[k][d].fence # o.fence /\ disk.doc[k][d].fence # o.fence
    BY <2>1 DEF ShowsOnly
  <2> QED BY <1>2, <2>2 DEF Unshown
<1>6. ASSUME NEW k \in KBs, NEW d \in Docs
      PROVE  /\ \/ mem'.doc[k][d] = mem.doc[k][d]
                \/ /\ DocSound(k, d, mem'.doc[k][d])
                   /\ mem'.doc[k][d].marker # 0
                      => disk.doc[k][d].fence # mem'.doc[k][d].marker
             /\ k \notin mem'.kbs => mem'.doc[k][d].status = "none"
  <2>1. CASE k = o.kb /\ d = o.doc
    BY <1>2, <2>1
  <2>2. CASE ~(k = o.kb /\ d = o.doc)
    <3>1. mem'.doc[k][d] = mem.doc[k][d] /\ mem'.kbs = mem.kbs
      BY <1>2, <2>2
    <3>2. k \notin mem.kbs => mem.doc[k][d].status = "none"
      BY <1>1 DEF Global, StateSound
    <3> QED BY <3>1, <3>2
  <2> QED BY <2>1, <2>2
<1>7. Global'
  <2>1. mem'.kbs \subseteq used'
    BY <1>1, <1>2 DEF Global
  <2> QED BY <1>1, <1>2, <1>4, <1>5, <1>6, <2>1, GlobalKeeps
<1>8. mode = "overlap" => Footprint(o)
  <2> SUFFICES ASSUME mode = "overlap" PROVE Footprint(o)
    OBVIOUS
  <2>1. ASSUME NEW k \in KBs, NEW d \in Docs PROVE DocKept(o, k, d)
    <3>1. CASE k = o.kb /\ d = o.doc
      <4>1. mem'.doc[k][d] = r
        BY <1>2, <3>1
      <4> QED BY <3>1, <4>1 DEF DocKept
    <3>2. CASE ~(k = o.kb /\ d = o.doc)
      <4>1. mem'.doc[k][d] = mem.doc[k][d]
        BY <1>2, <3>2
      <4> QED BY <4>1 DEF DocKept
    <3> QED BY <3>1, <3>2
  <2>2. ASSUME NEW k \in KBs, NEW d \in Docs, NEW f \in Fences PROVE GenKept(o, k, d, f)
    BY DEF GenKept
  <2> QED BY <1>1, <1>2, <2>1, <2>2 DEF Footprint
<1> QED BY <1>3, <1>7, <1>8, StepKeeps

\* What stays true of a request that gives its document the record r.
LEMMA AfterDoc ==
    ASSUME KInv, NEW o \in Ops, OpSound(o), o.at # "idle",
           NEW new \in Ops, new.kb = o.kb, new.doc = o.doc, new.fence = o.fence, new.prev = o.prev,
           NEW r \in DocRecs, Gives(o, r),
           UNCHANGED <<mode, disk, fences, used>>, failed' \subseteq failed,
           r.fence = o.fence => new.at \in Promoted,
           new.at \in Promoted \/ Unshown(disk, o.fence),
           new.at \in After \/ (o.at \notin After /\ r.marker # o.fence),
           new.superseded # 0 =>
               /\ new.at \in After /\ new.superseded <= fences /\ new.superseded # o.fence
               /\ r.fence # new.superseded /\ disk.doc[o.kb][o.doc].fence # new.superseded
    PROVE  /\ Own(new)' /\ ShowsOnly(mem', new) /\ ShowsOnly(disk', new)
           /\ Marks(new)' /\ Superseded(new)'
<1>1. /\ o.kb \in KBs /\ o.doc \in Docs /\ mem \in States
  BY OpFields DEF KInv, KTypes
<1>2. \A k \in KBs, d \in Docs :
          mem'.doc[k][d] = IF k = o.kb /\ d = o.doc THEN r ELSE mem.doc[k][d]
  BY DEF Gives
<1>3. Own(new)'
  BY DEF OpSound, Own
<1>4. ShowsOnly(mem', new)
  BY <1>2 DEF OpSound, Hidden, ShowsOnly
<1>5. ShowsOnly(disk', new)
  BY DEF OpSound, Hidden, ShowsOnly, Unshown
<1>6. Marks(new)'
  BY <1>2 DEF OpSound, Marks
<1>7. Superseded(new)'
  BY <1>1, <1>2 DEF Superseded
<1> QED BY <1>3, <1>4, <1>5, <1>6, <1>7

\* A copy of what memory shows, taken by an attempt that is not visible.
LEMMA CopyTaken ==
    ASSUME KInv, NEW o \in Ops, OpSound(o), o.at # "idle", o.at \notin Promoted,
           NEW new \in Ops, new.kb = o.kb, new.doc = o.doc, new.fence = o.fence,
           new.snap = mem.doc[o.kb],
           new.superseded # 0 => mem.doc[o.kb][o.doc].fence # new.superseded,
           UNCHANGED <<disk, points, contents, cut, failed, fences>>
    PROVE  CopySound(new)'
<1>1. o.kb \in KBs /\ o.doc \in Docs
  BY OpFields
<1>2. ASSUME NEW d \in Docs
      PROVE  /\ DocSound(o.kb, d, mem.doc[o.kb][d])
             /\ mem.doc[o.kb][d].fence # o.fence
             /\ mem.doc[o.kb][d].marker # 0 => disk.doc[o.kb][d].fence # mem.doc[o.kb][d].marker
  BY <1>1 DEF KInv, Global, StateSound, OpSound, Hidden, ShowsOnly
<1>3. CopySound(new)
  BY <1>2 DEF CopySound
<1> QED BY <1>3 DEF CopySound, DocSound, Complete

\* The request goes on with a copy of its knowledge base.
Copies(p, at) == op' = [op EXCEPT ![p].at = at, ![p].snap = mem.doc[op[p].kb]]

LEMMA GoesCopying ==
    ASSUME KInv, NEW p \in Procs, NEW at \in Steps, Copies(p, at)
    PROVE  \E new \in Ops : /\ op' = [op EXCEPT ![p] = new] /\ new.at = at
                            /\ SameAttempt(op[p], new) /\ new.snap = mem.doc[op[p].kb]
<1>1. PICK o \in Ops : o = op[p]
  BY OpOf
<1> DEFINE new == [o EXCEPT !.at = at, !.snap = mem.doc[o.kb]]
<1>2. mem.doc[o.kb] \in [Docs -> DocRecs]
  BY OpFields, StateFields DEF KInv, KTypes
<1>3. new \in Ops /\ new.at = at /\ SameAttempt(o, new) /\ new.snap = mem.doc[o.kb]
  BY <1>2 DEF Ops, SameAttempt
<1>4. op' = [op EXCEPT ![p] = new]
  BY <1>1, OpOf DEF Copies
<1> QED BY <1>1, <1>3, <1>4

\* What op[p] finds in its document.
LEMMA Found ==
    ASSUME KInv, NEW p \in Procs, NEW o \in Ops, o = op[p], o.at # "idle"
    PROVE  /\ o.kb \in KBs /\ o.doc \in Docs /\ OpSound(o) /\ o.fence # 0
           /\ Current(p) = mem.doc[o.kb][o.doc] /\ Current(p) \in DocRecs
           /\ DocSound(o.kb, o.doc, Current(p))
           /\ Current(p).marker # 0 => disk.doc[o.kb][o.doc].fence # Current(p).marker
           /\ fences \in Nat /\ o.fence <= fences
<1>1. /\ o.kb \in KBs /\ o.doc \in Docs /\ OpSound(o) /\ fences \in Nat
  BY OpFields, FenceNumbers DEF KInv, KTypes
<1>2. o.fence \in 1..fences
  BY <1>1 DEF OpSound, Own
<1>3. mem.doc[o.kb][o.doc] \in DocRecs
  BY <1>1, StateFields DEF KInv, KTypes
<1> QED BY <1>1, <1>2, <1>3 DEF Current, KInv, Global, StateSound

LEMMA FailKeeps ==
    ASSUME KInv, NEW p \in Procs, Fail(p) PROVE KInv'
<1>1. PICK o \in Ops : o = op[p]
  BY OpOf
<1>2. /\ o.at = "fail" /\ o.at \in Plain /\ o.at \in After /\ o.at \in Reserving
      /\ o.at \notin Promoted /\ o.at # "idle"
  BY <1>1, PlainSteps DEF Fail, Plain
<1>3. UNCHANGED <<mode, disk, points, contents, fences, used, cut>>
  BY DEF Fail, stores
<1>4. CASE ~Active(p)
  <2>1. UNCHANGED mem /\ op' = [op EXCEPT ![p] = Idle] /\ failed' \subseteq failed \cup {o.fence}
    BY <1>1, <1>4, Left DEF Fail
  <2>2. /\ points' \subseteq Gens /\ contents' \subseteq Gens
        /\ StoreLeft(o, {o.fence, o.superseded} \ {0}, contents, contents')
        /\ StoreLeft(o, {o.fence, o.superseded} \ {0}, points \cup cut, points' \cup cut')
    BY <1>3, NothingLeft DEF KInv, KTypes
  <2> QED BY <1>1, <1>2, <1>3, <2>1, <2>2, IdleOp, PlainKeeps
<1>5. CASE Active(p)
  <2>1. PICK cur \in DocRecs : cur = Current(p)
    BY <1>1, <1>2, Found
  <2> DEFINE r == [cur EXCEPT !.status = "failed", !.marker = 0, !.run = o.fence]
  <2>2. /\ r \in DocRecs /\ r.fence = cur.fence /\ r.marker = 0 /\ r.status = "failed"
    BY OpFields, Nothing DEF DocRecs, NoDoc
  <2>3. Gives(o, r)
    <3>1. SetCurrent(p, r)
      BY <1>1, <1>5, <2>1 DEF Fail
    <3> QED BY <1>1, <2>2, <3>1, GivesSet
  <2>4. /\ "failSave" \in Steps /\ "failSave" \in After /\ "failSave" \in Reserving
        /\ "failSave" \notin Promoted \cup Retiring \cup Undoing \cup Removing \cup Dropping
    BY DEF Steps, Reserving, Begun, After, Promoted, Retiring, Undoing, Removing, Dropping
  <2>5. Copies(p, "failSave") /\ UNCHANGED failed
    BY <1>5 DEF Fail, Copies
  <2>6. PICK new \in Ops : /\ op' = [op EXCEPT ![p] = new] /\ new.at = "failSave"
                           /\ SameAttempt(o, new) /\ new.snap = mem.doc[o.kb]
    BY <1>1, <2>4, <2>5, GoesCopying
  <2>7. /\ OpSound(o) /\ o.kb \in mem.kbs /\ cur = mem.doc[o.kb][o.doc]
        /\ DocSound(o.kb, o.doc, cur) /\ cur.fence # o.fence /\ Unshown(disk, o.fence)
    <3>1. OpSound(o) /\ cur = mem.doc[o.kb][o.doc] /\ DocSound(o.kb, o.doc, cur)
      BY <1>1, <1>2, <2>1, Found
    <3>2. o.kb \in mem.kbs
      BY <1>1, <1>5 DEF Active, Has
    <3>3. cur.fence # o.fence /\ Unshown(disk, o.fence)
      BY <1>1, <1>2, <3>1, OpFields DEF OpSound, Hidden, ShowsOnly, Unshown
    <3> QED BY <3>1, <3>2, <3>3
  <2> HIDE DEF r
  <2>8. DocSound(o.kb, o.doc, r)
    <3>1. fences \in Nat /\ cur.fence \in Nat /\ 0 <= fences
      BY FenceNumbers, RecFields DEF KInv, KTypes
    <3> QED BY <2>2, <2>7, <3>1 DEF DocSound
  <2>9. OpSound(new)'
    <3>0. /\ o.superseded # 0 =>
               /\ o.superseded <= fences /\ o.superseded # o.fence
               /\ cur.fence # o.superseded /\ disk.doc[o.kb][o.doc].fence # o.superseded
      BY <1>2, <2>7 DEF OpSound, Superseded
    <3>1. /\ Own(new)' /\ ShowsOnly(mem', new) /\ ShowsOnly(disk', new)
          /\ Marks(new)' /\ Superseded(new)'
      BY <1>2, <1>3, <2>2, <2>3, <2>4, <2>5, <2>6, <2>7, <3>0, AfterDoc DEF SameAttempt
    <3>2. Hidden(new)'
      BY <2>6, <3>1 DEF Hidden, ShowsOnly
    <3>3. CopySound(new)'
      BY <1>2, <1>3, <2>5, <2>6, <2>7, <3>0, CopyTaken DEF SameAttempt
    <3>4. Waits(new)' /\ Written(new)' /\ Holds(new)' /\ Removed(new)' /\ Dropped(new)'
          /\ Remembers(new)'
      BY <2>4, <2>6, <3>3 DEF Waits, Written, Holds, Removed, Dropped, Remembers
    <3> QED BY <2>4, <2>6, <3>1, <3>2, <3>4 DEF OpSound
  <2>10. \A q \in Procs : q # p /\ op[q].at # "idle" =>
               mode = "overlap" /\ Clear(o, op[q]) /\ Apart(new, op[q])
    <3>1. Continues(o, new)
      BY <1>2, <2>6 DEF Continues, SameAttempt
    <3> QED BY <1>1, <1>2, <3>1, ApartFrom
  <2>11. failed' \subseteq failed /\ failed' \subseteq failed \cup {o.fence}
    BY <2>5
  <2> QED BY <1>1, <1>2, <1>3, <2>2, <2>3, <2>6, <2>7, <2>8, <2>9, <2>10, <2>11, DocStep
<1> QED BY <1>4, <1>5

LEMMA CommitKeeps ==
    ASSUME KInv, NEW p \in Procs, Commit(p) PROVE KInv'
<1>1. PICK o \in Ops : o = op[p]
  BY OpOf
<1>2. /\ o.at = "commit" /\ o.at \in Plain /\ o.at \in After /\ o.at \in Reserving
      /\ o.at \notin Promoted /\ o.at # "idle"
  BY <1>1, PlainSteps DEF Commit, Plain
<1>3. UNCHANGED <<mode, disk, points, contents, fences, used, cut, failed>>
  BY DEF Commit, stores
<1>4. CASE ~Active(p)
  <2>1. UNCHANGED mem /\ op' = [op EXCEPT ![p].at = "abortPoints", ![p].then = "return"]
    BY <1>4 DEF Commit
  <2>2. "abortPoints" \in Plain /\ "abortPoints" \in Steps
    BY PlainAreSteps DEF Plain
  <2>3. Becomes(p, "abortPoints")
    BY <2>1, <2>2, GoesBack
  <2>4. /\ points \subseteq points' /\ points' \subseteq Gens
        /\ contents \subseteq contents' /\ contents' \subseteq Gens
    BY <1>3 DEF KInv, KTypes
  <2> QED BY <1>1, <1>2, <1>3, <2>1, <2>2, <2>3, <2>4, PlainBecomes
<1>5. CASE Active(p)
  <2> DEFINE r == [fence |-> o.fence, marker |-> 0, status |-> "indexed", run |-> o.fence]
  <2>1. OpSound(o) /\ o.kb \in KBs /\ o.doc \in Docs /\ o.fence # 0 /\ o.fence \in Fences
    BY <1>1, <1>2, Found, OpFields
  <2>2. /\ r \in DocRecs /\ r.fence = o.fence /\ r.marker = 0 /\ r.status = "indexed"
        /\ r.run = o.fence
    BY <2>1, Nothing DEF DocRecs, NoDoc
  <2>3. Gives(o, r)
    <3>1. SetCurrent(p, r)
      BY <1>1, <1>5 DEF Commit
    <3> QED BY <1>1, <2>2, <3>1, GivesSet
  <2>4. /\ "commitSave" \in Steps /\ "commitSave" \in After /\ "commitSave" \in Reserving
        /\ "commitSave" \in Promoted
        /\ "commitSave" \notin Retiring \cup Undoing \cup Removing \cup Dropping
    BY DEF Steps, Reserving, Begun, After, Promoted, Retiring, Undoing, Removing, Dropping
  <2>5. Copies(p, "commitSave")
    BY <1>5 DEF Commit, Copies
  <2>6. PICK new \in Ops : /\ op' = [op EXCEPT ![p] = new] /\ new.at = "commitSave"
                           /\ SameAttempt(o, new) /\ new.snap = mem.doc[o.kb]
    BY <1>1, <2>4, <2>5, GoesCopying
  <2>7. o.kb \in mem.kbs /\ Unshown(disk, o.fence)
    <3>1. o.kb \in mem.kbs
      BY <1>1, <1>5 DEF Active, Has
    <3>2. Unshown(disk, o.fence)
      BY <1>2, <2>1 DEF OpSound, Hidden, ShowsOnly, Unshown
    <3> QED BY <3>1, <3>2
  <2>8. DocSound(o.kb, o.doc, r)
    <3>1. Gen(o.kb, o.doc, o.fence) \in Complete
      BY <1>2, <2>1, <2>7 DEF OpSound, Written, Complete
    <3>2. o.fence <= fences /\ 0 <= fences /\ o.fence \notin failed
      BY <1>1, <1>2, <2>1, Found DEF OpSound, Own
    <3> QED BY <2>1, <3>1, <3>2 DEF DocSound
  <2> HIDE DEF r
  <2>9. OpSound(new)'
    <3>0. /\ o.superseded # 0 =>
               /\ o.superseded <= fences /\ o.superseded # o.fence
               /\ mem.doc[o.kb][o.doc].fence # o.superseded
               /\ disk.doc[o.kb][o.doc].fence # o.superseded
      BY <1>2, <2>1 DEF OpSound, Superseded
    <3>1. /\ Own(new)' /\ ShowsOnly(mem', new) /\ ShowsOnly(disk', new)
          /\ Marks(new)' /\ Superseded(new)'
      BY <1>2, <1>3, <2>1, <2>2, <2>3, <2>4, <2>6, <3>0, AfterDoc DEF SameAttempt
    <3>2. Hidden(new)'
      BY <1>3, <2>6, <2>7, <3>1 DEF Hidden, ShowsOnly, Unshown, SameAttempt
    <3>3. CopySound(new)'
      BY <1>2, <1>3, <2>1, <2>6, <3>0, CopyTaken DEF SameAttempt
    <3>4. Waits(new)' /\ Written(new)' /\ Removed(new)' /\ Dropped(new)' /\ Remembers(new)'
      BY <2>4, <2>6, <3>3 DEF Waits, Written, Removed, Dropped, Remembers
    <3>5. Holds(new)'
      <4>1. mem'.doc[o.kb][o.doc] = r
        BY <2>1, <2>3 DEF Gives
      <4> QED BY <2>4, <2>6, <4>1 DEF Holds, SameAttempt, r
    <3> QED BY <2>4, <2>6, <3>1, <3>2, <3>4, <3>5 DEF OpSound
  <2>10. \A q \in Procs : q # p /\ op[q].at # "idle" =>
               mode = "overlap" /\ Clear(o, op[q]) /\ Apart(new, op[q])
    <3>1. Continues(o, new)
      BY <1>2, <2>6 DEF Continues, SameAttempt
    <3> QED BY <1>1, <1>2, <3>1, ApartFrom
  <2>11. failed' \subseteq failed /\ failed' \subseteq failed \cup {o.fence}
    BY <1>3
  <2> QED BY <1>1, <1>2, <1>3, <2>2, <2>3, <2>6, <2>7, <2>8, <2>9, <2>10, <2>11, DocStep
<1> QED BY <1>4, <1>5

LEMMA DeleteRemoveKeeps ==
    ASSUME KInv, NEW p \in Procs, DeleteRemove(p) PROVE KInv'
<1>1. PICK o \in Ops : o = op[p]
  BY OpOf
<1>2. /\ o.at = "deleteRemove" /\ o.at \notin After /\ o.at \in Reserving
      /\ o.at \notin Promoted /\ o.at # "idle"
  BY <1>1 DEF DeleteRemove, After, Begun, Promoted, Retiring, Reserving
<1>3. UNCHANGED <<mode, disk, points, contents, fences, used, cut, failed>>
  BY DEF DeleteRemove, stores
<1>4. CASE ~Has(mem, o.kb, o.doc)
  <2>1. UNCHANGED mem /\ op' = [op EXCEPT ![p] = Idle]
    BY <1>1, <1>4 DEF DeleteRemove, Return
  <2>2. /\ points' \subseteq Gens /\ points \cup cut \subseteq points' \cup cut'
        /\ disk' \in {disk, mem}
    BY <1>3 DEF KInv, KTypes
  <2> QED BY <1>1, <1>2, <1>3, <2>1, <2>2, IdleOp, AsideKeeps
<1>5. CASE Has(mem, o.kb, o.doc)
  <2>1. OpSound(o) /\ o.kb \in KBs /\ o.doc \in Docs /\ o.fence # 0 /\ fences \in Nat
    BY <1>1, <1>2, Found
  <2>2. NoDoc \in DocRecs /\ NoDoc.fence = 0 /\ NoDoc.marker = 0 /\ NoDoc.status = "none"
    BY Nothing
  <2>3. Gives(o, NoDoc)
    <3>1. SetCurrent(p, NoDoc)
      BY <1>1, <1>5 DEF DeleteRemove
    <3> QED BY <1>1, <2>2, <3>1, GivesSet
  <2>4. /\ "deleteSave" \in Steps /\ "deleteSave" \in Removing
        /\ "deleteSave" \notin After \cup Promoted \cup Retiring \cup Undoing \cup Dropping
    BY DEF Steps, Reserving, Begun, After, Promoted, Retiring, Undoing, Removing, Dropping
  <2>5. Copies(p, "deleteSave")
    BY <1>1, <1>5 DEF DeleteRemove, Copies
  <2>6. PICK new \in Ops : /\ op' = [op EXCEPT ![p] = new] /\ new.at = "deleteSave"
                           /\ SameAttempt(o, new) /\ new.snap = mem.doc[o.kb]
    BY <1>1, <2>4, <2>5, GoesCopying
  <2>7. DocSound(o.kb, o.doc, NoDoc)
    BY <2>1, <2>2 DEF DocSound
  <2>8. Unshown(disk, o.fence) /\ o.superseded = 0
    BY <1>2, <2>1 DEF OpSound, Hidden, ShowsOnly, Unshown, Superseded
  <2>9. OpSound(new)'
    <3>1. /\ Own(new)' /\ ShowsOnly(mem', new) /\ ShowsOnly(disk', new)
          /\ Marks(new)' /\ Superseded(new)'
      BY <1>2, <1>3, <2>1, <2>2, <2>3, <2>6, <2>8, AfterDoc DEF SameAttempt
    <3>2. Hidden(new)'
      BY <2>6, <3>1 DEF Hidden, ShowsOnly
    <3>3. CopySound(new)'
      BY <1>2, <1>3, <2>1, <2>6, <2>8, CopyTaken DEF SameAttempt
    <3>4. Waits(new)' /\ Written(new)' /\ Holds(new)' /\ Dropped(new)' /\ Remembers(new)'
      BY <2>4, <2>6, <3>3 DEF Waits, Written, Holds, Dropped, Remembers
    <3>5. Removed(new)'
      <4>1. mem'.doc[o.kb][o.doc] = NoDoc
        BY <2>1, <2>3 DEF Gives
      <4> QED BY <2>2, <2>6, <4>1 DEF Removed, SameAttempt
    <3> QED BY <2>4, <2>6, <3>1, <3>2, <3>4, <3>5 DEF OpSound
  <2>10. \A q \in Procs : q # p /\ op[q].at # "idle" =>
               mode = "overlap" /\ Clear(o, op[q]) /\ Apart(new, op[q])
    <3>1. Continues(o, new)
      BY <1>2, <2>6 DEF Continues, SameAttempt
    <3> QED BY <1>1, <1>2, <3>1, ApartFrom
  <2>11. failed' \subseteq failed /\ failed' \subseteq failed \cup {o.fence}
    BY <1>3
  <2> QED BY <1>1, <1>2, <1>3, <2>2, <2>3, <2>6, <2>7, <2>9, <2>10, <2>11, DocStep
<1> QED BY <1>4, <1>5
-----------------------------------------------------------------------------
(* Undoing a change whose save failed *)

\* An undo happens while saves may fail, to the one request there is.
LEMMA UndoAlone ==
    ASSUME KInv, NEW p \in Procs, NEW o \in Ops, o = op[p], o.at \in Undoing
    PROVE  mode = "faultySaves" /\ o.at # "idle" /\ OpSound(o)
BY DEF KInv, KTypes, OpSound, Undoing

\* What an undo puts back is sound, whether it is the copy, with its marker or
\* without it, or nothing.
LEMMA UndoRecord ==
    ASSUME KInv, NEW p \in Procs, NEW o \in Ops, o = op[p], o.at \in Undoing,
           o.at \in Remembering, NEW r,
           r \in {NoDoc, o.snap[o.doc], [o.snap[o.doc] EXCEPT !.marker = 0]}
    PROVE  /\ r \in DocRecs /\ DocSound(o.kb, o.doc, r) /\ r.fence # o.fence
           /\ r.marker # 0 => disk.doc[o.kb][o.doc].fence # r.marker
           /\ o.superseded # 0 => r.fence # o.superseded
<1>1. /\ o.kb \in KBs /\ o.doc \in Docs /\ o.snap[o.doc] \in DocRecs /\ o.fence # 0
      /\ fences \in Nat
  BY OpFields, UndoAlone, Found
<1>2. CopySound(o)
  BY UndoAlone DEF OpSound, Remembers
<1>3. PICK s \in DocRecs : s = o.snap[o.doc]
  BY <1>1
<1>4. /\ DocSound(o.kb, o.doc, s) /\ s.fence # o.fence
      /\ s.marker # 0 => disk.doc[o.kb][o.doc].fence # s.marker
      /\ o.superseded # 0 => s.fence # o.superseded
  BY <1>1, <1>2, <1>3 DEF CopySound
<1> DEFINE t == [s EXCEPT !.marker = 0]
<1>5. t \in DocRecs /\ t.fence = s.fence /\ t.marker = 0 /\ t.status = s.status
  BY Nothing DEF DocRecs, NoDoc
<1> HIDE DEF t
<1>6. DocSound(o.kb, o.doc, t)
  BY <1>1, <1>4, <1>5 DEF DocSound
<1>7. DocSound(o.kb, o.doc, NoDoc)
  BY <1>1, Nothing DEF DocSound
<1>8. r \in {NoDoc, s, t}
  BY <1>3 DEF t
<1>9. CASE r = NoDoc
  BY <1>1, <1>7, <1>9, Nothing
<1>10. CASE r = s
  BY <1>4, <1>10
<1>11. CASE r = t
  BY <1>4, <1>5, <1>6, <1>11
<1> QED BY <1>8, <1>9, <1>10, <1>11

\* The step itself, for any record that is sound in this way.
LEMMA UndoStep ==
    ASSUME KInv, NEW p \in Procs, NEW o \in Ops, o = op[p], o.at \in Undoing,
           o.at \in Remembering, o.at \in After, NEW new \in Ops, op' = [op EXCEPT ![p] = new],
           NEW r \in DocRecs, Gives(o, r), DocSound(o.kb, o.doc, r), r.fence # o.fence,
           r.marker # 0 => disk.doc[o.kb][o.doc].fence # r.marker,
           o.superseded # 0 => r.fence # o.superseded,
           r.status # "none" => o.kb \in mem.kbs,
           UNCHANGED <<mode, disk, points, contents, cut, fences, used>>,
           failed' \subseteq failed \cup {o.fence},
           failed' \subseteq failed \/ o.at \notin Promoted,
           \/ new.at = "idle"
           \/ /\ new.at \in {"undoSave", "abortPoints"} /\ SameAttempt(o, new)
              /\ failed' \subseteq failed
    PROVE  KInv'
<1>1. mode = "faultySaves" /\ o.at # "idle" /\ OpSound(o)
  BY UndoAlone
<1>2. o.at \in Reserving
  BY DEF After, Reserving
<1>3. Continues(o, new)
  BY <1>2 DEF Continues, SameAttempt
<1>4. new.at # "idle" => OpSound(new)'
  <2> SUFFICES ASSUME new.at \in {"undoSave", "abortPoints"}, SameAttempt(o, new),
                      failed' \subseteq failed
               PROVE  OpSound(new)'
    OBVIOUS
  <2>1. /\ new.at \in After
        /\ new.at \notin Promoted \cup Retiring \cup Removing \cup Dropping \cup Remembering
    BY DEF After, Begun, Promoted, Retiring, Removing, Dropping, Remembering
  <2>2. Unshown(disk, o.fence)
    <3>1. CASE o.at \in Promoted
      BY <1>1, <3>1 DEF OpSound, Hidden, Promoted, Retiring, Undoing
    <3>2. CASE o.at \notin Promoted
      BY <1>1, <3>2 DEF OpSound, Hidden, ShowsOnly, Unshown
    <3> QED BY <3>1, <3>2
  <2>3. o.superseded # 0 =>
            /\ o.superseded <= fences /\ o.superseded # o.fence
            /\ disk.doc[o.kb][o.doc].fence # o.superseded
    BY <1>1 DEF OpSound, Superseded
  <2>4. /\ Own(new)' /\ ShowsOnly(mem', new) /\ ShowsOnly(disk', new)
        /\ Marks(new)' /\ Superseded(new)'
    BY <1>1, <2>1, <2>2, <2>3, AfterDoc DEF SameAttempt
  <2>5. Hidden(new)'
    BY <2>4 DEF Hidden, ShowsOnly
  <2>6. Waits(new)' /\ Written(new)' /\ Holds(new)' /\ Removed(new)' /\ Dropped(new)'
        /\ Remembers(new)'
    BY <2>1 DEF Waits, Written, Holds, Removed, Dropped, Remembers
  <2>7. mode' # "overlap"
    BY <1>1
  <2> QED BY <2>4, <2>5, <2>6, <2>7 DEF OpSound
<1>5. \A q \in Procs : q # p /\ op[q].at # "idle" =>
               mode = "overlap" /\ Clear(o, op[q]) /\ Apart(new, op[q])
  BY <1>1, <1>3, ApartFrom
<1>6. failed' \subseteq failed \/ (r.fence # o.fence /\ o.at \notin Promoted)
  OBVIOUS
<1>7. mode = "overlap" => /\ r.fence \in {mem.doc[o.kb][o.doc].fence, 0, o.fence}
                          /\ r.marker \in {mem.doc[o.kb][o.doc].marker, 0, o.fence}
  BY <1>1
<1> QED BY <1>1, <1>2, <1>4, <1>5, <1>6, <1>7, DocStep

\* When the undo finds nothing to undo.
LEMMA UndoNothing ==
    ASSUME KInv, NEW p \in Procs, NEW o \in Ops, o = op[p], o.at \in Undoing, UNCHANGED mem,
           Current(p).fence # o.fence
    PROVE  \E r \in DocRecs :
             /\ Gives(o, r) /\ DocSound(o.kb, o.doc, r) /\ r.fence # o.fence
             /\ r.marker # 0 => disk.doc[o.kb][o.doc].fence # r.marker
             /\ o.superseded # 0 => r.fence # o.superseded
             /\ r.status # "none" => o.kb \in mem.kbs
<1>1. o.at # "idle" /\ OpSound(o)
  BY UndoAlone
<1>2. Gives(o, Current(p))
  BY GivesSame
<1>3. /\ o.kb \in KBs /\ o.doc \in Docs /\ Current(p) \in DocRecs
      /\ Current(p) = mem.doc[o.kb][o.doc] /\ DocSound(o.kb, o.doc, Current(p))
      /\ Current(p).marker # 0 => disk.doc[o.kb][o.doc].fence # Current(p).marker
  BY <1>1, Found
<1>4. Current(p).status # "none" => o.kb \in mem.kbs
  BY <1>3 DEF KInv, Global, StateSound
<1>5. o.superseded # 0 => Current(p).fence # o.superseded
  BY <1>1, <1>3 DEF OpSound, Superseded
<1> QED BY <1>2, <1>3, <1>4, <1>5

LEMMA BeginUndoKeeps ==
    ASSUME KInv, NEW p \in Procs, BeginUndo(p) PROVE KInv'
<1>1. PICK o \in Ops : o = op[p]
  BY OpOf
<1>2. /\ o.at \in Undoing /\ o.at \in Remembering /\ o.at \in After /\ o.at \notin Promoted
      /\ o.at # "idle"
  BY <1>1 DEF BeginUndo, Undoing, Remembering, After, Promoted, Retiring
<1>3. UNCHANGED <<mode, disk, points, contents, cut, fences, used, failed>>
  BY DEF BeginUndo, stores, observers
<1>4. PICK new \in Ops : op' = [op EXCEPT ![p] = new] /\ new.at = "undoSave" /\ SameAttempt(o, new)
  <2>1. "undoSave" \in Steps
    BY DEF Steps, Reserving
  <2>2. Goto(p, "undoSave")
    BY DEF BeginUndo
  <2> QED BY <1>1, <2>1, <2>2, Goes DEF Becomes
<1>5. PICK r \in DocRecs :
          /\ Gives(o, r) /\ DocSound(o.kb, o.doc, r) /\ r.fence # o.fence
          /\ r.marker # 0 => disk.doc[o.kb][o.doc].fence # r.marker
          /\ o.superseded # 0 => r.fence # o.superseded
          /\ r.status # "none" => o.kb \in mem.kbs
  <2>1. CASE Has(mem, o.kb, o.doc) /\ Current(p).marker = o.fence
    <3> DEFINE r == IF o.new THEN NoDoc ELSE o.snap[o.doc]
    <3>1. SetCurrent(p, r)
      BY <1>1, <2>1 DEF BeginUndo
    <3>2. r \in {NoDoc, o.snap[o.doc], [o.snap[o.doc] EXCEPT !.marker = 0]}
      OBVIOUS
    <3> HIDE DEF r
    <3>3. /\ r \in DocRecs /\ DocSound(o.kb, o.doc, r) /\ r.fence # o.fence
          /\ r.marker # 0 => disk.doc[o.kb][o.doc].fence # r.marker
          /\ o.superseded # 0 => r.fence # o.superseded
      BY <1>1, <1>2, <3>2, UndoRecord
    <3>4. Gives(o, r) /\ o.kb \in mem.kbs
      BY <1>1, <2>1, <3>1, <3>3, GivesSet DEF Has
    <3> QED BY <3>3, <3>4
  <2>2. CASE ~(Has(mem, o.kb, o.doc) /\ Current(p).marker = o.fence)
    <3>1. UNCHANGED mem
      BY <1>1, <2>2 DEF BeginUndo
    <3>2. Current(p).fence # o.fence
      BY <1>1, <1>2, Found DEF OpSound, Hidden, ShowsOnly
    <3> QED BY <1>1, <1>2, <3>1, <3>2, UndoNothing
  <2> QED BY <2>1, <2>2
<1>6. failed' \subseteq failed \cup {o.fence} /\ failed' \subseteq failed
  BY <1>3
<1> QED BY <1>1, <1>2, <1>3, <1>4, <1>5, <1>6, UndoStep

LEMMA FailUndoKeeps ==
    ASSUME KInv, NEW p \in Procs, FailUndo(p) PROVE KInv'
<1>1. PICK o \in Ops : o = op[p]
  BY OpOf
<1>2. /\ o.at \in Undoing /\ o.at \in Remembering /\ o.at \in After /\ o.at \notin Promoted
      /\ o.at # "idle"
  BY <1>1 DEF FailUndo, Undoing, Remembering, After, Begun, Promoted, Retiring
<1>3. UNCHANGED <<mode, disk, points, contents, cut, fences, used>>
  BY DEF FailUndo, stores
<1>4. op' = [op EXCEPT ![p] = Idle] /\ failed' \subseteq failed \cup {o.fence}
  BY <1>1, Left DEF FailUndo
<1>5. PICK r \in DocRecs :
          /\ Gives(o, r) /\ DocSound(o.kb, o.doc, r) /\ r.fence # o.fence
          /\ r.marker # 0 => disk.doc[o.kb][o.doc].fence # r.marker
          /\ o.superseded # 0 => r.fence # o.superseded
          /\ r.status # "none" => o.kb \in mem.kbs
  <2>1. CASE Has(mem, o.kb, o.doc) /\ Current(p).run = o.fence /\ Current(p).marker = 0
    <3>1. SetCurrent(p, Restored(p))
      BY <1>1, <2>1 DEF FailUndo
    <3>2. Restored(p) \in {NoDoc, o.snap[o.doc], [o.snap[o.doc] EXCEPT !.marker = 0]}
      BY <1>1 DEF Restored
    <3>3. PICK r : r = Restored(p)
      OBVIOUS
    <3>4. /\ r \in DocRecs /\ DocSound(o.kb, o.doc, r) /\ r.fence # o.fence
          /\ r.marker # 0 => disk.doc[o.kb][o.doc].fence # r.marker
          /\ o.superseded # 0 => r.fence # o.superseded
      BY <1>1, <1>2, <3>2, <3>3, UndoRecord
    <3>5. Gives(o, r) /\ o.kb \in mem.kbs
      BY <1>1, <2>1, <3>1, <3>3, <3>4, GivesSet DEF Has
    <3> QED BY <3>4, <3>5
  <2>2. CASE ~(Has(mem, o.kb, o.doc) /\ Current(p).run = o.fence /\ Current(p).marker = 0)
    <3>1. UNCHANGED mem
      BY <1>1, <2>2 DEF FailUndo
    <3>2. Current(p).fence # o.fence
      BY <1>1, <1>2, Found DEF OpSound, Hidden, ShowsOnly
    <3> QED BY <1>1, <1>2, <3>1, <3>2, UndoNothing
  <2> QED BY <2>1, <2>2
<1> QED BY <1>1, <1>2, <1>3, <1>4, <1>5, IdleOp, UndoStep

LEMMA UncommitKeeps ==
    ASSUME KInv, NEW p \in Procs, CommitUndo(p) PROVE KInv'
<1>1. PICK o \in Ops : o = op[p]
  BY OpOf
<1>2. /\ o.at \in Undoing /\ o.at \in Remembering /\ o.at \in After /\ o.at \in Promoted
      /\ o.at # "idle" /\ OpSound(o) /\ o.kb \in KBs /\ o.doc \in Docs
  BY <1>1, OpFields DEF CommitUndo, KInv, Undoing, Remembering, After, Begun, Promoted
<1>3. UNCHANGED <<mode, disk, points, contents, cut, fences, used, failed>>
  BY DEF CommitUndo, stores
<1>4. PICK new \in Ops : /\ op' = [op EXCEPT ![p] = new] /\ new.at = "abortPoints"
                         /\ SameAttempt(o, new)
  <2>1. "abortPoints" \in Steps
    BY PlainAreSteps DEF Plain
  <2>2. op' = [op EXCEPT ![p].at = "abortPoints", ![p].then = "return"]
    BY DEF CommitUndo
  <2> QED BY <1>1, <2>1, <2>2, GoesBack DEF Becomes
<1> DEFINE mine == /\ Has(mem, o.kb, o.doc) /\ Current(p).fence = o.fence
                   /\ Current(p).run = o.fence /\ Current(p).marker = 0
<1>5. PICK r \in DocRecs :
          /\ Gives(o, r) /\ DocSound(o.kb, o.doc, r) /\ r.fence # o.fence
          /\ r.marker # 0 => disk.doc[o.kb][o.doc].fence # r.marker
          /\ o.superseded # 0 => r.fence # o.superseded
          /\ r.status # "none" => o.kb \in mem.kbs
  <2>1. CASE mine
    <3>1. SetCurrent(p, Restored(p))
      BY <1>1, <2>1 DEF CommitUndo
    <3>2. Restored(p) \in {NoDoc, o.snap[o.doc], [o.snap[o.doc] EXCEPT !.marker = 0]}
      BY <1>1 DEF Restored
    <3>3. PICK r : r = Restored(p)
      OBVIOUS
    <3>4. /\ r \in DocRecs /\ DocSound(o.kb, o.doc, r) /\ r.fence # o.fence
          /\ r.marker # 0 => disk.doc[o.kb][o.doc].fence # r.marker
          /\ o.superseded # 0 => r.fence # o.superseded
      BY <1>1, <1>2, <3>2, <3>3, UndoRecord
    <3>5. Gives(o, r) /\ o.kb \in mem.kbs
      BY <1>1, <2>1, <3>1, <3>3, <3>4, GivesSet DEF Has
    <3> QED BY <3>4, <3>5
  <2>2. CASE ~mine
    <3>1. UNCHANGED mem
      BY <1>1, <2>2 DEF CommitUndo
    <3>2. Current(p) = mem.doc[o.kb][o.doc] /\ DocSound(o.kb, o.doc, Current(p)) /\ o.fence # 0
      BY <1>1, <1>2, Found
    <3>3. Current(p).fence # o.fence
      <4>1. CASE Current(p).status = "none"
        BY <3>2, <4>1 DEF DocSound
      <4>2. CASE Current(p).status # "none"
        <5>1. o.kb \in mem.kbs
          BY <1>2, <3>2, <4>2 DEF KInv, Global, StateSound
        <5>2. /\ Current(p).fence = o.fence /\ Current(p).run = o.fence /\ Current(p).marker = 0
          BY <1>2, <3>2, <4>2 DEF OpSound, Holds
        <5> QED BY <2>2, <3>2, <4>2, <5>1, <5>2 DEF Has
      <4> QED BY <4>1, <4>2
    <3> QED BY <1>1, <1>2, <3>1, <3>3, UndoNothing
  <2> QED BY <2>1, <2>2
<1>6. failed' \subseteq failed \cup {o.fence} /\ failed' \subseteq failed
  BY <1>3
<1> QED BY <1>1, <1>2, <1>3, <1>4, <1>5, <1>6, UndoStep
-----------------------------------------------------------------------------
(* Reserving and beginning *)

\* A request takes hold of a content that no other holds.
LEMMA ReserveStep ==
    ASSUME KInv, NEW p \in Procs, NEW o \in Ops, o = op[p], o.at = "reserve", ~Reserved(p),
           NEW new \in Ops, op' = [op EXCEPT ![p] = new],
           new.kb = o.kb, new.doc = o.doc, new.fence = o.fence, new.superseded = o.superseded,
           OpSound(new)',
           UNCHANGED <<mode, mem, disk, points, contents, cut, fences, used, failed>>
    PROVE  KInv'
<1>1. o.at # "idle" /\ o.at \notin Reserving
  BY DEF Reserving, Begun, Retiring
<1>2. StoreTypes' /\ fences \in Nat
  BY FenceNumbers DEF KInv, KTypes, StoreTypes
<1>3. Global'
  BY DEF KInv, Global, StateSound, DocSound, Complete
<1>4. Footprint(o)
  BY <1>2 DEF Footprint, DocKept, GenKept, KInv, KTypes
<1>5. ASSUME NEW q \in Procs, q # p, op[q].at # "idle"
      PROVE  mode = "overlap" /\ Clear(o, op[q]) /\ Apart(new, op[q])
  <2>1. PICK r \in Ops : r = op[q]
    BY OpOf
  <2>2. Apart(o, r) /\ r.at # "idle"
    BY <1>5, <2>1 DEF KInv
  <2>3. mode = "overlap" /\ Clear(o, r)
    BY <1>1, <2>2 DEF Apart, Clear
  <2>4. r.at \in Reserving /\ o.kb = r.kb => Checksum[o.doc] # Checksum[r.doc]
    BY <1>5, <2>1 DEF Reserved
  <2>5. Apart(new, r)
    BY <1>1, <2>2, <2>4 DEF Apart
  <2> QED BY <2>1, <2>3, <2>5
<1> QED BY <1>2, <1>3, <1>4, <1>5, StepKeeps

LEMMA ReserveKeeps ==
    ASSUME KInv, NEW p \in Procs, Reserve(p) PROVE KInv'
<1>1. PICK o \in Ops : o = op[p]
  BY OpOf
<1>2. /\ o.at = "reserve" /\ ~Reserved(p) /\ o.at # "idle" /\ o.at \notin After
      /\ o.at \notin Promoted
  BY <1>1 DEF Reserve, After, Begun, Promoted, Retiring
<1>3. UNCHANGED <<mode, mem, disk, points, contents, cut, fences, used, failed>>
  BY DEF Reserve, stores, observers
<1>4. /\ o.kb \in KBs /\ o.doc \in Docs /\ OpSound(o) /\ Current(p) = mem.doc[o.kb][o.doc]
      /\ Current(p) \in DocRecs /\ DocSound(o.kb, o.doc, Current(p))
  BY <1>1, <1>2, Found
<1>5. CASE Return(p)
  <2>1. op' = [op EXCEPT ![p] = Idle]
    BY <1>5 DEF Return
  <2>2. /\ points' \subseteq Gens /\ points \cup cut \subseteq points' \cup cut'
        /\ disk' \in {disk, mem}
    BY <1>3 DEF KInv, KTypes
  <2> QED BY <1>1, <1>2, <1>3, <2>1, <2>2, IdleOp, AsideKeeps
<1>6. CASE Goto(p, "deletePoints")
  <2>1. "deletePoints" \in Steps /\ "deletePoints" \in Aside
    BY AsideSteps DEF Aside, Steps, Reserving
  <2>2. PICK new \in Ops : /\ op' = [op EXCEPT ![p] = new] /\ new.at = "deletePoints"
                           /\ SameAttempt(o, new)
    BY <1>1, <1>6, <2>1, Goes DEF Becomes
  <2>3. OpSound(new)'
    BY <1>2, <1>3, <1>4, <2>1, <2>2, AsideSound
  <2> QED BY <1>1, <1>2, <1>3, <2>2, <2>3, ReserveStep DEF SameAttempt
<1>7. CASE op' = [op EXCEPT ![p].at = "reserved", ![p].prev = Current(p).fence]
  <2>1. PICK f \in Fences : f = Current(p).fence
    BY <1>4, RecFields
  <2> DEFINE new == [o EXCEPT !.at = "reserved", !.prev = f]
  <2>2. /\ new \in Ops /\ new.at = "reserved" /\ new.prev = f
        /\ new.kb = o.kb /\ new.doc = o.doc /\ new.fence = o.fence /\ new.superseded = o.superseded
    <3>1. "reserved" \in Steps
      BY DEF Steps, Reserving
    <3> QED BY <2>1, <3>1 DEF Ops
  <2>3. op' = [op EXCEPT ![p] = new]
    BY <1>1, <1>7, <2>1, OpOf
  <2> HIDE DEF new
  <2>4. /\ "reserved" \notin After \cup Promoted \cup Retiring \cup Undoing \cup Remembering
        /\ "reserved" \notin Removing \cup Dropping
    BY DEF After, Begun, Promoted, Retiring, Undoing, Remembering, Removing, Dropping
  <2>5. Own(new)'
    BY <1>2, <1>3, <1>4, <2>1, <2>2 DEF OpSound, Own, Hidden, ShowsOnly
  <2>6. Hidden(new)'
    BY <1>2, <1>3, <1>4, <2>2, <2>4 DEF OpSound, Hidden, ShowsOnly
  <2>7. Marks(new)' /\ Superseded(new)'
    BY <1>2, <1>3, <1>4, <2>2, <2>4 DEF OpSound, Marks, Superseded
  <2>8. Waits(new)'
    BY <1>3, <1>4, <2>1, <2>2 DEF Waits, DocSound
  <2>9. /\ Written(new)' /\ Holds(new)' /\ Removed(new)' /\ Dropped(new)' /\ Remembers(new)'
    BY <2>2, <2>4 DEF Written, Holds, Removed, Dropped, Remembers
  <2>10. OpSound(new)'
    BY <2>2, <2>4, <2>5, <2>6, <2>7, <2>8, <2>9 DEF OpSound
  <2> QED BY <1>1, <1>2, <1>3, <2>2, <2>3, <2>10, ReserveStep
<1> QED BY <1>5, <1>6, <1>7 DEF Reserve

\* An attempt puts its marker on its document, and remembers whose place it took.
LEMMA BeginStep ==
    ASSUME KInv, NEW p \in Procs, NEW o \in Ops, o = op[p], o.at = "reserved",
           NEW new \in Ops, op' = [op EXCEPT ![p] = new], new.at = "beginSave",
           new.kb = o.kb, new.doc = o.doc, new.fence = o.fence, new.prev = o.prev,
           new.snap = mem.doc[o.kb], new.superseded \in {0, Current(p).marker},
           NEW r \in DocRecs, Gives(o, r), r.marker = o.fence, r.fence = Current(p).fence,
           r.status # "none", o.kb \in mem.kbs,
           UNCHANGED <<mode, disk, points, contents, cut, fences, used, failed>>
    PROVE  KInv'
<1>1. /\ o.at # "idle" /\ o.at \in Reserving /\ o.at \notin After /\ o.at \notin Promoted
      /\ new.at \in After /\ new.at \in Reserving /\ new.at \in Remembering
      /\ new.at \notin Promoted \cup Retiring \cup Undoing \cup Removing \cup Dropping
  BY DEF Reserving, After, Begun, Promoted, Retiring, Remembering, Undoing, Removing, Dropping
<1>2. PICK cur \in DocRecs : cur = mem.doc[o.kb][o.doc] /\ cur = Current(p)
  BY <1>1, Found
<1>3. /\ o.kb \in KBs /\ o.doc \in Docs /\ OpSound(o) /\ o.fence # 0 /\ fences \in Nat
      /\ o.fence <= fences /\ DocSound(o.kb, o.doc, cur)
      /\ cur.marker # 0 => disk.doc[o.kb][o.doc].fence # cur.marker
  BY <1>1, <1>2, Found
<1>4. Unshown(mem, o.fence) /\ Unshown(disk, o.fence) /\ cur.marker # o.fence
  <2>1. ShowsOnly(mem, o) /\ ShowsOnly(disk, o) /\ Marks(o)
    BY <1>1, <1>3 DEF OpSound, Hidden
  <2>2. Unshown(mem, o.fence) /\ Unshown(disk, o.fence)
    BY <1>1, <2>1 DEF ShowsOnly, Unshown
  <2>3. cur.marker # o.fence
    BY <1>1, <1>2, <1>3, <2>1 DEF Marks
  <2> QED BY <2>2, <2>3
<1>5. cur.fence # o.fence
  BY <1>2, <1>3, <1>4 DEF Unshown
<1>6. DocSound(o.kb, o.doc, r) /\ disk.doc[o.kb][o.doc].fence # r.marker
  BY <1>2, <1>3, <1>4, <1>5 DEF DocSound, Unshown
<1>7. new.superseded # 0 =>
          /\ new.superseded = cur.marker /\ new.superseded <= fences
          /\ new.superseded # o.fence /\ r.fence # new.superseded /\ cur.fence # new.superseded
          /\ disk.doc[o.kb][o.doc].fence # new.superseded
  BY <1>2, <1>3, <1>4 DEF DocSound
<1>8. OpSound(new)'
  <2>1. failed' \subseteq failed /\ r.fence # o.fence
    BY <1>2, <1>5
  <2>2. /\ Own(new)' /\ ShowsOnly(mem', new) /\ ShowsOnly(disk', new)
        /\ Marks(new)' /\ Superseded(new)'
    BY <1>1, <1>3, <1>4, <1>7, <2>1, AfterDoc
  <2>3. Hidden(new)'
    BY <2>2 DEF Hidden, ShowsOnly
  <2>4. CopySound(new)'
    BY <1>1, <1>2, <1>3, <1>7, CopyTaken
  <2>5. /\ Waits(new)' /\ Written(new)' /\ Holds(new)' /\ Removed(new)' /\ Dropped(new)'
        /\ Remembers(new)'
    BY <1>1, <2>4 DEF Waits, Written, Holds, Removed, Dropped, Remembers
  <2> QED BY <1>1, <2>2, <2>3, <2>5 DEF OpSound
<1>9. \A q \in Procs : q # p /\ op[q].at # "idle" =>
               mode = "overlap" /\ Clear(o, op[q]) /\ Apart(new, op[q])
  <2> SUFFICES ASSUME NEW q \in Procs, q # p, op[q].at # "idle"
               PROVE  mode = "overlap" /\ Clear(o, op[q]) /\ Apart(new, op[q])
    OBVIOUS
  <2>1. PICK s \in Ops : s = op[q]
    BY OpOf
  <2>2. Apart(o, s) /\ s.at # "idle" /\ OpSound(s)
    BY <2>1 DEF KInv
  <2>3. mode = "overlap" /\ Clear(o, s)
    BY <1>1, <2>2 DEF Apart, Clear
  <2>4. s.at \in Reserving /\ o.kb = s.kb => Checksum[o.doc] # Checksum[s.doc]
    BY <1>1, <2>2 DEF Apart
  <2>5. cur.marker # s.fence
    BY <1>2, <1>3, <2>2, <2>4 DEF OpSound, Marks, After, Reserving
  <2>6. s.fence # 0
    BY <2>2, FenceNumbers DEF KInv, KTypes, OpSound, Own
  <2>7. new.superseded # s.fence
    BY <1>7, <2>5, <2>6
  <2>8. Apart(new, s)
    BY <1>1, <2>2, <2>4, <2>7 DEF Apart
  <2> QED BY <2>1, <2>3, <2>8
<1>10. /\ failed' \subseteq failed /\ failed' \subseteq failed \cup {o.fence}
       /\ r.fence \in {mem.doc[o.kb][o.doc].fence, 0, o.fence}
       /\ r.marker \in {mem.doc[o.kb][o.doc].marker, 0, o.fence}
  BY <1>2
<1>11. /\ r.marker # 0 => disk.doc[o.kb][o.doc].fence # r.marker
       /\ r.status # "none" => o.kb \in mem.kbs
       /\ failed' \subseteq failed \/ (r.fence # o.fence /\ o.at \notin Promoted)
  BY <1>6, <1>10
<1>12. new.at # "idle" => OpSound(new)'
  BY <1>8
<1>13. UNCHANGED <<mode, disk, points, contents, cut, fences, used>>
  OBVIOUS
<1>14. DocSound(o.kb, o.doc, r)
  BY <1>6
<1>15. mode = "overlap" => /\ r.fence \in {mem.doc[o.kb][o.doc].fence, 0, o.fence}
                          /\ r.marker \in {mem.doc[o.kb][o.doc].marker, 0, o.fence}
  BY <1>10
<1>16. o.at # "idle" /\ o.at \in Reserving /\ failed' \subseteq failed \cup {o.fence}
  BY <1>1
<1> QED BY <1>9, <1>11, <1>12, <1>13, <1>14, <1>15, <1>16, DocStep

LEMMA BeginKeeps ==
    ASSUME KInv, NEW p \in Procs, Begin(p) PROVE KInv'
<1>1. PICK o \in Ops : o = op[p]
  BY OpOf
<1>2. o.at = "reserved" /\ o.at # "idle" /\ o.at \notin After /\ o.at \notin Promoted
  BY <1>1 DEF Begin, After, Begun, Promoted, Retiring
<1>3. UNCHANGED <<mode, disk, points, contents, cut, fences, used, failed>>
  BY DEF Begin, stores, observers
<1>4. PICK cur \in DocRecs : cur = mem.doc[o.kb][o.doc] /\ cur = Current(p)
  BY <1>1, <1>2, Found
<1>5. /\ o.kb \in KBs /\ o.doc \in Docs /\ OpSound(o) /\ DocSound(o.kb, o.doc, cur)
      /\ mem.doc[o.kb] \in [Docs -> DocRecs]
  BY <1>1, <1>2, <1>4, Found, StateFields DEF KInv, KTypes
<1>6. "beginSave" \in Steps
  BY DEF Steps, Reserving
<1>7. CASE Return(p) /\ UNCHANGED mem
  <2>1. op' = [op EXCEPT ![p] = Idle]
    BY <1>7 DEF Return
  <2>2. /\ points' \subseteq Gens /\ points \cup cut \subseteq points' \cup cut'
        /\ disk' \in {disk, mem}
    BY <1>3 DEF KInv, KTypes
  <2> QED BY <1>1, <1>2, <1>3, <1>7, <2>1, <2>2, IdleOp, AsideKeeps
<1>8. CASE /\ Has(mem, o.kb, o.doc)
           /\ SetCurrent(p, [cur EXCEPT !.marker = o.fence])
           /\ op' = [op EXCEPT ![p].at = "beginSave", ![p].snap = mem.doc[o.kb],
                               ![p].superseded = cur.marker]
  <2> DEFINE new == [o EXCEPT !.at = "beginSave", !.snap = mem.doc[o.kb],
                              !.superseded = cur.marker]
             r == [cur EXCEPT !.marker = o.fence]
  <2>1. /\ new \in Ops /\ new.at = "beginSave" /\ new.snap = mem.doc[o.kb]
        /\ new.superseded = cur.marker /\ new.prev = o.prev
        /\ new.kb = o.kb /\ new.doc = o.doc /\ new.fence = o.fence
    BY <1>5, <1>6, RecFields DEF Ops
  <2>2. op' = [op EXCEPT ![p] = new]
    BY <1>1, <1>8, OpOf
  <2>3. r \in DocRecs /\ r.marker = o.fence /\ r.fence = cur.fence /\ r.status = cur.status
    BY OpFields DEF DocRecs
  <2>4. SetCurrent(p, r)
    BY <1>8
  <2> HIDE DEF new, r
  <2>5. Gives(o, r)
    BY <1>1, <2>3, <2>4, GivesSet
  <2>6. o.kb \in mem.kbs /\ r.status # "none" /\ new.superseded \in {0, Current(p).marker}
        /\ r.fence = Current(p).fence
    BY <1>4, <1>8, <2>1, <2>3 DEF Has
  <2> QED BY <1>1, <1>2, <1>3, <2>1, <2>2, <2>3, <2>5, <2>6, BeginStep
<1>9. CASE /\ o.kb \in mem.kbs /\ ~Has(mem, o.kb, o.doc)
           /\ SetCurrent(p, [fence |-> o.prev, marker |-> o.fence, status |-> "processing",
                             run |-> 0])
           /\ op' = [op EXCEPT ![p].at = "beginSave", ![p].snap = mem.doc[o.kb],
                               ![p].new = TRUE]
  <2> DEFINE new == [o EXCEPT !.at = "beginSave", !.snap = mem.doc[o.kb], !.new = TRUE]
             r == [fence |-> o.prev, marker |-> o.fence, status |-> "processing", run |-> 0]
  <2>1. /\ new \in Ops /\ new.at = "beginSave" /\ new.snap = mem.doc[o.kb]
        /\ new.superseded = o.superseded /\ new.prev = o.prev
        /\ new.kb = o.kb /\ new.doc = o.doc /\ new.fence = o.fence
    BY <1>5, <1>6 DEF Ops
  <2>2. op' = [op EXCEPT ![p] = new]
    BY <1>1, <1>9, OpOf
  <2>3. r \in DocRecs /\ r.marker = o.fence /\ r.fence = o.prev /\ r.status # "none"
    BY OpFields, Nothing DEF DocRecs, NoDoc
  <2>4. SetCurrent(p, r)
    BY <1>9
  <2> HIDE DEF new, r
  <2>5. Gives(o, r)
    BY <1>1, <2>3, <2>4, GivesSet
  <2>6. cur.status = "none"
    BY <1>4, <1>9 DEF Has
  <2>7. o.prev = 0 /\ cur.fence = 0
    BY <1>2, <1>4, <1>5, <1>9, <2>6 DEF OpSound, Waits, DocSound
  <2>8. o.superseded = 0
    BY <1>2, <1>5 DEF OpSound, Superseded
  <2>9. new.superseded \in {0, Current(p).marker} /\ r.fence = Current(p).fence
    BY <1>4, <2>1, <2>3, <2>7, <2>8
  <2> QED BY <1>1, <1>2, <1>3, <1>9, <2>1, <2>2, <2>3, <2>5, <2>9, BeginStep
<1> QED BY <1>1, <1>4, <1>7, <1>8, <1>9 DEF Begin
-----------------------------------------------------------------------------
(* New requests *)

\* A request begins with a fence of its own.
Starts(p, k, d, at, snap, new) ==
    /\ op' = [op EXCEPT ![p] = new] /\ new.at = at /\ new.kb = k /\ new.doc = d
    /\ new.fence = fences + 1 /\ new.prev = 0 /\ new.superseded = 0 /\ new.snap = snap
    /\ fences' = fences + 1 /\ fences' \in Fences

LEMMA Fresh ==
    ASSUME KInv, NEW p \in Procs, CanStart(p),
           NEW kind \in {"index", "reindex", "delete", "create", "drop"},
           NEW k \in KBs, NEW d \in Docs, NEW at \in Steps, NEW snap \in [Docs -> DocRecs],
           Start(p, kind, k, d, at, snap)
    PROVE  \E new \in Ops : Starts(p, k, d, at, snap, new)
<1>1. fences \in Nat /\ fences + 1 \in Fences
  BY KnowledgeConstants, FenceNumbers DEF KInv, KTypes, CanStart, Fences
<1> DEFINE new == [Idle EXCEPT !.at = at, !.kind = kind, !.kb = k, !.doc = d,
                               !.fence = fences + 1, !.snap = snap]
<1>2. Idle.prev = 0 /\ Idle.superseded = 0
  BY DEF Idle
<1>3. /\ new \in Ops /\ new.at = at /\ new.kb = k /\ new.doc = d /\ new.fence = fences + 1
      /\ new.prev = Idle.prev /\ new.superseded = Idle.superseded /\ new.snap = snap
  BY <1>1, IdleOp DEF Ops
<1>4. op' = [op EXCEPT ![p] = new] /\ fences' = fences + 1
  BY DEF Start
<1> HIDE DEF new
<1> QED BY <1>1, <1>2, <1>3, <1>4 DEF Starts

LEMMA FreshAlone ==
    ASSUME KInv, NEW p \in Procs, CanStart(p), NEW new \in Ops, new.fence = fences + 1,
           new.superseded = 0, new.at \notin Reserving
    PROVE  \A q \in Procs : q # p /\ op[q].at # "idle" =>
               mode = "overlap" /\ Clear(Idle, op[q]) /\ Apart(new, op[q])
<1> SUFFICES ASSUME NEW q \in Procs, q # p, op[q].at # "idle"
             PROVE  mode = "overlap" /\ Clear(Idle, op[q]) /\ Apart(new, op[q])
  OBVIOUS
<1>1. PICK r \in Ops : r = op[q]
  BY OpOf
<1>2. mode = "overlap"
  BY DEF KInv, KTypes, CanStart, Overlaps
<1>3. OpSound(r) /\ r.at # "idle" /\ fences \in Nat
  BY <1>1, FenceNumbers DEF KInv, KTypes
<1>4. r.fence \in 1..fences /\ r.superseded \in Nat /\ r.superseded <= fences
  BY <1>3, OpFields, FenceNumbers DEF OpSound, Own, Superseded
<1>5. Idle.fence = 0 /\ Idle.at \notin Reserving
  BY DEF Idle, Reserving, Begun, Retiring
<1>6. Clear(Idle, r)
  BY <1>3, <1>4, <1>5 DEF Clear
<1>7. Apart(new, r)
  BY <1>2, <1>3, <1>4 DEF Apart
<1> QED BY <1>1, <1>2, <1>6, <1>7

\* Documents may go with their knowledge base.
Keeps ==
    /\ mem' \in States /\ used \subseteq used' /\ used' \subseteq KBs /\ mem'.kbs \subseteq used'
    /\ \A k \in mem'.kbs : k \in mem.kbs \/ k \notin used
    /\ \A k \in KBs, d \in Docs :
           /\ \/ mem'.doc[k][d] = mem.doc[k][d]
              \/ mem'.doc[k][d] = NoDoc /\ k \notin mem'.kbs
           /\ k \notin mem'.kbs => mem'.doc[k][d].status = "none"

LEMMA FreshSound ==
    ASSUME KInv, NEW p \in Procs, NEW k \in KBs, NEW d \in Docs,
           NEW at \in {"reserve", "createSave", "dropSave"}, NEW snap, NEW new \in Ops,
           Starts(p, k, d, at, snap, new), Keeps, k \in used',
           at = "dropSave" => k \notin mem'.kbs /\ snap = mem.doc[k],
           UNCHANGED <<mode, disk, points, contents, cut, failed>>
    PROVE  OpSound(new)'
<1> USE DEF Starts
<1>1. fences \in Nat /\ fences' = fences + 1
  BY FenceNumbers DEF KInv, KTypes
<1>2. /\ at \notin After \cup Promoted \cup Retiring \cup Undoing \cup Removing
      /\ at \in Dropping \cup Remembering => at = "dropSave"
  BY DEF After, Begun, Promoted, Retiring, Undoing, Removing, Dropping, Remembering
<1>3. ASSUME NEW j \in KBs, NEW e \in Docs
      PROVE  /\ mem.doc[j][e].fence # new.fence /\ mem.doc[j][e].marker # new.fence
             /\ disk.doc[j][e].fence # new.fence
             /\ mem'.doc[j][e].fence # new.fence /\ mem'.doc[j][e].marker # new.fence
  <2>1. PICK r \in DocRecs, s \in DocRecs : r = mem.doc[j][e] /\ s = disk.doc[j][e]
    BY StateFields DEF KInv, KTypes
  <2>2. r.fence <= fences /\ r.marker <= fences /\ s.fence <= fences
    BY <2>1 DEF KInv, Global, StateSound, DocSound
  <2>3. r.fence \in Nat /\ r.marker \in Nat /\ s.fence \in Nat
    BY RecFields, FenceNumbers
  <2>4. mem'.doc[j][e] \in {r, NoDoc}
    BY <2>1 DEF Keeps
  <2> QED BY <1>1, <2>1, <2>2, <2>3, <2>4, Nothing
<1>4. Own(new)'
  <2>1. failed \subseteq 1..fences
    BY DEF KInv, Global
  <2> QED BY <1>1, <2>1 DEF Own
<1>5. Hidden(new)'
  BY <1>2, <1>3 DEF Hidden, ShowsOnly, Unshown
<1>6. Marks(new)' /\ Superseded(new)'
  BY <1>3 DEF Marks, Superseded
<1>7. Waits(new)' /\ Written(new)' /\ Holds(new)' /\ Removed(new)' /\ Dropped(new)'
  BY <1>2 DEF Waits, Written, Holds, Removed, Dropped
<1>8. Remembers(new)'
  <2> SUFFICES ASSUME at = "dropSave" PROVE CopySound(new)'
    BY <1>2 DEF Remembers
  <2>1. ASSUME NEW e \in Docs
        PROVE  /\ DocSound(k, e, snap[e])' /\ snap[e].fence # new.fence
               /\ snap[e].marker # 0 => disk.doc[k][e].fence # snap[e].marker
    <3>1. PICK r \in DocRecs : r = mem.doc[k][e] /\ r = snap[e]
      BY StateFields DEF KInv, KTypes
    <3>2. /\ DocSound(k, e, r) /\ r.fence # new.fence
          /\ r.marker # 0 => disk.doc[k][e].fence # r.marker
      BY <1>3, <3>1 DEF KInv, Global, StateSound
    <3>3. r.fence \in Nat /\ r.marker \in Nat
      BY RecFields, FenceNumbers
    <3>4. DocSound(k, e, r)'
      BY <1>1, <3>2, <3>3 DEF DocSound, Complete
    <3> QED BY <3>1, <3>2, <3>4
  <2> QED BY <2>1 DEF CopySound
<1> QED BY <1>2, <1>4, <1>5, <1>6, <1>7, <1>8 DEF OpSound

\* What a step that may remove documents leaves of the state.
LEMMA KeptGlobal ==
    ASSUME KTypes, Global, Keeps, fences' \in Fences, fences <= fences',
           UNCHANGED <<disk, points, contents, cut, failed>>
    PROVE  Global'
<1>1. 0 \in Fences /\ failed' \subseteq failed \cup {0} /\ failed' \subseteq failed
  BY Nothing DEF NoDoc, DocRecs
<1>2. ASSUME NEW k \in KBs, NEW d \in Docs
      PROVE  /\ \/ mem'.doc[k][d] = mem.doc[k][d]
                \/ /\ DocSound(k, d, mem'.doc[k][d])
                   /\ mem'.doc[k][d].marker # 0 => disk.doc[k][d].fence # mem'.doc[k][d].marker
             /\ k \notin mem'.kbs => mem'.doc[k][d].status = "none"
  <2>1. DocSound(k, d, NoDoc)
    BY Nothing, FenceNumbers DEF DocSound, KTypes
  <2> QED BY <2>1, Nothing DEF Keeps
<1>3. Stays(mem') /\ Stays(disk')
  BY DEF Stays, Complete
<1>4. mem' \in States /\ used \subseteq used' /\ mem'.kbs \subseteq used'
  BY DEF Keeps
<1> QED BY <1>1, <1>2, <1>3, <1>4, GlobalKeeps

LEMMA KeptFootprint ==
    ASSUME KTypes, Keeps, fences' \in Fences, fences <= fences',
           UNCHANGED <<mode, disk, points, contents, cut, failed>>, NEW f
    PROVE  Footprint(f)
<1>1. ASSUME NEW k \in KBs, NEW d \in Docs PROVE DocKept(f, k, d)
  BY DEF Keeps, DocKept
<1>2. ASSUME NEW k \in KBs, NEW d \in Docs, NEW g \in Fences PROVE GenKept(f, k, d, g)
  BY DEF GenKept
<1> QED BY <1>1, <1>2 DEF Footprint, Keeps

LEMMA FreshKeeps ==
    ASSUME KInv, NEW p \in Procs, CanStart(p),
           NEW kind \in {"index", "reindex", "delete", "create", "drop"},
           NEW k \in KBs, NEW d \in Docs, NEW at \in {"reserve", "createSave", "dropSave"},
           NEW snap \in [Docs -> DocRecs], Start(p, kind, k, d, at, snap), Keeps, k \in used',
           at = "dropSave" => k \notin mem'.kbs /\ snap = mem.doc[k],
           UNCHANGED <<mode, disk, points, contents, cut, failed>>
    PROVE  KInv'
<1>1. at \in Steps /\ at \notin Reserving
  BY DEF Steps, Reserving, Begun, Retiring
<1>2. PICK new \in Ops : Starts(p, k, d, at, snap, new)
  BY <1>1, Fresh
<1>3. /\ op' = [op EXCEPT ![p] = new] /\ new.at = at /\ new.fence = fences + 1
      /\ new.superseded = 0 /\ fences' = fences + 1 /\ fences' \in Fences /\ fences \in Nat
      /\ fences <= fences' /\ KTypes /\ Global
  BY <1>2, FenceNumbers DEF Starts, KInv, KTypes
<1>4. StoreTypes'
  BY <1>3 DEF StoreTypes, KTypes, Keeps
<1>5. Global'
  BY <1>3, KeptGlobal
<1>6. Footprint(Idle)
  BY <1>3, KeptFootprint
<1>7. OpSound(new)'
  BY <1>2, FreshSound
<1>8. \A q \in Procs : q # p /\ op[q].at # "idle" =>
          mode = "overlap" /\ Clear(Idle, op[q]) /\ Apart(new, op[q])
  BY <1>1, <1>3, FreshAlone
<1> QED BY <1>3, <1>4, <1>5, <1>6, <1>7, <1>8, IdleOp, StepKeeps

LEMMA NothingKept == NoDocs \in [Docs -> DocRecs]
BY Nothing DEF NoDocs

LEMMA StartDocumentKeeps ==
    ASSUME KInv, NEW p \in Procs, NEW k \in KBs, NEW d \in Docs,
           StartIndex(p, k, d) \/ StartOnDocument(p, k, d)
    PROVE  KInv'
<1>1. /\ CanStart(p) /\ k \in mem.kbs
      /\ UNCHANGED <<mode, mem, disk, points, contents, cut, failed, used>>
      /\ \E kind \in {"index", "reindex", "delete", "create", "drop"} :
             Start(p, kind, k, d, "reserve", NoDocs)
  BY DEF StartIndex, StartOnDocument, Has, stores, observers
<1>2. Keeps /\ k \in used'
  BY <1>1, StateFields DEF Keeps, KInv, KTypes, Global, StateSound
<1> QED BY <1>1, <1>2, NothingKept, FreshKeeps

LEMMA CreateKBKeeps ==
    ASSUME KInv, NEW p \in Procs, NEW k \in KBs, CreateKB(p, k) PROVE KInv'
<1>1. /\ CanStart(p) /\ k \notin used /\ used' = used \cup {k}
      /\ UNCHANGED <<mode, disk, points, contents, cut, failed>>
      /\ Start(p, "create", k, AnyDoc, "createSave", NoDocs)
  BY DEF CreateKB, stores, observers
<1>2. mem' \in States /\ mem'.kbs = mem.kbs \cup {k} /\ mem'.doc = mem.doc
  BY DEF CreateKB, KInv, KTypes, States
<1>3. Keeps /\ k \in used'
  BY <1>1, <1>2 DEF Keeps, KInv, KTypes, Global, StateSound
<1>4. AnyDoc \in Docs
  BY IdleOp, OpFields DEF AnyDoc
<1> QED BY <1>1, <1>3, <1>4, NothingKept, FreshKeeps

\* A knowledge base goes with its documents.
LEMMA WithoutIs ==
    ASSUME NEW st \in States, NEW k \in KBs
    PROVE  LET new == Without(st, k) IN
           /\ new \in States /\ new.kbs = st.kbs \ {k}
           /\ \A j \in KBs, d \in Docs :
                  new.doc[j][d] = IF j = k THEN NoDoc ELSE st.doc[j][d]
<1>1. st.kbs \subseteq KBs /\ st.doc \in [KBs -> [Docs -> DocRecs]]
  BY DEF States
<1> DEFINE new == Without(st, k)
<1>2. new = [kbs |-> st.kbs \ {k}, doc |-> [st.doc EXCEPT ![k] = NoDocs]]
  BY DEF Without
<1>3. [st.doc EXCEPT ![k] = NoDocs] \in [KBs -> [Docs -> DocRecs]]
  BY <1>1, NothingKept
<1>4. new \in States /\ new.kbs = st.kbs \ {k} /\ new.doc = [st.doc EXCEPT ![k] = NoDocs]
  BY <1>1, <1>2, <1>3 DEF States
<1>5. ASSUME NEW j \in KBs, NEW d \in Docs
      PROVE  new.doc[j][d] = IF j = k THEN NoDoc ELSE st.doc[j][d]
  BY <1>1, <1>4 DEF NoDocs
<1> QED BY <1>4, <1>5

LEMMA WithoutKeeps ==
    ASSUME KInv, NEW k \in KBs, mem' = Without(mem, k), UNCHANGED used
    PROVE  Keeps /\ k \notin mem'.kbs
<1>1. /\ mem' \in States /\ mem'.kbs = mem.kbs \ {k}
      /\ \A j \in KBs, d \in Docs : mem'.doc[j][d] = IF j = k THEN NoDoc ELSE mem.doc[j][d]
  BY WithoutIs DEF KInv, KTypes
<1>2. \A j \in KBs, d \in Docs : j \notin mem.kbs => mem.doc[j][d].status = "none"
  BY DEF KInv, Global, StateSound
<1> QED BY <1>1, <1>2, Nothing DEF Keeps, KInv, KTypes, Global

LEMMA DropKBKeeps ==
    ASSUME KInv, NEW p \in Procs, NEW k \in KBs, DropKB(p, k) PROVE KInv'
<1>1. /\ CanStart(p) /\ k \in mem.kbs /\ mem' = Without(mem, k)
      /\ UNCHANGED <<mode, disk, points, contents, cut, failed, used>>
      /\ Start(p, "drop", k, AnyDoc, "dropSave", mem.doc[k])
  BY DEF DropKB, stores
<1>2. Keeps /\ k \notin mem'.kbs
  BY <1>1, WithoutKeeps
<1>3. AnyDoc \in Docs /\ mem.doc[k] \in [Docs -> DocRecs] /\ k \in used'
  BY <1>1, IdleOp, OpFields, StateFields DEF AnyDoc, KInv, KTypes, Global
<1> QED BY <1>1, <1>2, <1>3, FreshKeeps
-----------------------------------------------------------------------------
(* Undoing a knowledge base, and starting again *)

LEMMA CreateUndoKeeps ==
    ASSUME KInv, NEW p \in Procs, CreateUndo(p) PROVE KInv'
<1>1. PICK o \in Ops : o = op[p]
  BY OpOf
<1>2. /\ o.at # "idle" /\ o.kb \in KBs /\ mem' = Without(mem, o.kb)
      /\ op' = [op EXCEPT ![p] = Idle]
      /\ UNCHANGED <<mode, disk, points, contents, cut, failed, fences, used>>
  BY <1>1, OpFields DEF CreateUndo, stores, Return
<1>3. Keeps
  BY <1>2, WithoutKeeps
<1>4. fences' \in Fences /\ fences <= fences' /\ KTypes /\ Global
  BY <1>2, FenceNumbers DEF KInv, KTypes
<1>5. StoreTypes'
  BY <1>2, <1>3, <1>4 DEF StoreTypes, KTypes, Keeps
<1>6. Global' /\ Footprint(o)
  BY <1>2, <1>3, <1>4, KeptGlobal, KeptFootprint
<1>7. Continues(o, Idle)
  BY IdleOp DEF Continues
<1> QED BY <1>1, <1>2, <1>5, <1>6, <1>7, IdleOp, GoesOn

\* A removal that could not be saved puts the copy of the knowledge base back.
PutsBack(p) ==
    /\ mem' = [mem EXCEPT !.kbs = @ \cup {op[p].kb}, !.doc[op[p].kb] = op[p].snap]
    /\ Return(p)
    /\ UNCHANGED <<mode, disk, points, contents, cut, failed, fences, used>>

LEMMA PutsBackKeeps ==
    ASSUME KInv, NEW p \in Procs, op[p].at \in {"deleteUndo", "dropUndo"}, PutsBack(p)
    PROVE  KInv'
<1>1. PICK o \in Ops : o = op[p]
  BY OpOf
<1>2. mode = "faultySaves" /\ o.at # "idle" /\ OpSound(o) /\ o.at \in Remembering
  BY <1>1, UndoAlone DEF Undoing, Remembering
<1>3. /\ o.kb \in KBs /\ o.kb \in used /\ o.snap \in [Docs -> DocRecs] /\ CopySound(o)
      /\ op' = [op EXCEPT ![p] = Idle]
      /\ UNCHANGED <<mode, disk, points, contents, cut, failed, fences, used>>
  BY <1>1, <1>2, OpFields DEF OpSound, Own, Remembers, PutsBack, Return
<1>4. KTypes /\ Global /\ mem \in States
  BY DEF KInv, KTypes
<1>5. /\ mem' \in States /\ mem'.kbs = mem.kbs \cup {o.kb}
      /\ \A k \in KBs, d \in Docs :
             mem'.doc[k][d] = IF k = o.kb THEN o.snap[d] ELSE mem.doc[k][d]
  <2>1. mem.kbs \subseteq KBs /\ mem.doc \in [KBs -> [Docs -> DocRecs]]
        /\ mem = [kbs |-> mem.kbs, doc |-> mem.doc]
    BY <1>4 DEF States
  <2>2. mem' = [kbs |-> mem.kbs \cup {o.kb}, doc |-> [mem.doc EXCEPT ![o.kb] = o.snap]]
    <3>1. mem' = [mem EXCEPT !.kbs = @ \cup {o.kb}, !.doc[o.kb] = o.snap]
      BY <1>1 DEF PutsBack
    <3> QED BY <2>1, <3>1
  <2>3. [mem.doc EXCEPT ![o.kb] = o.snap] \in [KBs -> [Docs -> DocRecs]]
    BY <1>3, <2>1
  <2>4. mem' \in States
    BY <1>3, <2>1, <2>2, <2>3 DEF States
  <2> QED BY <1>3, <2>1, <2>2, <2>4
<1>6. StoreTypes' /\ 0 \in Fences /\ fences \in Nat
  BY <1>3, <1>4, <1>5, Nothing, FenceNumbers DEF StoreTypes, KTypes, NoDoc, DocRecs
<1>7. ASSUME NEW k \in KBs, NEW d \in Docs
      PROVE  /\ \/ mem'.doc[k][d] = mem.doc[k][d]
                \/ /\ DocSound(k, d, mem'.doc[k][d])
                   /\ mem'.doc[k][d].marker # 0 => disk.doc[k][d].fence # mem'.doc[k][d].marker
             /\ k \notin mem'.kbs => mem'.doc[k][d].status = "none"
  <2>1. CASE k = o.kb
    BY <1>3, <1>5, <2>1 DEF CopySound
  <2>2. CASE k # o.kb
    BY <1>4, <1>5, <2>2 DEF Global, StateSound
  <2> QED BY <2>1, <2>2
<1>8. Stays(mem') /\ Stays(disk')
  BY <1>3 DEF Stays, Complete
<1>9. Global'
  <2>1. /\ mem'.kbs \subseteq used' /\ used \subseteq used' /\ fences' \in Fences
        /\ fences <= fences' /\ failed' \subseteq failed /\ failed' \subseteq failed \cup {0}
    BY <1>3, <1>4, <1>5, <1>6 DEF Global, KTypes
  <2> QED BY <1>3, <1>4, <1>5, <1>6, <1>7, <1>8, <2>1, GlobalKeeps
<1>10. Continues(o, Idle)
  BY IdleOp DEF Continues
<1> QED BY <1>1, <1>2, <1>3, <1>6, <1>9, <1>10, IdleOp, GoesOn

LEMMA PutBackKeeps ==
    ASSUME KInv, NEW p \in Procs, DeleteUndo(p) \/ DropUndo(p) PROVE KInv'
<1>1. op[p].at \in {"deleteUndo", "dropUndo"}
  BY DEF DeleteUndo, DropUndo
<1>2. PutsBack(p)
  BY DEF DeleteUndo, DropUndo, PutsBack, stores, observers
<1> QED BY <1>1, <1>2, PutsBackKeeps

\* The state a process starts from is sound with no request at work.
LEMMA AllIdle ==
    ASSUME StoreTypes', Global', op' = [p \in Procs |-> Idle]
    PROVE  KInv'
<1>1. KTypes'
  BY IdleOp DEF StoreTypes, KTypes
<1>2. \A p \in Procs : op'[p].at = "idle"
  BY IdleOp
<1>3. (\A p \in Procs : OpSound(op[p]))'
  BY <1>2 DEF OpSound
<1>4. (\A p, q \in Procs : p # q => Apart(op[p], op[q]))'
  BY <1>2 DEF Apart
<1> QED BY <1>1, <1>3, <1>4 DEF KInv

LEMMA CrashRestartKeeps ==
    ASSUME KInv, CrashRestart PROVE KInv'
<1>1. /\ disk' = mem' /\ op' = [p \in Procs |-> Idle]
      /\ UNCHANGED <<mode, points, contents, fences, failed, cut>>
  BY DEF CrashRestart
<1>2. disk \in States /\ StateSound(disk) /\ disk.kbs \subseteq used
  BY DEF KInv, KTypes, Global
<1>3. /\ mem'.doc = disk.doc /\ mem' \in States /\ used \subseteq used' /\ used' \subseteq KBs
      /\ mem'.kbs \subseteq used' /\ disk.kbs \subseteq mem'.kbs
  <2>1. CASE disk.kbs # {} /\ mem' = disk /\ UNCHANGED used
    BY <1>2, <2>1 DEF KInv, KTypes
  <2>2. CASE \E k \in KBs \ used : /\ disk.kbs = {} /\ mem' = [disk EXCEPT !.kbs = {k}]
                                   /\ used' = used \cup {k}
    BY <1>2, <2>2 DEF KInv, KTypes, States
  <2> QED BY <2>1, <2>2 DEF CrashRestart
<1>4. StoreTypes'
  BY <1>1, <1>3 DEF KInv, KTypes, StoreTypes
<1>5. ASSUME NEW k \in KBs, NEW d \in Docs
      PROVE  /\ DocSound(k, d, disk.doc[k][d])'
             /\ k \notin mem'.kbs => disk.doc[k][d].status = "none"
             /\ disk.doc[k][d].marker # 0 => disk.doc[k][d].fence # disk.doc[k][d].marker
  <2>1. PICK r : r = disk.doc[k][d]
    OBVIOUS
  <2>2. DocSound(k, d, r) /\ (k \notin mem'.kbs => r.status = "none")
    BY <1>2, <1>3, <2>1 DEF StateSound
  <2>3. r.marker # 0 => r.fence # r.marker
    BY <2>2 DEF DocSound
  <2>4. DocSound(k, d, r)'
    BY <1>1, <2>2 DEF DocSound, Complete
  <2>5. disk'.doc[k][d] = r
    BY <1>1, <1>3, <2>1
  <2> QED BY <2>1, <2>2, <2>3, <2>4, <2>5
<1>6. Global'
  <2>1. StateSound(mem)' /\ StateSound(disk)'
    BY <1>1, <1>3, <1>5 DEF StateSound, DocSound
  <2>2. failed' \subseteq 1..fences'
    BY <1>1 DEF KInv, Global
  <2> QED BY <1>1, <1>3, <1>5, <2>1, <2>2 DEF Global
<1> QED BY <1>1, <1>4, <1>6, AllIdle

LEMMA SameKeeps == ASSUME KInv, UNCHANGED vars PROVE KInv'
<1>1. UNCHANGED <<mode, mem, disk, points, contents, cut, op, fences, used, failed>>
  BY DEF vars, stores, observers
<1>2. KTypes'
  BY <1>1 DEF KInv, KTypes
<1>3. Global'
  BY <1>1 DEF KInv, Global, StateSound, DocSound, Complete
<1>4. ASSUME NEW q \in Procs PROVE OpSound(op[q])'
  <2>1. PICK r \in Ops : r = op[q]
    BY OpOf
  <2>2. OpSound(r) /\ op'[q] = r
    BY <1>1, <2>1 DEF KInv
  <2>3. r.at # "idle" => Own(r)' /\ Hidden(r)' /\ Marks(r)' /\ Superseded(r)'
    BY <1>1, <2>2 DEF OpSound, Own, Hidden, ShowsOnly, Unshown, Marks, Superseded
  <2>4. r.at # "idle" => Waits(r)' /\ Written(r)' /\ Holds(r)' /\ Removed(r)' /\ Dropped(r)'
    BY <1>1, <2>2 DEF OpSound, Waits, Written, Holds, Removed, Dropped
  <2>5. r.at # "idle" => Remembers(r)'
    BY <1>1, <2>2 DEF OpSound, Remembers, CopySound, DocSound, Complete
  <2>6. OpSound(r)'
    BY <1>1, <2>2, <2>3, <2>4, <2>5 DEF OpSound
  <2> QED BY <2>2, <2>6, SameOp
<1>5. ASSUME NEW q \in Procs, NEW r \in Procs, q # r PROVE Apart(op[q], op[r])'
  BY <1>1, <1>5 DEF KInv, Apart
<1> QED BY <1>2, <1>3, <1>4, <1>5 DEF KInv
-----------------------------------------------------------------------------
(* The theorems *)

LEMMA InitSound == ASSUME Init, mode # "both" PROVE KInv
<1>1. /\ mode \in {"overlap", "faultySaves"} /\ fences = 1 /\ fences \in Fences /\ fences \in Nat
      /\ op = [p \in Procs |-> Idle] /\ failed = {} /\ used = {First} /\ disk = mem
      /\ contents = {First} \X Indexed \X {1} /\ points = contents
  BY KnowledgeConstants DEF Init, Fences
<1> DEFINE shown == [fence |-> 1, marker |-> 0, status |-> "indexed", run |-> 1]
<1>2. shown \in DocRecs /\ shown.fence = 1 /\ shown.marker = 0 /\ shown.status # "none"
  BY <1>1, Nothing DEF DocRecs, NoDoc
<1> HIDE DEF shown
<1>3. /\ mem.kbs = {First}
      /\ mem.doc = [k \in KBs |-> [d \in Docs |->
                        IF k = First /\ d \in Indexed THEN shown ELSE NoDoc]]
      /\ mem = [kbs |-> mem.kbs, doc |-> mem.doc]
  BY DEF Init, shown
<1>4. /\ mem \in States
      /\ \A k \in KBs, d \in Docs :
             mem.doc[k][d] = IF k = First /\ d \in Indexed THEN shown ELSE NoDoc
  <2>1. mem.doc \in [KBs -> [Docs -> DocRecs]]
    BY <1>2, <1>3, Nothing
  <2> QED BY <1>3, <2>1, KnowledgeConstants DEF States
<1>5. contents \subseteq Gens
  BY <1>1, KnowledgeConstants DEF Gens
<1>6. \A d \in Indexed : Gen(First, d, 1) \in Complete
  BY <1>1 DEF Complete, Gen
<1>7. ASSUME NEW k \in KBs, NEW d \in Docs
      PROVE  /\ DocSound(k, d, mem.doc[k][d]) /\ mem.doc[k][d].marker = 0
             /\ k \notin mem.kbs => mem.doc[k][d].status = "none"
  <2>1. CASE k = First /\ d \in Indexed
    BY <1>1, <1>2, <1>3, <1>4, <1>6, <2>1 DEF DocSound
  <2>2. CASE ~(k = First /\ d \in Indexed)
    BY <1>1, <1>4, <2>2, Nothing DEF DocSound
  <2> QED BY <2>1, <2>2
<1>8. KTypes
  BY <1>1, <1>4, <1>5, IdleOp, KnowledgeConstants DEF KTypes
<1>9. Global
  BY <1>1, <1>3, <1>7 DEF Global, StateSound
<1>10. \A p \in Procs : op[p].at = "idle"
  BY <1>1, IdleOp
<1> QED BY <1>8, <1>9, <1>10 DEF KInv, OpSound, Apart

LEMMA StepSound ==
    ASSUME KInv, NEW p \in Procs, Step(p) PROVE KInv'
<1>1. CASE \E k \in KBs, d \in Docs : StartIndex(p, k, d) \/ StartOnDocument(p, k, d)
  BY <1>1, StartDocumentKeeps
<1>2. CASE Reserve(p) \/ Begin(p) \/ BeginSave(p) \/ BeginUndo(p) \/ UndoSave(p)
  BY <1>2, ReserveKeeps, BeginKeeps, BeginSaveKeeps, BeginUndoKeeps, UndoSaveKeeps
<1>3. CASE Work(p) \/ EnsureCollection(p) \/ Scroll(p) \/ Upsert(p) \/ Capture(p)
  BY <1>3, WorkKeeps, EnsureCollectionKeeps, ScrollKeeps, UpsertKeeps, CaptureKeeps
<1>4. CASE Commit(p) \/ CommitSave(p) \/ CommitUndo(p)
  BY <1>4, CommitKeeps, CommitSaveKeeps, UncommitKeeps
<1>5. CASE AbortPoints(p) \/ AbortContent(p) \/ RetirePoints(p) \/ RetireContent(p)
  BY <1>5, AbortPointsKeeps, AbortContentKeeps, RetirePointsKeeps, RetireContentKeeps
<1>6. CASE Fail(p) \/ FailSave(p) \/ FailUndo(p) \/ Cancel(p)
  BY <1>6, FailKeeps, FailSaveKeeps, FailUndoKeeps, CancelKeeps
<1>7. CASE \/ DeletePoints(p) \/ DeleteRemove(p) \/ DeleteSave(p) \/ DeleteUndo(p)
           \/ DeleteContent(p)
  BY <1>7, DeletePointsKeeps, DeleteRemoveKeeps, DeleteSaveKeeps, PutBackKeeps, DeleteContentKeeps
<1>8. CASE \E k \in KBs : CreateKB(p, k) \/ DropKB(p, k)
  BY <1>8, CreateKBKeeps, DropKBKeeps
<1>9. CASE CreateSave(p) \/ CreateCollection(p) \/ CreateUndo(p)
  BY <1>9, CreateSaveKeeps, CreateCollectionKeeps, CreateUndoKeeps
<1>10. CASE DropSave(p) \/ DropUndo(p) \/ DropCollection(p) \/ DropContent(p)
  BY <1>10, DropSaveKeeps, PutBackKeeps, DropCollectionKeeps, DropContentKeeps
<1> QED BY <1>1, <1>2, <1>3, <1>4, <1>5, <1>6, <1>7, <1>8, <1>9, <1>10 DEF Step

LEMMA NextSound == ASSUME KInv, [Next]_vars PROVE KInv'
<1>1. CASE \E p \in Procs : Step(p)
  BY <1>1, StepSound
<1>2. CASE OtherSave
  BY <1>2, OtherSaveKeeps
<1>3. CASE CrashRestart
  BY <1>3, CrashRestartKeeps
<1>4. CASE Rest \/ UNCHANGED vars
  BY <1>4, SameKeeps DEF Rest
<1> QED BY <1>1, <1>2, <1>3, <1>4 DEF Next

LEMMA ShownIs ==
    ASSUME NEW st, NEW g \in ShownBy(st)
    PROVE  \E k \in KBs, d \in Docs :
               /\ Has(st, k, d) /\ st.doc[k][d].fence # 0 /\ g = Gen(k, d, st.doc[k][d].fence)
BY DEF ShownBy, Shown, Gen

LEMMA ShownSound == ASSUME KInv PROVE VisibleComplete /\ FailedNotVisible
<1>1. ASSUME NEW st \in {mem, disk}, NEW g \in ShownBy(st)
      PROVE  g \in Complete /\ g[3] \notin failed
  BY <1>1, ShownIs DEF KInv, Global, StateSound, DocSound, Gen
<1> QED BY <1>1 DEF VisibleComplete, FailedNotVisible, Complete

\* Unless overlapping requests and failing saves come together, the generation a
\* document shows has its contents stored, and its points unless a deletion of the
\* document took them: for any number of requests, whatever they do and wherever
\* Qdrant, the content store or the process fails.
THEOREM ShownIsComplete == Spec /\ mode # "both" => []VisibleComplete
<1>1. Init /\ mode # "both" => KInv
  BY InitSound
<1>2. KInv /\ [Next]_vars => KInv'
  BY NextSound
<1>3. KInv => VisibleComplete
  BY ShownSound
<1> QED BY <1>1, <1>2, <1>3, PTL DEF Spec

\* Under the same condition an attempt that returned an error is never what a
\* document shows, in memory or in the state file.
THEOREM FailureStaysHidden == Spec /\ mode # "both" => []FailedNotVisible
<1>1. Init /\ mode # "both" => KInv
  BY InitSound
<1>2. KInv /\ [Next]_vars => KInv'
  BY NextSound
<1>3. KInv => FailedNotVisible
  BY ShownSound
<1> QED BY <1>1, <1>2, <1>3, PTL DEF Spec
-----------------------------------------------------------------------------
(* The catalog *)

\* What the state file shows for each document.
Seen == [n \in KBs \X Docs |->
            IF Has(disk, n[1], n[2]) /\ disk.doc[n[1]][n[2]].fence # 0
            THEN Gen(n[1], n[2], disk.doc[n[1]][n[2]].fence) ELSE <<>>]
SeenSound == Seen \in [KBs \X Docs -> Complete \cup {<<>>}]

LEMMA SoundSeen == KInv => SeenSound /\ Complete \subseteq Gens /\ <<>> \notin Complete
<1> SUFFICES ASSUME KInv PROVE SeenSound /\ Complete \subseteq Gens /\ <<>> \notin Complete
  OBVIOUS
<1>1. ASSUME NEW n \in KBs \X Docs PROVE Seen[n] \in Complete \cup {<<>>}
  BY DEF Seen, KInv, Global, StateSound, DocSound
<1>2. Complete \subseteq Gens
  BY DEF Complete, KInv, KTypes
<1>3. <<>> \notin Gens
  BY DEF Gens
<1> QED BY <1>1, <1>2, <1>3 DEF SeenSound, Seen

\* One step of the stores, or one save.
Moves ==
    \/ Complete' = Complete
    \/ disk' = disk /\ Complete' \subseteq Complete
    \/ disk' = disk /\ \E g \in Gens : Complete' = Complete \cup {g}

LEMMA CatalogStep ==
    ASSUME KInv, KInv', Moves PROVE [Catalog!Next]_(Catalog!vars)
<1>1. SeenSound /\ Complete \subseteq Gens /\ <<>> \notin Complete
  BY SoundSeen
<1>2. SeenSound'
  BY SoundSeen, PTL
<1>3. CASE Complete' = Complete
  <2>1. Seen' \in [KBs \X Docs -> Complete \cup {<<>>}]
    BY <1>2, <1>3 DEF SeenSound
  <2>2. Catalog!Switch
    BY <1>3, <2>1 DEF Catalog!Switch, Seen, Complete
  <2> QED BY <2>2 DEF Catalog!Next
<1>4. CASE disk' = disk /\ Complete' \subseteq Complete
  <2>1. Seen' = Seen
    BY <1>4 DEF Seen
  <2>2. \A n \in KBs \X Docs : Seen[n] \in Complete' \cup {<<>>}
    BY <1>2, <2>1 DEF SeenSound
  <2>3. Complete \cap {Seen[n] : n \in KBs \X Docs} \subseteq Complete'
    BY <1>1, <2>2
  <2>4. Catalog!Discard
    BY <1>4, <2>1, <2>3 DEF Catalog!Discard, Catalog!Visible, Seen, Complete
  <2> QED BY <2>4 DEF Catalog!Next
<1>5. CASE disk' = disk /\ \E g \in Gens : Complete' = Complete \cup {g}
  <2>1. Seen' = Seen
    BY <1>5 DEF Seen
  <2>2. \E g \in Gens : Catalog!Write(g)
    BY <1>5, <2>1 DEF Catalog!Write, Seen, Complete
  <2> QED BY <2>2 DEF Catalog!Next
<1> QED BY <1>3, <1>4, <1>5 DEF Moves

LEMMA MovesSame == ASSUME UNCHANGED <<points, contents, cut>> PROVE Moves
BY DEF Moves, Complete

LEMMA MovesLess ==
    ASSUME disk' = disk, contents' \subseteq contents, points' \cup cut' \subseteq points \cup cut
    PROVE  Moves
BY DEF Moves, Complete

LEMMA MovesMore ==
    ASSUME KInv, NEW p \in Procs, disk' = disk,
           \/ contents' = contents /\ \/ points' = points
                                      \/ points' = points \cup Held(p, {op[p].fence})
           \/ points' = points /\ contents' = contents \cup Held(p, {op[p].fence}),
           cut' = cut
    PROVE  Moves
<1>1. Held(p, {op[p].fence}) \in SUBSET Gens /\ \A g, h \in Held(p, {op[p].fence}) : g = h
  BY OpOf, OpFields DEF Held, Gen, Gens
<1>2. PICK more \in SUBSET Gens : more = Held(p, {op[p].fence})
  BY <1>1
<1>3. more = {} \/ \E g \in Gens : more = {g}
  BY <1>1, <1>2
<1>4. CASE more = {}
  BY <1>2, <1>4 DEF Moves, Complete
<1>5. CASE \E g \in Gens : more = {g}
  <2>1. PICK g \in Gens : more = {g}
    BY <1>5
  <2>2. Complete' = Complete \/ Complete' = Complete \cup {g}
    BY <1>2, <2>1 DEF Complete
  <2> QED BY <2>2 DEF Moves
<1> QED BY <1>3, <1>4, <1>5

LEMMA StoreMoves ==
    ASSUME KInv, NEW p \in Procs,
           \/ Upsert(p) \/ Capture(p) \/ AbortPoints(p) \/ AbortContent(p) \/ RetirePoints(p)
           \/ RetireContent(p) \/ DeletePoints(p) \/ DeleteContent(p) \/ DropCollection(p)
           \/ DropContent(p)
    PROVE  Moves
<1>1. CASE Upsert(p)
  BY <1>1, MovesMore DEF Upsert, observers
<1>2. CASE Capture(p)
  BY <1>2, MovesMore DEF Capture, observers
<1>3. CASE AbortPoints(p)
  BY <1>3, MovesLess DEF AbortPoints
<1>4. CASE AbortContent(p)
  BY <1>4, MovesLess DEF AbortContent
<1>5. CASE RetirePoints(p)
  BY <1>5, MovesLess DEF RetirePoints
<1>6. CASE RetireContent(p)
  BY <1>6, MovesLess DEF RetireContent
<1>7. CASE DeletePoints(p)
  BY <1>7, MovesLess DEF DeletePoints
<1>8. CASE DeleteContent(p)
  BY <1>8, MovesLess DEF DeleteContent
<1>9. CASE DropCollection(p)
  BY <1>9, MovesLess DEF DropCollection
<1>10. CASE DropContent(p)
  BY <1>10, MovesLess DEF DropContent
<1> QED BY <1>1, <1>2, <1>3, <1>4, <1>5, <1>6, <1>7, <1>8, <1>9, <1>10

LEMMA NextMoves == ASSUME KInv, [Next]_vars PROVE Moves
<1>1. ASSUME NEW p \in Procs, Step(p) PROVE Moves
  <2>1. CASE \/ Upsert(p) \/ Capture(p) \/ AbortPoints(p) \/ AbortContent(p) \/ RetirePoints(p)
             \/ RetireContent(p) \/ DeletePoints(p) \/ DeleteContent(p) \/ DropCollection(p)
             \/ DropContent(p)
    BY <2>1, StoreMoves
  <2>2. CASE \/ \E k \in KBs, d \in Docs : StartIndex(p, k, d) \/ StartOnDocument(p, k, d)
             \/ \E k \in KBs : CreateKB(p, k) \/ DropKB(p, k)
    BY <2>2, MovesSame DEF StartIndex, StartOnDocument, CreateKB, DropKB, stores, observers
  <2>3. CASE \/ Reserve(p) \/ Begin(p) \/ BeginSave(p) \/ BeginUndo(p) \/ UndoSave(p)
             \/ Work(p) \/ EnsureCollection(p) \/ Scroll(p) \/ Cancel(p)
    BY <2>3, MovesSame DEF Reserve, Begin, BeginSave, BeginUndo, UndoSave, Work, EnsureCollection,
       Scroll, Cancel, stores, observers
  <2>4. CASE \/ Commit(p) \/ CommitSave(p) \/ CommitUndo(p) \/ Fail(p) \/ FailSave(p) \/ FailUndo(p)
    BY <2>4, MovesSame DEF Commit, CommitSave, CommitUndo, Fail, FailSave, FailUndo, stores,
       observers
  <2>5. CASE \/ DeleteRemove(p) \/ DeleteSave(p) \/ DeleteUndo(p) \/ CreateSave(p)
             \/ CreateCollection(p) \/ CreateUndo(p) \/ DropSave(p) \/ DropUndo(p)
    BY <2>5, MovesSame DEF DeleteRemove, DeleteSave, DeleteUndo, CreateSave, CreateCollection,
       CreateUndo, DropSave, DropUndo, stores, observers
  <2> QED BY <1>1, <2>1, <2>2, <2>3, <2>4, <2>5 DEF Step
<1>2. CASE OtherSave \/ CrashRestart \/ Rest \/ UNCHANGED vars
  BY <1>2, MovesSame DEF OtherSave, CrashRestart, Rest, vars, stores, observers
<1> QED BY <1>1, <1>2 DEF Next

LEMMA CatalogInit == ASSUME KInv PROVE Catalog!Init
<1>1. SeenSound /\ Complete \subseteq Gens
  BY SoundSeen
<1>2. Catalog!TypeOK
  BY <1>1 DEF Catalog!TypeOK, SeenSound, Seen, Complete
<1>3. {Seen[n] : n \in KBs \X Docs} \ {<<>>} \subseteq Complete
  BY <1>1 DEF SeenSound
<1> QED BY <1>2, <1>3 DEF Catalog!Init, Catalog!Visible, Seen, Complete

\* Under the same condition the state file and the stores implement the catalog:
\* what the file shows is complete, and a generation is removed only while the
\* file does not show it.
THEOREM ImplementsCatalog == Spec /\ mode # "both" => CatalogSpec
<1>1. Init /\ mode # "both" => KInv
  BY InitSound
<1>2. KInv => Catalog!Init
  BY CatalogInit
<1>3. KInv /\ [Next]_vars => KInv' /\ [Catalog!Next]_(Catalog!vars)
  BY NextSound, NextMoves, CatalogStep
<1> QED BY <1>1, <1>2, <1>3, PTL DEF Spec, CatalogSpec, Catalog!Spec
-----------------------------------------------------------------------------
(* What was reported stays *)

Committing == {"commitSave", "commitUndo"}
Putting == {"beginSave", "beginUndo", "failSave", "failUndo"}
Waiting == {"reserve", "reserved"}
Watched == Waiting \cup Plain \cup Putting \cup Committing \cup {"deleteSave", "deleteUndo"}
OwnDoc(o) == <<o.kb, o.doc>>

\* What makes an undo safe for a document that was reported: the file shows what
\* memory shows until the commit, and what would be put back shows a generation.
Saved(o) ==
    o.at \in Plain \cup {"failSave", "failUndo"} /\ Shows(mem, OwnDoc(o)) => Shows(disk, OwnDoc(o))
Unseen(o) == o.at \in Plain \cup Putting /\ o.new => mem.doc[o.kb][o.doc].fence = 0
ShowsIn(snap, d) == snap[d].status # "none" /\ snap[d].fence # 0
PutsShown(o) == o.at \in Putting /\ OwnDoc(o) \in acked => ShowsIn(o.snap, o.doc)
Uncommits(o) ==
    o.at \in Committing /\ o.snap[o.doc].fence # 0 =>
        ~o.new /\ o.snap[o.doc].status # "none" /\ Shows(disk, OwnDoc(o))
Undeletes(o) ==
    o.at \in {"deleteSave", "deleteUndo"} =>
        \A d \in Docs : <<o.kb, d>> \in acked => ShowsIn(o.snap, d)
Young(o) == o.at \in Waiting => ~o.new
Kept(o) ==
    Young(o) /\ Saved(o) /\ Unseen(o) /\ PutsShown(o) /\ Uncommits(o) /\ Undeletes(o)

AckInv ==
    /\ acked \subseteq KBs \X Docs /\ AckedKept
    /\ mode = "faultySaves" => \A p \in Procs : Kept(op[p])

Solo(p) == mode = "faultySaves" => \A q \in Procs : q # p => op[q].at = "idle"
OthersSame(p) == \A q \in Procs : q # p => op'[q] = op[q]

LEMMA WatchedSteps ==
    /\ "idle" \notin Watched
    /\ Watched \cap {"undoSave", "deletePoints", "deleteRemove", "deleteContent", "retirePoints",
                     "retireContent", "dropSave", "dropUndo", "dropCollection", "dropContent",
                     "createSave", "createUndo", "createCollection"} = {}
    /\ Waiting \cap (Plain \cup Putting \cup Committing \cup {"deleteSave", "deleteUndo"}) = {}
    /\ Plain \cap (Putting \cup Committing \cup {"deleteSave", "deleteUndo"}) = {}
    /\ Putting \cap (Committing \cup {"deleteSave", "deleteUndo"}) = {}
    /\ Committing \cap {"deleteSave", "deleteUndo"} = {}
BY DEF Watched, Waiting, Plain, Putting, Committing

LEMMA Unwatched == ASSUME NEW o, o.at \notin Watched PROVE Kept(o)'
BY DEF Kept, Young, Saved, Unseen, PutsShown, Uncommits, Undeletes, Watched, Putting

LEMMA SoloAt ==
    ASSUME KInv, NEW p \in Procs, op[p].at # "idle" \/ CanStart(p) PROVE Solo(p)
BY Alone DEF Solo, CanStart, Overlaps

LEMMA KeptIs ==
    ASSUME NEW q \in Procs, NEW r, op'[q] = r, Kept(r)' PROVE Kept(op[q])'
BY DEF Kept, Young, Saved, Unseen, PutsShown, Uncommits, Undeletes

LEMMA AckCore ==
    ASSUME KInv, NEW p \in Procs, Solo(p), OthersSame(p), mode' = mode,
           acked' \subseteq KBs \X Docs, AckedKept', NEW r, op'[p] = r,
           mode = "faultySaves" => Kept(r)'
    PROVE  AckInv'
<1>1. ASSUME mode = "faultySaves", NEW q \in Procs PROVE Kept(op[q])'
  <2>1. CASE q = p
    BY <1>1, <2>1, KeptIs
  <2>2. CASE q # p
    <3>1. PICK s \in Ops : s = op[q]
      BY OpOf
    <3>2. op'[q] = s /\ s.at \notin Watched
      BY <1>1, <2>2, <3>1, WatchedSteps DEF Solo, OthersSame
    <3>3. Kept(s)'
      BY <3>2, Unwatched
    <3> QED BY <3>2, <3>3, KeptIs
  <2> QED BY <2>1, <2>2
<1>2. mode' = "faultySaves" => \A q \in Procs : Kept(op[q])'
  BY <1>1
<1> QED BY <1>2 DEF AckInv

\* Nothing new was reported; what was is still in memory.
LEMMA AckStays ==
    ASSUME KInv, AckInv, NEW p \in Procs, OthersSame(p), NEW o \in Ops, o = op[p],
           acked' \subseteq acked, \A a \in acked' : Shows(mem', a),
           \/ disk' = mem'
           \/ disk' = disk /\ o.at \notin Committing
           \/ disk' = disk /\ op'[p].at \in Committing /\ op'[p].kb = o.kb /\ op'[p].doc = o.doc
           \/ disk' = disk /\ (OwnDoc(o) \in acked' => Shows(disk, OwnDoc(o)))
    PROVE  AckedKept'
<1> SUFFICES ASSUME NEW a \in acked', ~Shows(disk', a)
             PROVE  \E q \in Procs : op'[q].at \in Committing /\ <<op'[q].kb, op'[q].doc>> = a
  BY DEF AckedKept, Shows, Has, Pending, Committing
<1>1. ~Shows(disk, a) /\ disk' = disk
  BY DEF Shows, Has, OwnDoc
<1>2. PICK q \in Procs : op[q].at \in Committing /\ <<op[q].kb, op[q].doc>> = a
  BY <1>1 DEF AckInv, AckedKept, Pending, Committing
<1>3. CASE q # p
  BY <1>2, <1>3 DEF OthersSame
<1>4. CASE q = p
  <2>1. OwnDoc(o) = a /\ o.at \in Committing
    BY <1>2, <1>4 DEF OwnDoc
  <2>2. op'[p].at \in Committing /\ op'[p].kb = o.kb /\ op'[p].doc = o.doc
    BY <1>1, <2>1
  <2> QED BY <2>1, <2>2 DEF OwnDoc
<1> QED BY <1>3, <1>4

LEMMA ShowsSame ==
    ASSUME AckInv, mem' = mem, acked' \subseteq acked PROVE \A a \in acked' : Shows(mem', a)
BY DEF AckInv, AckedKept

\* A step that changes neither memory nor what was reported.
LEMMA AckStill ==
    ASSUME KInv, AckInv, NEW p \in Procs, op[p].at # "idle" \/ CanStart(p),
           OthersSame(p), UNCHANGED <<mode, mem, acked>>,
           disk' = mem \/ (disk' = disk /\ op[p].at \notin Committing),
           NEW r, op'[p] = r, mode = "faultySaves" => Kept(r)'
    PROVE  AckInv'
<1>1. PICK o \in Ops : o = op[p]
  BY OpOf
<1>2. acked' \subseteq KBs \X Docs /\ Solo(p)
  BY SoloAt DEF AckInv
<1>3. AckedKept'
  BY <1>1, AckStays, ShowsSame
<1> QED BY <1>2, <1>3, AckCore

LEMMA AckQuiet ==
    ASSUME KInv, AckInv, NEW p \in Procs, op[p].at # "idle" \/ CanStart(p),
           OthersSame(p), UNCHANGED <<mode, mem, acked>>,
           disk' = mem \/ (disk' = disk /\ op[p].at \notin Committing),
           op'[p].at \notin Watched
    PROVE  AckInv'
<1>1. PICK r : r = op'[p]
  OBVIOUS
<1>2. Kept(r)'
  BY <1>1, Unwatched
<1> QED BY <1>1, <1>2, AckStill

\* A step between two of the plain ones.
LEMMA AckPlain ==
    ASSUME KInv, AckInv, NEW p \in Procs, OthersSame(p), UNCHANGED <<mode, mem, disk, acked>>,
           op[p].at \in Plain, op'[p].at \in Plain, NEW r, op'[p] = r,
           r.kb = op[p].kb, r.doc = op[p].doc, r.new = op[p].new
    PROVE  AckInv'
<1>1. PICK o \in Ops : o = op[p]
  BY OpOf
<1>2. acked' \subseteq KBs \X Docs /\ Solo(p) /\ o.at \notin Committing
  BY <1>1, SoloAt, WatchedSteps, PlainSteps DEF AckInv
<1>3. AckedKept'
  BY <1>1, <1>2, AckStays, ShowsSame
<1>4. mode = "faultySaves" => Kept(r)'
  <2> SUFFICES ASSUME mode = "faultySaves" PROVE Kept(r)'
    OBVIOUS
  <2>1. Saved(o) /\ Unseen(o)
    BY <1>1 DEF AckInv, Kept
  <2>2. Saved(r)' /\ Unseen(r)'
    BY <1>1, <2>1 DEF Saved, Unseen, Shows, Has, OwnDoc
  <2>3. Young(r)' /\ PutsShown(r)' /\ Uncommits(r)' /\ Undeletes(r)'
    BY WatchedSteps DEF Young, PutsShown, Uncommits, Undeletes
  <2> QED BY <2>2, <2>3 DEF Kept
<1> QED BY <1>2, <1>3, <1>4, AckCore

\* A save that fails, or a cancellation: the request keeps what it has.
LEMMA AckSame ==
    ASSUME KInv, AckInv, NEW p \in Procs, op[p].at # "idle", OthersSame(p),
           UNCHANGED <<mode, mem, disk, acked>>,
           NEW r, op'[p] = r, r.kb = op[p].kb, r.doc = op[p].doc, r.new = op[p].new,
           r.snap = op[p].snap,
           \/ r.at = op[p].at
           \/ op[p].at = "beginSave" /\ r.at = "beginUndo"
           \/ op[p].at = "failSave" /\ r.at = "failUndo"
           \/ op[p].at = "commitSave" /\ r.at = "commitUndo"
           \/ op[p].at = "deleteSave" /\ r.at = "deleteUndo"
    PROVE  AckInv'
<1>1. PICK o \in Ops : o = op[p]
  BY OpOf
<1>2. acked' \subseteq KBs \X Docs /\ Solo(p)
  BY SoloAt DEF AckInv
<1>3. /\ r.at \in Plain \cup {"failSave", "failUndo"} => o.at \in Plain \cup {"failSave", "failUndo"}
      /\ r.at \in Waiting => o.at \in Waiting
      /\ r.at \in Plain \cup Putting => o.at \in Plain \cup Putting
      /\ r.at \in Putting => o.at \in Putting
      /\ r.at \in Committing <=> o.at \in Committing
      /\ r.at \in {"deleteSave", "deleteUndo"} => o.at \in {"deleteSave", "deleteUndo"}
  BY <1>1 DEF Waiting, Plain, Putting, Committing
<1>4. AckedKept'
  BY <1>1, <1>3, AckStays, ShowsSame
<1>5. mode = "faultySaves" => Kept(r)'
  <2> SUFFICES ASSUME mode = "faultySaves" PROVE Kept(r)'
    OBVIOUS
  <2>1. Kept(o)
    BY <1>1 DEF AckInv
  <2>2. Saved(r)' /\ Unseen(r)' /\ PutsShown(r)'
    BY <1>1, <1>3, <2>1 DEF Kept, Saved, Unseen, PutsShown, Shows, Has, OwnDoc
  <2>3. Young(r)' /\ Uncommits(r)' /\ Undeletes(r)'
    BY <1>1, <1>3, <2>1 DEF Kept, Young, Uncommits, Undeletes, Shows, Has, OwnDoc
  <2> QED BY <2>2, <2>3 DEF Kept
<1> QED BY <1>2, <1>4, <1>5, AckCore

\* Where the steps of a request lead.
Turns(p, at, snap) ==
    /\ OthersSame(p)
    /\ \E r \in Ops : /\ op'[p] = r /\ r.at = at /\ r.snap = snap
                      /\ r.kb = op[p].kb /\ r.doc = op[p].doc /\ r.new = op[p].new
Ends(p) == OthersSame(p) /\ op'[p].at = "idle"

LEMMA Alters ==
    ASSUME KInv, NEW p \in Procs, NEW new \in Ops, op' = [op EXCEPT ![p] = new]
    PROVE  OthersSame(p) /\ op'[p] = new
BY OpOf DEF OthersSame

LEMMA TurnsBecomes ==
    ASSUME KInv, NEW p \in Procs, NEW at, Becomes(p, at) PROVE Turns(p, at, op[p].snap)
BY Alters DEF Becomes, Turns, SameAttempt

LEMMA EndsReturn == ASSUME KInv, NEW p \in Procs, Return(p) PROVE Ends(p)
BY Alters, IdleOp DEF Return, Ends

LEMMA EndsLeave == ASSUME KInv, NEW p \in Procs, NEW left, Leave(p, left) PROVE Ends(p)
BY EndsReturn DEF Leave

\* Quiet: nothing that a reported document depends on.
Quiet(p) ==
    /\ op[p].at # "idle" /\ op[p].at \notin Committing
    /\ UNCHANGED <<mode, mem, acked>> /\ disk' \in {disk, mem}

LEMMA AckEnds == ASSUME KInv, AckInv, NEW p \in Procs, Quiet(p), Ends(p) PROVE AckInv'
BY AckQuiet, WatchedSteps DEF Quiet, Ends

LEMMA AckGoes ==
    ASSUME KInv, AckInv, NEW p \in Procs, Quiet(p), NEW at \in Steps \ Watched, Goto(p, at)
    PROVE  AckInv'
<1>1. Turns(p, at, op[p].snap)
  BY Goes, TurnsBecomes
<1> QED BY <1>1, AckQuiet DEF Quiet, Turns

LEMMA WorkAcks ==
    ASSUME KInv, AckInv, NEW p \in Procs,
           \/ Work(p) \/ EnsureCollection(p) \/ Scroll(p) \/ Upsert(p) \/ Capture(p)
           \/ AbortPoints(p)
    PROVE  AckInv'
<1>1. /\ op[p].at \in Plain /\ UNCHANGED <<mode, mem, disk, acked>>
      /\ {"fail", "collect", "abortPoints", "scroll", "upsert", "capture", "commit",
          "abortContent"} \subseteq Plain
  BY DEF Work, EnsureCollection, Scroll, Upsert, Capture, AbortPoints, observers, Plain
<1>2. \E at \in Plain : Becomes(p, at)
  BY <1>1, Goes, GoesListing, PlainAreSteps DEF Work, EnsureCollection, Scroll, Upsert, Capture,
     AbortPoints
<1>3. PICK at \in Plain : Turns(p, at, op[p].snap)
  BY <1>2, TurnsBecomes
<1>4. OthersSame(p)
  BY <1>3 DEF Turns
<1>5. PICK r \in Ops : /\ op'[p] = r /\ r.at \in Plain
                       /\ r.kb = op[p].kb /\ r.doc = op[p].doc /\ r.new = op[p].new
  BY <1>3 DEF Turns
<1> QED BY <1>1, <1>4, <1>5, AckPlain

LEMMA AbortContentAcks ==
    ASSUME KInv, AckInv, NEW p \in Procs, AbortContent(p) PROVE AckInv'
<1>1. /\ op[p].at = "abortContent" /\ UNCHANGED <<mode, mem, disk, acked>>
      /\ op[p].at \in Plain /\ "fail" \in Plain /\ "fail" \in Steps
  BY PlainAreSteps DEF AbortContent, Plain
<1>2. Quiet(p)
  BY <1>1 DEF Quiet, Committing
<1>3. CASE \E left : Leave(p, left)
  BY <1>2, <1>3, EndsLeave, AckEnds
<1>4. CASE Goto(p, "fail")
  <2>1. Turns(p, "fail", op[p].snap)
    BY <1>1, <1>4, Goes, TurnsBecomes
  <2>2. OthersSame(p)
    BY <2>1 DEF Turns
  <2>3. PICK r \in Ops : /\ op'[p] = r /\ r.at = "fail"
                         /\ r.kb = op[p].kb /\ r.doc = op[p].doc /\ r.new = op[p].new
    BY <2>1 DEF Turns
  <2> QED BY <1>1, <2>2, <2>3, AckPlain
<1> QED BY <1>3, <1>4 DEF AbortContent

LEMMA RetireAcks ==
    ASSUME KInv, AckInv, NEW p \in Procs,
           \/ RetirePoints(p) \/ RetireContent(p) \/ DeletePoints(p) \/ DeleteContent(p)
           \/ DropCollection(p) \/ DropContent(p) \/ CreateCollection(p)
    PROVE  AckInv'
<1>1. Quiet(p)
  BY DEF Quiet, Committing, RetirePoints, RetireContent, DeletePoints, DeleteContent,
     DropCollection, DropContent, CreateCollection, observers
<1>2. {"retireContent", "deleteRemove", "dropContent", "createUndo"} \subseteq Steps \ Watched
  BY WatchedSteps DEF Steps, Reserving, Retiring
<1>3. Return(p) \/ \E at \in {"retireContent", "deleteRemove", "dropContent", "createUndo"} : Goto(p, at)
  BY DEF RetirePoints, RetireContent, DeletePoints, DeleteContent, DropCollection, DropContent,
     CreateCollection
<1> QED BY <1>1, <1>2, <1>3, EndsReturn, AckEnds, AckGoes

\* What a step leaves of a request, when it names only some of the fields.
LEMMA AltersAt ==
    ASSUME KInv, NEW p \in Procs, NEW at, NEW snap,
           \/ op' = [op EXCEPT ![p].at = at]
           \/ op' = [op EXCEPT ![p].at = at, ![p].snap = snap]
    PROVE  OthersSame(p) /\ op'[p].at = at
<1>1. op \in [Procs -> Ops] /\ op[p] \in Ops
  BY OpOf
<1>2. OthersSame(p)
  BY <1>1 DEF OthersSame
<1>3. op'[p].at = at
  BY <1>1 DEF Ops
<1> QED BY <1>2, <1>3

LEMMA StartAcks ==
    ASSUME KInv, AckInv, NEW p \in Procs, NEW k \in KBs, NEW d \in Docs,
           StartIndex(p, k, d) \/ StartOnDocument(p, k, d)
    PROVE  AckInv'
<1>1. /\ CanStart(p) /\ UNCHANGED <<mode, mem, disk, acked>>
      /\ \E kind : Start(p, kind, k, d, "reserve", NoDocs)
  BY DEF StartIndex, StartOnDocument, observers
<1>2. PICK kind : Start(p, kind, k, d, "reserve", NoDocs)
  BY <1>1
<1>3. PICK r : r = op'[p]
  OBVIOUS
<1>4. OthersSame(p) /\ r.at = "reserve" /\ ~r.new
  BY <1>2, <1>3, OpOf DEF Start, Idle, OthersSame
<1>5. op[p].at \notin Committing
  BY <1>1 DEF CanStart, Committing
<1>6. Kept(r)'
  <2>1. "reserve" \in Waiting
    BY DEF Waiting
  <2> QED BY <1>4, <2>1, WatchedSteps
          DEF Kept, Young, Saved, Unseen, PutsShown, Uncommits, Undeletes, Putting
<1> QED BY <1>1, <1>3, <1>4, <1>5, <1>6, AckStill

LEMMA ReserveAcks ==
    ASSUME KInv, AckInv, NEW p \in Procs, Reserve(p) PROVE AckInv'
<1>1. op[p].at = "reserve" /\ UNCHANGED <<mode, mem, disk, acked>>
  BY DEF Reserve, observers
<1>2. Quiet(p)
  BY <1>1 DEF Quiet, Committing
<1>3. CASE Return(p)
  BY <1>2, <1>3, EndsReturn, AckEnds
<1>4. CASE Goto(p, "deletePoints")
  BY <1>2, <1>4, AckGoes, WatchedSteps DEF Steps, Reserving
<1>5. CASE op' = [op EXCEPT ![p].at = "reserved", ![p].prev = Current(p).fence]
  <2>1. PICK o \in Ops : o = op[p]
    BY OpOf
  <2>2. PICK r : r = op'[p]
    OBVIOUS
  <2>3. OthersSame(p) /\ r.at = "reserved" /\ r.new = o.new
    <3>1. OthersSame(p)
      BY <1>5, OpOf DEF OthersSame
    <3>2. r = [o EXCEPT !.at = "reserved", !.prev = Current(p).fence]
      BY <1>5, <2>1, <2>2, OpOf
    <3> QED BY <3>1, <3>2 DEF Ops
  <2>4. mode = "faultySaves" => Kept(r)'
    <3>1. "reserve" \in Waiting /\ "reserved" \in Waiting
      BY DEF Waiting
    <3>2. mode = "faultySaves" => ~r.new
      BY <1>1, <2>1, <2>3, <3>1 DEF AckInv, Kept, Young
    <3> QED BY <2>3, <3>1, <3>2, WatchedSteps
            DEF Kept, Young, Saved, Unseen, PutsShown, Uncommits, Undeletes, Putting
  <2> QED BY <1>1, <1>2, <2>2, <2>3, <2>4, AckStill DEF Quiet
<1> QED BY <1>3, <1>4, <1>5 DEF Reserve
-----------------------------------------------------------------------------
(* What was reported stays: the saves *)

\* The record of a request that goes on with its copy dropped.
LEMMA SavedTurns ==
    ASSUME KInv, NEW p \in Procs, NEW at \in Steps,
           op' = [op EXCEPT ![p].at = at, ![p].snap = NoDocs]
    PROVE  OthersSame(p) /\ \E r : /\ op'[p] = r /\ r.at = at /\ r.kb = op[p].kb
                                   /\ r.doc = op[p].doc /\ r.new = op[p].new
<1>1. PICK r \in Ops : op' = [op EXCEPT ![p] = r] /\ r.at = at /\ SameAttempt(op[p], r)
  BY GoesSaved
<1> QED BY <1>1, Alters DEF SameAttempt

LEMMA RefusedAcks ==
    ASSUME KInv, AckInv, NEW p \in Procs, NEW at, <<op[p].at, at>> \in Refused,
           op[p].at # "dropSave", SaveFails, Goto(p, at), UNCHANGED <<mode, mem, acked>>
    PROVE  AckInv'
<1>1. at \in Steps /\ op[p].at # "idle"
  BY RefusedSteps
<1>2. PICK r \in Ops : op'[p] = r /\ r.at = at /\ r.kb = op[p].kb /\ r.doc = op[p].doc
                       /\ r.new = op[p].new /\ r.snap = op[p].snap
  BY <1>1, Goes, TurnsBecomes DEF Turns
<1>3. OthersSame(p)
  BY <1>1, Goes, TurnsBecomes DEF Turns
<1>4. disk' = disk
  BY DEF SaveFails
<1>5. \/ op[p].at = "beginSave" /\ r.at = "beginUndo"
      \/ op[p].at = "failSave" /\ r.at = "failUndo"
      \/ op[p].at = "commitSave" /\ r.at = "commitUndo"
      \/ op[p].at = "deleteSave" /\ r.at = "deleteUndo"
  BY <1>2 DEF Refused
<1> QED BY <1>1, <1>2, <1>3, <1>4, <1>5, AckSame

LEMMA BeginSaveAcks ==
    ASSUME KInv, AckInv, NEW p \in Procs, BeginSave(p) PROVE AckInv'
<1>1. op[p].at = "beginSave" /\ UNCHANGED <<mode, mem, acked>>
  BY DEF BeginSave, observers
<1>2. CASE SaveFails /\ Goto(p, "beginUndo")
  BY <1>1, <1>2, RefusedAcks DEF Refused
<1>3. CASE Save /\ op' = [op EXCEPT ![p].at = "work", ![p].snap = NoDocs]
  <2>1. PICK o \in Ops : o = op[p]
    BY OpOf
  <2>2. "work" \in Plain /\ "work" \in Steps
    BY PlainAreSteps DEF Plain
  <2>3. OthersSame(p) /\ \E r : /\ op'[p] = r /\ r.at = "work" /\ r.kb = op[p].kb
                                /\ r.doc = op[p].doc /\ r.new = op[p].new
    BY <1>3, <2>2, SavedTurns
  <2>4. PICK r : op'[p] = r /\ r.at = "work" /\ r.kb = o.kb /\ r.doc = o.doc /\ r.new = o.new
    BY <2>1, <2>3
  <2>5. disk' = mem
    BY <1>3 DEF Save
  <2>6. mode = "faultySaves" => Kept(r)'
    <3> SUFFICES ASSUME mode = "faultySaves" PROVE Kept(r)'
      OBVIOUS
    <3>1. Saved(r)'
      BY <1>1, <2>5 DEF Saved, Shows, Has
    <3>2. Unseen(o) /\ o.at \in Putting
      BY <1>1, <2>1 DEF AckInv, Kept, Putting
    <3>3. Unseen(r)'
      BY <1>1, <2>4, <3>2 DEF Unseen
    <3>4. Young(r)' /\ PutsShown(r)' /\ Uncommits(r)' /\ Undeletes(r)'
      BY <2>2, <2>4, WatchedSteps DEF Young, PutsShown, Uncommits, Undeletes
    <3> QED BY <3>1, <3>3, <3>4 DEF Kept
  <2>7. op[p].at # "idle"
    BY <1>1
  <2> QED BY <1>1, <2>3, <2>4, <2>5, <2>6, <2>7, AckStill
<1> QED BY <1>2, <1>3 DEF BeginSave, SaveThen

\* A save after which the request no longer matters to what was reported.
LEMMA SaveEndsAcks ==
    ASSUME KInv, AckInv, NEW p \in Procs, op[p].at # "idle", NEW at, at \notin Watched,
           OthersSame(p), op'[p].at = at, Save, UNCHANGED <<mode, mem, acked>>
    PROVE  AckInv'
<1>1. disk' = mem
  BY DEF Save
<1> QED BY <1>1, AckQuiet

LEMMA SavesAcks ==
    ASSUME KInv, AckInv, NEW p \in Procs,
           \/ CommitSave(p) \/ FailSave(p) \/ UndoSave(p) \/ DeleteSave(p) \/ DropSave(p)
           \/ CreateSave(p)
    PROVE  AckInv'
<1>1. /\ op[p].at \in {"commitSave", "failSave", "undoSave", "deleteSave", "dropSave", "createSave"}
      /\ UNCHANGED <<mode, mem, acked>> /\ op[p].at # "idle"
  BY DEF CommitSave, FailSave, UndoSave, DeleteSave, DropSave, CreateSave, observers
<1>2. CASE CommitSave(p)
  <2>1. op[p].at = "commitSave"
    BY <1>2 DEF CommitSave
  <2>2. CASE SaveFails /\ Goto(p, "commitUndo")
    BY <1>1, <2>1, <2>2, RefusedAcks DEF Refused
  <2>3. CASE Save /\ op' = [op EXCEPT ![p].at = "retirePoints", ![p].snap = NoDocs]
    BY <1>1, <2>3, AltersAt, WatchedSteps, SaveEndsAcks
  <2> QED BY <1>2, <2>2, <2>3 DEF CommitSave, SaveThen
<1>3. CASE FailSave(p)
  <2>1. op[p].at = "failSave"
    BY <1>3 DEF FailSave
  <2>2. CASE SaveFails /\ Goto(p, "failUndo")
    BY <1>1, <2>1, <2>2, RefusedAcks DEF Refused
  <2>3. CASE Save /\ Leave(p, {})
    BY <1>1, <2>3, EndsLeave, WatchedSteps, SaveEndsAcks DEF Ends
  <2> QED BY <1>3, <2>2, <2>3 DEF FailSave
<1>4. CASE UndoSave(p)
  <2>1. Leave(p, {}) /\ disk' \in {disk, mem} /\ op[p].at = "undoSave"
    BY <1>4 DEF UndoSave, Save, SaveFails
  <2>2. Quiet(p)
    BY <1>1, <2>1 DEF Quiet, Committing
  <2> QED BY <2>1, <2>2, EndsLeave, AckEnds
<1>5. CASE DeleteSave(p)
  <2>1. op[p].at = "deleteSave"
    BY <1>5 DEF DeleteSave
  <2>2. CASE SaveFails /\ Goto(p, "deleteUndo")
    BY <1>1, <2>1, <2>2, RefusedAcks DEF Refused
  <2>3. CASE Save /\ op' = [op EXCEPT ![p].at = "deleteContent", ![p].snap = NoDocs]
    BY <1>1, <2>3, AltersAt, WatchedSteps, SaveEndsAcks
  <2> QED BY <1>5, <2>2, <2>3 DEF DeleteSave, SaveThen
<1>6. CASE DropSave(p) \/ CreateSave(p)
  <2>1. op[p].at \in {"dropSave", "createSave"} /\ disk' \in {disk, mem}
    BY <1>6 DEF DropSave, CreateSave, SaveThen, Save, SaveFails
  <2>2. Quiet(p)
    BY <1>1, <2>1 DEF Quiet, Committing
  <2>3. \E at \in {"dropCollection", "dropUndo", "createCollection", "createUndo"} :
            OthersSame(p) /\ op'[p].at = at
    BY <1>6, AltersAt DEF DropSave, CreateSave, SaveThen, Goto
  <2>4. OthersSame(p) /\ op'[p].at \notin Watched
    BY <2>3, WatchedSteps
  <2> QED BY <2>2, <2>4, AckQuiet DEF Quiet
<1> QED BY <1>2, <1>3, <1>4, <1>5, <1>6

LEMMA CancelAcks ==
    ASSUME KInv, AckInv, NEW p \in Procs, Cancel(p) PROVE AckInv'
<1>1. UNCHANGED <<mode, mem, disk, acked>>
  BY DEF Cancel, observers
<1>2. PICK o \in Ops : o = op[p]
  BY OpOf
<1> DEFINE new == [o EXCEPT !.cancelled = TRUE]
<1>3. /\ new.at = o.at /\ new.kb = o.kb /\ new.doc = o.doc /\ new.new = o.new
      /\ new.snap = o.snap
  BY DEF Ops
<1>4. op' = [op EXCEPT ![p] = new]
  BY <1>2, OpOf DEF Cancel
<1> HIDE DEF new
<1>5. ASSUME NEW q \in Procs
      PROVE  \E s : /\ op'[q] = s /\ s.at = op[q].at /\ s.kb = op[q].kb /\ s.doc = op[q].doc
                    /\ s.new = op[q].new /\ s.snap = op[q].snap
  BY <1>2, <1>3, <1>4, OpOf
<1>6. AckedKept'
  BY <1>1, <1>5 DEF AckInv, AckedKept, Shows, Has, Pending
<1>7. ASSUME mode = "faultySaves", NEW q \in Procs PROVE Kept(op[q])'
  <2>1. PICK r : r = op[q]
    OBVIOUS
  <2>2. PICK s : /\ op'[q] = s /\ s.at = r.at /\ s.kb = r.kb /\ s.doc = r.doc
                 /\ s.new = r.new /\ s.snap = r.snap
    BY <1>5, <2>1
  <2>3. Kept(r)
    BY <1>7, <2>1 DEF AckInv
  <2>4. Young(s)' /\ Saved(s)' /\ Unseen(s)'
    BY <1>1, <2>2, <2>3 DEF Kept, Young, Saved, Unseen, Shows, Has, OwnDoc
  <2>5. PutsShown(s)' /\ Uncommits(s)' /\ Undeletes(s)'
    BY <1>1, <2>2, <2>3 DEF Kept, PutsShown, Uncommits, Undeletes, ShowsIn, Shows, Has, OwnDoc
  <2>6. Kept(s)'
    BY <2>4, <2>5 DEF Kept
  <2> QED BY <2>2, <2>6, KeptIs
<1>8. mode' = "faultySaves" => \A q \in Procs : Kept(op[q])'
  BY <1>1, <1>7
<1> QED BY <1>1, <1>6, <1>8 DEF AckInv
-----------------------------------------------------------------------------
(* What was reported stays: one document in memory *)

\* Of what memory shows, at most the document of o changes.
LEMMA GivesShows ==
    ASSUME NEW o, NEW r, Gives(o, r), NEW a \in KBs \X Docs
    PROVE  /\ a # OwnDoc(o) => (Shows(mem', a) <=> Shows(mem, a))
           /\ a = OwnDoc(o) =>
                (Shows(mem', a) <=> o.kb \in mem.kbs /\ r.status # "none" /\ r.fence # 0)
<1>1. PICK k \in KBs, d \in Docs : a = <<k, d>>
  OBVIOUS
<1>2. /\ mem'.kbs = mem.kbs
      /\ mem'.doc[k][d] = IF k = o.kb /\ d = o.doc THEN r ELSE mem.doc[k][d]
  BY DEF Gives
<1> QED BY <1>1, <1>2 DEF Shows, Has, OwnDoc

\* A step on its document that does not take back what was reported.
LEMMA AckDoc ==
    ASSUME KInv, AckInv, NEW p \in Procs, NEW o \in Ops, o = op[p], o.at # "idle",
           OthersSame(p), UNCHANGED <<mode, disk>>, NEW r, Gives(o, r), acked' \subseteq acked,
           OwnDoc(o) \in acked' => o.kb \in mem.kbs /\ r.status # "none" /\ r.fence # 0,
           o.at \notin Committing \/ (OwnDoc(o) \in acked' => Shows(disk, OwnDoc(o))),
           NEW new, op'[p] = new, mode = "faultySaves" => Kept(new)'
    PROVE  AckInv'
<1>1. acked' \subseteq KBs \X Docs /\ Solo(p)
  BY SoloAt DEF AckInv
<1>2. ASSUME NEW a \in acked' PROVE Shows(mem', a)
  <2>1. a \in KBs \X Docs /\ Shows(mem, a)
    BY <1>1, <1>2 DEF AckInv, AckedKept
  <2> QED BY <1>2, <2>1, GivesShows
<1>3. AckedKept'
  BY <1>2, AckStays
<1> QED BY <1>1, <1>3, AckCore

\* The one request that undoes is as AckInv says.
LEMMA UndoKept ==
    ASSUME KInv, AckInv, NEW p \in Procs, NEW o \in Ops, o = op[p], o.at \in Undoing
    PROVE  Kept(o) /\ mode = "faultySaves" /\ o.at # "idle"
BY UndoAlone DEF AckInv

\* Putting back the copy, or what was there before, keeps what was reported.
LEMMA PutsAcks ==
    ASSUME KInv, AckInv, NEW p \in Procs, NEW o \in Ops, o = op[p],
           o.at \in {"beginUndo", "failUndo"}, OthersSame(p), UNCHANGED <<mode, disk, acked>>,
           NEW r, Gives(o, r), Has(mem, o.kb, o.doc),
           \/ o.new /\ r = NoDoc
           \/ ~o.new /\ r.status = o.snap[o.doc].status /\ r.fence = o.snap[o.doc].fence,
           op'[p].at \notin Watched
    PROVE  AckInv'
<1>1. /\ Kept(o) /\ o.at # "idle" /\ o.at \in Putting /\ o.at \notin Committing
      /\ mode = "faultySaves"
  BY UndoKept DEF Undoing, Putting, Committing
<1>2. OwnDoc(o) \in acked' => o.kb \in mem.kbs /\ r.status # "none" /\ r.fence # 0
  <2> SUFFICES ASSUME OwnDoc(o) \in acked PROVE r.status # "none" /\ r.fence # 0
    BY DEF Has
  <2>1. Shows(mem, OwnDoc(o)) /\ Shows(mem, OwnDoc(o)) = Shows(mem, <<o.kb, o.doc>>)
    BY DEF AckInv, AckedKept, OwnDoc
  <2>2. mem.doc[o.kb][o.doc].status # "none" /\ mem.doc[o.kb][o.doc].fence # 0
    BY <2>1 DEF Shows, Has
  <2>3. ~o.new
    BY <1>1, <2>2 DEF Kept, Unseen
  <2>4. ShowsIn(o.snap, o.doc)
    BY <1>1 DEF Kept, PutsShown
  <2> QED BY <2>3, <2>4 DEF ShowsIn
<1>3. PICK new : new = op'[p]
  OBVIOUS
<1>4. Kept(new)'
  BY <1>3, Unwatched
<1> QED BY <1>1, <1>2, <1>3, <1>4, AckDoc

\* The copy of its own document, without the marker.
LEMMA CopyIs ==
    ASSUME KInv, NEW p \in Procs, NEW o \in Ops, o = op[p], o.at \in Undoing, o.at \in Remembering
    PROVE  /\ o.snap[o.doc] \in DocRecs /\ [o.snap[o.doc] EXCEPT !.marker = 0] \in DocRecs
           /\ [o.snap[o.doc] EXCEPT !.marker = 0].status = o.snap[o.doc].status
           /\ [o.snap[o.doc] EXCEPT !.marker = 0].fence = o.snap[o.doc].fence
<1>1. o.snap[o.doc] \in DocRecs
  BY OpFields
<1>2. [o.snap[o.doc] EXCEPT !.marker = 0] \in DocRecs
  BY UndoRecord
<1> QED BY <1>1, <1>2 DEF DocRecs

LEMMA BeginUndoAcks ==
    ASSUME KInv, AckInv, NEW p \in Procs, BeginUndo(p) PROVE AckInv'
<1>1. PICK o \in Ops : o = op[p]
  BY OpOf
<1>2. /\ o.at = "beginUndo" /\ Goto(p, "undoSave") /\ UNCHANGED <<mode, disk, acked>>
      /\ o.at \in Undoing /\ o.at \in Remembering
  BY <1>1 DEF BeginUndo, observers, Undoing, Remembering
<1>3. "undoSave" \in Steps \ Watched
  BY WatchedSteps DEF Steps, Reserving
<1>4. CASE UNCHANGED mem
  <2>1. Quiet(p)
    BY <1>1, <1>2, <1>4 DEF Quiet, Committing
  <2> QED BY <1>2, <1>3, <2>1, AckGoes
<1>5. CASE /\ Has(mem, o.kb, o.doc)
           /\ SetCurrent(p, IF o.new THEN NoDoc ELSE o.snap[o.doc])
  <2> DEFINE r == IF o.new THEN NoDoc ELSE o.snap[o.doc]
  <2>1. r \in DocRecs
    BY <1>1, <1>2, CopyIs, Nothing
  <2>2. Gives(o, r)
    BY <1>1, <1>5, <2>1, GivesSet
  <2>3. \/ o.new /\ r = NoDoc
        \/ ~o.new /\ r.status = o.snap[o.doc].status /\ r.fence = o.snap[o.doc].fence
    OBVIOUS
  <2> HIDE DEF r
  <2>4. OthersSame(p) /\ op'[p].at \notin Watched
    BY <1>2, <1>3, AltersAt DEF Goto
  <2> QED BY <1>1, <1>2, <1>5, <2>2, <2>3, <2>4, PutsAcks
<1> QED BY <1>1, <1>4, <1>5 DEF BeginUndo

LEMMA FailUndoAcks ==
    ASSUME KInv, AckInv, NEW p \in Procs, FailUndo(p) PROVE AckInv'
<1>1. PICK o \in Ops : o = op[p]
  BY OpOf
<1>2. /\ o.at = "failUndo" /\ Ends(p) /\ UNCHANGED <<mode, disk, acked>>
      /\ o.at \in Undoing /\ o.at \in Remembering
  BY <1>1, EndsLeave DEF FailUndo, Undoing, Remembering
<1>3. CASE UNCHANGED mem
  <2>1. Quiet(p)
    BY <1>1, <1>2, <1>3 DEF Quiet, Committing
  <2> QED BY <1>2, <2>1, AckEnds
<1>4. CASE Has(mem, o.kb, o.doc) /\ SetCurrent(p, Restored(p))
  <2>1. PICK r : r = Restored(p)
    OBVIOUS
  <2>2. /\ r \in DocRecs
        /\ \/ o.new /\ r = NoDoc
           \/ ~o.new /\ r.status = o.snap[o.doc].status /\ r.fence = o.snap[o.doc].fence
    BY <1>1, <1>2, <2>1, CopyIs, Nothing DEF Restored
  <2>3. Gives(o, r)
    BY <1>1, <1>4, <2>1, <2>2, GivesSet
  <2>4. OthersSame(p) /\ op'[p].at \notin Watched
    BY <1>2, WatchedSteps DEF Ends
  <2> QED BY <1>1, <1>2, <1>4, <2>2, <2>3, <2>4, PutsAcks
<1> QED BY <1>1, <1>3, <1>4 DEF FailUndo

LEMMA GoesCopyingOn ==
    ASSUME KInv, NEW p \in Procs, NEW at \in Steps, Copies(p, at)
    PROVE  OthersSame(p) /\ \E new \in Ops : /\ op'[p] = new /\ new.at = at
                                             /\ SameAttempt(op[p], new) /\ new.snap = mem.doc[op[p].kb]
BY GoesCopying, Alters

LEMMA FailAcks ==
    ASSUME KInv, AckInv, NEW p \in Procs, Fail(p) PROVE AckInv'
<1>1. PICK o \in Ops : o = op[p]
  BY OpOf
<1>2. /\ o.at = "fail" /\ o.at # "idle" /\ UNCHANGED <<mode, disk, acked>>
      /\ o.at \in Plain /\ o.at \notin Committing
  BY <1>1 DEF Fail, Plain, Committing
<1>3. CASE Leave(p, {}) /\ UNCHANGED mem
  <2>1. Quiet(p)
    BY <1>1, <1>2, <1>3 DEF Quiet
  <2> QED BY <1>3, <2>1, EndsLeave, AckEnds
<1>4. CASE /\ Has(mem, o.kb, o.doc)
           /\ SetCurrent(p, [Current(p) EXCEPT !.status = "failed", !.marker = 0, !.run = o.fence])
           /\ Copies(p, "failSave")
  <2>1. PICK cur \in DocRecs : cur = Current(p) /\ cur = mem.doc[o.kb][o.doc]
    BY <1>1, <1>2, Found
  <2> DEFINE r == [cur EXCEPT !.status = "failed", !.marker = 0, !.run = o.fence]
  <2>2. r \in DocRecs /\ r.fence = cur.fence /\ r.status = "failed"
    BY OpFields, Nothing DEF DocRecs, NoDoc
  <2>3. SetCurrent(p, r)
    BY <1>4, <2>1
  <2> HIDE DEF r
  <2>4. Gives(o, r)
    BY <1>1, <2>2, <2>3, GivesSet
  <2>5. "failSave" \in Steps /\ "failSave" \in Putting /\ "failSave" \notin Plain
    BY DEF Steps, Reserving, Begun, Putting, Plain
  <2>6. OthersSame(p) /\ \E new \in Ops : /\ op'[p] = new /\ new.at = "failSave"
                                          /\ SameAttempt(op[p], new) /\ new.snap = mem.doc[op[p].kb]
    BY <1>4, <2>5, GoesCopyingOn
  <2>7. PICK new \in Ops : /\ op'[p] = new /\ new.at = "failSave" /\ new.snap = mem.doc[o.kb]
                           /\ new.kb = o.kb /\ new.doc = o.doc /\ new.new = o.new
    BY <1>1, <2>6 DEF SameAttempt
  <2>8. OwnDoc(o) \in acked => Shows(mem, OwnDoc(o)) /\ cur.fence # 0 /\ cur.status # "none"
    BY <2>1 DEF AckInv, AckedKept, Shows, Has, OwnDoc
  <2>9. o.kb \in KBs /\ o.doc \in Docs /\ OwnDoc(o) \in KBs \X Docs /\ OwnDoc(new) = OwnDoc(o)
    BY <2>7, OpFields DEF OwnDoc
  <2>10. mode = "faultySaves" => Kept(new)'
    <3> SUFFICES ASSUME mode = "faultySaves" PROVE Kept(new)'
      OBVIOUS
    <3>1. Kept(o)
      BY <1>1 DEF AckInv
    <3>2. Saved(new)'
      <4>1. Shows(mem', OwnDoc(o)) => Shows(mem, OwnDoc(o))
        BY <1>4, <2>1, <2>2, <2>4, <2>9, GivesShows DEF Shows, Has, OwnDoc
      <4> QED BY <1>2, <2>9, <3>1, <4>1 DEF Kept, Saved, Shows, Has, OwnDoc
    <3>3. Unseen(new)'
      <4>1. mem'.doc[o.kb][o.doc] = r
        BY <2>4, <2>9 DEF Gives
      <4> QED BY <1>2, <2>1, <2>2, <2>7, <3>1, <4>1 DEF Kept, Unseen
    <3>4. PutsShown(new)'
      BY <1>2, <2>1, <2>7, <2>8 DEF PutsShown, ShowsIn, OwnDoc
    <3>5. Young(new)' /\ Uncommits(new)' /\ Undeletes(new)'
      BY <2>5, <2>7, WatchedSteps DEF Young, Uncommits, Undeletes
    <3> QED BY <3>2, <3>3, <3>4, <3>5 DEF Kept
  <2>11. OwnDoc(o) \in acked' => o.kb \in mem.kbs /\ r.status # "none" /\ r.fence # 0
    BY <1>2, <1>4, <2>2, <2>8 DEF Has
  <2> QED BY <1>1, <1>2, <2>4, <2>6, <2>7, <2>10, <2>11, AckDoc
<1> QED BY <1>1, <1>3, <1>4 DEF Fail, Copies, Active

\* The marker of an attempt that begins.
LEMMA BeginAcks ==
    ASSUME KInv, AckInv, NEW p \in Procs, Begin(p) PROVE AckInv'
<1>1. PICK o \in Ops : o = op[p]
  BY OpOf
<1>2. /\ o.at = "reserved" /\ o.at # "idle" /\ o.at \in Waiting /\ o.at \notin Committing
      /\ UNCHANGED <<mode, disk, acked>>
  BY <1>1 DEF Begin, observers, Waiting, Committing
<1>3. PICK cur \in DocRecs : cur = mem.doc[o.kb][o.doc] /\ cur = Current(p)
  BY <1>1, <1>2, Found
<1>4. /\ o.kb \in KBs /\ o.doc \in Docs /\ OpSound(o) /\ DocSound(o.kb, o.doc, cur)
      /\ mem.doc[o.kb] \in [Docs -> DocRecs] /\ OwnDoc(o) \in KBs \X Docs
  BY <1>1, <1>2, <1>3, Found, StateFields DEF KInv, KTypes, OwnDoc
<1>5. "beginSave" \in Steps /\ "beginSave" \in Putting
  BY DEF Steps, Reserving, Putting
<1>6. OwnDoc(o) \in acked => o.kb \in mem.kbs /\ cur.status # "none" /\ cur.fence # 0
  BY <1>3 DEF AckInv, AckedKept, Shows, Has, OwnDoc
\* The copy is taken; a new document shows nothing yet.
<1>7. ASSUME NEW new, op'[p] = new, new.at = "beginSave", new.kb = o.kb, new.doc = o.doc,
             new.snap = mem.doc[o.kb], OthersSame(p), NEW r \in DocRecs, Gives(o, r),
             r.fence = cur.fence, r.status # "none" \/ OwnDoc(o) \notin acked,
             mode = "faultySaves" /\ new.new => r.fence = 0
      PROVE  AckInv'
  <2>1. mem'.doc[o.kb][o.doc] = r
    BY <1>4, <1>7 DEF Gives
  <2>2. PutsShown(new)'
    BY <1>2, <1>3, <1>6, <1>7 DEF PutsShown, ShowsIn, OwnDoc
  <2>3. Young(new)' /\ Saved(new)' /\ Uncommits(new)' /\ Undeletes(new)'
    BY <1>5, <1>7, WatchedSteps DEF Young, Saved, Uncommits, Undeletes
  <2>4. mode = "faultySaves" => Kept(new)'
    <3> SUFFICES ASSUME mode = "faultySaves" PROVE Kept(new)'
      OBVIOUS
    <3>1. Unseen(new)'
      BY <1>2, <1>7, <2>1 DEF Unseen
    <3> QED BY <2>2, <2>3, <3>1 DEF Kept
  <2>5. OwnDoc(o) \in acked' => o.kb \in mem.kbs /\ r.status # "none" /\ r.fence # 0
    BY <1>2, <1>6, <1>7
  <2> QED BY <1>1, <1>2, <1>7, <2>4, <2>5, AckDoc
<1>8. CASE Return(p) /\ UNCHANGED mem
  <2>1. Quiet(p)
    BY <1>1, <1>2, <1>8 DEF Quiet
  <2> QED BY <1>8, <2>1, EndsReturn, AckEnds
<1>9. CASE /\ Has(mem, o.kb, o.doc)
           /\ SetCurrent(p, [cur EXCEPT !.marker = o.fence])
           /\ op' = [op EXCEPT ![p].at = "beginSave", ![p].snap = mem.doc[o.kb],
                               ![p].superseded = cur.marker]
  <2> DEFINE new == [o EXCEPT !.at = "beginSave", !.snap = mem.doc[o.kb],
                              !.superseded = cur.marker]
             r == [cur EXCEPT !.marker = o.fence]
  <2>1. /\ new \in Ops /\ new.at = "beginSave" /\ new.snap = mem.doc[o.kb]
        /\ new.kb = o.kb /\ new.doc = o.doc /\ new.new = o.new
    BY <1>4, <1>5, RecFields DEF Ops
  <2>2. op' = [op EXCEPT ![p] = new]
    BY <1>1, <1>9, OpOf
  <2>3. r \in DocRecs /\ r.fence = cur.fence /\ r.status = cur.status
    BY OpFields DEF DocRecs
  <2>4. SetCurrent(p, r)
    BY <1>9
  <2> HIDE DEF new, r
  <2>5. Gives(o, r) /\ OthersSame(p) /\ op'[p] = new
    BY <1>1, <2>1, <2>2, <2>3, <2>4, GivesSet, Alters
  <2>6. mode = "faultySaves" => ~new.new
    BY <1>1, <1>2, <2>1 DEF AckInv, Kept, Young
  <2>7. r.status # "none"
    BY <1>3, <1>9, <2>3 DEF Has
  <2> QED BY <1>7, <2>1, <2>3, <2>5, <2>6, <2>7
<1>10. CASE /\ o.kb \in mem.kbs /\ ~Has(mem, o.kb, o.doc)
            /\ SetCurrent(p, [fence |-> o.prev, marker |-> o.fence, status |-> "processing",
                              run |-> 0])
            /\ op' = [op EXCEPT ![p].at = "beginSave", ![p].snap = mem.doc[o.kb],
                                ![p].new = TRUE]
  <2> DEFINE new == [o EXCEPT !.at = "beginSave", !.snap = mem.doc[o.kb], !.new = TRUE]
             r == [fence |-> o.prev, marker |-> o.fence, status |-> "processing", run |-> 0]
  <2>1. /\ new \in Ops /\ new.at = "beginSave" /\ new.snap = mem.doc[o.kb]
        /\ new.kb = o.kb /\ new.doc = o.doc
    BY <1>4, <1>5 DEF Ops
  <2>2. op' = [op EXCEPT ![p] = new]
    BY <1>1, <1>10, OpOf
  <2>3. r \in DocRecs /\ r.fence = o.prev /\ r.status # "none"
    BY OpFields, Nothing DEF DocRecs, NoDoc
  <2>4. SetCurrent(p, r)
    BY <1>10
  <2> HIDE DEF new, r
  <2>5. Gives(o, r) /\ OthersSame(p) /\ op'[p] = new
    BY <1>1, <2>1, <2>2, <2>3, <2>4, GivesSet, Alters
  <2>6. cur.status = "none"
    BY <1>3, <1>10 DEF Has
  <2>7. o.prev = 0 /\ cur.fence = 0
    BY <1>2, <1>3, <1>4, <1>10, <2>6 DEF OpSound, Waits, DocSound
  <2> QED BY <1>7, <2>1, <2>3, <2>5, <2>7
<1> QED BY <1>1, <1>3, <1>8, <1>9, <1>10 DEF Begin

\* A commit reports its document.
LEMMA CommitAcks ==
    ASSUME KInv, AckInv, NEW p \in Procs, Commit(p) PROVE AckInv'
<1>1. PICK o \in Ops : o = op[p]
  BY OpOf
<1>2. /\ o.at = "commit" /\ o.at \in Plain /\ o.at # "idle" /\ UNCHANGED <<mode, disk>>
  BY <1>1 DEF Commit, Plain
<1>3. CASE ~Active(p)
  <2>1. /\ UNCHANGED <<mem, acked>>
        /\ op' = [op EXCEPT ![p].at = "abortPoints", ![p].then = "return"]
    BY <1>3 DEF Commit
  <2>2. "abortPoints" \in Plain /\ "abortPoints" \in Steps
    BY PlainAreSteps DEF Plain
  <2>3. Turns(p, "abortPoints", op[p].snap)
    BY <2>1, <2>2, GoesBack, TurnsBecomes
  <2>4. OthersSame(p)
    BY <2>3 DEF Turns
  <2>5. PICK new \in Ops : /\ op'[p] = new /\ new.at = "abortPoints"
                           /\ new.kb = op[p].kb /\ new.doc = op[p].doc /\ new.new = op[p].new
    BY <2>3 DEF Turns
  <2> QED BY <1>1, <1>2, <2>1, <2>2, <2>4, <2>5, AckPlain
<1>4. CASE Active(p)
  <2> DEFINE r == [fence |-> o.fence, marker |-> 0, status |-> "indexed", run |-> o.fence]
  <2>1. o.kb \in KBs /\ o.doc \in Docs /\ o.fence # 0 /\ o.fence \in Fences
    BY <1>1, <1>2, Found, OpFields
  <2>2. r \in DocRecs /\ r.fence = o.fence /\ r.status = "indexed"
    BY <2>1, Nothing DEF DocRecs, NoDoc
  <2>3. SetCurrent(p, r) /\ acked' = acked \cup {OwnDoc(o)} /\ Has(mem, o.kb, o.doc)
    BY <1>1, <1>4 DEF Commit, Active, OwnDoc
  <2> HIDE DEF r
  <2>4. Gives(o, r)
    BY <1>1, <2>2, <2>3, GivesSet
  <2>5. "commitSave" \in Steps /\ "commitSave" \in Committing
    BY DEF Steps, Reserving, Begun, Committing
  <2>6. OthersSame(p) /\ \E new \in Ops : /\ op'[p] = new /\ new.at = "commitSave"
                                          /\ SameAttempt(op[p], new) /\ new.snap = mem.doc[op[p].kb]
    BY <1>4, <2>5, GoesCopyingOn DEF Commit, Copies
  <2>7. PICK new \in Ops : /\ op'[p] = new /\ new.at = "commitSave" /\ new.snap = mem.doc[o.kb]
                           /\ new.kb = o.kb /\ new.doc = o.doc /\ new.new = o.new
    BY <1>1, <2>6 DEF SameAttempt
  <2>8. acked' \subseteq KBs \X Docs /\ acked \subseteq KBs \X Docs /\ Solo(p)
    BY <1>1, <1>2, <2>1, <2>3, SoloAt DEF AckInv, OwnDoc
  <2>9. AckedKept'
    <3> SUFFICES ASSUME NEW a \in acked'
                 PROVE  Shows(mem', a) /\ (Shows(disk', a) \/ Pending(a)')
      BY DEF AckedKept, Shows, Has
    <3>1. a \in KBs \X Docs
      BY <2>8
    <3>2. CASE a = OwnDoc(o)
      <4>1. Shows(mem', a)
        BY <2>1, <2>2, <2>3, <2>4, <3>1, <3>2, GivesShows DEF Has
      <4>2. Pending(a)'
        BY <2>7, <3>2 DEF Pending, OwnDoc
      <4> QED BY <4>1, <4>2
    <3>3. CASE a # OwnDoc(o)
      <4>1. a \in acked /\ Shows(mem, a)
        BY <2>3, <3>3 DEF AckInv, AckedKept
      <4>2. Shows(mem', a)
        BY <2>4, <3>1, <3>3, <4>1, GivesShows
      <4>3. ASSUME ~Shows(disk', a) PROVE Pending(a)'
        <5>1. ~Shows(disk, a)
          BY <1>2, <4>3
        <5>2. PICK q \in Procs : /\ op[q].at \in {"commitSave", "commitUndo"}
                                 /\ <<op[q].kb, op[q].doc>> = a
          BY <4>1, <5>1 DEF AckInv, AckedKept, Pending
        <5>3. q # p
          BY <1>1, <1>2, <5>2
        <5> QED BY <2>6, <5>2, <5>3 DEF OthersSame, Pending
      <4> QED BY <4>2, <4>3
    <3> QED BY <3>2, <3>3
  <2>10. mode = "faultySaves" => Kept(new)'
    <3> SUFFICES ASSUME mode = "faultySaves" PROVE Kept(new)'
      OBVIOUS
    <3>1. Saved(o) /\ Unseen(o)
      BY <1>1 DEF AckInv, Kept
    <3>2. Uncommits(new)'
      <4> SUFFICES ASSUME mem.doc[o.kb][o.doc].fence # 0
                   PROVE  /\ ~o.new /\ mem.doc[o.kb][o.doc].status # "none"
                          /\ Shows(disk, OwnDoc(o))
        BY <1>2, <2>7 DEF Uncommits, OwnDoc, Shows, Has
      <4>1. Shows(mem, OwnDoc(o))
        BY <2>3 DEF Shows, Has, OwnDoc
      <4> QED BY <1>2, <2>3, <3>1, <4>1 DEF Saved, Unseen, Has
    <3>3. Young(new)' /\ Saved(new)' /\ Unseen(new)' /\ PutsShown(new)' /\ Undeletes(new)'
      BY <2>5, <2>7, WatchedSteps DEF Young, Saved, Unseen, PutsShown, Undeletes, Putting
    <3> QED BY <3>2, <3>3 DEF Kept
  <2> QED BY <1>2, <2>6, <2>7, <2>8, <2>9, <2>10, AckCore
<1> QED BY <1>3, <1>4

\* A commit that was not saved is taken back, and reported as an error; what the
\* document showed before is what the file still shows.
LEMMA CommitUndoAcks ==
    ASSUME KInv, AckInv, NEW p \in Procs, CommitUndo(p) PROVE AckInv'
<1>1. PICK o \in Ops : o = op[p]
  BY OpOf
<1>2. /\ o.at = "commitUndo" /\ o.at \in Undoing /\ o.at \in Remembering /\ o.at \in Promoted
      /\ o.at \in Committing /\ o.at # "idle" /\ UNCHANGED <<mode, disk>>
  BY <1>1 DEF CommitUndo, Undoing, Remembering, Promoted, Committing
<1>3. /\ o.kb \in KBs /\ o.doc \in Docs /\ OpSound(o) /\ o.fence # 0
      /\ Current(p) = mem.doc[o.kb][o.doc] /\ DocSound(o.kb, o.doc, Current(p))
      /\ OwnDoc(o) \in KBs \X Docs
  BY <1>1, <1>2, Found DEF OwnDoc
<1>4. Uncommits(o) /\ mode = "faultySaves"
  BY <1>1, <1>2, UndoKept DEF Kept
<1>5. acked' = IF o.snap[o.doc].fence = 0 THEN acked \ {OwnDoc(o)} ELSE acked
  BY <1>1 DEF CommitUndo, OwnDoc
<1>6. OwnDoc(o) \in acked' =>
          /\ OwnDoc(o) \in acked /\ o.snap[o.doc].fence # 0 /\ ~o.new
          /\ o.snap[o.doc].status # "none" /\ Shows(disk, OwnDoc(o))
  BY <1>2, <1>4, <1>5 DEF Uncommits
<1>7. "abortPoints" \in Plain /\ "abortPoints" \in Steps
  BY PlainAreSteps DEF Plain
<1>8. Turns(p, "abortPoints", op[p].snap)
  BY <1>7, GoesBack, TurnsBecomes DEF CommitUndo
<1>9. OthersSame(p)
  BY <1>8 DEF Turns
<1>10. PICK new \in Ops : /\ op'[p] = new /\ new.at = "abortPoints"
                          /\ new.kb = o.kb /\ new.doc = o.doc /\ new.new = o.new
  BY <1>1, <1>8 DEF Turns
<1>11. ASSUME NEW r, Gives(o, r), o.new => r.fence = 0,
              Shows(mem', OwnDoc(o)) => Shows(disk, OwnDoc(o)),
              OwnDoc(o) \in acked' => o.kb \in mem.kbs /\ r.status # "none" /\ r.fence # 0
       PROVE  AckInv'
  <2>1. mem'.doc[o.kb][o.doc] = r
    BY <1>3, <1>11 DEF Gives
  <2>2. Unseen(new)'
    BY <1>10, <1>11, <2>1 DEF Unseen
  <2>3. Saved(new)'
    BY <1>2, <1>10, <1>11 DEF Saved, OwnDoc, Shows, Has
  <2>4. Young(new)' /\ PutsShown(new)' /\ Uncommits(new)' /\ Undeletes(new)'
    BY <1>7, <1>10, WatchedSteps DEF Young, PutsShown, Uncommits, Undeletes
  <2>5. Kept(new)'
    BY <2>2, <2>3, <2>4 DEF Kept
  <2>6. acked' \subseteq acked
    BY <1>5
  <2> QED BY <1>1, <1>2, <1>6, <1>9, <1>10, <1>11, <2>5, <2>6, AckDoc
<1> DEFINE mine == /\ Has(mem, o.kb, o.doc) /\ Current(p).fence = o.fence
                   /\ Current(p).run = o.fence /\ Current(p).marker = 0
<1>12. CASE mine
  <2>1. PICK r : r = Restored(p)
    OBVIOUS
  <2>2. SetCurrent(p, r)
    BY <1>1, <1>12, <2>1 DEF CommitUndo
  <2>3. /\ r \in DocRecs
        /\ \/ o.new /\ r = NoDoc
           \/ ~o.new /\ r.status = o.snap[o.doc].status /\ r.fence = o.snap[o.doc].fence
    BY <1>1, <1>2, <2>1, CopyIs, Nothing DEF Restored
  <2>4. Gives(o, r)
    BY <1>1, <2>2, <2>3, GivesSet
  <2>5. o.new => r.fence = 0
    BY <2>3, Nothing
  <2>6. Shows(mem', OwnDoc(o)) => Shows(disk, OwnDoc(o))
    BY <1>2, <1>3, <1>4, <2>3, <2>4, <2>5, GivesShows DEF Uncommits
  <2>7. OwnDoc(o) \in acked' => o.kb \in mem.kbs /\ r.status # "none" /\ r.fence # 0
    BY <1>6, <1>12, <2>3 DEF Has
  <2> QED BY <1>11, <2>4, <2>5, <2>6, <2>7
<1>13. CASE ~mine
  <2>1. UNCHANGED mem
    BY <1>1, <1>13 DEF CommitUndo
  <2>2. ~Has(mem, o.kb, o.doc)
    <3>1. Current(p).status = "none" \/ Current(p) = [fence |-> o.fence, marker |-> 0,
                                                      status |-> "indexed", run |-> o.fence]
      BY <1>2, <1>3 DEF OpSound, Holds
    <3> QED BY <1>3, <1>13, <3>1 DEF Has
  <2>3. Current(p).fence = 0
    <3>1. Current(p).status = "none"
      BY <1>3, <2>2 DEF Has, KInv, Global, StateSound
    <3> QED BY <1>3, <3>1 DEF DocSound
  <2>4. ~Shows(mem, OwnDoc(o)) /\ OwnDoc(o) \notin acked
    BY <2>2 DEF AckInv, AckedKept, Shows, Has, OwnDoc
  <2>5. Gives(o, Current(p))
    BY <1>1, <2>1, GivesSame
  <2>6. Shows(mem', OwnDoc(o)) => Shows(disk, OwnDoc(o))
    BY <2>1, <2>4
  <2>7. OwnDoc(o) \notin acked'
    BY <1>6, <2>4
  <2> QED BY <1>11, <2>3, <2>5, <2>6, <2>7
<1> QED BY <1>12, <1>13

\* What a deletion removes was not reported any more.
LEMMA DeleteRemoveAcks ==
    ASSUME KInv, AckInv, NEW p \in Procs, DeleteRemove(p) PROVE AckInv'
<1>1. PICK o \in Ops : o = op[p]
  BY OpOf
<1>2. /\ o.at = "deleteRemove" /\ o.at # "idle" /\ o.at \notin Committing
      /\ UNCHANGED <<mode, disk>>
  BY <1>1 DEF DeleteRemove, Committing
<1>3. CASE ~Has(mem, o.kb, o.doc)
  <2>1. Return(p) /\ UNCHANGED <<mem, acked>>
    BY <1>1, <1>3 DEF DeleteRemove
  <2>2. Quiet(p)
    BY <1>1, <1>2, <2>1 DEF Quiet
  <2> QED BY <2>1, <2>2, EndsReturn, AckEnds
<1>4. CASE Has(mem, o.kb, o.doc)
  <2>1. SetCurrent(p, NoDoc) /\ acked' = acked \ {OwnDoc(o)} /\ Copies(p, "deleteSave")
    BY <1>1, <1>4 DEF DeleteRemove, Copies, OwnDoc
  <2>2. Gives(o, NoDoc)
    BY <1>1, <2>1, Nothing, GivesSet
  <2>3. "deleteSave" \in Steps
    BY DEF Steps, Reserving
  <2>4. OthersSame(p) /\ \E new \in Ops : /\ op'[p] = new /\ new.at = "deleteSave"
                                          /\ SameAttempt(op[p], new) /\ new.snap = mem.doc[op[p].kb]
    BY <2>1, <2>3, GoesCopyingOn
  <2>5. PICK new \in Ops : /\ op'[p] = new /\ new.at = "deleteSave" /\ new.snap = mem.doc[o.kb]
                           /\ new.kb = o.kb
    BY <1>1, <2>4 DEF SameAttempt
  <2>6. Undeletes(new)'
    <3>1. ASSUME NEW d \in Docs, <<o.kb, d>> \in acked
          PROVE  mem.doc[o.kb][d].status # "none" /\ mem.doc[o.kb][d].fence # 0
      BY <3>1 DEF AckInv, AckedKept, Shows, Has
    <3> QED BY <2>1, <2>5, <3>1 DEF Undeletes, ShowsIn
  <2>7. Young(new)' /\ Saved(new)' /\ Unseen(new)' /\ PutsShown(new)' /\ Uncommits(new)'
    BY <2>5 DEF Young, Waiting, Saved, Unseen, PutsShown, Uncommits, Plain, Putting, Committing
  <2>8. mode = "faultySaves" => Kept(new)'
    BY <2>6, <2>7 DEF Kept
  <2>9. OwnDoc(o) \notin acked' /\ acked' \subseteq acked
    BY <2>1
  <2> QED BY <1>1, <1>2, <2>2, <2>4, <2>5, <2>8, <2>9, AckDoc
<1> QED BY <1>3, <1>4
-----------------------------------------------------------------------------
(* What was reported stays: knowledge bases, and the process *)

\* A step on a whole knowledge base that keeps in memory what was reported.
LEMMA AckBase ==
    ASSUME KInv, AckInv, NEW p \in Procs, op[p].at # "idle" \/ CanStart(p),
           op[p].at \notin Committing, OthersSame(p), UNCHANGED <<mode, disk>>,
           acked' \subseteq acked, \A a \in acked' : Shows(mem', a), op'[p].at \notin Watched
    PROVE  AckInv'
<1>1. PICK o \in Ops : o = op[p]
  BY OpOf
<1>2. acked' \subseteq KBs \X Docs /\ Solo(p)
  BY SoloAt DEF AckInv
<1>3. AckedKept'
  BY <1>1, AckStays
<1>4. PICK r : r = op'[p]
  OBVIOUS
<1>5. Kept(r)'
  BY <1>4, Unwatched
<1> QED BY <1>2, <1>3, <1>4, <1>5, AckCore

LEMMA AckedIs ==
    ASSUME AckInv, NEW a \in acked
    PROVE  \E k \in KBs, d \in Docs : /\ a = <<k, d>> /\ k \in mem.kbs
                                      /\ mem.doc[k][d].status # "none" /\ mem.doc[k][d].fence # 0
<1>1. PICK k \in KBs, d \in Docs : a = <<k, d>>
  BY DEF AckInv
<1> QED BY <1>1 DEF AckInv, AckedKept, Shows, Has

LEMMA StartsAlone ==
    ASSUME KInv, NEW p \in Procs, CanStart(p), NEW kind, NEW k, NEW d, NEW at, NEW snap,
           Start(p, kind, k, d, at, snap)
    PROVE  OthersSame(p) /\ op'[p].at = at /\ op[p].at \notin Committing
BY OpOf DEF Start, Idle, OthersSame, CanStart, Committing

LEMMA CreateKBAcks ==
    ASSUME KInv, AckInv, NEW p \in Procs, NEW k \in KBs, CreateKB(p, k) PROVE AckInv'
<1>1. /\ CanStart(p) /\ UNCHANGED <<mode, disk, acked>>
      /\ Start(p, "create", k, AnyDoc, "createSave", NoDocs)
  BY DEF CreateKB, observers
<1>2. mem'.kbs = mem.kbs \cup {k} /\ mem'.doc = mem.doc
  BY DEF CreateKB, KInv, KTypes, States
<1>3. ASSUME NEW a \in acked' PROVE Shows(mem', a)
  BY <1>1, <1>2, AckedIs DEF Shows, Has
<1>4. /\ OthersSame(p) /\ op'[p].at \notin Watched /\ op[p].at \notin Committing
  BY <1>1, StartsAlone, WatchedSteps
<1> QED BY <1>1, <1>3, <1>4, AckBase

\* The documents of a knowledge base that goes are not reported any more.
LEMMA WithoutShows ==
    ASSUME KInv, AckInv, NEW k \in KBs, mem' = Without(mem, k), Forget(k)
    PROVE  acked' \subseteq acked /\ \A a \in acked' : Shows(mem', a)
<1>1. /\ mem'.kbs = mem.kbs \ {k}
      /\ \A j \in KBs, d \in Docs : mem'.doc[j][d] = IF j = k THEN NoDoc ELSE mem.doc[j][d]
  BY WithoutIs DEF KInv, KTypes
<1>2. acked' = acked \ ({k} \X Docs)
  BY DEF Forget
<1>3. ASSUME NEW a \in acked' PROVE Shows(mem', a)
  <2>1. PICK j \in KBs, d \in Docs : /\ a = <<j, d>> /\ j \in mem.kbs
                                     /\ mem.doc[j][d].status # "none" /\ mem.doc[j][d].fence # 0
    BY <1>2, <1>3, AckedIs
  <2>2. j # k
    BY <1>2, <1>3, <2>1
  <2> QED BY <1>1, <2>1, <2>2 DEF Shows, Has
<1> QED BY <1>2, <1>3

LEMMA DropKBAcks ==
    ASSUME KInv, AckInv, NEW p \in Procs, NEW k \in KBs, DropKB(p, k) PROVE AckInv'
<1>1. /\ CanStart(p) /\ UNCHANGED <<mode, disk>> /\ mem' = Without(mem, k) /\ Forget(k)
      /\ Start(p, "drop", k, AnyDoc, "dropSave", mem.doc[k])
  BY DEF DropKB
<1>2. acked' \subseteq acked /\ \A a \in acked' : Shows(mem', a)
  BY <1>1, WithoutShows
<1>3. /\ OthersSame(p) /\ op'[p].at \notin Watched /\ op[p].at \notin Committing
  BY <1>1, StartsAlone, WatchedSteps
<1> QED BY <1>1, <1>2, <1>3, AckBase

LEMMA CreateUndoAcks ==
    ASSUME KInv, AckInv, NEW p \in Procs, CreateUndo(p) PROVE AckInv'
<1>1. PICK o \in Ops : o = op[p]
  BY OpOf
<1>2. /\ o.at = "createUndo" /\ o.kb \in KBs /\ mem' = Without(mem, o.kb) /\ Forget(o.kb)
      /\ Ends(p) /\ UNCHANGED <<mode, disk>>
  BY <1>1, OpFields, EndsReturn DEF CreateUndo
<1>3. acked' \subseteq acked /\ \A a \in acked' : Shows(mem', a)
  BY <1>2, WithoutShows
<1>4. op[p].at # "idle" /\ op[p].at \notin Committing
  BY <1>1, <1>2 DEF Committing
<1> QED BY <1>2, <1>3, <1>4, WatchedSteps, AckBase DEF Ends

\* The copy of the knowledge base shows what was reported, or nothing of it was.
LEMMA PutsBackAcks ==
    ASSUME KInv, AckInv, NEW p \in Procs, DeleteUndo(p) \/ DropUndo(p) PROVE AckInv'
<1>1. PICK o \in Ops : o = op[p]
  BY OpOf
<1>2. /\ o.at \in {"deleteUndo", "dropUndo"} /\ UNCHANGED <<mode, disk, acked>> /\ Ends(p)
      /\ mem' = [mem EXCEPT !.kbs = @ \cup {o.kb}, !.doc[o.kb] = o.snap]
      /\ o.kb \in KBs
  BY <1>1, OpFields, EndsReturn DEF DeleteUndo, DropUndo, observers
<1>3. /\ mem'.kbs = mem.kbs \cup {o.kb}
      /\ \A k \in KBs, d \in Docs :
             mem'.doc[k][d] = IF k = o.kb THEN o.snap[d] ELSE mem.doc[k][d]
  <2>1. mem.doc \in [KBs -> [Docs -> DocRecs]] /\ mem = [kbs |-> mem.kbs, doc |-> mem.doc]
    BY DEF KInv, KTypes, States
  <2>2. mem' = [kbs |-> mem.kbs \cup {o.kb}, doc |-> [mem.doc EXCEPT ![o.kb] = o.snap]]
    BY <1>2, <2>1
  <2> QED BY <1>2, <2>1, <2>2
<1>4. Kept(o) /\ OpSound(o) /\ o.at # "idle"
  <2>1. o.at \in Undoing
    BY <1>2 DEF Undoing
  <2> QED BY <1>1, <2>1, UndoKept, UndoAlone
<1>5. ASSUME NEW a \in acked' PROVE Shows(mem', a)
  <2>1. PICK k \in KBs, d \in Docs : /\ a = <<k, d>> /\ k \in mem.kbs
                                     /\ mem.doc[k][d].status # "none" /\ mem.doc[k][d].fence # 0
    BY <1>2, <1>5, AckedIs
  <2>2. CASE k = o.kb
    <3>1. o.at = "deleteUndo"
      BY <1>2, <1>4, <2>1, <2>2 DEF OpSound, Dropped, Dropping
    <3>2. ShowsIn(o.snap, d)
      BY <1>2, <1>4, <1>5, <2>1, <2>2, <3>1 DEF Kept, Undeletes
    <3> QED BY <1>3, <2>1, <2>2, <3>2 DEF ShowsIn, Shows, Has
  <2>3. CASE k # o.kb
    BY <1>3, <2>1, <2>3 DEF Shows, Has
  <2> QED BY <2>2, <2>3
<1>6. op[p].at # "idle" /\ op[p].at \notin Committing
  BY <1>1, <1>2 DEF Committing
<1> QED BY <1>2, <1>5, <1>6, WatchedSteps, AckBase DEF Ends

\* A crash takes back what was only committed in memory.
LEMMA CrashAcks ==
    ASSUME KInv, AckInv, CrashRestart PROVE AckInv'
<1>1. /\ disk' = mem' /\ op' = [p \in Procs |-> Idle] /\ mode' = mode
      /\ acked' = {a \in acked : Shows(disk, a) \/ ~Pending(a)}
  BY DEF CrashRestart
<1>2. mem'.doc = disk.doc /\ disk.kbs \subseteq mem'.kbs
  BY DEF CrashRestart, KInv, KTypes, States
<1>3. ASSUME NEW a \in acked' PROVE Shows(mem', a)
  <2>1. Shows(disk, a)
    BY <1>1, <1>3 DEF AckInv, AckedKept
  <2> QED BY <1>2, <2>1 DEF Shows, Has
<1>4. AckedKept'
  BY <1>1, <1>3 DEF AckedKept, Shows, Has
<1>5. acked' \subseteq KBs \X Docs
  BY <1>1 DEF AckInv
<1>6. ASSUME NEW q \in Procs PROVE Kept(op[q])'
  <2>1. op'[q] = Idle /\ Idle.at \notin Watched
    BY <1>1, IdleOp, WatchedSteps
  <2> QED BY <2>1, Unwatched, KeptIs
<1> QED BY <1>4, <1>5, <1>6 DEF AckInv

LEMMA OtherSaveAcks == ASSUME KInv, AckInv, OtherSave PROVE AckInv'
<1>1. disk' = mem /\ UNCHANGED <<mode, mem, op, acked>> /\ mode # "faultySaves"
  BY DEF OtherSave, Save, observers, Overlaps
<1>2. AckedKept'
  BY <1>1 DEF AckInv, AckedKept, Shows, Has
<1> QED BY <1>1, <1>2 DEF AckInv

LEMMA SameAcks == ASSUME KInv, AckInv, UNCHANGED vars PROVE AckInv'
<1>1. UNCHANGED <<mode, mem, disk, op, acked>>
  BY DEF vars, observers
<1>2. AckedKept'
  BY <1>1 DEF AckInv, AckedKept, Shows, Has, Pending
<1>3. ASSUME mode = "faultySaves", NEW q \in Procs PROVE Kept(op[q])'
  <2>1. PICK r : r = op[q]
    OBVIOUS
  <2>2. Kept(r) /\ op'[q] = r
    BY <1>1, <1>3, <2>1 DEF AckInv
  <2>3. Young(r)' /\ Saved(r)' /\ Unseen(r)'
    BY <1>1, <2>2 DEF Kept, Young, Saved, Unseen, Shows, Has, OwnDoc
  <2>4. PutsShown(r)' /\ Uncommits(r)' /\ Undeletes(r)'
    BY <1>1, <2>2 DEF Kept, PutsShown, Uncommits, Undeletes, ShowsIn, Shows, Has, OwnDoc
  <2> QED BY <2>2, <2>3, <2>4, KeptIs DEF Kept
<1>4. mode' = "faultySaves" => \A q \in Procs : Kept(op[q])'
  BY <1>1, <1>3
<1> QED BY <1>1, <1>2, <1>4 DEF AckInv

LEMMA AckInit == ASSUME Init, mode # "both" PROVE AckInv
<1>1. acked = {First} \X Indexed /\ disk = mem /\ acked \subseteq KBs \X Docs
  BY KnowledgeConstants DEF Init
<1>2. ASSUME NEW d \in Indexed PROVE Shows(mem, <<First, d>>)
  BY KnowledgeConstants DEF Init, Shows, Has
<1>3. AckedKept
  BY <1>1, <1>2 DEF AckedKept
<1>4. ASSUME NEW q \in Procs PROVE Kept(op[q])
  <2>1. op[q].at \notin Watched
    BY IdleOp, WatchedSteps DEF Init
  <2> QED BY <2>1 DEF Kept, Young, Saved, Unseen, PutsShown, Uncommits, Undeletes, Watched, Putting
<1> QED BY <1>1, <1>3, <1>4 DEF AckInv

LEMMA StepAcks == ASSUME KInv, AckInv, NEW p \in Procs, Step(p) PROVE AckInv'
<1>1. CASE \E k \in KBs, d \in Docs : StartIndex(p, k, d) \/ StartOnDocument(p, k, d)
  BY <1>1, StartAcks
<1>2. CASE Reserve(p) \/ Begin(p) \/ BeginSave(p) \/ BeginUndo(p) \/ UndoSave(p)
  BY <1>2, ReserveAcks, BeginAcks, BeginSaveAcks, BeginUndoAcks, SavesAcks
<1>3. CASE Work(p) \/ EnsureCollection(p) \/ Scroll(p) \/ Upsert(p) \/ Capture(p)
  BY <1>3, WorkAcks
<1>4. CASE Commit(p) \/ CommitSave(p) \/ CommitUndo(p)
  BY <1>4, CommitAcks, SavesAcks, CommitUndoAcks
<1>5. CASE AbortPoints(p) \/ AbortContent(p) \/ RetirePoints(p) \/ RetireContent(p)
  BY <1>5, WorkAcks, AbortContentAcks, RetireAcks
<1>6. CASE Fail(p) \/ FailSave(p) \/ FailUndo(p) \/ Cancel(p)
  BY <1>6, FailAcks, SavesAcks, FailUndoAcks, CancelAcks
<1>7. CASE \/ DeletePoints(p) \/ DeleteRemove(p) \/ DeleteSave(p) \/ DeleteUndo(p)
           \/ DeleteContent(p)
  BY <1>7, RetireAcks, DeleteRemoveAcks, SavesAcks, PutsBackAcks
<1>8. CASE \E k \in KBs : CreateKB(p, k) \/ DropKB(p, k)
  BY <1>8, CreateKBAcks, DropKBAcks
<1>9. CASE CreateSave(p) \/ CreateCollection(p) \/ CreateUndo(p)
  BY <1>9, SavesAcks, RetireAcks, CreateUndoAcks
<1>10. CASE DropSave(p) \/ DropUndo(p) \/ DropCollection(p) \/ DropContent(p)
  BY <1>10, SavesAcks, PutsBackAcks, RetireAcks
<1> QED BY <1>1, <1>2, <1>3, <1>4, <1>5, <1>6, <1>7, <1>8, <1>9, <1>10 DEF Step

LEMMA NextAcks == ASSUME KInv, AckInv, [Next]_vars PROVE AckInv'
<1>1. CASE \E p \in Procs : Step(p)
  BY <1>1, StepAcks
<1>2. CASE OtherSave \/ CrashRestart
  BY <1>2, OtherSaveAcks, CrashAcks
<1>3. CASE UNCHANGED vars
  BY <1>3, SameAcks
<1> QED BY <1>1, <1>2, <1>3 DEF Next, Rest

\* What was reported as indexed stays shown, in memory and, once its commit is
\* saved, in the file, whatever undo or restart comes after.
THEOREM ReportedStays == Spec /\ mode # "both" => []AckedKept
<1>1. Init /\ mode # "both" => KInv /\ AckInv
  BY InitSound, AckInit
<1>2. KInv /\ AckInv /\ [Next]_vars => KInv' /\ AckInv'
  BY NextSound, NextAcks
<1>3. AckInv => AckedKept
  BY DEF AckInv
<1> QED BY <1>1, <1>2, <1>3, PTL DEF Spec
-----------------------------------------------------------------------------
(* The types *)

SideTypes ==
    /\ collections \subseteq KBs /\ cut \subseteq Gens /\ leaked \subseteq Gens
    /\ spent \in [{"save", "fault"} -> Nat]

LEMMA SpentTypes ==
    ASSUME SideTypes, Fault \/ Save \/ SaveFails \/ UNCHANGED spent
    PROVE  spent' \in [{"save", "fault"} -> Nat]
BY DEF SideTypes, Fault, Save, SaveFails

LEMMA HeldTypes ==
    ASSUME KInv, NEW p \in Procs, NEW fs, fs \subseteq Fences PROVE Held(p, fs) \subseteq Gens
<1>1. op[p].kb \in KBs /\ op[p].doc \in Docs
  BY OpOf, OpFields
<1> QED BY <1>1 DEF Held, Gen, Gens

LEMMA LeaveTypes ==
    ASSUME KInv, SideTypes, NEW p \in Procs, NEW left, left \subseteq Gens, Leave(p, left)
    PROVE  leaked' \subseteq Gens
<1>1. Held(p, {op[p].superseded}) \subseteq Gens
  BY OpOf, OpFields, HeldTypes
<1> QED BY <1>1 DEF Leave, SideTypes

\* A step that writes none of the four, but for the faults it counts.
LEMMA SideSame ==
    ASSUME SideTypes, UNCHANGED <<collections, cut, leaked>>,
           Fault \/ Save \/ SaveFails \/ UNCHANGED spent
    PROVE  SideTypes'
BY SpentTypes DEF SideTypes

LEMMA WriteTypes ==
    ASSUME KInv, SideTypes, NEW p \in Procs,
           \/ Work(p) \/ EnsureCollection(p) \/ Scroll(p) \/ Upsert(p) \/ Capture(p)
           \/ CreateCollection(p)
    PROVE  SideTypes'
<1>1. op[p].kb \in KBs
  BY OpOf, OpFields
<1>2. UNCHANGED <<cut, leaked>> /\ (Fault \/ UNCHANGED spent)
  BY DEF Work, EnsureCollection, Scroll, Upsert, Capture, CreateCollection, observers
<1>3. collections' \in {collections, collections \cup {op[p].kb}}
  BY DEF Work, EnsureCollection, Scroll, Upsert, Capture, CreateCollection, stores
<1> QED BY <1>1, <1>2, <1>3, SpentTypes DEF SideTypes

LEMMA RemoveTypes ==
    ASSUME KInv, SideTypes, NEW p \in Procs,
           \/ AbortPoints(p) \/ RetirePoints(p) \/ DeletePoints(p) \/ DropCollection(p)
           \/ RetireContent(p) \/ DeleteContent(p) \/ DropContent(p)
    PROVE  SideTypes'
<1>1. points \subseteq Gens /\ contents \subseteq Gens
  BY DEF KInv, KTypes
<1>2. Fault \/ UNCHANGED spent
  BY DEF AbortPoints, RetirePoints, DeletePoints, DropCollection, RetireContent, DeleteContent,
     DropContent
<1>3. collections' \subseteq collections
  BY DEF AbortPoints, RetirePoints, DeletePoints, DropCollection, RetireContent, DeleteContent,
     DropContent
<1>4. cut' \subseteq cut \cup points /\ leaked' \subseteq leaked \cup points \cup contents
  <2>1. CASE AbortPoints(p) \/ RetirePoints(p)
    BY <2>1 DEF AbortPoints, RetirePoints
  <2>2. CASE DeletePoints(p) \/ DropCollection(p)
    BY <2>2 DEF DeletePoints, DropCollection
  <2>3. CASE RetireContent(p) \/ DeleteContent(p) \/ DropContent(p)
    BY <2>3 DEF RetireContent, DeleteContent, DropContent
  <2> QED BY <2>1, <2>2, <2>3
<1> QED BY <1>1, <1>2, <1>3, <1>4, SpentTypes DEF SideTypes

\* Steps after which an attempt may return.
LEMMA ReturnTypes ==
    ASSUME KInv, SideTypes, NEW p \in Procs,
           AbortContent(p) \/ UndoSave(p) \/ Fail(p) \/ FailSave(p) \/ FailUndo(p)
    PROVE  SideTypes'
<1>1. UNCHANGED <<collections, cut>> /\ (Fault \/ Save \/ SaveFails \/ UNCHANGED spent)
  BY DEF AbortContent, UndoSave, Fail, FailSave, FailUndo, stores
<1>2. contents \subseteq Gens
  BY DEF KInv, KTypes
<1>3. leaked' \subseteq leaked \cup contents \/ \E left \in SUBSET Gens : Leave(p, left)
  BY <1>2 DEF AbortContent, UndoSave, Fail, FailSave, FailUndo
<1>4. leaked' \subseteq Gens
  BY <1>2, <1>3, LeaveTypes DEF SideTypes
<1> QED BY <1>1, <1>4, SpentTypes DEF SideTypes

LEMMA OtherTypes ==
    ASSUME KInv, SideTypes, NEW p \in Procs,
           \/ \E k \in KBs, d \in Docs : StartIndex(p, k, d) \/ StartOnDocument(p, k, d)
           \/ Reserve(p) \/ Begin(p) \/ BeginSave(p) \/ BeginUndo(p)
           \/ Commit(p) \/ CommitSave(p) \/ CommitUndo(p) \/ Cancel(p)
           \/ DeleteRemove(p) \/ DeleteSave(p) \/ DeleteUndo(p)
           \/ \E k \in KBs : CreateKB(p, k) \/ DropKB(p, k)
           \/ CreateSave(p) \/ DropSave(p) \/ DropUndo(p)
    PROVE  SideTypes'
<1>1. UNCHANGED <<collections, cut, leaked>>
  BY DEF StartIndex, StartOnDocument, Reserve, Begin, BeginSave, BeginUndo, Commit, CommitSave,
     CommitUndo, Cancel, DeleteRemove, DeleteSave, DeleteUndo, CreateKB, DropKB, CreateSave,
     DropSave, DropUndo, stores, observers
<1>2. Fault \/ Save \/ SaveFails \/ UNCHANGED spent
  BY DEF StartIndex, StartOnDocument, Reserve, Begin, BeginSave, BeginUndo, Commit, CommitSave,
     CommitUndo, Cancel, DeleteRemove, DeleteSave, DeleteUndo, CreateKB, DropKB, CreateSave,
     DropSave, DropUndo, SaveThen
<1> QED BY <1>1, <1>2, SideSame

LEMMA StepTypes == ASSUME KInv, SideTypes, NEW p \in Procs, Step(p) PROVE SideTypes'
<1>1. CASE CreateUndo(p)
  <2>1. UNCHANGED <<collections, cut, spent>> /\ leaked' \subseteq leaked \cup points \cup contents
    BY <1>1 DEF CreateUndo, stores
  <2> QED BY <2>1 DEF SideTypes, KInv, KTypes
<1> QED BY <1>1, WriteTypes, RemoveTypes, ReturnTypes, OtherTypes DEF Step

LEMMA NextTypes == ASSUME KInv, SideTypes, [Next]_vars PROVE SideTypes'
<1>1. CASE \E p \in Procs : Step(p)
  BY <1>1, StepTypes
<1>2. CASE OtherSave \/ UNCHANGED vars
  <2>1. UNCHANGED <<collections, cut, leaked>> /\ (Save \/ UNCHANGED spent)
    BY <1>2 DEF OtherSave, vars, stores, observers
  <2> QED BY <2>1, SideSame
<1>3. CASE CrashRestart
  <2>1. /\ collections' = collections \cup mem'.kbs /\ UNCHANGED cut /\ Fault
        /\ leaked' \subseteq leaked \cup points \cup contents
    BY <1>3 DEF CrashRestart
  <2>2. mem'.kbs \subseteq KBs
    BY <1>3 DEF CrashRestart, KInv, KTypes, States
  <2> QED BY <2>1, <2>2, SpentTypes DEF SideTypes, KInv, KTypes
<1> QED BY <1>1, <1>2, <1>3 DEF Next, Rest

\* What a behaviour allows does not change.
LEMMA ModeSame == ASSUME [Next]_vars PROVE mode' = mode
<1>1. ASSUME NEW p \in Procs, Step(p) PROVE mode' = mode
  BY <1>1 DEF Step, StartIndex, StartOnDocument, Reserve, Begin, BeginSave, BeginUndo, UndoSave,
     Work, EnsureCollection, Scroll, Upsert, Capture, Commit, CommitSave, CommitUndo, AbortPoints,
     AbortContent, RetirePoints, RetireContent, Fail, FailSave, FailUndo, Cancel, DeletePoints,
     DeleteRemove, DeleteSave, DeleteUndo, DeleteContent, CreateKB, DropKB, CreateSave,
     CreateCollection, CreateUndo, DropSave, DropUndo, DropCollection, DropContent
<1> QED BY <1>1 DEF Next, Rest, OtherSave, CrashRestart, vars

\* Every variable keeps its type.
THEOREM TypesKept == Spec /\ mode # "both" => []TypeOK
<1>1. Init /\ mode # "both" => KInv /\ AckInv /\ SideTypes /\ mode \in Modes
  <2>1. Init => SideTypes /\ mode \in Modes
    BY KnowledgeConstants DEF Init, SideTypes
  <2> QED BY <2>1, InitSound, AckInit
<1>2. /\ KInv /\ AckInv /\ SideTypes /\ mode \in Modes /\ [Next]_vars
      => (KInv /\ AckInv /\ SideTypes /\ mode \in Modes)'
  <2> SUFFICES ASSUME KInv, AckInv, SideTypes, mode \in Modes, [Next]_vars
               PROVE  (KInv /\ AckInv /\ SideTypes /\ mode \in Modes)'
    OBVIOUS
  <2>1. KInv' /\ AckInv' /\ SideTypes'
    BY NextSound, NextAcks, NextTypes
  <2>2. mode' = mode
    BY ModeSame
  <2> QED BY <2>1, <2>2
<1>3. KInv /\ AckInv /\ SideTypes /\ mode \in Modes => TypeOK
  <2> SUFFICES ASSUME KInv, AckInv, SideTypes, mode \in Modes PROVE TypeOK
    OBVIOUS
  <2>1. failed \subseteq Fences
    <3>1. failed \subseteq 1..fences /\ fences \in Nat /\ fences <= MaxFence
      BY FenceNumbers DEF KInv, Global, KTypes
    <3> QED BY <3>1, KnowledgeConstants DEF Fences
  <2> QED BY <2>1 DEF TypeOK, KInv, KTypes, AckInv, SideTypes
<1> QED BY <1>1, <1>2, <1>3, PTL DEF Spec
=============================================================================
