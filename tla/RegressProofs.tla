--------------------------- MODULE RegressProofs ----------------------------
(***************************************************************************)
(* RegressOnlyByOrphan, whatever the adapter knows of the baseline: a      *)
(* commit below the committed position is an orphan's, before the epoch's  *)
(* own first record is ingested.                                           *)
(***************************************************************************)
EXTENDS CommitLogProofs

(* For the steps that name no prover: time enough on a slow machine.       *)
USE SMTT(30), ZenonT(30)

-----------------------------------------------------------------------------
(* Which items a tracker holds after an operator, and what the operator    *)
(* leaves alone.                                                           *)

(* Ingest adds at most the item, and a First record lifts the baseline to  *)
(* its own offset.  (processCommit, checkAndAdvance)                       *)
LEMMA ProcessCommitHolds ==
  ASSUME NEW t \in Tracker, NEW w \in WorkItem, w.previousOffset < w.offset
  PROVE  LET u == ProcessCommit(t, w)
         IN  /\ Held(u) \subseteq Held(t) \cup {w}
             /\ u.lastCommittedOffset = t.lastCommittedOffset
             /\ w.first => w.offset <= u.committedPlusOne
<1> DEFINE b == IF w.first /\ w.offset >= t.committedPlusOne THEN w.offset ELSE t.committedPlusOne
           raised == [t EXCEPT !.committedPlusOne = b]
           u == CheckAndAdvance(raised, w)
<1>1. ProcessCommit(t, w) = u
  BY DEF ProcessCommit
<1>2. /\ raised \in Tracker /\ Held(raised) = Held(t)
      /\ raised.ready = t.ready /\ raised.gapBuffer = t.gapBuffer
      /\ raised.lastCommittedOffset = t.lastCommittedOffset
      /\ w.first => w.offset <= raised.committedPlusOne
  BY DEF Tracker, WorkItem, Held
<1> HIDE DEF raised, u
<1>3. CASE BecomesReady(raised, w, u)
  <2>1. PICK flag \in BOOLEAN : u = [raised EXCEPT !.ready = {w}, !.needsGapAdvance = flag]
    BY <1>3, Zenon DEF BecomesReady
  <2>2. /\ u.ready = {w} /\ u.gapBuffer = raised.gapBuffer
        /\ u.committedPlusOne = raised.committedPlusOne
        /\ u.lastCommittedOffset = raised.lastCommittedOffset
    BY <1>2, <2>1 DEF Tracker
  <2>3. QED
    BY <1>1, <1>2, <2>2 DEF Held
<1>4. CASE IsBuffered(raised, w, u)
  <2>1. PICK flag \in BOOLEAN :
          u = [raised EXCEPT !.gapBuffer = @ \cup {w}, !.needsGapAdvance = flag]
    BY <1>4, Zenon DEF IsBuffered
  <2>2. /\ u.ready = raised.ready /\ u.gapBuffer = raised.gapBuffer \cup {w}
        /\ u.committedPlusOne = raised.committedPlusOne
        /\ u.lastCommittedOffset = raised.lastCommittedOffset
    BY <1>2, <2>1 DEF Tracker
  <2>3. QED
    BY <1>1, <1>2, <2>2 DEF Held
<1>5. CASE u = raised
  BY <1>1, <1>2, <1>5
<1>6. QED
  BY <1>2, <1>3, <1>4, <1>5, CheckAndAdvanceCases DEF u

(* A flush holds nothing new.  (flushGapBuffers)                           *)
LEMMA FlushHolds ==
  ASSUME NEW t \in Tracker
  PROVE  /\ Held(FlushGapBuffer(t)) \subseteq Held(t)
         /\ FlushGapBuffer(t).lastCommittedOffset = t.lastCommittedOffset
<1>1. CASE FlushGapBuffer(t) = t
  BY <1>1
<1>2. ASSUME NEW kept \in SUBSET t.gapBuffer,
             FlushGapBuffer(t) =
               [t EXCEPT !.needsGapAdvance = FALSE, !.ready = FlushedReady(t), !.gapBuffer = kept]
      PROVE  /\ Held(FlushGapBuffer(t)) \subseteq Held(t)
             /\ FlushGapBuffer(t).lastCommittedOffset = t.lastCommittedOffset
  <2>1. /\ FlushGapBuffer(t).ready = FlushedReady(t) /\ FlushGapBuffer(t).gapBuffer = kept
        /\ FlushGapBuffer(t).lastCommittedOffset = t.lastCommittedOffset
    BY <1>2 DEF Tracker
  <2>2. QED
    BY <2>1, FlushedReadyType DEF Held
<1>3. QED
  BY <1>1, <1>2, FlushShape, Zenon

(* Nor does a tick.  (repairSuccessor, discardOrphanedTracker, and the     *)
(* discard of a stale Ready)                                               *)
LEMMA PrepareHolds ==
  ASSUME NEW t \in Tracker, NEW isAssigned \in BOOLEAN, NEW twin
  PROVE  LET u == PrepareCommit(t, isAssigned, twin)
         IN  /\ Held(u) \subseteq Held(t)
             /\ u.lastCommittedOffset = t.lastCommittedOffset
<1> DEFINE f == FlushGapBuffer(t)
           v == RepairSuccessor(f, twin)
<1>1. /\ f \in Tracker /\ Held(f) \subseteq Held(t)
      /\ f.lastCommittedOffset = t.lastCommittedOffset
  BY FlushType, FlushHolds
<1> HIDE DEF f
<1>2. Held(v) \subseteq Held(f) /\ v.lastCommittedOffset = f.lastCommittedOffset
  BY <1>1 DEF RepairSuccessor, Successor, Held, Tracker
<1>3. v \in Tracker
  BY <1>1, RepairType
<1> HIDE DEF v
<1>4. /\ Held(DropStaleReady(v)) \subseteq Held(v)
      /\ DropStaleReady(v).lastCommittedOffset = v.lastCommittedOffset
  BY <1>3 DEF DropStaleReady, Held, Tracker
<1>5. /\ Held(DiscardOrphanedTracker(f)) \subseteq Held(f)
      /\ DiscardOrphanedTracker(f).lastCommittedOffset = f.lastCommittedOffset
  BY <1>1 DEF DiscardOrphanedTracker, Held, Tracker
<1>6. PrepareCommit(t, isAssigned, twin) =
        IF isAssigned THEN DropStaleReady(v) ELSE DiscardOrphanedTracker(f)
  BY DEF PrepareCommit, f, v
<1>7. QED
  BY <1>1, <1>2, <1>4, <1>5, <1>6

(* Nor does an accepted commit.  (CommitOffsets)                           *)
LEMMA CommitSucceededHolds ==
  ASSUME NEW t \in Tracker
  PROVE  Held(CommitSucceeded(t)) \subseteq Held(t)
<1>1. CASE t.ready = {}
  BY <1>1 DEF CommitSucceeded
<1>2. CASE t.ready # {}
  BY <1>2 DEF CommitSucceeded, Held, Tracker
<1>3. QED
  BY <1>1, <1>2

-----------------------------------------------------------------------------
(* Trackers stay what the loops of a tick are verified for.                *)

Fits(t) == IsTracker(t, MaxOffset, MaxEpoch)

(* A tracker that holds no more items, with a baseline at least as high.   *)
LEMMA FitsShrinks ==
  ASSUME NEW t \in Tracker, NEW u \in Tracker, Fits(t),
         Held(u) \subseteq Held(t), u.ready \cap u.gapBuffer = {}, \A v, w \in u.ready : v = w,
         u.lastCommittedOffset \in {t.lastCommittedOffset, -1},
         u.committedPlusOne \in -1 .. MaxOffset + 1,
         u.lastCommittedOffset = -1 \/ u.committedPlusOne >= t.committedPlusOne
  PROVE  Fits(u)
<1>1. /\ \A w \in Held(u) : /\ w.offset \in 0 .. MaxOffset /\ w.readTime \in 1 .. MaxEpoch
                            /\ w.previousOffset \in -1 .. w.offset - 1
      /\ \A v, w \in Held(u) : v.offset = w.offset /\ v.readTime = w.readTime => v = w
  BY Zenon DEF Fits, IsTracker
<1>2. /\ u.lastCommittedOffset \in -1 .. MaxOffset
      /\ u.lastCommittedOffset >= 0 => u.lastCommittedOffset < u.committedPlusOne
  BY OffsetAssumption DEF Fits, IsTracker
<1>3. QED
  BY <1>1, <1>2 DEF Fits, IsTracker

(* Ingest of an item the tracker does not hold, nor a copy of.             *)
(* (processCommit)                                                         *)
LEMMA ProcessCommitFits ==
  ASSUME NEW t \in Tracker, NEW w \in WorkItem, Fits(t), w \notin Held(t),
         w.offset \in 0 .. MaxOffset, w.readTime \in 1 .. MaxEpoch,
         w.previousOffset \in -1 .. w.offset - 1,
         \A v \in Held(t) : ~ (v.offset = w.offset /\ v.readTime = w.readTime)
  PROVE  Fits(ProcessCommit(t, w))
<1> DEFINE b == IF w.first /\ w.offset >= t.committedPlusOne THEN w.offset ELSE t.committedPlusOne
           raised == [t EXCEPT !.committedPlusOne = b]
           u == CheckAndAdvance(raised, w)
<1>1. ProcessCommit(t, w) = u
  BY DEF ProcessCommit
<1>2. /\ raised \in Tracker /\ raised.ready = t.ready /\ raised.gapBuffer = t.gapBuffer
      /\ raised.lastCommittedOffset = t.lastCommittedOffset
      /\ raised.committedPlusOne \in -1 .. MaxOffset + 1
      /\ raised.committedPlusOne >= t.committedPlusOne
  BY OffsetAssumption DEF Tracker, WorkItem, Fits, IsTracker
<1> HIDE DEF raised, u
<1>3. t.ready \cap t.gapBuffer = {} /\ \A v, x \in t.ready : v = x
  BY DEF Fits, IsTracker
<1>4. Fits(raised)
  BY <1>2, <1>3, FitsShrinks DEF Held
<1>5. ASSUME u.ready \cup u.gapBuffer \subseteq Held(t) \cup {w}, u.ready \cap u.gapBuffer = {},
             \A v, x \in u.ready : v = x,
             u.lastCommittedOffset = raised.lastCommittedOffset,
             u.committedPlusOne = raised.committedPlusOne
      PROVE  Fits(u)
  <2>1. Held(u) \subseteq Held(t) \cup {w}
    BY <1>5 DEF Held
  <2>2. \A x \in Held(u) : /\ x.offset \in 0 .. MaxOffset /\ x.readTime \in 1 .. MaxEpoch
                           /\ x.previousOffset \in -1 .. x.offset - 1
    BY <2>1, Zenon DEF Fits, IsTracker
  <2>3. \A v, x \in Held(u) : v.offset = x.offset /\ v.readTime = x.readTime => v = x
    BY <2>1, Zenon DEF Fits, IsTracker
  <2>4. QED
    BY <1>4, <1>5, <2>2, <2>3, Zenon DEF Fits, IsTracker
<1>6. CASE BecomesReady(raised, w, u)
  <2>1. PICK flag \in BOOLEAN : u = [raised EXCEPT !.ready = {w}, !.needsGapAdvance = flag]
    BY <1>6, Zenon DEF BecomesReady
  <2>2. /\ u.ready = {w} /\ u.gapBuffer = raised.gapBuffer
        /\ u.committedPlusOne = raised.committedPlusOne
        /\ u.lastCommittedOffset = raised.lastCommittedOffset
    BY <1>2, <2>1 DEF Tracker
  <2>3. QED
    BY <1>1, <1>2, <1>3, <1>5, <2>2 DEF Held
<1>7. CASE IsBuffered(raised, w, u)
  <2>1. PICK flag \in BOOLEAN :
          u = [raised EXCEPT !.gapBuffer = @ \cup {w}, !.needsGapAdvance = flag]
    BY <1>7, Zenon DEF IsBuffered
  <2>2. /\ u.ready = raised.ready /\ u.gapBuffer = raised.gapBuffer \cup {w}
        /\ u.committedPlusOne = raised.committedPlusOne
        /\ u.lastCommittedOffset = raised.lastCommittedOffset
    BY <1>2, <2>1 DEF Tracker
  <2>3. QED
    BY <1>1, <1>2, <1>3, <1>5, <2>2 DEF Held
<1>8. CASE u = raised
  BY <1>1, <1>4, <1>8
<1>9. QED
  BY <1>2, <1>6, <1>7, <1>8, CheckAndAdvanceCases DEF u

(* The compact leaves one item per offset.  (sortGapBuffer)                *)
LEMMA DedupedUnique ==
  ASSUME NEW t \in Tracker, Fits(t), NEW v \in Deduped(t.gapBuffer), NEW w \in Deduped(t.gapBuffer),
         v.offset = w.offset
  PROVE  v = w
<1>1. v \in Held(t) /\ w \in Held(t) /\ v.readTime <= w.readTime /\ w.readTime <= v.readTime
  BY DEF Deduped, Held
<1>2. v.readTime = w.readTime
  BY <1>1 DEF Fits, IsTracker
<1>3. QED
  BY <1>1, <1>2, Zenon DEF Fits, IsTracker

(* A flush takes one item into Ready and drops it from the buffer.         *)
(* (flushGapBuffers)                                                       *)
LEMMA FlushFits ==
  ASSUME NEW t \in Tracker, Fits(t)
  PROVE  Fits(FlushGapBuffer(t))
<1> DEFINE f == FlushGapBuffer(t)
           buffer == Deduped(t.gapBuffer)
           start == WalkStart(t, buffer)
           reached == UNION {Reached(buffer, s.offset) : s \in start}
           ready == Highest(start \cup reached)
           kept == IF start = {} THEN {g \in buffer : g.offset >= t.committedPlusOne}
                   ELSE {g \in buffer : \A r \in ready : g.offset > r.offset}
<1>1. CASE ~t.needsGapAdvance
  BY <1>1 DEF FlushGapBuffer
<1>2. CASE t.needsGapAdvance
  <2>1. f = [t EXCEPT !.needsGapAdvance = FALSE, !.ready = ready, !.gapBuffer = kept]
    BY <1>2 DEF FlushGapBuffer
  <2>2. /\ f.ready = ready /\ f.gapBuffer = kept
        /\ f.committedPlusOne = t.committedPlusOne
        /\ f.lastCommittedOffset = t.lastCommittedOffset
    BY <2>1 DEF Tracker
  <2>3. f \in Tracker
    BY FlushType
  <2>4. /\ buffer \subseteq t.gapBuffer /\ reached \subseteq buffer
        /\ start \subseteq t.ready \/ (t.ready = {} /\ start \subseteq buffer)
        /\ \A w \in reached : \E s \in start : s.offset < w.offset
    BY DEF Deduped, Reached, WalkStart
  <2>5. ready \subseteq start \cup reached /\ \A v, w \in ready : v.offset <= w.offset
    BY DEF Highest
  <2>6. \A w \in Held(t) : w.offset \in Nat
    BY DEF Held, Tracker, WorkItem
  <2>7. \A v, w \in buffer : v.offset = w.offset => v = w
    BY DedupedUnique
  <2>8. \A v, w \in t.ready : v = w
    BY DEF Fits, IsTracker
  <2> HIDE DEF buffer, start, reached, ready
  <2>9. ready \cup buffer \subseteq Held(t)
    BY <2>4, <2>5 DEF Held
  <2>10. \A v, w \in ready : v.offset = w.offset /\ v.offset \in Nat
    BY <2>5, <2>6, <2>9
  <2>11. ASSUME NEW v \in ready, NEW w \in ready
         PROVE  v = w
    <3>1. CASE v \in buffer /\ w \in buffer
      BY <2>7, <2>10, <3>1
    <3>2. CASE start \subseteq t.ready
      <4>1. ASSUME NEW s \in start
            PROVE  \A x \in reached : s.offset < x.offset
        BY <2>4, <2>8, <3>2, <4>1
      <4>2. CASE v \in start /\ w \in start
        BY <2>8, <3>2, <4>2
      <4>3. CASE v \in reached \/ w \in reached
        <5>1. v \in reached /\ w \in reached
          BY <2>5, <2>10, <4>1, <4>3
        <5>2. QED
          BY <2>4, <3>1, <5>1
      <4>4. QED
        BY <2>5, <4>2, <4>3
    <3>3. CASE start \subseteq buffer
      BY <2>4, <2>5, <3>1, <3>3
    <3>4. QED
      BY <2>4, <3>2, <3>3
  <2>12. ready \cap kept = {}
    <3>1. CASE start = {}
      BY <2>4, <2>5, <3>1
    <3>2. CASE start # {}
      BY <2>10, <3>2
    <3>3. QED
      BY <3>1, <3>2
  <2>13. Held(f) \subseteq Held(t)
    BY <2>2, <2>9 DEF Held
  <2>14. f.committedPlusOne \in -1 .. MaxOffset + 1 /\ f.committedPlusOne >= t.committedPlusOne
    BY <2>2, OffsetAssumption DEF Fits, IsTracker
  <2> HIDE DEF kept, f
  <2>15. Fits(f)
    BY <2>2, <2>3, <2>11, <2>12, <2>13, <2>14, FitsShrinks
  <2>16. QED
    BY <2>15 DEF f
<1>3. QED
  BY <1>1, <1>2

(* A repair promotes one item, whichever twin its scan meets first.        *)
(* (repairSuccessor)                                                       *)
LEMMA RepairFits ==
  ASSUME NEW t \in Tracker, NEW twin, Fits(t)
  PROVE  Fits(RepairSuccessor(t, twin))
<1> DEFINE successor == Successor(t, twin)
           kept == {g \in t.gapBuffer \ successor : \A s \in successor : g.offset >= s.offset}
           u == [t EXCEPT !.ready = successor, !.gapBuffer = kept, !.needsGapAdvance = kept # {}]
<1>1. /\ successor \subseteq t.gapBuffer
      /\ \A v, w \in successor : v.offset <= w.offset
      /\ \/ \A v \in successor : v.readTime = twin
         \/ \A v, w \in successor : v.readTime <= w.readTime
  BY DEF Successor
<1>2. RepairSuccessor(t, twin) \in {t, u} /\ RepairSuccessor(t, twin) \in Tracker
  BY RepairType, ZenonT(30) DEF RepairSuccessor
<1> HIDE DEF successor
<1>3. \A v, w \in successor : v = w
  <2>1. \A v \in t.gapBuffer : v \in Held(t) /\ v.offset \in Nat /\ v.readTime \in Nat
    BY DEF Held, Tracker, WorkItem
  <2>2. \A v, w \in successor : v.offset = w.offset /\ v.readTime = w.readTime
    BY <1>1, <2>1
  <2>3. QED
    BY <1>1, <2>1, <2>2, Zenon DEF Fits, IsTracker
<1>4. CASE RepairSuccessor(t, twin) = u
  <2>1. /\ u.ready = successor /\ u.gapBuffer = kept
        /\ u.committedPlusOne = t.committedPlusOne
        /\ u.lastCommittedOffset = t.lastCommittedOffset
    BY DEF Tracker
  <2>2. u \in Tracker
    BY <1>2, <1>4
  <2> HIDE DEF u
  <2>3. Held(u) \subseteq Held(t) /\ u.ready \cap u.gapBuffer = {}
    BY <1>1, <2>1 DEF Held
  <2>4. u.committedPlusOne \in -1 .. MaxOffset + 1 /\ u.committedPlusOne >= t.committedPlusOne
    BY <2>1, OffsetAssumption DEF Fits, IsTracker
  <2>5. QED
    BY <1>3, <1>4, <2>1, <2>2, <2>3, <2>4, FitsShrinks
<1>5. QED
  BY <1>2, <1>4

(* A tick prepares a tracker that fits.  (CommitOffsets' discard of a      *)
(* stale Ready, discardOrphanedTracker)                                    *)
LEMMA PrepareFits ==
  ASSUME NEW t \in Tracker, NEW isAssigned \in BOOLEAN, NEW twin, Fits(t)
  PROVE  LET u == PrepareCommit(t, isAssigned, twin) IN u \in Tracker /\ Fits(u)
<1> DEFINE f == FlushGapBuffer(t)
           v == RepairSuccessor(f, twin)
<1>1. f \in Tracker /\ Fits(f) /\ v \in Tracker /\ Fits(v)
  BY FlushType, FlushFits, RepairType, RepairFits
<1>2. PrepareCommit(t, isAssigned, twin) =
        IF isAssigned THEN DropStaleReady(v) ELSE DiscardOrphanedTracker(f)
  BY DEF PrepareCommit
<1> HIDE DEF f, v
<1>3. ASSUME NEW x \in Tracker, Fits(x), NEW u \in Tracker, u.ready = {},
             u.gapBuffer \subseteq x.gapBuffer, u.committedPlusOne = x.committedPlusOne,
             u.lastCommittedOffset = x.lastCommittedOffset
      PROVE  Fits(u)
  <2>1. Held(u) \subseteq Held(x)
    BY <1>3 DEF Held
  <2>2. u.committedPlusOne \in -1 .. MaxOffset + 1 /\ u.committedPlusOne >= x.committedPlusOne
    BY <1>3, OffsetAssumption DEF Fits, IsTracker
  <2>3. QED
    BY <1>3, <2>1, <2>2, FitsShrinks
<1>4. DropStaleReady(v) \in Tracker /\ Fits(DropStaleReady(v))
  <2> DEFINE u == DropStaleReady(v)
  <2>1. u \in Tracker
    BY <1>1, Zenon DEF DropStaleReady, Tracker
  <2>2. \/ u = v
        \/ /\ u.ready = {} /\ u.gapBuffer = v.gapBuffer /\ u.committedPlusOne = v.committedPlusOne
           /\ u.lastCommittedOffset = v.lastCommittedOffset
    BY <1>1 DEF DropStaleReady, Tracker
  <2> HIDE DEF u
  <2>3. Fits(u)
    BY <1>1, <1>3, <2>1, <2>2
  <2>4. QED
    BY <2>1, <2>3 DEF u
<1>5. DiscardOrphanedTracker(f) \in Tracker /\ Fits(DiscardOrphanedTracker(f))
  <2> DEFINE u == DiscardOrphanedTracker(f)
  <2>1. u \in Tracker
    BY <1>1, Zenon DEF DiscardOrphanedTracker, Tracker
  <2>2. \/ u = f
        \/ /\ u.ready = {} /\ u.gapBuffer = {} /\ u.committedPlusOne = f.committedPlusOne
           /\ u.lastCommittedOffset = f.lastCommittedOffset
    BY <1>1 DEF DiscardOrphanedTracker, Tracker
  <2> HIDE DEF u
  <2>3. Fits(u)
    BY <1>1, <1>3, <2>1, <2>2
  <2>4. QED
    BY <2>1, <2>3 DEF u
<1>6. QED
  BY <1>2, <1>4, <1>5

(* So does an accepted commit, and the position it leaves is one of the    *)
(* log's.  (CommitOffsets)                                                 *)
LEMMA CommitSucceededFits ==
  ASSUME NEW t \in Tracker, Fits(t)
  PROVE  /\ Fits(CommitSucceeded(t))
         /\ t.ready # {} => ReadyOffset(t) \in 0 .. MaxOffset
<1>1. CASE t.ready = {}
  BY <1>1 DEF CommitSucceeded
<1>2. CASE t.ready # {}
  <2> DEFINE u == CommitSucceeded(t)
  <2>1. ReadyOffset(t) \in 0 .. MaxOffset
    BY <1>2, ReadyOffsetIsReady DEF Fits, IsTracker, Held
  <2>2. t.committedPlusOne \in -1 .. MaxOffset + 1 /\ t.lastCommittedOffset \in -1 .. MaxOffset
    BY DEF Fits, IsTracker
  <2>3. /\ u.ready = {} /\ u.gapBuffer = t.gapBuffer
        /\ u.committedPlusOne =
             (IF ReadyOffset(t) + 1 > t.committedPlusOne THEN ReadyOffset(t) + 1 ELSE t.committedPlusOne)
        /\ u.lastCommittedOffset =
             (IF ReadyOffset(t) > t.lastCommittedOffset THEN ReadyOffset(t) ELSE t.lastCommittedOffset)
    BY <1>2 DEF CommitSucceeded, Tracker
  <2> HIDE DEF u
  <2>4. /\ u.committedPlusOne \in -1 .. MaxOffset + 1 /\ u.lastCommittedOffset \in -1 .. MaxOffset
        /\ u.lastCommittedOffset >= 0 => u.lastCommittedOffset < u.committedPlusOne
    BY <2>1, <2>2, <2>3, OffsetAssumption DEF Fits, IsTracker
  <2>5. Held(u) \subseteq Held(t)
    BY <2>3 DEF Held
  <2>6. Fits(u)
    BY <2>3, <2>4, <2>5, Zenon DEF Fits, IsTracker
  <2>7. QED
    BY <2>1, <2>6 DEF u
<1>3. QED
  BY <1>1, <1>2

(* So do the steps of a rebalance.  (ResetCommittedOffsets,                *)
(* MarkPartitionRevoked)                                                   *)
LEMMA RebalancedFits ==
  ASSUME NEW t \in Tracker, Fits(t)
  PROVE  /\ \A baseline \in -1 .. MaxOffset + 1 :
              /\ Fits(ResetCommittedOffset(t, baseline))
              /\ Held(ResetCommittedOffset(t, baseline)) \subseteq Held(t)
         /\ Fits(MarkTrackerRevoked(t)) /\ Held(MarkTrackerRevoked(t)) = Held(t)
<1>1. ASSUME NEW baseline \in -1 .. MaxOffset + 1
      PROVE  /\ Fits(ResetCommittedOffset(t, baseline))
             /\ Held(ResetCommittedOffset(t, baseline)) \subseteq Held(t)
  <2> DEFINE u == ResetCommittedOffset(t, baseline)
  <2>1. /\ u.ready \subseteq t.ready /\ u.gapBuffer \subseteq t.gapBuffer
        /\ u.committedPlusOne = baseline /\ u.lastCommittedOffset = -1
    BY DEF ResetCommittedOffset
  <2>2. u \in Tracker
    BY OffsetAssumption DEF ResetCommittedOffset, Tracker
  <2> HIDE DEF u
  <2>3. /\ Held(u) \subseteq Held(t) /\ u.ready \cap u.gapBuffer = {}
        /\ \A v, w \in u.ready : v = w
    BY <2>1 DEF Held, Fits, IsTracker
  <2>4. Fits(u)
    BY <2>1, <2>2, <2>3, FitsShrinks
  <2>5. QED
    BY <2>3, <2>4 DEF u
<1>2. Fits(MarkTrackerRevoked(t)) /\ Held(MarkTrackerRevoked(t)) = Held(t)
  <2> DEFINE u == MarkTrackerRevoked(t)
  <2>1. /\ u.ready = t.ready /\ u.gapBuffer = t.gapBuffer /\ u \in Tracker
        /\ u.committedPlusOne = t.committedPlusOne /\ u.lastCommittedOffset = t.lastCommittedOffset
    BY DEF MarkTrackerRevoked, Tracker
  <2> HIDE DEF u
  <2>2. Fits(u) /\ Held(u) = Held(t)
    BY <2>1, Zenon DEF Fits, IsTracker, Held
  <2>3. QED
    BY <2>2 DEF u
<1>3. QED
  BY <1>1, <1>2

PartitionFits(p) ==
  /\ Fits(tracker[p])
  /\ ItemsDistinct(p)
  /\ epoch[p] <= MaxEpoch
  /\ phase[p] # "unowned" => epoch[p] >= 1
  /\ brokerPos[p] <= MaxOffset + 1

FitHyp == TypeOK /\ SafetyInv /\ FitInv

(* One partition at a time.                                                *)
LEMMA FitByPartition == FitInv <=> \A p \in Partitions : PartitionFits(p)
  BY DEF FitInv, TrackersFit, PartitionFits, Fits

(* What is known of one partition.                                         *)
LEMMA FitFacts ==
  ASSUME FitHyp, NEW q \in Partitions
  PROVE  /\ PartitionFits(q) /\ tracker[q] \in Tracker /\ inflight[q] \in SUBSET WorkItem
         /\ epoch[q] \in Nat /\ fetchPos[q] \in Nat /\ brokerPos[q] \in -1 .. MaxOffset + 1
         /\ prevOffset[q] \in Nat \cup {-1}
  BY FitByPartition, OffsetAssumption DEF FitHyp, TypeOK, PartitionFits

(* Items that leave the pipeline, or move from it into the tracker, keep   *)
(* all of them distinct.                                                   *)
LEMMA DistinctShrinks ==
  ASSUME NEW q \in Partitions, ItemsDistinct(q),
         epoch'[q] = epoch[q], fetchPos'[q] = fetchPos[q], inflight'[q] \subseteq inflight[q],
         Held(tracker'[q]) \subseteq Held(tracker[q]) \cup (inflight[q] \ inflight'[q])
  PROVE  ItemsDistinct(q)'
<1> DEFINE items == inflight[q] \cup Held(tracker[q])
<1>1. inflight'[q] \cup Held(tracker'[q]) \subseteq items
  OBVIOUS
<1>2. inflight'[q] \cap Held(tracker'[q]) = {}
  BY DEF ItemsDistinct
<1>3. /\ \A v, w \in items : v.offset = w.offset /\ v.readTime = w.readTime => v = w
      /\ \A w \in items : /\ w.offset \in Records /\ w.previousOffset \in -1 .. w.offset - 1
                          /\ w.readTime \in 1 .. epoch[q]
                          /\ w.readTime = epoch[q] => w.offset < fetchPos[q]
  BY Zenon DEF ItemsDistinct
<1> HIDE DEF items
<1>4. QED
  BY <1>1, <1>2, <1>3, Zenon DEF ItemsDistinct

(* A step that leaves epochs and the pipeline alone and shrinks trackers.  *)
LEMMA TrackersFits ==
  ASSUME NEW q \in Partitions, PartitionFits(q), UNCHANGED <<epoch, phase, fetchPos, inflight>>,
         Fits(tracker'[q]), Held(tracker'[q]) \subseteq Held(tracker[q]),
         brokerPos'[q] <= MaxOffset + 1
  PROVE  PartitionFits(q)'
<1>1. ItemsDistinct(q)'
  BY DistinctShrinks DEF PartitionFits
<1>2. QED
  BY <1>1 DEF PartitionFits, Fits

(* HandleRebalance: an epoch begins with none of the items its own.        *)
LEMMA RebalanceFits ==
  ASSUME FitHyp, NEW p \in Partitions, Rebalance(p), NEW q \in Partitions
  PROVE  PartitionFits(q)'
<1>1. /\ PartitionFits(q) /\ tracker[q] \in Tracker /\ epoch[q] \in Nat
      /\ inflight[q] \in SUBSET WorkItem /\ brokerPos[q] \in -1 .. MaxOffset + 1
  BY FitFacts
<1>2. brokerPos' = brokerPos /\ inflight' = inflight
  BY DEF Rebalance, AssignReset, ResetPrevOffsets, MarkPartitionAssigned, AckAssign, BeginDrain,
         MarkPartitionRevoked, AckRevoke, brokerVars
<1>3. CASE AssignReset(p) /\ q = p
  <2>1. PICK baseline \in -1 .. MaxOffset + 1 :
          tracker'[q] = ResetCommittedOffset(tracker[q], baseline)
    BY <1>1, <1>3, OffsetAssumption DEF AssignReset, FitHyp, TypeOK
  <2>2. epoch'[q] = epoch[q] + 1 /\ epoch[q] + 1 <= MaxEpoch
    BY <1>1, <1>3, EpochAssumption DEF AssignReset, FitHyp, TypeOK
  <2>3. Fits(tracker'[q]) /\ Held(tracker'[q]) \subseteq Held(tracker[q])
    BY <1>1, <2>1, RebalancedFits DEF PartitionFits
  <2> DEFINE items == inflight[q] \cup Held(tracker[q])
  <2>4. /\ \A v, w \in items : v.offset = w.offset /\ v.readTime = w.readTime => v = w
        /\ inflight[q] \cap Held(tracker[q]) = {}
        /\ \A w \in items : /\ w.offset \in Records /\ w.previousOffset \in -1 .. w.offset - 1
                            /\ w.readTime \in 1 .. epoch[q]
    BY <1>1, Zenon DEF PartitionFits, ItemsDistinct
  <2>5. inflight'[q] \cup Held(tracker'[q]) \subseteq items /\ inflight'[q] \cap Held(tracker'[q]) = {}
    BY <1>2, <2>3, <2>4
  <2>6. \A w \in items : w.readTime \in 1 .. epoch'[q] /\ w.readTime # epoch'[q]
    BY <1>1, <2>2, <2>4
  <2> HIDE DEF items
  <2>7. ItemsDistinct(q)'
    BY <2>4, <2>5, <2>6, Zenon DEF ItemsDistinct
  <2>8. epoch'[q] >= 1 /\ epoch'[q] <= MaxEpoch /\ brokerPos'[q] <= MaxOffset + 1
    BY <1>1, <1>2, <2>2 DEF PartitionFits
  <2>9. QED
    BY <2>3, <2>7, <2>8 DEF PartitionFits, Fits
<1>4. CASE ~ (AssignReset(p) /\ q = p)
  <2>1. /\ epoch'[q] = epoch[q] /\ fetchPos'[q] = fetchPos[q]
        /\ phase'[q] # "unowned" => phase[q] # "unowned"
        /\ tracker'[q] \in {tracker[q], MarkTrackerRevoked(tracker[q])}
    BY <1>4 DEF Rebalance, AssignReset, ResetPrevOffsets, MarkPartitionAssigned, AckAssign, BeginDrain,
         MarkPartitionRevoked, AckRevoke, Enter, committerVars, readVars, FitHyp, TypeOK
  <2>2. Fits(tracker'[q]) /\ Held(tracker'[q]) = Held(tracker[q])
    BY <1>1, <2>1, RebalancedFits DEF PartitionFits
  <2>3. ItemsDistinct(q)'
    BY <1>1, <1>2, <2>1, <2>2, DistinctShrinks DEF PartitionFits
  <2>4. QED
    BY <1>1, <1>2, <2>1, <2>2, <2>3 DEF PartitionFits, Fits
<1>5. QED
  BY <1>3, <1>4

(* The record read next was not read before in this epoch.  (GetPrevious)  *)
LEMMA DeliverFits ==
  ASSUME FitHyp, NEW p \in Partitions, NEW o \in log[p], Deliver(p, o), NEW q \in Partitions
  PROVE  PartitionFits(q)'
<1>1. /\ PartitionFits(q) /\ tracker[q] \in Tracker /\ epoch[q] \in Nat /\ fetchPos[q] \in Nat
      /\ inflight[q] \in SUBSET WorkItem /\ prevOffset[q] \in Nat \cup {-1}
  BY FitFacts
<1>2. /\ brokerPos' = brokerPos /\ phase' = phase /\ epoch' = epoch /\ tracker' = tracker
  BY DEF Deliver, brokerVars, committerVars
<1>3. CASE q # p
  <2>1. inflight'[q] = inflight[q] /\ fetchPos'[q] = fetchPos[q]
    BY <1>3 DEF Deliver, FitHyp, TypeOK
  <2>2. ItemsDistinct(q)'
    BY <1>1, <1>2, <2>1, DistinctShrinks DEF PartitionFits
  <2>3. QED
    BY <1>1, <1>2, <2>2 DEF PartitionFits, Fits
<1>4. CASE q = p
  <2> DEFINE s == Stamped(q, o)
             items == inflight[q] \cup Held(tracker[q])
  <2>1. /\ inflight'[q] = inflight[q] \cup {s} /\ fetchPos'[q] = o + 1
        /\ o >= fetchPos[q] /\ phase[q] = "owned" /\ o \in Records
    BY <1>4 DEF Deliver, NextRecord, FitHyp, TypeOK
  <2>2. s.offset = o /\ s.readTime = epoch[q]
    BY DEF Stamped
  <2>3. s.previousOffset \in -1 .. o - 1
    BY <1>1, <2>1, OffsetAssumption DEF Stamped, FitHyp, SafetyInv, ReadSafe, Records
  <2>4. epoch[q] \in 1 .. epoch[q] /\ epoch[q] <= MaxEpoch /\ brokerPos[q] <= MaxOffset + 1
    BY <1>1, <2>1 DEF PartitionFits
  <2>5. /\ \A v, w \in items : v.offset = w.offset /\ v.readTime = w.readTime => v = w
        /\ inflight[q] \cap Held(tracker[q]) = {}
        /\ \A w \in items : /\ w.offset \in Records /\ w.previousOffset \in -1 .. w.offset - 1
                            /\ w.readTime \in 1 .. epoch[q]
                            /\ w.readTime = epoch[q] => w.offset < fetchPos[q]
    BY <1>1, Zenon DEF PartitionFits, ItemsDistinct
  <2>6. \A w \in items : /\ w.readTime = epoch[q] => w.offset < o /\ w.offset < o + 1
                         /\ w # s /\ ~ (w.offset = s.offset /\ w.readTime = s.readTime)
    BY <1>1, <2>1, <2>2, <2>5, OffsetAssumption DEF Records
  <2>7. o < o + 1
    BY <2>1, OffsetAssumption DEF Records
  <2> HIDE DEF s
  <2>8. inflight'[q] \cup Held(tracker'[q]) = items \cup {s}
    BY <1>2, <2>1
  <2>9. inflight'[q] \cap Held(tracker'[q]) = {}
    BY <1>2, <2>1, <2>5, <2>6
  <2>10. \A v, w \in items \cup {s} : v.offset = w.offset /\ v.readTime = w.readTime => v = w
    BY <2>5, <2>6, Zenon
  <2>11. \A w \in items \cup {s} :
           /\ w.offset \in Records /\ w.previousOffset \in -1 .. w.offset - 1
           /\ w.readTime \in 1 .. epoch[q]
           /\ w.readTime = epoch[q] => w.offset < o + 1
    BY <2>1, <2>2, <2>3, <2>4, <2>5, <2>6, <2>7, Zenon
  <2> HIDE DEF items
  <2>12. ItemsDistinct(q)'
    BY <1>2, <2>1, <2>8, <2>9, <2>10, <2>11 DEF ItemsDistinct
  <2>13. QED
    BY <1>1, <1>2, <2>12 DEF PartitionFits, Fits
<1>5. QED
  BY <1>3, <1>4

(* An item ingested moves from the pipeline into the tracker, or is gone.  *)
(* (processCommit)                                                         *)
LEMMA IngestFits ==
  ASSUME FitHyp, NEW p \in Partitions, NEW w \in inflight[p], ProcessCommitItem(p, w),
         NEW q \in Partitions
  PROVE  PartitionFits(q)'
<1>1. PartitionFits(q) /\ tracker[q] \in Tracker /\ inflight[q] \in SUBSET WorkItem /\ epoch[q] \in Nat
  BY FitFacts
<1>2. brokerPos' = brokerPos /\ phase' = phase /\ epoch' = epoch /\ fetchPos' = fetchPos
  BY DEF ProcessCommitItem, brokerVars, readVars
<1>3. CASE q # p
  <2>1. tracker'[q] = tracker[q] /\ inflight'[q] = inflight[q]
    BY <1>3 DEF ProcessCommitItem, FitHyp, TypeOK
  <2>2. ItemsDistinct(q)'
    BY <1>1, <1>2, <2>1, DistinctShrinks DEF PartitionFits
  <2>3. QED
    BY <1>1, <1>2, <2>1, <2>2 DEF PartitionFits, Fits
<1>4. CASE q = p
  <2>1. /\ tracker'[q] = ProcessCommit(tracker[q], w) /\ inflight'[q] = inflight[q] \ {w}
        /\ w \in inflight[q]
    BY <1>4 DEF ProcessCommitItem, FitHyp, TypeOK
  <2>2. /\ w \in WorkItem /\ w \notin Held(tracker[q]) /\ w.offset \in Records
        /\ w.previousOffset \in -1 .. w.offset - 1 /\ w.readTime \in 1 .. epoch[q]
        /\ \A v \in Held(tracker[q]) : ~ (v.offset = w.offset /\ v.readTime = w.readTime)
    BY <1>1, <2>1 DEF PartitionFits, ItemsDistinct
  <2>3. w.readTime \in 1 .. MaxEpoch /\ w.offset \in 0 .. MaxOffset /\ w.previousOffset < w.offset
    BY <1>1, <2>2, EpochAssumption, OffsetAssumption DEF PartitionFits, Records
  <2>4. Fits(tracker'[q])
    BY <1>1, <2>1, <2>2, <2>3, ProcessCommitFits DEF PartitionFits
  <2>5. Held(tracker'[q]) \subseteq Held(tracker[q]) \cup {w}
    BY <1>1, <2>1, <2>2, <2>3, ProcessCommitHolds
  <2>6. ItemsDistinct(q)'
    BY <1>1, <1>2, <2>1, <2>5, DistinctShrinks DEF PartitionFits
  <2>7. QED
    BY <1>1, <1>2, <2>4, <2>6 DEF PartitionFits, Fits
<1>5. QED
  BY <1>3, <1>4

(* Flushes and commits.  (flushGapBuffers, CommitOffsets)                  *)
LEMMA TickFits ==
  ASSUME FitHyp, NEW q \in Partitions,
         EndBatch \/ \E answer \in Answers, twin \in Twins : CommitOffsets(answer, twin)
  PROVE  PartitionFits(q)'
<1>1. PartitionFits(q) /\ tracker[q] \in Tracker /\ brokerPos[q] <= MaxOffset + 1 /\ Fits(tracker[q])
  BY FitFacts DEF PartitionFits
<1>2. CASE EndBatch
  <2>1. /\ UNCHANGED <<epoch, phase, fetchPos, inflight>> /\ brokerPos'[q] = brokerPos[q]
        /\ tracker'[q] = FlushGapBuffer(tracker[q])
    BY <1>2 DEF EndBatch, brokerVars, readVars
  <2>2. QED
    BY <1>1, <2>1, FlushFits, FlushHolds, TrackersFits
<1>3. ASSUME NEW answer \in Answers, NEW twin \in Twins, CommitOffsets(answer, twin)
      PROVE  PartitionFits(q)'
  <2> DEFINE u == PrepareCommit(tracker[q], q \in assigned, twin[q])
  <2>1. /\ UNCHANGED <<epoch, phase, fetchPos, inflight>>
        /\ tracker'[q] \in {u, CommitSucceeded(u)}
        /\ \/ brokerPos'[q] = brokerPos[q]
           \/ u.ready # {} /\ brokerPos'[q] = ReadyOffset(u) + 1
    BY <1>3 DEF CommitOffsets, Prepared, BrokerPosAfter, readVars
  <2>2. (q \in assigned) \in BOOLEAN
    OBVIOUS
  <2>3. u \in Tracker /\ Fits(u) /\ Held(u) \subseteq Held(tracker[q])
    BY <1>1, <2>2, PrepareFits, PrepareHolds, Zenon
  <2> HIDE DEF u
  <2>4. Fits(CommitSucceeded(u)) /\ Held(CommitSucceeded(u)) \subseteq Held(u)
    BY <2>3, CommitSucceededFits, CommitSucceededHolds
  <2>5. brokerPos'[q] <= MaxOffset + 1
    BY <1>1, <2>1, <2>3, CommitSucceededFits, OffsetAssumption
  <2>6. QED
    BY <1>1, <2>1, <2>3, <2>4, <2>5, TrackersFits, ZenonT(30)
<1>4. QED
  BY <1>2, <1>3

(* Every step keeps the trackers fit.                                      *)
LEMMA FitStep == FitHyp /\ [Next]_vars => FitInv'
<1> SUFFICES ASSUME FitHyp, [Next]_vars, NEW q \in Partitions
             PROVE  PartitionFits(q)'
  BY DEF FitInv, TrackersFit, PartitionFits, Fits
<1>1. /\ PartitionFits(q)
      /\ UNCHANGED <<epoch, phase, fetchPos, inflight, tracker>> /\ brokerPos'[q] <= MaxOffset + 1
           => PartitionFits(q)'
  BY FitFacts, TrackersFits DEF PartitionFits
<1>2. CASE \E p \in Partitions : Rebalance(p)
  BY <1>2, RebalanceFits
<1>3. CASE \E p \in Partitions : \E o \in log[p] : Deliver(p, o)
  BY <1>3, DeliverFits
<1>4. CASE \E p \in Partitions : \E w \in inflight[p] : ProcessCommitItem(p, w)
  BY <1>4, IngestFits
<1>5. CASE EndBatch \/ \E answer \in Answers, twin \in Twins : CommitOffsets(answer, twin)
  BY <1>5, TickFits
<1>6. ASSUME NEW p \in Partitions, NEW o \in log[p], OtherOwnerCommits(p, o)
      PROVE  PartitionFits(q)'
  <2>1. o \in Records
    BY DEF FitHyp, TypeOK
  <2>2. brokerPos'[q] = brokerPos[q] \/ brokerPos'[q] = o + 1
    BY <1>6 DEF OtherOwnerCommits, FitHyp, TypeOK
  <2>3. brokerPos'[q] <= MaxOffset + 1
    BY <1>1, <2>1, <2>2, OffsetAssumption DEF PartitionFits, Records
  <2>4. QED
    BY <1>1, <1>6, <2>3 DEF OtherOwnerCommits, readVars, committerVars
<1>7. CASE \E p \in Partitions : \E o \in log[p] : Compact(p, o)
  BY <1>1, <1>7 DEF Compact, readVars, committerVars, PartitionFits
<1>8. CASE UNCHANGED vars
  BY <1>1, <1>8 DEF vars, PartitionFits
<1>9. QED
  BY <1>2, <1>3, <1>4, <1>5, <1>6, <1>7, <1>8 DEF Next

(* So do the empty trackers of NewCommitter.                               *)
LEMMA FitInit == Init => FitInv
<1> SUFFICES ASSUME Init, NEW p \in Partitions
             PROVE  PartitionFits(p)
  BY FitByPartition
<1>1. /\ tracker[p] = NewTracker /\ inflight[p] = {} /\ epoch[p] = 0 /\ phase[p] = "unowned"
      /\ brokerPos[p] = -1
  BY DEF Init
<1>2. Held(NewTracker) = {}
  BY DEF Held, NewTracker
<1>3. Fits(NewTracker)
  BY <1>2, OffsetAssumption DEF Fits, IsTracker, NewTracker
<1>4. QED
  BY <1>1, <1>2, <1>3, OffsetAssumption, EpochAssumption DEF PartitionFits, ItemsDistinct

(* In general: every tracker the committer can reach is one that the loops *)
(* of a tick are verified for, so no record of an epoch is ever in it      *)
(* twice and Ready holds one.  (GetPrevious, processCommit, CommitOffsets  *)
(* and ResetCommittedOffsets; the loops are those of TrackerLoops)         *)
THEOREM TrackersFitHolds == Spec => []TrackersFit
<1>1. TypeOK /\ SafetyInv /\ FitInv /\ [Next]_vars => FitInv'
  BY FitStep DEF FitHyp
<1>2. FitInv => TrackersFit
  BY DEF FitInv
<1>3. QED
  BY <1>1, <1>2, FitInit, SafetyInvariant, PTL DEF Spec

-----------------------------------------------------------------------------
(* One partition at a time.                                                *)

PartitionRegress(p) ==
  /\ WellFormed(tracker[p])
  /\ \A w \in inflight[p] : w.offset \in Records
  /\ \A w \in Held(tracker[p]) : w.readTime <= epoch[p]
  /\ FirstIsLowest(p)
  /\ phase[p] = "reset" => prevOffset[p] = -1 /\ AwaitsFirst(p, brokerPos[p])
  /\ p \in assigned => NotBehind(tracker[p], brokerPos[p]) \/ AwaitsFirst(p, brokerPos[p])

(* The invariant, one partition at a time.                                 *)
LEMMA RegressByPartition ==
  ASSUME TypeOK
  PROVE  RegressInv <=> FitInv /\ \A p \in Partitions : PartitionRegress(p)
<1>1. ASSUME FitInv, NEW p \in Partitions
      PROVE  /\ WellFormed(tracker[p])
             /\ \A w \in inflight[p] : w.offset \in Records
             /\ \A w \in Held(tracker[p]) : w.readTime <= epoch[p]
  BY <1>1 DEF FitInv, TrackersFit, IsTracker, ItemsDistinct, WellFormed, ReadyUnique,
              OffsetsBounded, Records, Held, TypeOK
<1>2. QED
  BY <1>1, Zenon DEF RegressInv, PartitionRegress

RegressHyp == TypeOK /\ SafetyInv /\ OwnershipInv /\ RegressInv

(* A partition a step does not touch keeps its part of the invariant.      *)
LEMMA RegressFrame ==
  ASSUME NEW q \in Partitions, PartitionRegress(q),
         brokerPos'[q] = brokerPos[q], phase'[q] = phase[q], epoch'[q] = epoch[q],
         fetchPos'[q] = fetchPos[q], prevOffset'[q] = prevOffset[q],
         inflight'[q] = inflight[q], tracker'[q] = tracker[q],
         q \in assigned' <=> q \in assigned
  PROVE  PartitionRegress(q)'
  BY DEF PartitionRegress, FirstIsLowest, AwaitsFirst, Current

(* A step that changes the tracker but neither the epoch nor what is in    *)
(* flight keeps what is said of the epoch's first record.                  *)
LEMMA FirstIsLowestShrinks ==
  ASSUME NEW q \in Partitions, FirstIsLowest(q),
         phase'[q] # "unowned" => phase[q] # "unowned", epoch'[q] = epoch[q],
         prevOffset'[q] = prevOffset[q], inflight'[q] = inflight[q],
         Held(tracker'[q]) \subseteq Held(tracker[q])
  PROVE  FirstIsLowest(q)'
  BY ZenonT(30) DEF FirstIsLowest, Current, Held

(* HandleRebalance: a reset starts an epoch that has read nothing, from    *)
(* the committed position; the marks change no position.                   *)
LEMMA RebalanceRegress ==
  ASSUME RegressHyp, NEW p \in Partitions, Rebalance(p), NEW q \in Partitions
  PROVE  PartitionRegress(q)' /\ brokerPos'[q] = brokerPos[q]
<1>1. /\ PartitionRegress(q) /\ tracker[q] \in Tracker /\ brokerPos[q] \in Int
      /\ epoch[q] \in Nat /\ inflight[q] \in SUBSET WorkItem
      /\ q \in assigned <=> phase[q] \in {"marked", "owned", "draining"}
  BY RegressByPartition DEF RegressHyp, OwnershipInv, TypeOK
<1>2. brokerPos' = brokerPos /\ inflight' = inflight
  BY DEF Rebalance, AssignReset, ResetPrevOffsets, MarkPartitionAssigned, AckAssign, BeginDrain,
         MarkPartitionRevoked, AckRevoke, brokerVars
<1>3. CASE q # p
  <2>1. /\ phase'[q] = phase[q] /\ tracker'[q] = tracker[q] /\ epoch'[q] = epoch[q]
        /\ fetchPos'[q] = fetchPos[q] /\ prevOffset'[q] = prevOffset[q]
        /\ q \in assigned' <=> q \in assigned
    BY <1>3 DEF Rebalance, AssignReset, ResetPrevOffsets, MarkPartitionAssigned, AckAssign, BeginDrain,
                MarkPartitionRevoked, AckRevoke, Enter, committerVars, readVars, RegressHyp, TypeOK
  <2>2. QED
    BY <1>1, <1>2, <2>1, RegressFrame
<1>4. CASE q = p
  <2>1. CASE AssignReset(p)
    <3>1. PICK baseline \in Int : tracker'[p] = ResetCommittedOffset(tracker[p], baseline)
      BY <1>1, <1>4, <2>1 DEF AssignReset, RegressHyp, TypeOK
    <3>2. /\ phase[p] = "unowned" /\ phase'[p] = "reset" /\ epoch'[p] = epoch[p] + 1
          /\ prevOffset'[p] = -1 /\ brokerPos[p] <= fetchPos'[p] /\ assigned' = assigned
      BY <1>1, <1>4, <2>1 DEF AssignReset, ResetPrevOffsets, Enter, RegressHyp, TypeOK
    <3>3. /\ Held(tracker'[p]) \subseteq Held(tracker[p]) /\ WellFormed(tracker'[p])
          /\ tracker'[p].lastCommittedOffset = -1
      <4>1. /\ tracker'[p].ready \subseteq tracker[p].ready
            /\ tracker'[p].gapBuffer \subseteq tracker[p].gapBuffer
            /\ tracker'[p].lastCommittedOffset = -1
        BY <3>1 DEF ResetCommittedOffset
      <4>2. WellFormed(tracker[p])
        BY <1>1, <1>4 DEF PartitionRegress
      <4>3. QED
        BY <4>1, <4>2 DEF Held, WellFormed, ReadyUnique, OffsetsBounded
    <3>4. \A w \in inflight[p] \cup Held(tracker[p]) : w.readTime \in Int /\ w.readTime <= epoch[p]
      <4>1. \A w \in inflight[p] \cup Held(tracker[p]) : w \in WorkItem
        BY <1>1, <1>4, ZenonT(30) DEF Held, Tracker
      <4>2. \A w \in inflight[p] \cup Held(tracker[p]) : w.readTime <= epoch[p]
        BY <1>1, <1>4, ZenonT(30) DEF PartitionRegress, RegressHyp, SafetyInv, ReadSafe
      <4>3. \A w \in WorkItem : w.readTime \in Int
        BY DEF WorkItem
      <4>4. QED
        BY <4>1, <4>2, <4>3, ZenonT(30)
    <3>5. FirstIsLowest(p)'
      <4>1. \A w \in inflight'[p] \cup Held(tracker'[p]) : w \in inflight[p] \cup Held(tracker[p])
        BY <1>1, <1>2, <1>4, <3>3, ZenonT(30)
      <4>2. epoch[p] \in Int
        BY <1>1, <1>4
      <4>3. \A w \in inflight[p] \cup Held(tracker[p]) : w.readTime # epoch[p] + 1
        BY <3>4, <4>2
      <4>4. QED
        BY <3>2, <4>1, <4>3, ZenonT(30) DEF FirstIsLowest
    <3>6. AwaitsFirst(p, brokerPos[p])' /\ p \notin assigned'
      BY <1>1, <1>2, <1>4, <3>2, <3>3, ZenonT(30) DEF AwaitsFirst
    <3>7. \A w \in Held(tracker'[p]) : w.readTime <= epoch'[p]
      BY <1>1, <1>4, <3>2, <3>3, <3>4
    <3>8. QED
      BY <1>1, <1>2, <1>4, <3>2, <3>3, <3>5, <3>6, <3>7, ZenonT(30) DEF PartitionRegress
  <2>2. CASE ~AssignReset(p)
    <3>1. /\ phase'[p] # "reset" /\ phase[p] # "unowned" /\ epoch'[p] = epoch[p]
          /\ fetchPos'[p] = fetchPos[p] /\ prevOffset'[p] = prevOffset[p]
          /\ p \in assigned' => /\ p \in assigned \/ phase[p] = "reset"
                                /\ phase'[p] # "unowned" /\ tracker'[p] = tracker[p]
      BY <1>1, <1>4, <2>2 DEF Rebalance, MarkPartitionAssigned, AckAssign, BeginDrain,
           MarkPartitionRevoked, AckRevoke, Enter, committerVars, readVars, RegressHyp, TypeOK
    <3>2. tracker'[p] \in {tracker[p], MarkTrackerRevoked(tracker[p])}
      BY <2>2 DEF Rebalance, MarkPartitionAssigned, AckAssign, BeginDrain,
           MarkPartitionRevoked, AckRevoke, committerVars, RegressHyp, TypeOK
    <3>3. Held(tracker'[p]) = Held(tracker[p]) /\ WellFormed(tracker'[p])
      BY <1>1, <1>4, <3>2 DEF MarkTrackerRevoked, Held, Tracker, PartitionRegress, WellFormed,
                              ReadyUnique, OffsetsBounded
    <3>4. FirstIsLowest(p)'
      BY <1>1, <1>2, <1>4, <3>1, <3>3, FirstIsLowestShrinks DEF PartitionRegress
    <3>5. p \in assigned' => (NotBehind(tracker[p], brokerPos[p]) \/ AwaitsFirst(p, brokerPos[p]))'
      BY <1>1, <1>2, <1>4, <3>1 DEF PartitionRegress, AwaitsFirst, Current
    <3>6. QED
      BY <1>1, <1>2, <1>4, <3>1, <3>3, <3>4, <3>5 DEF PartitionRegress
  <2>3. QED
    BY <2>1, <2>2
<1>5. QED
  BY <1>2, <1>3, <1>4

(* The first record read is at or above the position the epoch started     *)
(* from; the others are above the first.  (GetPrevious)                    *)
LEMMA DeliverRegress ==
  ASSUME RegressHyp, NEW p \in Partitions, NEW o \in log[p], Deliver(p, o), NEW q \in Partitions
  PROVE  PartitionRegress(q)' /\ brokerPos'[q] = brokerPos[q]
<1>1. /\ PartitionRegress(q) /\ tracker[q] \in Tracker /\ brokerPos[q] \in Int
      /\ inflight[q] \in SUBSET WorkItem /\ prevOffset[q] \in Int /\ fetchPos[q] \in Nat
      /\ o \in Records /\ o \in Nat
  BY RegressByPartition, OffsetAssumption DEF RegressHyp, TypeOK, Records
<1>2. /\ brokerPos' = brokerPos /\ phase' = phase /\ epoch' = epoch /\ tracker' = tracker
      /\ assigned' = assigned
  BY DEF Deliver, brokerVars, committerVars
<1>3. CASE q # p
  <2>1. fetchPos'[q] = fetchPos[q] /\ prevOffset'[q] = prevOffset[q] /\ inflight'[q] = inflight[q]
    BY <1>3 DEF Deliver, RegressHyp, TypeOK
  <2>2. QED
    BY <1>1, <1>2, <2>1, RegressFrame, ZenonT(30)
<1>4. CASE q = p
  <2> DEFINE w == Stamped(p, o)
  <2>1. /\ phase[p] = "owned" /\ fetchPos[p] <= o /\ prevOffset'[p] = o
        /\ inflight'[p] = inflight[p] \cup {w}
    BY <1>1, <1>4 DEF Deliver, NextRecord, RegressHyp, TypeOK
  <2>2. w.offset = o /\ w.readTime = epoch[p] /\ (w.first <=> prevOffset[p] = -1)
    BY Zenon DEF Stamped
  <2> HIDE DEF w
  <2>3. /\ prevOffset[p] # -1 => fetchPos[p] = prevOffset[p] + 1
        /\ \A v \in Current(p) : v.offset <= prevOffset[p] /\ v.offset \in Nat
    BY <1>1, <1>4 DEF RegressHyp, SafetyInv, ReadSafe, Current, WorkItem
  <2>4. Current(p)' = Current(p) \cup {w}
    BY <1>2, <2>1, <2>2, ZenonT(30) DEF Current
  <2>5. FirstIsLowest(p)'
    <3> SUFFICES ASSUME NEW x \in inflight'[p] \cup tracker[p].ready \cup tracker[p].gapBuffer,
                        x.readTime = epoch[p], NEW v \in Current(p)', v.first
                 PROVE  v.offset <= x.offset
      <4>1. prevOffset'[p] # -1
        BY <1>1, <2>1
      <4>2. inflight'[p] \cup Held(tracker[p]) = inflight'[p] \cup tracker[p].ready \cup tracker[p].gapBuffer
        BY Zenon DEF Held
      <4>3. QED
        BY <1>2, <4>1, <4>2, Zenon DEF FirstIsLowest
    <3>1. CASE prevOffset[p] = -1
      <4>1. Current(p) = {} /\ v = w
        BY <2>3, <2>4, <3>1
      <4>2. x = w
        BY <1>1, <1>4, <2>1, <3>1, ZenonT(30) DEF PartitionRegress, FirstIsLowest, Held
      <4>3. QED
        BY <1>1, <2>2, <4>1, <4>2
    <3>2. CASE prevOffset[p] # -1
      <4>1. v \in Current(p)
        BY <2>2, <2>4, <3>2
      <4>2. v.offset <= o
        BY <1>1, <1>4, <2>1, <2>3, <3>2, <4>1
      <4>3. CASE x = w
        BY <2>2, <4>2, <4>3
      <4>4. CASE x # w
        BY <1>1, <1>4, <2>1, <4>1, <4>4, ZenonT(30) DEF PartitionRegress, FirstIsLowest, Held
      <4>5. QED
        BY <4>3, <4>4
    <3>3. QED
      BY <3>1, <3>2, ZenonT(30)
  <2>6. AwaitsFirst(p, brokerPos[p]) => AwaitsFirst(p, brokerPos[p])'
    <3>1. CASE prevOffset[p] = -1 /\ brokerPos[p] <= fetchPos[p]
      BY <1>1, <1>2, <1>4, <2>1, <2>2, <2>4, <3>1 DEF AwaitsFirst
    <3>2. CASE \E v \in Current(p) : v.first /\ brokerPos[p] <= v.offset
      BY <1>2, <2>4, <3>2 DEF AwaitsFirst
    <3>3. QED
      BY <3>1, <3>2 DEF AwaitsFirst
  <2>7. QED
    BY <1>1, <1>2, <1>4, <2>1, <2>2, <2>5, <2>6, ZenonT(30) DEF PartitionRegress
<1>5. QED
  BY <1>2, <1>3, <1>4

(* Ingest: once the epoch's first record is ingested the baseline is at or *)
(* above the position.  (processCommit's First rule)                       *)
LEMMA IngestRegress ==
  ASSUME RegressHyp, NEW p \in Partitions, NEW w \in inflight[p], ProcessCommitItem(p, w),
         NEW q \in Partitions
  PROVE  PartitionRegress(q)' /\ brokerPos'[q] = brokerPos[q]
<1>1. /\ PartitionRegress(q) /\ tracker[q] \in Tracker /\ brokerPos[q] \in Int
      /\ prevOffset[q] \in Int /\ inflight[q] \in SUBSET WorkItem
  BY RegressByPartition DEF RegressHyp, TypeOK
<1>2. /\ brokerPos' = brokerPos /\ phase' = phase /\ epoch' = epoch /\ assigned' = assigned
      /\ fetchPos' = fetchPos /\ prevOffset' = prevOffset
  BY DEF ProcessCommitItem, brokerVars, readVars
<1>3. CASE q # p
  <2>1. tracker'[q] = tracker[q] /\ inflight'[q] = inflight[q]
    BY <1>3 DEF ProcessCommitItem, RegressHyp, TypeOK
  <2>2. QED
    BY <1>1, <1>2, <2>1, RegressFrame
<1>4. CASE q = p
  <2> DEFINE u == ProcessCommit(tracker[p], w)
  <2>1. tracker'[p] = u /\ inflight'[p] = inflight[p] \ {w}
    BY DEF ProcessCommitItem, RegressHyp, TypeOK
  <2>2. /\ w \in WorkItem /\ w.previousOffset < w.offset /\ w.offset \in Records
        /\ w.offset \in Nat /\ w.readTime <= epoch[p]
        /\ \A v \in Current(p) : v.offset <= prevOffset[p] /\ v.offset \in Nat
    BY <1>1, <1>4 DEF RegressHyp, TypeOK, SafetyInv, ItemSafe, StampTrue, PartitionRegress,
                      ReadSafe, Current, WorkItem
  <2>3. Keeps(tracker[p], u)
    BY <1>1, <1>4, <2>2, ProcessCommitKeeps, ZenonT(30) DEF PartitionRegress
  <2>4. /\ Held(u) \subseteq Held(tracker[p]) \cup {w}
        /\ u.lastCommittedOffset = tracker[p].lastCommittedOffset
        /\ w.first => w.offset <= u.committedPlusOne
    BY <1>1, <1>4, <2>2, ProcessCommitHolds
  <2>5. u.committedPlusOne \in Int
    <3>1. u \in Tracker
      BY <2>1, ProcessCommitItemSafe DEF RegressHyp, TypeOK
    <3>2. QED
      BY <3>1 DEF Tracker
  <2> HIDE DEF u
  <2>6. Current(p)' = Current(p) \ {w}
    BY <1>2, <2>1 DEF Current
  <2>7. FirstIsLowest(p)'
    BY <1>1, <1>2, <1>4, <2>1, <2>4, <2>6 DEF PartitionRegress, FirstIsLowest, Held
  <2>8. AwaitsFirst(p, brokerPos[p]) =>
          /\ NotBehind(u, brokerPos[p]) \/ AwaitsFirst(p, brokerPos[p])'
          /\ prevOffset[p] = -1 => AwaitsFirst(p, brokerPos[p])'
    <3>1. CASE prevOffset[p] = -1
      <4>1. \A v \in Current(p) : FALSE
        BY <2>2, <3>1
      <4>2. ASSUME AwaitsFirst(p, brokerPos[p])
            PROVE  AwaitsFirst(p, brokerPos[p])'
        BY <1>2, <2>1, <2>4, <3>1, <4>1, <4>2, ZenonT(30) DEF AwaitsFirst
      <4>3. QED
        BY <4>2, ZenonT(30)
    <3>2. ASSUME prevOffset[p] # -1, NEW v \in Current(p), v.first, brokerPos[p] <= v.offset,
                 tracker[p].lastCommittedOffset = -1
          PROVE  NotBehind(u, brokerPos[p]) \/ AwaitsFirst(p, brokerPos[p])'
      <4>1. CASE v = w
        BY <1>1, <1>4, <2>2, <2>4, <2>5, <3>2, <4>1 DEF NotBehind
      <4>2. CASE v # w
        BY <1>2, <2>1, <2>4, <2>6, <3>2, <4>2 DEF AwaitsFirst
      <4>3. QED
        BY <4>1, <4>2
    <3>3. QED
      BY <3>1, <3>2 DEF AwaitsFirst
  <2>9. NotBehind(tracker[p], brokerPos[p]) => NotBehind(u, brokerPos[p])
    BY <1>1, <1>4, <2>3 DEF Keeps
  <2>10. WellFormed(u) /\ \A x \in Held(u) : x.readTime <= epoch[p]
    BY <1>1, <1>4, <2>2, <2>3, <2>4, ZenonT(30) DEF Keeps, PartitionRegress
  <2>11. QED
    BY <1>1, <1>2, <1>4, <2>1, <2>7, <2>8, <2>9, <2>10 DEF PartitionRegress
<1>5. QED
  BY <1>2, <1>3, <1>4

(* A step that only changes trackers, and positions by a commit.           *)
LEMMA TrackersRegress ==
  ASSUME RegressHyp, NEW q \in Partitions,
         UNCHANGED <<phase, epoch, fetchPos, prevOffset, inflight, assigned>>,
         Held(tracker'[q]) \subseteq Held(tracker[q]), WellFormed(tracker'[q]),
         \/ /\ brokerPos'[q] = brokerPos[q]
            /\ tracker'[q].lastCommittedOffset = tracker[q].lastCommittedOffset
            /\ NotBehind(tracker[q], brokerPos[q]) /\ q \in assigned
                 => NotBehind(tracker'[q], brokerPos[q])
         \/ q \in assigned /\ NotBehind(tracker'[q], brokerPos'[q])
  PROVE  PartitionRegress(q)'
<1>1. PartitionRegress(q) /\ (q \in assigned => phase[q] \notin {"reset", "unowned"})
  BY RegressByPartition DEF RegressHyp, OwnershipInv
<1>2. FirstIsLowest(q)'
  BY <1>1, FirstIsLowestShrinks DEF PartitionRegress
<1>3. CASE q \in assigned /\ NotBehind(tracker'[q], brokerPos'[q])
  BY <1>1, <1>2, <1>3, ZenonT(30) DEF PartitionRegress
<1>4. CASE /\ brokerPos'[q] = brokerPos[q]
           /\ tracker'[q].lastCommittedOffset = tracker[q].lastCommittedOffset
           /\ NotBehind(tracker[q], brokerPos[q]) /\ q \in assigned
                => NotBehind(tracker'[q], brokerPos[q])
  <2>1. AwaitsFirst(q, brokerPos[q]) => AwaitsFirst(q, brokerPos[q])'
    BY <1>4 DEF AwaitsFirst, Current
  <2>2. QED
    BY <1>1, <1>2, <1>4, <2>1, ZenonT(30) DEF PartitionRegress
<1>5. QED
  BY <1>3, <1>4

(* The flush at the end of a batch.  (flushGapBuffers)                     *)
LEMMA EndBatchRegress ==
  ASSUME RegressHyp, EndBatch, NEW q \in Partitions
  PROVE  PartitionRegress(q)' /\ brokerPos'[q] = brokerPos[q]
<1>1. /\ PartitionRegress(q) /\ tracker[q] \in Tracker /\ brokerPos[q] \in Int
      /\ brokerPos'[q] = brokerPos[q] /\ tracker'[q] = FlushGapBuffer(tracker[q])
      /\ UNCHANGED <<phase, epoch, fetchPos, prevOffset, inflight, assigned>>
  BY RegressByPartition DEF RegressHyp, TypeOK, EndBatch, brokerVars, readVars
<1>2. Keeps(tracker[q], tracker'[q])
  BY <1>1, FlushKeeps DEF PartitionRegress
<1>3. /\ Held(tracker'[q]) \subseteq Held(tracker[q])
      /\ tracker'[q].lastCommittedOffset = tracker[q].lastCommittedOffset
  BY <1>1, FlushHolds
<1>4. WellFormed(tracker'[q]) /\ (NotBehind(tracker[q], brokerPos[q]) => NotBehind(tracker'[q], brokerPos[q]))
  BY <1>1, <1>2, Zenon DEF Keeps
<1>5. QED
  BY <1>1, <1>3, <1>4, TrackersRegress, ZenonT(30)

(* What a tick commits for an assigned partition, and what the tracker is  *)
(* left with: nothing is committed, or the commit is refused, or the       *)
(* position becomes the one after Ready and the tracker is not behind it.  *)
LEMMA TickOfAssigned ==
  ASSUME TypeOK, NEW answer \in Answers, NEW twin \in Twins, CommitOffsets(answer, twin),
         NEW q \in assigned, WellFormed(tracker[q])
  PROVE  LET u == PrepareCommit(tracker[q], q \in assigned, twin[q])
         IN  /\ Prepared(twin)[q] = u /\ u \in Tracker
             /\ Held(tracker'[q]) \subseteq Held(u) /\ WellFormed(tracker'[q])
             /\ \A b \in Int : NotBehind(tracker[q], b) => NotBehind(u, b)
             /\ \A r \in u.ready : r.offset >= u.committedPlusOne
             /\ \/ brokerPos'[q] = brokerPos[q] /\ tracker'[q] = u
                \/ /\ \E r \in u.ready : brokerPos'[q] = r.offset + 1
                   /\ \A r \in u.ready : brokerPos'[q] = r.offset + 1
                   /\ NotBehind(tracker'[q], brokerPos'[q])
<1> DEFINE u == PrepareCommit(tracker[q], q \in assigned, twin[q])
<1>1. q \in Partitions /\ tracker[q] \in Tracker
  BY DEF TypeOK
<1>2. /\ \/ tracker'[q] = u
         \/ tracker'[q] = CommitSucceeded(u)
      /\ \/ u.ready = {} /\ brokerPos'[q] = brokerPos[q]
         \/ /\ u.ready # {}
            /\ \/ brokerPos'[q] = brokerPos[q] /\ tracker'[q] = u
               \/ brokerPos'[q] = ReadyOffset(u) + 1
      /\ Prepared(twin)[q] = u
  BY <1>1, AnswersAssumption DEF CommitOffsets, Prepared, BrokerPosAfter
<1>3. u = DropStaleReady(RepairSuccessor(FlushGapBuffer(tracker[q]), twin[q]))
  BY DEF PrepareCommit
<1>4. u \in Tracker
  <2>1. RepairSuccessor(FlushGapBuffer(tracker[q]), twin[q]) \in Tracker
    BY <1>1, FlushType, RepairType
  <2>2. QED
    BY <1>3, <2>1, ZenonT(30) DEF DropStaleReady, Tracker
<1> HIDE DEF u
<1>5. Keeps(tracker[q], u) /\ \A r \in u.ready : r.offset >= u.committedPlusOne
  BY <1>1, <1>3, PrepareKeeps, ZenonT(30)
<1>6. WellFormed(u) /\ \A b \in Int : NotBehind(tracker[q], b) => NotBehind(u, b)
  BY <1>5, Zenon DEF Keeps
<1>7. CASE u.ready = {}
  <2>1. CommitSucceeded(u) = u
    BY <1>7, Zenon DEF CommitSucceeded
  <2>2. QED
    BY <1>2, <1>4, <1>5, <1>6, <1>7, <2>1, ZenonT(30) DEF u
<1>8. CASE u.ready # {}
  <2>1. PICK r \in u.ready : ReadyOffset(u) = r.offset
    BY <1>4, <1>8, ReadyOffsetIsReady
  <2>2. \A s \in u.ready : s.offset = r.offset /\ s.offset \in Nat
    BY <1>4, <1>6 DEF Tracker, WorkItem, WellFormed, ReadyUnique
  <2>3. NotBehind(u, ReadyOffset(u) + 1)
    BY <1>8, <2>1, <2>2 DEF NotBehind
  <2>4. WellFormed(CommitSucceeded(u)) /\ NotBehind(CommitSucceeded(u), ReadyOffset(u) + 1)
    BY <1>4, <1>6, <1>8, CommitSucceededKeeps
  <2>5. Held(CommitSucceeded(u)) \subseteq Held(u)
    BY <1>4, CommitSucceededHolds
  <2>6. Held(tracker'[q]) \subseteq Held(u) /\ WellFormed(tracker'[q])
    BY <1>2, <1>6, <2>4, <2>5
  <2>7. \/ brokerPos'[q] = brokerPos[q] /\ tracker'[q] = u
        \/ /\ \A s \in u.ready : brokerPos'[q] = s.offset + 1
           /\ NotBehind(tracker'[q], brokerPos'[q])
    BY <1>2, <1>8, <2>1, <2>2, <2>3, <2>4
  <2>8. QED
    BY <1>2, <1>4, <1>5, <1>6, <1>8, <2>6, <2>7, ZenonT(30) DEF u
<1>9. QED
  BY <1>7, <1>8, ZenonT(30)

(* How a tick may move a position back.                                    *)
RegressedByOrphan(p) ==
  /\ tracker[p].lastCommittedOffset = -1
  /\ prevOffset[p] = -1 \/ \E w \in Current(p) : w.first
  /\ \E twin \in Twins : \E r \in Prepared(twin)[p].ready :
       r.readTime < epoch[p] /\ brokerPos'[p] = r.offset + 1

(* The step that matters: a tick commits below the position only while the *)
(* epoch's first record is awaited, and then only an orphan.               *)
(* (CommitOffsets)                                                         *)
LEMMA CommitOffsetsRegress ==
  ASSUME RegressHyp, NEW answer \in Answers, NEW twin \in Twins,
         CommitOffsets(answer, twin), NEW q \in Partitions
  PROVE  /\ PartitionRegress(q)'
         /\ brokerPos'[q] < brokerPos[q] => RegressedByOrphan(q)
<1> DEFINE u == PrepareCommit(tracker[q], q \in assigned, twin[q])
<1>1. /\ TypeOK /\ PartitionRegress(q) /\ tracker[q] \in Tracker /\ brokerPos[q] \in Int
      /\ WellFormed(tracker[q]) /\ epoch[q] \in Nat /\ inflight[q] \in SUBSET WorkItem
      /\ q \in assigned => phase[q] # "unowned"
  BY RegressByPartition DEF RegressHyp, OwnershipInv, TypeOK, PartitionRegress
<1>2. UNCHANGED <<phase, epoch, fetchPos, prevOffset, inflight, assigned>>
  BY DEF CommitOffsets, readVars
<1>3. /\ Held(u) \subseteq Held(tracker[q])
      /\ u.lastCommittedOffset = tracker[q].lastCommittedOffset
  <2>1. tracker[q] \in Tracker /\ (q \in assigned) \in BOOLEAN
    BY <1>1
  <2>2. QED
    BY <2>1, PrepareHolds, Zenon
<1>4. CASE q \notin assigned
  <2>1. u.ready = {}
    BY <1>1, <1>4, UnassignedNotCommitted
  <2>2. CommitSucceeded(u) = u
    BY <2>1 DEF CommitSucceeded
  <2>3. tracker'[q] = u /\ brokerPos'[q] = brokerPos[q]
    BY <2>1, <2>2, AnswersAssumption DEF CommitOffsets, Prepared, BrokerPosAfter
  <2>4. u = DiscardOrphanedTracker(FlushGapBuffer(tracker[q]))
    BY <1>4 DEF PrepareCommit
  <2> HIDE DEF u
  <2>5. WellFormed(u)
    BY <1>1, <2>4, DiscardKeeps, Zenon
  <2>6. PartitionRegress(q)'
    BY <1>2, <1>3, <1>4, <2>3, <2>5, TrackersRegress, ZenonT(30)
  <2>7. QED
    BY <1>1, <2>3, <2>6
<1>5. CASE q \in assigned
  <2>1. /\ Prepared(twin)[q] = u /\ u \in Tracker
        /\ Held(tracker'[q]) \subseteq Held(u) /\ WellFormed(tracker'[q])
        /\ \A b \in Int : NotBehind(tracker[q], b) => NotBehind(u, b)
        /\ \A r \in u.ready : r.offset >= u.committedPlusOne
        /\ \/ brokerPos'[q] = brokerPos[q] /\ tracker'[q] = u
           \/ /\ \E r \in u.ready : brokerPos'[q] = r.offset + 1
              /\ \A r \in u.ready : brokerPos'[q] = r.offset + 1
              /\ NotBehind(tracker'[q], brokerPos'[q])
    BY <1>1, <1>5, TickOfAssigned, Zenon
  <2> HIDE DEF u
  <2>2. PartitionRegress(q)'
    <3>1. Held(tracker'[q]) \subseteq Held(tracker[q])
      BY <1>3, <2>1, ZenonT(30)
    <3>2. QED
      BY <1>1, <1>2, <1>3, <1>5, <2>1, <3>1, TrackersRegress, Zenon
  <2>3. ASSUME brokerPos'[q] < brokerPos[q]
        PROVE  RegressedByOrphan(q)
    <3>1. PICK r \in u.ready : brokerPos'[q] = r.offset + 1
      <4>1. brokerPos'[q] # brokerPos[q]
        BY <1>1, <2>3
      <4>2. QED
        BY <2>1, <4>1, ZenonT(30)
    <3>2. /\ r \in Held(tracker[q]) /\ r.offset \in Nat /\ r.readTime \in Nat
          /\ u.committedPlusOne \in Int /\ r.readTime <= epoch[q]
      BY <1>1, <1>3, <2>1 DEF Held, Tracker, WorkItem, PartitionRegress
    <3>3. ~NotBehind(u, brokerPos[q])
      <4>1. r.offset + 1 < brokerPos[q] /\ u.committedPlusOne <= r.offset
        BY <2>1, <2>3, <3>1
      <4>2. QED
        BY <1>1, <3>1, <3>2, <4>1 DEF NotBehind
    <3>4. AwaitsFirst(q, brokerPos[q])
      BY <1>1, <1>5, <2>1, <3>3, Zenon DEF PartitionRegress
    <3>5. r.readTime # epoch[q]
      <4> SUFFICES ASSUME r.readTime = epoch[q]
                   PROVE  FALSE
        BY Zenon
      <4>1. /\ prevOffset[q] # -1
            /\ \A v \in Current(q) : v.first => v.offset <= r.offset
        BY <1>1, <1>5, <3>2, Zenon DEF PartitionRegress, FirstIsLowest, Held
      <4>2. PICK v \in Current(q) : v.first /\ brokerPos[q] <= v.offset
        BY <3>4, <4>1 DEF AwaitsFirst
      <4>3. v.offset \in Nat
        BY <1>1 DEF Current, WorkItem
      <4>4. QED
        BY <1>1, <2>3, <3>1, <3>2, <4>1, <4>2, <4>3
    <3>6. r.readTime < epoch[q] /\ r \in Prepared(twin)[q].ready
      BY <1>1, <2>1, <3>2, <3>5
    <3>7. QED
      BY <3>1, <3>4, <3>6, ZenonT(30) DEF RegressedByOrphan, AwaitsFirst
  <2>4. QED
    BY <2>2, <2>3, Zenon
<1>6. QED
  BY <1>4, <1>5

(* Other owners and compaction.                                            *)
LEMMA OutsideRegress ==
  ASSUME RegressHyp, NEW p \in Partitions, NEW o \in log[p],
         OtherOwnerCommits(p, o) \/ Compact(p, o), NEW q \in Partitions
  PROVE  PartitionRegress(q)' /\ brokerPos[q] <= brokerPos'[q]
<1>1. /\ PartitionRegress(q) /\ brokerPos[q] \in Int /\ o \in Int
      /\ q \in assigned => phase[q] # "unowned"
  BY RegressByPartition, OffsetAssumption DEF RegressHyp, OwnershipInv, TypeOK, Records
<1>2. UNCHANGED <<phase, epoch, fetchPos, prevOffset, inflight, assigned, tracker>>
  BY ZenonT(30) DEF OtherOwnerCommits, Compact, committerVars, readVars
<1>3. CASE brokerPos'[q] = brokerPos[q]
  <2>1. PartitionRegress(q)'
    BY <1>1, <1>2, <1>3, RegressFrame, ZenonT(30)
  <2>2. brokerPos[q] <= brokerPos'[q]
    BY <1>1, <1>3
  <2>3. QED
    BY <2>1, <2>2, ZenonT(30)
<1>4. CASE q = p /\ OtherOwnerCommits(p, o)
  <2>1. phase[q] = "unowned" /\ brokerPos'[q] = o + 1 /\ brokerPos[q] <= o
    BY <1>1, <1>4 DEF OtherOwnerCommits, RegressHyp, TypeOK
  <2>2. q \notin assigned' /\ phase'[q] # "reset" /\ brokerPos[q] <= brokerPos'[q]
    BY <1>1, <1>2, <2>1
  <2>3. Current(q)' = Current(q)
    BY <1>2, ZenonT(30) DEF Current
  <2>4. FirstIsLowest(q)' = FirstIsLowest(q)
    BY <1>2, <2>3, Zenon DEF FirstIsLowest
  <2>5. QED
    BY <1>1, <1>2, <2>2, <2>3, <2>4, ZenonT(30) DEF PartitionRegress
<1>5. QED
  BY <1>3, <1>4 DEF OtherOwnerCommits, Compact, RegressHyp, TypeOK

(* Every step keeps the invariant, and moves a position back only as       *)
(* RegressedByOrphan says.                                                 *)
LEMMA RegressStep ==
  ASSUME RegressHyp, [Next]_vars
  PROVE  /\ RegressInv'
         /\ \A p \in Partitions : brokerPos'[p] < brokerPos[p] => RegressedByOrphan(p)
<1>1. TypeOK' /\ FitInv'
  BY SafetyStep, FitStep DEF RegressHyp, RegressInv, FitHyp
<1> SUFFICES ASSUME NEW q \in Partitions
             PROVE  PartitionRegress(q)' /\ (brokerPos'[q] < brokerPos[q] => RegressedByOrphan(q))
  BY <1>1 DEF RegressInv, PartitionRegress
<1>2. brokerPos[q] \in Int /\ brokerPos'[q] \in Int /\ PartitionRegress(q)
  BY <1>1, RegressByPartition DEF RegressHyp, TypeOK
<1>3. CASE \E p \in Partitions : Rebalance(p)
  BY <1>2, <1>3, RebalanceRegress
<1>4. CASE \E p \in Partitions : \E o \in log[p] : Deliver(p, o)
  BY <1>2, <1>4, DeliverRegress
<1>5. CASE \E p \in Partitions : \E w \in inflight[p] : ProcessCommitItem(p, w)
  BY <1>2, <1>5, IngestRegress
<1>6. CASE EndBatch
  BY <1>2, <1>6, EndBatchRegress
<1>7. CASE \E answer \in Answers, twin \in Twins : CommitOffsets(answer, twin)
  BY <1>7, CommitOffsetsRegress
<1>8. CASE \E p \in Partitions : \E o \in log[p] : OtherOwnerCommits(p, o) \/ Compact(p, o)
  BY <1>2, <1>8, OutsideRegress
<1>9. CASE UNCHANGED vars
  BY <1>2, <1>9, RegressFrame DEF vars
<1>10. QED
  BY <1>3, <1>4, <1>5, <1>6, <1>7, <1>8, <1>9 DEF Next

(* With unknown baselines too: an assigned tracker is never behind the     *)
(* committed position, except while the first record of the epoch is still *)
(* awaited.  (ResetCommittedOffsets, processCommit's First rule)           *)
THEOREM RegressInvariant == Spec => []RegressInv
<1>1. Init => RegressInv
  <2> SUFFICES ASSUME Init
               PROVE  RegressInv
    OBVIOUS
  <2>1. TypeOK /\ FitInv
    BY SafetyInit, FitInit
  <2>2. QED
    BY <2>1 DEF Init, RegressInv, Held, NewTracker, FirstIsLowest
<1>2. TypeOK /\ SafetyInv /\ OwnershipInv /\ RegressInv /\ [Next]_vars => RegressInv'
  BY RegressStep DEF RegressHyp
<1>3. QED
  BY <1>1, <1>2, SafetyInvariant, OwnershipInvariant, PTL DEF Spec

(* In general, and whatever the adapter knows of the baseline: a position  *)
(* moves back only by the first accepted commit of an epoch, to an         *)
(* orphan's record, before the epoch's own first record is ingested.       *)
(* (processCommit, CommitOffsets' discard of a stale Ready)                *)
THEOREM RegressOnlyByOrphanHolds == Spec => RegressOnlyByOrphan
<1>1. TypeOK /\ SafetyInv /\ OwnershipInv /\ RegressInv /\ [Next]_vars
        => \A p \in Partitions : brokerPos'[p] < brokerPos[p] =>
             /\ tracker[p].lastCommittedOffset = -1
             /\ prevOffset[p] = -1 \/ \E w \in Current(p) : w.first
             /\ \E twin \in Twins : \E r \in Prepared(twin)[p].ready :
                  r.readTime < epoch[p] /\ brokerPos'[p] = r.offset + 1
  BY RegressStep DEF RegressHyp, RegressedByOrphan
<1>2. QED
  BY <1>1, SafetyInvariant, OwnershipInvariant, RegressInvariant, PTL DEF Spec, RegressOnlyByOrphan
=============================================================================
