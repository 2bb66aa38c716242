----------------------- MODULE OffsetCommitterProofs ------------------------
(***************************************************************************)
(* AtLeastOnce for every set of partitions, log length, number of epochs   *)
(* and choice of broker answers: first what each operator of               *)
(* OffsetsTracker preserves, for every tracker, work item and set of       *)
(* offsets still to be processed, then the steps of the committer.         *)
(***************************************************************************)
EXTENDS OffsetCommitterInv, WellFoundedInduction, TLAPS

(* For the steps that name no prover: time enough on a slow machine.       *)
USE SMTT(30), ZenonT(30)

-----------------------------------------------------------------------------
(* Facts about numbers.                                                    *)

(* A nonempty set of naturals has a least element.                         *)
LEMMA LeastNat ==
  ASSUME NEW S \in SUBSET Nat, S # {}
  PROVE  \E m \in S : \A n \in S : m <= n
<1> DEFINE R == OpToRel(<, Nat)
<1>1. IsWellFoundedOn(R, Nat)
  BY NatLessThanWellFounded, ZenonT(30)
<1>2. \A x, y \in Nat : <<x, y>> \in R <=> x < y
  BY DEF OpToRel
<1> HIDE DEF R
<1>3. PICK m \in S : \A n \in S : ~ (<<n, m>> \in R)
  BY <1>1, WFMin, Zenon
<1>4. ASSUME NEW n \in S
      PROVE  m <= n
  <2>1. m \in Nat /\ n \in Nat
    OBVIOUS
  <2>2. ~ (n < m)
    BY <1>2, <1>3, <2>1, Zenon
  <2>3. QED
    BY <2>1, <2>2
<1>5. QED
  BY <1>4

(* A nonempty set of work items whose offsets are bounded has a highest    *)
(* one.                                                                    *)
LEMMA HighestExists ==
  ASSUME NEW items \in SUBSET WorkItem, items # {},
         NEW bound \in Nat, \A w \in items : w.offset <= bound
  PROVE  Highest(items) # {}
<1> DEFINE S == {bound - w.offset : w \in items}
<1>1. S \in SUBSET Nat /\ S # {}
  BY DEF WorkItem
<1>2. PICK m \in S : \A n \in S : m <= n
  BY <1>1, LeastNat, Zenon
<1>3. PICK w \in items : m = bound - w.offset
  BY <1>2
<1>4. \A h \in items : h.offset <= w.offset
  <2> TAKE h \in items
  <2>1. bound - w.offset <= bound - h.offset
    BY <1>2, <1>3
  <2>2. QED
    BY <2>1 DEF WorkItem
<1>5. QED
  BY <1>4 DEF Highest

-----------------------------------------------------------------------------
(* Every operator yields a tracker.                                        *)

(* A tracker starts well-typed.  (the literal in processCommit)            *)
LEMMA NewTrackerType == NewTracker \in Tracker
  BY DEF NewTracker, Tracker

(* Setting the deferred flag keeps the type.  (advanceThroughGapBuffer)    *)
LEMMA AdvanceThroughGapBufferType ==
  ASSUME NEW t \in Tracker
  PROVE  AdvanceThroughGapBuffer(t) \in Tracker
  BY Zenon DEF AdvanceThroughGapBuffer, Tracker

(* ReadyOffset is the offset of the Ready item.  (checkAndAdvance)         *)
LEMMA ReadyOffsetIsReady ==
  ASSUME NEW t \in Tracker, t.ready # {}
  PROVE  \E r \in t.ready : ReadyOffset(t) = r.offset
  BY Zenon DEF ReadyOffset

(* The cases of checkAndAdvance: w is returned, or becomes Ready, or is    *)
(* buffered.                                                               *)
BecomesReady(t, w, u) ==
  /\ \/ t.ready = {} /\ t.committedPlusOne = w.offset
     \/ \E r \in t.ready : r.offset \in {w.previousOffset, w.offset}
  /\ \E flag \in BOOLEAN : u = [t EXCEPT !.ready = {w}, !.needsGapAdvance = flag]

IsBuffered(t, w, u) ==
  \E flag \in BOOLEAN : u = [t EXCEPT !.gapBuffer = @ \cup {w}, !.needsGapAdvance = flag]

(* One completion is returned, becomes Ready or is buffered, and nothing   *)
(* else happens.  (checkAndAdvance)                                        *)
LEMMA CheckAndAdvanceCases ==
  ASSUME NEW t \in Tracker, NEW w \in WorkItem, w.previousOffset < w.offset
  PROVE  LET u == CheckAndAdvance(t, w)
         IN  u = t \/ BecomesReady(t, w, u) \/ IsBuffered(t, w, u)
<1> DEFINE a == [t EXCEPT !.ready = {w}]
           scan == \E r \in a.ready, g \in a.gapBuffer : g.previousOffset = r.offset
           ready(flag) == [t EXCEPT !.ready = {w}, !.needsGapAdvance = flag]
           buffered(flag) == [t EXCEPT !.gapBuffer = @ \cup {w}, !.needsGapAdvance = flag]
<1>1. \E flag \in BOOLEAN : AdvanceThroughGapBuffer(a) = ready(flag)
  <2>1. AdvanceThroughGapBuffer(a) = ready(t.needsGapAdvance \/ scan)
    BY DEF AdvanceThroughGapBuffer, Tracker
  <2>2. t.needsGapAdvance \/ scan \in BOOLEAN
    BY DEF Tracker
  <2>3. QED
    BY <2>1, <2>2, ZenonT(30)
<1>2. AddToGapBuffer(t, w) = buffered(t.needsGapAdvance) /\ t.needsGapAdvance \in BOOLEAN
  BY Zenon DEF AddToGapBuffer, Tracker
<1>3. CASE t.ready = {} /\ t.committedPlusOne = w.offset
  <2>1. CheckAndAdvance(t, w) = AdvanceThroughGapBuffer(a)
    BY <1>3 DEF CheckAndAdvance, Tracker, WorkItem
  <2>2. QED
    BY <1>1, <1>3, <2>1, ZenonT(30) DEF BecomesReady
<1>4. CASE t.ready = {} /\ t.committedPlusOne > w.offset
  BY <1>4 DEF CheckAndAdvance, Tracker, WorkItem
<1>5. CASE t.ready = {} /\ t.committedPlusOne < w.offset
  <2>1. CheckAndAdvance(t, w)
          = [AddToGapBuffer(t, w) EXCEPT !.needsGapAdvance = @ \/ InitialisesReady(t, w)]
    BY <1>5 DEF CheckAndAdvance, Tracker, WorkItem
  <2>2. CheckAndAdvance(t, w) = buffered(t.needsGapAdvance \/ InitialisesReady(t, w))
    BY <2>1 DEF AddToGapBuffer, Tracker
  <2>3. t.needsGapAdvance \/ InitialisesReady(t, w) \in BOOLEAN
    BY DEF InitialisesReady, Tracker
  <2>4. QED
    BY <2>2, <2>3, ZenonT(30) DEF IsBuffered
<1>6. CASE t.ready # {}
  <2>1. PICK r \in t.ready : ReadyOffset(t) = r.offset
    BY <1>6, ReadyOffsetIsReady
  <2>2. CASE r.offset > w.offset
    <3>1. CheckAndAdvance(t, w) = t
      BY <1>6, <2>1, <2>2 DEF CheckAndAdvance, Tracker, WorkItem
    <3>2. QED
      BY <3>1
  <2>3. CASE r.offset \in {w.previousOffset, w.offset}
    <3>1. CheckAndAdvance(t, w) = AdvanceThroughGapBuffer(a)
      BY <1>6, <2>1, <2>3 DEF CheckAndAdvance, Tracker, WorkItem
    <3>2. QED
      BY <1>1, <2>3, <3>1, ZenonT(30) DEF BecomesReady
  <2>4. CASE ~ (r.offset > w.offset) /\ r.offset \notin {w.previousOffset, w.offset}
    <3>1. CheckAndAdvance(t, w) = AddToGapBuffer(t, w)
      BY <1>6, <2>1, <2>4 DEF CheckAndAdvance, Tracker, WorkItem
    <3>2. QED
      BY <1>2, <3>1, ZenonT(30) DEF IsBuffered
  <2>5. QED
    BY <2>2, <2>3, <2>4
<1>7. QED
  BY <1>3, <1>4, <1>5, <1>6 DEF Tracker, WorkItem

-----------------------------------------------------------------------------
(* Every operator keeps a tracker safe.                                    *)

(* Safety only gets easier as records are processed.                       *)
LEMMA TrackerSafeShrinks ==
  ASSUME NEW t \in Tracker, NEW todo, NEW less \in SUBSET todo, TrackerSafe(t, todo)
  PROVE  TrackerSafe(t, less)
  BY DEF TrackerSafe, StampTrue

(* Ingesting an item whose stamp is true, once it is processed, keeps the  *)
(* tracker safe.  (processCommit, checkAndAdvance)                         *)
LEMMA ProcessCommitSafe ==
  ASSUME NEW t \in Tracker, NEW w \in WorkItem, NEW todo \in SUBSET Nat,
         TrackerSafe(t, todo), ItemSafe(w, todo), w.offset \notin todo
  PROVE  /\ ProcessCommit(t, w) \in Tracker
         /\ TrackerSafe(ProcessCommit(t, w), todo)
<1> DEFINE b == IF w.first /\ w.offset >= t.committedPlusOne THEN w.offset ELSE t.committedPlusOne
           raised == [t EXCEPT !.committedPlusOne = b]
           u == CheckAndAdvance(raised, w)
<1>1. ProcessCommit(t, w) = u
  BY DEF ProcessCommit
<1>2. raised \in Tracker
  BY DEF Tracker, WorkItem
<1>3. TrackerSafe(raised, todo)
  BY DEF TrackerSafe, ItemSafe, Tracker, WorkItem
<1>4. w.previousOffset < w.offset
  BY DEF ItemSafe, StampTrue
<1> HIDE DEF raised, u
<1>5. CASE u = raised
  BY <1>1, <1>2, <1>3, <1>5
<1>6. CASE BecomesReady(raised, w, u)
  <2>1. PICK flag \in BOOLEAN : u = [raised EXCEPT !.ready = {w}, !.needsGapAdvance = flag]
    BY <1>6, ZenonT(30) DEF BecomesReady
  <2>2. u \in Tracker
    BY <1>2, <2>1, Zenon DEF Tracker
  <2>3. \A o \in todo : w.offset < o
    <3> TAKE o \in todo
    <3>1. o \in Nat /\ o # w.offset /\ ~ (w.previousOffset < o /\ o < w.offset)
      BY DEF ItemSafe, StampTrue
    <3>2. CASE raised.committedPlusOne = w.offset
      BY <1>3, <3>1, <3>2 DEF TrackerSafe, WorkItem
    <3>3. CASE \E r \in raised.ready : r.offset \in {w.previousOffset, w.offset}
      BY <1>2, <1>3, <3>1, <3>3 DEF TrackerSafe, WorkItem, Tracker
    <3>4. QED
      BY <1>6, <3>2, <3>3 DEF BecomesReady
  <2>4. TrackerSafe(u, todo)
    BY <1>2, <1>3, <2>1, <2>3 DEF TrackerSafe, Tracker
  <2>5. QED
    BY <1>1, <2>2, <2>4
<1>7. CASE IsBuffered(raised, w, u)
  <2>1. PICK flag \in BOOLEAN :
          u = [raised EXCEPT !.gapBuffer = @ \cup {w}, !.needsGapAdvance = flag]
    BY <1>7, ZenonT(30) DEF IsBuffered
  <2>2. u \in Tracker
    BY <1>2, <2>1, Zenon DEF Tracker
  <2>3. TrackerSafe(u, todo)
    BY <1>2, <1>3, <2>1 DEF TrackerSafe, ItemSafe, Tracker
  <2>4. QED
    BY <1>1, <2>2, <2>3
<1>8. QED
  BY <1>2, <1>4, <1>5, <1>6, <1>7, CheckAndAdvanceCases DEF u

(* The heart of the flush: an item the walk reaches has only processed     *)
(* records up to it, because the least buffered item above an unprocessed  *)
(* record cannot be linked.                                                *)
LEMMA ReachedSafe ==
  ASSUME NEW buffer \in SUBSET WorkItem, NEW todo \in SUBSET Nat, NEW start \in Nat,
         \A o \in todo : start < o,
         \A h \in buffer : h.offset \notin todo /\ StampTrue(h, todo),
         NEW g \in Reached(buffer, start), NEW o \in todo
  PROVE  g.offset < o
<1> SUFFICES ASSUME o <= g.offset
             PROVE  FALSE
  BY DEF Reached, WorkItem
<1>1. g \in buffer /\ g.offset \in Nat /\ o \in Nat /\ start < o
  BY DEF Reached, WorkItem
<1> DEFINE S == {h.offset : h \in {k \in buffer : o <= k.offset}}
<1>2. S \in SUBSET Nat /\ g.offset \in S
  BY <1>1 DEF WorkItem
<1>3. PICK m \in S : \A n \in S : m <= n
  BY <1>2, LeastNat, ZenonT(30)
<1>4. PICK h \in buffer : o <= h.offset /\ m = h.offset
  BY <1>3
<1>5. /\ h.offset <= g.offset
      /\ start < h.offset
      /\ o < h.offset
      /\ h.offset \in Nat /\ h.previousOffset \in Int
  BY <1>1, <1>2, <1>3, <1>4 DEF WorkItem
<1>6. Linked(buffer, start, h)
  BY <1>4, <1>5 DEF Reached
<1>7. o <= h.previousOffset /\ h.previousOffset < h.offset
  BY <1>1, <1>4, <1>5 DEF StampTrue
<1>8. PICK k \in buffer : k.offset = h.previousOffset
  BY <1>1, <1>5, <1>6, <1>7 DEF Linked
<1>9. k.offset \in S
  BY <1>7, <1>8
<1>10. QED
  BY <1>2, <1>3, <1>4, <1>5, <1>7, <1>8, <1>9

(* The pieces of a flush, and what it makes of them.                       *)
FlushedReady(t) ==
  LET start == WalkStart(t, Deduped(t.gapBuffer))
  IN  Highest(start \cup UNION {Reached(Deduped(t.gapBuffer), s.offset) : s \in start})

(* A flush replaces Ready and keeps a part of the buffer.                  *)
(* (flushGapBuffers)                                                       *)
LEMMA FlushShape ==
  ASSUME NEW t \in Tracker
  PROVE  \/ FlushGapBuffer(t) = t
         \/ \E kept \in SUBSET t.gapBuffer :
              FlushGapBuffer(t) =
                [t EXCEPT !.needsGapAdvance = FALSE, !.ready = FlushedReady(t), !.gapBuffer = kept]
<1>1. CASE t.needsGapAdvance
  <2> DEFINE buffer == Deduped(t.gapBuffer)
             start == WalkStart(t, buffer)
             kept == IF start = {}
                     THEN {g \in buffer : g.offset >= t.committedPlusOne}
                     ELSE {g \in buffer : \A r \in FlushedReady(t) : g.offset > r.offset}
  <2>1. kept \in SUBSET t.gapBuffer
    BY DEF Deduped
  <2>2. FlushGapBuffer(t) =
          [t EXCEPT !.needsGapAdvance = FALSE, !.ready = FlushedReady(t), !.gapBuffer = kept]
    BY <1>1 DEF FlushGapBuffer, FlushedReady
  <2>3. QED
    BY <2>1, <2>2, Zenon
<1>2. CASE ~ t.needsGapAdvance
  BY <1>2 DEF FlushGapBuffer
<1>3. QED
  BY <1>1, <1>2, Zenon

(* The Ready item after a flush was Ready or buffered before.              *)
(* (flushGapBuffers)                                                       *)
LEMMA FlushedReadyType ==
  ASSUME NEW t \in Tracker
  PROVE  FlushedReady(t) \subseteq t.ready \cup t.gapBuffer
  BY DEF FlushedReady, Highest, Reached, WalkStart, Deduped

(* A flush yields a tracker.  (flushGapBuffers)                            *)
LEMMA FlushType ==
  ASSUME NEW t \in Tracker
  PROVE  FlushGapBuffer(t) \in Tracker
  BY FlushShape, FlushedReadyType, ZenonT(30) DEF Tracker

(* A repair yields a tracker.  (repairSuccessor)                           *)
LEMMA RepairType ==
  ASSUME NEW t \in Tracker, NEW twin
  PROVE  RepairSuccessor(t, twin) \in Tracker
<1> DEFINE successor == Successor(t, twin)
           kept == {g \in t.gapBuffer \ successor : \A s \in successor : g.offset >= s.offset}
           u == [t EXCEPT !.ready = successor, !.gapBuffer = kept, !.needsGapAdvance = kept # {}]
<1>1. successor \subseteq t.gapBuffer
  BY DEF Successor
<1>2. RepairSuccessor(t, twin) \in {t, u}
  BY DEF RepairSuccessor
<1> HIDE DEF successor
<1>3. u \in Tracker
  BY <1>1, ZenonT(30) DEF Tracker
<1>4. QED
  BY <1>2, <1>3

(* Flushing keeps the tracker safe.  (flushGapBuffers)                     *)
LEMMA FlushSafe ==
  ASSUME NEW t \in Tracker, NEW todo \in SUBSET Nat, TrackerSafe(t, todo)
  PROVE  TrackerSafe(FlushGapBuffer(t), todo)
<1> DEFINE buffer == Deduped(t.gapBuffer)
           start == WalkStart(t, buffer)
<1>1. /\ buffer \in SUBSET WorkItem
      /\ \A h \in buffer : h.offset \notin todo /\ StampTrue(h, todo)
  BY DEF Deduped, Tracker, TrackerSafe
<1>2. start \in SUBSET WorkItem
  BY <1>1 DEF WalkStart, Tracker
<1>3. ASSUME NEW s \in start, NEW o \in todo
      PROVE  s.offset < o
  <2>1. CASE t.ready # {}
    BY <2>1, <1>3 DEF WalkStart, TrackerSafe
  <2>2. CASE t.ready = {}
    <3>1. s \in buffer /\ InitialisesReady(t, s)
      BY <2>2 DEF WalkStart
    <3>2. /\ s.offset # o /\ ~ (s.previousOffset < o /\ o < s.offset)
          /\ t.committedPlusOne <= o /\ t.lastCommittedOffset < o
          /\ s.offset \in Nat /\ o \in Nat
      BY <1>1, <3>1 DEF StampTrue, TrackerSafe, WorkItem
    <3>3. QED
      BY <3>1, <3>2 DEF InitialisesReady
  <2>3. QED
    BY <2>1, <2>2
<1>4. ASSUME NEW r \in FlushedReady(t), NEW o \in todo
      PROVE  r.offset < o
  <2>1. CASE r \in start
    BY <1>3, <2>1
  <2>2. CASE \E s \in start : r \in Reached(buffer, s.offset)
    <3>1. PICK s \in start : r \in Reached(buffer, s.offset)
      BY <2>2
    <3>2. s.offset \in Nat
      BY <1>2 DEF WorkItem
    <3>3. QED
      BY <1>1, <1>3, <3>1, <3>2, ReachedSafe
  <2>3. QED
    BY <2>1, <2>2 DEF FlushedReady, Highest
<1>5. ASSUME NEW kept \in SUBSET t.gapBuffer,
             FlushGapBuffer(t) =
               [t EXCEPT !.needsGapAdvance = FALSE, !.ready = FlushedReady(t), !.gapBuffer = kept]
      PROVE  TrackerSafe(FlushGapBuffer(t), todo)
  BY <1>4, <1>5 DEF TrackerSafe, Tracker
<1>6. QED
  BY <1>5, FlushShape, Zenon

(* Repairing the successor keeps the tracker safe: the interval below it   *)
(* holds nothing still to be processed.  (repairSuccessor)                 *)
LEMMA RepairSafe ==
  ASSUME NEW t \in Tracker, NEW twin, NEW todo \in SUBSET Nat,
         TrackerSafe(t, todo)
  PROVE  TrackerSafe(RepairSuccessor(t, twin), todo)
<1> DEFINE successor == Successor(t, twin)
           kept == {g \in t.gapBuffer \ successor : \A s \in successor : g.offset >= s.offset}
           u == [t EXCEPT !.ready = successor, !.gapBuffer = kept, !.needsGapAdvance = kept # {}]
<1>1. successor \subseteq {g \in t.gapBuffer : ProvableSuccessor(t, g)}
  BY DEF Successor
<1>2. RepairSuccessor(t, twin) \in {t, u}
  BY DEF RepairSuccessor
<1> HIDE DEF successor
<1>3. ASSUME NEW s \in successor, NEW o \in todo
      PROVE  s.offset < o
  <2>1. /\ s \in t.gapBuffer /\ ProvableSuccessor(t, s)
        /\ s.offset \in Nat /\ s.previousOffset \in Int /\ o \in Nat
        /\ t.committedPlusOne \in Int /\ t.lastCommittedOffset \in Int
    BY <1>1 DEF Tracker, WorkItem
  <2>2. /\ s.offset # o /\ ~ (s.previousOffset < o /\ o < s.offset)
        /\ t.committedPlusOne <= o /\ t.lastCommittedOffset < o
    BY <2>1 DEF TrackerSafe, StampTrue
  <2>3. QED
    BY <2>1, <2>2 DEF ProvableSuccessor
<1>4. TrackerSafe(u, todo)
  BY <1>1, <1>3 DEF TrackerSafe, Tracker
<1>5. QED
  BY <1>2, <1>4

(* Everything a commit tick does to a tracker before it calls the broker   *)
(* keeps it safe.  (CommitOffsets up to the broker call)                   *)
LEMMA PrepareSafe ==
  ASSUME NEW t \in Tracker, NEW isAssigned \in BOOLEAN, NEW twin,
         NEW todo \in SUBSET Nat, TrackerSafe(t, todo)
  PROVE  /\ PrepareCommit(t, isAssigned, twin) \in Tracker
         /\ TrackerSafe(PrepareCommit(t, isAssigned, twin), todo)
<1> DEFINE f == FlushGapBuffer(t)
           u == RepairSuccessor(f, twin)
<1>1. f \in Tracker /\ TrackerSafe(f, todo)
  BY FlushType, FlushSafe
<1>2. u \in Tracker /\ TrackerSafe(u, todo)
  BY <1>1, RepairType, RepairSafe
<1>3. PrepareCommit(t, isAssigned, twin)
        = IF isAssigned THEN DropStaleReady(u) ELSE DiscardOrphanedTracker(f)
  BY DEF PrepareCommit
<1> HIDE DEF f, u
<1>4. DropStaleReady(u) \in Tracker /\ TrackerSafe(DropStaleReady(u), todo)
  BY <1>2, Zenon DEF DropStaleReady, TrackerSafe, Tracker
<1>5. DiscardOrphanedTracker(f) \in Tracker /\ TrackerSafe(DiscardOrphanedTracker(f), todo)
  BY <1>1, Zenon DEF DiscardOrphanedTracker, TrackerSafe, Tracker
<1>6. QED
  BY <1>3, <1>4, <1>5

(* So does recording an accepted commit.  (CommitOffsets, on success)      *)
LEMMA CommitSucceededSafe ==
  ASSUME NEW t \in Tracker, NEW todo \in SUBSET Nat, TrackerSafe(t, todo)
  PROVE  /\ CommitSucceeded(t) \in Tracker
         /\ TrackerSafe(CommitSucceeded(t), todo)
<1>1. CASE t.ready = {}
  BY <1>1 DEF CommitSucceeded
<1>2. CASE t.ready # {}
  <2>1. PICK r \in t.ready : ReadyOffset(t) = r.offset
    BY <1>2, ReadyOffsetIsReady
  <2>2. r.offset \in Nat /\ \A o \in todo : r.offset < o
    BY DEF Tracker, WorkItem, TrackerSafe
  <2> DEFINE c == IF r.offset + 1 > t.committedPlusOne THEN r.offset + 1 ELSE t.committedPlusOne
             l == IF r.offset > t.lastCommittedOffset THEN r.offset ELSE t.lastCommittedOffset
             flag == t.needsGapAdvance \/ t.gapBuffer # {}
  <2>3. /\ c \in Int /\ l \in Int /\ flag \in BOOLEAN
        /\ \A o \in todo : c <= o /\ l < o
    BY <2>2 DEF Tracker, TrackerSafe
  <2> DEFINE u == [t EXCEPT !.committedPlusOne = c, !.lastCommittedOffset = l]
             v == [u EXCEPT !.ready = {}, !.needsGapAdvance = flag]
  <2>4. CommitSucceeded(t) = v
    BY <1>2, <2>1 DEF CommitSucceeded, Tracker
  <2> HIDE DEF c, l, flag
  <2>5. u \in Tracker /\ TrackerSafe(u, todo)
    BY <2>3, Zenon DEF TrackerSafe, Tracker
  <2> HIDE DEF u
  <2>6. v \in Tracker /\ TrackerSafe(v, todo)
    BY <2>3, <2>5, Zenon DEF TrackerSafe, Tracker
  <2>7. QED
    BY <2>4, <2>6
<1>3. QED
  BY <1>1, <1>2

(* A reset to a position with only processed records below it, and the     *)
(* revoke mark, keep the tracker safe.  (ResetCommittedOffsets,            *)
(* MarkPartitionRevoked)                                                   *)
LEMMA ResetSafe ==
  ASSUME NEW t \in Tracker, NEW baseline \in Nat \cup {-1}, NEW todo \in SUBSET Nat,
         TrackerSafe(t, todo), \A o \in todo : baseline <= o
  PROVE  /\ ResetCommittedOffset(t, baseline) \in Tracker
         /\ TrackerSafe(ResetCommittedOffset(t, baseline), todo)
  BY DEF ResetCommittedOffset, TrackerSafe, Tracker

(* The revoke mark changes nothing that safety reads.                      *)
(* (MarkPartitionRevoked)                                                  *)
LEMMA MarkRevokedSafe ==
  ASSUME NEW t \in Tracker, NEW todo, TrackerSafe(t, todo)
  PROVE  /\ MarkTrackerRevoked(t) \in Tracker
         /\ TrackerSafe(MarkTrackerRevoked(t), todo)
  BY DEF MarkTrackerRevoked, TrackerSafe, Tracker

-----------------------------------------------------------------------------
(* The safety invariant, one partition at a time.                          *)

PartitionSafe(p) ==
  /\ \A o \in Unprocessed(p) : brokerPos[p] <= o
  /\ TrackerSafe(tracker[p], Unprocessed(p))
  /\ \A w \in inflight[p] : ItemSafe(w, Unprocessed(p))
  /\ ReadSafe(p)

(* The invariant is a conjunction over partitions, so that a step is       *)
(* looked at one partition at a time.                                      *)
LEMMA SafetyByPartition == SafetyInv <=> \A p \in Partitions : PartitionSafe(p)
  BY DEF SafetyInv, PartitionSafe

(* Records still to be processed are offsets.                              *)
LEMMA UnprocessedType ==
  ASSUME TypeOK, NEW p \in Partitions
  PROVE  Unprocessed(p) \in SUBSET Nat
<1>1. log[p] \in SUBSET Nat /\ \A w \in inflight[p] : w.offset \in Nat
  BY OffsetAssumption DEF TypeOK, Records, WorkItem
<1>2. QED
  BY <1>1 DEF Unprocessed, Current

(* A partition no step touches stays safe.                                 *)
LEMMA PartitionFrame ==
  ASSUME NEW q \in Partitions, PartitionSafe(q),
         log'[q] = log[q], brokerPos'[q] = brokerPos[q], done'[q] = done[q],
         phase'[q] = phase[q], epoch'[q] = epoch[q], fetchPos'[q] = fetchPos[q],
         prevOffset'[q] = prevOffset[q], inflight'[q] = inflight[q],
         tracker'[q] = tracker[q]
  PROVE  PartitionSafe(q)'
  BY DEF PartitionSafe, ReadSafe, Unprocessed, Current

(* Items stay safe while records are processed.                            *)
LEMMA ItemSafeShrinks ==
  ASSUME NEW w, NEW todo, NEW less \in SUBSET todo, ItemSafe(w, todo)
  PROVE  ItemSafe(w, less)
  BY DEF ItemSafe, StampTrue

(* The empty trackers and the empty pipeline of NewCommitter are safe.     *)
LEMMA SafetyInit == Init => TypeOK /\ SafetyInv
<1> SUFFICES ASSUME Init
             PROVE  TypeOK /\ SafetyInv
  OBVIOUS
<1>1. TypeOK
  BY NewTrackerType, OffsetAssumption, Zenon DEF Init, TypeOK, Records, Phases
<1>2. ASSUME NEW p \in Partitions
      PROVE  PartitionSafe(p)
  <2>1. /\ Unprocessed(p) \in SUBSET Nat
        /\ brokerPos[p] = -1 /\ tracker[p] = NewTracker /\ inflight[p] = {}
        /\ fetchPos[p] = 0 /\ prevOffset[p] = -1 /\ Current(p) = {}
    BY <1>1, UnprocessedType DEF Init, Current
  <2>2. TrackerSafe(tracker[p], Unprocessed(p))
    BY <2>1 DEF TrackerSafe, NewTracker
  <2>3. ReadSafe(p)
    BY <2>1 DEF ReadSafe
  <2>4. QED
    BY <2>1, <2>2, <2>3 DEF PartitionSafe
<1>3. QED
  BY <1>1, <1>2, SafetyByPartition

-----------------------------------------------------------------------------
(* Rebalance steps.                                                        *)

(* An assign that resets stamps and baseline keeps the invariant.          *)
(* (resetFirstSeen, ResetCommittedOffsets)                                 *)
LEMMA AssignResetSafe ==
  ASSUME TypeOK, SafetyInv, NEW p \in Partitions, AssignReset(p)
  PROVE  TypeOK' /\ SafetyInv'
<1>1. PICK baseline \in Nat \cup {-1} :
        /\ baseline \in {brokerPos[p], -1}
        /\ tracker' = [tracker EXCEPT ![p] = ResetCommittedOffset(@, baseline)]
  BY Zenon DEF AssignReset, ResetPrevOffsets, TypeOK
<1>2. PartitionSafe(p) /\ tracker[p] \in Tracker
  BY SafetyByPartition DEF TypeOK
<1>3. /\ log'[p] = log[p] /\ done'[p] = done[p] /\ inflight'[p] = inflight[p]
      /\ brokerPos'[p] = brokerPos[p] /\ epoch'[p] = epoch[p] + 1
      /\ prevOffset'[p] = -1
      /\ fetchPos'[p] = IF brokerPos[p] > 0 THEN brokerPos[p] ELSE 0
  BY DEF AssignReset, ResetPrevOffsets, TypeOK, brokerVars
<1>4. Current(p)' = {}
  BY <1>2, <1>3 DEF Current, PartitionSafe, ReadSafe, TypeOK, WorkItem
<1>5. Unprocessed(p)' \subseteq Unprocessed(p) /\ Unprocessed(p) \in SUBSET Nat
  BY <1>3, <1>4, UnprocessedType DEF Unprocessed
<1>6. \A o \in Unprocessed(p)' : brokerPos[p] <= o /\ baseline <= o
  BY <1>1, <1>2, <1>5 DEF PartitionSafe
<1>7. /\ ResetCommittedOffset(tracker[p], baseline) \in Tracker
      /\ TrackerSafe(ResetCommittedOffset(tracker[p], baseline), Unprocessed(p)')
  BY <1>2, <1>5, <1>6, TrackerSafeShrinks, ResetSafe, Zenon DEF PartitionSafe
<1>8. TypeOK'
  BY <1>1, <1>7 DEF AssignReset, ResetPrevOffsets, Enter, TypeOK, brokerVars, Phases
<1>9. PartitionSafe(p)'
  <2>1. TrackerSafe(tracker[p], Unprocessed(p))'
    BY <1>1, <1>7 DEF TypeOK
  <2>2. \A w \in inflight'[p] : ItemSafe(w, Unprocessed(p)')
    BY <1>2, <1>3, <1>5, ItemSafeShrinks DEF PartitionSafe
  <2>3. ReadSafe(p)'
    BY <1>2, <1>3, <1>4, <1>5, <1>6 DEF ReadSafe, PartitionSafe, TypeOK, WorkItem
  <2>4. QED
    BY <1>3, <1>6, <2>1, <2>2, <2>3 DEF PartitionSafe
<1>10. ASSUME NEW q \in Partitions, q # p
       PROVE  PartitionSafe(q)'
  BY <1>1, <1>10, SafetyByPartition, PartitionFrame
     DEF AssignReset, ResetPrevOffsets, Enter, TypeOK, brokerVars
<1>11. QED
  BY <1>8, <1>9, <1>10, SafetyByPartition DEF SafetyInv, PartitionSafe

(* The other rebalance steps change no more than the phase, assigned and   *)
(* the revoke mark of a tracker.                                           *)
LEMMA PhaseStepSafe ==
  ASSUME TypeOK, SafetyInv, NEW p \in Partitions, NEW from \in Phases, NEW to \in Phases,
         from # "unowned", Enter(p, from, to),
         UNCHANGED <<brokerVars, readVars, done, epoch, inflight, batchOpen>>,
         assigned' \subseteq Partitions,
         \/ UNCHANGED tracker
         \/ tracker' = [tracker EXCEPT ![p] = MarkTrackerRevoked(@)]
  PROVE  TypeOK' /\ SafetyInv'
<1>1. PartitionSafe(p) /\ tracker[p] \in Tracker /\ Unprocessed(p) \in SUBSET Nat
  BY SafetyByPartition, UnprocessedType DEF TypeOK
<1>2. /\ MarkTrackerRevoked(tracker[p]) \in Tracker
      /\ TrackerSafe(MarkTrackerRevoked(tracker[p]), Unprocessed(p))
  BY <1>1, MarkRevokedSafe DEF PartitionSafe
<1>3. TypeOK'
  BY <1>2 DEF Enter, TypeOK, brokerVars, readVars
<1>4. Current(p)' \subseteq Current(p)
  BY DEF Enter, Current, TypeOK
<1>5. Unprocessed(p)' \subseteq Unprocessed(p)
  BY <1>4 DEF Unprocessed, brokerVars
<1>6. PartitionSafe(p)'
  <2>1. tracker'[p] \in {tracker[p], MarkTrackerRevoked(tracker[p])}
    BY DEF TypeOK
  <2>2. tracker'[p] \in Tracker /\ TrackerSafe(tracker'[p], Unprocessed(p))
    BY <1>1, <1>2, <2>1 DEF PartitionSafe
  <2>3. TrackerSafe(tracker'[p], Unprocessed(p)')
    BY <1>5, <2>2, TrackerSafeShrinks
  <2>4. \A w \in inflight'[p] : ItemSafe(w, Unprocessed(p)')
    BY <1>1, <1>5, ItemSafeShrinks DEF PartitionSafe
  <2>5. ReadSafe(p)'
    BY <1>1, <1>4, <1>5 DEF ReadSafe, PartitionSafe, readVars
  <2>6. \A o \in Unprocessed(p)' : brokerPos'[p] <= o
    BY <1>1, <1>5 DEF PartitionSafe, brokerVars
  <2>7. QED
    BY <2>3, <2>4, <2>5, <2>6 DEF PartitionSafe
<1>7. ASSUME NEW q \in Partitions, q # p
      PROVE  PartitionSafe(q)'
  BY <1>7, SafetyByPartition, PartitionFrame DEF Enter, TypeOK, brokerVars, readVars
<1>8. QED
  BY <1>3, <1>6, <1>7, ZenonT(30) DEF SafetyInv, PartitionSafe

(* So does every step of HandleRebalance.                                  *)
LEMMA RebalanceSafe ==
  ASSUME TypeOK, SafetyInv, NEW p \in Partitions, Rebalance(p)
  PROVE  TypeOK' /\ SafetyInv'
<1>1. CASE AssignReset(p)
  BY <1>1, AssignResetSafe
<1>2. CASE MarkPartitionAssigned(p)
  BY <1>2, PhaseStepSafe DEF MarkPartitionAssigned, Phases, TypeOK
<1>3. CASE AckAssign(p)
  BY <1>3, PhaseStepSafe DEF AckAssign, Phases, TypeOK, committerVars
<1>4. CASE BeginDrain(p)
  BY <1>4, PhaseStepSafe DEF BeginDrain, Phases, TypeOK, committerVars
<1>5. CASE MarkPartitionRevoked(p)
  BY <1>5, PhaseStepSafe, Zenon DEF MarkPartitionRevoked, Phases, TypeOK
<1>6. CASE AckRevoke(p)
  BY <1>6, PhaseStepSafe DEF AckRevoke, Phases, TypeOK, committerVars
<1>7. QED
  BY <1>1, <1>2, <1>3, <1>4, <1>5, <1>6 DEF Rebalance

-----------------------------------------------------------------------------
(* Reading and ingesting.                                                  *)

(* A record is stamped truthfully: within an epoch nothing is read between *)
(* two consecutive deliveries.  (GetPrevious)                              *)
LEMMA DeliverSafe ==
  ASSUME TypeOK, SafetyInv, NEW p \in Partitions, NEW o \in log[p], Deliver(p, o)
  PROVE  TypeOK' /\ SafetyInv'
<1> DEFINE w == Stamped(p, o)
<1>1. PartitionSafe(p) /\ tracker[p] \in Tracker /\ Unprocessed(p) \in SUBSET Nat
  BY SafetyByPartition, UnprocessedType DEF TypeOK
<1>2. o \in Nat /\ prevOffset[p] \in Nat \cup {-1} /\ fetchPos[p] \in Nat /\ epoch[p] \in Nat
  BY OffsetAssumption DEF TypeOK, Records
<1>3. w \in WorkItem
  BY <1>2 DEF Stamped, WorkItem
<1>4. /\ inflight'[p] = inflight[p] \cup {w}
      /\ log'[p] = log[p] /\ done'[p] = done[p] /\ brokerPos'[p] = brokerPos[p]
      /\ phase'[p] = phase[p] /\ epoch'[p] = epoch[p] /\ tracker'[p] = tracker[p]
      /\ prevOffset'[p] = o /\ fetchPos'[p] = o + 1
  BY DEF Deliver, TypeOK, brokerVars, committerVars
<1>5. w.offset = o /\ w.readTime = epoch[p]
  BY ZenonT(30) DEF Stamped
<1>6. Current(p)' \subseteq Current(p) \cup {w}
  BY <1>4 DEF Current
<1>7. Unprocessed(p)' \subseteq Unprocessed(p)
  BY <1>4, <1>5, <1>6 DEF Unprocessed
<1>8. TypeOK'
  BY <1>2, <1>3 DEF Deliver, TypeOK, brokerVars, committerVars
<1>9. ItemSafe(w, Unprocessed(p)')
  <2>1. \A u \in Unprocessed(p)' : /\ u \in Nat
                                   /\ u \in log[p] \/ \E v \in Current(p) : u = v.offset
    BY <1>1, <1>7 DEF Unprocessed
  <2>2. \A u \in log[p] : u >= fetchPos[p] => o <= u
    BY DEF Deliver, NextRecord
  <2>3. o >= fetchPos[p]
    BY DEF Deliver, NextRecord
  <2>4. CASE prevOffset[p] = -1
    <3>1. w.previousOffset = o - 1 /\ w.first = TRUE
      BY <2>4, Zenon DEF Stamped
    <3>2. \A u \in Unprocessed(p)' : fetchPos[p] <= u
      BY <1>1, <1>7, <2>4 DEF PartitionSafe, ReadSafe
    <3>3. \A v \in Current(p) : v.offset <= -1 /\ v.offset \in Nat
      BY <1>1, <2>4 DEF PartitionSafe, ReadSafe, Current, TypeOK, WorkItem
    <3>4. \A u \in Unprocessed(p)' : o <= u
      BY <1>2, <2>1, <2>2, <3>2, <3>3
    <3>5. QED
      BY <1>2, <1>5, <2>1, <3>1, <3>4 DEF ItemSafe, StampTrue
  <2>5. CASE prevOffset[p] # -1
    <3>1. w.previousOffset = prevOffset[p] /\ w.first = FALSE
      BY <2>5, Zenon DEF Stamped
    <3>2. fetchPos[p] = prevOffset[p] + 1 /\ \A v \in Current(p) : v.offset <= prevOffset[p]
      BY <1>1, <2>5 DEF PartitionSafe, ReadSafe
    <3>3. \A u \in Unprocessed(p)' : ~ (prevOffset[p] < u /\ u < o)
      BY <1>2, <2>1, <2>2, <3>2
    <3>4. QED
      BY <1>2, <1>5, <2>3, <3>1, <3>2, <3>3 DEF ItemSafe, StampTrue
  <2>6. QED
    BY <2>4, <2>5
<1>10. PartitionSafe(p)'
  <2>1. TrackerSafe(tracker'[p], Unprocessed(p)')
    BY <1>1, <1>4, <1>7, TrackerSafeShrinks DEF PartitionSafe
  <2>2. \A v \in inflight'[p] : ItemSafe(v, Unprocessed(p)')
    BY <1>1, <1>4, <1>7, <1>9, ItemSafeShrinks DEF PartitionSafe
  <2>3. ReadSafe(p)'
    <3>1. \A v \in Current(p) : v.offset <= o
      BY <1>1, <1>2 DEF PartitionSafe, ReadSafe, Deliver, NextRecord, Current, TypeOK, WorkItem
    <3>2. QED
      BY <1>1, <1>2, <1>4, <1>5, <1>6, <3>1 DEF ReadSafe, PartitionSafe
  <2>4. QED
    BY <1>1, <1>4, <1>7, <2>1, <2>2, <2>3 DEF PartitionSafe
<1>11. ASSUME NEW q \in Partitions, q # p
       PROVE  PartitionSafe(q)'
  BY <1>11, SafetyByPartition, PartitionFrame DEF Deliver, TypeOK, brokerVars, committerVars
<1>12. QED
  BY <1>8, <1>10, <1>11 DEF SafetyInv, PartitionSafe

(* Ingesting a completion keeps the invariant.  (startIngestLoop,          *)
(* processCommit)                                                          *)
LEMMA ProcessCommitItemSafe ==
  ASSUME TypeOK, SafetyInv, NEW p \in Partitions, NEW w \in inflight[p],
         ProcessCommitItem(p, w)
  PROVE  TypeOK' /\ SafetyInv'
<1>1. PartitionSafe(p) /\ tracker[p] \in Tracker /\ w \in WorkItem
  BY SafetyByPartition DEF TypeOK
<1>2. /\ inflight'[p] = inflight[p] \ {w} /\ done'[p] = done[p] \cup {w.offset}
      /\ tracker'[p] = ProcessCommit(tracker[p], w)
      /\ log'[p] = log[p] /\ brokerPos'[p] = brokerPos[p] /\ phase'[p] = phase[p]
      /\ epoch'[p] = epoch[p] /\ prevOffset'[p] = prevOffset[p] /\ fetchPos'[p] = fetchPos[p]
  BY DEF ProcessCommitItem, TypeOK, brokerVars, readVars
<1>3. Current(p)' \subseteq Current(p)
  BY <1>2, ZenonT(30) DEF Current
<1>4. /\ Unprocessed(p)' \subseteq Unprocessed(p)
      /\ Unprocessed(p) \in SUBSET Nat
      /\ w.offset \notin Unprocessed(p)'
  BY <1>2, <1>3, UnprocessedType, ZenonT(30) DEF Unprocessed
<1>5. TrackerSafe(tracker[p], Unprocessed(p)') /\ ItemSafe(w, Unprocessed(p)')
  BY <1>1, <1>4, TrackerSafeShrinks, ItemSafeShrinks DEF PartitionSafe
<1>6. /\ ProcessCommit(tracker[p], w) \in Tracker
      /\ TrackerSafe(ProcessCommit(tracker[p], w), Unprocessed(p)')
  BY <1>1, <1>4, <1>5, ProcessCommitSafe
<1>7. TypeOK'
  BY <1>1, <1>6 DEF ProcessCommitItem, TypeOK, brokerVars, readVars, WorkItem
<1>8. PartitionSafe(p)'
  <2>1. \A v \in inflight'[p] : ItemSafe(v, Unprocessed(p)')
    BY <1>1, <1>2, <1>4, ItemSafeShrinks, ZenonT(30) DEF PartitionSafe
  <2>2. ReadSafe(p)'
    BY <1>1, <1>2, <1>3, <1>4 DEF ReadSafe, PartitionSafe
  <2>3. TrackerSafe(tracker'[p], Unprocessed(p)')
    BY <1>2, <1>6, Zenon
  <2>4. \A o \in Unprocessed(p)' : brokerPos'[p] <= o
    BY <1>1, <1>2, <1>4, Zenon DEF PartitionSafe
  <2>5. QED
    BY <2>1, <2>2, <2>3, <2>4, Zenon DEF PartitionSafe
<1>9. ASSUME NEW q \in Partitions, q # p
      PROVE  PartitionSafe(q)'
  BY <1>9, SafetyByPartition, PartitionFrame DEF ProcessCommitItem, TypeOK, brokerVars, readVars
<1>10. QED
  BY <1>7, <1>8, <1>9, ZenonT(30) DEF SafetyInv, PartitionSafe

(* A step that only replaces trackers by safe ones, and positions by safe  *)
(* ones, is safe.                                                          *)
LEMMA TrackersStepSafe ==
  ASSUME TypeOK, SafetyInv,
         UNCHANGED <<log, readVars, done, phase, epoch, inflight>>,
         NEW p \in Partitions,
         TrackerSafe(tracker'[p], Unprocessed(p)),
         \A o \in Unprocessed(p) : brokerPos'[p] <= o
  PROVE  PartitionSafe(p)'
<1>1. PartitionSafe(p)
  BY SafetyByPartition
<1>2. Current(p)' = Current(p)
  BY DEF Current
<1>3. Unprocessed(p)' = Unprocessed(p)
  BY <1>2 DEF Unprocessed
<1>4. ReadSafe(p)'
  BY <1>1, <1>2, <1>3 DEF ReadSafe, PartitionSafe, readVars
<1>5. QED
  BY <1>1, <1>3, <1>4 DEF PartitionSafe

(* The flush at the end of a batch keeps the invariant.                    *)
(* (flushGapBuffers)                                                       *)
LEMMA EndBatchSafe ==
  ASSUME TypeOK, SafetyInv, EndBatch
  PROVE  TypeOK' /\ SafetyInv'
<1>1. ASSUME NEW p \in Partitions
      PROVE  /\ tracker'[p] = FlushGapBuffer(tracker[p])
             /\ FlushGapBuffer(tracker[p]) \in Tracker
             /\ PartitionSafe(p)'
  <2>1. PartitionSafe(p) /\ tracker[p] \in Tracker /\ Unprocessed(p) \in SUBSET Nat
    BY SafetyByPartition, UnprocessedType DEF TypeOK
  <2>2. tracker'[p] = FlushGapBuffer(tracker[p]) /\ brokerPos'[p] = brokerPos[p]
    BY DEF EndBatch, brokerVars
  <2>3. /\ FlushGapBuffer(tracker[p]) \in Tracker
        /\ TrackerSafe(FlushGapBuffer(tracker[p]), Unprocessed(p))
    BY <2>1, FlushType, FlushSafe DEF PartitionSafe
  <2>4. PartitionSafe(p)'
    BY <2>1, <2>2, <2>3, TrackersStepSafe DEF EndBatch, brokerVars, PartitionSafe
  <2>5. QED
    BY <2>2, <2>3, <2>4
<1>2. TypeOK'
  BY <1>1, Zenon DEF EndBatch, TypeOK, brokerVars, readVars
<1>3. QED
  BY <1>1, <1>2 DEF SafetyInv, PartitionSafe

(* A commit is safe: what is committed is a Ready record, and everything   *)
(* below a Ready record has been processed.                                *)
LEMMA CommitOffsetsSafe ==
  ASSUME TypeOK, SafetyInv, NEW answer \in Answers, NEW twin \in Twins,
         CommitOffsets(answer, twin)
  PROVE  TypeOK' /\ SafetyInv'
<1> DEFINE prepared(p) == PrepareCommit(tracker[p], p \in assigned, twin[p])
<1>1. ASSUME NEW p \in Partitions
      PROVE  /\ tracker'[p] \in Tracker
             /\ brokerPos'[p] \in Nat \cup {-1}
             /\ PartitionSafe(p)'
  <2>1. PartitionSafe(p) /\ tracker[p] \in Tracker /\ Unprocessed(p) \in SUBSET Nat
    BY SafetyByPartition, UnprocessedType DEF TypeOK
  <2>2. prepared(p) \in Tracker /\ TrackerSafe(prepared(p), Unprocessed(p))
    <3>1. TrackerSafe(tracker[p], Unprocessed(p)) /\ (p \in assigned) \in BOOLEAN
      BY <2>1 DEF PartitionSafe
    <3>2. QED
      BY <2>1, <3>1, PrepareSafe, Zenon
  <2>3. /\ tracker'[p] \in {prepared(p), CommitSucceeded(prepared(p))}
        /\ \/ brokerPos'[p] = brokerPos[p]
           \/ /\ prepared(p).ready # {}
              /\ brokerPos'[p] = ReadyOffset(prepared(p)) + 1
    BY DEF CommitOffsets, Prepared, BrokerPosAfter
  <2> HIDE DEF prepared
  <2>4. tracker'[p] \in Tracker /\ TrackerSafe(tracker'[p], Unprocessed(p))
    BY <2>1, <2>2, <2>3, CommitSucceededSafe, ZenonT(30)
  <2>5. brokerPos'[p] \in Nat \cup {-1} /\ \A o \in Unprocessed(p) : brokerPos'[p] <= o
    <3>1. CASE brokerPos'[p] = brokerPos[p]
      BY <2>1, <3>1 DEF PartitionSafe, TypeOK
    <3>2. CASE prepared(p).ready # {} /\ brokerPos'[p] = ReadyOffset(prepared(p)) + 1
      <4>1. PICK r \in prepared(p).ready : ReadyOffset(prepared(p)) = r.offset
        BY <2>2, <3>2, ReadyOffsetIsReady
      <4>2. r.offset \in Nat /\ \A o \in Unprocessed(p) : r.offset < o
        BY <2>2 DEF Tracker, WorkItem, TrackerSafe
      <4>3. QED
        BY <2>1, <3>2, <4>1, <4>2
    <3>3. QED
      BY <2>3, <3>1, <3>2
  <2>6. PartitionSafe(p)'
    BY <2>4, <2>5, TrackersStepSafe DEF CommitOffsets
  <2>7. QED
    BY <2>4, <2>5, <2>6
<1>2. /\ tracker' = [p \in Partitions |-> tracker'[p]]
      /\ brokerPos' = [p \in Partitions |-> brokerPos'[p]]
  BY ZenonT(30) DEF CommitOffsets, Prepared, BrokerPosAfter, TypeOK
<1>3. TypeOK'
  BY <1>1, <1>2 DEF CommitOffsets, TypeOK, readVars
<1>4. QED
  BY <1>1, <1>3, ZenonT(30) DEF SafetyInv, PartitionSafe

-----------------------------------------------------------------------------
(* The world outside.                                                      *)

(* Another owner that processes and commits a prefix keeps the invariant.  *)
LEMMA OtherOwnerSafe ==
  ASSUME TypeOK, SafetyInv, NEW p \in Partitions, NEW o \in log[p], OtherOwnerCommits(p, o)
  PROVE  TypeOK' /\ SafetyInv'
<1>1. PartitionSafe(p) /\ tracker[p] \in Tracker /\ Unprocessed(p) \in SUBSET Nat
  BY SafetyByPartition, UnprocessedType DEF TypeOK
<1>2. o \in Nat /\ log[p] \in SUBSET Nat
  BY OffsetAssumption DEF TypeOK, Records
<1>3. /\ inflight'[p] = inflight[p] /\ done'[p] = done[p] \cup {r \in log[p] : r <= o}
      /\ tracker'[p] = tracker[p] /\ log'[p] = log[p] /\ brokerPos'[p] = o + 1
      /\ phase'[p] = phase[p] /\ phase[p] = "unowned" /\ epoch'[p] = epoch[p]
      /\ prevOffset'[p] = prevOffset[p] /\ fetchPos'[p] = fetchPos[p]
  BY DEF OtherOwnerCommits, TypeOK, readVars, committerVars
<1>4. Current(p)' = {} /\ Current(p) = {}
  BY <1>3, ZenonT(30) DEF Current
<1>5. Unprocessed(p)' \subseteq Unprocessed(p) /\ \A u \in Unprocessed(p)' : o < u
  <2>1. Unprocessed(p) = log[p] \ done[p]
    BY <1>4, ZenonT(30) DEF Unprocessed
  <2>2. Unprocessed(p)' = log[p] \ (done[p] \cup {r \in log[p] : r <= o})
    BY <1>3, <1>4, ZenonT(30) DEF Unprocessed
  <2>3. \A u \in Unprocessed(p)' : u \in Unprocessed(p) /\ u \in log[p] /\ ~(u <= o)
    BY <2>1, <2>2, ZenonT(30)
  <2>4. QED
    BY <1>2, <2>3
<1>6. TypeOK'
  BY <1>2 DEF OtherOwnerCommits, TypeOK, readVars, committerVars
<1>7. PartitionSafe(p)'
  <2>1. TrackerSafe(tracker'[p], Unprocessed(p)')
    BY <1>1, <1>3, <1>5, TrackerSafeShrinks DEF PartitionSafe
  <2>2. \A v \in inflight'[p] : ItemSafe(v, Unprocessed(p)')
    BY <1>1, <1>3, <1>5, ItemSafeShrinks DEF PartitionSafe
  <2>3. ReadSafe(p)'
    BY <1>1, <1>3, <1>4, <1>5 DEF ReadSafe, PartitionSafe
  <2>4. \A u \in Unprocessed(p)' : u \in Nat /\ brokerPos'[p] <= u
    <3>1. \A u \in Unprocessed(p)' : u \in Nat /\ o < u
      BY <1>1, <1>5, ZenonT(30)
    <3>2. brokerPos'[p] = o + 1 /\ o \in Nat
      BY <1>2, <1>3, Zenon
    <3>3. QED
      BY <3>1, <3>2
  <2>5. QED
    BY <2>1, <2>2, <2>3, <2>4, ZenonT(30) DEF PartitionSafe
<1>8. ASSUME NEW q \in Partitions, q # p
      PROVE  PartitionSafe(q)'
  BY <1>8, SafetyByPartition, PartitionFrame DEF OtherOwnerCommits, TypeOK, readVars, committerVars
<1>9. QED
  BY <1>6, <1>7, <1>8 DEF SafetyInv, PartitionSafe

(* Compaction removes records, and what has to be processed with them.     *)
LEMMA CompactSafe ==
  ASSUME TypeOK, SafetyInv, NEW p \in Partitions, NEW o \in log[p], Compact(p, o)
  PROVE  TypeOK' /\ SafetyInv'
<1>1. PartitionSafe(p) /\ tracker[p] \in Tracker
  BY SafetyByPartition DEF TypeOK
<1>2. /\ log'[p] = log[p] \ {o} /\ done'[p] = done[p] /\ inflight'[p] = inflight[p]
      /\ tracker'[p] = tracker[p] /\ brokerPos'[p] = brokerPos[p] /\ phase'[p] = phase[p]
      /\ epoch'[p] = epoch[p] /\ prevOffset'[p] = prevOffset[p] /\ fetchPos'[p] = fetchPos[p]
  BY DEF Compact, TypeOK, readVars, committerVars
<1>3. Current(p)' = Current(p)
  BY <1>2 DEF Current
<1>4. Unprocessed(p)' \subseteq Unprocessed(p)
  BY <1>2, <1>3 DEF Unprocessed
<1>5. TypeOK'
  BY DEF Compact, TypeOK, readVars, committerVars
<1>6. PartitionSafe(p)'
  <2>1. TrackerSafe(tracker'[p], Unprocessed(p)')
    BY <1>1, <1>2, <1>4, TrackerSafeShrinks DEF PartitionSafe
  <2>2. \A v \in inflight'[p] : ItemSafe(v, Unprocessed(p)')
    BY <1>1, <1>2, <1>4, ItemSafeShrinks DEF PartitionSafe
  <2>3. ReadSafe(p)'
    BY <1>1, <1>2, <1>3, <1>4 DEF ReadSafe, PartitionSafe
  <2>4. \A u \in Unprocessed(p)' : brokerPos'[p] <= u
    BY <1>1, <1>2, <1>4, Zenon DEF PartitionSafe
  <2>5. QED
    BY <2>1, <2>2, <2>3, <2>4, Zenon DEF PartitionSafe
<1>7. ASSUME NEW q \in Partitions, q # p
      PROVE  PartitionSafe(q)'
  BY <1>7, SafetyByPartition, PartitionFrame DEF Compact, TypeOK, readVars, committerVars
<1>8. QED
  BY <1>5, <1>6, <1>7 DEF SafetyInv, PartitionSafe

-----------------------------------------------------------------------------
(* Every step keeps types and safety.                                      *)
LEMMA SafetyStep == TypeOK /\ SafetyInv /\ [Next]_vars => TypeOK' /\ SafetyInv'
<1> SUFFICES ASSUME TypeOK, SafetyInv, [Next]_vars
             PROVE  TypeOK' /\ SafetyInv'
  OBVIOUS
<1>1. CASE \E p \in Partitions : Rebalance(p)
  BY <1>1, RebalanceSafe
<1>2. CASE \E p \in Partitions : \E o \in log[p] : Deliver(p, o)
  BY <1>2, DeliverSafe
<1>3. CASE \E p \in Partitions : \E w \in inflight[p] : ProcessCommitItem(p, w)
  BY <1>3, ProcessCommitItemSafe
<1>4. CASE EndBatch
  BY <1>4, EndBatchSafe
<1>5. CASE \E answer \in Answers, twin \in Twins : CommitOffsets(answer, twin)
  BY <1>5, CommitOffsetsSafe
<1>6. CASE \E p \in Partitions : \E o \in log[p] : OtherOwnerCommits(p, o)
  BY <1>6, OtherOwnerSafe
<1>7. CASE \E p \in Partitions : \E o \in log[p] : Compact(p, o)
  BY <1>7, CompactSafe
<1>8. CASE UNCHANGED vars
  <2>1. TypeOK'
    BY <1>8 DEF vars, TypeOK
  <2>2. SafetyInv'
    BY <1>8, ZenonT(30) DEF vars, SafetyInv, ReadSafe, Unprocessed, Current
  <2>3. QED
    BY <2>1, <2>2
<1>9. QED
  BY <1>1, <1>2, <1>3, <1>4, <1>5, <1>6, <1>7, <1>8 DEF Next

(* The types and the safety invariant hold in every reachable state.       *)
THEOREM SafetyInvariant == Spec => [](TypeOK /\ SafetyInv)
  BY SafetyInit, SafetyStep, PTL DEF Spec

(* Every state is well typed, for every number of partitions, records and  *)
(* epochs.  (The representation of OffsetsTracker and Committer.)          *)
THEOREM TypeCorrect == Spec => []TypeOK
  BY SafetyInvariant, PTL

(* At least once, in general: no commit ever passes a record that still    *)
(* has to be processed.  (checkAndAdvance, flushGapBuffers,                *)
(* repairSuccessor, ResetCommittedOffsets and CommitOffsets together.)     *)
THEOREM AtLeastOnceHolds == Spec => []AtLeastOnce
<1>1. SafetyInv => AtLeastOnce
  BY DEF SafetyInv, AtLeastOnce
<1>2. QED
  BY <1>1, SafetyInvariant, PTL
=============================================================================
