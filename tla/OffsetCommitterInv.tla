-------------------------- MODULE OffsetCommitterInv --------------------------
(***************************************************************************)
(* The inductive invariants behind AtLeastOnce, CommitMonotonic and        *)
(* CommitOwnership.  They are stated for a tracker and a set of offsets    *)
(* still to be processed, so that what one operator of OffsetsTracker      *)
(* preserves can be said (and proved) without the rest of the system.      *)
(***************************************************************************)
EXTENDS OffsetCommitter

(* A stamp tells the truth: nothing that is still to be processed lies     *)
(* strictly between the record and the predecessor it was stamped with.    *)
StampTrue(w, todo) ==
  /\ w.previousOffset < w.offset
  /\ \A o \in todo : ~ (w.previousOffset < o /\ o < w.offset)

(* Every position a tracker may commit or advance from has only processed  *)
(* records below it, and what is buffered has been processed.              *)
TrackerSafe(t, todo) ==
  /\ \A o \in todo : t.committedPlusOne <= o /\ t.lastCommittedOffset < o
  /\ \A r \in t.ready : \A o \in todo : r.offset < o
  /\ \A g \in t.gapBuffer : g.offset \notin todo /\ StampTrue(g, todo)

(* The same for an item in flight: a First record has nothing to be        *)
(* processed below it.                                                     *)
ItemSafe(w, todo) ==
  /\ StampTrue(w, todo)
  /\ w.first => \A o \in todo : w.offset <= o

(* The poll position: the records this epoch still reads come after those  *)
(* it has read, and before the first of them nothing is left to process.   *)
ReadSafe(p) ==
  /\ prevOffset[p] # -1 => fetchPos[p] = prevOffset[p] + 1
  /\ prevOffset[p] = -1 => \A o \in Unprocessed(p) : fetchPos[p] <= o
  /\ \A w \in Current(p) : w.offset <= prevOffset[p]
  /\ \A w \in inflight[p] : w.readTime <= epoch[p]

SafetyInv ==
  \A p \in Partitions :
    /\ \A o \in Unprocessed(p) : brokerPos[p] <= o
    /\ TrackerSafe(tracker[p], Unprocessed(p))
    /\ \A w \in inflight[p] : ItemSafe(w, Unprocessed(p))
    /\ ReadSafe(p)

(* Committer.assigned and the progress of HandleRebalance agree.           *)
OwnershipInv ==
  \A p \in Partitions : p \in assigned <=> phase[p] \in {"marked", "owned", "draining"}

(* Whatever the tracker commits next is not below position b: the baseline *)
(* is not, or (an answer was lost after the commit was applied) the Ready  *)
(* record that was committed then is still there to be committed again.    *)
NotBehind(t, b) ==
  \/ b <= t.committedPlusOne
  \/ t.ready # {} /\ \A r \in t.ready : b <= r.offset + 1

(* All of Ready (one item at most) has one offset, and offsets are those   *)
(* of records.                                                             *)
ReadyUnique(t) == \A r, s \in t.ready : r.offset = s.offset

OffsetsBounded(t) == \A w \in t.ready \cup t.gapBuffer : w.offset \in Records

MonotonicInv ==
  \A p \in Partitions :
    /\ ReadyUnique(tracker[p])
    /\ OffsetsBounded(tracker[p])
    /\ \A w \in inflight[p] : w.offset \in Records
    /\ phase[p] = "reset" => brokerPos[p] <= tracker[p].committedPlusOne
    /\ p \in assigned => NotBehind(tracker[p], brokerPos[p])

(* Every tracker is one that the loops of a tick are verified for: no item *)
(* is in it twice, Ready holds one at most.  (processCommit, CommitOffsets *)
(* and ResetCommittedOffsets keep what TrackerLoops starts from)           *)
TrackersFit == \A p \in Partitions : IsTracker(tracker[p], MaxOffset, MaxEpoch)

(* Behind it: an epoch reads an offset once, so no two items agree in both *)
(* their offset and their epoch, and an item in flight is not in the       *)
(* tracker as well.                                                        *)
ItemsDistinct(p) ==
  LET items == inflight[p] \cup Held(tracker[p])
  IN  /\ \A v, w \in items : v.offset = w.offset /\ v.readTime = w.readTime => v = w
      /\ inflight[p] \cap Held(tracker[p]) = {}
      /\ \A w \in items : /\ w.offset \in Records /\ w.previousOffset \in -1 .. w.offset - 1
                          /\ w.readTime \in 1 .. epoch[p]
                          /\ w.readTime = epoch[p] => w.offset < fetchPos[p]

FitInv ==
  /\ TrackersFit
  /\ \A p \in Partitions :
       /\ ItemsDistinct(p)
       /\ epoch[p] <= MaxEpoch
       /\ phase[p] # "unowned" => epoch[p] >= 1
       /\ brokerPos[p] <= MaxOffset + 1

(* The epoch has yet to ingest the first record it reads, which is not     *)
(* below position b, and no commit of it has been accepted.                *)
AwaitsFirst(p, b) ==
  /\ tracker[p].lastCommittedOffset = -1
  /\ \/ prevOffset[p] = -1 /\ b <= fetchPos[p]
     \/ \E v \in Current(p) : v.first /\ b <= v.offset

(* No record of the epoch, in flight or in the tracker, is below the first *)
(* one while that is in flight, and there is none before it is read.       *)
FirstIsLowest(p) ==
  phase[p] # "unowned" =>
    \A w \in inflight[p] \cup Held(tracker[p]) :
      w.readTime = epoch[p] =>
        /\ prevOffset[p] # -1
        /\ \A v \in Current(p) : v.first => v.offset <= w.offset

(* Behind RegressOnlyByOrphan: an assigned tracker that may commit below   *)
(* the committed position is one that awaits the epoch's first record.     *)
RegressInv ==
  /\ TypeOK /\ FitInv
  /\ \A p \in Partitions :
       /\ FirstIsLowest(p)
       /\ phase[p] = "reset" => prevOffset[p] = -1 /\ AwaitsFirst(p, brokerPos[p])
       /\ p \in assigned => NotBehind(tracker[p], brokerPos[p]) \/ AwaitsFirst(p, brokerPos[p])

-----------------------------------------------------------------------------
(* The committer seen from the consumer group.                             *)
Promise == INSTANCE CommitLog WITH
  Offsets <- Records,
  pending <- [p \in Partitions |-> Unprocessed(p)],
  position <- brokerPos,
  owned <- assigned

(* The committer implements CommitLog when the adapter always knows the    *)
(* committed position of what it assigns: through rebalances, orphans,     *)
(* lost answers and repairs, every step is a commit that advances owned    *)
(* partitions over processed records, or leaves all positions alone.       *)
(* (Committer as a whole: CommitOffsets, processCommit, HandleRebalance.)  *)
ImplementsCommitLog == Promise!Spec
=============================================================================
