--------------------------- MODULE OffsetCommitter ---------------------------
(***************************************************************************)
(* The offset committer of demux/offset together with what decides whether *)
(* it is correct: the stamps put on records as they are read, completions  *)
(* in any order, rebalances whose drain may leave work items in flight     *)
(* (orphans), commits the broker rejects or whose answer is lost, other    *)
(* owners of the partition, and log compaction.                            *)
(*                                                                         *)
(* One step is one critical section of Committer.mu, except that an ingest *)
(* batch is a run of ProcessCommitItem steps closed by EndBatch: batchOpen *)
(* says that the ingest loop holds the mutex.  The broker call of a commit *)
(* is made under the mutex, so a commit is one step.                       *)
(*                                                                         *)
(* A worker completing an item and the item travelling through commitsIn   *)
(* are not separate steps: completions are taken in any order and at any   *)
(* later time, so the delay in the channel adds nothing.                   *)
(***************************************************************************)
EXTENDS OffsetsTracker, FiniteSets

CONSTANTS
  Partitions,     \* the partitions of the topic
  MaxOffset,      \* bound: the highest offset of a record
  MaxEpoch,       \* bound: how often a partition is assigned to this consumer
  MaxInFlight,    \* bound: work items of one epoch in flight at once
  Answers,        \* what may become of a commit request (see CommitOffsets)
  LookupMayFail   \* whether the adapter may report an unknown baseline (-1)

ASSUME OffsetAssumption == MaxOffset \in Nat

ASSUME EpochAssumption == MaxEpoch \in Nat \ {0}

ASSUME AnswersAssumption == {"ok"} \subseteq Answers /\ Answers \subseteq {"ok", "rejected", "answerLost"}

ASSUME LookupAssumption == LookupMayFail \in BOOLEAN

Records == 0 .. MaxOffset

VARIABLES
  log,        \* [partition -> offsets of the records on the broker]
  brokerPos,  \* [partition -> the group's committed position, -1 if none]
  done,       \* [partition -> offsets of records an owner has processed]
  phase,      \* [partition -> how far HandleRebalance is with it]
  epoch,      \* [partition -> number of the current or last ownership epoch]
  fetchPos,   \* [partition -> offset the broker client reads next]
  prevOffset, \* [partition -> last offset read in this epoch, -1 if none]
  inflight,   \* [partition -> work items dispatched and not yet ingested]
  tracker,    \* [partition -> OffsetsTracker]
  assigned,   \* Committer.assigned
  batchOpen   \* the ingest loop is inside a batch and holds Committer.mu

brokerVars == <<log, brokerPos>>
readVars == <<fetchPos, prevOffset>>
committerVars == <<tracker, assigned, batchOpen>>
vars == <<log, brokerPos, done, phase, epoch, fetchPos, prevOffset, inflight,
          tracker, assigned, batchOpen>>

(* Assign runs unowned -> reset -> marked -> owned, Revoke runs            *)
(* owned -> draining -> revoked -> unowned; the last step of each is the   *)
(* acknowledgement to the broker.                                          *)
Phases == {"unowned", "reset", "marked", "owned", "draining", "revoked"}

Init ==
  /\ log \in [Partitions -> SUBSET Records]
  /\ brokerPos = [p \in Partitions |-> -1]
  /\ done = [p \in Partitions |-> {}]
  /\ phase = [p \in Partitions |-> "unowned"]
  /\ epoch = [p \in Partitions |-> 0]
  /\ fetchPos = [p \in Partitions |-> 0]
  /\ prevOffset = [p \in Partitions |-> -1]
  /\ inflight = [p \in Partitions |-> {}]
  /\ tracker = [p \in Partitions |-> NewTracker]
  /\ assigned = {}
  /\ batchOpen = FALSE

-----------------------------------------------------------------------------
(* Rebalance: HandleRebalance's steps, in the order it takes them.         *)

Enter(p, from, to) ==
  /\ phase[p] = from
  /\ phase' = [phase EXCEPT ![p] = to]

(* Mutant: the predecessor stamps of the last epoch are not reset.         *)
AssignResetKeepsStamps(p) ==
  /\ ~batchOpen
  /\ epoch[p] < MaxEpoch
  /\ Enter(p, "unowned", "reset")
  /\ tracker' = [tracker EXCEPT ![p] = ResetCommittedOffset(@, brokerPos[p])]
  /\ epoch' = [epoch EXCEPT ![p] = @ + 1]
  /\ fetchPos' = [fetchPos EXCEPT ![p] = IF brokerPos[p] > 0 THEN brokerPos[p] ELSE 0]
  /\ UNCHANGED <<brokerVars, prevOffset, done, inflight, assigned, batchOpen>>

(* The stamps of the partition start anew: the next record read is First.  *)
ResetPrevOffsets(p) == prevOffset' = [prevOffset EXCEPT ![p] = -1]

(* resetFirstSeen, then ResetCommittedOffsets with the position the adapter *)
(* looked up.  The client starts to read there, or at the first record.     *)
AssignReset(p) ==
  /\ ~batchOpen
  /\ epoch[p] < MaxEpoch
  /\ Enter(p, "unowned", "reset")
  /\ \E baseline \in {brokerPos[p]} \cup (IF LookupMayFail THEN {-1} ELSE {}) :
       tracker' = [tracker EXCEPT ![p] = ResetCommittedOffset(@, baseline)]
  /\ epoch' = [epoch EXCEPT ![p] = @ + 1]
  /\ ResetPrevOffsets(p)
  /\ fetchPos' = [fetchPos EXCEPT ![p] = IF brokerPos[p] > 0 THEN brokerPos[p] ELSE 0]
  /\ UNCHANGED <<brokerVars, done, inflight, assigned, batchOpen>>

MarkPartitionAssigned(p) ==
  /\ ~batchOpen
  /\ Enter(p, "reset", "marked")
  /\ assigned' = assigned \cup {p}
  /\ UNCHANGED <<brokerVars, readVars, done, epoch, inflight, tracker, batchOpen>>

AckAssign(p) ==
  /\ Enter(p, "marked", "owned")
  /\ UNCHANGED <<brokerVars, readVars, committerVars, done, epoch, inflight>>

(* The drain begins: nothing more is delivered.  It ends whenever the      *)
(* drain timeout says so, so whatever is still in flight is orphaned.      *)
BeginDrain(p) ==
  /\ Enter(p, "owned", "draining")
  /\ UNCHANGED <<brokerVars, readVars, committerVars, done, epoch, inflight>>

(* Mutant: the partition stays in the assigned map.                        *)
MarkPartitionRevokedKeepsAssigned(p) ==
  /\ ~batchOpen
  /\ Enter(p, "draining", "revoked")
  /\ tracker' = [tracker EXCEPT ![p] = MarkTrackerRevoked(@)]
  /\ UNCHANGED <<brokerVars, readVars, done, epoch, inflight, assigned, batchOpen>>

MarkPartitionRevoked(p) ==
  /\ ~batchOpen
  /\ Enter(p, "draining", "revoked")
  /\ assigned' = assigned \ {p}
  /\ tracker' = [tracker EXCEPT ![p] = MarkTrackerRevoked(@)]
  /\ UNCHANGED <<brokerVars, readVars, done, epoch, inflight, batchOpen>>

AckRevoke(p) ==
  /\ Enter(p, "revoked", "unowned")
  /\ UNCHANGED <<brokerVars, readVars, committerVars, done, epoch, inflight>>

-----------------------------------------------------------------------------
(* Reading: the poll loop delivers the next record of the log, and         *)
(* GetPrevious stamps it with the record read before it in this epoch.     *)

NextRecord(p, offset) ==
  /\ offset \in log[p]
  /\ offset >= fetchPos[p]
  /\ \A o \in log[p] : o >= fetchPos[p] => offset <= o

Stamped(p, offset) ==
  [offset |-> offset,
   previousOffset |-> IF prevOffset[p] = -1 THEN offset - 1 ELSE prevOffset[p],
   first |-> prevOffset[p] = -1,
   readTime |-> epoch[p]]

(* The work items read in the current ownership epoch; all others in       *)
(* flight are orphans.                                                     *)
Current(p) == {w \in inflight[p] : w.readTime = epoch[p] /\ phase[p] # "unowned"}

Deliver(p, offset) ==
  /\ phase[p] = "owned"
  /\ NextRecord(p, offset)
  /\ Cardinality(Current(p)) < MaxInFlight
  /\ inflight' = [inflight EXCEPT ![p] = @ \cup {Stamped(p, offset)}]
  /\ prevOffset' = [prevOffset EXCEPT ![p] = offset]
  /\ fetchPos' = [fetchPos EXCEPT ![p] = offset + 1]
  /\ UNCHANGED <<brokerVars, committerVars, done, phase, epoch>>

-----------------------------------------------------------------------------
(* Ingest.                                                                 *)

ProcessCommitItem(p, w) ==
  /\ batchOpen' = TRUE
  /\ inflight' = [inflight EXCEPT ![p] = @ \ {w}]
  /\ done' = [done EXCEPT ![p] = @ \cup {w.offset}]
  /\ tracker' = [tracker EXCEPT ![p] = ProcessCommit(@, w)]
  /\ UNCHANGED <<brokerVars, readVars, phase, epoch, assigned>>

(* The deferred flush at the end of a batch, for every partition.          *)
EndBatch ==
  /\ batchOpen
  /\ batchOpen' = FALSE
  /\ tracker' = [p \in Partitions |-> FlushGapBuffer(tracker[p])]
  /\ UNCHANGED <<brokerVars, readVars, done, phase, epoch, inflight, assigned>>

-----------------------------------------------------------------------------
(* Commits.                                                                *)

(* For every partition, the epoch whose twin its scan may meet first.      *)
Twins == [Partitions -> 1 .. MaxEpoch]

Prepared(twin) ==
  [p \in Partitions |-> PrepareCommit(tracker[p], p \in assigned, twin[p])]

BrokerPosAfter(prepared) ==
  [p \in Partitions |-> IF prepared[p].ready = {} THEN brokerPos[p]
                                                  ELSE ReadyOffset(prepared[p]) + 1]

(* answer: the broker accepts the commit ("ok"), refuses it ("rejected"), *)
(* or applies it but the answer is lost ("answerLost").  The two failures  *)
(* look the same to the code.  A tick with nothing to commit makes no call *)
(* and comes out the same whatever the answer.                             *)
CommitOffsets(answer, twin) ==
  LET prepared == Prepared(twin)
  IN  /\ ~batchOpen
      /\ brokerPos' = IF answer = "rejected" THEN brokerPos ELSE BrokerPosAfter(prepared)
      /\ tracker' = IF answer = "ok"
                    THEN [p \in Partitions |-> CommitSucceeded(prepared[p])]
                    ELSE prepared
      /\ UNCHANGED <<log, readVars, done, phase, epoch, inflight, assigned, batchOpen>>

-----------------------------------------------------------------------------
(* The world outside.                                                      *)

(* While this consumer does not own the partition, another one may process *)
(* the records from the committed position up to o and commit them.        *)
OtherOwnerCommits(p, o) ==
  /\ phase[p] = "unowned"
  /\ o >= brokerPos[p]
  /\ brokerPos' = [brokerPos EXCEPT ![p] = o + 1]
  /\ done' = [done EXCEPT ![p] = @ \cup {r \in log[p] : r <= o}]
  /\ UNCHANGED <<log, readVars, committerVars, phase, epoch, inflight>>

(* Compaction or retention removes a record.                               *)
Compact(p, o) ==
  /\ log' = [log EXCEPT ![p] = @ \ {o}]
  /\ UNCHANGED <<brokerPos, readVars, committerVars, done, phase, epoch, inflight>>

-----------------------------------------------------------------------------
Rebalance(p) ==
  \/ AssignReset(p)
  \/ MarkPartitionAssigned(p)
  \/ AckAssign(p)
  \/ BeginDrain(p)
  \/ MarkPartitionRevoked(p)
  \/ AckRevoke(p)

Next ==
  \/ \E p \in Partitions : Rebalance(p)
  \/ \E p \in Partitions : \E o \in log[p] : Deliver(p, o)
  \/ \E p \in Partitions : \E w \in inflight[p] : ProcessCommitItem(p, w)
  \/ EndBatch
  \/ \E answer \in Answers, twin \in Twins :
       CommitOffsets(answer, twin)
  \/ \E p \in Partitions : \E o \in log[p] : OtherOwnerCommits(p, o)
  \/ \E p \in Partitions : \E o \in log[p] : Compact(p, o)

Spec == Init /\ [][Next]_vars

(* The goroutines keep running: the poll loop delivers, workers finish the *)
(* items of the current epoch, the ingest loop closes its batches, and the *)
(* commit ticker fires with the broker accepting a commit in the end.      *)
(* Nothing is assumed of orphans, rebalances, other owners or compaction.  *)
Fairness ==
  /\ \A p \in Partitions :
       /\ WF_vars(\E o \in log[p] : Deliver(p, o))
       /\ WF_vars(\E w \in Current(p) : ProcessCommitItem(p, w))
  /\ WF_vars(EndBatch)
  /\ WF_vars(\E twin \in Twins : CommitOffsets("ok", twin))

FairSpec == Spec /\ Fairness

-----------------------------------------------------------------------------
TypeOK ==
  /\ log \in [Partitions -> SUBSET Records]
  /\ brokerPos \in [Partitions -> Nat \cup {-1}]
  /\ done \in [Partitions -> SUBSET Nat]
  /\ phase \in [Partitions -> Phases]
  /\ epoch \in [Partitions -> Nat]
  /\ fetchPos \in [Partitions -> Nat]
  /\ prevOffset \in [Partitions -> Nat \cup {-1}]
  /\ inflight \in [Partitions -> SUBSET WorkItem]
  /\ tracker \in [Partitions -> Tracker]
  /\ assigned \subseteq Partitions
  /\ batchOpen \in BOOLEAN

(* The records that still have to be processed: those on the broker and    *)
(* those read in this epoch (compaction may have removed them since) that  *)
(* no owner has processed yet.                                             *)
Unprocessed(p) == (log[p] \cup {w.offset : w \in Current(p)}) \ done[p]

(* At least once: the committed position is never beyond a record that     *)
(* still has to be processed, whatever orphans complete, commits fail,     *)
(* owners come and go and records are compacted away in between.  (The     *)
(* watermark rules of checkAndAdvance, flushGapBuffers, repairSuccessor.)  *)
AtLeastOnce ==
  \A p \in Partitions : \A o \in Unprocessed(p) : brokerPos[p] <= o

(* The committed position of a partition never moves backwards: neither    *)
(* this consumer's own commits nor those of the owners in between are      *)
(* undone by an orphan of an earlier epoch.  (ResetCommittedOffsets, the   *)
(* stale-Ready discard and the assigned map.)                              *)
CommitMonotonic ==
  [][\A p \in Partitions : brokerPos[p] <= brokerPos'[p]]_vars

(* CommitOffsets only ever commits a partition between the reset of its    *)
(* baseline and the acknowledgement of its revoke.  (MarkPartitionRevoked  *)
(* before ackRebalance, and the assigned check in CommitOffsets.)          *)
CommitOwnership ==
  [][(\E answer \in Answers, twin \in Twins :
        CommitOffsets(answer, twin))
     => \A p \in Partitions : brokerPos'[p] # brokerPos[p] =>
          phase[p] \in {"marked", "owned", "draining"}]_vars

(* When the adapter cannot look the baseline up, the position may move     *)
(* back, but only by the first commit of an epoch and only to an orphan's  *)
(* record, before the first record the epoch itself reads is ingested.     *)
(* (processCommit's First rule under an unknown baseline, and the discard  *)
(* of a stale Ready in CommitOffsets.)                                     *)
RegressOnlyByOrphan ==
  [][\A p \in Partitions : brokerPos'[p] < brokerPos[p] =>
       /\ tracker[p].lastCommittedOffset = -1
       /\ prevOffset[p] = -1 \/ \E w \in Current(p) : w.first
       /\ \E twin \in Twins : \E r \in Prepared(twin)[p].ready :
            r.readTime < epoch[p] /\ brokerPos'[p] = r.offset + 1]_vars

(* No silent stall: once a partition stays owned, its log is read to the   *)
(* end, the last record read is committed and none of the epoch's work     *)
(* items is left in the tracker, although orphans may still complete, or   *)
(* never do.  (The re-initialisation rules of flushGapBuffers and          *)
(* repairSuccessor, and the sites that set NeedsGapAdvance.)               *)
EventualCompleteness ==
  \A p \in Partitions :
    <>[](phase[p] = "owned") =>
      <>[](/\ \A o \in log[p] : o < fetchPos[p]
           /\ prevOffset[p] < brokerPos[p] \/ prevOffset[p] = -1
           /\ \A w \in tracker[p].ready \cup tracker[p].gapBuffer : w.readTime < epoch[p])
=============================================================================
