-------------------------- MODULE MetricsCollector --------------------------
(***************************************************************************)
(* demux/metrics and demux/alloc: the end of a work item's life.  The      *)
(* committer hands a finished item to Collect, which never blocks; one     *)
(* goroutine delivers the items to the sink and returns them to the pool.  *)
(* Items are interchangeable here and are counted.                         *)
(***************************************************************************)
EXTENDS Integers

CONSTANT BufferSize  \* capacity of the workItems channel

ASSUME BufferAssumption == BufferSize \in Nat \ {0}

VARIABLES
  out,        \* work items borrowed from the pool and not returned
  workItems,  \* items in the collector's channel
  collect,    \* Collect: "idle", or "yield" with an item it found no room for
  loop,       \* startCollectLoop: "select", "sink" or "ended"
  quit,       \* closed: by Stop; seen: the loop's own flag
  stats       \* CollectedCount, DroppedCount, SendFailedCount

collectorVars == <<out, workItems, collect, loop, quit, stats>>

CollectorInit ==
  /\ out = 0 /\ workItems = 0
  /\ collect = "idle" /\ loop = "select"
  /\ quit = [closed |-> FALSE, seen |-> FALSE]
  /\ stats = [collected |-> 0, dropped |-> 0, failed |-> 0]

Borrow == out' = out + 1

Count(counter) == stats' = [stats EXCEPT ![counter] = @ + 1]

Enqueue == workItems' = workItems + 1 /\ UNCHANGED <<out, stats>>

(* Collect: room at once, or yield and try once more.                      *)
Collect ==
  /\ collect = "idle"
  /\ IF workItems < BufferSize THEN Enqueue /\ UNCHANGED collect
     ELSE collect' = "yield" /\ UNCHANGED <<out, workItems, stats>>
  /\ UNCHANGED <<loop, quit>>

CollectAgainOr(drop) ==
  /\ collect = "yield"
  /\ collect' = "idle"
  /\ IF workItems < BufferSize THEN Enqueue ELSE drop /\ UNCHANGED workItems
  /\ UNCHANGED <<loop, quit>>

(* Mutants: an item that finds no room is not returned to the pool; or it  *)
(* is returned and not counted.                                            *)
CollectAgainLeaks == CollectAgainOr(Count("dropped") /\ UNCHANGED out)
CollectAgainUncounted == CollectAgainOr(out' = out - 1 /\ UNCHANGED stats)

CollectAgain == CollectAgainOr(Count("dropped") /\ out' = out - 1)

TakeItem ==
  /\ loop = "select" /\ workItems > 0
  /\ loop' = "sink"
  /\ workItems' = workItems - 1
  /\ UNCHANGED <<out, collect, quit, stats>>

(* sendToMetricsSink: the sink accepts, or returns an error or panics; the *)
(* item goes back to the pool either way.  Then the test for the end.      *)
SendToMetricsSink(outcome) ==
  /\ loop = "sink"
  /\ Count(outcome) /\ out' = out - 1
  /\ loop' = IF quit.seen /\ workItems = 0 THEN "ended" ELSE "select"
  /\ UNCHANGED <<workItems, collect, quit>>

(* Mutants: quit ends the loop at once; the end waits for one more item.   *)
SeeQuitWaits ==
  /\ loop = "select" /\ quit.closed
  /\ quit' = [quit EXCEPT !.seen = TRUE]
  /\ UNCHANGED <<out, workItems, collect, loop, stats>>

SeeQuitEnds ==
  /\ loop = "select" /\ quit.closed
  /\ quit' = [quit EXCEPT !.seen = TRUE]
  /\ loop' = "ended"
  /\ UNCHANGED <<out, workItems, collect, stats>>

SeeQuit ==
  /\ loop = "select" /\ quit.closed
  /\ quit' = [quit EXCEPT !.seen = TRUE]
  /\ loop' = IF workItems = 0 THEN "ended" ELSE "select"
  /\ UNCHANGED <<out, workItems, collect, stats>>

CollectLoop ==
  \/ TakeItem
  \/ \E outcome \in {"collected", "failed"} : SendToMetricsSink(outcome)
  \/ SeeQuit

(* Stop closes quit, once, and waits for the loop.                         *)
CloseQuit == quit' = [quit EXCEPT !.closed = TRUE]
CollectorStopped == loop = "ended"

Accounted == stats.collected + stats.dropped + stats.failed

CollectorTypeOK ==
  /\ out \in Nat /\ workItems \in 0 .. BufferSize
  /\ collect \in {"idle", "yield"} /\ loop \in {"select", "sink", "ended"}
  /\ quit \in [closed : BOOLEAN, seen : BOOLEAN]
  /\ stats \in [collected : Nat, dropped : Nat, failed : Nat]
=============================================================================
