------------------------ MODULE BandwidthAggregator ------------------------
(***************************************************************************)
(* demux/bandwidth: packets pushed by the adapter's goroutines are kept    *)
(* until a timer, a full buffer or Stop has them delivered to the host's   *)
(* sink.  Whoever flushes takes the whole buffer under the mutex and       *)
(* delivers it outside, so several may deliver at once.  A packet is known *)
(* by the number of its Receive.                                           *)
(***************************************************************************)
EXTENDS Integers, FiniteSets

CONSTANTS
  Receivers,  \* goroutines of the adapter that call Receive
  Stops,      \* calls of Stop, one per Shutdown
  MaxBuffer,  \* packets that trigger a flush
  MaxPackets  \* bound: packets received

ASSUME AggregatorAssumption ==
  /\ IsFiniteSet(Receivers) /\ Receivers \cap Stops = {}
  /\ "loop" \notin Receivers \cup Stops
  /\ MaxBuffer \in Nat \ {0} /\ MaxPackets \in Nat

VARIABLES
  buffered,  \* packets in the buffer
  held,      \* [goroutine -> packets it has taken and not yet delivered]
  at,        \* [goroutine -> where it is]; "loop" is flushLoop
  quit,      \* "open" or "closed"; "closedEarly" when no loop had been started
  sent,      \* flushed and dropped packets together
  received,  \* how many packets were received, 1 .. received
  late       \* history: those received since a Stop last took the buffer

aggregatorVars == <<buffered, held, at, quit, sent, received, late>>

Flushers == Receivers \cup Stops \cup {"loop"}

AggregatorInit ==
  /\ buffered = {} /\ sent = {} /\ received = 0 /\ late = {}
  /\ held = [f \in Flushers |-> {}]
  /\ at = [f \in Flushers |-> IF f = "loop" THEN "off" ELSE "idle"]
  /\ quit = "open"

Goes(f, from, to) == at[f] = from /\ at' = [at EXCEPT ![f] = to]

(* Start, from Subscribe.                                                  *)
StartLoop ==
  /\ Goes("loop", "off", "select")
  /\ UNCHANGED <<buffered, held, quit, sent, received, late>>

(* Some Stop has taken the buffer for its final drain.                     *)
Drained == \E s \in Stops : at[s] \in {"sink", "returned"}

ReceiveIf(r, shouldFlush) ==
  /\ received < MaxPackets
  /\ Goes(r, "idle", IF shouldFlush THEN "flush" ELSE "idle")
  /\ buffered' = buffered \cup {received + 1}
  /\ received' = received + 1
  /\ late' = IF Drained THEN late \cup {received + 1} ELSE late
  /\ UNCHANGED <<held, quit, sent>>

(* Mutant: only the packet that reaches the threshold exactly flushes, and *)
(* it compares before it is appended.                                      *)
ReceivePacketBefore(r) == ReceiveIf(r, Cardinality(buffered) = MaxBuffer)

ReceivePacket(r) == ReceiveIf(r, Cardinality(buffered) + 1 >= MaxBuffer)

FlushTimer ==
  /\ Goes("loop", "select", "flush")
  /\ UNCHANGED <<buffered, held, quit, sent, received, late>>

SeeQuitClosed ==
  /\ quit # "open"
  /\ Goes("loop", "select", "ended")
  /\ UNCHANGED <<buffered, held, quit, sent, received, late>>

-----------------------------------------------------------------------------
(* flush.                                                                  *)

AfterFlush(f) == IF f = "loop" THEN "select" ELSE IF f \in Stops THEN "returned" ELSE "idle"

TakeBuffer(f) ==
  /\ Goes(f, "flush", IF buffered = {} THEN AfterFlush(f) ELSE "sink")
  /\ held' = [held EXCEPT ![f] = buffered]
  /\ buffered' = {}
  /\ late' = IF f \in Stops THEN {} ELSE late
  /\ UNCHANGED <<quit, sent, received>>

(* The sink accepts the packet, or it is counted as dropped.               *)
SinkPacket(f) ==
  /\ \E n \in held[f] :
       /\ \A m \in held[f] : n <= m
       /\ Goes(f, "sink", IF held[f] = {n} THEN AfterFlush(f) ELSE "sink")
       /\ held' = [held EXCEPT ![f] = @ \ {n}]
       /\ sent' = sent \cup {n}
  /\ UNCHANGED <<buffered, quit, received, late>>

-----------------------------------------------------------------------------
(* The first Stop closes quit.                                             *)
StopAggregator(s) ==
  /\ Goes(s, "idle", "wait")
  /\ quit' = IF quit # "open" THEN quit ELSE IF at["loop"] = "off" THEN "closedEarly" ELSE "closed"
  /\ UNCHANGED <<buffered, held, sent, received, late>>

AfterWait(s, to) ==
  /\ Goes(s, "wait", to)
  /\ UNCHANGED <<buffered, held, quit, sent, received, late>>

(* Mutants: Stop does not wait for the loop; it does not flush itself.     *)
LoopGoneUnawaited(s) == AfterWait(s, "flush")
LoopGoneUnflushed(s) == at["loop"] \in {"off", "ended"} /\ AfterWait(s, "returned")

LoopGone(s) == at["loop"] \in {"off", "ended"} /\ AfterWait(s, "flush")

AggregatorNext ==
  \/ StartLoop
  \/ \E r \in Receivers : ReceivePacket(r)
  \/ FlushTimer
  \/ SeeQuitClosed
  \/ \E f \in Flushers : TakeBuffer(f) \/ SinkPacket(f)
  \/ \E s \in Stops : StopAggregator(s) \/ LoopGone(s)

AggregatorSpec == AggregatorInit /\ [][AggregatorNext]_aggregatorVars

-----------------------------------------------------------------------------
(* Every packet received is in exactly one place: none is lost, none is    *)
(* delivered twice.  And after a Stop has returned neither the buffer nor  *)
(* a flush loop started before it holds a packet that was there before it; *)
(* another Receive or Stop may still be delivering.                        *)
(* (flush, Stop: "final drain")                                            *)
StopDrains ==
  /\ buffered \cup sent \cup UNION {held[f] : f \in Flushers} = 1 .. received
  /\ buffered \cap sent = {}
  /\ \A f \in Flushers :
       /\ held[f] \cap (buffered \cup sent) = {}
       /\ \A g \in Flushers \ {f} : held[f] \cap held[g] = {}
  /\ (\E s \in Stops : at[s] = "returned") =>
       buffered \subseteq late /\ (quit = "closed" => held["loop"] = {})

(* However long the sink blocks, the buffer exceeds its threshold by fewer *)
(* packets than there are receivers on their way to flush it.  (Receive)   *)
BufferBounded ==
  Cardinality(buffered) < MaxBuffer + Cardinality({r \in Receivers : at[r] = "flush"})

(* Behind both: only a flusher at the sink holds packets, quit is open     *)
(* until the first Stop, and a Stop that is past its wait has seen a loop  *)
(* end that was started before it.  (Stop: close(quit), wg.Wait)           *)
AggregatorInv ==
  /\ StopDrains /\ BufferBounded
  /\ received \in Nat /\ IsFiniteSet(buffered)
  /\ held \in [Flushers -> SUBSET (1 .. received)]
  /\ at \in [Flushers -> {"off", "idle", "select", "wait", "flush", "sink", "returned", "ended"}]
  /\ quit \in {"open", "closed", "closedEarly"}
  /\ \A f \in Flushers : held[f] # {} => at[f] = "sink"
  /\ quit = "open" => \A s \in Stops : at[s] = "idle"
  /\ quit = "closed" =>
       /\ at["loop"] # "off"
       /\ (\E s \in Stops : at[s] \notin {"idle", "wait"}) => at["loop"] = "ended"
  /\ Drained => buffered \subseteq late
=============================================================================
