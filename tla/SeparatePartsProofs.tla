------------------------ MODULE SeparatePartsProofs ------------------------
(***************************************************************************)
(* Proofs for the parts that share no state with the others.               *)
(***************************************************************************)
EXTENDS BandwidthAggregator, KeyHash, ThroughputWindow, FiniteSetTheorems,
        WellFoundedInduction, TLAPS

(* For the steps that name no prover: time enough on a slow machine.       *)
USE SMTT(30), ZenonT(30)

-----------------------------------------------------------------------------
(* The bandwidth aggregator.                                               *)

(* A goroutine that holds nothing moves on and touches no packet: enough   *)
(* is known of where it goes to keep the invariant.                        *)
LEMMA AggregatorMoves ==
  ASSUME AggregatorInv, NEW f \in Flushers, NEW to,
         UNCHANGED <<buffered, held, sent, received, late>>,
         at' = [at EXCEPT ![f] = to], held[f] = {},
         at[f] # "flush" \/ f \notin Receivers,
         at' \in [Flushers -> {"off", "idle", "select", "wait", "flush", "sink", "returned", "ended"}],
         quit' \in {"open", "closed", "closedEarly"},
         quit' = "open" => \A s \in Stops : at'[s] = "idle",
         quit' = "closed" =>
           /\ at'["loop"] # "off"
           /\ (\E s \in Stops : at'[s] \notin {"idle", "wait"}) => at'["loop"] = "ended",
         Drained' => Drained
  PROVE  AggregatorInv'
<1>1. BufferBounded'
  <2> DEFINE flushing == {r \in Receivers : at[r] = "flush"}
  <2>1. IsFiniteSet(flushing') /\ flushing \subseteq flushing'
    BY AggregatorAssumption, FS_Subset DEF AggregatorInv, Flushers
  <2>2. Cardinality(flushing) <= Cardinality(flushing') /\ Cardinality(flushing) \in Nat
        /\ Cardinality(flushing') \in Nat
    BY <2>1, FS_Subset, FS_CardinalityType
  <2>3. Cardinality(buffered) \in Nat /\ MaxBuffer \in Nat
    BY AggregatorAssumption, FS_CardinalityType DEF AggregatorInv
  <2>4. QED
    BY <2>2, <2>3 DEF AggregatorInv, BufferBounded
<1>2. \A x \in Flushers : held'[x] # {} => at'[x] = "sink"
  BY DEF AggregatorInv
<1>3. StopDrains'
  <2>1. "loop" \in Flushers /\ Stops \subseteq Flushers
    BY DEF Flushers
  <2>2. quit' = "closed" /\ (\E s \in Stops : at'[s] = "returned") => held'["loop"] = {}
    BY <1>2, <2>1 DEF AggregatorInv
  <2>3. (\E s \in Stops : at'[s] = "returned") => buffered' \subseteq late'
    BY DEF AggregatorInv, Drained
  <2>4. QED
    BY <2>2, <2>3 DEF AggregatorInv, StopDrains
<1>4. QED
  BY <1>1, <1>2, <1>3 DEF AggregatorInv
(* Start, the timer, the loop's end, and Stop up to its flush.             *)
LEMMA AggregatorControl ==
  ASSUME AggregatorInv,
         \/ StartLoop \/ FlushTimer \/ SeeQuitClosed
         \/ \E s \in Stops : StopAggregator(s) \/ LoopGone(s)
  PROVE  AggregatorInv'
<1> USE AggregatorAssumption
<1>1. "loop" \in Flushers /\ Stops \subseteq Flushers /\ "loop" \notin Stops
  BY DEF Flushers
<1>2. CASE StartLoop
  BY <1>1, <1>2, AggregatorMoves, Zenon DEF AggregatorInv, StartLoop, Goes, Drained
<1>3. CASE FlushTimer
  BY <1>1, <1>3, AggregatorMoves, Zenon DEF AggregatorInv, FlushTimer, Goes, Drained
<1>4. CASE SeeQuitClosed
  BY <1>1, <1>4, AggregatorMoves, Zenon DEF AggregatorInv, SeeQuitClosed, Goes, Drained
<1>5. ASSUME NEW s \in Stops, StopAggregator(s)
      PROVE  AggregatorInv'
  <2>1. /\ s \in Flushers /\ s # "loop" /\ s \notin Receivers /\ at[s] = "idle"
        /\ at' = [at EXCEPT ![s] = "wait"] /\ held[s] = {}
        /\ UNCHANGED <<buffered, held, sent, received, late>>
    BY <1>1, <1>5 DEF AggregatorInv, StopAggregator, Goes
  <2>2. /\ at \in [Flushers -> {"off", "idle", "select", "wait", "flush", "sink", "returned", "ended"}]
        /\ at'["loop"] = at["loop"] /\ \A z \in Stops : z # s => at'[z] = at[z]
        /\ at'[s] = "wait"
    BY <1>1, <2>1 DEF AggregatorInv
  <2>3. /\ quit' \in {"closed", "closedEarly"}
        /\ quit' = "closed" => at["loop"] # "off"
        /\ quit' = "closed" => quit = "closed" \/ \A z \in Stops : at[z] = "idle"
    BY <1>5 DEF StopAggregator, AggregatorInv
  <2>4. quit' = "closed" /\ (\E z \in Stops : at'[z] \notin {"idle", "wait"}) => at'["loop"] = "ended"
    BY <2>2, <2>3 DEF AggregatorInv
  <2>5. Drained' => Drained
    BY <2>2 DEF Drained
  <2>6. QED
    BY <2>1, <2>2, <2>3, <2>4, <2>5, AggregatorMoves, Zenon
<1>6. ASSUME NEW s \in Stops, LoopGone(s)
      PROVE  AggregatorInv'
  <2>1. /\ s \in Flushers /\ s # "loop" /\ s \notin Receivers /\ at[s] = "wait"
        /\ at' = [at EXCEPT ![s] = "flush"] /\ held[s] = {} /\ quit' = quit
        /\ UNCHANGED <<buffered, held, sent, received, late>>
        /\ at["loop"] \in {"off", "ended"}
    BY <1>1, <1>6 DEF AggregatorInv, LoopGone, AfterWait, Goes
  <2>2. /\ at \in [Flushers -> {"off", "idle", "select", "wait", "flush", "sink", "returned", "ended"}]
        /\ at'["loop"] = at["loop"] /\ \A z \in Stops : z # s => at'[z] = at[z]
        /\ at'[s] = "flush"
    BY <1>1, <2>1 DEF AggregatorInv
  <2>3. quit # "open"
    BY <2>1 DEF AggregatorInv
  <2>4. quit = "closed" => at["loop"] = "ended"
    BY <2>1 DEF AggregatorInv
  <2>5. Drained' => Drained
    BY <2>2 DEF Drained
  <2>6. QED
    BY <2>1, <2>2, <2>3, <2>4, <2>5, AggregatorMoves, Zenon DEF AggregatorInv
<1>7. QED
  BY <1>2, <1>3, <1>4, <1>5, <1>6

(* Receive: the new packet is nowhere else, and the receiver that reaches  *)
(* the threshold is one more on its way to flush.                          *)
LEMMA AggregatorReceives ==
  ASSUME AggregatorInv, NEW r \in Receivers, ReceivePacket(r)
  PROVE  AggregatorInv'
<1> USE AggregatorAssumption
<1> DEFINE n == received + 1
           flushing == {x \in Receivers : at[x] = "flush"}
<1>1. /\ "loop" \in Flushers /\ Stops \subseteq Flushers /\ r \in Flushers /\ r \notin Stops
      /\ r # "loop" /\ Receivers \subseteq Flushers
  BY DEF Flushers
<1>2. /\ buffered' = buffered \cup {n} /\ received' = n /\ UNCHANGED <<held, quit, sent>>
      /\ late' = IF Drained THEN late \cup {n} ELSE late
      /\ at[r] = "idle"
      /\ at' = [at EXCEPT ![r] = IF Cardinality(buffered) + 1 >= MaxBuffer THEN "flush" ELSE "idle"]
  BY DEF ReceivePacket, ReceiveIf, Goes
<1>3. /\ at' \in [Flushers -> {"off", "idle", "select", "wait", "flush", "sink", "returned", "ended"}]
      /\ \A x \in Flushers \ {r} : at'[x] = at[x]
      /\ at'[r] \in {"idle", "flush"}
      /\ Cardinality(buffered) + 1 >= MaxBuffer => at'[r] = "flush"
  BY <1>1, <1>2 DEF AggregatorInv
<1>4. /\ received \in Nat /\ n \notin 1 .. received /\ 1 .. n = (1 .. received) \cup {n}
      /\ n \notin buffered /\ n \notin sent /\ \A f \in Flushers : n \notin held[f]
  <2>1. received \in Nat /\ buffered \cup sent \cup UNION {held[f] : f \in Flushers} = 1 .. received
    BY DEF AggregatorInv, StopDrains
  <2>2. n \notin 1 .. received /\ 1 .. n = (1 .. received) \cup {n}
    BY <2>1
  <2>3. QED
    BY <2>1, <2>2
<1>5. IsFiniteSet(buffered') /\ Cardinality(buffered') = Cardinality(buffered) + 1
      /\ Cardinality(buffered) \in Nat
  BY <1>2, <1>4, FS_AddElement, FS_CardinalityType DEF AggregatorInv
<1>6. BufferBounded'
  <2>1. IsFiniteSet(flushing) /\ IsFiniteSet(flushing')
    BY FS_Subset
  <2>2. Cardinality(flushing) \in Nat /\ Cardinality(flushing') \in Nat
    BY <2>1, FS_CardinalityType
  <2>3. CASE at'[r] = "flush"
    <3>1. flushing' = flushing \cup {r} /\ r \notin flushing
      BY <1>1, <1>2, <1>3, <2>3
    <3>2. Cardinality(flushing') = Cardinality(flushing) + 1
      BY <2>1, <3>1, FS_AddElement
    <3>3. QED
      BY <1>5, <2>2, <3>2 DEF AggregatorInv, BufferBounded
  <2>4. CASE at'[r] # "flush"
    BY <1>3, <1>5, <2>2, <2>4 DEF BufferBounded
  <2>5. QED
    BY <2>3, <2>4
<1>7. \A f \in Flushers : held'[f] # {} => at'[f] = "sink"
  BY <1>1, <1>2, <1>3 DEF AggregatorInv
<1>8. /\ Drained' <=> Drained
      /\ \A s \in Stops : at'[s] = at[s]
      /\ at'["loop"] = at["loop"]
  BY <1>1, <1>3 DEF Drained
<1>9. Drained' => buffered' \subseteq late'
  BY <1>2, <1>8 DEF AggregatorInv
<1>10. StopDrains'
  <2>1. /\ buffered' \cup sent' \cup UNION {held'[f] : f \in Flushers} = 1 .. received'
        /\ buffered' \cap sent' = {}
        /\ \A f \in Flushers :
             /\ held'[f] \cap (buffered' \cup sent') = {}
             /\ \A g \in Flushers \ {f} : held'[f] \cap held'[g] = {}
    BY <1>2, <1>4 DEF AggregatorInv, StopDrains
  <2>2. (\E s \in Stops : at'[s] = "returned") =>
          buffered' \subseteq late' /\ (quit' = "closed" => held'["loop"] = {})
    BY <1>2, <1>8, <1>9 DEF AggregatorInv, StopDrains, Drained
  <2>3. QED
    BY <2>1, <2>2 DEF StopDrains
<1>11. /\ held' \in [Flushers -> SUBSET (1 .. received')] /\ received' \in Nat
       /\ quit' = "open" => \A s \in Stops : at'[s] = "idle"
       /\ quit' = "closed" =>
            /\ at'["loop"] # "off"
            /\ (\E s \in Stops : at'[s] \notin {"idle", "wait"}) => at'["loop"] = "ended"
  BY <1>2, <1>4, <1>8 DEF AggregatorInv
<1>12. QED
  BY <1>2, <1>3, <1>5, <1>6, <1>7, <1>9, <1>10, <1>11 DEF AggregatorInv
(* Where a flusher goes when it leaves flush or the sink.                  *)
LEMMA AggregatorFlushes ==
  ASSUME AggregatorInv, NEW f \in Flushers, at[f] \in {"flush", "sink"},
         NEW to \in {"sink", AfterFlush(f)}, at' = [at EXCEPT ![f] = to], quit' = quit
  PROVE  /\ at' \in [Flushers -> {"off", "idle", "select", "wait", "flush", "sink", "returned", "ended"}]
         /\ \A x \in Flushers \ {f} : at'[x] = at[x]
         /\ at'[f] = to /\ (f = "loop" => quit # "closed" \/ \A s \in Stops : at[s] \in {"idle", "wait"})
         /\ quit' = "open" => \A s \in Stops : at'[s] = "idle"
         /\ quit' = "closed" =>
              /\ at'["loop"] # "off"
              /\ (\E s \in Stops : at'[s] \notin {"idle", "wait"}) => at'["loop"] = "ended"
<1> USE AggregatorAssumption
<1>1. "loop" \in Flushers /\ Stops \subseteq Flushers /\ "loop" \notin Stops
  BY DEF Flushers
<1>2. to \in {"sink", "select", "returned", "idle"} /\ (f = "loop" => to \in {"sink", "select"})
      /\ (f \in Stops => to \in {"sink", "returned"})
  BY <1>1 DEF AfterFlush
<1>3. /\ at' \in [Flushers -> {"off", "idle", "select", "wait", "flush", "sink", "returned", "ended"}]
      /\ \A x \in Flushers \ {f} : at'[x] = at[x]
      /\ at'[f] = to
  BY <1>2 DEF AggregatorInv
<1>4. f = "loop" => quit # "closed" \/ \A s \in Stops : at[s] \in {"idle", "wait"}
  BY DEF AggregatorInv
<1>5. quit' = "open" => \A s \in Stops : at'[s] = "idle"
  BY <1>1, <1>3 DEF AggregatorInv
<1>6. CASE f = "loop"
  BY <1>1, <1>2, <1>3, <1>4, <1>5, <1>6
<1>7. CASE f # "loop"
  <2>1. at'["loop"] = at["loop"]
    BY <1>1, <1>3, <1>7
  <2>2. \A s \in Stops : at'[s] \notin {"idle", "wait"} => at[s] \notin {"idle", "wait"}
    BY <1>1, <1>3
  <2>3. QED
    BY <1>3, <1>4, <1>5, <2>1, <2>2 DEF AggregatorInv
<1>8. QED
  BY <1>6, <1>7

(* flush, under the mutex: the whole buffer changes hands.                 *)
LEMMA AggregatorTakes ==
  ASSUME AggregatorInv, NEW f \in Flushers, TakeBuffer(f)
  PROVE  AggregatorInv'
<1> USE AggregatorAssumption
<1>1. "loop" \in Flushers /\ Stops \subseteq Flushers
  BY DEF Flushers
<1>2. PICK to \in {"sink", AfterFlush(f)} :
        /\ at[f] = "flush" /\ at' = [at EXCEPT ![f] = to] /\ (buffered # {} => to = "sink")
        /\ held' = [held EXCEPT ![f] = buffered] /\ buffered' = {}
        /\ UNCHANGED <<quit, sent, received>>
  BY Zenon DEF TakeBuffer, Goes
<1>3. /\ held[f] = {} /\ held'[f] = buffered /\ \A x \in Flushers \ {f} : held'[x] = held[x]
      /\ buffered \subseteq 1 .. received
  BY <1>2 DEF AggregatorInv, StopDrains
<1>4. /\ at' \in [Flushers -> {"off", "idle", "select", "wait", "flush", "sink", "returned", "ended"}]
      /\ \A x \in Flushers \ {f} : at'[x] = at[x]
      /\ at'[f] = to /\ (f = "loop" => quit # "closed" \/ \A s \in Stops : at[s] \in {"idle", "wait"})
      /\ quit' = "open" => \A s \in Stops : at'[s] = "idle"
      /\ quit' = "closed" =>
           /\ at'["loop"] # "off"
           /\ (\E s \in Stops : at'[s] \notin {"idle", "wait"}) => at'["loop"] = "ended"
  BY <1>2, AggregatorFlushes, Zenon
<1>5. BufferBounded'
  <2> DEFINE flushing == {x \in Receivers : at'[x] = "flush"}
  <2>1. IsFiniteSet(flushing)
    BY FS_Subset
  <2>2. Cardinality(flushing) \in Nat /\ Cardinality({}) = 0
    BY <2>1, FS_CardinalityType, FS_EmptySet
  <2>3. QED
    BY <1>2, <2>2 DEF BufferBounded
<1>6. \A x \in Flushers : held'[x] # {} => at'[x] = "sink"
  BY <1>2, <1>3, <1>4 DEF AggregatorInv
<1>7. /\ buffered' \cup sent' \cup UNION {held'[x] : x \in Flushers} = 1 .. received'
      /\ buffered' \cap sent' = {}
      /\ \A x \in Flushers :
           /\ held'[x] \cap (buffered' \cup sent') = {}
           /\ \A y \in Flushers \ {x} : held'[x] \cap held'[y] = {}
  BY <1>2, <1>3 DEF AggregatorInv, StopDrains
<1>8. held' \in [Flushers -> SUBSET (1 .. received')]
  BY <1>2, <1>3 DEF AggregatorInv
<1>9. StopDrains'
  <2>1. quit' = "closed" /\ (\E s \in Stops : at'[s] = "returned") => held'["loop"] = {}
    BY <1>1, <1>4, <1>6
  <2>2. QED
    BY <1>2, <1>7, <2>1 DEF StopDrains
<1>10. IsFiniteSet(buffered')
  BY <1>2, FS_EmptySet
<1>11. QED
  BY <1>2, <1>4, <1>5, <1>6, <1>8, <1>9, <1>10 DEF AggregatorInv

(* One packet is delivered to the sink, or counted as dropped.             *)
LEMMA AggregatorSinks ==
  ASSUME AggregatorInv, NEW f \in Flushers, SinkPacket(f)
  PROVE  AggregatorInv'
<1> USE AggregatorAssumption
<1>1. "loop" \in Flushers /\ Stops \subseteq Flushers
  BY DEF Flushers
<1>2. PICK n \in held[f] :
        /\ at[f] = "sink" /\ at' = [at EXCEPT ![f] = IF held[f] = {n} THEN AfterFlush(f) ELSE "sink"]
        /\ held' = [held EXCEPT ![f] = @ \ {n}] /\ sent' = sent \cup {n}
        /\ UNCHANGED <<buffered, quit, received, late>>
  BY Zenon DEF SinkPacket, Goes
<1>3. PICK to \in {"sink", AfterFlush(f)} :
        at' = [at EXCEPT ![f] = to] /\ (held[f] # {n} => to = "sink")
  BY <1>2, Zenon
<1>4. /\ held'[f] = held[f] \ {n} /\ \A x \in Flushers \ {f} : held'[x] = held[x]
      /\ n \in 1 .. received
  BY <1>2 DEF AggregatorInv
<1>5. /\ at' \in [Flushers -> {"off", "idle", "select", "wait", "flush", "sink", "returned", "ended"}]
      /\ \A x \in Flushers \ {f} : at'[x] = at[x]
      /\ at'[f] = to /\ (f = "loop" => quit # "closed" \/ \A s \in Stops : at[s] \in {"idle", "wait"})
      /\ quit' = "open" => \A s \in Stops : at'[s] = "idle"
      /\ quit' = "closed" =>
           /\ at'["loop"] # "off"
           /\ (\E s \in Stops : at'[s] \notin {"idle", "wait"}) => at'["loop"] = "ended"
  BY <1>2, <1>3, AggregatorFlushes, Zenon
<1>6. BufferBounded'
  <2>1. to # "flush"
    BY DEF AfterFlush
  <2>2. {x \in Receivers : at'[x] = "flush"} = {x \in Receivers : at[x] = "flush"}
    BY <1>2, <1>5, <2>1 DEF Flushers
  <2>3. QED
    BY <1>2, <2>2, Zenon DEF AggregatorInv, BufferBounded
<1>7. \A x \in Flushers : held'[x] # {} => at'[x] = "sink"
  BY <1>2, <1>3, <1>4, <1>5 DEF AggregatorInv
<1>8. /\ buffered' \cup sent' \cup UNION {held'[x] : x \in Flushers} = 1 .. received'
      /\ buffered' \cap sent' = {}
      /\ \A x \in Flushers :
           /\ held'[x] \cap (buffered' \cup sent') = {}
           /\ \A y \in Flushers \ {x} : held'[x] \cap held'[y] = {}
  BY <1>2, <1>4 DEF AggregatorInv, StopDrains
<1>9. held' \in [Flushers -> SUBSET (1 .. received')]
  BY <1>2, <1>4 DEF AggregatorInv
<1>10. Drained' => buffered' \subseteq late'
  <2>1. Drained' => Drained
    BY <1>1, <1>2, <1>5 DEF Drained
  <2>2. QED
    BY <1>2, <2>1 DEF AggregatorInv
<1>11. StopDrains'
  <2>1. quit' = "closed" /\ (\E s \in Stops : at'[s] = "returned") => held'["loop"] = {}
    BY <1>1, <1>5, <1>7
  <2>2. QED
    BY <1>8, <1>10, <2>1 DEF StopDrains, Drained
<1>12. QED
  BY <1>2, <1>5, <1>6, <1>7, <1>9, <1>10, <1>11 DEF AggregatorInv

(* The invariant of the aggregator, for any receivers, Stops, threshold    *)
(* and number of packets.  (Receive, flush, flushLoop, Stop)               *)
THEOREM AggregatorInvariant == AggregatorSpec => []AggregatorInv
<1>1. AggregatorInit => AggregatorInv
  <2> SUFFICES ASSUME AggregatorInit
               PROVE  AggregatorInv
    OBVIOUS
  <2> USE AggregatorAssumption
  <2>1. "loop" \in Flushers /\ Stops \subseteq Flushers /\ "loop" \notin Stops
    BY DEF Flushers
  <2>2. BufferBounded
    <3>1. IsFiniteSet({r \in Receivers : at[r] = "flush"})
      BY FS_Subset
    <3>2. Cardinality({r \in Receivers : at[r] = "flush"}) \in Nat /\ Cardinality({}) = 0
      BY <3>1, FS_CardinalityType, FS_EmptySet
    <3>3. QED
      BY <3>2 DEF AggregatorInit, BufferBounded
  <2>3. StopDrains
    <3>1. 1 .. 0 = {}
      OBVIOUS
    <3>2. QED
      BY <2>1, <3>1 DEF AggregatorInit, StopDrains
  <2>4. IsFiniteSet(buffered)
    BY FS_EmptySet DEF AggregatorInit
  <2>5. QED
    BY <2>1, <2>2, <2>3, <2>4 DEF AggregatorInit, AggregatorInv, Drained
<1>2. AggregatorInv /\ [AggregatorNext]_aggregatorVars => AggregatorInv'
  <2> SUFFICES ASSUME AggregatorInv, [AggregatorNext]_aggregatorVars
               PROVE  AggregatorInv'
    OBVIOUS
  <2>1. CASE UNCHANGED aggregatorVars
    BY <2>1 DEF aggregatorVars, AggregatorInv, StopDrains, BufferBounded, Drained
  <2>2. QED
    BY <2>1, AggregatorControl, AggregatorReceives, AggregatorTakes, AggregatorSinks DEF AggregatorNext
<1>3. QED
  BY <1>1, <1>2, PTL DEF AggregatorSpec

(* In general: no packet is lost or delivered twice, and a Stop that has   *)
(* returned left nothing behind.  (flush, Stop)                            *)
THEOREM StopDrainsHolds == AggregatorSpec => []StopDrains
<1>1. AggregatorInv => StopDrains
  BY DEF AggregatorInv
<1>2. QED
  BY <1>1, AggregatorInvariant, PTL

(* In general: the buffer exceeds its threshold by fewer packets than      *)
(* there are receivers on their way to flush it.  (Receive)                *)
THEOREM BufferBoundedHolds == AggregatorSpec => []BufferBounded
<1>1. AggregatorInv => BufferBounded
  BY DEF AggregatorInv
<1>2. QED
  BY <1>1, AggregatorInvariant, PTL
-----------------------------------------------------------------------------
(* The configuration.                                                      *)

(* Every default is accepted where it is found as a setting.               *)
LEMMA LimitsOrdered ==
  \A f \in Fields : /\ Limits[f][1] \in Nat /\ Limits[f][2] \in Nat /\ Limits[f][3] \in Nat
                    /\ 1 <= Limits[f][2] /\ Limits[f][2] <= Limits[f][1] /\ Limits[f][1] <= Limits[f][3]
  BY DEF Fields, Limits

LEMMA SomeFields ==
  /\ {"ConcurrentKeys", "PerKeyBufferLen", "WorkerShardsCount", "CommitIngestChannelLen"} \subseteq Fields
  /\ Limits.ConcurrentKeys = <<250, 1, 5000>> /\ Limits["CommitIngestChannelLen"] = <<25000, 1000, 200000>>
  /\ Limits["WorkerShardsCount"] = <<16, 1, 64>>
  BY DEF Fields, Limits

LEMMA DefaultAccepted ==
  ASSUME NEW c \in [Fields -> Int], NEW f \in Fields
  PROVE  Default(f, c) \in Nat \ {0} /\ ~Rejected(f, Default(f, c))
<1>1. IsPowerOfTwo(16)
  BY DEF IsPowerOfTwo
<1>2. CASE f = "CommitIngestChannelLen"
  <2> DEFINE keys == IF c.ConcurrentKeys < 1 THEN Limits.ConcurrentKeys[1] ELSE c.ConcurrentKeys
  <2>1. keys \in Int
    BY SomeFields
  <2>2. Default(f, c) = DefaultIngestLen(keys)
    BY <1>2 DEF Default
  <2> HIDE DEF keys
  <2>3. /\ DefaultIngestLen(keys) \in Nat
        /\ 5000 <= DefaultIngestLen(keys) /\ DefaultIngestLen(keys) <= 100000
    BY <2>1 DEF DefaultIngestLen
  <2>4. Limits[f][2] = 1000 /\ Limits[f][3] = 200000
    BY <1>2, SomeFields
  <2>5. QED
    BY <1>2, <2>2, <2>3, <2>4 DEF Rejected
<1>3. CASE f # "CommitIngestChannelLen"
  <2>1. Default(f, c) = Limits[f][1]
    BY <1>3 DEF Default
  <2>2. CASE f = "WorkerShardsCount"
    BY <1>1, <2>1, <2>2, SomeFields, LimitsOrdered DEF Rejected
  <2>3. CASE f # "WorkerShardsCount"
    BY <2>1, <2>3, LimitsOrdered DEF Rejected
  <2>4. QED
    BY <2>2, <2>3
<1>4. QED
  BY <1>2, <1>3

(* Nothing of it is defaulted or rejected.                                 *)
Settled(c) ==
  /\ c \in [Fields -> Nat \ {0}]
  /\ \A f \in Fields : ~Rejected(f, c[f])

(* SetDemuxConfigDefaults settles what it accepts, and leaves alone what   *)
(* is settled.                                                             *)
LEMMA DefaultsSettle ==
  ASSUME NEW c \in [Fields -> Int], \A f \in Fields : ~Rejected(f, c[f])
  PROVE  Settled(SetDemuxConfigDefaults(c))
<1> SUFFICES ASSUME NEW f \in Fields
             PROVE  LET v == SetDemuxConfigDefaults(c)[f] IN v \in Nat \ {0} /\ ~Rejected(f, v)
  BY DEF Settled, SetDemuxConfigDefaults
<1>1. CASE c[f] < 1
  BY <1>1, DefaultAccepted DEF SetDemuxConfigDefaults
<1>2. CASE ~(c[f] < 1)
  BY <1>2 DEF SetDemuxConfigDefaults
<1>3. QED
  BY <1>1, <1>2

LEMMA DefaultsIdempotent ==
  ASSUME NEW c, Settled(c)
  PROVE  SetDemuxConfigDefaults(c) = c
<1>1. \A f \in Fields : c[f] \in Nat \ {0} /\ ~(c[f] < 1)
  BY DEF Settled
<1>2. SetDemuxConfigDefaults(c) = [f \in Fields |-> c[f]]
  BY <1>1 DEF SetDemuxConfigDefaults
<1>3. QED
  BY <1>2 DEF Settled

(* Ceiling division: at least one, and no more than the keys.              *)
LEMMA CeilingDivision ==
  ASSUME NEW n \in Nat \ {0}, NEW k \in Nat \ {0}
  PROVE  (n + k - 1) \div n \in 1 .. k
<1> DEFINE d == (n + k - 1) \div n
<1>1. d \in Int /\ n * d <= n + k - 1 /\ n + k - 1 < n * (d + 1)
  OBVIOUS
<1> HIDE DEF d
<1>2. d >= 1
  <2> SUFFICES ASSUME d <= 0
               PROVE  FALSE
    BY <1>1
  <2>1. n * (d + 1) <= n
    BY <1>1
  <2>2. QED
    BY <1>1, <2>1
<1>3. d <= k
  <2> SUFFICES ASSUME d >= k + 1
               PROVE  FALSE
    BY <1>1
  <2>1. n * d >= n * (k + 1)
    BY <1>1
  <2>2. n * (k + 1) >= n + k
    BY <1>1
  <2>3. QED
    BY <1>1, <2>1, <2>2
<1>4. QED
  BY <1>1, <1>2, <1>3 DEF d

LEMMA SettledSuits ==
  ASSUME NEW c, Settled(c)
  PROVE  SizesSuit(c)
<1>1. c.ConcurrentKeys \in Nat \ {0} /\ c.PerKeyBufferLen \in Nat \ {0} /\ c.WorkerShardsCount \in Nat \ {0}
  BY SomeFields DEF Settled
<1>2. \A n \in Int : Clamp(n, 20000, 100000) > 0 /\ Clamp(n, 5000, 100000) > 0
  BY DEF Clamp
<1>3. CalculateCollectBufferSize(c) > 0 /\ CalcWorkItemPoolSize(c) > 0
  BY <1>1, <1>2 DEF CalculateCollectBufferSize, CalcWorkItemPoolSize
<1>4. CalcMinimumIdleWorkers(c) \in 1 .. c.ConcurrentKeys
  BY <1>1, CeilingDivision, Zenon DEF CalcMinimumIdleWorkers
<1>5. IsPowerOfTwo(c.WorkerShardsCount)
  BY <1>1, SomeFields DEF Settled, Rejected
<1>6. \A f \in Fields : c[f] > 0
  BY DEF Settled
<1>7. QED
  BY <1>3, <1>4, <1>5, <1>6 DEF SizesSuit

(* Only the first Build finds anything to reject or to default.            *)
ConfigInv ==
  /\ builds \in 0 .. 2
  /\ config \in [Fields -> Int]
  /\ builds = 0 => ~panicked /\ earlier = Unset
  /\ panicked => builds = 1 /\ earlier = Unset
  /\ builds > 0 /\ ~panicked => Settled(config) /\ earlier = config

(* A Build keeps that.  (SetDemuxConfigDefaults)                           *)
LEMMA ConfigStep ==
  ASSUME ConfigInv, [Build]_configVars
  PROVE  ConfigInv'
<1>1. CASE UNCHANGED configVars
  BY <1>1 DEF configVars, ConfigInv, Settled, Rejected
<1>2. CASE Build
  <2> DEFINE rejected == \E f \in Fields : Rejected(f, config[f])
  <2>1. /\ builds \in {0, 1} /\ ~panicked /\ builds' = builds + 1 /\ skip' = skip
        /\ rejected => panicked' = TRUE /\ config' = config /\ earlier' = earlier
        /\ ~rejected => /\ config' = SetDemuxConfigDefaults(config) /\ panicked' = panicked
                        /\ earlier' = IF builds = 0 THEN config' ELSE earlier
    BY <1>2 DEF Build, ConfigInv
  <2>2. CASE rejected
    <3>1. builds = 0
      BY <2>1, <2>2 DEF ConfigInv, Settled
    <3>2. builds' = 1 /\ panicked' = TRUE /\ earlier' = Unset /\ config' \in [Fields -> Int]
      BY <2>1, <2>2, <3>1 DEF ConfigInv
    <3>3. QED
      BY <3>2 DEF ConfigInv
  <2>3. CASE ~rejected
    <3>1. Settled(SetDemuxConfigDefaults(config))
      BY <2>3, DefaultsSettle DEF ConfigInv
    <3>2. Settled(config)'
      BY <2>1, <2>3, <3>1 DEF Settled, Rejected
    <3>3. builds = 1 => config' = config
      BY <2>1, <2>3, DefaultsIdempotent DEF ConfigInv
    <3>4. earlier' = config'
      BY <2>1, <2>3, <3>3 DEF ConfigInv
    <3>5. config' \in [Fields -> Int]
      BY <3>2 DEF Settled
    <3>6. QED
      BY <2>1, <2>3, <3>2, <3>4, <3>5 DEF ConfigInv
  <2>4. QED
    BY <2>2, <2>3
<1>3. QED
  BY <1>1, <1>2

LEMMA ConfigInitial == ConfigInit => ConfigInv
<1>1. ConfigInit => config \in [Fields -> Int]
  BY SettingAssumption DEF ConfigInit
<1>2. QED
  BY <1>1 DEF ConfigInit, ConfigInv

LEMMA ConfigInvariant == ConfigSpec => []ConfigInv
  BY ConfigInitial, ConfigStep, PTL DEF ConfigSpec

(* In general: a second consumer built from the same struct gets what the  *)
(* first one got.  (Build, SetDemuxConfigDefaults)                         *)
THEOREM SecondBuildAgreesHolds == ConfigSpec => []SecondBuildAgrees
<1>1. ConfigInv => SecondBuildAgrees
  BY DEF ConfigInv, SecondBuildAgrees
<1>2. QED
  BY <1>1, ConfigInvariant, PTL

-----------------------------------------------------------------------------
(* The key hash.                                                           *)

(* Under a mask of low ones, and is a remainder: for two bits, and from    *)
(* each width for the next.                                                *)
Powers2 == {1, 2, 4}
Powers4 == {1, 2, 4, 8, 16}
Powers8 == {1, 2, 4, 8, 16, 32, 64, 128, 256}
Powers16 == {1, 2, 4, 8, 16, 32, 64, 128, 256, 512, 1024, 2048, 4096, 8192, 16384, 32768, 65536}

LEMMA And2Mask ==
  ASSUME NEW a \in Nat, a < 4, NEW n \in Powers2
  PROVE  And2(a, n - 1) = a % n
  BY DEF And1, And2, Powers2

LEMMA And4Mask ==
  ASSUME NEW a \in Nat, a < 16, NEW n \in Powers4
  PROVE  And4(a, n - 1) = a % n
<1> DEFINE high == a \div 4  low == a % 4
<1>1. high \in Nat /\ high < 4 /\ low \in Nat /\ low < 4 /\ a = 4 * high + low
  OBVIOUS
<1>2. And4(a, n - 1) = 4 * And2(high, (n - 1) \div 4) + And2(low, (n - 1) % 4)
  BY DEF And4
<1> HIDE DEF high, low
<1>3. CASE n \in Powers2
  <2>1. (n - 1) \div 4 = 1 - 1 /\ (n - 1) % 4 = n - 1 /\ 1 \in Powers2
    BY <1>3 DEF Powers2
  <2>2. And2(high, 1 - 1) = high % 1 /\ And2(low, n - 1) = low % n
    BY <1>1, <1>3, <2>1, And2Mask
  <2>3. high % 1 = 0 /\ low % n = a % n
    BY <1>1, <1>3 DEF Powers2
  <2>4. n \in Nat /\ n > 0
    BY <1>3 DEF Powers2
  <2>5. QED
    BY <1>1, <1>2, <2>1, <2>2, <2>3, <2>4
<1>4. CASE n \notin Powers2
  <2>1. PICK k \in Powers2 : n = 4 * k
    BY <1>4 DEF Powers4, Powers2
  <2>2. /\ (n - 1) \div 4 = k - 1 /\ (n - 1) % 4 = 4 - 1 /\ 4 \in Powers2
        /\ k \in Nat /\ k > 0 /\ 4 \in Nat /\ 4 > 0 /\ n \in Nat
    BY <2>1 DEF Powers2
  <2>3. And2(high, k - 1) = high % k /\ And2(low, 4 - 1) = low % 4
    BY <1>1, <2>1, <2>2, And2Mask
  <2>4. a % n = 4 * (high % k) + low
    BY <1>1, <2>1 DEF Powers2
  <2>5. low % 4 = low
    BY <1>1
  <2>6. QED
    BY <1>2, <2>2, <2>3, <2>4, <2>5
<1>5. QED
  BY <1>3, <1>4

LEMMA And8Mask ==
  ASSUME NEW a \in Nat, a < 256, NEW n \in Powers8
  PROVE  And8(a, n - 1) = a % n
<1> DEFINE high == a \div 16  low == a % 16
<1>1. high \in Nat /\ high < 16 /\ low \in Nat /\ low < 16 /\ a = 16 * high + low
  OBVIOUS
<1>2. And8(a, n - 1) = 16 * And4(high, (n - 1) \div 16) + And4(low, (n - 1) % 16)
  BY DEF And8
<1> HIDE DEF high, low
<1>3. CASE n \in Powers4
  <2>1. (n - 1) \div 16 = 1 - 1 /\ (n - 1) % 16 = n - 1 /\ 1 \in Powers4
    BY <1>3 DEF Powers4
  <2>2. And4(high, 1 - 1) = high % 1 /\ And4(low, n - 1) = low % n
    BY <1>1, <1>3, <2>1, And4Mask
  <2>3. high % 1 = 0 /\ low % n = a % n
    BY <1>1, <1>3 DEF Powers4
  <2>4. n \in Nat /\ n > 0
    BY <1>3 DEF Powers4
  <2>5. QED
    BY <1>1, <1>2, <2>1, <2>2, <2>3, <2>4
<1>4. CASE n \notin Powers4
  <2>1. PICK k \in Powers4 : n = 16 * k
    BY <1>4 DEF Powers8, Powers4
  <2>2. /\ (n - 1) \div 16 = k - 1 /\ (n - 1) % 16 = 16 - 1 /\ 16 \in Powers4
        /\ k \in Nat /\ k > 0 /\ 16 \in Nat /\ 16 > 0 /\ n \in Nat
    BY <2>1 DEF Powers4
  <2>3. And4(high, k - 1) = high % k /\ And4(low, 16 - 1) = low % 16
    BY <1>1, <2>1, <2>2, And4Mask
  <2>4. a % n = 16 * (high % k) + low
    BY <1>1, <2>1 DEF Powers4
  <2>5. low % 16 = low
    BY <1>1
  <2>6. QED
    BY <1>2, <2>2, <2>3, <2>4, <2>5
<1>5. QED
  BY <1>3, <1>4

LEMMA And16Mask ==
  ASSUME NEW a \in Nat, a < 65536, NEW n \in Powers16
  PROVE  And16(a, n - 1) = a % n
<1> DEFINE high == a \div 256  low == a % 256
<1>1. high \in Nat /\ high < 256 /\ low \in Nat /\ low < 256 /\ a = 256 * high + low
  OBVIOUS
<1>2. And16(a, n - 1) = 256 * And8(high, (n - 1) \div 256) + And8(low, (n - 1) % 256)
  BY DEF And16
<1> HIDE DEF high, low
<1>3. CASE n \in Powers8
  <2>1. (n - 1) \div 256 = 1 - 1 /\ (n - 1) % 256 = n - 1 /\ 1 \in Powers8
    BY <1>3 DEF Powers8
  <2>2. And8(high, 1 - 1) = high % 1 /\ And8(low, n - 1) = low % n
    BY <1>1, <1>3, <2>1, And8Mask
  <2>3. high % 1 = 0 /\ low % n = a % n
    BY <1>1, <1>3 DEF Powers8
  <2>4. n \in Nat /\ n > 0
    BY <1>3 DEF Powers8
  <2>5. QED
    BY <1>1, <1>2, <2>1, <2>2, <2>3, <2>4
<1>4. CASE n \notin Powers8
  <2>1. PICK k \in Powers8 : n = 256 * k
    BY <1>4 DEF Powers16, Powers8
  <2>2. /\ (n - 1) \div 256 = k - 1 /\ (n - 1) % 256 = 256 - 1 /\ 256 \in Powers8
        /\ k \in Nat /\ k > 0 /\ 256 \in Nat /\ 256 > 0 /\ n \in Nat
    BY <2>1 DEF Powers8
  <2>3. And8(high, k - 1) = high % k /\ And8(low, 256 - 1) = low % 256
    BY <1>1, <2>1, <2>2, And8Mask
  <2>4. a % n = 256 * (high % k) + low
    BY <1>1, <2>1 DEF Powers8
  <2>5. low % 256 = low
    BY <1>1
  <2>6. QED
    BY <1>2, <2>2, <2>3, <2>4, <2>5
<1>5. QED
  BY <1>3, <1>4

LEMMA HalfType == Half \in Nat /\ Half > 0
  BY DEF Half

(* The counts of shards that are accepted, by the half of the hash that    *)
(* decides.                                                                *)
LEMMA AcceptedCounts ==
  ASSUME NEW n, IsPowerOfTwo(n)
  PROVE  /\ n \in Nat /\ n > 0
         /\ n \in Powers16 \/ \E k \in Powers16 : n = Half * k
  BY DEF IsPowerOfTwo, Powers16, Half

(* Under an accepted count the index is the remainder of the hash.         *)
LEMMA IndexIsRemainder ==
  ASSUME NEW h, NEW high \in Nat, NEW low \in Nat, high < Half, low < Half,
         h.high = high, h.low = low, NEW n, IsPowerOfTwo(n)
  PROVE  HashIndex(h, n - 1) = (Half * high + low) % n
<1>1. HashIndex(h, n - 1) = Half * And16(high, (n - 1) \div Half) + And16(low, (n - 1) % Half)
  BY DEF HashIndex, Halves
<1>2. CASE n \in Powers16
  <2>1. (n - 1) \div Half = 1 - 1 /\ (n - 1) % Half = n - 1 /\ 1 \in Powers16
    BY <1>2 DEF Powers16, Half
  <2>2. And16(high, 1 - 1) = high % 1 /\ And16(low, n - 1) = low % n
    BY <1>2, <2>1, And16Mask DEF Half
  <2>3. high % 1 = 0 /\ low % n = (Half * high + low) % n
    BY <1>2 DEF Powers16, Half
  <2>4. n \in Nat /\ n > 0
    BY <1>2 DEF Powers16
  <2>5. QED
    BY <1>1, <2>1, <2>2, <2>3, <2>4 DEF Half
<1>3. ASSUME NEW k \in Powers16, n = Half * k
      PROVE  HashIndex(h, n - 1) = (Half * high + low) % n
  <2>1. /\ (n - 1) \div Half = k - 1 /\ (n - 1) % Half = Half - 1 /\ Half \in Powers16
        /\ k \in Nat /\ k > 0
    BY <1>3 DEF Powers16, Half
  <2>2. And16(high, k - 1) = high % k /\ And16(low, Half - 1) = low % Half
    BY <1>3, <2>1, And16Mask DEF Half
  <2>3. (Half * high + low) % n = Half * (high % k) + low
    BY <1>3 DEF Powers16, Half
  <2>4. low % Half = low
    BY DEF Half
  <2>5. QED
    BY <1>1, <2>1, <2>2, <2>3, <2>4
<1>4. QED
  BY <1>2, <1>3, AcceptedCounts

(* Every hash has a shard, and every shard its own number as a hash.       *)
LEMMA ShardsReached ==
  ASSUME NEW c, IsPowerOfTwo(c.WorkerShardsCount), NEW h \in Hashes
  PROVE  LET shards == 0 .. c.WorkerShardsCount - 1
         IN  /\ ShardOf(c, h) \in shards
             /\ {ShardOf(c, Halves(s)) : s \in shards} = shards
<1> DEFINE n == c.WorkerShardsCount
<1>1. n \in Nat /\ n > 0 /\ n <= Half * Half
  BY DEF IsPowerOfTwo, Half
<1>2. ShardOf(c, h) \in 0 .. n - 1
  <2>1. h.high \in Nat /\ h.low \in Nat /\ h.high < Half /\ h.low < Half
    BY HalfType DEF Hashes
  <2>2. HashIndex(h, n - 1) = (Half * h.high + h.low) % n
    BY <2>1, IndexIsRemainder
  <2>3. QED
    BY <1>1, <2>1, <2>2 DEF ShardOf, Half
<1>3. ASSUME NEW s \in 0 .. n - 1
      PROVE  ShardOf(c, Halves(s)) = s
  <2> DEFINE high == s \div Half  low == s % Half
  <2>1. /\ high \in Nat /\ high < Half /\ low \in Nat /\ low < Half
        /\ s = Half * high + low /\ s % n = s
    BY <1>1, <1>3 DEF Half
  <2>2. Halves(s).high = high /\ Halves(s).low = low
    BY DEF Halves
  <2> HIDE DEF high, low
  <2>3. QED
    BY <2>1, <2>2, IndexIsRemainder DEF ShardOf
<1>4. QED
  BY <1>2, <1>3

(* The hash stays a pair of halves.  (h ^= ..., h *= primeFactor)          *)
LEMMA HashStays ==
  ASSUME NEW h \in Hashes, NEW byte \in Bytes
  PROVE  TimesPrime(XorByte(h, byte)) \in Hashes
<1>1. byte \in Nat /\ byte < 256
  BY BytesAssumption
<1>2. \A a, b \in 0 .. 3 : Xor2(a, b) \in 0 .. 3
  BY DEF Xor1, Xor2
<1>3. \A a, b \in 0 .. 15 : Xor4(a, b) \in 0 .. 15
  <2>1. \A a \in 0 .. 15 : a \div 4 \in 0 .. 3 /\ a % 4 \in 0 .. 3
    OBVIOUS
  <2>2. QED
    BY <1>2, <2>1 DEF Xor4
<1>4. \A a, b \in Nat : a < 256 /\ b < 256 => Xor8(a, b) \in Nat /\ Xor8(a, b) < 256
  <2>1. \A a \in Nat : a < 256 => a \div 16 \in 0 .. 15 /\ a % 16 \in 0 .. 15
    OBVIOUS
  <2>2. \A a, b \in 0 .. 15 : 16 * a + b \in Nat /\ 16 * a + b < 256
    OBVIOUS
  <2>3. QED
    BY <1>3, <2>1, <2>2 DEF Xor8
<1> DEFINE x == XorByte(h, byte)
<1>5. x.high \in Nat /\ x.low \in Nat /\ x.high < Half /\ x.low < Half
  <2>1. h.high \in Nat /\ h.low \in Nat /\ h.high < Half /\ h.low < Half
    BY HalfType DEF Hashes
  <2>2. h.low % 256 \in Nat /\ h.low % 256 < 256 /\ h.low \div 256 \in Nat /\ h.low \div 256 < 256
    BY <2>1 DEF Half
  <2>3. Xor8(h.low % 256, byte) \in Nat /\ Xor8(h.low % 256, byte) < 256
    BY <1>1, <1>4, <2>2
  <2>4. x.high = h.high /\ x.low = 256 * (h.low \div 256) + Xor8(h.low % 256, byte)
    BY DEF XorByte, Hashes
  <2>5. \A a, b \in Nat : a < 256 /\ b < 256 => 256 * a + b \in Nat /\ 256 * a + b < Half
    BY DEF Half
  <2>6. QED
    BY <2>1, <2>2, <2>3, <2>4, <2>5
<1> HIDE DEF x
<1>6. \A a \in Nat : a % Half \in 0 .. Half - 1
  BY HalfType
<1>7. /\ x.low * 403 \in Nat
      /\ x.high * 403 + x.low * 256 + (x.low * 403) \div Half \in Nat
  BY <1>5 DEF Half
<1>8. QED
  BY <1>6, <1>7 DEF TimesPrime, Hashes, x

(* In general, whatever the host sets, also with the validation skipped,   *)
(* and for keys of any length: what Build accepts has the sizes the other  *)
(* modules assume, no key's index is out of range, and no shard is without *)
(* a hash.  (SetDemuxConfigDefaults, CalcMinimumIdleWorkers,               *)
(* CalcWorkItemPoolSize, HashIndex, SendToWorkerForProcessing)             *)
THEOREM AcceptedConfigSuitsHolds == HashSpec => []AcceptedConfigSuits
<1> DEFINE HashInv == ConfigInv /\ hash \in Hashes
<1>1. ConfigInit /\ HashInit => HashInv
  <2>1. OffsetBasis \in Hashes
    BY DEF OffsetBasis, Hashes, Half
  <2>2. QED
    BY <2>1, ConfigInitial DEF HashInit
<1>2. HashInv /\ [HashNext]_<<configVars, hashVars>> => HashInv'
  <2> SUFFICES ASSUME HashInv, [HashNext]_<<configVars, hashVars>> PROVE HashInv'
    OBVIOUS
  <2>1. CASE Build /\ UNCHANGED hashVars
    BY <2>1, ConfigStep DEF hashVars
  <2>2. ASSUME NEW byte \in Bytes, HashByte(byte) PROVE HashInv'
    BY <2>2, ConfigStep, HashStays DEF HashByte
  <2>3. CASE UNCHANGED <<configVars, hashVars>>
    BY <2>3, ConfigStep DEF hashVars
  <2>4. QED
    BY <2>1, <2>2, <2>3 DEF HashNext
<1>3. HashInv => AcceptedConfigSuits
  <2> SUFFICES ASSUME HashInv, builds > 0, ~panicked
               PROVE  LET shards == 0 .. config.WorkerShardsCount - 1
                      IN  /\ SizesSuit(config)
                          /\ ShardOf(config, hash) \in shards
                          /\ {ShardOf(config, Halves(s)) : s \in shards} = shards
    BY DEF AcceptedConfigSuits
  <2>1. SizesSuit(config)
    BY SettledSuits DEF ConfigInv
  <2>2. IsPowerOfTwo(config.WorkerShardsCount)
    BY <2>1, Zenon DEF SizesSuit
  <2>3. QED
    BY <2>1, <2>2, ShardsReached, Zenon
<1>4. QED
  BY <1>1, <1>2, <1>3, PTL DEF HashSpec

-----------------------------------------------------------------------------
(* The throughput window.                                                  *)

(* A nonempty set of naturals has a least element.                         *)
LEMMA LeastNat ==
  ASSUME NEW S \in SUBSET Nat, S # {}
  PROVE  \E m \in S : \A n \in S : m <= n
<1> DEFINE R == OpToRel(<, Nat)
<1>1. IsWellFoundedOn(R, Nat)
  BY NatLessThanWellFounded, ZenonT(30)
<1>2. \A x, y \in Nat : <<x, y>> \in R <=> x < y
  BY DEF OpToRel
<1> HIDE DEF R
<1>3. PICK m \in S : \A n \in S : ~(<<n, m>> \in R)
  BY <1>1, WFMin, Zenon
<1>4. ASSUME NEW n \in S
      PROVE  m <= n
  <2>1. m \in Nat /\ n \in Nat
    OBVIOUS
  <2>2. ~ (n < m)
    BY <1>2, <1>3, <2>1, Zenon
  <2>3. QED
    BY <2>1, <2>2
<1>5. QED
  BY <1>4

(* Max and Min, once a greatest or least element is at hand.               *)
LEMMA MaxIs ==
  ASSUME NEW S \in SUBSET Int, NEW m \in S, \A n \in S : n <= m
  PROVE  Max(S) = m
<1>1. Max(S) \in S /\ \A n \in S : Max(S) >= n
  BY Zenon DEF Max
<1>2. Max(S) \in Int /\ m \in Int
  BY <1>1, Zenon
<1>3. QED
  BY <1>1, <1>2

LEMMA MaxOfTwo ==
  ASSUME NEW x \in Int, NEW y \in Int
  PROVE  Max({x, y}) = IF x <= y THEN y ELSE x
<1>1. {x, y} \in SUBSET Int
  OBVIOUS
<1>2. CASE x <= y
  BY <1>1, <1>2, MaxIs
<1>3. CASE y < x
  BY <1>1, <1>3, MaxIs
<1>4. QED
  BY <1>2, <1>3

LEMMA MinIs ==
  ASSUME NEW S \in SUBSET Int, NEW m \in S, \A n \in S : m <= n
  PROVE  Min(S) = m
<1>1. Min(S) \in S /\ \A n \in S : Min(S) <= n
  BY Zenon DEF Min
<1>2. Min(S) \in Int /\ m \in Int
  BY <1>1, Zenon
<1>3. QED
  BY <1>1, <1>2

(* A row of naturals has a greatest one.                                   *)
LEMMA GreatestOf ==
  ASSUME NEW N \in Nat \ {0}, NEW h \in [0 .. N - 1 -> Nat]
  PROVE  \E b \in 0 .. N - 1 : \A c \in 0 .. N - 1 : h[c] <= h[b]
<1> DEFINE top(n) == \E b \in 0 .. n : \A c \in 0 .. n : h[c] <= h[b]
           bad == {n \in 0 .. N - 1 : ~top(n)}
<1>1. ASSUME bad # {}
      PROVE  FALSE
  <2>1. PICK n \in bad : \A m \in bad : n <= m
    <3>1. bad \in SUBSET Nat
      OBVIOUS
    <3>2. QED
      BY <1>1, <3>1, LeastNat, Zenon
  <2>2. n # 0
    BY <2>1
  <2>3. n \in Nat /\ n - 1 \in 0 .. N - 1 /\ n - 1 \notin bad
    <3>1. n \in Nat /\ n - 1 \in 0 .. N - 1 /\ n - 1 < n
      BY <2>1, <2>2
    <3>2. n - 1 \notin bad
      <4> HIDE DEF bad
      <4> QED BY <2>1, <3>1
    <3>3. QED
      BY <3>1, <3>2
  <2>4. PICK b \in 0 .. n - 1 : \A c \in 0 .. n - 1 : h[c] <= h[b]
    BY <2>3
  <2>5. \A c \in 0 .. n : c \in 0 .. n - 1 \/ c = n
    BY <2>3
  <2>6. CASE h[n] <= h[b]
    <3>1. b \in 0 .. n /\ \A c \in 0 .. n : h[c] <= h[b]
      BY <2>3, <2>4, <2>5, <2>6
    <3>2. QED
      BY <2>1, <3>1, Zenon
  <2>7. CASE h[b] <= h[n]
    <3>1. n \in 0 .. n /\ h[n] \in Nat /\ h[b] \in Nat /\ \A c \in 0 .. n - 1 : h[c] \in Nat
      BY <2>1, <2>3
    <3>2. \A c \in 0 .. n : h[c] <= h[n]
      BY <2>4, <2>5, <2>7, <3>1
    <3>3. QED
      BY <2>1, <3>1, <3>2, Zenon
  <2>8. QED
    BY <2>3, <2>4, <2>6, <2>7
<1>2. N - 1 \in 0 .. N - 1
  OBVIOUS
<1>3. QED
  BY <1>1, <1>2, Zenon

(* Positions in the ring.                                                  *)
LEMMA Wraps ==
  ASSUME NEW N \in Nat \ {0}, NEW c \in 0 .. N - 1, NEW k \in 0 .. N
  PROVE  (c + k) % N = IF c + k < N THEN c + k ELSE c + k - N
<1> DEFINE q == (c + k) \div N
           r == (c + k) % N
<1>1. q \in Int /\ r \in 0 .. N - 1 /\ c + k = N * q + r
  OBVIOUS
<1> HIDE DEF q, r
<1>2. q >= 0
  BY <1>1
<1>3. q <= 1
  <2> SUFFICES ASSUME q >= 2
               PROVE  FALSE
    BY <1>1
  <2>1. N * q >= N * 2
    BY <1>1
  <2>2. QED
    BY <1>1, <2>1
<1>4. CASE q = 0
  BY <1>1, <1>4 DEF r
<1>5. CASE q = 1
  BY <1>1, <1>5 DEF r
<1>6. QED
  BY <1>1, <1>2, <1>3, <1>4, <1>5

LEMMA EpochType == \A s \in Nat : Epoch(s) \in Nat
  BY WindowAssumption DEF Epoch

LEMMA WindowConstants == BucketCount \in Nat \ {0} /\ BucketSeconds \in Nat \ {0} /\ Durations \subseteq Nat \ {0}
  BY WindowAssumption

(* How far advance moves.                                                  *)
LEMMA GapIs ==
  ASSUME NEW rb, rb.lastEpoch \in Nat, NEW nowEpoch \in Nat, nowEpoch > rb.lastEpoch
  PROVE  /\ Gap(rb, nowEpoch) \in 1 .. BucketCount
         /\ Gap(rb, nowEpoch) = BucketCount \/ Gap(rb, nowEpoch) = nowEpoch - rb.lastEpoch
         /\ Gap(rb, nowEpoch) <= nowEpoch - rb.lastEpoch
<1> DEFINE d == nowEpoch - rb.lastEpoch
<1>1. d \in Nat \ {0} /\ {d, BucketCount} \in SUBSET Int
  BY WindowConstants
<1>2. CASE d <= BucketCount
  <2>1. Min({d, BucketCount}) = d
    BY <1>1, <1>2, WindowConstants, MinIs
  <2>2. QED
    BY <1>1, <1>2, <2>1, WindowConstants DEF Gap
<1>3. CASE BucketCount <= d
  <2>1. Min({d, BucketCount}) = BucketCount
    BY <1>1, <1>3, WindowConstants, MinIs
  <2>2. QED
    BY <1>1, <1>3, <2>1, WindowConstants DEF Gap
<1>4. QED
  BY <1>1, <1>2, <1>3, WindowConstants

(* Where a bucket is after an advance: a skipped one is younger than the   *)
(* advance is long, any other has aged by it.                              *)
LEMMA Ages ==
  ASSUME NEW old, old.currentIndex \in Slots, NEW gap \in 1 .. BucketCount,
         NEW new, new.currentIndex = (old.currentIndex + gap) % BucketCount,
         NEW b \in Slots
  PROVE  /\ new.currentIndex \in Slots
         /\ Age(new, b) \in 0 .. BucketCount - 1
         /\ b \in {(old.currentIndex + k) % BucketCount : k \in 1 .. gap} <=> Age(new, b) < gap
         /\ Age(new, b) < gap \/ Age(new, b) = Age(old, b) + gap
<1> DEFINE N == BucketCount
           c == old.currentIndex
           d == new.currentIndex
<1>1. N \in Nat \ {0} /\ c \in 0 .. N - 1 /\ b \in 0 .. N - 1 /\ gap \in 1 .. N /\ gap \in 0 .. N
  BY WindowConstants DEF Slots
<1>2. d = IF c + gap < N THEN c + gap ELSE c + gap - N
  BY <1>1, Wraps, Zenon
<1>3. ASSUME NEW k \in 1 .. gap
      PROVE  (c + k) % N = IF c + k < N THEN c + k ELSE c + k - N
  <2>1. k \in 0 .. N
    BY <1>1
  <2>2. QED
    BY <1>1, <2>1, Wraps, Zenon
<1>4. Age(new, b) = (IF b <= d THEN d - b ELSE d - b + N) /\ Age(old, b) = (IF b <= c THEN c - b ELSE c - b + N)
  BY DEF Age
<1> HIDE DEF N, c, d
<1>5. ASSUME NEW k \in 1 .. gap, b = (c + k) % N
      PROVE  Age(new, b) = gap - k
  BY <1>1, <1>2, <1>3, <1>4, <1>5
<1>6. ASSUME Age(new, b) < gap
      PROVE  gap - Age(new, b) \in 1 .. gap /\ b = (c + (gap - Age(new, b))) % N
  <2>1. gap - Age(new, b) \in 1 .. gap
    BY <1>1, <1>2, <1>4, <1>6
  <2>2. QED
    BY <1>1, <1>2, <1>3, <1>4, <2>1
<1>7. /\ d \in 0 .. N - 1 /\ Age(new, b) \in 0 .. N - 1
      /\ Age(new, b) < gap \/ Age(new, b) = Age(old, b) + gap
  BY <1>1, <1>2, <1>4
<1>8. b \in {(c + k) % N : k \in 1 .. gap} <=> Age(new, b) < gap
  <2>1. ASSUME NEW k \in 1 .. gap, b = (c + k) % N
        PROVE  Age(new, b) < gap
    <3>1. Age(new, b) = gap - k
      BY <1>5, <2>1, Zenon
    <3>2. gap \in Nat /\ k \in Nat /\ k >= 1
      BY <1>1
    <3>3. QED
      BY <3>1, <3>2
  <2>2. Age(new, b) < gap => \E k \in 1 .. gap : b = (c + k) % N
    BY <1>6, Zenon
  <2>3. QED
    BY <2>1, <2>2, Zenon
<1>9. QED
  BY <1>7, <1>8 DEF Slots, N, c, d

LEMMA ElementsOf ==
  ASSUME NEW S, NEW q \in Seq(S)
  PROVE  \A j \in DOMAIN q : q[j] \in S
  OBVIOUS

LEMMA RecordedType ==
  ASSUME recorded \in Seq([epoch : Nat, endToEnd : Durations, deadLetter : BOOLEAN])
  PROVE  \A j \in DOMAIN recorded : recorded[j].epoch \in Nat /\ recorded[j].endToEnd \in Nat \ {0}
<1>1. \A j \in DOMAIN recorded : recorded[j] \in [epoch : Nat, endToEnd : Durations, deadLetter : BOOLEAN]
  BY ElementsOf, Zenon
<1>2. QED
  BY <1>1, WindowConstants, Zenon

(* No record falls into an epoch after the last.                           *)
LEMMA NothingAhead ==
  ASSUME NEW rb, RingFits(rb), NEW e \in Int, e > rb.lastEpoch,
         recorded \in Seq([epoch : Nat, endToEnd : Durations, deadLetter : BOOLEAN])
  PROVE  CountedIn(e) = {} /\ Summarises(EmptyBucket, CountedIn(e))
<1>1. \A j \in DOMAIN recorded : recorded[j].epoch \in Nat /\ recorded[j].epoch <= rb.lastEpoch
  BY RecordedType, Zenon DEF RingFits
<1>2. rb.lastEpoch \in Nat
  BY DEF RingFits
<1>3. CountedIn(e) = {}
  BY <1>1, <1>2 DEF CountedIn
<1>4. Cardinality({}) = 0
  BY FS_EmptySet
<1>5. {j \in CountedIn(e) : recorded[j].deadLetter} = {}
  BY <1>3
<1>6. QED
  BY <1>3, <1>4, <1>5 DEF Summarises, EmptyBucket

(* advance keeps every bucket in step with its epoch.                      *)
LEMMA AdvanceFits ==
  ASSUME RingFits(ring), NEW nowEpoch \in Nat, nowEpoch > ring.lastEpoch,
         recorded \in Seq([epoch : Nat, endToEnd : Durations, deadLetter : BOOLEAN])
  PROVE  LET rb == AdvanceRing(ring, nowEpoch) IN RingFits(rb) /\ rb.lastEpoch = nowEpoch
<1> DEFINE rb == AdvanceRing(ring, nowEpoch)
           gap == Gap(ring, nowEpoch)
           skipped == {(ring.currentIndex + k) % BucketCount : k \in 1 .. gap}
           Bucket == [count : Nat, deadLetterCount : Nat, maxEndToEnd : Nat, minEndToEnd : Nat]
<1>1. /\ ring.lastEpoch \in Nat /\ ring.currentIndex \in Slots /\ ring.buckets \in [Slots -> Bucket]
  BY DEF RingFits
<1>2. /\ gap \in 1 .. BucketCount /\ gap <= nowEpoch - ring.lastEpoch
      /\ gap = BucketCount \/ gap = nowEpoch - ring.lastEpoch
  BY <1>1, GapIs
<1>3. /\ rb = [buckets |-> [b \in Slots |-> IF b \in skipped THEN EmptyBucket ELSE ring.buckets[b]],
               currentIndex |-> (ring.currentIndex + gap) % BucketCount,
               lastEpoch |-> nowEpoch]
  BY DEF AdvanceRing, ClearedTo
<1> HIDE DEF gap, rb, skipped
<1>4. /\ rb.lastEpoch = nowEpoch /\ rb.currentIndex = (ring.currentIndex + gap) % BucketCount
      /\ \A b \in Slots : rb.buckets[b] = IF b \in skipped THEN EmptyBucket ELSE ring.buckets[b]
  BY <1>3
<1> USE DEF skipped
<1>5. rb \in [buckets : [Slots -> Bucket], currentIndex : Slots, lastEpoch : Nat]
  <2>1. EmptyBucket \in Bucket
    BY DEF EmptyBucket
  <2>2. BucketCount - 1 \in Slots
    BY WindowConstants DEF Slots
  <2>3. rb.currentIndex \in Slots
    BY <1>1, <1>2, <1>4, <2>2, Ages, Zenon
  <2>4. QED
    BY <1>1, <1>3, <1>4, <2>1, <2>3, Zenon
<1>6. \A j \in DOMAIN recorded : recorded[j].epoch <= rb.lastEpoch
  <2>1. \A j \in DOMAIN recorded : recorded[j].epoch \in Nat /\ recorded[j].epoch <= ring.lastEpoch
    BY RecordedType, Zenon DEF RingFits
  <2>2. QED
    BY <1>1, <1>4, <2>1
<1>7. ASSUME NEW b \in Slots
      PROVE  Summarises(rb.buckets[b], CountedIn(rb.lastEpoch - Age(rb, b)))
  <2>1. /\ Age(rb, b) \in 0 .. BucketCount - 1
        /\ b \in skipped <=> Age(rb, b) < gap
        /\ Age(rb, b) < gap \/ Age(rb, b) = Age(ring, b) + gap
    BY <1>1, <1>2, <1>4, Ages
  <2>2. CASE Age(rb, b) < gap
    <3>1. rb.lastEpoch - Age(rb, b) \in Int /\ rb.lastEpoch - Age(rb, b) > ring.lastEpoch
      BY <1>1, <1>2, <1>4, <2>1, <2>2, WindowConstants
    <3>2. QED
      BY <1>4, <2>1, <2>2, <3>1, NothingAhead, Zenon
  <2>3. CASE ~(Age(rb, b) < gap)
    <3>1. rb.lastEpoch - Age(rb, b) = ring.lastEpoch - Age(ring, b)
      <4>1. Age(ring, b) \in Int /\ gap = nowEpoch - ring.lastEpoch
        BY <1>1, <1>2, <2>1, <2>3, WindowConstants DEF Age, Slots
      <4>2. QED
        BY <1>1, <1>4, <2>1, <2>3, <4>1
    <3>2. rb.buckets[b] = ring.buckets[b]
      BY <1>4, <2>1, <2>3
    <3>3. QED
      BY <3>1, <3>2 DEF RingFits
  <2>4. QED
    BY <2>2, <2>3
<1>8. QED
  BY <1>4, <1>5, <1>6, <1>7 DEF RingFits, rb

(* record counts the message in the current bucket, which is the bucket of *)
(* the last epoch, and in no other.                                        *)
LEMMA CountedFits ==
  ASSUME NEW rb, RingFits(rb), NEW endToEnd \in Durations, NEW deadLetter \in BOOLEAN,
         recorded \in Seq([epoch : Nat, endToEnd : Durations, deadLetter : BOOLEAN]),
         ring' = [rb EXCEPT !.buckets[rb.currentIndex] = Counted(@, endToEnd, deadLetter)],
         recorded' = Append(recorded, [epoch |-> rb.lastEpoch, endToEnd |-> endToEnd, deadLetter |-> deadLetter])
  PROVE  /\ recorded' \in Seq([epoch : Nat, endToEnd : Durations, deadLetter : BOOLEAN])
         /\ RingFits(ring)'
<1> DEFINE Bucket == [count : Nat, deadLetterCount : Nat, maxEndToEnd : Nat, minEndToEnd : Nat]
           c == rb.currentIndex
           e == rb.lastEpoch
           old == rb.buckets[c]
           new == Counted(old, endToEnd, deadLetter)
           r == [epoch |-> e, endToEnd |-> endToEnd, deadLetter |-> deadLetter]
<1>1. /\ rb \in [buckets : [Slots -> Bucket], currentIndex : Slots, lastEpoch : Nat]
      /\ e \in Nat /\ c \in Slots /\ rb.buckets \in [Slots -> Bucket] /\ old \in Bucket
  BY DEF RingFits
<1>2. r \in [epoch : Nat, endToEnd : Durations, deadLetter : BOOLEAN]
  BY <1>1
<1>3. recorded' \in Seq([epoch : Nat, endToEnd : Durations, deadLetter : BOOLEAN])
  BY <1>2
<1>4. PICK n : n = Len(recorded) + 1
  OBVIOUS
<1>5. PICK J : J = CountedIn(e)
  OBVIOUS
<1>6. /\ n \in Nat /\ DOMAIN recorded = 1 .. n - 1 /\ DOMAIN recorded' = (DOMAIN recorded) \cup {n}
      /\ n \notin DOMAIN recorded /\ recorded'[n] = r
      /\ \A j \in DOMAIN recorded : recorded'[j] = recorded[j]
  BY <1>4
<1>7. /\ ring'.lastEpoch = e /\ ring'.currentIndex = c
      /\ ring'.buckets[c] = new /\ \A b \in Slots \ {c} : ring'.buckets[b] = rb.buckets[b]
      /\ \A b : Age(ring, b)' = Age(rb, b)
  BY <1>1 DEF Age
<1>8. /\ new.count = old.count + 1
      /\ new.deadLetterCount = old.deadLetterCount + (IF deadLetter THEN 1 ELSE 0)
      /\ new.maxEndToEnd = (IF old.maxEndToEnd <= endToEnd THEN endToEnd ELSE old.maxEndToEnd)
      /\ new.minEndToEnd = IF old.minEndToEnd = 0 \/ endToEnd < old.minEndToEnd THEN endToEnd ELSE old.minEndToEnd
  <2>1. old.maxEndToEnd \in Int /\ endToEnd \in Int
    BY <1>1, WindowConstants
  <2>2. Max({old.maxEndToEnd, endToEnd}) = IF old.maxEndToEnd <= endToEnd THEN endToEnd ELSE old.maxEndToEnd
    BY <2>1, MaxOfTwo, Zenon
  <2>3. QED
    BY <2>2 DEF Counted
<1> HIDE DEF c, e, old, new, r
<1>9. Age(rb, c) = 0 /\ \A b \in Slots \ {c} : Age(rb, b) \in Nat \ {0}
  <2>1. BucketCount \in Nat /\ c \in Nat /\ c <= BucketCount - 1
    BY <1>1, WindowConstants DEF Slots
  <2>2. \A b : Age(rb, b) = IF b <= c THEN c - b ELSE c - b + BucketCount
    BY Zenon DEF Age, c
  <2>3. Age(rb, c) = 0
    BY <2>1, <2>2
  <2>4. ASSUME NEW b \in Slots \ {c}
        PROVE  Age(rb, b) \in Nat \ {0}
    <3>1. b \in Nat /\ b <= BucketCount - 1 /\ b # c
      BY <2>1 DEF Slots
    <3>2. QED
      BY <2>1, <2>2, <3>1
  <2>5. QED
    BY <2>3, <2>4
<1>10. /\ J \subseteq DOMAIN recorded /\ CountedIn(e)' = J \cup {n} /\ n \notin J
       /\ \A d : d # e => CountedIn(d)' = CountedIn(d) /\ CountedIn(d) \subseteq DOMAIN recorded
  BY <1>5, <1>6 DEF CountedIn, r
<1>11. IsFiniteSet(J) /\ IsFiniteSet({j \in J : recorded[j].deadLetter})
  <2>1. IsFiniteSet(1 .. n - 1)
    BY <1>6, FS_Interval
  <2>2. QED
    BY <1>6, <1>10, <2>1, FS_Subset
<1>12. Summarises(old, J)
  BY <1>1, <1>5, <1>9 DEF RingFits, e, old, c
<1>13. Summarises(new, J \cup {n})'
  <2>1. \A j \in J : recorded'[j] = recorded[j] /\ recorded[j].endToEnd \in Nat \ {0}
    BY <1>6, <1>10, RecordedType, Zenon
  <2>2. recorded'[n].endToEnd = endToEnd /\ recorded'[n].deadLetter = deadLetter /\ endToEnd \in Nat \ {0}
    BY <1>6, WindowConstants DEF r
  <2>3. new.count = Cardinality(J \cup {n})
    BY <1>1, <1>8, <1>10, <1>11, <1>12, FS_AddElement, ZenonT(30) DEF Summarises
  <2>4. new.deadLetterCount = Cardinality({j \in J \cup {n} : recorded'[j].deadLetter})
    <3>1. PICK D : D = {j \in J : recorded[j].deadLetter}
      BY Zenon
    <3>2. /\ {j \in J \cup {n} : recorded'[j].deadLetter} = IF deadLetter THEN D \cup {n} ELSE D
          /\ IsFiniteSet(D) /\ n \notin D
      BY <1>10, <1>11, <2>1, <2>2, <3>1, Zenon
    <3>3. old.deadLetterCount = Cardinality(D) /\ old.deadLetterCount \in Nat
      BY <1>1, <1>12, <3>1 DEF Summarises
    <3>4. CASE deadLetter
      <4>1. new.deadLetterCount = old.deadLetterCount + 1
        BY <1>8, <3>4, Zenon
      <4>2. {j \in J \cup {n} : recorded'[j].deadLetter} = D \cup {n}
        BY <3>2, <3>4, Zenon
      <4>3. Cardinality(D \cup {n}) = Cardinality(D) + 1
        BY <3>2, FS_AddElement, Zenon
      <4>4. QED
        BY <3>3, <4>1, <4>2, <4>3, Zenon
    <3>5. CASE ~deadLetter
      <4>1. new.deadLetterCount = old.deadLetterCount + 0
        BY <1>8, <3>5, Zenon
      <4>2. {j \in J \cup {n} : recorded'[j].deadLetter} = D
        BY <3>2, <3>5, Zenon
      <4>3. new.deadLetterCount = Cardinality(D)
        BY <3>3, <4>1
      <4>4. QED
        BY <4>2, <4>3, Zenon
    <3>6. QED
      BY <3>4, <3>5, Zenon
  <2>5. CASE J = {}
    <3>1. old.maxEndToEnd = 0 /\ old.minEndToEnd = 0
      BY <1>12, <2>5 DEF Summarises, EmptyBucket
    <3>2. new.maxEndToEnd = endToEnd /\ new.minEndToEnd = endToEnd
      BY <1>8, <2>2, <3>1
    <3>3. QED
      <4>1. J \cup {n} = {n}
        BY <2>5
      <4>2. /\ recorded'[n].endToEnd = new.minEndToEnd /\ recorded'[n].endToEnd = new.maxEndToEnd
            /\ new.minEndToEnd <= recorded'[n].endToEnd /\ recorded'[n].endToEnd <= new.maxEndToEnd
        <5>1. endToEnd <= endToEnd
          BY <2>2
        <5>2. QED
          BY <2>2, <3>2, <5>1, Zenon
      <4>3. QED
        BY <2>3, <2>4, <4>1, <4>2, Zenon DEF Summarises
  <2>6. CASE J # {}
    <3>1. /\ old.minEndToEnd \in Nat \ {0} /\ old.maxEndToEnd \in Nat
          /\ \A j \in J : old.minEndToEnd <= recorded[j].endToEnd /\ recorded[j].endToEnd <= old.maxEndToEnd
          /\ \E j, k \in J : recorded[j].endToEnd = old.minEndToEnd /\ recorded[k].endToEnd = old.maxEndToEnd
      BY <1>1, <1>12, <2>1, <2>6 DEF Summarises
    <3>2. /\ new.minEndToEnd \in Nat /\ new.maxEndToEnd \in Nat
          /\ new.minEndToEnd <= old.minEndToEnd /\ new.minEndToEnd <= endToEnd
          /\ old.maxEndToEnd <= new.maxEndToEnd /\ endToEnd <= new.maxEndToEnd
          /\ new.minEndToEnd \in {old.minEndToEnd, endToEnd} /\ new.maxEndToEnd \in {old.maxEndToEnd, endToEnd}
      BY <1>8, <2>2, <3>1
    <3>3. \A j \in J \cup {n} : new.minEndToEnd <= recorded'[j].endToEnd /\ recorded'[j].endToEnd <= new.maxEndToEnd
      <4>1. ASSUME NEW j \in J
            PROVE  new.minEndToEnd <= recorded'[j].endToEnd /\ recorded'[j].endToEnd <= new.maxEndToEnd
        <5>1. PICK x \in Nat : x = recorded'[j].endToEnd /\ x = recorded[j].endToEnd
          BY <2>1, Zenon
        <5>2. old.minEndToEnd <= x /\ x <= old.maxEndToEnd
          BY <3>1, <5>1, Zenon
        <5>3. new.minEndToEnd <= x /\ x <= new.maxEndToEnd
          BY <3>1, <3>2, <5>2
        <5>4. QED
          BY <5>1, <5>3, Zenon
      <4>2. new.minEndToEnd <= recorded'[n].endToEnd /\ recorded'[n].endToEnd <= new.maxEndToEnd
        BY <2>2, <3>2, Zenon
      <4>3. QED
        BY <4>1, <4>2, Zenon
    <3>4. \E j \in J \cup {n} : recorded'[j].endToEnd = new.minEndToEnd
      BY <2>1, <2>2, <3>1, <3>2, Zenon
    <3>5. \E k \in J \cup {n} : recorded'[k].endToEnd = new.maxEndToEnd
      BY <2>1, <2>2, <3>1, <3>2, Zenon
    <3>6. QED
      BY <2>3, <2>4, <3>3, <3>4, <3>5, Zenon DEF Summarises
  <2>7. QED
    BY <2>5, <2>6
<1>14. ring' \in [buckets : [Slots -> Bucket], currentIndex : Slots, lastEpoch : Nat]
  <2>1. new \in Bucket
    <3>1. /\ old.count \in Nat /\ old.deadLetterCount \in Nat /\ old.maxEndToEnd \in Nat /\ old.minEndToEnd \in Nat
          /\ endToEnd \in Nat
      BY <1>1, WindowConstants
    <3>2. new = [count |-> new.count, deadLetterCount |-> new.deadLetterCount,
                 maxEndToEnd |-> new.maxEndToEnd, minEndToEnd |-> new.minEndToEnd]
      BY Zenon DEF Counted, new
    <3>3. new.deadLetterCount = old.deadLetterCount + 0 \/ new.deadLetterCount = old.deadLetterCount + 1
      BY <1>8, Zenon
    <3>4. /\ new.count \in Nat /\ new.deadLetterCount \in Nat /\ new.maxEndToEnd \in Nat /\ new.minEndToEnd \in Nat
      BY <1>8, <3>1, <3>3
    <3>5. QED
      BY <3>2, <3>4
  <2>2. QED
    BY <1>1, <2>1, Zenon DEF new, old, c
<1>15. \A j \in DOMAIN recorded' : recorded'[j].epoch <= e
  <2>1. \A j \in DOMAIN recorded : recorded[j].epoch <= e
    BY DEF RingFits, e
  <2>2. QED
    BY <1>1, <1>6, <2>1 DEF r
<1>16. ASSUME NEW b \in Slots \ {c}
       PROVE  Summarises(rb.buckets[b], CountedIn(e - Age(rb, b)))'
  <2>1. PICK d : d = e - Age(rb, b)
    OBVIOUS
  <2>2. d # e
    BY <1>1, <1>9, <2>1
  <2>3. PICK K : K = CountedIn(d)
    OBVIOUS
  <2>4. CountedIn(d)' = K /\ K \subseteq DOMAIN recorded /\ \A j \in K : recorded'[j] = recorded[j]
    BY <1>6, <1>10, <2>2, <2>3
  <2>5. Summarises(rb.buckets[b], K)
    BY <2>1, <2>3 DEF RingFits, e
  <2>6. {j \in K : recorded'[j].deadLetter} = {j \in K : recorded[j].deadLetter}
    BY <2>4
  <2>7. Summarises(rb.buckets[b], K)'
    <3>1. \A j \in K : recorded'[j].endToEnd = recorded[j].endToEnd
      BY <2>4, Zenon
    <3>2. \A j \in K : /\ rb.buckets[b].minEndToEnd <= recorded'[j].endToEnd
                      /\ recorded'[j].endToEnd <= rb.buckets[b].maxEndToEnd
      BY <2>5, <3>1, Zenon DEF Summarises
    <3>3. CASE K = {}
      BY <2>5, <2>6, <3>2, <3>3, Zenon DEF Summarises
    <3>4. CASE K # {}
      <4>1. PICK j \in K, k \in K : /\ recorded[j].endToEnd = rb.buckets[b].minEndToEnd
                                   /\ recorded[k].endToEnd = rb.buckets[b].maxEndToEnd
        BY <2>5, <3>4, Zenon DEF Summarises
      <4>2. /\ recorded'[j].endToEnd = rb.buckets[b].minEndToEnd
            /\ recorded'[k].endToEnd = rb.buckets[b].maxEndToEnd
        BY <3>1, <4>1, Zenon
      <4>3. QED
        BY <2>5, <2>6, <3>2, <3>4, <4>2, Zenon DEF Summarises
    <3>5. QED
      BY <3>3, <3>4
  <2>8. QED
    BY <2>1, <2>4, <2>7
<1>17. QED
  <2>1. ASSUME NEW b \in Slots
        PROVE  Summarises(ring.buckets[b], CountedIn(ring.lastEpoch - Age(ring, b)))'
    <3>1. CASE b = c
      <4>1. e - Age(rb, c) = e
        BY <1>1, <1>9
      <4>2. CountedIn(ring.lastEpoch - Age(ring, b))' = J \cup {n}
        BY <1>7, <1>10, <3>1, <4>1
      <4>3. QED
        BY <1>7, <1>13, <3>1, <4>2, Zenon
    <3>2. CASE b # c
      BY <1>7, <1>16, <3>2, Zenon
    <3>3. QED
      BY <3>1, <3>2
  <2>2. QED
    BY <1>3, <1>7, <1>14, <1>15, <2>1, Zenon DEF RingFits

(* Every step keeps the ring in step with the log.                         *)
LEMMA WindowSteps ==
  ASSUME WindowInv, [WindowNext]_windowVars
  PROVE  WindowInv'
<1>1. /\ clock \in Nat /\ RingFits(ring)
      /\ recorded \in Seq([epoch : Nat, endToEnd : Durations, deadLetter : BOOLEAN])
      /\ snap = [pc |-> snap.pc, now |-> snap.now, entries |-> snap.entries]
  BY DEF WindowInv
<1>2. ASSUME UNCHANGED <<ring, recorded>>
      PROVE  RingFits(ring)' /\ recorded' = recorded
  <2>1. ring' = ring /\ recorded' = recorded
    BY <1>2
  <2>2. RingFits(ring)' <=> RingFits(ring)
    <3>1. \A e : CountedIn(e)' = CountedIn(e)
      BY <2>1 DEF CountedIn
    <3>2. \A b : Age(ring, b)' = Age(ring, b)
      BY <2>1 DEF Age
    <3>3. \A x, K : Summarises(x, K)' <=> Summarises(x, K)
      BY <2>1, Zenon DEF Summarises
    <3>4. QED
      BY <2>1, <3>1, <3>2, <3>3 DEF RingFits
  <2>3. QED
    BY <1>1, <2>1, <2>2
<1>3. ASSUME NEW processedAt \in 0 .. clock, NEW endToEnd \in Durations, NEW deadLetter \in BOOLEAN,
             Record(processedAt, endToEnd, deadLetter)
      PROVE  WindowInv'
  <2>1. processedAt \in Nat
    BY <1>1
  <2>2. PICK nowEpoch \in Nat : nowEpoch = Epoch(processedAt)
    BY <2>1, EpochType
  <2>3. PICK rb : /\ rb = IF nowEpoch > ring.lastEpoch THEN AdvanceRing(ring, nowEpoch) ELSE ring
                  /\ ring' = [rb EXCEPT !.buckets[rb.currentIndex] = Counted(@, endToEnd, deadLetter)]
                  /\ recorded' = Append(recorded, [epoch |-> rb.lastEpoch, endToEnd |-> endToEnd,
                                                   deadLetter |-> deadLetter])
    BY <1>3, <2>2, Zenon DEF Record
  <2>4. RingFits(rb)
    BY <1>1, <2>2, <2>3, AdvanceFits, Zenon
  <2>5. /\ recorded' \in Seq([epoch : Nat, endToEnd : Durations, deadLetter : BOOLEAN])
        /\ RingFits(ring)'
    BY <1>1, <1>3, <2>3, <2>4, CountedFits, Zenon
  <2>6. UNCHANGED <<clock, snap>>
    BY <1>3, Zenon DEF Record
  <2>7. QED
    BY <1>1, <2>5, <2>6, Zenon DEF WindowInv
<1>4. CASE Second
  BY <1>1, <1>2, <1>4 DEF Second, WindowInv
<1>5. CASE ReadClock
  BY <1>1, <1>2, <1>5, Zenon DEF ReadClock, WindowInv
<1>6. CASE SampleWindow
  BY <1>1, <1>2, <1>6, ZenonT(30) DEF SampleWindow, WindowInv
<1>7. CASE UNCHANGED windowVars
  BY <1>1, <1>2, <1>7 DEF windowVars, WindowInv
<1>8. QED
  BY <1>3, <1>4, <1>5, <1>6, <1>7 DEF WindowNext

(* However the clock jumps and whatever order completion times come in,    *)
(* every bucket of the ring summarises exactly the records of its epoch.   *)
(* (record, advance)                                                       *)
THEOREM WindowInvariant == WindowSpec => []WindowInv
<1>1. WindowInit => WindowInv
  <2> SUFFICES ASSUME WindowInit
               PROVE  WindowInv
    OBVIOUS
  <2>1. Epoch(0) \in Nat /\ BucketCount \in Nat \ {0}
    BY EpochType, WindowConstants
  <2>2. \A e : CountedIn(e) = {}
    BY DEF WindowInit, CountedIn
  <2>3. Summarises(EmptyBucket, {})
    <3>1. Cardinality({}) = 0
      BY FS_EmptySet
    <3>2. {j \in {} : recorded[j].deadLetter} = {}
      OBVIOUS
    <3>3. QED
      BY <3>1, <3>2 DEF Summarises, EmptyBucket
  <2>4. /\ ring \in [buckets : [Slots -> [count : Nat, deadLetterCount : Nat, maxEndToEnd : Nat, minEndToEnd : Nat]],
                     currentIndex : Slots, lastEpoch : Nat]
        /\ \A b \in Slots : ring.buckets[b] = EmptyBucket
    BY <2>1 DEF WindowInit, NewRingBuffer, EmptyBucket, Slots
  <2>5. RingFits(ring)
    <3>1. DOMAIN recorded = {}
      BY DEF WindowInit
    <3>2. QED
      BY <2>2, <2>3, <2>4, <3>1, Zenon DEF RingFits
  <2>6. QED
    BY <2>5 DEF WindowInv, WindowInit
<1>2. WindowInv /\ [WindowNext]_windowVars => WindowInv'
  BY WindowSteps
<1>3. QED
  BY <1>1, <1>2, PTL DEF WindowSpec

(* The buckets hold all the records of the last BucketCount epochs.        *)
LEMMA BucketsOfWindow ==
  ASSUME WindowInv
  PROVE  /\ \A j \in InWindow : /\ recorded[j].endToEnd \in Nat \ {0}
                                /\ \E b \in Slots : j \in CountedIn(ring.lastEpoch - Age(ring, b))
         /\ \A b \in Slots : CountedIn(ring.lastEpoch - Age(ring, b)) \subseteq InWindow
         /\ \A i \in Slots : /\ (ring.currentIndex + 1 + i) % BucketCount \in Slots
                             /\ Age(ring, (ring.currentIndex + 1 + i) % BucketCount) = BucketCount - 1 - i
<1> DEFINE N == BucketCount
           c == ring.currentIndex
           e == ring.lastEpoch
<1>1. N \in Nat \ {0} /\ c \in 0 .. N - 1 /\ e \in Nat /\ Slots = 0 .. N - 1
  BY WindowConstants DEF WindowInv, RingFits, Slots
<1>2. /\ \A j \in DOMAIN recorded : recorded[j].epoch \in Nat /\ recorded[j].endToEnd \in Nat \ {0}
      /\ \A j \in DOMAIN recorded : recorded[j].epoch <= e
  BY RecordedType, Zenon DEF WindowInv, RingFits
<1>3. \A b : Age(ring, b) = IF b <= c THEN c - b ELSE c - b + N
  BY Zenon DEF Age
<1> HIDE DEF N, c, e
<1>4. ASSUME NEW j \in InWindow
      PROVE  /\ recorded[j].endToEnd \in Nat \ {0}
             /\ \E b \in Slots : j \in CountedIn(e - Age(ring, b))
  <2>1. PICK x : x = recorded[j].epoch
    OBVIOUS
  <2>2. j \in DOMAIN recorded /\ x \in Nat /\ x <= e /\ x > e - N
    BY <1>2, <2>1 DEF InWindow, N, e
  <2>3. PICK b \in 0 .. N - 1 : b = IF e - x <= c THEN c - (e - x) ELSE c - (e - x) + N
    <3> DEFINE b0 == IF e - x <= c THEN c - (e - x) ELSE c - (e - x) + N
    <3>1. b0 \in 0 .. N - 1
      BY <1>1, <2>2
    <3>2. QED
      BY <3>1, Zenon
  <2>4. e - Age(ring, b) = x
    BY <1>1, <1>3, <2>2, <2>3
  <2>5. QED
    BY <1>1, <1>2, <2>1, <2>2, <2>3, <2>4, Zenon DEF CountedIn
<1>5. ASSUME NEW b \in Slots
      PROVE  CountedIn(e - Age(ring, b)) \subseteq InWindow
  <2>1. e - Age(ring, b) > e - N
    BY <1>1, <1>3
  <2>2. QED
    BY <2>1, Zenon DEF CountedIn, InWindow, N, e
<1>6. ASSUME NEW i \in Slots
      PROVE  (c + 1 + i) % N \in Slots /\ Age(ring, (c + 1 + i) % N) = N - 1 - i
  <2>1. i \in 0 .. N - 1 /\ 1 + i \in 0 .. N /\ c + 1 + i = c + (1 + i)
    BY <1>1
  <2>2. PICK b : b = (c + 1 + i) % N
    OBVIOUS
  <2>3. b = IF c + (1 + i) < N THEN c + (1 + i) ELSE c + (1 + i) - N
    BY <1>1, <2>1, <2>2, Wraps, ZenonT(30)
  <2>4. b \in Slots /\ Age(ring, b) = N - 1 - i
    BY <1>1, <1>3, <2>1, <2>3
  <2>5. QED
    BY <2>2, <2>4, Zenon
<1>7. QED
  BY <1>4, <1>5, <1>6, Zenon DEF N, c, e

(* The counts of a window's buckets are those of their epochs.             *)
LEMMA CountsOfWindow ==
  ASSUME WindowInv, NEW i \in Slots
  PROVE  LET wd == WindowData(ring)
             js == CountedIn(ring.lastEpoch - (BucketCount - 1 - i))
         IN  /\ wd.perBucket[i].count = Cardinality(js)
             /\ wd.perBucket[i].deadLetterCount = Cardinality({j \in js : recorded[j].deadLetter})
<1>1. PICK b : b = (ring.currentIndex + 1 + i) % BucketCount
  OBVIOUS
<1>2. b \in Slots /\ Age(ring, b) = BucketCount - 1 - i
  BY <1>1, BucketsOfWindow
<1>3. WindowData(ring).perBucket[i] = ring.buckets[b]
  BY <1>1 DEF WindowData
<1>4. Summarises(ring.buckets[b], CountedIn(ring.lastEpoch - (BucketCount - 1 - i)))
  BY <1>2, Zenon DEF WindowInv, RingFits
<1>5. QED
  BY <1>3, <1>4, Zenon DEF Summarises

(* So are the extremes.                                                    *)
LEMMA ExtremesOfWindow ==
  ASSUME WindowInv
  PROVE  LET wd == WindowData(ring)
             times == {recorded[j].endToEnd : j \in InWindow}
         IN  /\ wd.maxEndToEnd = Max({0} \cup times)
             /\ wd.minEndToEnd = IF times = {} THEN 0 ELSE Min(times)
<1> DEFINE times == {recorded[j].endToEnd : j \in InWindow}
           filled == {b \in Slots : ring.buckets[b].count > 0}
           of(b) == CountedIn(ring.lastEpoch - Age(ring, b))
<1>1. /\ \A j \in InWindow : recorded[j].endToEnd \in Nat \ {0} /\ \E b \in Slots : j \in of(b)
      /\ \A b \in Slots : of(b) \subseteq InWindow
  BY BucketsOfWindow, Zenon
<1>2. /\ \A b \in Slots : Summarises(ring.buckets[b], of(b))
      /\ ring.buckets \in [Slots -> [count : Nat, deadLetterCount : Nat, maxEndToEnd : Nat, minEndToEnd : Nat]]
  BY DEF WindowInv, RingFits
<1>3. \A b \in Slots : /\ ring.buckets[b].count \in Nat
                       /\ ring.buckets[b].maxEndToEnd \in Nat
                       /\ ring.buckets[b].minEndToEnd \in Nat
  BY <1>2
<1>4. times \in SUBSET Nat
  BY <1>1
<1>5. \A b \in Slots : b \in filled <=> of(b) # {}
  <2> SUFFICES ASSUME NEW b \in Slots
               PROVE  b \in filled <=> of(b) # {}
    OBVIOUS
  <2>1. IsFiniteSet(of(b))
    <3>1. IsFiniteSet(1 .. Len(recorded)) /\ of(b) \subseteq 1 .. Len(recorded)
      <4>1. Len(recorded) \in Nat /\ DOMAIN recorded = 1 .. Len(recorded)
        BY DEF WindowInv
      <4>2. of(b) \subseteq DOMAIN recorded
        BY DEF CountedIn
      <4>3. QED
        BY <4>1, <4>2, FS_Interval
    <3>2. QED
      BY <3>1, FS_Subset
  <2>2. Cardinality(of(b)) \in Nat /\ (Cardinality(of(b)) = 0 <=> of(b) = {})
    BY <2>1, FS_CardinalityType, FS_EmptySet
  <2>3. ring.buckets[b].count = Cardinality(of(b))
    BY <1>2, Zenon DEF Summarises
  <2>4. QED
    BY <2>2, <2>3
<1> HIDE DEF times, filled, of
<1>6. WindowData(ring).maxEndToEnd = Max({0} \cup times)
  <2> DEFINE tops == {ring.buckets[b].maxEndToEnd : b \in Slots}
             h == [b \in Slots |-> ring.buckets[b].maxEndToEnd]
  <2>1. PICK b \in Slots : \A d \in Slots : ring.buckets[d].maxEndToEnd <= ring.buckets[b].maxEndToEnd
    <3>1. h \in [0 .. BucketCount - 1 -> Nat] /\ BucketCount \in Nat \ {0}
      BY <1>3, WindowConstants DEF Slots
    <3>2. PICK b \in Slots : \A d \in Slots : h[d] <= h[b]
      BY <3>1, GreatestOf, Zenon DEF Slots
    <3>3. QED
      BY <3>2
  <2>2. PICK m \in Nat : m = ring.buckets[b].maxEndToEnd
    BY <1>3
  <2>3. Max({0} \cup tops) = m
    <3>1. {0} \cup tops \in SUBSET Int /\ m \in {0} \cup tops
      BY <1>3, <2>2
    <3>2. \A n \in {0} \cup tops : n <= m
      BY <2>1, <2>2
    <3>3. QED
      BY <3>1, <3>2, MaxIs
  <2>4. m \in {0} \cup times
    <3>1. CASE of(b) = {}
      <4>1. ring.buckets[b] = EmptyBucket
        BY <1>2, <3>1, Zenon DEF Summarises
      <4>2. QED
        BY <2>2, <4>1 DEF EmptyBucket
    <3>2. CASE of(b) # {}
      <4>1. PICK k \in of(b) : recorded[k].endToEnd = m
        BY <1>2, <2>2, <3>2, Zenon DEF Summarises
      <4>2. k \in InWindow
        BY <1>1, <4>1
      <4>3. QED
        BY <4>1, <4>2 DEF times
    <3>3. QED
      BY <3>1, <3>2
  <2>5. \A n \in {0} \cup times : n <= m
    <3>1. ASSUME NEW j \in InWindow
          PROVE  recorded[j].endToEnd <= m
      <4>1. PICK d \in Slots : j \in of(d)
        BY <1>1, Zenon
      <4>2. recorded[j].endToEnd <= ring.buckets[d].maxEndToEnd
        BY <1>2, <4>1, Zenon DEF Summarises
      <4>3. QED
        BY <1>1, <1>3, <2>1, <2>2, <4>2
    <3>2. QED
      BY <2>2, <3>1 DEF times
  <2>6. Max({0} \cup times) = m
    <3>1. {0} \cup times \in SUBSET Int
      BY <1>4
    <3>2. QED
      BY <2>4, <2>5, <3>1, MaxIs, Zenon
  <2>7. WindowData(ring).maxEndToEnd = Max({0} \cup tops)
    BY Zenon DEF WindowData
  <2>8. QED
    BY <2>3, <2>6, <2>7, Zenon
<1>7. WindowData(ring).minEndToEnd = IF times = {} THEN 0 ELSE Min(times)
  <2> DEFINE least == {ring.buckets[b].minEndToEnd : b \in filled}
  <2>1. WindowData(ring).minEndToEnd = IF filled = {} THEN 0 ELSE Min(least)
    BY Zenon DEF WindowData, filled
  <2>2. filled = {} <=> times = {}
    <3>1. filled \subseteq Slots
      BY DEF filled
    <3>2. filled = {} <=> InWindow = {}
      BY <1>1, <1>5, <3>1
    <3>3. QED
      BY <3>2 DEF times
  <2>3. ASSUME filled # {}
        PROVE  Min(least) = Min(times)
    <3>1. filled \subseteq Slots
      BY DEF filled
    <3>2. least \in SUBSET Nat /\ least # {}
      BY <1>3, <2>3, <3>1
    <3>3. PICK m \in least : \A n \in least : m <= n
      BY <3>2, LeastNat, Zenon
    <3>4. least \in SUBSET Int /\ times \in SUBSET Int /\ m \in Nat
      BY <1>4, <3>2, <3>3
    <3>5. Min(least) = m
      BY <3>3, <3>4, MinIs, Zenon
    <3>6. PICK b \in filled : m = ring.buckets[b].minEndToEnd
      BY <3>3, Zenon
    <3>7. m \in times
      <4>1. b \in Slots /\ of(b) # {}
        BY <1>5, <3>1, <3>6
      <4>2. PICK k \in of(b) : recorded[k].endToEnd = m
        BY <1>2, <3>6, <4>1, Zenon DEF Summarises
      <4>3. k \in InWindow
        BY <1>1, <4>1, <4>2
      <4>4. QED
        BY <4>2, <4>3 DEF times
    <3>8. \A n \in times : m <= n
      <4>1. ASSUME NEW j \in InWindow
            PROVE  m <= recorded[j].endToEnd
        <5>1. PICK d \in Slots : j \in of(d)
          BY <1>1, Zenon
        <5>2. ring.buckets[d].minEndToEnd <= recorded[j].endToEnd /\ d \in filled
          BY <1>2, <1>5, <5>1, Zenon DEF Summarises
        <5>3. m <= ring.buckets[d].minEndToEnd
          BY <3>3, <5>2, Zenon
        <5>4. QED
          BY <1>1, <1>3, <3>4, <5>2, <5>3
      <4>2. QED
        BY <4>1, Zenon DEF times
    <3>9. Min(times) = m
      BY <3>4, <3>7, <3>8, MinIs, Zenon
    <3>10. QED
      BY <3>5, <3>9, Zenon
  <2>4. QED
    BY <2>1, <2>2, <2>3, Zenon
<1>8. QED
  BY <1>6, <1>7, Zenon DEF times

(* What windowData reports of the ring is what the log of all the messages *)
(* recorded says of the last BucketCount epochs, for any size of the ring  *)
(* and of its buckets.  (record, advance, windowData)                      *)
THEOREM WindowIsHistoryHolds == WindowSpec => []WindowIsHistory
<1>1. WindowInv => WindowIsHistory
  BY CountsOfWindow, ExtremesOfWindow, Zenon DEF WindowIsHistory
<1>2. QED
  BY <1>1, WindowInvariant, PTL

(* A snapshot whose clock reading falls in the current bucket labels each  *)
(* count with the epoch it was counted in.  (TakeSnapshot, buildThroughput)*)
THEOREM CurrentSnapshotLabelledHolds == WindowSpec => CurrentSnapshotLabelled
<1> DEFINE Labelled == \A i \in Slots : snap'.entries[i].processed = Cardinality(CountedIn(snap'.entries[i].from))
<1>1. ASSUME WindowInv, SampleWindow, snap'.pc = "current"
      PROVE  Labelled
  <2>1. snap'.entries = BuildThroughput(snap.now, WindowData(ring)) /\ Epoch(snap.now) = ring.lastEpoch
    <3>1. snap = [pc |-> snap.pc, now |-> snap.now, entries |-> snap.entries]
      BY <1>1 DEF WindowInv
    <3>2. snap' = [pc |-> IF Epoch(snap.now) = ring.lastEpoch THEN "current" ELSE "shifted",
                   now |-> snap.now, entries |-> BuildThroughput(snap.now, WindowData(ring))]
      BY <1>1, <3>1, Zenon DEF SampleWindow
    <3>3. QED
      BY <1>1, <3>2
  <2>2. ASSUME NEW i \in Slots
        PROVE  snap'.entries[i].processed = Cardinality(CountedIn(snap'.entries[i].from))
    <3>1. PICK k \in Slots : k = BucketCount - 1 - i
      BY WindowConstants DEF Slots
    <3>2. /\ snap'.entries[i].processed = WindowData(ring).perBucket[k].count
          /\ snap'.entries[i].from = ring.lastEpoch - i
      BY <2>1, <3>1 DEF BuildThroughput
    <3>3. BucketCount - 1 - k = i
      BY <3>1, WindowConstants DEF Slots
    <3>4. WindowData(ring).perBucket[k].count = Cardinality(CountedIn(ring.lastEpoch - i))
      BY <1>1, <3>3, CountsOfWindow, Zenon
    <3>5. QED
      BY <3>2, <3>4, Zenon
  <2>3. QED
    BY <2>2
<1>2. WindowInv /\ [WindowNext]_windowVars => [SampleWindow /\ snap'.pc = "current" => Labelled]_windowVars
  BY <1>1
<1>3. QED
  BY <1>2, WindowInvariant, PTL DEF CurrentSnapshotLabelled, WindowSpec
=============================================================================
