-------------------------- MODULE KeyedProcessing --------------------------
(***************************************************************************)
(* What the fan-out promises to its host, without how: no workers, guards, *)
(* channels or pools.  Messages are polled one after the other.  One is    *)
(* started when all earlier ones of its key have been settled and fewer    *)
(* than Limit are being processed, and it is settled once: collected for   *)
(* the committer after its processing, or dropped, which trips the         *)
(* breaker.  A drain returns when nothing is open.                         *)
(***************************************************************************)
EXTENDS Integers, FiniteSets

CONSTANTS Keys, Messages, Limit

VARIABLES
  keyOf,       \* [message -> its key, known once it is polled]
  last,        \* the message polled last
  processing,  \* the messages being processed
  settled,     \* [message -> "open", or what became of it]
  tripped,     \* the circuit breaker has tripped
  drained      \* a drain has returned and polling has not been resumed

vars == <<keyOf, last, processing, settled, tripped, drained>>

Init ==
  /\ keyOf = [m \in Messages |-> "none"]
  /\ last = 0
  /\ processing = {}
  /\ settled = [m \in Messages |-> "open"]
  /\ tripped = FALSE
  /\ drained = FALSE

Open == {m \in 1 .. last : settled[m] = "open"}

Poll(k) ==
  /\ ~tripped /\ ~drained
  /\ last + 1 \in Messages
  /\ last' = last + 1
  /\ keyOf' = [keyOf EXCEPT ![last + 1] = k]
  /\ UNCHANGED <<processing, settled, tripped, drained>>

Start(m) ==
  /\ m \in Open \ processing
  /\ \A n \in Open : keyOf[n] = keyOf[m] => n >= m
  /\ Cardinality(processing) < Limit
  /\ processing' = processing \cup {m}
  /\ UNCHANGED <<keyOf, last, settled, tripped, drained>>

Collect(m) ==
  /\ m \in Open \cap processing
  /\ settled' = [settled EXCEPT ![m] = "collected"]
  /\ processing' = processing \ {m}
  /\ UNCHANGED <<keyOf, last, tripped, drained>>

Drop(m) ==
  /\ m \in Open
  /\ settled' = [settled EXCEPT ![m] = "dropped"]
  /\ processing' = processing \ {m}
  /\ tripped' = TRUE
  /\ UNCHANGED <<keyOf, last, drained>>

Trip ==
  /\ tripped' = TRUE
  /\ UNCHANGED <<keyOf, last, processing, settled, drained>>

DrainReturns ==
  /\ Open = {}
  /\ drained' = TRUE
  /\ UNCHANGED <<keyOf, last, processing, settled, tripped>>

Resume ==
  /\ drained' = FALSE
  /\ UNCHANGED <<keyOf, last, processing, settled, tripped>>

Next ==
  \/ \E k \in Keys : Poll(k)
  \/ \E m \in Messages : Start(m) \/ Collect(m) \/ Drop(m)
  \/ Trip
  \/ DrainReturns
  \/ Resume

Spec == Init /\ [][Next]_vars
=============================================================================
