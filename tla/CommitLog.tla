------------------------------ MODULE CommitLog ------------------------------
(***************************************************************************)
(* What the offset committer promises to its consumer group, without how:  *)
(* no trackers, gap buffers, stamps or orphans.  Every partition has a set *)
(* of records nobody has dealt with and one committed position.  A commit  *)
(* moves positions forward only, never past such a record, and only for    *)
(* the partitions this consumer owns at that moment.                       *)
(***************************************************************************)
EXTENDS Integers

CONSTANTS Partitions, Offsets

VARIABLES
  pending,   \* [partition -> offsets of the records still to be processed]
  position,  \* [partition -> the committed position, -1 if there is none]
  owned      \* the partitions this consumer may commit

vars == <<pending, position, owned>>

Init ==
  /\ pending \in [Partitions -> SUBSET Offsets]
  /\ position = [p \in Partitions |-> -1]
  /\ owned = {}

Acquire(p) ==
  /\ owned' = owned \cup {p}
  /\ UNCHANGED <<pending, position>>

Release(p) ==
  /\ owned' = owned \ {p}
  /\ UNCHANGED <<pending, position>>

(* Records of p are processed, or are gone before anyone processed them.   *)
Resolve(p) ==
  /\ \E left \in SUBSET pending[p] : pending' = [pending EXCEPT ![p] = left]
  /\ UNCHANGED <<position, owned>>

(* The position of p only advances, over records that are dealt with.      *)
Advances(p) ==
  /\ position[p] < position'[p]
  /\ \A o \in pending'[p] : position'[p] <= o

(* One commit request covers any number of the partitions owned.           *)
Commit ==
  /\ position' \in [Partitions -> Int]
  /\ \A p \in Partitions : position'[p] # position[p] => p \in owned /\ Advances(p)
  /\ UNCHANGED <<pending, owned>>

(* Another member of the group owns p, processes some of it and commits.   *)
OthersCommit(p) ==
  /\ p \notin owned
  /\ \E left \in SUBSET pending[p] : pending' = [pending EXCEPT ![p] = left]
  /\ position' = [position EXCEPT ![p] = position'[p]]
  /\ Advances(p)
  /\ UNCHANGED owned

Next ==
  \/ Commit
  \/ \E p \in Partitions : Acquire(p) \/ Release(p) \/ Resolve(p) \/ OthersCommit(p)

Spec == Init /\ [][Next]_vars
=============================================================================
