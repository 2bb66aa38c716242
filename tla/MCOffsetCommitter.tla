-------------------------- MODULE MCOffsetCommitter --------------------------
EXTENDS OffsetCommitterInv

(* Only Deliver reads the log, so removing a record commutes with every    *)
(* other step: removing one that this epoch has read can wait until the    *)
(* partition is unowned again, and one that it will not read can be        *)
(* removed before the epoch begins.                                        *)
CompactWhileUnowned ==
  \A p \in Partitions : log'[p] # log[p] => phase[p] = "unowned"

(* The same without other owners.                                          *)
QuietWhileUnowned ==
  /\ CompactWhileUnowned
  /\ \A p \in Partitions : phase[p] = "unowned" => brokerPos'[p] = brokerPos[p]
=============================================================================
