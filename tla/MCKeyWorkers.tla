---------------------------- MODULE MCKeyWorkers ----------------------------
(***************************************************************************)
(* KeyWorkers for TLC.  Keys and workers are interchangeable: neither is   *)
(* ordered, chosen or named by the specification, so permuting them maps   *)
(* behaviours to behaviours.  The symmetry is used for invariants only.    *)
(***************************************************************************)
EXTENDS KeyWorkers, TLC

Symmetry == Permutations(Keys) \cup Permutations(Workers)
=============================================================================
