------------------------------ MODULE MCCyclic ------------------------------
(* Small instances of Cyclic for TLC. *)
EXTENDS Cyclic
=============================================================================
