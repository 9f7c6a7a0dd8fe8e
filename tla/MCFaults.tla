----------------------------- MODULE MCFaults -----------------------------
(* Faults, deaths and stops for model checking, on both systems. *)
EXTENDS Faults

MCSpec == FaultsSpec /\ FaultsFairness
=============================================================================
