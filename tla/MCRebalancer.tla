----------------------------- MODULE MCRebalancer -----------------------------
(***************************************************************************)
(* Rebalancer for TLC.                                                     *)
(***************************************************************************)
EXTENDS Rebalancer
=============================================================================
