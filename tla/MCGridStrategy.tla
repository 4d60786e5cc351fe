---------------------------- MODULE MCGridStrategy ----------------------------
(***************************************************************************)
(* GridStrategy for TLC.                                                   *)
(***************************************************************************)
EXTENDS GridStrategy
=============================================================================
