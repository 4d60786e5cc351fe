----------------------------- MODULE MCWSClients -----------------------------
(***************************************************************************)
(* WSClients for TLC.                                                      *)
(***************************************************************************)
EXTENDS WSClients
=============================================================================
