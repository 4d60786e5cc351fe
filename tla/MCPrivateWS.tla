----------------------------- MODULE MCPrivateWS -----------------------------
(***************************************************************************)
(* PrivateWS for TLC: two interchangeable subscriptions.                   *)
(***************************************************************************)
EXTENDS PrivateWS, TLC

CONSTANTS orders, account

MCSubs == {orders, account}
Symmetry == Permutations(Subs)
=============================================================================
