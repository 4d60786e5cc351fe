----------------------------- MODULE MCReconcile -----------------------------
(***************************************************************************)
(* ReconcileCoordinator for TLC: one symbol with three fills, at times     *)
(* 1, 2, 3, of which a fill may turn up one tick late; or two symbols with *)
(* a fill of one of them.                                                 *)
(***************************************************************************)
EXTENDS ReconcileCoordinator

CONSTANTS doge, wif

OneSymbol == {doge}
TwoSymbols == {doge, wif}
ThreeFills == {1, 2, 3}
TwoFills == {1, 2}
OneFill == {1}
AllDoge == [f \in Fills |-> doge]
OneEach == [f \in Fills |-> IF f = 1 THEN doge ELSE wif]
MCTimeOf == [f \in Fills |-> f]
=============================================================================
