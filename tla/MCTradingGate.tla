---------------------------- MODULE MCTradingGate ----------------------------
(***************************************************************************)
(* TradingGate for TLC: two symbols; one code of a shared dependency and   *)
(* one of a symbol, each entered with and without RequiresHuman.           *)
(***************************************************************************)
EXTENDS TradingGate, TLC

CONSTANTS doge, wif, privateWS, unknownEffect

MCSymbols == {doge, wif}
MCCodes == {privateWS, unknownEffect}
MCSharedCodes == {privateWS}
Symmetry == Permutations(Symbols)
=============================================================================
