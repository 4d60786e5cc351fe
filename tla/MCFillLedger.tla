---------------------------- MODULE MCFillLedger ----------------------------
(***************************************************************************)
(* Instances of FillLedger for TLC.  Two BUYs and a SELL of one symbol.    *)
(***************************************************************************)
EXTENDS FillLedger, TLC

CONSTANTS b1, b2, s1, f1, f2, sym

MCOrders == {b1, b2, s1}
MCTwoOrders == {b1, s1}
MCFillIds == {f1, f2}
MCSymbols == {sym}
MCSymbolOf == [o \in Orders |-> sym]
MCSideOf == [o \in Orders |-> IF o = s1 THEN "sell" ELSE "buy"]
Symmetry == Permutations(FillIds)

=============================================================================
