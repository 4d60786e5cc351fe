------------------------------ MODULE MCOutbox ------------------------------
(***************************************************************************)
(* Outbox for TLC: one BUY of MaxQty lots (up to MaxQty intents), two      *)
(* workers.                                                                *)
(***************************************************************************)
EXTENDS Outbox, TLC

CONSTANTS b1, f1, sym, w1, w2

MCOrders == {b1}
MCFillIds == {f1}
MCSymbols == {sym}
MCSymbolOf == [o \in Orders |-> sym]
MCSideOf == [o \in Orders |-> "buy"]
MCWorkers == {w1, w2}
Symmetry == Permutations(Workers)
=============================================================================
