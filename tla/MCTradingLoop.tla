---------------------------- MODULE MCTradingLoop ----------------------------
(* TradingLoop in the profiles that trade, and in reconcile-only mode. *)
EXTENDS TradingLoop

MCProfiles == [single : BOOLEAN, trading : {TRUE}]
MCReconcileOnly == [single : {TRUE}, trading : {FALSE}]

=============================================================================
