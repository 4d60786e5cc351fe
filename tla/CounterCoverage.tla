--------------------------- MODULE CounterCoverage ---------------------------
(***************************************************************************)
(* What the durable fill pipeline promises, with no database, no duplicate *)
(* and no reordering: every unit an order executes is settled at most once *)
(* and a unit of a BUY order is assigned to at most one counter SELL.      *)
(* FillLedger is shown to implement it.                                    *)
(***************************************************************************)
EXTENDS Naturals

CONSTANTS
    Orders,         \* exchange orders of the bot
    BuyOrders,      \* those of them that buy
    Quantities      \* the cumulative quantities an order can reach

VARIABLES
    filled,         \* units the exchange has executed, per order
    settled,        \* the units whose fill has been accounted for, per order
    countered       \* the units a counter SELL has been promised for, per order

absVars == <<filled, settled, countered>>

AbsInit ==
    /\ filled = [o \in Orders |-> 0]
    /\ settled = [o \in Orders |-> {}]
    /\ countered = [o \in Orders |-> {}]

\* The exchange executes more of an order.
Fill(o) ==
    /\ \E n \in Quantities : n > filled[o] /\ filled' = [filled EXCEPT ![o] = n]
    /\ UNCHANGED <<settled, countered>>

\* Executed units that nobody has accounted for yet are settled, all of them
\* with a counter SELL or all of them without.
Settle(o, units) ==
    /\ units # {}
    /\ units \subseteq 1..filled[o]
    /\ units \cap settled[o] = {}
    /\ settled' = [settled EXCEPT ![o] = @ \cup units]
    /\ \/ UNCHANGED countered
       \/ /\ o \in BuyOrders
          /\ countered' = [countered EXCEPT ![o] = @ \cup units]
    /\ UNCHANGED filled

AbsNext ==
    \E o \in Orders :
        \/ Fill(o)
        \/ \E units \in SUBSET (1..filled[o]) : Settle(o, units)

AbsSpec == AbsInit /\ [][AbsNext]_absVars
=============================================================================
