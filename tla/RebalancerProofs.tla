--------------------------- MODULE RebalancerProofs ---------------------------
(***************************************************************************)
(* Proofs about Rebalancer, for any number and size of orders.             *)
(*                                                                         *)
(* CommonInv is what a cycle may rely on whatever other cycle is in        *)
(* flight: a listed order existed and had lots left, and an order about to *)
(* be replaced is cancelled and its fills are known.  RebalancerInv adds   *)
(* what a cycle knows when cycles do not overlap: nobody else has replaced *)
(* the orders it still has to deal with.                                   *)
(***************************************************************************)
EXTENDS Rebalancer, TLAPS

Working == {"query", "cancel", "verify", "uncertain", "replace", "place"}

\* The orders the cycle has listed and not concluded.
Mine(c) == cyc[c].todo \cup (IF cyc[c].pc \in Working THEN {cyc[c].order} ELSE {})

Alone == \A c, d \in Callers : At(c, "idle") \/ At(d, "idle") \/ c = d

\* The exchange's books: an open order has lots left, a replacement exists.
Books ==
    /\ \A o \in Orders : status[o] = "open" => filled[o] < size[o]
    /\ \A o \in Orders : status[o] = "none" => parent[o] = 0 /\ filled[o] = 0

\* A listed order existed and had lots left.
Listed(c, o) == o \in Orders /\ status[o] # "none" /\ cyc[c].listed[o] < size[o]

ListingHolds(c) ==
    /\ \A o \in Mine(c) : Listed(c, o)
    /\ cyc[c].pc \in {"replace", "place"} => status[Current(c)] = "cancelled" /\ Known(Current(c))

ListingsHold == \A c \in Callers : ListingHolds(c)

\* A replaced order is cancelled and FillProcessor has all of its fills.
ReplacedAreOver ==
    \A o \in Orders : ReplacementsOf(o) # {} => status[o] = "cancelled" /\ Known(o)

CommonInv == TypeOK /\ Books /\ ListingsHold /\ ReplacedAreOver

\* An order that a cycle deals with can be replaced without harm.
Free(o) == ReplacementsOf(o) = {} /\ outcome[o] \in {"none", "kept-by-rule", "failed-safe"}

CycleOwns(c) ==
    /\ \A o \in Mine(c) : Free(o)
    /\ cyc[c].pc \in Working => cyc[c].order \notin cyc[c].todo
    /\ cyc[c].pc \in {"idle", "list"} => cyc[c].todo = {}

CyclesOwn == \A c \in Callers : CycleOwns(c)

RebalancerInv == CommonInv /\ Alone /\ CyclesOwn /\ OneForOne /\ OutcomesAreTrue

-----------------------------------------------------------------------------
LEMMA NoCycleType == NoCycle \in Cycles
BY RebalancerAssumption DEF NoCycle, Cycles, Orders, Lots, RebalancerAssumption

LEMMA InitInv == Init => RebalancerInv
<1> SUFFICES ASSUME Init
             PROVE  RebalancerInv
  OBVIOUS
<1> USE RebalancerAssumption DEF RebalancerAssumption
<1>1. TypeOK
  <2>1. cyc \in [Callers -> Cycles]
    BY NoCycleType DEF Init
  <2>2. status \in [Orders -> Statuses] /\ outcome \in [Orders -> Outcomes \cup {"none"}]
    BY DEF Init, Statuses
  <2>3. 0 \in Lots /\ Size \in Lots
    BY DEF Lots
  <2>4. size \in [Orders -> Lots] /\ filled \in [Orders -> Lots] /\ observed \in [Orders -> Lots]
    BY <2>3 DEF Init
  <2>5. parent \in [Orders -> 0..MaxOrders]
    BY DEF Init
  <2>6. \A o \in Orders : filled[o] <= size[o] /\ observed[o] <= filled[o]
    BY DEF Init
  <2> QED
    BY <2>1, <2>2, <2>4, <2>5, <2>6 DEF Init, TypeOK
<1>2. \A o \in Orders : ReplacementsOf(o) = {}
  BY DEF Init, ReplacementsOf, Orders
<1>3. Alone
  BY DEF Init, Alone, At, NoCycle
<1>4. Books
  <2>1. \A o \in Orders : status[o] = "open" => size[o] = Size /\ filled[o] = 0
    BY DEF Init
  <2>2. \A o \in Orders : parent[o] = 0 /\ filled[o] = 0
    BY DEF Init
  <2> QED
    BY <2>1, <2>2 DEF Books
<1>5. \A c \in Callers : cyc[c].pc = "idle" /\ cyc[c].todo = {}
  BY DEF Init, NoCycle
<1>6. ListingsHold /\ CyclesOwn
  BY <1>5 DEF ListingsHold, ListingHolds, CyclesOwn, CycleOwns, Mine, Working
<1>7. ReplacedAreOver /\ OneForOne /\ OutcomesAreTrue
  BY <1>2 DEF Init, ReplacedAreOver, OneForOne, OutcomesAreTrue
<1> QED
  BY <1>1, <1>3, <1>4, <1>6, <1>7 DEF RebalancerInv, CommonInv

-----------------------------------------------------------------------------
\* Type correctness.

LEMMA EnvironmentType ==
    ASSUME TypeOK, Books,
           \/ Start \/ Stop \/ LoopExits \/ GateChanges
           \/ \E o \in Orders : Fill(o) \/ CancelledElsewhere(o) \/ ObservedElsewhere(o)
    PROVE  TypeOK'
<1> USE RebalancerAssumption DEF RebalancerAssumption, Orders, Lots, Statuses, ledger
<1>1. CASE Start \/ Stop \/ LoopExits \/ GateChanges
  BY <1>1 DEF Start, Stop, LoopExits, GateChanges, TypeOK, exchange
<1>2. ASSUME NEW o \in Orders, Fill(o)
      PROVE  TypeOK'
  <2>1. filled[o] + 1 \in Lots /\ filled[o] + 1 <= size[o] /\ observed[o] <= filled[o] + 1
    BY <1>2 DEF Fill, Books, TypeOK
  <2>2. filled' \in [Orders -> Lots] /\ \A p \in Orders : filled'[p] <= size'[p]
    BY <1>2, <2>1 DEF Fill, TypeOK
  <2>3. \A p \in Orders : observed'[p] <= filled'[p]
    BY <1>2, <2>1 DEF Fill, TypeOK
  <2>4. status' \in [Orders -> Statuses]
    BY <1>2 DEF Fill, TypeOK
  <2> QED
    BY <1>2, <2>2, <2>3, <2>4 DEF Fill, TypeOK
<1>3. ASSUME NEW o \in Orders, CancelledElsewhere(o)
      PROVE  TypeOK'
  BY <1>3 DEF CancelledElsewhere, TypeOK
<1>4. ASSUME NEW o \in Orders, ObservedElsewhere(o)
      PROVE  TypeOK'
  <2>1. observed' \in [Orders -> Lots] /\ \A p \in Orders : observed'[p] <= filled[p]
    BY <1>4 DEF ObservedElsewhere, TypeOK
  <2> QED
    BY <1>4, <2>1 DEF ObservedElsewhere, TypeOK, exchange
<1> QED
  BY <1>1, <1>2, <1>3, <1>4

PCs == {"idle", "list", "next"} \cup Working

LEMMA GotoType ==
    ASSUME TypeOK, NEW c \in Callers, NEW pc \in PCs, Goto(c, pc)
    PROVE  /\ cyc' \in [Callers -> Cycles]
           /\ cyc'[c].pc = pc /\ cyc'[c].todo = cyc[c].todo
           /\ cyc'[c].listed = cyc[c].listed /\ cyc'[c].order = cyc[c].order
           /\ \A d \in Callers \ {c} : cyc'[d] = cyc[d]
BY DEF TypeOK, Goto, PCs, Working, Cycles

LEMMA ConcludeType ==
    ASSUME TypeOK, NEW c \in Callers, NEW result \in Outcomes, Conclude(c, result)
    PROVE  /\ cyc' \in [Callers -> Cycles]
           /\ cyc'[c].pc = "next" /\ cyc'[c].todo = cyc[c].todo
           /\ cyc'[c].listed = cyc[c].listed
           /\ \A d \in Callers \ {c} : cyc'[d] = cyc[d]
           /\ outcome' \in [Orders -> Outcomes \cup {"none"}]
           /\ \A o \in Orders : outcome'[o] = IF o = Current(c) THEN result ELSE outcome[o]
<1> USE RebalancerAssumption DEF RebalancerAssumption
<1>1. /\ cyc' \in [Callers -> Cycles]
      /\ cyc'[c].pc = "next" /\ cyc'[c].todo = cyc[c].todo /\ cyc'[c].listed = cyc[c].listed
      /\ \A d \in Callers \ {c} : cyc'[d] = cyc[d]
  <2> DEFINE r == [cyc[c] EXCEPT !.pc = "next", !.order = 0]
  <2>1. cyc[c] \in Cycles /\ 0 \in 0..MaxOrders
    BY DEF TypeOK
  <2>2. r \in Cycles /\ r.pc = "next" /\ r.todo = cyc[c].todo /\ r.listed = cyc[c].listed
    BY <2>1 DEF Cycles
  <2>3. cyc' = [cyc EXCEPT ![c] = r]
    BY DEF TypeOK, Conclude
  <2> QED
    BY <2>2, <2>3 DEF TypeOK
<1>2. /\ outcome' \in [Orders -> Outcomes \cup {"none"}]
      /\ \A o \in Orders : outcome'[o] = IF o = Current(c) THEN result ELSE outcome[o]
  BY DEF TypeOK, Conclude
<1> QED
  BY <1>1, <1>2

LEMMA ListingType ==
    ASSUME TypeOK
    PROVE  Listing \in Cycles
BY RebalancerAssumption DEF TypeOK, Listing, Cycles, RebalancerAssumption

\* A cycle in the middle of an order works on one of Orders, of which the
\* listing had lots left.
LEMMA WorksOnOrder ==
    ASSUME TypeOK, ListingsHold, NEW c \in Callers, cyc[c].pc \in Working
    PROVE  Current(c) \in Orders /\ Listed(c, Current(c))
BY DEF ListingsHold, ListingHolds, Mine, Listed, Current

LEMMA AcceptType ==
    ASSUME TypeOK, Books, ListingsHold, NEW c \in Callers, At(c, "place"), Accept(c)
    PROVE  /\ status' \in [Orders -> Statuses]
           /\ size' \in [Orders -> Lots]
           /\ parent' \in [Orders -> 0..MaxOrders]
           /\ \E n \in Orders :
                 /\ status[n] = "none" /\ status' = [status EXCEPT ![n] = "open"]
                 /\ parent' = [parent EXCEPT ![n] = Current(c)]
                 /\ \A o \in Orders \ {n} : size'[o] = size[o]
                 /\ filled[n] < size'[n]
<1>1. Current(c) \in Orders /\ cyc[c].listed[Current(c)] < size[Current(c)]
  BY WorksOnOrder DEF At, Working, Listed
<1>2. cyc[c].listed \in [Orders -> Lots]
  BY DEF TypeOK, Cycles
<1>3. ReplacementLots(c) \in Lots /\ 0 < ReplacementLots(c)
  BY <1>1, <1>2, RebalancerAssumption DEF ReplacementLots, TypeOK, Lots, RebalancerAssumption
<1>4. PICK n \in Orders :
         /\ status[n] = "none" /\ status' = [status EXCEPT ![n] = "open"]
         /\ size' = [size EXCEPT ![n] = ReplacementLots(c)]
         /\ parent' = [parent EXCEPT ![n] = Current(c)]
  BY DEF Accept
<1>5. status' \in [Orders -> Statuses]
  BY <1>4 DEF TypeOK, Statuses
<1>6. size' \in [Orders -> Lots] /\ parent' \in [Orders -> 0..MaxOrders]
  BY <1>1, <1>3, <1>4 DEF TypeOK, Orders
<1>7. filled[n] = 0 /\ size'[n] = ReplacementLots(c)
  BY <1>4 DEF Books, TypeOK
<1>8. /\ \A o \in Orders \ {n} : size'[o] = size[o]
      /\ filled[n] < size'[n]
  BY <1>3, <1>4, <1>7 DEF TypeOK
<1> QED
  BY <1>4, <1>5, <1>6, <1>8

LEMMA CycleType ==
    ASSUME TypeOK, Books, ListingsHold, NEW c \in Callers, Begin(c) \/ CycleStep(c)
    PROVE  TypeOK'
<1> USE DEF PCs, Working, Outcomes, ledger
<1>1. CASE Begin(c)
  BY <1>1, GotoType DEF Begin, TypeOK, exchange
<1>2. CASE List(c)
  BY <1>2, ListingType, NoCycleType DEF List, TypeOK, exchange
<1>3. CASE CycleEnds(c)
  BY <1>3, NoCycleType DEF CycleEnds, TypeOK, exchange
<1>4. CASE Keep(c)
  <2> PICK o \in cyc[c].todo :
         /\ cyc' = [cyc EXCEPT ![c].todo = @ \ {o}]
         /\ outcome' = [outcome EXCEPT ![o] = "kept-by-rule"]
    BY <1>4 DEF Keep
  <2> DEFINE r == [cyc[c] EXCEPT !.todo = @ \ {o}]
  <2>1. cyc[c] \in Cycles
    BY DEF TypeOK
  <2>2. r \in Cycles
    BY <2>1 DEF Cycles
  <2>3. cyc' = [cyc EXCEPT ![c] = r]
    BY DEF TypeOK
  <2>4. outcome' \in [Orders -> Outcomes \cup {"none"}]
    BY DEF TypeOK
  <2> QED
    BY <1>4, <2>2, <2>3, <2>4 DEF Keep, TypeOK, exchange
<1>5. CASE TakeUp(c)
  <2> PICK o \in cyc[c].todo :
         cyc' = [cyc EXCEPT ![c].todo = @ \ {o}, ![c].order = o, ![c].pc = "query"]
    BY <1>5 DEF TakeUp
  <2> DEFINE r == [cyc[c] EXCEPT !.todo = @ \ {o}, !.order = o, !.pc = "query"]
  <2>1. cyc[c] \in Cycles /\ o \in Orders /\ o \in 0..MaxOrders
    BY RebalancerAssumption DEF TypeOK, Cycles, Orders, RebalancerAssumption
  <2>2. r \in Cycles
    BY <2>1 DEF Cycles
  <2>3. cyc' = [cyc EXCEPT ![c] = r]
    BY DEF TypeOK
  <2> QED
    BY <1>5, <2>2, <2>3 DEF TakeUp, TypeOK, exchange
<1>6. CASE QueryFails(c) \/ StillOpen(c) \/ CancelledAfterAll(c) \/ NotReplaced(c)
  <2>1. \E result \in Outcomes : Conclude(c, result)
    BY <1>6 DEF QueryFails, StillOpen, CancelledAfterAll, NotReplaced, FailSafe
  <2>2. cyc' \in [Callers -> Cycles] /\ outcome' \in [Orders -> Outcomes \cup {"none"}]
    BY <2>1, ConcludeType
  <2>3. UNCHANGED <<exchange, ledger, loop>> /\ blocked' \in BOOLEAN
    BY <1>6 DEF QueryFails, StillOpen, CancelledAfterAll, NotReplaced, FailSafe, TypeOK
  <2> QED
    BY <2>2, <2>3 DEF TypeOK, exchange
<1>7. CASE FoundFilled(c) \/ FoundCancelled(c) \/ FoundOpen(c)
  <2>1. Current(c) \in Orders
    BY <1>7, WorksOnOrder DEF FoundFilled, FoundCancelled, FoundOpen, At
  <2>2. observed' \in [Orders -> Lots] /\ \A o \in Orders : observed'[o] <= filled[o]
    <3>1. observed' = observed \/ observed' = [observed EXCEPT ![Current(c)] = filled[Current(c)]]
      BY <1>7 DEF FoundFilled, FoundCancelled, FoundOpen, Observe, ledger
    <3> QED
      BY <2>1, <3>1 DEF TypeOK, Lots
  <2>3. cyc' \in [Callers -> Cycles] /\ outcome' \in [Orders -> Outcomes \cup {"none"}]
    <3>1. CASE FoundFilled(c)
      BY <3>1, ConcludeType DEF FoundFilled
    <3>2. CASE FoundCancelled(c) \/ FoundOpen(c)
      BY <3>2, GotoType DEF FoundCancelled, FoundOpen, TypeOK
    <3> QED BY <1>7, <3>1, <3>2
  <2>4. UNCHANGED <<exchange, blocked, loop>>
    BY <1>7 DEF FoundFilled, FoundCancelled, FoundOpen
  <2>5. missed' \subseteq Orders
    BY <1>7, <2>1 DEF FoundFilled, FoundCancelled, FoundOpen, Observe, ledger, TypeOK
  <2> QED
    BY <2>2, <2>3, <2>4, <2>5 DEF TypeOK, exchange
<1>8. CASE Cancel(c)
  <2>1. status' \in [Orders -> Statuses]
    BY <1>8 DEF Cancel, TypeOK, Statuses
  <2>2. cyc' \in [Callers -> Cycles]
    BY <1>8, GotoType DEF Cancel
  <2> QED
    BY <1>8, <2>1, <2>2 DEF Cancel, TypeOK
<1>9. CASE Authorized(c)
  BY <1>9, GotoType DEF Authorized, TypeOK, exchange
<1>10. CASE Place(c) \/ PlaceFails(c)
  <2>1. \E result \in Outcomes : Conclude(c, result)
    BY <1>10 DEF Place, PlaceFails, FailSafe
  <2>2. cyc' \in [Callers -> Cycles] /\ outcome' \in [Orders -> Outcomes \cup {"none"}]
    BY <2>1, ConcludeType
  <2>3. /\ status' \in [Orders -> Statuses] /\ size' \in [Orders -> Lots]
        /\ parent' \in [Orders -> 0..MaxOrders]
    BY <1>10, AcceptType DEF Place, PlaceFails, TypeOK, exchange
  <2>4. UNCHANGED <<filled, ledger, loop>> /\ blocked' \in BOOLEAN
    BY <1>10 DEF Place, PlaceFails, FailSafe, Accept, TypeOK, exchange
  <2>5. \A o \in Orders : filled[o] <= size'[o]
    <3>1. CASE UNCHANGED exchange
      BY <3>1 DEF TypeOK, exchange
    <3>2. CASE Accept(c)
      <4>1. PICK n \in Orders : /\ \A o \in Orders \ {n} : size'[o] = size[o]
                               /\ filled[n] < size'[n]
        BY <1>10, <3>2, AcceptType DEF Place, PlaceFails
      <4>2. \A o \in Orders : filled[o] \in Nat /\ size'[o] \in Nat
        BY <2>3 DEF TypeOK, Lots
      <4> QED
        BY <4>1, <4>2 DEF TypeOK
    <3> QED
      BY <1>10, <3>1, <3>2 DEF Place, PlaceFails
  <2> QED
    BY <2>2, <2>3, <2>4, <2>5 DEF TypeOK
<1> QED
  BY <1>1, <1>2, <1>3, <1>4, <1>5, <1>6, <1>7, <1>8, <1>9, <1>10 DEF CycleStep

-----------------------------------------------------------------------------
\* What holds whether or not cycles overlap.

\* What a step may do to the orders: one that exists keeps its size, and a
\* cancelled order of which all fills are known stays so.
OrdersMoveOn ==
    /\ \A o \in Orders : status[o] # "none" => status'[o] # "none" /\ size'[o] = size[o]
    /\ \A o \in Orders : status[o] = "cancelled" /\ Known(o) => status'[o] = "cancelled" /\ Known(o)'

LEMMA UnchangedMoveOn ==
    ASSUME UNCHANGED <<exchange, ledger>>
    PROVE  OrdersMoveOn
BY DEF OrdersMoveOn, exchange, ledger, Known

LEMMA ObserveMovesOn ==
    ASSUME TypeOK, NEW o \in Orders, Observe(o), UNCHANGED exchange
    PROVE  OrdersMoveOn /\ Known(o)'
BY DEF OrdersMoveOn, Observe, exchange, Known, TypeOK

LEMMA EnvironmentMovesOn ==
    ASSUME TypeOK, NEW o \in Orders, Fill(o) \/ CancelledElsewhere(o) \/ ObservedElsewhere(o)
    PROVE  OrdersMoveOn
<1>1. CASE Fill(o) \/ CancelledElsewhere(o)
  <2>1. UNCHANGED <<size, observed, missed>> /\ status[o] = "open" /\ status'[o] # "none"
    BY <1>1 DEF Fill, CancelledElsewhere, ledger, TypeOK
  <2>2. \A p \in Orders \ {o} : status'[p] = status[p] /\ filled'[p] = filled[p]
    BY <1>1 DEF Fill, CancelledElsewhere, TypeOK
  <2> QED
    BY <2>1, <2>2 DEF OrdersMoveOn, Known
<1>2. CASE ObservedElsewhere(o)
  BY <1>2 DEF OrdersMoveOn, ObservedElsewhere, exchange, Known, TypeOK
<1> QED
  BY <1>1, <1>2

LEMMA CancelMovesOn ==
    ASSUME TypeOK, NEW c \in Callers, Cancel(c)
    PROVE  OrdersMoveOn
<1>1. UNCHANGED <<size, filled, observed, missed>>
  BY DEF Cancel, ledger
<1>2. \A o \in Orders : status'[o] = status[o] \/ (status[o] = "open" /\ status'[o] = "cancelled")
  BY DEF Cancel, TypeOK
<1> QED
  BY <1>1, <1>2 DEF OrdersMoveOn, Known

LEMMA AcceptMovesOn ==
    ASSUME TypeOK, Books, ListingsHold, NEW c \in Callers, At(c, "place"), Accept(c), UNCHANGED ledger
    PROVE  OrdersMoveOn
<1>1. PICK n \in Orders :
         /\ status[n] = "none" /\ status' = [status EXCEPT ![n] = "open"]
         /\ \A o \in Orders \ {n} : size'[o] = size[o]
  BY AcceptType
<1>2. UNCHANGED <<filled, observed, missed>>
  BY DEF Accept, ledger
<1> QED
  BY <1>1, <1>2 DEF OrdersMoveOn, Known, TypeOK

\* A step that leaves a cycle alone leaves it what it relies on.
LEMMA ListingStays ==
    ASSUME NEW c \in Callers, TypeOK, ListingHolds(c), OrdersMoveOn, cyc'[c] = cyc[c]
    PROVE  ListingHolds(c)'
<1>1. Mine(c)' = Mine(c)
  BY DEF Mine
<1>2. \A o \in Mine(c) : Listed(c, o)'
  BY DEF ListingHolds, Listed, OrdersMoveOn
<1>3. cyc[c].pc \in {"replace", "place"} => Current(c) \in Orders
  BY DEF ListingHolds, Listed, Mine, Working, Current
<1>4. cyc[c].pc \in {"replace", "place"} => status'[Current(c)] = "cancelled" /\ Known(Current(c))'
  <2> SUFFICES ASSUME cyc[c].pc \in {"replace", "place"}
               PROVE  status'[Current(c)] = "cancelled" /\ Known(Current(c))'
    OBVIOUS
  <2>1. Current(c)' = Current(c)
    BY DEF Current
  <2> QED
    BY <1>3, <2>1 DEF ListingHolds, OrdersMoveOn, Known
<1> QED
  BY <1>1, <1>2, <1>4 DEF ListingHolds, Current

\* A cycle that goes on with an order it has listed.
LEMMA ListingGoesOn ==
    ASSUME NEW c \in Callers, TypeOK, ListingHolds(c), OrdersMoveOn,
           Mine(c)' \subseteq Mine(c), cyc'[c].listed = cyc[c].listed,
           cyc'[c].pc \notin {"replace", "place"}
    PROVE  ListingHolds(c)'
<1>1. \A o \in Mine(c)' : Listed(c, o)'
  BY DEF ListingHolds, Listed, OrdersMoveOn
<1> QED
  BY <1>1 DEF ListingHolds

LEMMA ReplacedStay ==
    ASSUME TypeOK, ReplacedAreOver, OrdersMoveOn, UNCHANGED parent
    PROVE  ReplacedAreOver'
<1>1. \A o \in Orders : ReplacementsOf(o)' = ReplacementsOf(o)
  BY DEF ReplacementsOf
<1> QED
  BY <1>1 DEF ReplacedAreOver, OrdersMoveOn

LEMMA EnvironmentCommon ==
    ASSUME CommonInv,
           \/ Start \/ Stop \/ LoopExits \/ GateChanges
           \/ \E o \in Orders : Fill(o) \/ CancelledElsewhere(o) \/ ObservedElsewhere(o)
    PROVE  CommonInv'
<1>1. TypeOK /\ Books /\ ListingsHold /\ ReplacedAreOver
  BY DEF CommonInv
<1>2. TypeOK'
  BY <1>1, EnvironmentType
<1>3. UNCHANGED <<cyc, parent>>
  BY DEF Start, Stop, LoopExits, GateChanges, Fill, CancelledElsewhere, ObservedElsewhere, exchange
<1>4. OrdersMoveOn
  <2>1. CASE Start \/ Stop \/ LoopExits \/ GateChanges
    BY <2>1, UnchangedMoveOn DEF Start, Stop, LoopExits, GateChanges
  <2> QED
    BY <1>1, <2>1, EnvironmentMovesOn
<1>5. ListingsHold' /\ ReplacedAreOver'
  BY <1>1, <1>3, <1>4, ListingStays, ReplacedStay DEF ListingsHold
<1>6. Books'
  <2>1. CASE Start \/ Stop \/ LoopExits \/ GateChanges
    BY <1>1, <2>1 DEF Start, Stop, LoopExits, GateChanges, exchange, Books
  <2>2. ASSUME NEW o \in Orders, Fill(o) \/ CancelledElsewhere(o) \/ ObservedElsewhere(o)
        PROVE  Books'
    <3>1. \A p \in Orders \ {o} : status'[p] = status[p] /\ filled'[p] = filled[p]
      BY <1>1, <2>2 DEF Fill, CancelledElsewhere, ObservedElsewhere, exchange, TypeOK
    <3>2. UNCHANGED <<size, parent>>
      BY <2>2 DEF Fill, CancelledElsewhere, ObservedElsewhere, exchange
    <3>3. status'[o] = "open" => filled'[o] < size[o]
      BY <1>1, <2>2, RebalancerAssumption
      DEF Fill, CancelledElsewhere, ObservedElsewhere, exchange, TypeOK, Books, Lots,
          RebalancerAssumption
    <3>4. status'[o] = "none" => parent[o] = 0 /\ filled'[o] = 0
      BY <1>1, <2>2 DEF Fill, CancelledElsewhere, ObservedElsewhere, exchange, TypeOK, Books
    <3> QED
      BY <1>1, <3>1, <3>2, <3>3, <3>4 DEF Books
  <2> QED
    BY <2>1, <2>2
<1> QED
  BY <1>2, <1>5, <1>6 DEF CommonInv

\* A step of a cycle that changes no order.
LEMMA ReadingCommon ==
    ASSUME CommonInv, NEW c \in Callers, Begin(c) \/ CycleStep(c), UNCHANGED exchange,
           OrdersMoveOn, ListingHolds(c)', \A d \in Callers \ {c} : cyc'[d] = cyc[d]
    PROVE  CommonInv'
<1>1. TypeOK /\ Books /\ ListingsHold /\ ReplacedAreOver
  BY DEF CommonInv
<1>2. TypeOK'
  BY <1>1, CycleType
<1>3. ListingsHold'
  BY <1>1, ListingStays DEF ListingsHold
<1>4. Books' /\ ReplacedAreOver'
  BY <1>1, ReplacedStay DEF Books, exchange
<1> QED
  BY <1>2, <1>3, <1>4 DEF CommonInv

LEMMA ScanCommon ==
    ASSUME CommonInv, NEW c \in Callers,
           Begin(c) \/ List(c) \/ CycleEnds(c) \/ Keep(c) \/ TakeUp(c) \/ Authorized(c)
    PROVE  CommonInv'
<1>1. TypeOK /\ Books /\ ListingsHold /\ ReplacedAreOver /\ ListingHolds(c)
  BY DEF CommonInv, ListingsHold
<1>2. UNCHANGED <<exchange, ledger>> /\ OrdersMoveOn
  BY UnchangedMoveOn DEF Begin, List, CycleEnds, Keep, TakeUp, Authorized
<1>3. \A d \in Callers \ {c} : cyc'[d] = cyc[d]
  BY <1>1 DEF Begin, List, CycleEnds, Keep, TakeUp, Authorized, Goto, TypeOK
<1>4. ListingHolds(c)'
  <2>1. CASE Begin(c)
    <3>1. /\ cyc'[c].pc = "list" /\ cyc'[c].todo = cyc[c].todo /\ cyc'[c].listed = cyc[c].listed
      BY <1>1, <2>1, GotoType DEF Begin, PCs
    <3>2. Mine(c)' \subseteq Mine(c)
      BY <3>1 DEF Mine, Working
    <3> QED
      BY <1>1, <1>2, <3>1, <3>2, ListingGoesOn
  <2>2. CASE List(c)
    <3>1. ASSUME cyc'[c] = NoCycle
          PROVE  ListingHolds(c)'
      BY <3>1 DEF NoCycle, ListingHolds, Mine, Working
    <3>2. ASSUME cyc'[c] = Listing
          PROVE  ListingHolds(c)'
      <4>1. Mine(c)' = {o \in Orders : status[o] = "open"} /\ cyc'[c].listed = filled
        BY <3>2 DEF Listing, Mine, Working
      <4>2. \A o \in Mine(c)' : Listed(c, o)'
        BY <1>1, <1>2, <4>1 DEF Listed, Books, exchange
      <4> QED
        BY <3>2, <4>2 DEF ListingHolds, Listing
    <3>3. cyc'[c] = NoCycle \/ cyc'[c] = Listing
      BY <1>1, <2>2 DEF List, TypeOK
    <3> QED
      BY <3>1, <3>2, <3>3
  <2>3. CASE CycleEnds(c)
    <3>1. cyc'[c] = NoCycle
      BY <1>1, <2>3 DEF CycleEnds, TypeOK
    <3> QED
      BY <3>1 DEF NoCycle, ListingHolds, Mine, Working
  <2>4. CASE Keep(c) \/ TakeUp(c)
    <3>1. PICK o \in cyc[c].todo :
             \/ cyc' = [cyc EXCEPT ![c].todo = @ \ {o}]
             \/ cyc' = [cyc EXCEPT ![c].todo = @ \ {o}, ![c].order = o, ![c].pc = "query"]
      BY <2>4 DEF Keep, TakeUp
    <3>2. cyc[c].pc = "next"
      BY <2>4 DEF Keep, TakeUp, At
    <3>3. /\ cyc'[c].todo = cyc[c].todo \ {o} /\ cyc'[c].listed = cyc[c].listed
          /\ cyc'[c].pc = "next" \/ (cyc'[c].pc = "query" /\ cyc'[c].order = o)
      BY <1>1, <3>1, <3>2 DEF TypeOK, Cycles
    <3>4. Mine(c)' \subseteq Mine(c)
      BY <3>3 DEF Mine, Working
    <3> QED
      BY <1>1, <1>2, <3>3, <3>4, ListingGoesOn
  <2>5. CASE Authorized(c)
    <3>1. /\ cyc'[c].todo = cyc[c].todo /\ cyc'[c].listed = cyc[c].listed
          /\ cyc'[c].order = cyc[c].order /\ cyc[c].pc = "replace" /\ cyc'[c].pc = "place"
      BY <1>1, <2>5, GotoType DEF Authorized, PCs, Working, At
    <3>2. Mine(c)' = Mine(c) /\ Current(c)' = Current(c)
      BY <3>1 DEF Mine, Working, Current
    <3>3. \A o \in Mine(c) : Listed(c, o)'
      BY <1>1, <1>2, <3>1 DEF ListingHolds, Listed, OrdersMoveOn
    <3>4. status'[Current(c)] = "cancelled" /\ Known(Current(c))'
      BY <1>1, <1>2, <3>1, <3>2 DEF ListingHolds, Known, exchange, ledger
    <3> QED
      BY <3>2, <3>3, <3>4 DEF ListingHolds
  <2> QED
    BY <2>1, <2>2, <2>3, <2>4, <2>5
<1> QED
  BY <1>2, <1>3, <1>4, ReadingCommon DEF CycleStep

\* A cycle that has found its order cancelled has given FillProcessor what
\* the query has returned.
LEMMA FoundCommon ==
    ASSUME CommonInv, NEW c \in Callers, FoundCancelled(c) \/ FoundOpen(c)
    PROVE  CommonInv'
<1>1. TypeOK /\ Books /\ ListingsHold /\ ReplacedAreOver /\ ListingHolds(c)
  BY DEF CommonInv, ListingsHold
<1>2. UNCHANGED exchange /\ cyc[c].pc \in Working
  BY DEF FoundCancelled, FoundOpen, At, Working
<1>3. Current(c) \in Orders
  BY <1>1, <1>2, WorksOnOrder
<1>4. OrdersMoveOn /\ (FoundCancelled(c) => Known(Current(c))')
  <2>1. CASE FoundCancelled(c)
    <3>1. PICK o \in Orders : o = Current(c) /\ Observe(o)
      BY <1>3, <2>1 DEF FoundCancelled
    <3>2. OrdersMoveOn /\ Known(o)'
      BY <1>1, <1>2, <3>1, ObserveMovesOn
    <3>3. Current(c)' = o
      BY <1>1, <2>1, <3>1, GotoType DEF FoundCancelled, PCs, Working, Current
    <3> QED
      BY <3>2, <3>3 DEF Known
  <2>2. CASE FoundOpen(c)
    <3>1. ~FoundCancelled(c)
      BY <2>2 DEF FoundOpen, FoundCancelled, Confirmed
    <3> QED
      BY <1>1, <1>2, <1>3, <2>2, <3>1, ObserveMovesOn, UnchangedMoveOn DEF FoundOpen
  <2> QED
    BY <2>1, <2>2
<1>5. /\ cyc'[c].pc \in {"replace", "cancel"} /\ cyc'[c].todo = cyc[c].todo
      /\ cyc'[c].listed = cyc[c].listed /\ cyc'[c].order = cyc[c].order
      /\ \A d \in Callers \ {c} : cyc'[d] = cyc[d]
      /\ cyc'[c].pc = "replace" => FoundCancelled(c)
  BY <1>1, GotoType DEF FoundCancelled, FoundOpen, PCs, Working
<1>6. ListingHolds(c)'
  <2>1. Mine(c)' = Mine(c) /\ Current(c)' = Current(c)
    BY <1>2, <1>5 DEF Mine, Working, Current
  <2>2. \A o \in Mine(c) : Listed(c, o)'
    BY <1>1, <1>4, <1>5 DEF ListingHolds, Listed, OrdersMoveOn
  <2>3. FoundCancelled(c) => status'[Current(c)] = "cancelled"
    BY <1>2 DEF FoundCancelled, Confirmed, exchange
  <2> QED
    BY <1>4, <1>5, <2>1, <2>2, <2>3 DEF ListingHolds
<1> QED
  BY <1>2, <1>4, <1>5, <1>6, ReadingCommon DEF CycleStep

LEMMA CancelCommon ==
    ASSUME CommonInv, NEW c \in Callers, Cancel(c)
    PROVE  CommonInv'
<1>1. TypeOK /\ Books /\ ListingsHold /\ ReplacedAreOver /\ ListingHolds(c)
  BY DEF CommonInv, ListingsHold
<1>2. UNCHANGED <<size, filled, parent>> /\ OrdersMoveOn /\ cyc[c].pc \in Working
  BY <1>1, CancelMovesOn DEF Cancel, At, Working
<1>3. TypeOK'
  BY <1>1, CycleType DEF CycleStep
<1>4. /\ cyc'[c].pc \in {"verify", "uncertain"} /\ cyc'[c].todo = cyc[c].todo
      /\ cyc'[c].listed = cyc[c].listed /\ cyc'[c].order = cyc[c].order
      /\ \A d \in Callers \ {c} : cyc'[d] = cyc[d]
  BY <1>1, GotoType DEF Cancel, PCs, Working
<1>5. Mine(c)' \subseteq Mine(c)
  BY <1>2, <1>4 DEF Mine, Working
<1>6. ListingHolds(c)'
  BY <1>1, <1>2, <1>4, <1>5, ListingGoesOn
<1>7. ListingsHold' /\ ReplacedAreOver'
  BY <1>1, <1>2, <1>4, <1>6, ListingStays, ReplacedStay DEF ListingsHold
<1>8. \A o \in Orders : status'[o] = status[o] \/ (status[o] = "open" /\ status'[o] = "cancelled")
  BY <1>1 DEF Cancel, TypeOK
<1>9. Books'
  BY <1>1, <1>2, <1>8 DEF Books
<1> QED
  BY <1>3, <1>7, <1>9 DEF CommonInv

\* The steps that conclude an order, with or without a replacement.
LEMMA ConcludeCommon ==
    ASSUME CommonInv, NEW c \in Callers, CycleStep(c),
           NEW result \in Outcomes, Conclude(c, result),
           cyc[c].pc \in Working, OrdersMoveOn, Books', ReplacedAreOver'
    PROVE  CommonInv'
<1>1. TypeOK /\ Books /\ ListingsHold /\ ReplacedAreOver /\ ListingHolds(c)
  BY DEF CommonInv, ListingsHold
<1>2. TypeOK'
  BY <1>1, CycleType
<1>3. /\ cyc'[c].pc = "next" /\ cyc'[c].todo = cyc[c].todo
      /\ cyc'[c].listed = cyc[c].listed
      /\ \A d \in Callers \ {c} : cyc'[d] = cyc[d]
  BY <1>1, ConcludeType
<1>4. Mine(c)' \subseteq Mine(c)
  BY <1>3 DEF Mine, Working
<1>5. ListingsHold'
  BY <1>1, <1>3, <1>4, ListingGoesOn, ListingStays DEF ListingsHold
<1> QED
  BY <1>2, <1>5 DEF CommonInv

LEMMA TerminalCommon ==
    ASSUME CommonInv, NEW c \in Callers,
           \/ QueryFails(c) \/ FoundFilled(c) \/ StillOpen(c)
           \/ CancelledAfterAll(c) \/ NotReplaced(c)
           \/ PlaceFails(c) /\ UNCHANGED exchange
    PROVE  CommonInv'
<1>1. TypeOK /\ Books /\ ListingsHold /\ ReplacedAreOver
  BY DEF CommonInv
<1>2. cyc[c].pc \in Working /\ UNCHANGED exchange /\ CycleStep(c)
  BY DEF QueryFails, FoundFilled, StillOpen, CancelledAfterAll, NotReplaced, PlaceFails, At,
         Working, CycleStep
<1>3. Current(c) \in Orders
  BY <1>1, <1>2, WorksOnOrder
<1>4. OrdersMoveOn
  BY <1>1, <1>2, <1>3, ObserveMovesOn, UnchangedMoveOn
  DEF QueryFails, FoundFilled, StillOpen, CancelledAfterAll, NotReplaced, PlaceFails
<1>5. PICK result \in Outcomes : Conclude(c, result)
  BY DEF QueryFails, FoundFilled, StillOpen, CancelledAfterAll, NotReplaced, PlaceFails,
         FailSafe, Outcomes
<1>6. Books' /\ ReplacedAreOver'
  BY <1>1, <1>2, <1>4, ReplacedStay DEF Books, exchange
<1> QED
  BY <1>2, <1>4, <1>5, <1>6, ConcludeCommon

\* A replacement comes into being: its order is cancelled and known.
LEMMA AcceptCommon ==
    ASSUME CommonInv, NEW c \in Callers, Place(c) \/ PlaceFails(c), Accept(c)
    PROVE  CommonInv'
<1>1. TypeOK /\ Books /\ ListingsHold /\ ReplacedAreOver /\ ListingHolds(c)
  BY DEF CommonInv, ListingsHold
<1>2. At(c, "place") /\ UNCHANGED ledger /\ CycleStep(c) /\ cyc[c].pc \in Working
  BY DEF Place, PlaceFails, CycleStep, At, Working
<1>3. OrdersMoveOn
  BY <1>1, <1>2, AcceptMovesOn
<1>4. PICK result \in Outcomes : Conclude(c, result)
  BY DEF Place, PlaceFails, FailSafe, Outcomes
<1>5. PICK old \in Orders : old = Current(c) /\ status[old] = "cancelled" /\ Known(old)
  BY <1>1, <1>2, WorksOnOrder DEF ListingHolds, At
<1>6. PICK n \in Orders :
         /\ status[n] = "none" /\ status' = [status EXCEPT ![n] = "open"]
         /\ parent' = [parent EXCEPT ![n] = old]
         /\ \A o \in Orders \ {n} : size'[o] = size[o]
         /\ filled[n] < size'[n]
  BY <1>1, <1>2, <1>5, AcceptType
<1>7. filled' = filled
  BY DEF Accept
<1>8. /\ \A o \in Orders : status'[o] = IF o = n THEN "open" ELSE status[o]
      /\ \A o \in Orders : parent'[o] = IF o = n THEN old ELSE parent[o]
  BY <1>1, <1>6 DEF TypeOK
<1>9. Books'
  BY <1>1, <1>6, <1>7, <1>8 DEF Books
<1>10. ReplacedAreOver'
  <2>1. \A o \in Orders \ {old} : ReplacementsOf(o)' \subseteq ReplacementsOf(o)
    BY <1>8 DEF ReplacementsOf
  <2> QED
    BY <1>1, <1>3, <1>5, <2>1 DEF ReplacedAreOver, OrdersMoveOn
<1> QED
  BY <1>2, <1>3, <1>4, <1>9, <1>10, ConcludeCommon

LEMMA CommonStep ==
    ASSUME CommonInv, [Next]_vars
    PROVE  CommonInv'
<1>1. ASSUME NEW c \in Callers, Begin(c) \/ CycleStep(c)
      PROVE  CommonInv'
  <2>1. CASE PlaceFails(c)
    BY <2>1, TerminalCommon, AcceptCommon DEF PlaceFails
  <2>2. CASE Place(c)
    BY <2>2, AcceptCommon DEF Place
  <2> QED
    BY <1>1, <2>1, <2>2, ScanCommon, FoundCommon, CancelCommon, TerminalCommon DEF CycleStep
<1>2. CASE UNCHANGED vars
  <2>1. UNCHANGED <<exchange, ledger, cyc>> /\ OrdersMoveOn
    BY <1>2, UnchangedMoveOn DEF vars
  <2>2. TypeOK' /\ Books'
    BY <1>2 DEF CommonInv, vars, exchange, ledger, TypeOK, Books
  <2> QED
    BY <2>1, <2>2, ListingStays, ReplacedStay DEF CommonInv, ListingsHold, exchange
<1> QED
  BY <1>1, <1>2, EnvironmentCommon DEF Next

LEMMA CommonInductive == Spec => []CommonInv
<1>1. Init => CommonInv
  BY InitInv DEF RebalancerInv
<1>2. CommonInv /\ [Next]_vars => CommonInv'
  BY CommonStep
<1> QED
  BY <1>1, <1>2, PTL DEF Spec

\* Two cycles at once, RunOnce (rebalancer.go:185) during a tick of the loop,
\* do not disturb the types; that a replacement asks for no more lots than an
\* order has rests on the listing being of an open order.
THEOREM TypesHold == Spec => []TypeOK
<1>1. CommonInv => TypeOK
  BY DEF CommonInv
<1> QED
  BY <1>1, CommonInductive, PTL

\* Before a replacement is placed, FillProcessor has everything its order has
\* filled, or has failed to take it (rebalancer.go:383-385, 434-437, 538),
\* whatever other cycle is in flight: the order is cancelled by then, and what
\* is known of it stays all there is.
THEOREM FillsComeFirst == Spec => []FillBeforeReplacement
<1>1. CommonInv => FillBeforeReplacement
  BY DEF CommonInv, ReplacedAreOver, FillBeforeReplacement
<1> QED
  BY <1>1, CommonInductive, PTL

-----------------------------------------------------------------------------
\* The rest of the invariant.

Rest == Alone /\ CyclesOwn /\ OneForOne /\ OutcomesAreTrue

\* The steps that leave the cycles alone.
LEMMA EnvironmentRest ==
    ASSUME RebalancerInv,
           \/ Start \/ Stop \/ LoopExits \/ GateChanges
           \/ \E o \in Orders : Fill(o) \/ CancelledElsewhere(o) \/ ObservedElsewhere(o)
    PROVE  Rest'
<1> USE DEF ReplacementsOf, Current, ledger, Known
<1>1. /\ TypeOK /\ Books /\ ListingsHold /\ ReplacedAreOver
      /\ Alone /\ CyclesOwn /\ OneForOne /\ OutcomesAreTrue
  BY DEF RebalancerInv, CommonInv
<1>2. UNCHANGED <<cyc, parent, outcome, size, missed>>
  BY DEF Start, Stop, LoopExits, GateChanges, Fill, CancelledElsewhere, ObservedElsewhere, exchange
<1>3. Alone'
  BY <1>1, <1>2 DEF Alone, At
<1>4. CASE Start \/ Stop \/ LoopExits \/ GateChanges
  <2>1. UNCHANGED <<exchange, ledger, cyc, outcome>>
    BY <1>4 DEF Start, Stop, LoopExits, GateChanges
  <2> QED
    BY <1>1, <1>3, <2>1
    DEF Rest, exchange, CyclesOwn, CycleOwns, Mine, Free, OneForOne, OutcomesAreTrue
<1>5. ASSUME NEW o \in Orders, Fill(o) \/ CancelledElsewhere(o) \/ ObservedElsewhere(o)
      PROVE  Rest'
  <2>1. \A p \in Orders \ {o} :
           status'[p] = status[p] /\ filled'[p] = filled[p] /\ observed'[p] = observed[p]
    BY <1>1, <1>5
    DEF Fill, CancelledElsewhere, ObservedElsewhere, exchange, TypeOK
  <2>2. \/ status[o] = "open" /\ status'[o] \in {"open", "cancelled", "filled"} /\ observed' = observed
        \/ status'[o] = status[o] /\ filled'[o] = filled[o] /\ observed'[o] = filled[o]
    BY <1>1, <1>5
    DEF Fill, CancelledElsewhere, ObservedElsewhere, exchange, TypeOK, Statuses
  <2>3. CyclesOwn'
    BY <1>1, <1>2 DEF CyclesOwn, CycleOwns, Mine, Free
  <2>4. OneForOne'
    BY <1>1, <1>2, <2>1, <2>2 DEF OneForOne
  <2>5. OutcomesAreTrue'
    BY <1>1, <1>2, <2>1, <2>2 DEF OutcomesAreTrue, OneForOne
  <2> QED
    BY <1>3, <2>3, <2>4, <2>5 DEF Rest
<1> QED
  BY <1>4, <1>5

\* While one cycle is in flight the other has nothing to remember.
LEMMA OthersIdle ==
    ASSUME Alone, CyclesOwn, NEW c \in Callers, ~At(c, "idle"),
           \A d \in Callers \ {c} : cyc'[d] = cyc[d]
    PROVE  Alone' /\ \A d \in Callers \ {c} : CycleOwns(d)'
<1>1. \A d \in Callers \ {c} : cyc[d].pc = "idle" /\ cyc[d].todo = {}
  BY DEF Alone, At, CyclesOwn, CycleOwns
<1> QED
  BY <1>1 DEF Alone, At, CycleOwns, Mine, Working

\* The steps that neither conclude an order nor read or change it.
LEMMA ScanRest ==
    ASSUME RebalancerInv, ~Overlapping, NEW c \in Callers,
           Begin(c) \/ List(c) \/ CycleEnds(c) \/ Keep(c) \/ TakeUp(c) \/ Authorized(c)
    PROVE  Rest'
<1> USE DEF ReplacementsOf, Current, ledger, Known
<1>1. /\ TypeOK /\ Books /\ ListingsHold /\ ReplacedAreOver
      /\ Alone /\ CyclesOwn /\ OneForOne /\ OutcomesAreTrue
  BY DEF RebalancerInv, CommonInv
<1>2. UNCHANGED <<exchange, ledger>>
  BY DEF Begin, List, CycleEnds, Keep, TakeUp, Authorized
<1>3. OneForOne'
  BY <1>1, <1>2 DEF exchange, OneForOne
<1>4. \A d \in Callers \ {c} : cyc'[d] = cyc[d]
  BY <1>1 DEF Begin, List, CycleEnds, Keep, TakeUp, Authorized, Goto, TypeOK
<1>5. CycleOwns(c)
  BY <1>1 DEF CyclesOwn
<1>0. ASSUME outcome' = outcome
      PROVE  OutcomesAreTrue'
  BY <1>0, <1>1, <1>2 DEF exchange, OutcomesAreTrue
<1>6. CASE Begin(c)
  <2>1. /\ \A d \in Callers : cyc[d].pc = "idle" /\ cyc[d].todo = {}
        /\ cyc'[c].pc = "list" /\ cyc'[c].todo = cyc[c].todo
    BY <1>1, <1>6, GotoType DEF Begin, At, PCs, CyclesOwn, CycleOwns
  <2>2. Alone' /\ CyclesOwn'
    BY <1>4, <2>1 DEF Alone, At, CyclesOwn, CycleOwns, Mine, Working
  <2> QED
    BY <1>0, <1>3, <1>6, <2>2 DEF Begin, Rest
<1>7. CASE List(c)
  <2>1. Alone' /\ \A d \in Callers \ {c} : CycleOwns(d)'
    BY <1>1, <1>4, <1>7, OthersIdle DEF List, At
  <2>2. ASSUME cyc'[c] = NoCycle
        PROVE  CycleOwns(c)'
    BY <2>2 DEF NoCycle, CycleOwns, Mine, Working
  <2>3. ASSUME cyc'[c] = Listing
        PROVE  CycleOwns(c)'
    <3>1. Mine(c)' = {o \in Orders : status[o] = "open"}
      BY <2>3 DEF Listing, Mine, Working
    <3>2. \A o \in Mine(c)' : Free(o)'
      <4> SUFFICES ASSUME NEW o \in Orders, status[o] = "open"
                   PROVE  Free(o)'
        BY <3>1
      <4>1. ReplacementsOf(o) = {}
        BY <1>1 DEF OneForOne
      <4>2. outcome[o] \in {"none", "kept-by-rule", "failed-safe"}
        BY <1>1, <4>1 DEF OutcomesAreTrue, TypeOK, Outcomes
      <4> QED
        BY <1>2, <1>7, <4>1, <4>2 DEF Free, List, exchange
    <3> QED
      BY <2>3, <3>2 DEF CycleOwns, Listing, Working
  <2>4. cyc'[c] = NoCycle \/ cyc'[c] = Listing
    BY <1>1, <1>7 DEF List, TypeOK
  <2>5. CyclesOwn'
    BY <2>1, <2>2, <2>3, <2>4 DEF CyclesOwn
  <2> QED
    BY <1>0, <1>3, <1>7, <2>1, <2>5 DEF List, Rest
<1>8. CASE CycleEnds(c)
  <2>1. Alone' /\ \A d \in Callers \ {c} : CycleOwns(d)'
    BY <1>1, <1>4, <1>8, OthersIdle DEF CycleEnds, At
  <2>2. cyc'[c] = NoCycle
    BY <1>1, <1>8 DEF CycleEnds, TypeOK
  <2>3. CycleOwns(c)'
    BY <2>2 DEF NoCycle, CycleOwns, Mine, Working
  <2>4. CyclesOwn'
    BY <2>1, <2>3 DEF CyclesOwn
  <2> QED
    BY <1>0, <1>3, <1>8, <2>1, <2>4 DEF CycleEnds, Rest
<1>9. CASE Keep(c)
  <2>1. Alone' /\ \A d \in Callers \ {c} : CycleOwns(d)'
    BY <1>1, <1>4, <1>9, OthersIdle DEF Keep, At
  <2>2. PICK o \in cyc[c].todo :
           /\ cyc' = [cyc EXCEPT ![c].todo = @ \ {o}]
           /\ outcome' = [outcome EXCEPT ![o] = "kept-by-rule"]
    BY <1>9 DEF Keep
  <2>3. Free(o) /\ cyc[c].pc = "next"
    BY <1>5, <1>9, <2>2 DEF CycleOwns, Mine, Keep, At
  <2>4. /\ cyc'[c].pc = "next" /\ cyc'[c].todo = cyc[c].todo \ {o}
        /\ cyc'[c].listed = cyc[c].listed
        /\ cyc[c].todo \subseteq Orders
        /\ \A p \in Orders : outcome'[p] = IF p = o THEN "kept-by-rule" ELSE outcome[p]
    BY <1>1, <2>2, <2>3 DEF TypeOK, Cycles
  <2>5. CycleOwns(c)'
    BY <1>2, <1>5, <2>3, <2>4 DEF CycleOwns, Mine, Working, Free, exchange
  <2>6. OutcomesAreTrue'
    BY <1>1, <1>2, <2>3, <2>4 DEF OutcomesAreTrue, Free, exchange
  <2>7. CyclesOwn'
    BY <2>1, <2>5 DEF CyclesOwn
  <2> QED
    BY <1>3, <2>1, <2>6, <2>7 DEF Rest
<1>10. CASE TakeUp(c)
  <2>1. Alone' /\ \A d \in Callers \ {c} : CycleOwns(d)'
    BY <1>1, <1>4, <1>10, OthersIdle DEF TakeUp, At
  <2>2. PICK o \in cyc[c].todo :
           cyc' = [cyc EXCEPT ![c].todo = @ \ {o}, ![c].order = o, ![c].pc = "query"]
    BY <1>10 DEF TakeUp
  <2>3. /\ cyc'[c].pc = "query" /\ cyc'[c].todo = cyc[c].todo \ {o}
        /\ cyc'[c].listed = cyc[c].listed /\ cyc'[c].order = o
    BY <1>1, <2>2 DEF TypeOK, Cycles
  <2>4. cyc[c].pc = "next" /\ outcome' = outcome
    BY <1>10 DEF TakeUp, At
  <2>5. CycleOwns(c)'
    BY <1>2, <1>5, <2>3, <2>4 DEF CycleOwns, Mine, Working, Free, exchange
  <2>6. CyclesOwn'
    BY <2>1, <2>5 DEF CyclesOwn
  <2> QED
    BY <1>0, <1>3, <2>1, <2>4, <2>6 DEF Rest
<1>11. CASE Authorized(c)
  <2>1. Alone' /\ \A d \in Callers \ {c} : CycleOwns(d)'
    BY <1>1, <1>4, <1>11, OthersIdle DEF Authorized, At
  <2>2. /\ cyc'[c].pc = "place" /\ cyc'[c].todo = cyc[c].todo
        /\ cyc'[c].listed = cyc[c].listed /\ cyc'[c].order = cyc[c].order
        /\ cyc[c].pc = "replace" /\ outcome' = outcome
    BY <1>1, <1>11, GotoType DEF Authorized, PCs, Working, At
  <2>3. CycleOwns(c)'
    BY <1>2, <1>5, <2>2 DEF CycleOwns, Mine, Working, Free, exchange
  <2>4. CyclesOwn'
    BY <2>1, <2>3 DEF CyclesOwn
  <2> QED
    BY <1>0, <1>3, <2>1, <2>2, <2>4 DEF Rest
<1> QED
  BY <1>6, <1>7, <1>8, <1>9, <1>10, <1>11

\* The queries before a cancellation is asked for or a replacement made.
LEMMA FoundRest ==
    ASSUME RebalancerInv, NEW c \in Callers, FoundCancelled(c) \/ FoundOpen(c)
    PROVE  Rest'
<1> USE DEF ReplacementsOf
<1>1. /\ TypeOK /\ Books /\ ListingsHold /\ ReplacedAreOver
      /\ Alone /\ CyclesOwn /\ OneForOne /\ OutcomesAreTrue
  BY DEF RebalancerInv, CommonInv
<1>2. UNCHANGED <<exchange, outcome>>
  BY DEF FoundCancelled, FoundOpen
<1>3. /\ ~At(c, "idle") /\ cyc[c].pc \in Working
      /\ cyc'[c].pc \in {"replace", "cancel"} /\ cyc'[c].todo = cyc[c].todo
      /\ cyc'[c].listed = cyc[c].listed /\ cyc'[c].order = cyc[c].order
      /\ \A d \in Callers \ {c} : cyc'[d] = cyc[d]
  BY <1>1, GotoType DEF FoundCancelled, FoundOpen, PCs, Working, At
<1>4. Alone' /\ \A d \in Callers \ {c} : CycleOwns(d)'
  BY <1>1, <1>3, OthersIdle
<1>5. Current(c) \in Orders
  BY <1>1, <1>3, WorksOnOrder
<1>6. \A o \in Orders : Known(o) => Known(o)'
  <2>1. Observe(Current(c)) \/ UNCHANGED ledger
    BY DEF FoundCancelled, FoundOpen
  <2> QED
    BY <1>1, <1>2, <1>5, <2>1 DEF Observe, TypeOK, ledger, exchange, Known
<1>7. CycleOwns(c)'
  <2>1. CycleOwns(c) /\ Mine(c)' = Mine(c)
    BY <1>1, <1>3 DEF CyclesOwn, Mine, Working
  <2>2. \A o \in Mine(c)' : Free(o)'
    BY <1>2, <2>1 DEF CycleOwns, Free, exchange
  <2> QED
    BY <1>3, <2>1, <2>2 DEF CycleOwns, Working
<1>8. CyclesOwn'
  BY <1>4, <1>7 DEF CyclesOwn
<1>9. OneForOne' /\ OutcomesAreTrue'
  BY <1>1, <1>2, <1>6 DEF OneForOne, OutcomesAreTrue, exchange
<1> QED
  BY <1>4, <1>8, <1>9 DEF Rest

\* The cancel request: an order that leaves "open" can still be replaced.
LEMMA CancelRest ==
    ASSUME RebalancerInv, NEW c \in Callers, Cancel(c)
    PROVE  Rest'
<1> USE DEF ReplacementsOf, ledger, Known, Current
<1>1. /\ TypeOK /\ Books /\ ListingsHold /\ ReplacedAreOver
      /\ Alone /\ CyclesOwn /\ OneForOne /\ OutcomesAreTrue
  BY DEF RebalancerInv, CommonInv
<1>2. UNCHANGED <<size, filled, parent, ledger, outcome>>
  BY DEF Cancel
<1>3. /\ ~At(c, "idle") /\ cyc[c].pc \in Working
      /\ cyc'[c].pc \in {"verify", "uncertain"} /\ cyc'[c].todo = cyc[c].todo
      /\ cyc'[c].listed = cyc[c].listed /\ cyc'[c].order = cyc[c].order
      /\ \A d \in Callers \ {c} : cyc'[d] = cyc[d]
  BY <1>1, GotoType DEF Cancel, PCs, Working, At
<1>4. Alone' /\ \A d \in Callers \ {c} : CycleOwns(d)'
  BY <1>1, <1>3, OthersIdle
<1>5. \A o \in Orders :
        \/ status'[o] = status[o]
        \/ status[o] = "open" /\ status'[o] = "cancelled"
  <2>1. CASE status' = status
    BY <2>1
  <2>2. CASE status' = [status EXCEPT ![Current(c)] = IF @ = "open" THEN "cancelled" ELSE @]
    BY <1>1, <2>2 DEF TypeOK
  <2> QED
    BY <2>1, <2>2 DEF Cancel
<1>6. CycleOwns(c)'
  <2>1. CycleOwns(c) /\ Mine(c)' = Mine(c)
    BY <1>1, <1>3 DEF CyclesOwn, Mine, Working
  <2>2. \A o \in Mine(c)' : Free(o)'
    BY <1>2, <2>1 DEF CycleOwns, Free
  <2> QED
    BY <1>3, <2>1, <2>2 DEF CycleOwns, Working
<1>7. CyclesOwn'
  BY <1>4, <1>6 DEF CyclesOwn
<1>8. OneForOne' /\ OutcomesAreTrue'
  BY <1>1, <1>2, <1>5 DEF OneForOne, OutcomesAreTrue
<1> QED
  BY <1>4, <1>7, <1>8 DEF Rest

\* The steps that conclude an order without a replacement.
LEMMA ConcludeRest ==
    ASSUME RebalancerInv, NEW c \in Callers,
           \/ QueryFails(c) \/ FoundFilled(c) \/ StillOpen(c)
           \/ CancelledAfterAll(c) \/ NotReplaced(c)
           \/ PlaceFails(c) /\ UNCHANGED exchange
    PROVE  Rest'
<1> USE DEF ReplacementsOf
<1>1. /\ TypeOK /\ Books /\ ListingsHold /\ ReplacedAreOver
      /\ Alone /\ CyclesOwn /\ OneForOne /\ OutcomesAreTrue
  BY DEF RebalancerInv, CommonInv
<1>2. cyc[c].pc \in Working /\ ~At(c, "idle") /\ UNCHANGED exchange
  BY DEF QueryFails, FoundFilled, StillOpen, CancelledAfterAll, NotReplaced, PlaceFails, At, Working
<1>3. Current(c) \in Orders /\ Free(Current(c))
  BY <1>1, <1>2, WorksOnOrder DEF CyclesOwn, CycleOwns, Mine, Current
<1>4. PICK result \in Outcomes :
        /\ Conclude(c, result)
        /\ result \in {"failed-safe", "filled", "already-cancelled"}
        /\ result = "filled" => FoundFilled(c)
        /\ result = "already-cancelled" => status[Current(c)] = "cancelled"
  BY DEF QueryFails, FoundFilled, StillOpen, CancelledAfterAll, NotReplaced, PlaceFails,
         FailSafe, Outcomes
<1>5. /\ cyc'[c].pc = "next" /\ cyc'[c].todo = cyc[c].todo
      /\ cyc'[c].listed = cyc[c].listed
      /\ \A d \in Callers \ {c} : cyc'[d] = cyc[d]
      /\ \A o \in Orders : outcome'[o] = IF o = Current(c) THEN result ELSE outcome[o]
  BY <1>1, <1>4, ConcludeType
<1>6. \A o \in Orders : Known(o) => Known(o)'
  <2>1. UNCHANGED ledger \/ Observe(Current(c))
    BY DEF QueryFails, FoundFilled, StillOpen, CancelledAfterAll, NotReplaced, PlaceFails
  <2> QED
    BY <1>1, <1>2, <1>3, <2>1 DEF Observe, TypeOK, ledger, exchange, Known
<1>7. result = "filled" =>
         status[Current(c)] = "filled" /\ \A o \in Orders : o = Current(c) => Known(o)'
  BY <1>1, <1>2, <1>3, <1>4 DEF FoundFilled, Observe, TypeOK, exchange, Known
<1>8. Alone' /\ \A d \in Callers \ {c} : CycleOwns(d)'
  BY <1>1, <1>2, <1>5, OthersIdle
<1>9. CycleOwns(c)'
  <2>1. CycleOwns(c)
    BY <1>1 DEF CyclesOwn
  <2>2. Mine(c)' = cyc[c].todo /\ Current(c) \notin cyc[c].todo
    BY <1>2, <1>5, <2>1 DEF CycleOwns, Mine, Working, Current
  <2>3. cyc[c].todo \subseteq Orders
    BY <1>1 DEF TypeOK, Cycles
  <2>4. \A o \in Mine(c)' : Free(o)'
    BY <1>2, <1>5, <2>1, <2>2, <2>3 DEF CycleOwns, Mine, Free, exchange
  <2> QED
    BY <1>5, <2>4 DEF CycleOwns, Working
<1>10. CyclesOwn'
  BY <1>8, <1>9 DEF CyclesOwn
<1>11. OneForOne'
  BY <1>1, <1>2, <1>6 DEF OneForOne, exchange
<1>12. OutcomesAreTrue'
  BY <1>1, <1>2, <1>3, <1>4, <1>5, <1>6, <1>7 DEF OutcomesAreTrue, Free, exchange
<1> QED
  BY <1>8, <1>10, <1>11, <1>12 DEF Rest

\* A replacement comes into being.
LEMMA AcceptRest ==
    ASSUME RebalancerInv, NEW c \in Callers, At(c, "place"), Accept(c),
           NEW result \in {"replaced", "failed-safe"}, Conclude(c, result),
           UNCHANGED ledger
    PROVE  Rest'
<1>1. /\ TypeOK /\ Books /\ ListingsHold /\ ReplacedAreOver
      /\ Alone /\ CyclesOwn /\ OneForOne /\ OutcomesAreTrue
  BY DEF RebalancerInv, CommonInv
<1>2. /\ cyc[c].pc \in Working /\ ~At(c, "idle") /\ CycleOwns(c)
      /\ status[Current(c)] = "cancelled" /\ Known(Current(c))
  BY <1>1 DEF At, Working, CyclesOwn, CycleOwns, ListingsHold, ListingHolds
<1>3. PICK old \in Orders : old = Current(c) /\ Free(old)
  BY <1>1, <1>2, WorksOnOrder DEF CycleOwns, Mine, Current
<1>4. PICK n \in Orders :
         /\ status[n] = "none" /\ status' = [status EXCEPT ![n] = "open"]
         /\ parent' = [parent EXCEPT ![n] = old]
         /\ \A o \in Orders \ {n} : size'[o] = size[o]
         /\ filled[n] < size'[n]
  BY <1>1, <1>3, AcceptType
<1>5. filled' = filled /\ \A o \in Orders : Known(o)' = Known(o)
  BY DEF Accept, Known, ledger
<1>6. /\ cyc'[c].pc = "next" /\ cyc'[c].todo = cyc[c].todo
      /\ cyc'[c].listed = cyc[c].listed
      /\ \A d \in Callers \ {c} : cyc'[d] = cyc[d]
      /\ \A o \in Orders : outcome'[o] = IF o = old THEN result ELSE outcome[o]
  BY <1>1, <1>3, ConcludeType DEF Outcomes
<1>7. /\ \A o \in Orders : status'[o] = IF o = n THEN "open" ELSE status[o]
      /\ \A o \in Orders : parent'[o] = IF o = n THEN old ELSE parent[o]
  BY <1>1, <1>4 DEF TypeOK
<1>8. ReplacementsOf(old)' = {n} /\ ReplacementsOf(old) = {}
  BY <1>3, <1>7 DEF ReplacementsOf, Free
<1>9. \A o \in Orders \ {old} : ReplacementsOf(o)' = ReplacementsOf(o)
  <2>1. parent[n] = 0
    BY <1>1, <1>4 DEF Books
  <2>2. \A o \in Orders : o # 0
    BY RebalancerAssumption DEF Orders, RebalancerAssumption
  <2> QED
    BY <1>7, <2>1, <2>2 DEF ReplacementsOf
<1>10. ReplacementsOf(n) = {}
  BY <1>1, <1>4 DEF OneForOne
<1>11. n # old
  BY <1>2, <1>3, <1>4
<1>12. Alone' /\ \A d \in Callers \ {c} : CycleOwns(d)'
  BY <1>1, <1>2, <1>6, OthersIdle
<1>13. CycleOwns(c)'
  <2>1. Mine(c)' = cyc[c].todo /\ old \notin cyc[c].todo
    BY <1>2, <1>3, <1>6 DEF CycleOwns, Mine, Working, Current
  <2>2. \A o \in Mine(c)' : Free(o)
    BY <1>2, <2>1 DEF CycleOwns, Mine
  <2>3. \A o \in Mine(c)' : Listed(c, o)
    BY <1>1, <1>2, <2>1 DEF ListingsHold, ListingHolds, Mine
  <2>4. \A o \in Mine(c)' : o # old /\ o # n
    BY <1>4, <2>1, <2>3 DEF Listed
  <2>5. \A o \in Mine(c)' : Free(o)'
    BY <1>6, <1>9, <2>2, <2>3, <2>4 DEF Free, Listed
  <2> QED
    BY <1>6, <2>5 DEF CycleOwns, Working
<1>14. CyclesOwn'
  BY <1>12, <1>13 DEF CyclesOwn
<1>15. OneForOne'
  <2> SUFFICES ASSUME NEW o \in Orders, ReplacementsOf(o)' # {}
               PROVE  status'[o] = "cancelled" /\ \A k, m \in ReplacementsOf(o)' : k = m
    BY DEF OneForOne
  <2>1. CASE o = old
    BY <1>2, <1>3, <1>7, <1>8, <1>11, <2>1
  <2>2. CASE o # old
    BY <1>1, <1>7, <1>9, <1>10, <2>2 DEF OneForOne
  <2> QED
    BY <2>1, <2>2
<1>16. OutcomesAreTrue'
  <2> SUFFICES ASSUME NEW o \in Orders
               PROVE  /\ outcome'[o] = "replaced" => ReplacementsOf(o)' # {}
                      /\ outcome'[o] = "filled" => status'[o] = "filled" /\ Known(o)'
                      /\ outcome'[o] = "already-cancelled" =>
                            status'[o] = "cancelled" /\ ReplacementsOf(o)' = {}
                      /\ outcome'[o] = "kept-by-rule" => ReplacementsOf(o)' = {}
    BY DEF OutcomesAreTrue
  <2>1. CASE o = old
    BY <1>6, <1>8, <2>1
  <2>2. CASE o # old
    BY <1>1, <1>4, <1>5, <1>6, <1>7, <1>9, <2>2 DEF OutcomesAreTrue
  <2> QED
    BY <2>1, <2>2
<1> QED
  BY <1>12, <1>14, <1>15, <1>16 DEF Rest

LEMMA PlaceRest ==
    ASSUME RebalancerInv, NEW c \in Callers, Place(c) \/ PlaceFails(c)
    PROVE  Rest'
<1>1. At(c, "place") /\ UNCHANGED ledger
  BY DEF Place, PlaceFails
<1>2. PICK result \in {"replaced", "failed-safe"} : Conclude(c, result)
  BY DEF Place, PlaceFails, FailSafe
<1>3. CASE Accept(c)
  BY <1>1, <1>2, <1>3, AcceptRest
<1>4. CASE PlaceFails(c) /\ UNCHANGED exchange
  BY <1>4, ConcludeRest
<1> QED
  BY <1>3, <1>4 DEF Place, PlaceFails

-----------------------------------------------------------------------------
LEMMA StepInv ==
    ASSUME RebalancerInv, ~Overlapping, [Next]_vars
    PROVE  RebalancerInv'
<1>1. CommonInv'
  BY CommonStep DEF RebalancerInv
<1>2. ASSUME \/ Start \/ Stop \/ LoopExits \/ GateChanges
             \/ \E o \in Orders : Fill(o) \/ CancelledElsewhere(o) \/ ObservedElsewhere(o)
      PROVE  Rest'
  BY <1>2, EnvironmentRest
<1>3. ASSUME NEW c \in Callers, Begin(c) \/ CycleStep(c)
      PROVE  Rest'
  BY <1>3, ScanRest, FoundRest, CancelRest, ConcludeRest, PlaceRest DEF CycleStep
<1>4. ASSUME UNCHANGED vars
      PROVE  Rest'
  BY <1>4
  DEF RebalancerInv, Rest, vars, exchange, ledger, Alone, At, CyclesOwn, CycleOwns, Mine, Free,
      Known, ReplacementsOf, OneForOne, OutcomesAreTrue
<1> QED
  BY <1>1, <1>2, <1>3, <1>4 DEF Next, Rest, RebalancerInv

LEMMA Inductive == ~Overlapping => (Spec => []RebalancerInv)
<1> SUFFICES ASSUME ~Overlapping
             PROVE  Spec => []RebalancerInv
  OBVIOUS
<1>1. Init => RebalancerInv
  BY InitInv
<1>2. RebalancerInv /\ [Next]_vars => RebalancerInv'
  BY StepInv
<1> QED
  BY <1>1, <1>2, PTL DEF Spec

\* processStaleOrder replaces an order at most once and only when it is
\* cancelled (rebalancer.go:347-428), when RunOnce is not called during a
\* cycle: two cycles replace the same order twice.
THEOREM ReplacementsAreOneForOne == ~Overlapping => (Spec => []OneForOne)
<1>1. RebalancerInv => OneForOne
  BY DEF RebalancerInv
<1> QED
  BY <1>1, Inductive, PTL

\* The outcome persisted for an order is what became of it at the exchange,
\* when cycles do not overlap.
THEOREM OutcomesHold == ~Overlapping => (Spec => []OutcomesAreTrue)
<1>1. RebalancerInv => OutcomesAreTrue
  BY DEF RebalancerInv
<1> QED
  BY <1>1, Inductive, PTL
=============================================================================
