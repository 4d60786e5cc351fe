-------------------------- MODULE GridStrategyProofs --------------------------
(***************************************************************************)
(* Proofs about GridStrategy, for any grid, market and number of orders.   *)
(* The inductive invariant adds to the properties what a drift relies on   *)
(* between its steps: an id recorded at a level is an order of its price,  *)
(* and the orders still to be cancelled belong to levels that go; and to   *)
(* the flags what the handler of a fill relies on between its tries.       *)
(***************************************************************************)
EXTENDS GridStrategy, FiniteSetTheorems, TLAPS

Levels == [price : Nat, buy : BOOLEAN, sell : BOOLEAN, id : 0..MaxOrders]
Orders == [side : {"none", "BUY", "SELL"}, price : Nat, level : 0..(GridCount + 1),
           status : {"none", "live", "filled", "cancelled"}]
Jobs == [price : Nat, from : Nat, to : Nat, stale : SUBSET Ids, todo : SUBSET Ids,
         cancelled : Nat]

Counters == [side : {"none", "BUY", "SELL"}, price : Nat, level : 0..(GridCount + 1),
             tries : 0..MaxRetries]

\* TypeOK, and the type of the job.
GridTypes ==
    /\ status \in {"Loaded", "Active", "Stopped"}
    /\ market \in Prices
    /\ lower \in Nat \ {0}
    /\ levels \in [Index -> Levels]
    /\ position \in Nat
    /\ cooling \in BOOLEAN /\ drifts \in 0..MaxDrifts
    /\ orders \in [Ids -> Orders]
    /\ fills \subseteq Ids
    /\ step \in {"idle", "cancel", "place", "signal"}
    /\ job \in Jobs /\ job.todo \subseteq job.stale
    /\ step \in {"cancel", "place"} => job.to # 0 /\ drifts < MaxDrifts
    /\ signalled \in {"none", "Loaded", "Active", "Stopped"}
    /\ counter \in Counters
    /\ counter.tries > 0 => counter.level \in Index /\ counter.side \in Sides
    /\ unheard \subseteq Ids /\ manual \subseteq Index \X Sides

\* An id recorded at a level is an order that was placed at its price.
Recorded ==
    \A i \in Index : levels[i].id # 0 =>
        /\ orders[levels[i].id].status # "none"
        /\ orders[levels[i].id].price = levels[i].price

\* A drift under way: what it cancels next, and where the levels are by then.
DriftKnows ==
    /\ step = "cancel" => \A o \in job.todo : /\ orders[o].status # "none"
                                              /\ orders[o].price \notin LevelPrices(job.to)
    /\ step = "place" => lower = job.to

TickIsActive == step # "idle" => status = "Active"
PendingAreFilled == \A o \in fills : orders[o].status = "filled"

\* The goroutine of a fill is done with it, or has tries left.
CounterIdle == counter.tries = 0 => counter = NoCounter
UnheardAreCancelled == \A o \in unheard : orders[o].status = "cancelled"

GridInv ==
    /\ GridTypes /\ Recorded /\ DriftKnows /\ TickIsActive /\ PendingAreFilled
    /\ LevelsMatchRange /\ StoppedIsQuiet

-----------------------------------------------------------------------------
(* Prices *)

LEMMA LevelPriceType ==
    ASSUME NEW from \in Nat, NEW i \in Index
    PROVE  LevelPrice(from, i) \in Nat
<1>1. i - 1 \in Nat /\ Spacing \in Nat
  BY GridAssumption DEF GridAssumption, Index
<1>2. (i - 1) * Spacing \in Nat
  BY <1>1
<1> QED
  BY <1>2 DEF LevelPrice

LEMMA NewLowerType ==
    ASSUME lower \in Nat, NEW p \in Nat
    PROVE  NewLower(p) \in Nat \ {0}
<1>1. Direction(p) \in Int
  BY DEF Direction
<1>2. DriftStep \in Int /\ Spacing \in Int /\ MinTick \in Nat \ {0}
  BY GridAssumption DEF GridAssumption
<1>3. Direction(p) * DriftStep * Spacing \in Int
  BY <1>1, <1>2
<1> DEFINE shift == Direction(p) * DriftStep * Spacing
<1>4. NewLower(p) = IF lower + shift <= 0 THEN MinTick ELSE lower + shift
  BY DEF NewLower
<1> HIDE DEF shift
<1>5. shift \in Int
  BY <1>3 DEF shift
<1> QED
  BY <1>2, <1>4, <1>5

LEMMA PriceType == ASSUME NEW p \in Prices PROVE p \in Nat
BY GridAssumption DEF GridAssumption

\* Once the levels have moved, no level of the new range is new
\* (placeNewOrders looks at the levels executeDrift has stored).
LEMMA NoTargets ==
    ASSUME LevelsMatchRange, lower = job.to
    PROVE  Targets = {}
BY DEF LevelsMatchRange, Targets

-----------------------------------------------------------------------------
(* The initial grid *)

LEMMA IndexIds == Index \subseteq Ids /\ 0 \notin Ids
BY GridAssumption DEF GridAssumption, Index, Ids

LEMMA InitOrders ==
    ASSUME Init
    PROVE  /\ orders \in [Ids -> Orders]
           /\ \A o \in Ids : Live(o) <=> orders[o].side # "none"
           /\ \A o \in Ids : orders[o].side # "none" =>
                  o \in Index /\ orders[o].price = LevelPrice(FirstLower, o)
<1>1. FirstLower \in Nat
  BY GridAssumption DEF GridAssumption
<1>2. \A i \in Index : SideAt(LevelPrice(FirstLower, i), FirstPrice) \in {"none", "BUY", "SELL"}
  BY DEF SideAt
<1> DEFINE side(o) == SideAt(LevelPrice(FirstLower, o), FirstPrice)
           first(o) == [side |-> side(o), price |-> LevelPrice(FirstLower, o),
                        level |-> o, status |-> "live"]
<1>3. ASSUME NEW o \in Ids
      PROVE  /\ orders[o] = IF o \in Index /\ side(o) # "none" THEN first(o) ELSE NoOrder
             /\ o \in Index => first(o) \in Orders
  <2>1. orders[o] = IF o \in Index /\ side(o) # "none" THEN first(o) ELSE NoOrder
    BY DEF Init
  <2>2. ASSUME o \in Index PROVE first(o) \in Orders
    BY <1>1, <1>2, <2>2, LevelPriceType, GridAssumption DEF Orders, Index, GridAssumption
  <2> QED
    BY <2>1, <2>2
<1>4. NoOrder \in Orders
  BY GridAssumption DEF NoOrder, Orders, GridAssumption
<1>5. orders = [o \in Ids |-> orders[o]]
  BY DEF Init
<1>9. \A o \in Ids : first(o).side = side(o) /\ first(o).status = "live"
                     /\ first(o).price = LevelPrice(FirstLower, o)
  OBVIOUS
<1> HIDE DEF first
<1>6. \A o \in Ids : orders[o] \in Orders
  BY <1>3, <1>4
<1>7. orders \in [Ids -> Orders]
  BY <1>5, <1>6
<1>8. ASSUME NEW o \in Ids
      PROVE  /\ Live(o) <=> orders[o].side # "none"
             /\ orders[o].side # "none" => o \in Index /\ orders[o].price = LevelPrice(FirstLower, o)
  <2>1. CASE o \in Index /\ side(o) # "none"
    BY <1>3, <1>9, <2>1 DEF Live
  <2>2. CASE ~(o \in Index /\ side(o) # "none")
    BY <1>3, <2>2 DEF NoOrder, Live
  <2> QED
    BY <2>1, <2>2
<1> QED
  BY <1>7, <1>8

LEMMA FiniteOrders ==
    ASSUME NEW S \in SUBSET Ids
    PROVE  IsFiniteSet(S) /\ Cardinality(S) \in Nat
<1>1. MaxOrders \in Int
  BY GridAssumption DEF GridAssumption
<1>2. IsFiniteSet(Ids)
  BY <1>1, FS_Interval DEF Ids
<1>3. IsFiniteSet(S)
  BY <1>2, FS_Subset
<1> QED
  BY <1>3, FS_CardinalityType

LEMMA InitInv == Init => GridInv
<1> SUFFICES ASSUME Init
             PROVE  GridInv
  OBVIOUS
<1> USE GridAssumption DEF GridAssumption
<1>1. FirstLower \in Nat \ {0} /\ lower = FirstLower /\ fills = {} /\ step = "idle"
  BY DEF Init
<1>2. orders \in [Ids -> Orders] /\ \A o \in Ids : Live(o) <=> orders[o].side # "none"
  BY InitOrders
<1>3. position \in Nat
  BY FiniteOrders DEF Init
<1>4. ASSUME NEW i \in Index
      PROVE  /\ levels[i] \in Levels
             /\ levels[i].price = LevelPrice(FirstLower, i)
             /\ levels[i].id # 0 => levels[i].id = i /\ Live(i)
  <2>1. levels[i] = [price |-> LevelPrice(FirstLower, i), buy |-> orders[i].side = "BUY",
                     sell |-> orders[i].side = "SELL", id |-> IF Live(i) THEN i ELSE 0]
    BY DEF Init
  <2>2. LevelPrice(FirstLower, i) \in Nat
    BY LevelPriceType
  <2>3. (IF Live(i) THEN i ELSE 0) \in 0..MaxOrders
    BY IndexIds DEF Ids
  <2>4. (orders[i].side = "BUY") \in BOOLEAN /\ (orders[i].side = "SELL") \in BOOLEAN
    OBVIOUS
  <2> QED
    BY <2>1, <2>2, <2>3, <2>4 DEF Levels
<1>5. levels \in [Index -> Levels]
  BY <1>4 DEF Init
<1>6. job \in Jobs /\ job.todo = {}
  BY DEF Init, Idle, Jobs
<1>7. GridTypes
  <2>1. FirstPrice \in Prices /\ 0 \in 0..MaxDrifts
    OBVIOUS
  <2>2. market = FirstPrice /\ cooling = FALSE /\ drifts = 0 /\ status = "Loaded"
        /\ signalled = "none" /\ unheard = {} /\ manual = {} /\ counter = NoCounter
    BY DEF Init
  <2>3. NoCounter \in Counters /\ NoCounter.tries = 0
    BY DEF NoCounter, Counters
  <2>4. counter \in Counters /\ ~(counter.tries > 0)
    BY <2>2, <2>3
  <2>5. unheard \subseteq Ids /\ manual \subseteq Index \X Sides
    BY <2>2
  <2>6. /\ status \in {"Loaded", "Active", "Stopped"} /\ market \in Prices
        /\ cooling \in BOOLEAN /\ drifts \in 0..MaxDrifts
        /\ signalled \in {"none", "Loaded", "Active", "Stopped"}
    BY <2>1, <2>2
  <2>7. step \in {"idle", "cancel", "place", "signal"} /\ step \notin {"cancel", "place"}
        /\ fills \subseteq Ids /\ lower \in Nat \ {0} /\ job.todo \subseteq job.stale
    BY <1>1, <1>6
  <2> QED
    BY <1>2, <1>3, <1>5, <1>6, <2>4, <2>5, <2>6, <2>7 DEF GridTypes
<1>8. Recorded
  <2> SUFFICES ASSUME NEW i \in Index, levels[i].id # 0
               PROVE  orders[levels[i].id].status # "none"
                      /\ orders[levels[i].id].price = levels[i].price
    BY DEF Recorded
  <2>1. levels[i].id = i /\ Live(i) /\ i \in Ids
    BY <1>4, IndexIds
  <2>2. orders[i].price = LevelPrice(FirstLower, i) /\ orders[i].status = "live"
    BY <2>1, <1>2, InitOrders DEF Live
  <2> QED
    BY <2>1, <2>2, <1>4
<1>9. LevelsMatchRange
  BY <1>1, <1>4 DEF LevelsMatchRange
<1>10. DriftKnows /\ TickIsActive /\ PendingAreFilled /\ StoppedIsQuiet
  BY DEF Init, DriftKnows, TickIsActive, PendingAreFilled, StoppedIsQuiet
<1> QED
  BY <1>7, <1>8, <1>9, <1>10 DEF GridInv

-----------------------------------------------------------------------------
(* Steps that leave levels, orders and position alone *)

LEMMA LifeCycleStep ==
    ASSUME GridInv, StartStrategy \/ StopStrategy \/ CooldownEnds \/ MarketMoves
    PROVE  GridInv'
<1>1. GridTypes'
  BY DEF GridInv, GridTypes, StartStrategy, StopStrategy, CooldownEnds, MarketMoves, grid, tick, told
<1>2. Recorded' /\ PendingAreFilled' /\ LevelsMatchRange' /\ DriftKnows'
  BY DEF GridInv, Recorded, PendingAreFilled, LevelsMatchRange, DriftKnows, StartStrategy,
         StopStrategy, CooldownEnds, MarketMoves, grid, tick, told
<1>3. TickIsActive' /\ StoppedIsQuiet'
  BY DEF GridInv, TickIsActive, StoppedIsQuiet, StartStrategy, StopStrategy, CooldownEnds,
         MarketMoves, grid, tick, told
<1> QED
  BY <1>1, <1>2, <1>3 DEF GridInv

LEMMA TickStep == ASSUME GridInv, Tick PROVE GridInv'
<1>1. market \in Nat /\ lower \in Nat
  BY PriceType DEF GridInv, GridTypes
<1>2. UNCHANGED <<status, market, lower, levels, position, cooling, drifts, orders, fills, counter,
                  signalled, unheard, manual>>
  BY DEF Tick, grid, told
<1>3. status = "Active" /\ step' \in {"cancel", "signal"}
  BY DEF Tick
<1>4. Recorded' /\ PendingAreFilled' /\ LevelsMatchRange' /\ TickIsActive' /\ StoppedIsQuiet'
  BY <1>2, <1>3 DEF GridInv, Recorded, PendingAreFilled, LevelsMatchRange, TickIsActive,
                    StoppedIsQuiet
<1>5. CASE Drifts(market)
  <2> DEFINE to == NewLower(market)
             stale == StaleOrders(to)
  <2>1. to \in Nat \ {0}
    BY <1>1, NewLowerType
  <2>2. stale \subseteq Ids
    BY DEF GridInv, GridTypes, Levels, StaleOrders, Ids
  <2>3. \A o \in stale : orders[o].status # "none" /\ orders[o].price \notin LevelPrices(to)
    BY DEF GridInv, Recorded, StaleOrders
  <2>4. step' = "cancel"
        /\ job' = [price |-> market, from |-> lower, to |-> to,
                   stale |-> stale, todo |-> stale, cancelled |-> 0]
    BY <1>5 DEF Tick
  <2> HIDE DEF to, stale
  <2>5. job' \in Jobs /\ job'.todo = stale /\ job'.stale = stale /\ job'.to = to
    BY <1>1, <2>1, <2>2, <2>4 DEF Jobs
  <2>6. drifts < MaxDrifts
    BY <1>5 DEF Drifts
  <2>7. GridTypes'
    BY <1>2, <2>1, <2>4, <2>5, <2>6 DEF GridInv, GridTypes
  <2>8. DriftKnows'
    BY <1>2, <2>3, <2>4, <2>5 DEF DriftKnows, LevelPrices, LevelPrice
  <2> QED
    BY <1>4, <2>7, <2>8 DEF GridInv
<1>6. CASE ~Drifts(market)
  <2>1. step' = "signal" /\ job' = [Idle EXCEPT !.price = market]
    BY <1>6 DEF Tick
  <2>2. job' \in Jobs /\ job'.todo = {}
    BY <1>1, <2>1 DEF Jobs, Idle
  <2>3. GridTypes' /\ DriftKnows'
    BY <1>2, <2>1, <2>2 DEF GridInv, GridTypes, DriftKnows
  <2> QED
    BY <1>4, <2>3 DEF GridInv
<1> QED
  BY <1>5, <1>6

-----------------------------------------------------------------------------
(* Placing an order *)

LEMMA PlacesKeeps ==
    ASSUME GridTypes, NEW side \in Sides, NEW price \in Nat, NEW level \in 0..(GridCount + 1),
           Places(side, price, level)
    PROVE  /\ orders' \in [Ids -> Orders]
           /\ \A p \in Ids : orders[p].status # "none" => orders'[p] = orders[p]
           /\ \E p \in Ids : /\ orders'[p].side = side /\ orders'[p].level = level
                             /\ orders'[p].status = "live"
<1>1. orders \in [Ids -> Orders]
  BY DEF GridTypes
<1>2. PICK q \in FreeIds : NewOrder(q, side, price, level)
  BY DEF Places
<1>3. q \in Ids /\ orders[q].status = "none"
  BY <1>2 DEF FreeIds
<1> DEFINE new == [side |-> side, price |-> price, level |-> level, status |-> "live"]
<1>4. orders' = [orders EXCEPT ![q] = new]
  BY <1>2 DEF NewOrder
<1>5. new \in Orders /\ new.side = side /\ new.level = level /\ new.status = "live"
  BY DEF Orders, Sides
<1> HIDE DEF new
<1>6. orders' \in [Ids -> Orders] /\ orders'[q] = new
  BY <1>1, <1>3, <1>4, <1>5
<1>7. \A p \in Ids : p # q => orders'[p] = orders[p]
  BY <1>1, <1>4
<1> QED
  BY <1>3, <1>5, <1>6, <1>7

\* Levels keep their ids and prices when a fill is handled.
KeptLevels ==
    /\ levels' \in [Index -> Levels]
    /\ \A i \in Index : levels'[i].id = levels[i].id /\ levels'[i].price = levels[i].price

\* What is left of the invariant when orders are added and fills handled.
LEMMA OrdersAdded ==
    ASSUME GridInv, KeptLevels, lower' = lower, fills' \subseteq fills,
           orders' \in [Ids -> Orders],
           \A p \in Ids : orders[p].status # "none" => orders'[p] = orders[p]
    PROVE  Recorded' /\ PendingAreFilled' /\ LevelsMatchRange'
<1>1. Recorded'
  <2> SUFFICES ASSUME NEW i \in Index, levels'[i].id # 0
               PROVE  /\ orders'[levels'[i].id].status # "none"
                      /\ orders'[levels'[i].id].price = levels'[i].price
    BY DEF Recorded
  <2>1. levels'[i].id = levels[i].id /\ levels'[i].price = levels[i].price
    BY DEF KeptLevels
  <2>2. levels[i].id \in Ids
    BY <2>1 DEF GridInv, GridTypes, Levels, Ids
  <2> QED
    BY <2>1, <2>2 DEF GridInv, Recorded
<1>2. PendingAreFilled'
  <2>1. \A p \in fills : p \in Ids /\ orders[p].status = "filled"
    BY DEF GridInv, GridTypes, PendingAreFilled
  <2> QED
    BY <2>1 DEF PendingAreFilled
<1>3. LevelsMatchRange'
  BY DEF GridInv, LevelsMatchRange, KeptLevels, LevelPrice
<1> QED
  BY <1>1, <1>2, <1>3

\* An order may be placed by a step that is no step of a drift.
LEMMA AddedKeepDrift ==
    ASSUME GridInv, UNCHANGED <<lower, step, job>>,
           \A p \in Ids : orders[p].status # "none" => orders'[p] = orders[p]
    PROVE  DriftKnows'
<1>1. job.todo \subseteq Ids
  BY DEF GridInv, GridTypes, Jobs
<1> QED
  BY <1>1 DEF GridInv, DriftKnows, LevelPrices, LevelPrice

\* The next try and the signal only add an order.
LEMMA AddsOnly ==
    ASSUME GridInv, TryCounter \/ Signal
    PROVE  /\ orders' \in [Ids -> Orders]
           /\ \A p \in Ids : orders[p].status # "none" => orders'[p] = orders[p]
<1>1. CASE orders' = orders
  BY <1>1 DEF GridInv, GridTypes
<1>2. CASE orders' # orders /\ TryCounter
  <2>1. Places(counter.side, counter.price, counter.level) /\ counter.tries > 0
    BY <1>2 DEF TryCounter
  <2>2. counter \in Counters /\ counter.side \in Sides
    BY <2>1 DEF GridInv, GridTypes
  <2> QED
    BY <2>1, <2>2, PlacesKeeps DEF GridInv, Counters
<1>3. CASE orders' # orders /\ Signal
  <2>1. PICK side \in Sides : Places(side, job.price, 0)
    BY <1>3 DEF Signal, Sides
  <2>2. job.price \in Nat /\ 0 \in 0..(GridCount + 1)
    BY GridAssumption DEF GridInv, GridTypes, Jobs, GridAssumption
  <2> QED
    BY <2>1, <2>2, PlacesKeeps DEF GridInv
<1> QED
  BY <1>1, <1>2, <1>3

LEMMA SignalStep == ASSUME GridInv, Signal PROVE GridInv'
<1>1. /\ UNCHANGED <<status, market, lower, levels, position, cooling, drifts, fills, counter,
                      unheard, manual>>
      /\ step = "signal"
      /\ (step' = "idle" /\ job' = Idle) \/ (step' = step /\ job' = job)
  BY DEF Signal, grid, tick
<1>2. status = "Active" /\ signalled' \in {"Active", signalled}
  BY DEF Signal, GridInv, TickIsActive
<1>3. job' \in Jobs /\ job'.todo \subseteq job'.stale
  BY <1>1 DEF GridInv, GridTypes, Idle, Jobs
<1>4. /\ orders' \in [Ids -> Orders]
      /\ \A p \in Ids : orders[p].status # "none" => orders'[p] = orders[p]
  BY AddsOnly
<1>5. KeptLevels
  BY <1>1 DEF KeptLevels, GridInv, GridTypes
<1>6. Recorded' /\ PendingAreFilled' /\ LevelsMatchRange'
  BY <1>1, <1>4, <1>5, OrdersAdded
<1>7. GridTypes'
  BY <1>1, <1>2, <1>3, <1>4 DEF GridInv, GridTypes
<1>8. DriftKnows' /\ TickIsActive' /\ StoppedIsQuiet'
  BY <1>1, <1>2 DEF DriftKnows, TickIsActive, StoppedIsQuiet, GridInv
<1> QED
  BY <1>6, <1>7, <1>8 DEF GridInv

-----------------------------------------------------------------------------
(* The drift *)

LEMMA CancelStep == ASSUME GridInv, CancelSucceeds \/ CancelFails PROVE GridInv'
<1>1. PICK o \in job.todo :
          /\ \/ job' = [job EXCEPT !.todo = @ \ {o}, !.cancelled = @ + 1]
             \/ job' = [job EXCEPT !.todo = @ \ {o}]
          /\ \/ Live(o) /\ orders' = [orders EXCEPT ![o].status = "cancelled"]
             \/ orders' = orders
          /\ unheard' \in {unheard, unheard \cup {o}}
          /\ UNCHANGED <<status, market, lower, levels, position, cooling, drifts, fills, step,
                         counter, signalled, manual>>
          /\ step = "cancel"
  BY DEF CancelSucceeds, CancelFails, grid, told
<1>2. o \in Ids
  BY DEF GridInv, GridTypes, Jobs
<1>3. /\ job' \in Jobs /\ job'.todo = job.todo \ {o} /\ job'.stale = job.stale
      /\ job'.to = job.to
  <2>1. job \in Jobs
    BY DEF GridInv, GridTypes
  <2>2. job.cancelled + 1 \in Nat /\ job.todo \ {o} \in SUBSET Ids
    BY <2>1 DEF Jobs
  <2>3. CASE job' = [job EXCEPT !.todo = @ \ {o}]
    BY <2>1, <2>2, <2>3 DEF Jobs
  <2>4. CASE job' = [job EXCEPT !.todo = @ \ {o}, !.cancelled = @ + 1]
    BY <2>1, <2>2, <2>4 DEF Jobs
  <2> QED
    BY <1>1, <2>3, <2>4
<1>4. /\ orders' \in [Ids -> Orders]
      /\ \A p \in Ids : /\ orders'[p].price = orders[p].price
                        /\ orders'[p].status # "none" <=> orders[p].status # "none"
                        /\ orders[p].status = "filled" => orders'[p].status = "filled"
  <2>1. CASE orders' = orders
    BY <2>1 DEF GridInv, GridTypes
  <2>2. CASE Live(o) /\ orders' = [orders EXCEPT ![o].status = "cancelled"]
    <3>1. orders' \in [Ids -> Orders]
      BY <1>2, <2>2 DEF GridInv, GridTypes, Orders
    <3>2. ASSUME NEW p \in Ids
          PROVE  /\ orders'[p].price = orders[p].price
                 /\ orders'[p].status = IF p = o THEN "cancelled" ELSE orders[p].status
      BY <1>2, <2>2 DEF GridInv, GridTypes, Orders
    <3> QED
      BY <3>1, <3>2, <2>2 DEF Live
  <2> QED
    BY <1>1, <2>1, <2>2
<1>5. GridTypes'
  BY <1>1, <1>2, <1>3, <1>4 DEF GridInv, GridTypes
<1>6. Recorded'
  <2> SUFFICES ASSUME NEW i \in Index, levels[i].id # 0
               PROVE  /\ orders'[levels[i].id].status # "none"
                      /\ orders'[levels[i].id].price = levels[i].price
    BY <1>1 DEF Recorded
  <2>1. levels[i].id \in Ids
    BY DEF GridInv, GridTypes, Levels, Ids
  <2> QED
    BY <1>4, <2>1 DEF GridInv, Recorded
<1>7. DriftKnows'
  BY <1>1, <1>3, <1>4 DEF GridInv, GridTypes, Jobs, DriftKnows, LevelPrices, LevelPrice
<1>8. PendingAreFilled' /\ TickIsActive' /\ LevelsMatchRange' /\ StoppedIsQuiet'
  BY <1>1, <1>4 DEF GridInv, GridTypes, PendingAreFilled, TickIsActive, LevelsMatchRange,
                    StoppedIsQuiet
<1> QED
  BY <1>5, <1>6, <1>7, <1>8 DEF GridInv

LEMMA IdleJob ==
    ASSUME job \in Jobs
    PROVE  [Idle EXCEPT !.price = job.price] \in Jobs
           /\ [Idle EXCEPT !.price = job.price].todo = {}
BY DEF Jobs, Idle

LEMMA CancelPhaseEndsStep == ASSUME GridInv, CancelPhaseEnds PROVE GridInv'
<1>1. /\ UNCHANGED <<status, market, position, cooling, drifts, orders, fills, counter, signalled,
                      unheard>>
      /\ step = "cancel" /\ manual' \in {manual, {}}
  BY DEF CancelPhaseEnds
<1>2. PendingAreFilled' /\ TickIsActive' /\ StoppedIsQuiet'
  BY <1>1 DEF GridInv, PendingAreFilled, TickIsActive, StoppedIsQuiet, CancelPhaseEnds
<1>3. CASE ToSignal /\ UNCHANGED grid
  <2>1. step' = "signal" /\ UNCHANGED <<lower, levels>> /\ job' \in Jobs /\ job'.todo = {}
    BY <1>3, IdleJob DEF ToSignal, grid, GridInv, GridTypes
  <2>2. GridTypes' /\ Recorded' /\ DriftKnows' /\ LevelsMatchRange'
    BY <1>1, <2>1 DEF GridInv, GridTypes, Recorded, DriftKnows, LevelsMatchRange
  <2> QED
    BY <1>2, <2>2 DEF GridInv
<1>4. CASE /\ step' = "place" /\ lower' = job.to /\ job' = job
           /\ levels' = [i \in Index |-> [price |-> LevelPrice(job.to, i),
                                          buy |-> FALSE, sell |-> FALSE, id |-> 0]]
  <2>1. job.to \in Nat \ {0} /\ drifts < MaxDrifts
    BY <1>1 DEF GridInv, GridTypes, Jobs
  <2>2. 0 \in 0..MaxOrders
    BY GridAssumption DEF GridAssumption
  <2>3. \A i \in Index : LevelPrice(job.to, i) \in Nat
    BY <2>1, LevelPriceType
  <2>4. levels' \in [Index -> Levels]
    BY <1>4, <2>2, <2>3 DEF Levels
  <2>5. \A i \in Index : levels'[i].id = 0 /\ levels'[i].price = LevelPrice(job.to, i)
    BY <1>4
  <2>6. GridTypes'
    BY <1>1, <1>4, <2>1, <2>4 DEF GridInv, GridTypes
  <2>7. Recorded' /\ DriftKnows' /\ LevelsMatchRange'
    BY <1>1, <1>4, <2>5 DEF Recorded, DriftKnows, LevelsMatchRange, LevelPrice
  <2> QED
    BY <1>2, <2>6, <2>7 DEF GridInv
<1> QED
  BY <1>3, <1>4 DEF CancelPhaseEnds

LEMMA PlacesNothing == ASSUME GridInv, PlacePhase PROVE orders' = orders
<1>1. Targets = {}
  BY NoTargets DEF GridInv, DriftKnows, PlacePhase
<1>2. orders' = [o \in Ids |-> orders[o]]
  BY <1>1 DEF PlacePhase
<1> QED
  BY <1>2 DEF GridInv, GridTypes

LEMMA PlacePhaseStep == ASSUME GridInv, PlacePhase PROVE GridInv'
<1>1. /\ UNCHANGED <<status, market, lower, levels, position, orders, fills, counter, signalled,
                      unheard, manual>>
      /\ step = "place" /\ step' = "signal" /\ cooling' = TRUE /\ drifts' = drifts + 1
      /\ job' \in Jobs /\ job'.todo = {}
  BY PlacesNothing, IdleJob DEF PlacePhase, ToSignal, grid, told, GridInv, GridTypes
<1>2. drifts' \in 0..MaxDrifts
  BY <1>1, GridAssumption DEF GridInv, GridTypes, GridAssumption
<1>3. GridTypes'
  BY <1>1, <1>2 DEF GridInv, GridTypes
<1>4. Recorded' /\ DriftKnows' /\ PendingAreFilled' /\ TickIsActive'
  BY <1>1 DEF GridInv, Recorded, DriftKnows, PendingAreFilled, TickIsActive
<1>5. LevelsMatchRange' /\ StoppedIsQuiet'
  BY <1>1 DEF GridInv, LevelsMatchRange, StoppedIsQuiet
<1> QED
  BY <1>3, <1>4, <1>5 DEF GridInv

-----------------------------------------------------------------------------
(* Fills *)

\* What handling a fill makes of a level's flags, and of the counter order.
Cleared(o) ==
    IF orders[o].side = "BUY" THEN [levels EXCEPT ![orders[o].level].buy = FALSE]
    ELSE [levels EXCEPT ![orders[o].level].sell = FALSE]
Beyond(o) == IF orders[o].side = "BUY" THEN orders[o].level + 1 ELSE orders[o].level - 1
Flagged(o) ==
    IF orders[o].side = "BUY" THEN [Cleared(o) EXCEPT ![Beyond(o)].sell = TRUE]
    ELSE [Cleared(o) EXCEPT ![Beyond(o)].buy = TRUE]
Other(side) == IF side = "BUY" THEN "SELL" ELSE "BUY"

LEMMA FillHandled ==
    ASSUME NEW o \in Ids, HandleGridFill(o)
    PROVE  /\ position' \in {position, position + 1, AfterSell}
           /\ \/ orders[o].level \notin Index /\ UNCHANGED <<levels, counter, manual>>
              \/ /\ orders[o].level \in Index /\ orders[o].side \in Sides
                 /\ \/ NoCounterFor(Cleared(o))
                    \/ /\ Beyond(o) \in Index
                       /\ Counter(Flagged(o), Other(orders[o].side), levels[Beyond(o)].price,
                                  Beyond(o))
<1>1. CASE HandleBuyFill(o) /\ orders[o].level \in Index
  BY <1>1 DEF HandleBuyFill, AfterBuy, Cleared, Beyond, Flagged, Other, Sides
<1>2. CASE HandleSellFill(o) /\ orders[o].level \in Index
  BY <1>2 DEF HandleSellFill, Cleared, Beyond, Flagged, Other, Sides
<1>3. CASE HandleStrangeFill(o)
  BY <1>3 DEF HandleStrangeFill
<1> QED
  BY <1>1, <1>2, <1>3 DEF HandleGridFill

LEMMA ClearedLevels ==
    ASSUME GridTypes, NEW o \in Ids
    PROVE  /\ Cleared(o) \in [Index -> Levels]
           /\ \A i \in Index : /\ Cleared(o)[i].id = levels[i].id
                               /\ Cleared(o)[i].price = levels[i].price
BY DEF GridTypes, Levels, Cleared

LEMMA FlaggedLevels ==
    ASSUME GridTypes, NEW o \in Ids
    PROVE  /\ Flagged(o) \in [Index -> Levels]
           /\ \A i \in Index : /\ Flagged(o)[i].id = levels[i].id
                               /\ Flagged(o)[i].price = levels[i].price
<1> DEFINE cleared == Cleared(o)
<1>1. /\ cleared \in [Index -> Levels]
      /\ \A i \in Index : cleared[i].id = levels[i].id /\ cleared[i].price = levels[i].price
  BY ClearedLevels
<1>2. Flagged(o) = IF orders[o].side = "BUY" THEN [cleared EXCEPT ![Beyond(o)].sell = TRUE]
                   ELSE [cleared EXCEPT ![Beyond(o)].buy = TRUE]
  BY DEF Flagged
<1> HIDE DEF cleared
<1>3. CASE orders[o].side = "BUY"
  <2>1. Flagged(o) = [cleared EXCEPT ![Beyond(o)].sell = TRUE]
    BY <1>2, <1>3
  <2>2. [cleared EXCEPT ![Beyond(o)].sell = TRUE] \in [Index -> Levels]
    BY <1>1 DEF Levels
  <2>3. ASSUME NEW i \in Index
        PROVE  /\ [cleared EXCEPT ![Beyond(o)].sell = TRUE][i].id = cleared[i].id
               /\ [cleared EXCEPT ![Beyond(o)].sell = TRUE][i].price = cleared[i].price
    BY <1>1 DEF Levels
  <2> QED
    BY <1>1, <2>1, <2>2, <2>3
<1>4. CASE orders[o].side # "BUY"
  <2>1. Flagged(o) = [cleared EXCEPT ![Beyond(o)].buy = TRUE]
    BY <1>2, <1>4
  <2>2. [cleared EXCEPT ![Beyond(o)].buy = TRUE] \in [Index -> Levels]
    BY <1>1 DEF Levels
  <2>3. ASSUME NEW i \in Index
        PROVE  /\ [cleared EXCEPT ![Beyond(o)].buy = TRUE][i].id = cleared[i].id
               /\ [cleared EXCEPT ![Beyond(o)].buy = TRUE][i].price = cleared[i].price
    BY <1>1 DEF Levels
  <2> QED
    BY <1>1, <2>1, <2>2, <2>3
<1> QED
  BY <1>3, <1>4

LEMMA FillStep == ASSUME GridInv, NEW o \in Ids, HandleGridFill(o) PROVE GridInv'
<1>1. /\ UNCHANGED <<status, market, lower, cooling, drifts, orders, step, job, signalled, unheard>>
      /\ fills' = fills \ {o}
  BY DEF HandleGridFill, tick
<1>2. levels' \in {levels, Cleared(o), Flagged(o)}
  BY FillHandled DEF NoCounterFor, Counter
<1>3. KeptLevels
  BY <1>2, ClearedLevels, FlaggedLevels DEF KeptLevels, GridInv, GridTypes
<1>4. /\ counter' \in Counters /\ manual' \subseteq manual
      /\ counter'.tries > 0 => counter'.level \in Index /\ counter'.side \in Sides
  <2>1. CASE UNCHANGED <<counter, manual>>
    BY <2>1 DEF GridInv, GridTypes
  <2>2. CASE /\ Beyond(o) \in Index
             /\ Counter(Flagged(o), Other(orders[o].side), levels[Beyond(o)].price, Beyond(o))
    <3>1. levels[Beyond(o)].price \in Nat
      BY <2>2 DEF GridInv, GridTypes, Levels
    <3>2. Beyond(o) \in 0..(GridCount + 1) /\ MaxRetries \in 0..MaxRetries
      BY <2>2, GridAssumption DEF Index, GridAssumption
    <3>3. Other(orders[o].side) \in {"none", "BUY", "SELL"} /\ Other(orders[o].side) \in Sides
      BY DEF Other, Sides
    <3> QED
      BY <2>2, <3>1, <3>2, <3>3 DEF Counter, Counters
  <2> QED
    BY <2>1, <2>2, FillHandled DEF NoCounterFor
<1>5. position' \in Nat
  BY FillHandled DEF GridInv, GridTypes, AfterSell
<1>6. GridTypes'
  BY <1>1, <1>3, <1>4, <1>5 DEF GridInv, GridTypes, KeptLevels
<1>7. orders' \in [Ids -> Orders]
  BY <1>1 DEF GridInv, GridTypes
<1>8. Recorded' /\ PendingAreFilled' /\ LevelsMatchRange'
  BY <1>1, <1>3, <1>7, OrdersAdded
<1>9. DriftKnows'
  BY <1>1, AddedKeepDrift
<1>10. TickIsActive' /\ StoppedIsQuiet'
  BY <1>1 DEF GridInv, TickIsActive, StoppedIsQuiet
<1> QED
  BY <1>6, <1>8, <1>9, <1>10 DEF GridInv

LEMMA TryFailsType ==
    ASSUME GridTypes, counter.tries > 0, TryFails
    PROVE  /\ counter' \in Counters /\ manual' \subseteq Index \X Sides
           /\ counter'.tries > 0 => counter'.level \in Index /\ counter'.side \in Sides
<1>1. counter \in Counters /\ MaxRetries \in Nat
  BY GridAssumption DEF GridTypes, GridAssumption
<1>2. counter.tries - 1 \in 0..MaxRetries
  BY <1>1 DEF Counters
<1>3. NoCounter \in Counters
  BY GridAssumption DEF NoCounter, Counters, GridAssumption
<1>4. /\ [counter EXCEPT !.tries = counter.tries - 1] \in Counters
      /\ [counter EXCEPT !.tries = counter.tries - 1].level = counter.level
      /\ [counter EXCEPT !.tries = counter.tries - 1].side = counter.side
  BY <1>1, <1>2 DEF Counters
<1>5. <<counter.level, counter.side>> \in Index \X Sides
  BY DEF GridTypes
<1>6. counter.level \in Index /\ counter.side \in Sides /\ NoCounter.tries = 0
  BY DEF GridTypes, NoCounter
<1> QED
  BY <1>3, <1>4, <1>5, <1>6 DEF TryFails, GridTypes

LEMMA TryStep == ASSUME GridInv, TryCounter PROVE GridInv'
<1>1. /\ UNCHANGED <<status, market, lower, levels, position, cooling, drifts, fills, step, job,
                      signalled, unheard>>
      /\ counter.tries > 0
  BY DEF TryCounter, grid, tick
<1>3. /\ orders' \in [Ids -> Orders]
      /\ \A p \in Ids : orders[p].status # "none" => orders'[p] = orders[p]
  BY AddsOnly
<1>4. /\ counter' \in Counters /\ manual' \subseteq Index \X Sides
      /\ counter'.tries > 0 => counter'.level \in Index /\ counter'.side \in Sides
  <2>1. NoCounter \in Counters /\ NoCounter.tries = 0
    BY GridAssumption DEF NoCounter, Counters, GridAssumption
  <2> QED
    BY <1>1, <2>1, TryFailsType DEF TryCounter, GridInv, GridTypes
<1>5. GridTypes'
  BY <1>1, <1>3, <1>4 DEF GridInv, GridTypes
<1>6. KeptLevels
  BY <1>1 DEF KeptLevels, GridInv, GridTypes
<1>7. Recorded' /\ PendingAreFilled' /\ LevelsMatchRange'
  BY <1>1, <1>3, <1>6, OrdersAdded
<1>8. DriftKnows'
  BY <1>1, <1>3, AddedKeepDrift
<1>9. TickIsActive' /\ StoppedIsQuiet'
  BY <1>1 DEF GridInv, TickIsActive, StoppedIsQuiet
<1> QED
  BY <1>5, <1>7, <1>8, <1>9 DEF GridInv

LEMMA OrderFillsStep == ASSUME GridInv, NEW o \in Ids, OrderFills(o) PROVE GridInv'
<1>1. /\ UNCHANGED <<status, market, lower, levels, position, cooling, drifts, step, job, counter,
                      signalled, unheard, manual>>
      /\ fills' = fills \cup {o} /\ Live(o)
      /\ orders' = [orders EXCEPT ![o].status = "filled"]
  BY DEF OrderFills, grid, tick, told
<1>2. orders' \in [Ids -> Orders]
  BY <1>1 DEF GridInv, GridTypes, Orders
<1>3. \A p \in Ids : /\ orders'[p].price = orders[p].price
                     /\ orders'[p].status = IF p = o THEN "filled" ELSE orders[p].status
  BY <1>1 DEF GridInv, GridTypes, Orders
<1>4. GridTypes'
  BY <1>1, <1>2 DEF GridInv, GridTypes
<1>5. Recorded'
  <2> SUFFICES ASSUME NEW i \in Index, levels[i].id # 0
               PROVE  /\ orders'[levels[i].id].status # "none"
                      /\ orders'[levels[i].id].price = levels[i].price
    BY <1>1 DEF Recorded
  <2>1. levels[i].id \in Ids
    BY DEF GridInv, GridTypes, Levels, Ids
  <2> QED
    BY <1>3, <2>1 DEF GridInv, Recorded
<1>6. DriftKnows'
  <2>1. job.todo \subseteq Ids
    BY DEF GridInv, GridTypes, Jobs
  <2> QED
    BY <1>1, <1>3, <2>1 DEF GridInv, DriftKnows, LevelPrices, LevelPrice
<1>7. PendingAreFilled' /\ LevelsMatchRange' /\ TickIsActive' /\ StoppedIsQuiet'
  BY <1>1, <1>3 DEF GridInv, GridTypes, PendingAreFilled, LevelsMatchRange, TickIsActive,
                    StoppedIsQuiet
<1> QED
  BY <1>4, <1>5, <1>6, <1>7 DEF GridInv

-----------------------------------------------------------------------------
LEMMA NextInv == GridInv /\ [Next]_vars => GridInv'
<1> SUFFICES ASSUME GridInv, [Next]_vars
             PROVE  GridInv'
  OBVIOUS
<1>1. CASE UNCHANGED vars
  <2>1. GridTypes'
    BY <1>1 DEF vars, grid, tick, told, GridInv, GridTypes
  <2>2. Recorded' /\ DriftKnows' /\ TickIsActive' /\ PendingAreFilled'
    BY <1>1 DEF vars, grid, tick, told, GridInv, Recorded, DriftKnows, TickIsActive, PendingAreFilled
  <2>3. LevelsMatchRange' /\ StoppedIsQuiet'
    BY <1>1 DEF vars, grid, tick, told, GridInv, LevelsMatchRange, StoppedIsQuiet
  <2> QED
    BY <2>1, <2>2, <2>3 DEF GridInv
<1>2. CASE Next
  BY <1>2, LifeCycleStep, TickStep, SignalStep, CancelStep, CancelPhaseEndsStep, PlacePhaseStep,
     FillStep, TryStep, OrderFillsStep DEF Next
<1> QED
  BY <1>1, <1>2

\* The inductive invariant holds in every reachable state: through every step of
\* a drift (executeDrift) and every fill handled meanwhile (HandleGridFill).
THEOREM GridInvariant == Spec => []GridInv
BY InitInv, NextInv, PTL DEF Spec

\* Range and levels move together, through drifts that are aborted half way
\* and fills handled in between (executeDrift).
THEOREM LevelsFollowRange == Spec => []LevelsMatchRange
<1>1. GridInv => LevelsMatchRange
  BY DEF GridInv
<1> QED
  BY <1>1, GridInvariant, PTL

\* No signal of a strategy that was stopped becomes an order (OnMarketUpdate).
THEOREM StoppedStaysQuiet == Spec => []StoppedIsQuiet
<1>1. GridInv => StoppedIsQuiet
  BY DEF GridInv
<1> QED
  BY <1>1, GridInvariant, PTL

LEMMA CancelsOnlyStale ==
    ASSUME GridInv, Next, NEW o \in Ids, Live(o), orders'[o].status = "cancelled"
    PROVE  orders[o].price \notin LevelPrices(job.to)
<1> DEFINE Changed == orders' # orders
<1>1. orders[o].status = "live" /\ orders \in [Ids -> Orders] /\ Changed
  BY DEF Live, GridInv, GridTypes
<1>2. CASE CancelSucceeds \/ CancelFails
  <2>1. PICK p \in job.todo : orders' = [orders EXCEPT ![p].status = "cancelled"]
                               /\ step = "cancel"
    BY <1>1, <1>2 DEF CancelSucceeds, CancelFails
  <2>2. o = p
    BY <1>1, <2>1
  <2> QED
    BY <2>1, <2>2 DEF GridInv, DriftKnows
<1>3. ASSUME NEW p \in Ids, HandleGridFill(p) PROVE FALSE
  BY <1>1, <1>3 DEF HandleGridFill
<1>7. ASSUME TryCounter \/ Signal PROVE FALSE
  BY <1>1, <1>7, AddsOnly
<1>4. ASSUME NEW p \in Ids, OrderFills(p) PROVE FALSE
  <2>1. orders' = [orders EXCEPT ![p].status = "filled"]
    BY <1>4 DEF OrderFills
  <2>2. orders'[o].status \in {"filled", "live"}
    BY <1>1, <2>1 DEF Orders
  <2> QED
    BY <2>2
<1>5. CASE PlacePhase
  BY <1>1, <1>5, PlacesNothing
<1>6. ASSUME StartStrategy \/ StopStrategy \/ Tick \/ CancelPhaseEnds \/ CooldownEnds
             \/ MarketMoves
      PROVE  FALSE
  BY <1>1, <1>6 DEF StartStrategy, StopStrategy, Tick, CancelPhaseEnds, CooldownEnds, MarketMoves
<1> QED
  BY <1>2, <1>3, <1>4, <1>5, <1>6, <1>7 DEF Next

\* A drift takes away only orders of levels that leave the range
\* (cancelStaleOrders).
THEOREM KeptOrdersAreKept == Spec => KeptOrdersStay
<1> DEFINE Kept == \A o \in Ids : (Live(o) /\ orders'[o].status = "cancelled")
                                     => orders[o].price \notin LevelPrices(job.to)
<1>1. GridInv /\ [Next]_vars => [Kept]_vars
  <2> SUFFICES ASSUME GridInv, Next
               PROVE  Kept
    OBVIOUS
  <2> QED
    BY CancelsOnlyStale
<1>2. Spec => [][Kept]_vars
  BY <1>1, GridInvariant, PTL DEF Spec
<1> QED
  BY <1>2 DEF KeptOrdersStay

-----------------------------------------------------------------------------
(* The flags.  Except while a drift cancels, a flag has an order to show   *)
(* for it; the order of a fill that is handled is never the one that the   *)
(* flag of another level or side relies on.                                *)

FlagOf(i, side) == IF side = "BUY" THEN levels[i].buy ELSE levels[i].sell
HasOrder(i, side) ==
    \E o \in Ids : /\ orders[o].side = side /\ orders[o].level = i
                   /\ Live(o) \/ o \in fills \/ o \in unheard
BeingPlaced(i, side) == counter.side = side /\ counter.level = i
Known(i, side) == HasOrder(i, side) \/ BeingPlaced(i, side) \/ <<i, side>> \in manual
Cancelling == step = "cancel" /\ job.cancelled # 0

FlagsKnown == \A i \in Index, side \in Sides : FlagOf(i, side) => Known(i, side)
FlagInv == CounterIdle /\ UnheardAreCancelled /\ (Cancelling \/ FlagsKnown)

LEMMA FlagsHaveOrdersKnown == FlagsHaveOrders <=> (Cancelling \/ FlagsKnown)
<1>1. FlagsKnown <=> \A i \in Index, side \in Sides : FlagOf(i, side) =>
          \/ HasOrder(i, side) \/ BeingPlaced(i, side) \/ <<i, side>> \in manual
  BY DEF FlagsKnown, Known
<1> QED
  BY <1>1 DEF FlagsHaveOrders, Cancelling, FlagOf, HasOrder, BeingPlaced

LEMMA InitFlags == Init => FlagInv
<1> SUFFICES ASSUME Init
             PROVE  FlagInv
  OBVIOUS
<1>1. CounterIdle /\ UnheardAreCancelled
  BY DEF Init, CounterIdle, UnheardAreCancelled
<1>2. ASSUME NEW i \in Index, NEW side \in Sides, FlagOf(i, side)
      PROVE  HasOrder(i, side)
  <2>1. i \in Ids /\ orders[i].side = side
    BY <1>2, IndexIds DEF Init, FlagOf, Sides
  <2>2. Live(i)
    BY <2>1, InitOrders DEF Sides
  <2>3. orders[i].level = i
    <3>1. orders[i] = IF i \in Index /\ SideAt(LevelPrice(FirstLower, i), FirstPrice) # "none"
                      THEN [side |-> SideAt(LevelPrice(FirstLower, i), FirstPrice),
                            price |-> LevelPrice(FirstLower, i), level |-> i, status |-> "live"]
                      ELSE NoOrder
      BY <2>1 DEF Init
    <3> QED
      BY <2>1, <3>1 DEF NoOrder, Sides
  <2> QED
    BY <2>1, <2>2, <2>3 DEF HasOrder
<1> QED
  BY <1>1, <1>2 DEF FlagInv, FlagsKnown, Known

\* The flags stay known when the orders they rely on do.
LEMMA FlagsStay ==
    ASSUME GridInv, FlagsKnown,
           \A i \in Index, side \in Sides : FlagOf(i, side)' => FlagOf(i, side),
           \A i \in Index, side \in Sides : HasOrder(i, side) => HasOrder(i, side)',
           \A i \in Index, side \in Sides : BeingPlaced(i, side) => Known(i, side)',
           manual \subseteq manual'
    PROVE  FlagsKnown'
<1> SUFFICES ASSUME NEW i \in Index, NEW side \in Sides, FlagOf(i, side)'
             PROVE  Known(i, side)'
  BY DEF FlagsKnown
<1>1. Known(i, side)
  BY DEF FlagsKnown
<1> QED
  BY <1>1 DEF Known

\* An order that is added takes none away.
LEMMA AddedHasOrder ==
    ASSUME GridInv, UnheardAreCancelled, UNCHANGED <<fills, unheard>>,
           \A p \in Ids : orders[p].status # "none" => orders'[p] = orders[p],
           NEW i \in Index, NEW side \in Sides, HasOrder(i, side)
    PROVE  HasOrder(i, side)'
<1>1. PICK o \in Ids : /\ orders[o].side = side /\ orders[o].level = i
                       /\ Live(o) \/ o \in fills \/ o \in unheard
  BY DEF HasOrder
<1>2. orders[o].status # "none"
  BY <1>1 DEF Live, GridInv, PendingAreFilled, UnheardAreCancelled
<1>3. orders'[o] = orders[o]
  BY <1>2
<1> QED
  BY <1>1, <1>3 DEF HasOrder, Live

\* Steps that touch neither flags nor orders, and end no phase of cancelling.
LEMMA IdleFlags ==
    ASSUME GridInv, FlagInv, Cancelling => Cancelling',
           UNCHANGED <<levels, orders, fills, counter, unheard, manual>>
    PROVE  FlagInv'
BY DEF FlagInv, CounterIdle, UnheardAreCancelled, FlagsKnown, FlagOf, Known, HasOrder, Live,
       BeingPlaced

LEMMA CancelFlags == ASSUME GridInv, FlagInv, CancelSucceeds \/ CancelFails PROVE FlagInv'
<1>1. CASE CancelSucceeds
  <2>1. PICK o \in job.todo :
            /\ Live(o) /\ orders' = [orders EXCEPT ![o].status = "cancelled"]
            /\ job' = [job EXCEPT !.todo = @ \ {o}, !.cancelled = @ + 1]
    BY <1>1 DEF CancelSucceeds
  <2>2. step' = "cancel" /\ UNCHANGED <<counter, unheard>>
    BY <1>1 DEF CancelSucceeds, told
  <2>3. job'.cancelled = job.cancelled + 1 /\ job.cancelled \in Nat
    BY <2>1 DEF GridInv, GridTypes, Jobs
  <2>4. Cancelling'
    BY <2>2, <2>3 DEF Cancelling
  <2>5. \A p \in unheard : p \in Ids /\ orders'[p].status = "cancelled"
    BY <2>1 DEF FlagInv, UnheardAreCancelled, GridInv, GridTypes, Orders
  <2> QED
    BY <2>2, <2>4, <2>5 DEF FlagInv, CounterIdle, UnheardAreCancelled
<1>2. CASE CancelFails
  <2>1. PICK o \in job.todo :
            /\ job' = [job EXCEPT !.todo = @ \ {o}]
            /\ \/ UNCHANGED <<orders, unheard>>
               \/ /\ Live(o) /\ orders' = [orders EXCEPT ![o].status = "cancelled"]
                  /\ unheard' = unheard \cup {o}
    BY <1>2 DEF CancelFails
  <2>2. step' = step /\ UNCHANGED <<levels, fills, counter, manual>>
    BY <1>2 DEF CancelFails, grid
  <2>3. job'.cancelled = job.cancelled
    BY <2>1 DEF GridInv, GridTypes, Jobs
  <2>4. Cancelling => Cancelling'
    BY <2>2, <2>3 DEF Cancelling
  <2>5. CASE UNCHANGED <<orders, unheard>>
    BY <2>2, <2>4, <2>5, IdleFlags
  <2>6. CASE /\ Live(o) /\ orders' = [orders EXCEPT ![o].status = "cancelled"]
             /\ unheard' = unheard \cup {o}
    <3>1. o \in Ids /\ orders \in [Ids -> Orders]
      BY DEF GridInv, GridTypes, Jobs
    <3>2. \A p \in Ids : /\ orders'[p].side = orders[p].side /\ orders'[p].level = orders[p].level
                         /\ orders'[p].status = IF p = o THEN "cancelled" ELSE orders[p].status
      BY <2>6, <3>1 DEF Orders
    <3>3. \A i \in Index, side \in Sides : HasOrder(i, side) => HasOrder(i, side)'
      BY <2>2, <2>6, <3>2 DEF HasOrder, Live
    <3>4. \A i \in Index, side \in Sides : BeingPlaced(i, side) => Known(i, side)'
      BY <2>2 DEF BeingPlaced, Known
    <3>5. \A i \in Index, side \in Sides : FlagOf(i, side)' => FlagOf(i, side)
      BY <2>2 DEF FlagOf
    <3>6. FlagsKnown => FlagsKnown'
      BY <2>2, <3>3, <3>4, <3>5, FlagsStay
    <3>7. CounterIdle' /\ UnheardAreCancelled'
      BY <2>2, <2>6, <3>1, <3>2 DEF FlagInv, CounterIdle, UnheardAreCancelled, GridInv, GridTypes
    <3> QED
      BY <2>4, <3>6, <3>7 DEF FlagInv
  <2> QED
    BY <2>1, <2>5, <2>6
<1> QED
  BY <1>1, <1>2

LEMMA CancelPhaseEndsFlags == ASSUME GridInv, FlagInv, CancelPhaseEnds PROVE FlagInv'
<1>1. UNCHANGED <<orders, fills, counter, unheard>> /\ step = "cancel"
  BY DEF CancelPhaseEnds
<1>2. CASE job.stale # {} /\ job.cancelled = 0
  <2>1. UNCHANGED <<levels, manual>> /\ ~Cancelling
    BY <1>2 DEF CancelPhaseEnds, grid, Cancelling
  <2> QED
    BY <1>1, <2>1, IdleFlags
<1>3. CASE ~(job.stale # {} /\ job.cancelled = 0)
  <2>1. \A i \in Index : levels'[i].buy = FALSE /\ levels'[i].sell = FALSE
    BY <1>3 DEF CancelPhaseEnds
  <2>2. FlagsKnown'
    BY <2>1 DEF FlagsKnown, FlagOf
  <2>3. CounterIdle' /\ UnheardAreCancelled'
    BY <1>1 DEF FlagInv, CounterIdle, UnheardAreCancelled
  <2> QED
    BY <2>2, <2>3 DEF FlagInv
<1> QED
  BY <1>2, <1>3

LEMMA SignalFlags == ASSUME GridInv, FlagInv, Signal PROVE FlagInv'
<1>1. UNCHANGED <<levels, fills, counter, unheard, manual>> /\ ~Cancelling
  BY DEF Signal, grid, Cancelling
<1>2. \A p \in Ids : orders[p].status # "none" => orders'[p] = orders[p]
  BY AddsOnly
<1>3. \A i \in Index, side \in Sides : HasOrder(i, side) => HasOrder(i, side)'
  BY <1>1, <1>2, AddedHasOrder DEF FlagInv
<1>4. FlagsKnown'
  <2>1. \A i \in Index, side \in Sides : BeingPlaced(i, side) => Known(i, side)'
    BY <1>1 DEF BeingPlaced, Known
  <2>2. \A i \in Index, side \in Sides : FlagOf(i, side)' => FlagOf(i, side)
    BY <1>1 DEF FlagOf
  <2> QED
    BY <1>1, <1>3, <2>1, <2>2, FlagsStay DEF FlagInv
<1>5. CounterIdle' /\ UnheardAreCancelled'
  BY <1>1, <1>2 DEF FlagInv, CounterIdle, UnheardAreCancelled, GridInv, GridTypes
<1> QED
  BY <1>4, <1>5 DEF FlagInv

\* The flags of levels before they are stored.
FlagIn(some, i, side) == IF side = "BUY" THEN some[i].buy ELSE some[i].sell

LEMMA ClearedFlags ==
    ASSUME GridTypes, NEW o \in Ids, orders[o].level \in Index, orders[o].side \in Sides,
           NEW i \in Index, NEW side \in Sides, FlagIn(Cleared(o), i, side)
    PROVE  FlagOf(i, side) /\ ~(i = orders[o].level /\ side = orders[o].side)
<1>1. levels \in [Index -> Levels]
  BY DEF GridTypes
<1>2. CASE orders[o].side = "BUY"
  <2>1. Cleared(o) = [levels EXCEPT ![orders[o].level].buy = FALSE]
    BY <1>2 DEF Cleared
  <2> QED
    BY <1>1, <1>2, <2>1 DEF FlagIn, FlagOf, Levels, Sides
<1>3. CASE orders[o].side = "SELL"
  <2>1. Cleared(o) = [levels EXCEPT ![orders[o].level].sell = FALSE]
    BY <1>3 DEF Cleared
  <2> QED
    BY <1>1, <1>3, <2>1 DEF FlagIn, FlagOf, Levels, Sides
<1> QED
  BY <1>2, <1>3 DEF Sides

LEMMA FlaggedFlags ==
    ASSUME GridTypes, NEW o \in Ids, Beyond(o) \in Index, orders[o].side \in Sides,
           NEW i \in Index, NEW side \in Sides, FlagIn(Flagged(o), i, side)
    PROVE  FlagIn(Cleared(o), i, side) \/ (i = Beyond(o) /\ side = Other(orders[o].side))
<1> DEFINE cleared == Cleared(o)
           far == Beyond(o)
<1>1. cleared \in [Index -> Levels]
  BY ClearedLevels
<1>2. CASE orders[o].side = "BUY"
  <2>1. Flagged(o) = [cleared EXCEPT ![far].sell = TRUE] /\ Other(orders[o].side) = "SELL"
    BY <1>2 DEF Flagged, Other
  <2> HIDE DEF cleared, far
  <2>2. FlagIn(cleared, i, side) \/ (i = far /\ side = "SELL")
    BY <1>1, <2>1 DEF FlagIn, Levels, Sides
  <2> QED
    BY <2>1, <2>2 DEF cleared, far
<1>3. CASE orders[o].side = "SELL"
  <2>1. Flagged(o) = [cleared EXCEPT ![far].buy = TRUE] /\ Other(orders[o].side) = "BUY"
    BY <1>3 DEF Flagged, Other
  <2> HIDE DEF cleared, far
  <2>2. FlagIn(cleared, i, side) \/ (i = far /\ side = "BUY")
    BY <1>1, <2>1 DEF FlagIn, Levels, Sides
  <2> QED
    BY <2>1, <2>2 DEF cleared, far
<1> QED
  BY <1>2, <1>3 DEF Sides

LEMMA FillFlags == ASSUME GridInv, FlagInv, NEW o \in Ids, HandleGridFill(o) PROVE FlagInv'
<1> DEFINE side0 == orders[o].side
           at == orders[o].level
<1>1. /\ UNCHANGED <<orders, unheard, step, job>> /\ fills' = fills \ {o}
      /\ counter.tries = 0
  BY DEF HandleGridFill, tick
<1>2. counter = NoCounter
  BY <1>1 DEF FlagInv, CounterIdle
<1>3. \A i \in Index, side \in Sides : ~BeingPlaced(i, side)
  BY <1>2 DEF BeingPlaced, NoCounter, Sides
<1>4. UnheardAreCancelled'
  BY <1>1 DEF FlagInv, UnheardAreCancelled
<1>5. CounterIdle'
  <2>1. MaxRetries > 0
    BY GridAssumption DEF GridAssumption
  <2>2. CASE UNCHANGED counter
    BY <2>2 DEF FlagInv, CounterIdle
  <2>3. CASE Counter(Flagged(o), Other(orders[o].side), levels[Beyond(o)].price, Beyond(o))
    BY <2>1, <2>3 DEF Counter, CounterIdle
  <2> QED
    BY <2>2, <2>3, FillHandled DEF NoCounterFor
<1>6. ASSUME NEW i \in Index, NEW side \in Sides, HasOrder(i, side), ~(i = at /\ side = side0)
      PROVE  HasOrder(i, side)'
  <2>1. PICK p \in Ids : /\ orders[p].side = side /\ orders[p].level = i
                         /\ Live(p) \/ p \in fills \/ p \in unheard
    BY <1>6 DEF HasOrder
  <2>2. p # o
    BY <1>6, <2>1
  <2> QED
    BY <1>1, <2>1, <2>2 DEF HasOrder, Live
<1>7. ASSUME FlagsKnown, NEW i \in Index, NEW side \in Sides, FlagOf(i, side)'
      PROVE  Known(i, side)'
  <2>1. FlagOf(i, side)' = FlagIn(levels', i, side)
    BY DEF FlagOf, FlagIn
  <2>2. CASE at \notin Index /\ UNCHANGED <<levels, counter, manual>>
    <3>1. FlagOf(i, side)
      BY <1>7, <2>2 DEF FlagOf
    <3>2. HasOrder(i, side) \/ <<i, side>> \in manual
      BY <1>3, <1>7, <3>1 DEF FlagsKnown, Known
    <3> QED
      BY <1>6, <2>2, <3>2 DEF Known
  <2>3. CASE at \in Index /\ side0 \in Sides /\ NoCounterFor(Cleared(o))
    <3>1. FlagIn(Cleared(o), i, side) /\ UNCHANGED manual
      BY <1>7, <2>1, <2>3 DEF NoCounterFor
    <3>2. FlagOf(i, side) /\ ~(i = at /\ side = side0)
      BY <2>3, <3>1, ClearedFlags DEF GridInv
    <3>3. HasOrder(i, side) \/ <<i, side>> \in manual
      BY <1>3, <1>7, <3>2 DEF FlagsKnown, Known
    <3> QED
      BY <1>6, <3>1, <3>2, <3>3 DEF Known
  <2>4. CASE /\ at \in Index /\ side0 \in Sides /\ Beyond(o) \in Index
             /\ Counter(Flagged(o), Other(side0), levels[Beyond(o)].price, Beyond(o))
    <3>1. /\ FlagIn(Flagged(o), i, side)
          /\ counter'.side = Other(side0) /\ counter'.level = Beyond(o)
          /\ manual' = manual \ {<<Beyond(o), Other(side0)>>}
      BY <1>7, <2>1, <2>4 DEF Counter
    <3>2. CASE i = Beyond(o) /\ side = Other(side0)
      BY <3>1, <3>2 DEF Known, BeingPlaced
    <3>3. CASE ~(i = Beyond(o) /\ side = Other(side0))
      <4>1. FlagIn(Cleared(o), i, side)
        BY <2>4, <3>1, <3>3, FlaggedFlags DEF GridInv
      <4>2. FlagOf(i, side) /\ ~(i = at /\ side = side0)
        BY <2>4, <4>1, ClearedFlags DEF GridInv
      <4>3. HasOrder(i, side) \/ <<i, side>> \in manual
        BY <1>3, <1>7, <4>2 DEF FlagsKnown, Known
      <4> QED
        BY <1>6, <3>1, <3>3, <4>2, <4>3 DEF Known
    <3> QED
      BY <3>2, <3>3
  <2> QED
    BY <2>2, <2>3, <2>4, FillHandled
<1>8. FlagsKnown => FlagsKnown'
  BY <1>7 DEF FlagsKnown
<1>9. Cancelling => Cancelling'
  BY <1>1 DEF Cancelling
<1> QED
  BY <1>4, <1>5, <1>8, <1>9 DEF FlagInv

LEMMA TryFlags == ASSUME GridInv, FlagInv, TryCounter PROVE FlagInv'
<1>1. /\ UNCHANGED <<levels, fills, unheard, step, job>> /\ counter.tries > 0
  BY DEF TryCounter, grid, tick
<1>2. counter \in Counters /\ counter.level \in Index /\ counter.side \in Sides
  BY <1>1 DEF GridInv, GridTypes
<1>3. \A p \in Ids : orders[p].status # "none" => orders'[p] = orders[p]
  BY AddsOnly
<1>4. \A i \in Index, side \in Sides : HasOrder(i, side) => HasOrder(i, side)'
  BY <1>1, <1>3, AddedHasOrder DEF FlagInv
<1>5. TryFails => /\ manual \subseteq manual'
                  /\ counter'.tries = 0 => counter' = NoCounter
                  /\ \/ <<counter.level, counter.side>> \in manual'
                     \/ counter'.level = counter.level /\ counter'.side = counter.side
  <2> SUFFICES ASSUME TryFails
               PROVE  /\ manual \subseteq manual'
                      /\ counter'.tries = 0 => counter' = NoCounter
                      /\ \/ <<counter.level, counter.side>> \in manual'
                         \/ counter'.level = counter.level /\ counter'.side = counter.side
    OBVIOUS
  <2>1. CASE counter.tries - 1 = 0
    BY <2>1 DEF TryFails
  <2>2. CASE counter.tries - 1 # 0
    <3>1. counter' = [counter EXCEPT !.tries = counter.tries - 1] /\ manual' = manual
      BY <2>2 DEF TryFails
    <3>2. /\ counter'.tries = counter.tries - 1
          /\ counter'.level = counter.level /\ counter'.side = counter.side
      BY <1>2, <3>1 DEF Counters
    <3> QED
      BY <2>2, <3>1, <3>2
  <2> QED
    BY <2>1, <2>2
<1>6. Places(counter.side, counter.price, counter.level) =>
          \E o \in Ids : /\ orders'[o].side = counter.side /\ orders'[o].level = counter.level
                        /\ orders'[o].status = "live"
  <2> SUFFICES ASSUME Places(counter.side, counter.price, counter.level)
               PROVE  \E o \in Ids : /\ orders'[o].side = counter.side
                                     /\ orders'[o].level = counter.level
                                     /\ orders'[o].status = "live"
    OBVIOUS
  <2>1. counter.price \in Nat /\ counter.level \in 0..(GridCount + 1)
    BY <1>2 DEF Counters
  <2>2. \E p \in Ids : /\ orders'[p].side = counter.side /\ orders'[p].level = counter.level
                       /\ orders'[p].status = "live"
    BY <1>2, <2>1, PlacesKeeps DEF GridInv
  <2> QED
    BY <2>2
<1>7. /\ manual \subseteq manual'
      /\ counter'.tries = 0 => counter' = NoCounter
  <2>1. CASE TryFails
    BY <1>5, <2>1
  <2>2. CASE /\ Places(counter.side, counter.price, counter.level) /\ UNCHANGED manual
             /\ counter' = NoCounter \/ UNCHANGED counter
    BY <1>1, <2>2
  <2> QED
    BY <2>1, <2>2 DEF TryCounter
<1>8. \A i \in Index, side \in Sides : BeingPlaced(i, side) => Known(i, side)'
  <2> SUFFICES ASSUME NEW i \in Index, NEW side \in Sides, i = counter.level, side = counter.side
               PROVE  \/ \E o \in Ids : /\ orders'[o].side = side /\ orders'[o].level = i
                                       /\ orders'[o].status = "live"
                      \/ counter'.side = side /\ counter'.level = i
                      \/ <<i, side>> \in manual'
    BY DEF BeingPlaced, Known, HasOrder, Live
  <2>1. CASE TryFails
    BY <1>5, <2>1
  <2>2. CASE Places(counter.side, counter.price, counter.level)
    BY <1>6, <2>2
  <2> QED
    BY <2>1, <2>2 DEF TryCounter
<1>9. \A i \in Index, side \in Sides : FlagOf(i, side)' => FlagOf(i, side)
  BY <1>1 DEF FlagOf
<1>10. FlagsKnown => FlagsKnown'
  BY <1>4, <1>7, <1>8, <1>9, FlagsStay
<1>11. Cancelling => Cancelling'
  BY <1>1 DEF Cancelling
<1>12. CounterIdle' /\ UnheardAreCancelled'
  BY <1>1, <1>3, <1>7 DEF FlagInv, CounterIdle, UnheardAreCancelled, GridInv, GridTypes
<1> QED
  BY <1>10, <1>11, <1>12 DEF FlagInv

LEMMA OrderFillsFlags == ASSUME GridInv, FlagInv, NEW o \in Ids, OrderFills(o) PROVE FlagInv'
<1>1. /\ UNCHANGED <<levels, counter, unheard, manual, step, job>> /\ fills' = fills \cup {o}
      /\ orders' = [orders EXCEPT ![o].status = "filled"] /\ orders[o].status = "live"
  BY DEF OrderFills, grid, tick, told, Live
<1>2. \A p \in Ids : /\ orders'[p].side = orders[p].side /\ orders'[p].level = orders[p].level
                     /\ orders'[p].status = IF p = o THEN "filled" ELSE orders[p].status
  BY <1>1 DEF GridInv, GridTypes, Orders
<1>3. \A i \in Index, side \in Sides : HasOrder(i, side) => HasOrder(i, side)'
  BY <1>1, <1>2 DEF HasOrder, Live
<1>4. \A i \in Index, side \in Sides : BeingPlaced(i, side) => Known(i, side)'
  BY <1>1 DEF BeingPlaced, Known
<1>5. \A i \in Index, side \in Sides : FlagOf(i, side)' => FlagOf(i, side)
  BY <1>1 DEF FlagOf
<1>6. FlagsKnown => FlagsKnown'
  BY <1>1, <1>3, <1>4, <1>5, FlagsStay
<1>7. CounterIdle' /\ UnheardAreCancelled' /\ (Cancelling => Cancelling')
  BY <1>1, <1>2 DEF FlagInv, CounterIdle, UnheardAreCancelled, Cancelling, GridInv, GridTypes
<1> QED
  BY <1>6, <1>7 DEF FlagInv

LEMMA NextFlags == GridInv /\ FlagInv /\ [Next]_vars => FlagInv'
<1> SUFFICES ASSUME GridInv, FlagInv, [Next]_vars
             PROVE  FlagInv'
  OBVIOUS
<1>1. ASSUME StartStrategy \/ StopStrategy \/ CooldownEnds \/ MarketMoves \/ UNCHANGED vars
      PROVE  FlagInv'
  <2>1. UNCHANGED <<levels, orders, fills, counter, unheard, manual, step, job>>
    BY <1>1 DEF StartStrategy, StopStrategy, CooldownEnds, MarketMoves, vars, grid, tick, told
  <2> QED
    BY <2>1, IdleFlags DEF Cancelling
<1>2. CASE Tick
  <2>1. UNCHANGED <<levels, orders, fills, counter, unheard, manual>> /\ ~Cancelling
    BY <1>2 DEF Tick, grid, told, Cancelling
  <2> QED
    BY <2>1, IdleFlags
<1>3. CASE PlacePhase
  <2>1. UNCHANGED <<levels, orders, fills, counter, unheard, manual>> /\ ~Cancelling
    BY <1>3, PlacesNothing DEF PlacePhase, grid, told, Cancelling
  <2> QED
    BY <2>1, IdleFlags
<1> QED
  BY <1>1, <1>2, <1>3, CancelFlags, CancelPhaseEndsFlags, SignalFlags, FillFlags, TryFlags,
     OrderFillsFlags DEF Next

\* A flag of a level stands for an order, as far as the strategy was told:
\* through drifts that are aborted or go on half way, and counter orders whose
\* answers get lost (executeDrift, HandleGridFillWithRetry).
THEOREM FlagsStandForOrders == Spec => []FlagsHaveOrders
<1>1. FlagInv => FlagsHaveOrders
  BY FlagsHaveOrdersKnown DEF FlagInv
<1> QED
  BY <1>1, InitFlags, GridInvariant, NextFlags, PTL DEF Spec

-----------------------------------------------------------------------------
\* Every variable keeps its type through drifts and fills (executeDrift,
\* HandleGridFillWithRetry).
THEOREM GridTypeCorrect == Spec => []TypeOK
<1>1. GridInv => TypeOK
  BY DEF GridInv, GridTypes, TypeOK, Levels, Orders, Jobs, Counters
<1> QED
  BY <1>1, GridInvariant, PTL

=============================================================================
