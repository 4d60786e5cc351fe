---------------------------- MODULE GridStrategy ----------------------------
(***************************************************************************)
(* internal/strategy: one grid strategy under the Scheduler, with its      *)
(* drift engine (grid_drift.go), its levels and fill handling (grid.go,    *)
(* grid_orders.go, grid_fill.go) and the exchange it trades on.            *)
(*                                                                         *)
(* A tick runs OnMarketUpdate to its end under the scheduler's read lock   *)
(* (drift first, then the signal); StartStrategy, StopStrategy and StopAll *)
(* take the write lock.  HandleGridFill takes no lock: a fill may be       *)
(* handled between any two steps of a drift, and with the level index its  *)
(* order was placed with, whatever the levels are by then; each try to     *)
(* place its counter order is a step of its own.                           *)
(*                                                                         *)
(* A call to the exchange may take effect although it fails: its answer is *)
(* lost, or is a 5xx, on which APIClient sends it again.                   *)
(*                                                                         *)
(* Abstracted: prices are whole ticks and the grid is arithmetic with a    *)
(* whole spacing, every order is one lot and fills whole, the two-sided    *)
(* fee is a number of ticks, three tries of a cancellation are one that    *)
(* fails when all do, the clock is the flag cooling, and AvgEntryPrice,    *)
(* RealizedPnL and the counters are left out: nothing is decided on them.  *)
(***************************************************************************)
EXTENDS Integers, FiniteSets

CONSTANTS
    GridCount, Spacing,     \* intervals of the grid, and ticks per interval
    FirstLower,             \* config.LowerPrice at the start
    FirstPrice,             \* the market price at the start
    Prices,                 \* prices the market visits
    DriftStep, Zone,        \* DriftStep; DriftThreshold * width, in ticks
    MaxDrifts,              \* config limit, at least 1 here
    MaxPosition, Fee,       \* lots; ticks
    MaxRetries,             \* maxRetries of HandleGridFillWithRetry
    MinTick,                \* the clamp of a range that would reach zero
    MaxOrders               \* bound on orders

ASSUME GridAssumption ==
    /\ {GridCount, Spacing, DriftStep, MaxDrifts, MaxPosition, MaxRetries, MinTick} \subseteq Nat \ {0}
    /\ {Zone, Fee, MaxOrders} \subseteq Nat
    /\ MaxOrders > GridCount       \* the initial grid fits
    /\ FirstLower \in Nat \ {0} /\ FirstPrice \in Prices
    /\ IsFiniteSet(Prices) /\ Prices \subseteq Nat \ {0}

VARIABLES
    status,     \* StrategyInstance.State
    market,     \* external: the last price
    lower,      \* config.LowerPrice; UpperPrice is lower + Width
    levels,     \* GridState.Levels
    position,   \* GridState.Position
    cooling,    \* the cooldown since lastDriftTime has not elapsed
    drifts,     \* driftCount
    orders,     \* external: the orders on the exchange
    fills,      \* fill events nobody handled yet, by order
    counter,    \* the counter order being placed, and the tries left
    step,       \* where OnMarketUpdate is
    job,        \* its local variables
    signalled,  \* history: the strategy's state when its signal became an order
    unheard,    \* history: orders cancelled by a call that was taken to have failed
    manual      \* history: levels and sides of results with NeedsManualIntervention

grid == <<lower, levels>>
tick == <<step, job>>
told == <<signalled, unheard, manual>>
vars == <<status, market, grid, position, cooling, drifts, orders, fills, counter, tick, told>>

Index == 1..(GridCount + 1)
Ids == 1..MaxOrders
Width == GridCount * Spacing
Upper == lower + Width

Sides == {"BUY", "SELL"}
NoOrder == [side |-> "none", price |-> 0, level |-> 0, status |-> "none"]
Idle == [price |-> 0, from |-> 0, to |-> 0, stale |-> {}, todo |-> {}, cancelled |-> 0]
NoCounter == [side |-> "none", price |-> 0, level |-> 0, tries |-> 0]
Live(o) == orders[o].status = "live"

\* calculateArithmeticLevels
LevelPrice(from, i) == from + (i - 1) * Spacing
LevelPrices(from) == {LevelPrice(from, i) : i \in Index}

TypeOK ==
    /\ status \in {"Loaded", "Active", "Stopped"}
    /\ market \in Prices
    /\ lower \in Nat \ {0}
    /\ levels \in [Index -> [price : Nat, buy : BOOLEAN, sell : BOOLEAN, id : 0..MaxOrders]]
    /\ position \in Nat
    /\ cooling \in BOOLEAN /\ drifts \in 0..MaxDrifts
    /\ orders \in [Ids -> [side : {"none", "BUY", "SELL"}, price : Nat, level : 0..(GridCount + 1),
                           status : {"none", "live", "filled", "cancelled"}]]
    /\ fills \subseteq Ids
    /\ counter \in [side : {"none", "BUY", "SELL"}, price : Nat, level : 0..(GridCount + 1),
                    tries : 0..MaxRetries]
    /\ step \in {"idle", "cancel", "place", "signal"}
    /\ job.stale \subseteq Ids /\ job.todo \subseteq job.stale
    /\ signalled \in {"none", "Loaded", "Active", "Stopped"}
    /\ unheard \subseteq Ids /\ manual \subseteq Index \X Sides

\* PlaceGridOrders: a BUY below the price, a SELL above it, nothing at it.
SideAt(p, price) == IF p < price THEN "BUY" ELSE IF p > price THEN "SELL" ELSE "none"

\* The grid as its owner sets it up: an order at every level, recorded there,
\* and inventory for every SELL.
Init ==
    /\ status = "Loaded" /\ market = FirstPrice
    /\ lower = FirstLower
    /\ orders = [o \in Ids |->
          IF o \in Index /\ SideAt(LevelPrice(FirstLower, o), FirstPrice) # "none"
          THEN [side |-> SideAt(LevelPrice(FirstLower, o), FirstPrice),
                price |-> LevelPrice(FirstLower, o), level |-> o, status |-> "live"]
          ELSE NoOrder]
    /\ levels = [i \in Index |->
          [price |-> LevelPrice(FirstLower, i), buy |-> orders[i].side = "BUY",
           sell |-> orders[i].side = "SELL", id |-> IF Live(i) THEN i ELSE 0]]
    /\ position = Cardinality({o \in Ids : orders[o].side = "SELL"})
    /\ cooling = FALSE /\ drifts = 0
    /\ fills = {} /\ counter = NoCounter
    /\ step = "idle" /\ job = Idle
    /\ signalled = "none" /\ unheard = {} /\ manual = {}

-----------------------------------------------------------------------------
(* Scheduler: life cycle.  The write lock waits for a tick to end. *)

StartStrategy ==
    /\ step = "idle" /\ status # "Active"
    /\ status' = "Active"
    /\ UNCHANGED <<market, grid, position, cooling, drifts, orders, fills, counter, tick, told>>

\* Mutant: StopStrategy does not wait for the tick that runs.
MutStopStrategy ==
    /\ status # "Stopped"
    /\ status' = "Stopped"
    /\ UNCHANGED <<market, grid, position, cooling, drifts, orders, fills, counter, tick, told>>

\* StopStrategy stops whatever is not stopped yet, StopAll only what is active.
StopStrategy ==
    /\ step = "idle" /\ status # "Stopped"
    /\ status' = "Stopped"
    /\ UNCHANGED <<market, grid, position, cooling, drifts, orders, fills, counter, tick, told>>

-----------------------------------------------------------------------------
(* GridDriftEngine *)

\* shouldTriggerDrift: +1 is DriftUp, -1 DriftDown, 0 DriftNone.  Beyond the
\* range or within Zone of its end; the upper end is looked at first.
Direction(p) ==
    IF p > Upper THEN 1
    ELSE IF p < lower THEN -1
    ELSE IF p >= Upper - Zone THEN 1
    ELSE IF p <= lower + Zone THEN -1 ELSE 0

\* isEmergencyOverride
Emergency(p) == p - Upper > 2 * DriftStep * Spacing \/ lower - p > 2 * DriftStep * Spacing

\* computeNewRange
NewLower(p) ==
    LET shifted == lower + Direction(p) * DriftStep * Spacing
    IN  IF shifted <= 0 THEN MinTick ELSE shifted

\* Mutant: the levels that stay are not looked up.
MutStaleOrders(to) ==
    {levels[i].id : i \in {j \in Index : (levels[j].buy \/ levels[j].sell) /\ levels[j].id # 0}}

\* cancelStaleOrders, its first half: recorded orders at levels that go.
StaleOrders(to) ==
    {levels[i].id : i \in {j \in Index : /\ levels[j].price \notin LevelPrices(to)
                                         /\ levels[j].buy \/ levels[j].sell
                                         /\ levels[j].id # 0}}

\* OnPriceUpdate decides on a drift
Drifts(p) ==
    /\ drifts < MaxDrifts
    /\ Direction(p) # 0
    /\ cooling => Emergency(p)

\* OnMarketUpdate for an active strategy, up to the first call to the exchange.
Tick ==
    /\ step = "idle" /\ status = "Active"
    /\ IF Drifts(market)
       THEN LET stale == StaleOrders(NewLower(market))
            IN  /\ step' = "cancel"
                /\ job' = [price |-> market, from |-> lower, to |-> NewLower(market),
                           stale |-> stale, todo |-> stale, cancelled |-> 0]
       ELSE step' = "signal" /\ job' = [Idle EXCEPT !.price = market]
    /\ UNCHANGED <<status, market, grid, position, cooling, drifts, orders, fills, counter, told>>

\* One order of cancelStaleOrders.  The exchange cancels live orders only.
CancelSucceeds ==
    /\ step = "cancel"
    /\ \E o \in job.todo :
          /\ Live(o)
          /\ orders' = [orders EXCEPT ![o].status = "cancelled"]
          /\ job' = [job EXCEPT !.todo = @ \ {o}, !.cancelled = @ + 1]
    /\ UNCHANGED <<status, market, grid, position, cooling, drifts, fills, counter, step, told>>

\* No try got a good answer; one may have taken effect all the same.
CancelFails ==
    /\ step = "cancel"
    /\ \E o \in job.todo :
          /\ job' = [job EXCEPT !.todo = @ \ {o}]
          /\ \/ UNCHANGED <<orders, unheard>>
             \/ /\ Live(o)
                /\ orders' = [orders EXCEPT ![o].status = "cancelled"]
                /\ unheard' = unheard \cup {o}
    /\ UNCHANGED <<status, market, grid, position, cooling, drifts, fills, counter, step,
                   signalled, manual>>

\* OnPriceUpdate returns: of the tick only its price is left.
ToSignal == step' = "signal" /\ job' = [Idle EXCEPT !.price = job.price]

\* Mutant: the config is moved before the abort is decided.
MutCancelPhaseEnds ==
    /\ step = "cancel" /\ job.todo = {}
    /\ lower' = job.to
    /\ IF job.stale # {} /\ job.cancelled = 0
       THEN ToSignal /\ UNCHANGED <<levels, manual>>
       ELSE /\ step' = "place" /\ UNCHANGED job
            /\ levels' = [i \in Index |-> [price |-> LevelPrice(job.to, i),
                                           buy |-> FALSE, sell |-> FALSE, id |-> 0]]
            /\ manual' = {}
    /\ UNCHANGED <<status, market, position, cooling, drifts, orders, fills, counter,
                   signalled, unheard>>

\* Mutant: having nothing to cancel is an abort, too.
MutCancelPhaseEndsEmpty ==
    /\ step = "cancel" /\ job.todo = {}
    /\ IF job.cancelled = 0
       THEN ToSignal /\ UNCHANGED <<grid, manual>>
       ELSE /\ step' = "place" /\ UNCHANGED job
            /\ lower' = job.to
            /\ levels' = [i \in Index |-> [price |-> LevelPrice(job.to, i),
                                           buy |-> FALSE, sell |-> FALSE, id |-> 0]]
            /\ manual' = {}
    /\ UNCHANGED <<status, market, position, cooling, drifts, orders, fills, counter,
                   signalled, unheard>>

\* Mutant: a drift is aborted unless everything was cancelled.
MutCancelPhaseEndsPartly ==
    /\ step = "cancel" /\ job.todo = {}
    /\ IF job.cancelled # Cardinality(job.stale)
       THEN ToSignal /\ UNCHANGED <<grid, manual>>
       ELSE /\ step' = "place" /\ UNCHANGED job
            /\ lower' = job.to
            /\ levels' = [i \in Index |-> [price |-> LevelPrice(job.to, i),
                                           buy |-> FALSE, sell |-> FALSE, id |-> 0]]
            /\ manual' = {}
    /\ UNCHANGED <<status, market, position, cooling, drifts, orders, fills, counter,
                   signalled, unheard>>

\* executeDrift after its first phase: abort, or move the range and the levels.
CancelPhaseEnds ==
    /\ step = "cancel" /\ job.todo = {}
    /\ IF job.stale # {} /\ job.cancelled = 0
       THEN ToSignal /\ UNCHANGED <<grid, manual>>
       ELSE /\ step' = "place" /\ UNCHANGED job
            /\ lower' = job.to
            /\ levels' = [i \in Index |-> [price |-> LevelPrice(job.to, i),
                                           buy |-> FALSE, sell |-> FALSE, id |-> 0]]
            /\ manual' = {}
    /\ UNCHANGED <<status, market, position, cooling, drifts, orders, fills, counter,
                   signalled, unheard>>

\* placeNewOrders: the levels that are not among the levels of the state, which
\* executeDrift has replaced by then.
Targets ==
    {i \in Index : /\ LevelPrice(job.to, i) \notin {levels[j].price : j \in Index}
                   /\ SideAt(LevelPrice(job.to, i), job.price) # "none"}

NewOrder(o, side, price, level) ==
    orders' = [orders EXCEPT ![o] =
                  [side |-> side, price |-> price, level |-> level, status |-> "live"]]

FreeIds == {o \in Ids : orders[o].status = "none"}

\* Phase 3 and the record of the drift.  Orders that fail are only logged; that
\* a try may place one twice is left out, since there is no target
\* (NewLevelsGetOrders).
PlacePhase ==
    /\ step = "place"
    /\ \E placed \in SUBSET Targets :
          \E id \in [placed -> FreeIds] :
             /\ \A i, j \in placed : i # j => id[i] # id[j]
             /\ orders' = [o \in Ids |->
                   IF \E i \in placed : id[i] = o
                   THEN LET i == CHOOSE i \in placed : id[i] = o
                        IN  [side |-> SideAt(LevelPrice(job.to, i), job.price),
                             price |-> LevelPrice(job.to, i), level |-> i, status |-> "live"]
                   ELSE orders[o]]
    /\ cooling' = TRUE
    /\ drifts' = drifts + 1
    /\ ToSignal
    /\ UNCHANGED <<status, market, grid, position, fills, counter, told>>

\* Bound: an order takes the first free id.
Places(side, price, level) ==
    \E o \in FreeIds : /\ \A p \in FreeIds : o <= p
                       /\ NewOrder(o, side, price, level)

\* processGridUpdate and submitSignalForApproval: below or above the middle an
\* order of no level, which risk manager and exchange may turn down, and which
\* a 5xx makes APIClient send again.
Signal ==
    /\ step = "signal"
    /\ \/ /\ 2 * job.price # 2 * lower + Width
          /\ Places(IF 2 * job.price < 2 * lower + Width THEN "BUY" ELSE "SELL", job.price, 0)
          /\ signalled' = status
          /\ (step' = "idle" /\ job' = Idle) \/ UNCHANGED tick
       \/ step' = "idle" /\ job' = Idle /\ UNCHANGED <<orders, signalled>>
    /\ UNCHANGED <<status, market, grid, position, cooling, drifts, fills, counter, unheard, manual>>

CooldownEnds ==
    /\ cooling
    /\ cooling' = FALSE
    /\ UNCHANGED <<status, market, grid, position, drifts, orders, fills, counter, tick, told>>

-----------------------------------------------------------------------------
(* HandleGridFillWithRetry, by the goroutine that delivers fills. *)

\* The counter order is flagged at its level before it is placed.
Counter(flagged, side, price, level) ==
    /\ levels' = flagged
    /\ counter' = [side |-> side, price |-> price, level |-> level, tries |-> MaxRetries]
    /\ manual' = manual \ {<<level, side>>}

NoCounterFor(unflagged) == levels' = unflagged /\ UNCHANGED <<counter, manual>>

\* updatePositionOnBuy, updatePositionOnSell: what is sold short is forgotten.
AfterBuy == position + 1
AfterSell == IF position > 0 THEN position - 1 ELSE 0

HandleBuyFill(o) ==
    LET at == orders[o].level
        cleared == [levels EXCEPT ![at].buy = FALSE]
    IN  /\ orders[o].side = "BUY"
        /\ position' = AfterBuy
        /\ IF at + 1 \in Index /\ levels[at + 1].price - orders[o].price > Fee
           THEN Counter([cleared EXCEPT ![at + 1].sell = TRUE], "SELL", levels[at + 1].price, at + 1)
           ELSE NoCounterFor(cleared)

HandleSellFill(o) ==
    LET at == orders[o].level
        cleared == [levels EXCEPT ![at].sell = FALSE]
    IN  /\ orders[o].side = "SELL"
        /\ position' = AfterSell
        /\ IF at - 1 \in Index /\ AfterSell + 1 <= MaxPosition
           THEN Counter([cleared EXCEPT ![at - 1].buy = TRUE], "BUY", levels[at - 1].price, at - 1)
           ELSE NoCounterFor(cleared)

\* Of a signal's order: the level is out of range (ErrInvalidFillLevel).
HandleStrangeFill(o) ==
    /\ orders[o].level \notin Index
    /\ UNCHANGED <<levels, position, counter, manual>>

\* HandleGridFill, and what HandleGridFillWithRetry has to place afterwards.
HandleGridFill(o) ==
    /\ o \in fills /\ counter.tries = 0
    /\ fills' = fills \ {o}
    /\ \/ orders[o].level \in Index /\ (HandleBuyFill(o) \/ HandleSellFill(o))
       \/ HandleStrangeFill(o)
    /\ UNCHANGED <<status, market, lower, cooling, drifts, orders, tick, signalled, unheard>>

\* After the last try the flag stays (NeedsManualIntervention).
TryFails ==
    LET left == counter.tries - 1
    IN  /\ counter' = IF left = 0 THEN NoCounter ELSE [counter EXCEPT !.tries = left]
        /\ manual' = IF left = 0 THEN manual \cup {<<counter.level, counter.side>>} ELSE manual

\* One PlaceOrder for the counter order: it is placed and the answer says so, or
\* does not, or is a 5xx and the try goes on; or it is refused.
TryCounter ==
    /\ counter.tries > 0
    /\ \/ /\ Places(counter.side, counter.price, counter.level)
          /\ \/ counter' = NoCounter /\ UNCHANGED manual
             \/ TryFails
             \/ UNCHANGED <<counter, manual>>
       \/ TryFails /\ UNCHANGED orders
    /\ UNCHANGED <<status, market, grid, position, cooling, drifts, fills, tick, signalled, unheard>>

-----------------------------------------------------------------------------
(* External: the market moves and the exchange fills orders. *)

MarketMoves ==
    /\ \E p \in Prices \ {market} : market' = p
    /\ UNCHANGED <<status, grid, position, cooling, drifts, orders, fills, counter, tick, told>>

OrderFills(o) ==
    /\ Live(o)
    /\ orders' = [orders EXCEPT ![o].status = "filled"]
    /\ fills' = fills \cup {o}
    /\ UNCHANGED <<status, market, grid, position, cooling, drifts, counter, tick, told>>

Next ==
    \/ StartStrategy \/ StopStrategy
    \/ Tick \/ CancelSucceeds \/ CancelFails \/ CancelPhaseEnds \/ PlacePhase \/ Signal
    \/ CooldownEnds \/ MarketMoves \/ TryCounter
    \/ \E o \in Ids : HandleGridFill(o) \/ OrderFills(o)

Spec == Init /\ [][Next]_vars

\* Ticks keep coming and run to their end, the cooldown elapses, and the
\* exchange does not refuse to cancel live orders for ever.
Fairness ==
    /\ WF_vars(Tick) /\ WF_vars(CancelFails) /\ SF_vars(CancelSucceeds)
    /\ WF_vars(CancelPhaseEnds) /\ WF_vars(PlacePhase) /\ WF_vars(Signal)
    /\ WF_vars(CooldownEnds)

FairSpec == Spec /\ Fairness

-----------------------------------------------------------------------------
(* Properties *)

\* Range and levels move together, also when a drift is aborted half way
\* (executeDrift; requirement 8.4 of the grid-drift specification).
LevelsMatchRange == \A i \in Index : levels[i].price = LevelPrice(lower, i)

\* A drift takes away only orders of levels that leave the range, whatever was
\* filled meanwhile (cancelStaleOrders; requirement 3.2).
KeptOrdersStay ==
    [][\A o \in Ids : (Live(o) /\ orders'[o].status = "cancelled")
                          => orders[o].price \notin LevelPrices(job.to)]_vars

\* A flag of a level stands for an order: one that is there, or was filled and
\* is not handled, or that its fill's handler is still placing; unless the
\* strategy was told otherwise, by a result for manual intervention or a
\* cancellation that took effect unheard.  Drifts that are aborted or go on with
\* some orders left keep it so (executeDrift, handleBuyFill, handleSellFill).
FlagsHaveOrders ==
    step # "cancel" \/ job.cancelled = 0 =>
        \A i \in Index, side \in Sides :
            (IF side = "BUY" THEN levels[i].buy ELSE levels[i].sell) =>
                \/ \E o \in Ids : /\ orders[o].side = side /\ orders[o].level = i
                                  /\ Live(o) \/ o \in fills \/ o \in unheard
                \/ counter.side = side /\ counter.level = i
                \/ <<i, side>> \in manual

\* No signal of a strategy that was stopped becomes an order: a tick that runs
\* while StopStrategy or StopAll is called ends before they do (OnMarketUpdate).
StoppedIsQuiet == signalled \in {"none", "Active"}

\* Orders recorded at the levels a drift would take away, none of which can be
\* cancelled any more: every attempt is aborted (cancelStaleOrders).
Hopeless ==
    LET stale == StaleOrders(NewLower(market))
    IN  stale # {} /\ \A o \in stale : ~Live(o)

\* The range follows the price: an active strategy does not stay outside of its
\* range, unless the drifts are used up or it only remembers dead orders.
RangeFollows ==
    []<>(\/ status # "Active" \/ market \in lower..Upper
         \/ drifts = MaxDrifts \/ Hopeless)

\* What the code does not keep (README, section 6): what the grid owns and bids
\* for may exceed the position limit, since a counter-BUY whose answer was lost
\* is placed again and signals buy without a look at it.
ExposureBounded ==
    position + Cardinality({o \in Ids : /\ orders[o].side = "BUY"
                                        /\ Live(o) \/ o \in fills}) <= MaxPosition

\* Levels a drift brings in get an order (placeNewOrders; requirement 3.3 of
\* the grid-drift specification): it tries to place one at each of them.
NewLevelsGetOrders ==
    step = "place" =>
        {i \in Index : /\ LevelPrice(job.to, i) \notin LevelPrices(job.from)
                       /\ SideAt(LevelPrice(job.to, i), job.price) # "none"} \subseteq Targets
=============================================================================
