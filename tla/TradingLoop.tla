----------------------------- MODULE TradingLoop -----------------------------
(***************************************************************************)
(* cmd/main.go for one symbol of the cash profile: the startup sequence,   *)
(* the fill callback with fill_handler.go, inventoryRebalanceLoop over     *)
(* inventory_tracker.go and momentum_filter.go, the shutdown, a crash and  *)
(* the restart after it, and the exchange they trade on.                   *)
(*                                                                         *)
(* Goroutines: the startup and shutdown (main), the loop, the reader of    *)
(* the private socket, which runs the callback to its end before it reads  *)
(* on, and the rebalancer, of which little is kept here.                   *)
(* Each request to the exchange is a step; between two of them anything    *)
(* may happen.  A request that fails and one whose reply is lost differ    *)
(* only in what the exchange did, for the code ignores the answer.         *)
(*                                                                         *)
(* Abstracted: a price is only compared, so a ticker is the outcomes of    *)
(* these comparisons; the fee is left out (a lot is what is left of it);   *)
(* a position's age is the branch it selects; any lot is worth more than   *)
(* the five dollars below which a balance is dust.                         *)
(***************************************************************************)
EXTENDS Naturals, Sequences, FiniteSetsExt

CONSTANTS
    Profiles,       \* subset of [single : BOOLEAN, trading : BOOLEAN]
    Size,           \* OrderSize, in lots
    Points,         \* prices the momentum filter needs (4 in the code)
    MaxOrders,      \* bound on orders open at once
    MaxLots,        \* bound on lots held and bid for: the funds of the account
    MaxReports      \* bound on fill events in transit

ASSUME TradingLoopAssumption ==
    /\ Profiles \subseteq [single : BOOLEAN, trading : BOOLEAN]
    /\ {Size, Points, MaxOrders, MaxLots, MaxReports} \subseteq Nat \ {0}

VARIABLES
    profile,    \* single: GridCount = 1; trading: TradingEnabled.  Never changes
    phase,      \* where startup is
    gate,       \* TradingGate.Authorize(symbol, RiskIncreasing).Allowed
    sweep,      \* ownershipSafeCleanup: orders left, and whether a call failed
    balance,    \* loadExistingPositions: the balance it was told
    pos,        \* InventoryTracker.positions[symbol]
    seen, falls,\* MomentumFilter: prices recorded, and the last falls in a row
    step, job,  \* where inventoryRebalanceLoop is, and its local variables
    linked,     \* the private WebSocket delivers
    reports,    \* fill events on their way to the callback
    hand,       \* the event whose counter-order OnFill places next
    orders,     \* external: the orders of the symbol
    coins,      \* external: the balance, open SELL orders included
    missed      \* history: a SELL fill since the lots of pos were counted was not reported

start == <<phase, gate, sweep, balance>>
tracker == <<pos, missed>>
momentum == <<seen, falls>>
loop == <<step, job>>
socket == <<linked, reports, hand>>
exchange == <<orders, coins>>
vars == <<profile, start, tracker, momentum, loop, socket, exchange>>

Ids == 1..MaxOrders
NoOrder == [side |-> "none", left |-> 0, bot |-> FALSE]
Open(o) == orders[o].left > 0

\* Mutant: an order without a client order id counts as owned.
MutOwned(o) == Open(o)

\* isBotOwnedClientOrderID: the client order id has the prefix of the program.
Owned(o) == Open(o) /\ orders[o].bot

Side(s) == {o \in Ids : orders[o].side = s}

\* Lots on the open orders of side s; those no open SELL order has frozen.
Lots(s) == LET left(o) == orders[o].left IN MapThenSumSet(left, Side(s))
Free == coins - Lots("SELL")

NoPos == [qty |-> 0, age |-> "fresh"]
NoReport == [side |-> "none", qty |-> 0]
Idle == [pos |-> NoPos, why |-> "none", todo |-> {}]
NoSweep == [todo |-> {}, failed |-> FALSE]

Booting == {"connect", "reconcile", "list", "cancel", "load", "price", "public",
            "list again", "cancel again", "place"}
Running == phase = "running"   \* callback set, loop started

TypeOK ==
    /\ profile \in Profiles
    /\ phase \in Booting \cup {"down", "running"}
    /\ gate \in BOOLEAN
    /\ sweep \in [todo : SUBSET Ids, failed : BOOLEAN]
    /\ balance \in Nat
    /\ pos \in [qty : Nat, age : {"fresh", "old", "expired"}]
    /\ seen \in 0..Points /\ falls \in 0..(Points - 1)
    /\ step \in {"idle", "ticker", "list", "cancel", "place", "market", "clear"}
    /\ job.todo \subseteq Ids
    /\ linked \in BOOLEAN
    /\ hand.side \in {"none", "buy", "sell"}
    /\ orders \in [Ids -> [side : {"none", "BUY", "SELL"}, left : Nat, bot : BOOLEAN]]
    /\ coins \in Nat
    /\ missed \in BOOLEAN

\* One order placed by hand is on the book before the program starts.
Init ==
    /\ profile \in Profiles
    /\ phase = "down"
    /\ gate = FALSE /\ sweep = NoSweep /\ balance = 0
    /\ pos = NoPos /\ missed = FALSE
    /\ seen = 0 /\ falls = 0
    /\ step = "idle" /\ job = Idle
    /\ linked = FALSE /\ reports = <<>> /\ hand = NoReport
    /\ orders = [o \in Ids |->
          IF o = 1 THEN [side |-> "BUY", left |-> Size, bot |-> FALSE] ELSE NoOrder]
    /\ coins = 0

-----------------------------------------------------------------------------
(* The exchange.  It takes an order or refuses it: no funds, a post-only    *)
(* price that would trade at once, a request that never arrives.            *)

Slots == {o \in Ids : ~Open(o)} \ (job.todo \cup sweep.todo)

\* The exchange accepts an order.
Accept(side, lots, bot) ==
    /\ Slots # {}
    /\ IF side = "SELL" THEN lots <= Free ELSE coins + Lots("BUY") + lots <= MaxLots
    /\ orders' = [orders EXCEPT ![Min(Slots)] = [side |-> side, left |-> lots, bot |-> bot]]

\* APIClient.PlaceOrder, whose answer is logged and otherwise ignored.
PlaceOrder(side, lots, bot) == Accept(side, lots, bot) \/ UNCHANGED orders

\* gateway.CancelOrder: done; or failed, or too late.
CancelOrder(o) ==
    \/ orders' = [orders EXCEPT ![o] = NoOrder]
    \/ UNCHANGED orders

\* An event for the private socket; what it does not deliver is lost.
Report(side, lots) ==
    /\ Len(reports) < MaxReports
    /\ IF linked THEN reports' = Append(reports, [side |-> side, qty |-> lots]) /\ UNCHANGED missed
       ELSE missed' = (missed \/ side = "sell") /\ UNCHANGED reports

\* An order trades, in part or whole.
Fill(o) ==
    /\ Open(o)
    /\ \E lots \in 1..orders[o].left :
          /\ orders' = [orders EXCEPT ![o] = IF lots = @.left THEN NoOrder
                ELSE [side |-> @.side, left |-> @.left - lots, bot |-> @.bot]]
          /\ IF orders[o].side = "BUY" THEN coins' = coins + lots /\ Report("buy", lots)
             ELSE coins' = coins - lots /\ Report("sell", lots)
    /\ UNCHANGED <<profile, start, pos, momentum, loop, linked, hand>>

LinkFails ==
    /\ linked
    /\ linked' = FALSE /\ reports' = <<>>
    /\ missed' = (missed \/ \E i \in DOMAIN reports : reports[i].side = "sell")
    /\ UNCHANGED <<profile, start, pos, momentum, loop, hand, exchange>>

LinkReturns ==
    /\ phase \notin {"down", "connect"} /\ ~linked
    /\ linked' = TRUE
    /\ UNCHANGED <<profile, start, tracker, momentum, loop, reports, hand, exchange>>

\* A position gets older: one hour, twelve hours.
Age ==
    /\ pos # NoPos /\ pos.age # "expired"
    /\ pos' = [pos EXCEPT !.age = IF @ = "fresh" THEN "old" ELSE "expired"]
    /\ UNCHANGED <<profile, start, missed, momentum, loop, socket, exchange>>

-----------------------------------------------------------------------------
(* InventoryTracker and MomentumFilter *)

\* Mutant: RecordBuy adds to the position it finds.
MutRecordBuy(lots) == pos' = [qty |-> pos.qty + lots, age |-> "fresh"]

\* RecordBuy replaces the position.
RecordBuy(lots) == pos' = [qty |-> lots, age |-> "fresh"]
ClearPosition == pos' = NoPos /\ missed' = FALSE

\* RecordPrice, as IsDowntrend and HasEnoughData see the history.
RecordPrice(fell) ==
    /\ seen' = Min({seen + 1, Points})
    /\ falls' = IF fell /\ seen > 0 THEN Min({falls + 1, Points - 1}) ELSE 0

-----------------------------------------------------------------------------
(* startup *)

\* Nothing of an earlier run is left but what the exchange holds.
Reset ==
    /\ gate' = FALSE /\ sweep' = NoSweep /\ balance' = 0
    /\ pos' = NoPos /\ missed' = FALSE
    /\ seen' = 0 /\ falls' = 0
    /\ step' = "idle" /\ job' = Idle
    /\ linked' = FALSE /\ reports' = <<>> /\ hand' = NoReport

\* main up to the private connection; loadPersistedState restores nothing
\* this module keeps.
StartProgram ==
    /\ phase = "down" /\ phase' = "connect"
    /\ UNCHANGED <<profile, gate, sweep, balance, tracker, momentum, loop, socket, exchange>>

\* A phase of startup fails and main exits, or the process dies, or it was
\* told to: gracefulShutdown disconnects (LinkFails) and ends, and neither
\* cancels an order nor stops the loop before the end.
Dies ==
    /\ phase # "down"
    /\ phase' = "down" /\ Reset
    /\ UNCHANGED <<profile, exchange>>

\* privateWS.Connect; the callback is not set yet.
ConnectPrivate ==
    /\ phase = "connect"
    /\ phase' = "reconcile" /\ linked' = TRUE
    /\ UNCHANGED <<profile, gate, sweep, balance, tracker, momentum, loop, reports, hand, exchange>>

\* reconcileWithTimeout, with a querier that reports no orders.
ReconcileOnce ==
    /\ phase = "reconcile" /\ phase' = "list"
    /\ UNCHANGED <<profile, gate, sweep, balance, tracker, momentum, loop, socket, exchange>>

\* Mutant: only the BUY orders of an earlier run are cancelled.
MutSweepList(from, to) ==
    /\ phase = from /\ phase' = to
    /\ \/ sweep' = [todo |-> {o \in Ids : Owned(o) /\ orders[o].side = "BUY"}, failed |-> FALSE]
       \/ sweep' = [todo |-> {}, failed |-> TRUE]
    /\ UNCHANGED <<profile, gate, balance, tracker, momentum, loop, socket, exchange>>

\* ownershipSafeCleanup: list, then cancel what is owned, one by one.
SweepList(from, to) ==
    /\ phase = from /\ phase' = to
    /\ \/ sweep' = [todo |-> {o \in Ids : Owned(o)}, failed |-> FALSE]
       \/ sweep' = [todo |-> {}, failed |-> TRUE]
    /\ UNCHANGED <<profile, gate, balance, tracker, momentum, loop, socket, exchange>>

SweepCancel(at) ==
    /\ phase = at
    /\ \E o \in sweep.todo :
          /\ CancelOrder(o)
          /\ sweep' = [todo |-> sweep.todo \ {o}, failed |-> sweep.failed \/ Open(o)']
    /\ UNCHANGED <<profile, phase, gate, balance, tracker, momentum, loop, socket, coins>>

SweepEnds(at, to) ==
    /\ phase = at /\ sweep.todo = {}
    /\ phase' = to
    /\ UNCHANGED <<profile, gate, sweep, balance, tracker, momentum, loop, socket, exchange>>

\* loadExistingPositions asks for the whole balance.  The request may fail,
\* and there may be nothing to load.
LoadBalance ==
    /\ phase = "load"
    /\ \/ /\ coins > 0
          /\ balance' = coins /\ phase' = "price"
          /\ missed' = FALSE
       \/ phase' = "public" /\ UNCHANGED <<balance, missed>>
    /\ UNCHANGED <<profile, gate, sweep, pos, momentum, loop, socket, exchange>>

\* Its GetTicker, and RecordBuy of the balance it was told before.
LoadPosition ==
    /\ phase = "price" /\ phase' = "public"
    /\ RecordBuy(balance) \/ UNCHANGED pos
    /\ balance' = 0
    /\ UNCHANGED <<profile, gate, sweep, missed, momentum, loop, socket, exchange>>

\* wsClient.Connect, then READY: the gate opens.
BecomeReady ==
    /\ phase = "public"
    /\ gate' = TRUE
    /\ phase' = IF profile.trading THEN "list again" ELSE "place"
    /\ UNCHANGED <<profile, sweep, balance, tracker, momentum, loop, socket, exchange>>

\* placeInitialGridOrders: the BUY orders of the grid, which carry no client
\* order id.  A single grid leaves them to the loop.
PlaceInitialGridOrder ==
    /\ phase = "place" /\ profile.trading /\ ~profile.single /\ gate
    /\ Accept("BUY", Size, FALSE)
    /\ UNCHANGED <<profile, start, tracker, momentum, loop, socket, coins>>

\* The callback is set; reconciler, rebalancers and loop start; the results of
\* the cleanups are forgotten.
StartLoops ==
    /\ phase = "place" /\ phase' = "running"
    /\ sweep' = NoSweep
    /\ UNCHANGED <<profile, gate, balance, tracker, momentum, loop, socket, exchange>>

Startup ==
    \/ ConnectPrivate \/ ReconcileOnce \/ LoadBalance \/ LoadPosition \/ BecomeReady
    \/ PlaceInitialGridOrder \/ StartLoops
    \/ SweepList("list", "cancel") \/ SweepCancel("cancel") \/ SweepEnds("cancel", "load")
    \/ SweepList("list again", "cancel again") \/ SweepCancel("cancel again")
    \/ SweepEnds("cancel again", "place")

-----------------------------------------------------------------------------
(* The fill callback: the gate, then OnFill. *)

TakeReport(keep) ==
    /\ reports # <<>> /\ hand = NoReport
    /\ reports' = Tail(reports)
    /\ IF keep THEN hand' = Head(reports)
       ELSE hand' = NoReport /\ missed' = (missed \/ Head(reports).side = "sell") /\ UNCHANGED pos
    /\ UNCHANGED <<profile, start, momentum, loop, linked, exchange>>

\* Nobody listens yet, or the gate blocks the counter-BUY: the event is
\* dropped whole, the tracker not told.
Unheard == ~Running \/ (Head(reports).side = "sell" /\ ~gate)

DropFill == TakeReport(FALSE) /\ Unheard

\* OnFill up to the counter-order.  A counter-SELL counts as risk-reducing,
\* which only an emergency stop would block, and production triggers none.
OnFill ==
    /\ TakeReport(TRUE) /\ ~Unheard
    /\ IF Head(reports).side = "buy"
       THEN RecordBuy(Head(reports).qty) /\ missed' = FALSE
       ELSE ClearPosition

PlaceCounterOrder ==
    /\ hand # NoReport
    /\ hand' = NoReport
    /\ IF hand.side = "buy" THEN PlaceOrder("SELL", hand.qty, TRUE)
       ELSE PlaceOrder("BUY", Size, TRUE)
    /\ UNCHANGED <<profile, start, tracker, momentum, loop, linked, reports, coins>>

-----------------------------------------------------------------------------
(* inventoryRebalanceLoop: a cycle every 30 seconds.  job.pos is the copy   *)
(* GetPosition returned; why is the branch that was taken.                  *)

\* Next call of the cycle; the age was looked at for the last time.
Goto(s, w, todo) ==
    step' = s /\ job' = [pos |-> [job.pos EXCEPT !.age = "fresh"], why |-> w, todo |-> todo]
CycleEnds == step' = "idle" /\ job' = Idle

Tick ==
    /\ Running /\ step = "idle"
    /\ pos # NoPos \/ profile.single
    /\ step' = "ticker" /\ job' = [Idle EXCEPT !.pos = pos]
    /\ UNCHANGED <<profile, start, tracker, momentum, socket, exchange>>

TickerFails ==
    /\ step = "ticker" /\ CycleEnds
    /\ UNCHANGED <<profile, start, tracker, momentum, socket, exchange>>

\* GetTicker, no position: warm up, give way to a downtrend, or look after
\* the BUY order.  full is IsInventoryFull, which finds a position only when
\* a fill came in since GetPosition.
TickerFlat(fell, full) ==
    /\ step = "ticker" /\ job.pos = NoPos
    /\ full => pos # NoPos
    /\ RecordPrice(fell)
    /\ IF seen' < Points THEN CycleEnds
       ELSE IF falls' = Points - 1 THEN Goto("list", "downtrend", {})
       ELSE IF full THEN CycleEnds
       ELSE Goto("list", "track", {})
    /\ UNCHANGED <<profile, start, tracker, socket, exchange>>

\* Mutant: the skewed price is looked at before the twelve hours.
MutTickerHeld(fell, loss, stop) ==
    /\ step = "ticker" /\ job.pos # NoPos
    /\ stop => pos # NoPos
    /\ IF stop THEN Goto("market", "exit", {}) /\ UNCHANGED momentum
       ELSE /\ RecordPrice(fell)
            /\ IF loss THEN Goto("list", "skew", {})
               ELSE IF job.pos.age = "expired" THEN Goto("market", "exit", {})
               ELSE IF job.pos.age = "fresh" THEN CycleEnds
               ELSE Goto("list", "decay", {})
    /\ UNCHANGED <<profile, start, tracker, socket, exchange>>

\* GetTicker, with a position: the hard stop (stop: ShouldHardStop, which
\* looks at the tracker again), the forced exit after twelve hours, the
\* skewed price when under water (loss), an hour of rest, the decay.
TickerHeld(fell, loss, stop) ==
    /\ step = "ticker" /\ job.pos # NoPos
    /\ stop => pos # NoPos
    /\ IF stop \/ job.pos.age = "expired"
       THEN Goto("market", "exit", {}) /\ UNCHANGED momentum
       ELSE /\ RecordPrice(fell)
            /\ IF loss THEN Goto("list", "skew", {})
               ELSE IF job.pos.age = "fresh" THEN CycleEnds
               ELSE Goto("list", "decay", {})
    /\ UNCHANGED <<profile, start, tracker, socket, exchange>>

\* What the branch is after among the orders of the program.
Wanted == {o \in Ids : Owned(o) /\ (job.why \in {"downtrend", "track"} => orders[o].side = "BUY")}

\* ListPendingOrders; an error is taken for an empty list.
ListPending(found) ==
    /\ step = "list"
    /\ IF job.why # "track" THEN Goto("cancel", job.why, found)
       ELSE IF found = {} THEN Goto("place", "track", {})
       ELSE \/ CycleEnds                     \* the price is right
            \/ \E o \in found : Goto("cancel", "track", {o})
    /\ UNCHANGED <<profile, start, tracker, momentum, socket, exchange>>

CancelPending ==
    /\ step = "cancel"
    /\ \E o \in job.todo : CancelOrder(o) /\ Goto("cancel", job.why, job.todo \ {o})
    /\ UNCHANGED <<profile, start, tracker, momentum, socket, coins>>

CancelsEnd ==
    /\ step = "cancel" /\ job.todo = {}
    /\ IF job.why = "downtrend" THEN CycleEnds ELSE Goto("place", job.why, {})
    /\ UNCHANGED <<profile, start, tracker, momentum, socket, exchange>>

\* A BUY when there was no position, else a SELL of the position copied.
PlaceReplacement ==
    /\ step = "place" /\ CycleEnds
    /\ IF job.why = "track" THEN PlaceOrder("BUY", Size, TRUE)
       ELSE PlaceOrder("SELL", job.pos.qty, TRUE)
    /\ UNCHANGED <<profile, start, tracker, momentum, socket, coins>>

\* The market SELL of a hard stop or a forced exit.  The lots an open SELL
\* has frozen cannot be sold again; nobody looks at the answer.
SellAtMarket ==
    /\ step = "market" /\ Goto("clear", "exit", {})
    /\ \/ /\ job.pos.qty <= Free
          /\ coins' = coins - job.pos.qty
          /\ Report("sell", job.pos.qty)
       \/ UNCHANGED <<coins, reports, missed>>
    /\ UNCHANGED <<profile, start, pos, momentum, linked, hand, orders>>

ClearAfterExit ==
    /\ step = "clear" /\ CycleEnds
    /\ ClearPosition
    /\ UNCHANGED <<profile, start, momentum, socket, exchange>>

TickerOK ==
    \E fell, under, stop \in BOOLEAN : TickerFlat(fell, stop) \/ TickerHeld(fell, under, stop)

LoopStep ==
    \/ Tick
    \/ \E found \in {Wanted, {}} : ListPending(found)
    \/ CancelPending \/ CancelsEnd \/ PlaceReplacement
    \/ SellAtMarket \/ ClearAfterExit

-----------------------------------------------------------------------------
(* The rebalancer of the symbol, as far as it takes orders off the book and *)
(* shuts the gate, which nothing in production opens again.  Its            *)
(* replacement, one for one, is the subject of Rebalancer.tla; an order it  *)
(* replaced at once is, without its price, the order it was.                *)

RebalancerCancels ==
    /\ Running /\ profile.trading
    /\ \E o \in Ids : Owned(o) /\ orders' = [orders EXCEPT ![o] = NoOrder]
    /\ UNCHANGED <<profile, start, tracker, momentum, loop, socket, coins>>

RebalancerFails ==
    /\ Running /\ profile.trading /\ gate
    /\ gate' = FALSE
    /\ UNCHANGED <<profile, phase, sweep, balance, tracker, momentum, loop, socket, exchange>>

-----------------------------------------------------------------------------
Next ==
    \/ StartProgram \/ Startup \/ Dies
    \/ \E o \in Ids : Fill(o)
    \/ LinkFails \/ LinkReturns \/ Age
    \/ DropFill \/ OnFill \/ PlaceCounterOrder
    \/ TickerFails \/ TickerOK \/ LoopStep
    \/ RebalancerCancels \/ RebalancerFails

Spec == Init /\ [][Next]_vars

\* The program gets on while it runs (its timers fire, its requests return),
\* time passes, and a ticker asked for again and again is got some time.
FairSpec ==
    /\ Spec
    /\ WF_vars(Startup) /\ WF_vars(LoopStep) /\ WF_vars(Age)
    /\ SF_vars(TickerOK)

-----------------------------------------------------------------------------
\* A tracked position is covered by the balance, unless a SELL fill after its
\* lots were counted (in the BUY's event, or in the balance at startup) is not
\* handled yet, or never will be: RecordBuy and ClearPosition keep up with what
\* the loop, the callback and the exchange do in any order (InventoryTracker,
\* loadExistingPositions, OnFill, inventoryRebalanceLoop).
PositionIsHeld ==
    \/ pos.qty <= coins
    \/ missed
    \/ \E i \in DOMAIN reports : reports[i].side = "sell"

\* Between the startup cleanup and the first order of this run no order with
\* a client order id of the program is open, unless a listing or a cancel
\* failed, whenever an earlier run died (ownershipSafeCleanup).  Orders of an
\* earlier initial grid carry no such id and may well be open.
CleanStart ==
    phase \in {"load", "price", "public", "list again", "place"} /\ ~sweep.failed
        => ~\E o \in Ids : Owned(o)

\* An order without the client order id of the program is never cancelled,
\* by no cleanup, no branch of the loop and no rebalancer: it goes when its
\* last lots trade (requirement 3.5: manual orders are preserved).
ManualOrdersKept ==
    [][\A o \in Ids : Open(o) /\ ~orders[o].bot /\ ~Open(o)'
          => coins' # coins]_vars

\* A position held for twelve hours is let go, or replaced by a new one,
\* however often the ticker, an order or a cancel fails on the way
\* (inventoryRebalanceLoop, force market sell).
PositionsEnd == pos.age = "expired" ~> pos.age # "expired"

\* With trading_enabled=false the program leaves the order book alone
\* (.kiro/specs/systemd-config-permission-denied/bugfix.md, 3.4).
ReconcileOnlyIsPassive ==
    [][~profile.trading /\ orders' # orders => coins' # coins]_vars

-----------------------------------------------------------------------------
\* What the code does not do: this does not hold, and TLC shows why (README,
\* section 6).

\* What startup puts into the tracker is there.  A SELL that fills after the
\* balance was asked for is told to nobody.
LoadedIsHeld == phase \in {"public", "list again"} => pos.qty <= coins
=============================================================================
