# TLA+ models of okx-hft-grid

This directory holds the formal models of the trading bot: TLA+ modules for the
parts of the code in which order of events, failures and concurrency decide
whether money is accounted for once, TLC configurations that model-check them,
and TLAPS proofs of the properties that matter most. Paths below are relative
to the repository root `src/`; `PROJECT.json` maps every definition to the lines
it stands for.

    tlc  -workers 2 -config MCFillLedger.cfg MCFillLedger.tla    # one run
    tlapm LedgerProofs.tla                                        # one proof module

## 1. The system

The bot trades a grid of limit orders on OKX. Two generations of code live in
the repository. The one `cmd/main.go` runs: two WebSocket clients, the fill
callback that answers every fill with a counter order, a loop that looks after
the inventory every 30 seconds, and the rebalancers. And the durable one of the
"production grid stabilization" design
(`.kiro/specs/production-grid-stabilization/design.md`, called *the design*
below): a private WebSocket state machine, a fill ledger with an outbox, and a
reconciliation coordinator. The trading gate belongs to both.

    what main runs                                   the durable pipeline
    exchange --> fill client --> fill callback       exchange --> state machine ----+
        |                           |  ^                 |            | closes      |
        |        market data client |  | Authorize       |            v             v
        |              |            v  |                 |          gate       fill ledger --> outbox
        |              v        inventory --- gate       |            ^             ^
        |         rebalancers    loop                    +--> coordinator ---------+
        +<---- orders, cancels ----+

### Components

| Component (code) | State | Operations | What is hard about it | What makes it correct |
|---|---|---|---|---|
| Fill ledger (`internal/persistence/fill_ledger.go`, `transaction.go`) | tables `fill_ledger`, `order_fill_watermarks`, `grid_state`, `counter_order_intents`, `order_outbox` | `ObserveFill` in one immediate transaction | the same cumulative quantity from two sources, late, repeated, under other fill ids; uncertain COMMIT | every lot booked once; exactly the eligible BUY lots countered; intent and outbox row together |
| Order outbox (`internal/persistence/outbox.go`) | leases, attempts, statuses of the outbox rows | `ClaimOutbox`, `CompleteOutbox`, `FailOutbox`, `ScheduleRetry`, `RecoverExpiredLeases` | workers that die or are slow, lost answers, lapsed leases | a live lease is respected; a closed row has the matching intent; an ended intent stays ended; no row is stranded |
| Private WebSocket state machine (`internal/marketdata/private_ws_state_machine.go`) | state, connection, liveness, per-goroutine control | `Start`, `Stop`, connection sequence, reconnect loop, reader, heartbeat, watchdog, loss handling | five kinds of goroutines; the mutex is released between marking a loss and closing gate and connection | one connector; gate open only in Ready (but for one window); Ready means subscribed; a loss ends in Ready or a safe stop |
| Trading gate (`internal/risk/safe_stop.go`) | reasons per symbol and globally, Active flag, recovery epoch, shared health | `Authorize`, Enter/Clear for symbol and global scope, `MarkReconciled`, `TryRecoverSymbol`, `UpdateSharedHealth` | long sequences of legal calls; cached flag; reasons that need a human | reasons block; symbols are isolated; recovery takes no human reason along |
| Emergency stop (`internal/risk/emergency_stop.go`) | flag, daily PnL | `EmergencyStop`, `Resume...`, `UpdatePnL` | PnL is compared under one lock and the stop is triggered under another | a breach stops trading |
| Reconciliation coordinator (`internal/execution/reconciliation_coordinator.go`, `internal/persistence/reconciliation_watermark.go`) | running/pending per symbol, trigger channel, persisted watermark | `Trigger`, `TriggerAll`, ticker, `ReconcileNow`, `runCycle`/`executeCycle`, `Start`, `Stop` | overlapping cycles, coalesced triggers, a cycle that fails half-way, fills that turn up late | one cycle per symbol; no fill behind the window; triggers served |
| Rebalancer (`internal/execution/rebalancer.go`) | loop, one cycle at a time, outcomes | `Start`, `Stop`, `RunOnce`; list, query, cancel, query, replace per order | fills between the listing and the cancellation; answers that never come; a FillProcessor that fails unnoticed | an order is replaced at most once, only when cancelled and after its fills; outcomes are true |
| Grid strategy (`internal/strategy/grid*.go`, `pkg/models/grid.go`) | range, levels with the order recorded at each, position, cooldown, drift count | `OnMarketUpdate`, drift (cancel, move, place), `HandleGridFill`, `PlaceGridOrders` | fills are handled without a lock while a drift is half done; counter orders are tried again after lost answers | range and levels belong together; a flag stands for an order; kept orders are kept; the range follows the price |
| Scheduler (`internal/strategy/scheduler.go`) | strategy instances and their states | load, start, stop, stop all, dispatch of a market update | stop against a running tick | a stopped strategy places nothing |
| Main loop (`cmd/main.go`, `internal/execution/inventory_tracker.go`, `momentum_filter.go`, `fill_handler.go`) | startup phase, tracked position, price history, the loop's local variables | startup, cleanup, fill callback, `inventoryRebalanceLoop`, shutdown, crash and restart | callback, loop, rebalancer and exchange interleave at every request; answers are ignored | what is tracked is held; trading starts on a clean book; orders of the owner survive; no position is held for ever |
| Market data clients (`internal/marketdata/ws_client.go`, `ws_private.go`) | connection, state, reconnect token, stale flags | `Connect`, `Disconnect`, `readLoop`, `heartbeatLoop`, `handleDisconnection`, `reconnectLoop` | readers and heartbeats of several connections at once, late reports about old ones | a working connection is read; a dead one is noticed; recovery and `Disconnect` end |
| Dispatcher and event loop (`internal/marketdata/dispatcher.go`, `internal/integration/event_loop.go`) | two bounded queues, handler list, lifecycle | dispatch, register, unregister, deliver, drain, `onFill`, `handleFill` | full channels; a handler list that changes during a delivery | every fill is accounted for once; what was taken is delivered |
| Order manager, reconciler (`internal/execution/order_manager.go`, `reconciler.go`) | orders by client id | status updates, snapshot comparison | updates out of order | an order never leaves a final state; filled quantity is monotone |
| Order book (`internal/orderbook`) | bids, asks, sequence numbers | snapshot, delta, checksum | gaps | a book is used only when gapless |
| Pure algorithms (`instrument_rules.go`, `ratelimiter`, `ring_buffer.go`, `risk_manager.go`, `extreme_market.go`) | counters, windows | rounding, windows, limits | boundaries, overflow, zero | bounds and monotonicity |
| Migration and store (`migration.go`, `store.go`) | schema version, backups | migrate step by step | a crash between two steps | restarting finishes the migration |
| Mean reversion (`internal/strategy/mean_reversion*.go`) | signals | evaluate | - (startup refuses to load it) | - |
| Exchange client (`exchange_gateway.go`, `api_client.go`) | none | HTTP requests, signing, parsing | answers that get lost | - |
| Parser, configuration, monitoring, backtest | none / start-up only / counters / offline | - | - | - |

`cmd/main.go` at this commit wires the gate and the rebalancers, and still uses
the legacy fill client in place of the state machine, the ledger and the
coordinator; nothing calls `TryRecoverSymbol`, the `RequireHuman` entries or the
outbox operations yet, and nobody dispatches a fill or registers a handler with
the dispatcher. Those models are of the parts as written, with their callers
external.

### How the modelled parts meet

* Both the state machine and the reconciliation end in `ObserveFill`.
  `FillLedger` lets any quantity an order passed through be observed at any
  time, in any order, any number of times; that is all the two sources may do.
* `Outbox` EXTENDS `FillLedger`: its rows are the ones the ledger inserts, and
  its settlements write the ledger's intents.
* `ReconcileCoordinator` uses from the ledger only that an observation is
  idempotent, which is what `EveryLotBookedOnce` and `ImplementsCoverage` say.
* `Rebalancer` uses the same promise of the ledger: it reports what its queries
  return as often as it likes. It asks the gate before a cycle and before every
  replacement, and closes it for its symbol when an answer is missing.
* `PrivateWS` knows the gate as the callback it tells; `TradingGate` receives
  that as shared health and as global reasons.
* `TradingLoop` composes startup, fill callback, inventory loop and exchange,
  and keeps of the other modules what it can see of them: of `TradingGate` one
  bit that READY opens and a failing rebalancer closes; of `Rebalancer` that it
  takes owned orders off the book; of `WSClients` that the link breaks, returns
  and loses what it did not deliver.
* `GridStrategy` composes scheduler, drift engine, fill handling and exchange.
  In production its order engine is nil, so that no drift reaches the exchange;
  the module is of the engine as its tests and the design use it.

## 2. Modules

| Module | Models | Runs | Proofs |
|---|---|---|---|
| `CounterCoverage` | what the fill pipeline promises (abstract) | through `ledger` | refinement |
| `FillLedger` | `ObserveFill` | `ledger` | `LedgerProofs` |
| `Outbox` | leases and settlements on top of `FillLedger` | `outbox` | `LedgerProofs` |
| `PrivateWS` | the WebSocket state machine | `ws` | `GateProofs` |
| `TradingGate` | the gate and the emergency flag | `gate` | `GateProofs` |
| `ReconcileCoordinator` | the coordinator and its watermarks | `reconcile` | `ReconcileProofs` |
| `Rebalancer` | cancel-and-replace of stale orders | `rebalance` | `RebalancerProofs` |
| `WSClients` | the market data client and the fill client main uses | `wsclients` | `MarketDataProofs` |
| `GridStrategy` | scheduler, drift, levels and fills of a grid | `grid`, `grid_levels` | `GridStrategyProofs` |
| `TradingLoop` | main for one symbol: startup, fills, inventory, restart | `trading`, `trading_passive` | `TradingLoopProofs` |
| `EventPipeline` | a fill through dispatcher and event loop | `pipeline` | `MarketDataProofs` |
| `Sums` | sums over finite sets, for the proofs about lots | - | `LedgerProofs`, `TradingLoopProofs` |

Each `MC*` module gives the constants of its component small values for TLC. An
operator with the comment *Mutant* is a plausible error in the definition that
follows it; a run that uses it in place of that definition violates the property
named in `PROJECT.json`, which shows that the property depends on that code.

### FillLedger

A variable per table. `ObserveFill(obs, eligible)` is the whole transaction: the
comparison with the watermark, the duplicate key, the ledger row, the watermark,
the position with its clamp at zero, and the intent with its outbox entry. A
rollback, and a COMMIT that did not happen, are stuttering steps. A COMMIT that
happened and was reported as uncertain is an `ObserveFill` whose caller tries
again, and trying again is always possible. `eligible` is the decision of the
plan, which the code stores with the row. Quantities are whole lots; prices,
fees and PnL are left out because no decision here reads them.

`CounterCoverage` says the same without a database: units are settled once, and
the settled units of a BUY get a counter order all together or not at all.
The refinement reads off `settled` and `countered` from the ledger rows.

### Outbox

The store's mutex and the transaction make every operation one step. Time is
relative: a lease is none, live or lapsed; a row is due or not. The workers are
external (the repository has no dispatch loop): they claim, send, and report
what they learned, may die at any point, and may not learn the answer. Nothing
ties a worker to its lease of 10 s (`OutboxLeaseTimeout`, against 30 s for one
HTTP request): a lease may lapse at any moment, the row may be claimed by another
worker, and the first one reports all the same, because the reporting UPDATEs
test neither status nor owner nor lease.
`ClaimOutbox` with `told = FALSE` is a claim whose COMMIT happened and was
reported as uncertain.

### PrivateWS

One variable per field the decisions read, and a program counter per goroutine.
Connector 0 is the caller of `Start`, connector i the i-th reconnect loop; the
*sentries* are the readers (one per successful connector), the heartbeat and
the watchdog. Every stretch of code under one lock, and every blocking call, is
a step: in particular `handleConnectionLoss` is `MarkUnhealthy` (under the
mutex) and `CloseAndReconnect` (after it), and an attempt that succeeds is
Ready, opens the gate, spawns the reader, returns, and only then has its context
cancelled; between Ready and the open gate (lines 914 and 915) any ticker may fire
and any loss be marked.

### TradingGate

Every method holds the mutex and is one action. Callers choose codes, health
snapshots and epochs freely, within what they can know (an epoch is a cycle that
has completed), and enter any code with or without `RequiresHuman`. Three history
variables serve properties: `cycle` and `since` the refuted `RecoveryIsFresh`,
`confirmed` (the codes a human has confirmed) `HumanReasonsDoNotVanish`.

### ReconcileCoordinator

The loop (ticker and trigger channel), and per symbol up to two cycles, each a
record with its own program counter; the steps of a cycle are the calls that may
fail. A crash loses everything but `observed` and the watermark. The
exchange makes fills visible, possibly older than ones already visible by at most
`Lateness`. The pages of one listing are one step, as they use one window.

### Rebalancer

A cycle is a record with a program counter between the calls to the exchange:
listing, query, cancel, second query, authorization, placement. What a query
returns is used in the step that reads it, because nothing the code does before
its next call depends on the exchange any more; what the listing returned is
kept in the cycle, because the code uses it again many calls later. The exchange
fills lot by lot and cancels on its own between any two steps, and each request
and each answer can be lost separately. `processMissedFill` may fail; the error
is dropped, and the history variable `missed` remembers that it happened.
Ownership, ticker age and the 2 % deviation are the choice between `Keep` and
`TakeUp`.

### WSClients

The two clients share one design, so one module models both; `kind` says which
one runs. Readers and heartbeats are numbered like the connection they were
started for, and several may live at once: a reader that sleeps between two
reads wakes up on whatever connection is current then, and a heartbeat skips its
turn while the client is not connected, so it outlives its connection.
`handleDisconnection` is three steps (`MarkLoss`, `PauseOrders`,
`QueueReconnect`), the reconnect loop six. The test `conn # nil` and the read
that follows are two steps, as no lock joins them; `crashed` keeps what happens
when the connection is closed in between.

### GridStrategy

A tick is `Tick` (decide, list the stale orders), one `CancelSucceeds` or
`CancelFails` per order, `CancelPhaseEnds` (abort, or move range and levels),
`PlacePhase` and `Signal`; the read lock the tick holds is the guard of start
and stop. `HandleGridFill` takes no lock and may come between any two of these,
with the level index its order was placed with. `HandleGridFillWithRetry` first
does that and then tries to place the counter order up to `MaxRetries` times, each
try a `TryCounter`: the order may be refused, placed and answered, placed with
the answer lost (and tried again), or placed twice by the resend of a 5xx inside
one try. A signal places an order that belongs to no level. Prices are whole
ticks on an arithmetic grid, orders are one lot. Two history variables keep what
the code does not know: `unheard` (cancellations that took effect although they
were taken to have failed) and `manual` (flags a result for manual intervention
was given about).

### TradingLoop

Startup is a sequence of phases, in which `loadExistingPositions` asks for the
balance (`LoadBalance`) and then for the price, and records what it was told first
(`LoadPosition`); the loop is a sequence of calls: ticker, listing, one cancel per
order, placement, market order, `ClearPosition`. What the code keeps in local
variables through a cycle is `job`, in particular the copy of the position. The fill
callback is two steps, so that the loop may run between what it records and what it
places. A price is only compared, so a ticker is the outcome of these comparisons.
Lots move between open orders and the balance; what an open SELL has frozen cannot
be sold again. The history variable `missed` says that a SELL fill was not reported
since the lots of the position were counted.

### EventPipeline

`deliverFillEvent` copies the slice of handlers and calls them without the lock;
the copy shares its array with the slice, so that a `Register` within capacity
and an `Unregister` write into what the delivery reads. The module keeps the
array and what a delivery under way sees of it. The history variable `moved`
holds the fills under whose delivery an `Unregister` wrote into that array.

## 3. Runs

| Run | Instance | Shows |
|---|---|---|
| `ledger` | 2 BUY and 1 SELL order, 2 fill ids, 2 lots each | tiling of the lots, counters, position bounds, and the refinement of `CounterCoverage` |
| `outbox` | 1 order of 2 lots, 2 workers, 2 retries, 2 crashes | live leases are respected, closed rows agree with their intents, ended intents stay ended, no row is stranded |
| `ws` | 2 subscriptions, 3 connections, 2 attempts per episode | the one way a gate is left open, single connector, subscription, the design's state diagram; recovery and Stop terminate |
| `gate` | 2 symbols, 2 codes (shared, local), each with and without a human | reasons block, isolation, human reasons; no deadlock |
| `reconcile` | 1 symbol, 3 fills, overlap 1, one failing call, one crash, one `ReconcileNow` | single cycle, window, triggers served |
| `rebalance` | 1 order of 2 lots, 2 replacements | one-for-one, fills first, true outcomes; no deadlock |
| `wsclients` | both clients, 2 connections, 2 attempts | a working connection is read, a loss is noticed, recovery and `Disconnect` end |
| `grid` | 2 intervals of 2 ticks, 3 prices, 2 drifts, 4 orders, 2 tries | levels follow the range, flags stand for orders, quiet after stop, kept orders; the range follows the price |
| `trading` | 3 orders, 2 lots, 2 events in transit, single and multi-level grid, trading on and off | tracked positions are held, clean start, manual orders; positions end |
| `pipeline` | 3 fills, queues of 2 and 1, 3 handlers | every fill accounted for once, what was taken is delivered, also while handlers leave |
| `grid_levels`, `trading_passive` | as `grid`, `trading` | the code departs from its documentation, see section 6 |

**Bounds.** `MaxQty = 2` lets an order be partially filled, observed late and skipped
over (cum 2 before cum 1). Two BUYs and a SELL on one symbol exercise the clamp from
both sides. Two workers are enough for any conflict over a lease, the slow one and the
one that comes after it, and two crashes let the second worker die as well. Three dials
let a loss be detected, recovered from, and detected again on a connection whose
heartbeat and watchdog are gone. Three fills with overlap 1 give one fill at the
watermark, one inside the window and one outside. Two symbols are enough for isolation.
One code belongs to a shared dependency, one does not, and callers may enter either with
or without `RequiresHuman`. `MaxEpoch = 1` distinguishes a cycle before the failure from
one after it. `QueueCap = 2` has a trigger wait behind another. In `rebalance`, two lots
allow a partial fill at every point of a cycle, and three orders a replacement of a
replacement. The symbols of the coordinator share nothing but the queue, so its run has
one. In `wsclients`, two connections give an old reader and an old heartbeat beside new
ones, and two attempts a failing attempt before one that succeeds and a client that
gives up (72 000 states). In `grid`, the three prices lie inside the range, outside it
and beyond the emergency override; two drifts go up and down again or twice one way;
four orders are the initial two and two placed by a signal, a counter order or its
repetition; two tries are one whose answer is lost and one after it (1.55 million
states). In `trading`, three orders hold one placed by hand, one of an earlier run or of
the program, and one more; two lots are a partial fill and the rest, or two positions;
`Points = 2` has a filter that is warming up, falling or neither (771 000 states). In
`pipeline`, both queues can be full, and two handlers beside the loop make the array
grow, shift and be reused (582 000 states).

**Assumptions about scheduling and callers.** The first three are constants, so that
they can be switched off; the others are guards, named in their comments.

* `Prompt` (PrivateWS): the shortest backoff, one second, is longer than the few
  statements other goroutines need to leave a closed connection, a message handler
  or `handleConnectionLoss`, and than the way from Ready to the open gate. Only
  the backoff timer is held back; the 1 s and 20 s tickers fire at any time. With
  `Prompt = FALSE` TLC finds a slow sentry that reports the old loss into the new
  handshake. The types are proved without it, the other theorems about the machine
  with it.
* `QuietStop` (PrivateWS): `Stop` is called while nobody is connecting; without
  it a handshake in progress leaves Disconnected after `Stop` has returned. Only
  `ReadyMeansSubscribed` needs it.
* `Overlapping = FALSE` (Rebalancer): `RunOnce` takes no lock, contrary to the
  comment on the type ("non-overlapping per-symbol lock"). Nothing in production
  calls it; with `Overlapping = TRUE` TLC finds two cycles that replace the same
  order. That a replaced order's fills are known (`FillsComeFirst`) is proved for
  overlapping cycles too.
* One owner calls `Start` and `Stop` of the rebalancer in turn, as `main.go` does.
* `Lateness <= Overlap` (ReconcileCoordinator): the overlap covers how late the
  exchange reports, which is what the overlap window is for.
* `CarriesCumulative = TRUE` (the run of ReconcileCoordinator): fill records carry
  a cumulative quantity. Those of the one gateway in the repository do not, and
  then every cycle ends at its first fill (section 6); the run is of the
  coordinator with records it can use. The proofs hold for both values.
* `Dial` (WSClients): a reader that has tested `conn` has made its read before a
  backoff of a second ends.

**Exemptions inside properties.** `RangeFollows` exempts the state `Hopeless`, in which
the levels to be left only remember orders that are filled: the code does not get away
from there (section 6). `PositionIsHeld` exempts a position whose SELL fill was not
reported, as the tracker cannot know; `PositionsEnd` bounds how long such a position
lives. `FlagsHaveOrders` exempts flags for which a result asked for manual intervention,
and orders whose cancellation took effect although it was taken to have failed.
`OnlyALateOpenerStrays` says where the gate is left open, not that it never is.
`EveryFillOnce` and `TakenIsDelivered` exempt the fills under whose delivery an
`Unregister` moved handlers (`moved`). The liveness properties of `WSClients` exempt the
nil dereference.

**Fairness.** What the code runs by itself: every call of a handshake has a timeout and
goroutines are scheduled (PrivateWS, WSClients, EventPipeline); calls return within
their 25 s context and the loop reads its channels (ReconcileCoordinator); ticks come
and run to their end (GridStrategy); startup and loop get on and time passes
(TradingLoop). The ticker of the coordinator is not fair: `TriggersAreServed` must hold
without its help. Nothing is assumed of the outbox, as nothing in `src/` schedules
claims or the recovery scan; its properties are safety properties. Two assumptions are
strong, about what is tried over and over: that a live order can be cancelled some time
(`CancelSucceeds`), and that a ticker is got some time (`TickerOK`). No fairness forces
a call by the user, a message, a failure, the market, or an answer of the exchange that
was not asked for.

**Deadlock** is checked for the gate and the rebalancer, whose callers can always
call. The other systems may stop: all lots executed and settled, all connections
used up, the coordinator stopped, all fills handled.

## 4. Properties

* `EveryLotBookedOnce` - the ledger rows of an order tile `1..watermark`.
* `CountersMatchLedger` - intents, outbox rows and eligible BUY rows correspond one to one, quantities included.
* `PositionBounds` - the clamp only forgets SELL lots. It does not say that the lots it keeps are still there.
* `LeaseIsRespected` - neither a claim nor the recovery scan takes a live lease away from its owner, whoever else still works on the row from an earlier lease.
* `ClosedRowsAgree`, `IntentsStayEnded` - whatever reports arrive late, a closed row has the matching intent and an ended intent is never pending again. The converse fails: a late retry reopens the row of an ended intent.
* `NoRowIsStranded` - the conditions of claim and recovery fit together: some time after a crash, an uncertain COMMIT or a late report each open row can be claimed.
* `OnlyALateOpenerStrays` - the gate comes to be open outside Ready, with no sentry on its way to close it, in one way only: a loss is marked between `transition(Ready)` and `openRiskGate`.
* `OneReconnectLoop`, `ReadyIsSubscribed`, `FollowsDiagram`, `RecoveryTerminates`, `StopTerminates`.
* `ReasonsBlock` - the cached Active flag never hides a reason. `LocalFailuresStayLocal`. `HumanReasonsDoNotVanish` - no clear and no recovery removes a reason a human has to confirm; it can only be overwritten, or deleted by a health report.
* `OneCyclePerSymbol` - also across Stop, Start and crashes.
* `NoFillLeftBehind` - a visible fill that was not observed is inside the next window. `TriggersAreServed` - no trigger is lost between the look at `pendingTrigger` and the reset of `running`.
* `OneForOne` - an order has at most one replacement, and only once it can no longer be filled, whatever answers were lost.
* `FillBeforeReplacement` - what a replaced order has filled is in FillProcessor, unless FillProcessor has failed.
* `OutcomesAreTrue` - the recorded outcome is what became of the order at the exchange. Only `failed-safe` says nothing.
* `ConnectedIsRead` - late reports about an old connection, orphaned heartbeats and sleeping readers never leave a working connection unread.
* `LossIsNoticed`, `RecoveryEnds`, `DisconnectReturns` - also when a reader ended without a report, when several goroutines report at once, and when `Disconnect` meets an attempt.
* `LevelsMatchRange` - through drifts that end early and fills in between.
* `FlagsHaveOrders` - a flag of a level stands for an order, a fill not handled yet or a counter order being tried, through aborted and partial drifts, retries and stale indices.
* `StoppedIsQuiet` - no signal of a stopped strategy becomes an order. `KeptOrdersStay` - a drift cancels only what leaves the range. `RangeFollows` - an active strategy does not stay outside of its range.
* `PositionIsHeld` - the tracked quantity is on the account, whatever callback, loop and exchange do in between.
* `CleanStart` - between the startup cleanup and the first order no order with the program's client order id is open, unless a listing or a cancel failed.
* `ManualOrdersKept` - an order without the program's client order id is never cancelled by it.
* `PositionsEnd` - a position of twelve hours is let go or replaced, however many calls fail. Forgetting it after a refused market SELL counts as letting go.
* `EveryFillOnce` - a fill is refused, dropped, on its way or handled: one of these, once. `TakenIsDelivered` - what the dispatcher took reaches every handler that stays, through Stop.

The type invariants of the modules are part of the inductive invariants of
section 5; they have no run of their own.

## 5. Proofs

TLAPS proves, for every value of the constants that satisfies the named
assumptions (types of the constants, `Lateness <= Overlap`, and
`~Overlapping`, `Prompt`, `QuietStop` where a theorem says so):

| Theorem | Inductive invariant and why it is needed |
|---|---|
| `LedgerTypeCorrect`, `LotsBookedOnce`, `CountersCorrect` | `TypeOK`, the tiling, and the correspondence of rows with intents. The tiling gives that a new row's key cannot already have an intent: its units lie above the watermark, those of every older row at or below it. |
| `PositionIsBounded` | inductive with the types alone: an observation adds its delta to one watermark, hence to exactly one of the two sums of the symbol (lemmas of `Sums`), and to the position it adds the same delta, or takes at most as much away |
| `LedgerImplementsCoverage` | the tiling and the correspondence; an `ObserveFill` books exactly the units above the watermark, so it maps to `Settle`, and `Execute` to `Fill` |
| `OutcomesAgree`, `RowsAreNotStranded`, `LeasesAreRespected`, `EndedIntentsStay` | `OutboxInv`: the ledger's invariant, `ClosedRowsAgree`, that an idle worker knows nothing, and that a leased row has a lease that runs out. No assumption on time is made: a late report is a step like any other, and `ClosedRowsAgree` survives it because every report writes both tables or leaves the row open. |
| `LedgerSurvivesDispatch`, `OutboxImplementsCoverage` | `LedgerInv`, the ledger's invariants read through the outbox's steps. Whatever workers do with rows and leases, they write to an intent nothing but its status, so that the promise of `CounterCoverage` also holds of the ledger with its outbox. |
| `WSTypeCorrect`, `OneGoroutineConnects`, `GateStraysOnlyLate`, `ReadyMeansSubscribed`, `ReadyUntilStop`, `DiagramIsFollowed` | The types and the budget of a session (`TypeInv`) are inductive without any assumption. The others need `Conduct`: the state is that of the one connector at work; no sentry is about to report a loss during a handshake (this is where `Prompt` is used); between its two critical sections a sentry has the machine to itself; only the current connection can be open; what a handshake has achieved so far. `Stop` may break it, and `Stopped` says what holds from then on: a handshake still under way is the only one and finds nobody to disturb it, or nobody connects and no loss is new. `StopInv` is `TypeInv` with one of the two; `ReadyMeansSubscribed` needs `Conduct` throughout, hence `QuietStop`. The theorems are about `Safety`, which is `Spec` without its fairness. |
| `GateTypeCorrect`, `ReasonsAlwaysBlock`, `SymbolsAreIsolated`, `HumansAreAsked` | `GateInv`: types, and the Active flag is set exactly when there are reasons. `HumansAreAsked` needs little more than the types: it goes through every method, with a recovery that may clear several reasons at once. |
| `ReconcileTypeCorrect`, `CyclesDoNotOverlap`, `FillsStayInWindow` | `ReconcileInv`: types, one cycle per symbol, the watermark is the time of a visible fill, and what each step of a cycle still owes: before the watermark moves, every unobserved fill is either on the cycle's list or younger than its top minus the overlap. A fill that appears while the cycle runs is covered by `Lateness <= Overlap`. |
| `TypesHold`, `ReplacementsAreOneForOne`, `FillsComeFirst`, `OutcomesHold` | `CommonInv`, which any number of overlapping cycles keep: a listed order existed and had lots left, an open order has lots left, and a replaced order is cancelled with its fills reported. This gives `TypesHold` and `FillsComeFirst`. `RebalancerInv` adds, for the other two, that only one cycle is in flight (`~Overlapping`), so that nobody else can replace what a cycle has listed and not concluded. |
| `LevelsFollowRange`, `StoppedStaysQuiet`, `KeptOrdersAreKept`, `GridTypeCorrect` | `GridInv`: types, the levels match the range, a drift in progress still has the range it started from, its list holds recorded orders at prices that leave, and only an active strategy has a tick in progress |
| `FlagsStandForOrders` | `FlagInv`: every flag is accounted for, no counter order is being tried unless tries are left, and what was cancelled unheard is cancelled. A flag loses its order in four ways (filled, cancelled in a drift, tries used up, cancelled unheard), and each leaves what the property names; a drift whose orders are gone replaces all levels (lemma `NoTargets`: it places none). |
| `LoopInvariant`, `StartIsClean`, `ManualOrdersAreKept` | `LoopInv`: what a cleanup or the loop is about to cancel belongs to the program as long as it is open, however long ago it was listed; a cleanup without failures has every owned order before it; callback and loop rest until they are started. A step by lemma does one of five things to the orders (`OrdersGo`), so each action needs only to say which. |
| `PositionsAreHeld`, `SellOrdersAreCovered` | `HeldInv`, on top of `LoopInv`: the open SELL orders ask for no more than the coins (a sum over the orders, so that the balance stays a natural number when several of them are executed); what a BUY event says is covered unless a SELL event follows it; nothing is under way while the link is down. Each is needed for the next: a SELL that is executed leaves an event, and that event is what excuses the tracked position until the loop clears it. The balance a startup was told is covered in the same way until it is recorded. |
| `WorkingConnectionsAreRead`, `LossesHaveOneOwner`, `ClientTypeCorrect` | `ClientInv`: until Disconnect, a loss is with one goroutine that marked it, or in the token, or with the attempt; a Connected client has none of these and its latest connection, so that a report about an older connection can neither close a new one unnoticed nor start a second attempt; and the reader started for the latest connection attends to it as long as it works |
| `PipelineTypeCorrect`, `FillsArriveOnce`, `FillsAreHandledInOrder` | `PipelineInv`: what the event loop has heard of is older than the fill under way, which is older than what waits, equality allowed for a fill in `moved`; the handlers before a delivery are different ones and stay the same ones while `append` writes behind them or into a copy (lemma `AddKeeps`) and no `Unregister` writes among them; what the event loop has heard of is the disjoint union of what waits, was handled and was dropped |
| `NoNilIsCalled` | `PlacesAreTaken`: the places a delivery may read hold handlers, because an `Unregister` moves handlers into such places and leaves the last one behind |

Each proof has one lemma per action and a temporal step at the end. Three modules
serve two components each, which meet in the code: `LedgerProofs` (the outbox
extends the ledger), `GateProofs` (the state machine opens and closes the gate)
and `MarketDataProofs` (clients and pipeline are the way of a fill).

`Sums` shows what a sum over a finite set does when an element changes. The
library's induction theorems take an operator as a parameter, which the installed
provers cannot instantiate. The induction here is over the subsets of one set,
with the hypothesis a set of them (`SubsetInduction`), and rests on the least
element of a set of natural numbers; that is enough for sums, whose definition is
a recursive function over these subsets.

Every invariant and every action property of the passing runs is proved. Model-checked
only are the liveness properties (`RecoveryTerminates`, `StopTerminates`,
`TriggersAreServed`, `LossIsNoticed`, `RecoveryEnds`, `DisconnectReturns`,
`RangeFollows`, `PositionsEnd`, `TakenIsDelivered`), because the prover covers neither
fairness nor ENABLED, and the two divergences of section 6 that a run shows.

## 6. Divergences between code and documentation

Met while modelling. Two are runs with a counterexample:

* `grid_levels`: a drift stores the new levels before it looks for the ones that
  are new, so none is, and a drift cancels orders without placing any.
* `trading_passive`: with `trading_enabled=false` the fill callback, the inventory
  loop and the cleanup still place and cancel orders.

The following are stated as formulas at the end of their module; TLC refutes each
when it is added to the run of that module:

* `LeaseIsExclusive`, `SettledForGood` (Outbox): a request may take 30 s and is
  retried, a lease lasts 10 s; a second worker then claims the row of a slow one.
  The late report of the first has no condition: a `ScheduleRetry` reopens a
  settled row, a `FailOutbox` overwrites a completed one.
* `GateMeansReady` (PrivateWS): a loss that is marked after `transition(Ready)`, whose
  callback runs without the lock, and before `openRiskGate` closes the gate first;
  then it is opened, and stays open while nobody is connected.
* `ReadyIsRead` (PrivateWS): the reader of a reconnection gets the context of the
  attempt, which is cancelled when the attempt returns; the machine is Ready and
  nobody reads.
* `LossDetected` (PrivateWS): heartbeat and watchdog end with the first loss they
  report and only `Start` spawns them, so after that a silent peer goes unnoticed.
* `HumanReasonsStay` (TradingGate): an entry without `RequiresHuman` under the same
  code replaces a reason that requires a human, and a recovery clears it then; a
  report of health deletes a global one without asking.
* `RecoveryIsFresh` (TradingGate): no failure raises a symbol's recovery epoch, so
  an epoch from before it counts as fresh.
* `PendingIsServed` (ReconcileCoordinator): a trigger coalesced into `ReconcileNow`
  is not started when it ends.
* `EveryFillObserved` with `CarriesCumulative = FALSE` (ReconcileCoordinator): the
  fill records of `OKXGateway.ListFills` have no cumulative quantity, and an
  observation without one is invalid.
* `LotsAreKept` (Rebalancer): a replacement asks for the lots the *listing* left
  over, so lots filled between the listing and the cancellation are ordered once
  more.
* `ExposureBounded` (GridStrategy): a counter BUY whose answer was lost is placed
  again, and signals buy without a look at the position, so that position and open
  BUY orders exceed `MaxPosition`.
* `LoadedIsHeld` (TradingLoop): a SELL left by an earlier run that is filled between the
  request for the balance and `RecordBuy`, or before the callback is set, is told to
  nobody: the tracker starts with a position that is not there.
* `DownMeansPaused` (WSClients): `onReconnectSuccess` sets the state under the mutex
  and clears the stale flags after it; a loss reported in between has its marks
  undone, and the client is down with orders resumed.

Smaller ones, visible in the modules:

* *State machine*: `Stop` leaves the risk gate open and does not join a handshake
  in progress; a failing `Start` leaves the machine in Backoff with nobody to
  retry.
* *Gate, coordinator, outbox*: `ClearGlobalReason` does not look at health; the
  coordinator's `Stop` does not wait for cycles; the comment on `ScheduleRetry`
  promises a leased row, the UPDATE takes any; nothing in `src/` calls
  `RecoverExpiredLeases` or polls for claims.
* *Rebalancer*: drops the errors of `ObserveFill` and of the outcome store; after
  an unanswered cancel request it neither observes the fills of a cancelled order
  nor replaces it; `main.go` creates it with a nil `FillObserver`, which
  `processMissedFill` calls without a test.
* *Clients*: a reader that wakes up late reads beside the new one; heartbeats of
  earlier connections accumulate; the test of `conn` and its use are not joined,
  so a close in between is a nil dereference; `Disconnect` of a fill client that
  is reconnecting returns without ending its goroutines, as does that of a market
  data client that gave up; a dial that finishes after `Disconnect` leaves its
  connection open; a fill client that gave up is never retried.
* *Grid*: fills take no lock (`design.md:60` promises one) and use the level index
  of the time the order was placed, so after a drift a counter BUY may sit at or
  above its SELL; the ids of counter orders are never recorded, so no drift cancels
  them; a filled order's id stays recorded, its cancellation fails and aborts every
  further drift (`Hopeless`); the flag of a level stays set when its counter order
  failed, or when its order was cancelled by a call whose answer was lost; a range clamped
  at `MinTick` uses up drifts without moving; strategies that are only loaded survive
  `StopAll`; `LoadStrategy` passes no grid state, so the first drift in production
  dereferences nil.
* *Main loop*: fills before the callback is set are lost, and a SELL fill while the
  gate is shut leaves a phantom position; a failing rebalancer shuts the gate and
  nothing opens it again; a failed `ListPendingOrders` is taken for an empty list and
  a second BUY is placed; `ClearPosition` after a market SELL races the callback
  and leads to two BUYs; the market SELL of a hard stop asks for lots the bot's own SELL
  has frozen, the refusal is ignored and the position is forgotten; its fill triggers
  a counter BUY; the loop's copy of the position may cancel a fresh SELL and sell the
  old quantity; a partial SELL clears the whole position and a partial BUY replaces
  it; fills of orders placed by hand are countered; the initial grid carries no client
  order id, so no cleanup finds it and a restart places it again; the loop is not stopped by
  the shutdown, and `IsInventoryFull` at `main.go:738` is unreachable except through a race.
* *Event pipeline*: an `Unregister` during a delivery has a handler skipped or called
  twice; `EventLoop.Stop` does not drain; a fill that is dispatched after
  the drain is accepted and lost.

## 7. Not modelled

* Order manager and reconciler (whose querier returns nothing in production), order
  book, pure algorithms and migration: see the plan.
* Parser and market data engine: a conversion and interfaces. Mean reversion: startup
  refuses a configuration that enables it.
* Exchange client, configuration, monitoring and the backtest: I/O, sequential
  start-up validation, counters nobody reads back, an offline program. The exchange
  client's outcomes appear in `TradingLoop` and `GridStrategy`.
* Inside the modelled parts: prices beyond their comparisons, fees, PnL, message text,
  log lines, metrics, fields that are only reported (`epoch`, `reconnectCount`,
  `confirmedSubs`, `globalRecoveryEpoch`, `knownPositions`), the statistics of a
  cycle, geometric grids, subscriptions to single channels, profiles other than cash,
  the order-signal path of the event loop.

## 8. Plan

In the order of what goes wrong most expensively:

1. *(done)* `CounterCoverage`, `FillLedger`, `Outbox` and their proofs.
2. *(done)* `PrivateWS` and its proofs.
3. *(done)* `TradingGate` and its proofs.
4. *(done)* `ReconcileCoordinator` and its proofs.
5. *(done)* `Rebalancer` and its proofs.
6. *(done)* `GridStrategy` and its proofs.
7. *(done)* `TradingLoop` and its proofs.
8. *(done)* `WSClients` and `EventPipeline` and their proofs.
9. `OrderLife`: order manager and reconciler. To prove: final states are final,
   filled quantity is monotone.
10. `Algorithms`: instrument rules, token bucket, ring buffer, order book and risk
    limits against reference definitions; migration with a crash at every step.

The runs stay within what one machine checks in a few minutes; each component has
one passing run.
