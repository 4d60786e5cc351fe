------------------------------ MODULE Rebalancer ------------------------------
(***************************************************************************)
(* internal/execution/rebalancer.go for one symbol: every 30 s, and on     *)
(* RunOnce, list the pending orders and take each stale one of the bot     *)
(* through query, cancel, query and replacement.                           *)
(*                                                                         *)
(* A cycle is a record; its steps are the calls to the exchange, which     *)
(* fills and cancels orders in between and may lose any answer.  What a    *)
(* step reads is used in the same step; processMissedFill (idempotent, see *)
(* FillLedger) is part of the step that read the fill.  Ownership, ticker  *)
(* and deviation appear as the choice to keep or to process an order.      *)
(* Prices, deterministic ids and error classes are left out.               *)
(***************************************************************************)
EXTENDS Integers

CONSTANTS
    MaxOrders,      \* bound on orders: the originals and their replacements
    Originals,      \* the orders 1..Originals are open at the start
    Size,           \* lots of an original order
    Overlapping     \* TRUE: RunOnce may be called during another cycle

ASSUME RebalancerAssumption ==
    /\ MaxOrders \in Nat /\ Originals \in 0..MaxOrders
    /\ Size \in Nat \ {0}
    /\ Overlapping \in BOOLEAN

VARIABLES
    status,     \* external: status of each order at the exchange
    size,       \* external: lots of each order
    filled,     \* external: lots filled of each order
    parent,     \* history: the order a replacement was made for, or 0
    observed,   \* cumulative quantity FillProcessor has, per order
    missed,     \* history: the orders of which ObserveFill has failed once
    blocked,    \* the gate refuses risk-increasing operations
    loop,       \* the periodic loop: "off", "on" or "stopping"
    cyc,        \* the cycle of each caller
    outcome     \* the last terminal outcome of each order

exchange == <<status, size, filled, parent>>
ledger == <<observed, missed>>
vars == <<exchange, ledger, blocked, loop, cyc, outcome>>

Orders == 1..MaxOrders
Lots == 0..Size
Callers == {"loop", "once"}
Statuses == {"none", "open", "cancelled", "filled"}
Outcomes == {"replaced", "filled", "already-cancelled", "kept-by-rule", "failed-safe"}

\* todo: listed orders still to process; listed: their cumulative fill in the
\* listing; order: the order in process, lots: the replacement's.
NoCycle == [pc |-> "idle", todo |-> {}, listed |-> [o \in Orders |-> 0], order |-> 0]

Cycles == [pc : {"idle", "list", "next", "query", "cancel", "verify", "uncertain",
                 "replace", "place"},
           todo : SUBSET Orders, listed : [Orders -> Lots], order : 0..MaxOrders]

TypeOK ==
    /\ status \in [Orders -> Statuses]
    /\ size \in [Orders -> Lots]
    /\ filled \in [Orders -> Lots] /\ \A o \in Orders : filled[o] <= size[o]
    /\ parent \in [Orders -> 0..MaxOrders]
    /\ observed \in [Orders -> Lots] /\ \A o \in Orders : observed[o] <= filled[o]
    /\ missed \subseteq Orders
    /\ blocked \in BOOLEAN
    /\ loop \in {"off", "on", "stopping"}
    /\ cyc \in [Callers -> Cycles]
    /\ outcome \in [Orders -> Outcomes \cup {"none"}]

Init ==
    /\ status = [o \in Orders |-> IF o <= Originals THEN "open" ELSE "none"]
    /\ size = [o \in Orders |-> IF o <= Originals THEN Size ELSE 0]
    /\ filled = [o \in Orders |-> 0]
    /\ parent = [o \in Orders |-> 0]
    /\ observed = [o \in Orders |-> 0]
    /\ missed = {}
    /\ blocked = FALSE
    /\ loop = "off"
    /\ cyc = [c \in Callers |-> NoCycle]
    /\ outcome = [o \in Orders |-> "none"]

At(c, s) == cyc[c].pc = s
Goto(c, s) == cyc' = [cyc EXCEPT ![c].pc = s]
Current(c) == cyc[c].order

-----------------------------------------------------------------------------
\* The loop.

Start ==
    /\ loop = "off"
    /\ loop' = "on"
    /\ UNCHANGED <<exchange, ledger, blocked, cyc, outcome>>

Stop ==
    /\ loop = "on"
    /\ loop' = "stopping"
    /\ UNCHANGED <<exchange, ledger, blocked, cyc, outcome>>

\* The loop looks at stopCh between two cycles, and Stop returns.
LoopExits ==
    /\ loop = "stopping" /\ At("loop", "idle")
    /\ loop' = "off"
    /\ UNCHANGED <<exchange, ledger, blocked, cyc, outcome>>

\* A tick or a call of RunOnce; the gate must let the cycle through.
Begin(c) ==
    /\ At(c, "idle")
    /\ c = "loop" => loop # "off"
    /\ Overlapping \/ \A d \in Callers : At(d, "idle")
    /\ ~blocked
    /\ Goto(c, "list")
    /\ UNCHANGED <<exchange, ledger, blocked, loop, outcome>>

Listing ==
    [pc |-> "next", order |-> 0, todo |-> {o \in Orders : status[o] = "open"}, listed |-> filled]

\* Ticker, listing and instrument rules; any of them may fail.
List(c) ==
    /\ At(c, "list")
    /\ \E got \in {Listing, NoCycle} : cyc' = [cyc EXCEPT ![c] = got]
    /\ UNCHANGED <<exchange, ledger, blocked, loop, outcome>>

CycleEnds(c) ==
    /\ At(c, "next") /\ cyc[c].todo = {}
    /\ cyc' = [cyc EXCEPT ![c] = NoCycle]
    /\ UNCHANGED <<exchange, ledger, blocked, loop, outcome>>

\* processOrder: an order that is not the bot's, whose owner is not known or
\* that is near the price is kept.
Keep(c) ==
    /\ At(c, "next")
    /\ \E o \in cyc[c].todo :
          /\ cyc' = [cyc EXCEPT ![c].todo = @ \ {o}]
          /\ outcome' = [outcome EXCEPT ![o] = "kept-by-rule"]
    /\ UNCHANGED <<exchange, ledger, blocked, loop>>

TakeUp(c) ==
    /\ At(c, "next")
    /\ \E o \in cyc[c].todo :
          cyc' = [cyc EXCEPT ![c].todo = @ \ {o}, ![c].order = o, ![c].pc = "query"]
    /\ UNCHANGED <<exchange, ledger, blocked, loop, outcome>>

-----------------------------------------------------------------------------
\* processStaleOrder.

\* The cycle is done with its order.
Conclude(c, result) ==
    /\ outcome' = [outcome EXCEPT ![Current(c)] = result]
    /\ cyc' = [cyc EXCEPT ![c].pc = "next", ![c].order = 0]

\* failed-safe with EnterSymbolSafeStop.
FailSafe(c) == Conclude(c, "failed-safe") /\ blocked' = TRUE

\* Mutant: the fill is left to the next reconciliation.
ObserveLater(o) == UNCHANGED ledger

\* processMissedFill of what a query has returned: FillProcessor ignores what
\* is not beyond its watermark.  When it fails, nobody learns of the error.
Observe(o) ==
    \/ observed' = [observed EXCEPT ![o] = filled[o]] /\ UNCHANGED missed
    \/ observed[o] # filled[o] /\ missed' = missed \cup {o} /\ UNCHANGED observed

\* An answer is lost: the terminal state is unknown.
QueryFails(c) ==
    /\ cyc[c].pc \in {"query", "verify", "uncertain"}
    /\ FailSafe(c)
    /\ UNCHANGED <<exchange, ledger, loop>>

\* The order is found filled, by any of the three queries.
FoundFilled(c) ==
    /\ cyc[c].pc \in {"query", "verify", "uncertain"}
    /\ status[Current(c)] = "filled"
    /\ Observe(Current(c))
    /\ Conclude(c, "filled")
    /\ UNCHANGED <<exchange, blocked, loop>>

\* Mutant: the answer to the cancel request counts as the terminal state.
ConfirmedByAnswer(o) == status[o] \in {"cancelled", "open"}

Confirmed(o) == status[o] = "cancelled"

\* The order is found cancelled, before or after the cancel request.
FoundCancelled(c) ==
    /\ cyc[c].pc \in {"query", "verify"}
    /\ Confirmed(Current(c))
    /\ Observe(Current(c))
    /\ Goto(c, "replace")
    /\ UNCHANGED <<exchange, blocked, loop, outcome>>

\* Before the request the order is open: a fill the listing did not have is
\* observed.
FoundOpen(c) ==
    /\ At(c, "query")
    /\ status[Current(c)] = "open"
    /\ IF filled[Current(c)] > cyc[c].listed[Current(c)]
         THEN Observe(Current(c)) ELSE UNCHANGED ledger
    /\ Goto(c, "cancel")
    /\ UNCHANGED <<exchange, blocked, loop, outcome>>

\* CancelOrder: the request may arrive or not, and so may the answer.  An
\* acknowledged request need not have taken effect.
Cancel(c) ==
    /\ At(c, "cancel")
    /\ status' \in {status, [status EXCEPT ![Current(c)] = IF @ = "open" THEN "cancelled" ELSE @]}
    /\ \E next \in {"verify", "uncertain"} : Goto(c, next)
    /\ UNCHANGED <<size, filled, parent, ledger, blocked, loop, outcome>>

\* After the request the order is still open.
StillOpen(c) ==
    /\ cyc[c].pc \in {"verify", "uncertain"}
    /\ status[Current(c)] = "open"
    /\ FailSafe(c)
    /\ UNCHANGED <<exchange, ledger, loop>>

\* handleCancelUncertainty: cancelled after all; neither fill nor replacement.
CancelledAfterAll(c) ==
    /\ At(c, "uncertain")
    /\ status[Current(c)] = "cancelled"
    /\ Conclude(c, "already-cancelled")
    /\ UNCHANGED <<exchange, ledger, blocked, loop>>

-----------------------------------------------------------------------------
\* createReplacement.

\* oldOrder.Quantity minus the cumulative fill of the listing.
ReplacementLots(c) == size[Current(c)] - cyc[c].listed[Current(c)]

\* NormalizeOrder refuses the replacement, or the gate does.
NotReplaced(c) ==
    /\ At(c, "replace")
    /\ \/ FailSafe(c)
       \/ blocked /\ Conclude(c, "failed-safe") /\ UNCHANGED blocked
    /\ UNCHANGED <<exchange, ledger, loop>>

Authorized(c) ==
    /\ At(c, "replace")
    /\ ~blocked
    /\ Goto(c, "place")
    /\ UNCHANGED <<exchange, ledger, blocked, loop, outcome>>

\* The exchange accepts the replacement.  Bound: MaxOrders.
Accept(c) ==
    \E n \in Orders :
        /\ status[n] = "none"
        /\ \A m \in Orders : m < n => status[m] # "none"
        /\ status' = [status EXCEPT ![n] = "open"]
        /\ size' = [size EXCEPT ![n] = ReplacementLots(c)]
        /\ parent' = [parent EXCEPT ![n] = Current(c)]
        /\ UNCHANGED filled

Place(c) ==
    /\ At(c, "place")
    /\ Accept(c)
    /\ Conclude(c, "replaced")
    /\ UNCHANGED <<ledger, blocked, loop>>

\* Mutant: an error is silently passed over.
PlaceFailsSilently(c) ==
    /\ At(c, "place")
    /\ Accept(c) \/ UNCHANGED exchange
    /\ Conclude(c, "replaced")
    /\ UNCHANGED <<ledger, blocked, loop>>

\* PlaceOrder is rejected, or its answer lost after or before it was accepted.
PlaceFails(c) ==
    /\ At(c, "place")
    /\ Accept(c) \/ UNCHANGED exchange
    /\ FailSafe(c)
    /\ UNCHANGED <<ledger, loop>>

-----------------------------------------------------------------------------
\* The environment.

\* The exchange fills one more lot.
Fill(o) ==
    /\ status[o] = "open"
    /\ filled' = [filled EXCEPT ![o] = @ + 1]
    /\ status' = [status EXCEPT ![o] = IF filled[o] + 1 = size[o] THEN "filled" ELSE @]
    /\ UNCHANGED <<size, parent, ledger, blocked, loop, cyc, outcome>>

\* An order is cancelled by somebody else, or a late request takes effect.
CancelledElsewhere(o) ==
    /\ status[o] = "open"
    /\ status' = [status EXCEPT ![o] = "cancelled"]
    /\ UNCHANGED <<size, filled, parent, ledger, blocked, loop, cyc, outcome>>

\* WebSocket or reconciliation observe fills as well.
ObservedElsewhere(o) ==
    /\ observed' = [observed EXCEPT ![o] = filled[o]]
    /\ UNCHANGED <<exchange, missed, blocked, loop, cyc, outcome>>

\* Other parts close the gate, recovery opens it.
GateChanges ==
    /\ blocked' = ~blocked
    /\ UNCHANGED <<exchange, ledger, loop, cyc, outcome>>

CycleStep(c) ==
    \/ List(c) \/ CycleEnds(c) \/ Keep(c) \/ TakeUp(c)
    \/ QueryFails(c) \/ FoundFilled(c) \/ FoundCancelled(c) \/ FoundOpen(c)
    \/ Cancel(c) \/ StillOpen(c) \/ CancelledAfterAll(c)
    \/ NotReplaced(c) \/ Authorized(c) \/ Place(c) \/ PlaceFails(c)

Next ==
    \/ Start \/ Stop \/ LoopExits
    \/ \E c \in Callers : Begin(c) \/ CycleStep(c)
    \/ \E o \in Orders : Fill(o) \/ CancelledElsewhere(o) \/ ObservedElsewhere(o)
    \/ GateChanges

Spec == Init /\ [][Next]_vars

-----------------------------------------------------------------------------
\* Properties.

ReplacementsOf(o) == {n \in Orders : parent[n] = o}

\* "desired one-for-one grid occupancy" (design.md:682): an order is replaced
\* at most once, and only when it can no longer be filled, whatever answers
\* were lost on the way.
OneForOne ==
    \A o \in Orders :
        /\ ReplacementsOf(o) # {} => status[o] = "cancelled"
        /\ \A m, n \in ReplacementsOf(o) : m = n

\* "If another fill occurs during cancel, process its delta before any
\* replacement" (design.md:681): everything a replaced order has filled is in
\* FillProcessor, unless ObserveFill has failed and its error was dropped
\* (rebalancer.go:538).
Known(o) == observed[o] = filled[o] \/ o \in missed

FillBeforeReplacement ==
    \A o \in Orders : ReplacementsOf(o) # {} => Known(o)

\* The recorded outcome is what became of the order at the exchange.  Only a
\* placement whose answer was lost may have had an effect that its outcome
\* denies.
OutcomesAreTrue ==
    \A o \in Orders :
        /\ outcome[o] = "replaced" => ReplacementsOf(o) # {}
        /\ outcome[o] = "filled" => status[o] = "filled" /\ Known(o)
        /\ outcome[o] = "already-cancelled" => status[o] = "cancelled" /\ ReplacementsOf(o) = {}
        /\ outcome[o] = "kept-by-rule" => ReplacementsOf(o) = {}

-----------------------------------------------------------------------------
\* What the design says and the code does not do: this does not hold, and TLC
\* shows why (README, section 6).

\* One-for-one in lots: what a replaced order has filled and what its
\* replacement asks for are together not more than the order.
LotsAreKept ==
    \A o \in Orders, n \in Orders : parent[n] = o => filled[o] + size[n] <= size[o]
=============================================================================
