----------------------------- MODULE FillLedger -----------------------------
(***************************************************************************)
(* internal/persistence/fill_ledger.go: ObserveFill, the single immediate  *)
(* SQLite transaction that turns one observation of a fill into a ledger   *)
(* row, a new cumulative watermark, a new grid position and, for an        *)
(* eligible BUY, a counter SELL intent with its outbox entry.              *)
(*                                                                         *)
(* Observations come from the private WebSocket, from REST reconciliation  *)
(* and from replays: any cumulative quantity an order has passed through   *)
(* can be observed any number of times, in any order, and under different  *)
(* exchange fill ids.  A transaction that is rolled back, and a COMMIT     *)
(* that fails without having been applied (transaction.go), leave the      *)
(* database as it was: they are stuttering steps.  A COMMIT reported as    *)
(* uncertain that was applied is an ObserveFill whose caller will observe  *)
(* the same fill again.                                                    *)
(*                                                                         *)
(* Quantities are whole lots.  Prices, fees and PnL are left out.          *)
(***************************************************************************)
EXTENDS Naturals, FiniteSets, FiniteSetsExt

CONSTANTS
    Orders,     \* exchange order ids
    FillIds,    \* exchange fill ids
    Symbols,
    SymbolOf,   \* the symbol of an order
    SideOf,     \* the side of an order, "buy" or "sell"
    MaxQty      \* bound on the lots an order executes

ASSUME FillLedgerAssumption ==
    /\ IsFiniteSet(Orders)
    /\ SymbolOf \in [Orders -> Symbols]
    /\ SideOf \in [Orders -> {"buy", "sell"}]
    /\ MaxQty \in Nat

VARIABLES
    executed,   \* external: cumulative executed lots at the exchange
    ledger,     \* fill_ledger rows
    watermark,  \* order_fill_watermarks.processed_cumulative_qty
    position,   \* grid_state.position
    intents,    \* counter_order_intents rows, by fill key
    outbox      \* order_outbox rows, by the fill key of their intent

ledgerVars == <<executed, ledger, watermark, position, intents, outbox>>

BuyOrders == {o \in Orders : SideOf[o] = "buy"}

-----------------------------------------------------------------------------
\* Rows.

\* UniqueFillKey hashes (symbol, order, fill id, cumulative); the symbol is a
\* function of the order.
FillKeys == Orders \X FillIds \X (1..MaxQty)
FillKey(obs) == <<obs.order, obs.fill, obs.cum>>

Observations == [order : Orders, fill : FillIds, cum : 1..MaxQty]

LedgerRows ==
    [order : Orders, fill : FillIds, cum : 1..MaxQty, delta : 1..MaxQty,
     eligible : BOOLEAN]

IntentStatuses == {"pending", "confirmed", "safe-failure-terminal"}
OutboxStatuses == {"pending", "leased", "uncertain", "completed", "failed"}

NewIntent(delta) == [qty |-> delta, status |-> "pending"]
IntentRows == [qty : 1..MaxQty, status : IntentStatuses]

\* A fresh outbox row: no lease_owner and lease_until 0, next_attempt_at now,
\* attempt_count 0.
NewOutboxEntry ==
    [status |-> "pending", owner |-> "none", lease |-> "none", due |-> TRUE, attempts |-> 0]

-----------------------------------------------------------------------------
Init ==
    /\ executed = [o \in Orders |-> 0]
    /\ ledger = {}
    /\ watermark = [o \in Orders |-> 0]
    /\ position = [s \in Symbols |-> 0]
    /\ intents = <<>>
    /\ outbox = <<>>

\* External: one more lot of order o is executed.
Execute(o) ==
    /\ executed[o] < MaxQty
    /\ executed' = [executed EXCEPT ![o] = @ + 1]
    /\ UNCHANGED <<ledger, watermark, position, intents, outbox>>

\* models.CumulativeDelta: an observation adds quantity only beyond the
\* watermark.
IsNew(obs) == obs.cum > watermark[obs.order]

\* Mutant: the whole cumulative quantity is booked.
DeltaWhole(obs) == obs.cum

Delta(obs) == obs.cum - watermark[obs.order]

\* applyGridStateDelta: a BUY adds, a SELL subtracts and stops at zero.
NewPosition(obs) ==
    LET held == position[SymbolOf[obs.order]]
    IN  CASE SideOf[obs.order] = "buy" -> held + Delta(obs)
          [] SideOf[obs.order] = "sell" /\ Delta(obs) > held -> 0
          [] OTHER -> held - Delta(obs)

\* The row of fill_ledger: the plan's eligibility is stored with the fill.
LedgerRow(obs, eligible) ==
    [order |-> obs.order, fill |-> obs.fill, cum |-> obs.cum,
     delta |-> Delta(obs), eligible |-> eligible]

\* Step 5 of ObserveFill: only an eligible BUY gets a counter order.
NeedsCounter(obs, eligible) == SideOf[obs.order] = "buy" /\ eligible

\* Mutant: the counter order covers the cumulative quantity.
WithCounterCumulative(obs) ==
    LET key == FillKey(obs)
    IN  /\ intents' = [k \in DOMAIN intents \cup {key} |->
                          IF k = key THEN NewIntent(obs.cum) ELSE intents[k]]
        /\ outbox' = [k \in DOMAIN outbox \cup {key} |->
                          IF k = key THEN NewOutboxEntry ELSE outbox[k]]

\* createCounterIntent: the intent and its outbox entry, both pending, under
\* ids derived from the fill key.
WithCounter(obs) ==
    LET key == FillKey(obs)
    IN  /\ intents' = [k \in DOMAIN intents \cup {key} |->
                          IF k = key THEN NewIntent(Delta(obs)) ELSE intents[k]]
        /\ outbox' = [k \in DOMAIN outbox \cup {key} |->
                          IF k = key THEN NewOutboxEntry ELSE outbox[k]]

\* ObserveFill as one committed transaction.  A duplicate or late observation,
\* and one whose key the ledger already holds, returns without a write.
ObserveFill(obs, eligible) ==
    /\ obs.cum \in 1..executed[obs.order]
    /\ IsNew(obs)
    /\ \A r \in ledger : FillKey(r) # FillKey(obs)
    /\ ledger' = ledger \cup {LedgerRow(obs, eligible)}
    /\ watermark' = [watermark EXCEPT ![obs.order] = obs.cum]
    /\ position' = [position EXCEPT ![SymbolOf[obs.order]] = NewPosition(obs)]
    /\ IF NeedsCounter(obs, eligible)
         THEN WithCounter(obs)
         ELSE UNCHANGED <<intents, outbox>>
    /\ UNCHANGED executed

Next ==
    \/ \E o \in Orders : Execute(o)
    \/ \E obs \in Observations, eligible \in BOOLEAN : ObserveFill(obs, eligible)

Spec == Init /\ [][Next]_ledgerVars

-----------------------------------------------------------------------------
\* Properties.

\* Every variable holds a value of its type; intents and outbox entries are
\* keyed by fill keys.
TypeOK ==
    /\ executed \in [Orders -> 0..MaxQty]
    /\ ledger \subseteq LedgerRows
    /\ watermark \in [Orders -> 0..MaxQty]
    /\ position \in [Symbols -> Nat]
    /\ DOMAIN intents \subseteq FillKeys
    /\ \A k \in DOMAIN intents : intents[k] \in IntentRows
    /\ DOMAIN outbox \subseteq FillKeys

\* The lots a ledger row accounts for: (cum - delta, cum] of its order.
Units(r) == (r.cum - r.delta + 1)..r.cum

RowsOf(o) == {r \in ledger : r.order = o}

\* The rows of an order tile 1..watermark: every observed lot is booked by
\* exactly one row, whatever was duplicated, reordered or skipped, and none
\* beyond what the exchange has executed (ObserveFill's delta, watermark and
\* unique key together).
EveryLotBookedOnce ==
    \A o \in Orders :
        /\ watermark[o] <= executed[o]
        /\ \A r \in RowsOf(o) : Units(r) \subseteq 1..watermark[o]
        /\ \A u \in 1..watermark[o] : \E r \in RowsOf(o) : u \in Units(r)
        /\ \A r1, r2 \in RowsOf(o) : r1 # r2 => Units(r1) \cap Units(r2) = {}

\* The BUY fills that deserve a counter SELL are exactly those that have one,
\* for exactly the lots they added: no lot is countered twice and no eligible
\* lot is forgotten (createCounterIntent in the same transaction).
CountersMatchLedger ==
    /\ DOMAIN intents = {FillKey(r) : r \in {q \in ledger : NeedsCounter(q, q.eligible)}}
    /\ \A r \in ledger : FillKey(r) \in DOMAIN intents => intents[FillKey(r)].qty = r.delta

\* Every intent has its outbox entry and every entry its intent: the two
\* inserts commit together.
OneEntryPerIntent == DOMAIN outbox = DOMAIN intents

\* The lots booked for the orders of one side of a symbol.
Booked(s, side) ==
    LET lots(o) == watermark[o]
    IN  MapThenSumSet(lots, {o \in Orders : SymbolOf[o] = s /\ SideOf[o] = side})

\* The persisted position is never below what the observed fills net to and
\* never above what they bought, however BUY and SELL observations interleave:
\* the clamp of applyGridStateDelta only ever forgets SELL lots.
PositionBounds ==
    \A s \in Symbols :
        /\ position[s] + Booked(s, "sell") >= Booked(s, "buy")
        /\ position[s] <= Booked(s, "buy")

BookedUnits(o) == UNION {Units(r) : r \in RowsOf(o)}
CounteredRows(o) == {r \in RowsOf(o) : FillKey(r) \in DOMAIN intents}
CounteredUnits(o) == UNION {Units(r) : r \in CounteredRows(o)}

Coverage == INSTANCE CounterCoverage WITH
    Quantities <- 1..MaxQty,
    filled <- executed,
    settled <- [o \in Orders |-> BookedUnits(o)],
    countered <- [o \in Orders |-> CounteredUnits(o)]

\* FillLedger implements CounterCoverage: a lot is settled once, by a step
\* that promises the counter SELL for exactly the lots it settles, or for none
\* of them (ObserveFill with its commit outcomes).
ImplementsCoverage == Coverage!AbsSpec
=============================================================================
