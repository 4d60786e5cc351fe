----------------------------- MODULE LedgerProofs -----------------------------
(***************************************************************************)
(* Proofs about FillLedger and about Outbox on top of it, for any orders,  *)
(* fill ids, symbols, workers and bounds.                                  *)
(*                                                                         *)
(* The ledger: the inductive invariant is the conjunction of the type      *)
(* invariant, the tiling of 1..watermark by the ledger rows, the bounds of *)
(* the position, and the correspondence of rows, intents and outbox        *)
(* entries.                                                                *)
(*                                                                         *)
(* The outbox: what the workers do leaves all of that as it is, also when  *)
(* their leases lapse under them.  The inductive invariant adds that a     *)
(* closed row agrees with its intent, that a leased row has a lease that   *)
(* can run out, and that only a worker with a job has something to report. *)
(***************************************************************************)
EXTENDS Outbox, FiniteSetTheorems, Sums

\* What an observation must satisfy to be written.
LEMMA DeltaType ==
    ASSUME TypeOK, NEW obs \in Observations, IsNew(obs)
    PROVE  Delta(obs) \in 1..obs.cum
<1>1. obs.order \in Orders /\ obs.cum \in 1..MaxQty /\ watermark[obs.order] \in 0..MaxQty
  BY DEF TypeOK, Observations
<1>2. MaxQty \in Nat
  BY FillLedgerAssumption DEF FillLedgerAssumption
<1> QED
  BY <1>1, <1>2 DEF IsNew, Delta

\* The row that ObserveFill writes, and the lots it books.
LEMMA NewRow ==
    ASSUME TypeOK, NEW obs \in Observations, IsNew(obs), NEW e \in BOOLEAN
    PROVE  LET r == LedgerRow(obs, e)
           IN  /\ r \in LedgerRows
               /\ r.order = obs.order /\ r.cum = obs.cum
               /\ r.delta = Delta(obs) /\ r.eligible = e
               /\ FillKey(r) = FillKey(obs) /\ FillKey(obs) \in FillKeys
               /\ Units(r) = (watermark[obs.order] + 1)..obs.cum
<1> DEFINE r == LedgerRow(obs, e)
<1>1. Delta(obs) \in 1..obs.cum
  BY DeltaType
<1>2. obs.order \in Orders /\ obs.fill \in FillIds /\ obs.cum \in 1..MaxQty
  BY DEF Observations
<1>3. MaxQty \in Nat /\ watermark[obs.order] \in 0..MaxQty
  BY <1>2, FillLedgerAssumption DEF TypeOK, FillLedgerAssumption
<1>4. Delta(obs) \in 1..MaxQty
  BY <1>1, <1>2, <1>3
<1>5. r \in LedgerRows
  BY <1>2, <1>4 DEF LedgerRow, LedgerRows
<1>6. /\ r.order = obs.order /\ r.cum = obs.cum /\ r.fill = obs.fill
      /\ r.delta = Delta(obs) /\ r.eligible = e
  BY DEF LedgerRow
<1>7. FillKey(r) = FillKey(obs) /\ FillKey(obs) \in FillKeys
  BY <1>2, <1>6 DEF FillKey, FillKeys
<1>8. r.cum - r.delta + 1 = watermark[obs.order] + 1
  BY <1>2, <1>3, <1>6 DEF Delta
<1>9. Units(r) = (watermark[obs.order] + 1)..obs.cum
  BY <1>6, <1>8 DEF Units
<1> QED
  BY <1>5, <1>6, <1>7, <1>9

LEMMA TypeInit == Init => TypeOK
BY FillLedgerAssumption
DEF Init, TypeOK, FillLedgerAssumption, LedgerRows

\* The position column stays a natural number: the clamp in
\* applyGridStateDelta is what makes a SELL beyond the position safe.
LEMMA PositionType ==
    ASSUME TypeOK, NEW obs \in Observations, IsNew(obs)
    PROVE  NewPosition(obs) \in Nat
<1>1. Delta(obs) \in 1..obs.cum /\ obs.cum \in Nat
  BY DeltaType, FillLedgerAssumption DEF Observations, FillLedgerAssumption
<1>2. position[SymbolOf[obs.order]] \in Nat
  BY FillLedgerAssumption DEF TypeOK, FillLedgerAssumption, Observations
<1>3. SideOf[obs.order] \in {"buy", "sell"}
  BY FillLedgerAssumption DEF FillLedgerAssumption, Observations
<1>4. CASE SideOf[obs.order] = "buy"
  BY <1>1, <1>2, <1>4 DEF NewPosition
<1>5. CASE SideOf[obs.order] = "sell"
  <2>1. CASE Delta(obs) > position[SymbolOf[obs.order]]
    BY <1>5, <2>1 DEF NewPosition
  <2>2. CASE ~(Delta(obs) > position[SymbolOf[obs.order]])
    BY <1>1, <1>2, <1>5, <2>2 DEF NewPosition
  <2> QED BY <2>1, <2>2
<1> QED BY <1>3, <1>4, <1>5

LEMMA TypeObserve ==
    ASSUME TypeOK, NEW obs \in Observations, NEW e \in BOOLEAN, ObserveFill(obs, e)
    PROVE  TypeOK'
<1>1. IsNew(obs) /\ obs.order \in Orders /\ obs.cum \in 1..MaxQty
  BY DEF ObserveFill, Observations
<1>2. LedgerRow(obs, e) \in LedgerRows /\ FillKey(obs) \in FillKeys
  BY <1>1, NewRow
<1>3. NewPosition(obs) \in Nat
  BY <1>1, PositionType
<1>4. NewIntent(Delta(obs)) \in IntentRows
  <2>1. Delta(obs) \in 1..MaxQty
    BY <1>1, DeltaType, FillLedgerAssumption DEF FillLedgerAssumption
  <2> QED BY <2>1 DEF NewIntent, IntentRows, IntentStatuses
<1>5. executed' \in [Orders -> 0..MaxQty]
  BY DEF ObserveFill, TypeOK
<1>6. ledger' \subseteq LedgerRows
  BY <1>2 DEF ObserveFill, TypeOK
<1>7. watermark' \in [Orders -> 0..MaxQty]
  BY <1>1, FillLedgerAssumption DEF ObserveFill, TypeOK, FillLedgerAssumption
<1>8. position' \in [Symbols -> Nat]
  BY <1>3 DEF ObserveFill, TypeOK
<1>9. /\ DOMAIN intents' \subseteq FillKeys
      /\ \A k \in DOMAIN intents' : intents'[k] \in IntentRows
      /\ DOMAIN outbox' \subseteq FillKeys
  <2>1. CASE NeedsCounter(obs, e)
    BY <1>2, <1>4, <2>1 DEF ObserveFill, WithCounter, TypeOK
  <2>2. CASE ~NeedsCounter(obs, e)
    BY <2>2 DEF ObserveFill, TypeOK
  <2> QED BY <2>1, <2>2
<1> QED
  BY <1>5, <1>6, <1>7, <1>8, <1>9 DEF TypeOK

LEMMA TypeExecute ==
    ASSUME TypeOK, NEW o \in Orders, Execute(o)
    PROVE  TypeOK'
<1>1. executed' \in [Orders -> 0..MaxQty]
  BY FillLedgerAssumption DEF TypeOK, Execute, FillLedgerAssumption
<1> QED BY <1>1 DEF TypeOK, Execute

LEMMA TypeNext ==
    TypeOK /\ [Next]_ledgerVars => TypeOK'
<1> SUFFICES ASSUME TypeOK, [Next]_ledgerVars PROVE TypeOK'
  OBVIOUS
<1>1. ASSUME NEW o \in Orders, Execute(o) PROVE TypeOK'
  BY <1>1, TypeExecute
<1>2. ASSUME NEW obs \in Observations, NEW e \in BOOLEAN, ObserveFill(obs, e) PROVE TypeOK'
  BY <1>2, TypeObserve
<1>3. CASE UNCHANGED ledgerVars
  BY <1>3 DEF TypeOK, ledgerVars
<1> QED BY <1>1, <1>2, <1>3 DEF Next

\* Every variable of the ledger keeps its type, in every reachable state.
THEOREM LedgerTypeCorrect == Spec => []TypeOK
<1> QED BY TypeInit, TypeNext, PTL DEF Spec

-----------------------------------------------------------------------------
(***************************************************************************)
(* The ledger rows of an order tile 1..watermark.                          *)
(***************************************************************************)
LEMMA TilingInit == Init => EveryLotBookedOnce
BY FillLedgerAssumption DEF Init, EveryLotBookedOnce, RowsOf, FillLedgerAssumption

LEMMA TilingExecute ==
    ASSUME TypeOK, EveryLotBookedOnce, NEW o \in Orders, Execute(o)
    PROVE  EveryLotBookedOnce'
<1>1. \A p \in Orders : executed[p] \in Nat /\ watermark[p] \in Nat /\ executed[p] <= executed'[p]
  BY FillLedgerAssumption DEF TypeOK, Execute, FillLedgerAssumption
<1>2. \A p \in Orders : watermark'[p] <= executed'[p]
  BY <1>1, FillLedgerAssumption DEF EveryLotBookedOnce, Execute, TypeOK, FillLedgerAssumption
<1>3. \A p \in Orders : RowsOf(p)' = RowsOf(p)
  BY DEF RowsOf, Execute
<1> QED
  BY <1>2, <1>3 DEF EveryLotBookedOnce, Execute, Units

\* The new row starts where the previous watermark ended: this is why an
\* observation is booked by its delta and not by its cumulative quantity.
LEMMA TilingObserve ==
    ASSUME TypeOK, EveryLotBookedOnce,
           NEW obs \in Observations, NEW e \in BOOLEAN, ObserveFill(obs, e)
    PROVE  EveryLotBookedOnce'
<1> DEFINE r == LedgerRow(obs, e)
           o == obs.order
<1>1. IsNew(obs) /\ o \in Orders /\ obs.cum \in 1..MaxQty
  BY DEF ObserveFill, Observations
<1>2. /\ r \in LedgerRows /\ r.order = o
      /\ Units(r) = (watermark[o] + 1)..obs.cum
  BY <1>1, NewRow
<1>3. MaxQty \in Nat /\ \A p \in Orders : watermark[p] \in Nat /\ executed[p] \in Nat
  BY FillLedgerAssumption DEF TypeOK, FillLedgerAssumption
<1>4. /\ watermark' = [watermark EXCEPT ![o] = obs.cum]
      /\ ledger' = ledger \cup {r}
      /\ executed' = executed
      /\ obs.cum \in 1..executed[o]
  BY DEF ObserveFill
<1>5. watermark[o] < obs.cum
  BY <1>1 DEF IsNew
<1>6. /\ watermark'[o] = obs.cum
      /\ \A p \in Orders : p # o => watermark'[p] = watermark[p]
  BY <1>1, <1>4 DEF TypeOK
<1>7. RowsOf(o)' = RowsOf(o) \cup {r}
  BY <1>2, <1>4 DEF RowsOf
<1>8. \A p \in Orders : p # o => RowsOf(p)' = RowsOf(p)
  BY <1>2, <1>4 DEF RowsOf
<1>9. \A q \in RowsOf(o) : Units(q) \subseteq 1..watermark[o]
  BY <1>1 DEF EveryLotBookedOnce
<1> DEFINE Tiled(p) ==
        /\ watermark[p] <= executed[p]
        /\ \A q \in RowsOf(p) : Units(q) \subseteq 1..watermark[p]
        /\ \A u \in 1..watermark[p] : \E q \in RowsOf(p) : u \in Units(q)
        /\ \A q1, q2 \in RowsOf(p) : q1 # q2 => Units(q1) \cap Units(q2) = {}
<1>10. ASSUME NEW p \in Orders, p # o PROVE Tiled(p)'
  BY <1>4, <1>6, <1>8, <1>10 DEF EveryLotBookedOnce, Units
<1>11. Tiled(o)'
  <2>1. watermark'[o] <= executed'[o]
    BY <1>1, <1>3, <1>4, <1>6
  <2>2. \A q \in RowsOf(o)' : Units(q) \subseteq 1..watermark'[o]
    <3>1. Units(r) \subseteq 1..obs.cum
      BY <1>1, <1>2, <1>3
    <3>2. 1..watermark[o] \subseteq 1..obs.cum
      BY <1>1, <1>3, <1>5
    <3> QED
      BY <1>6, <1>7, <1>9, <3>1, <3>2
  <2>3. \A u \in 1..watermark'[o] : \E q \in RowsOf(o)' : u \in Units(q)
    <3> SUFFICES ASSUME NEW u \in 1..obs.cum PROVE \E q \in RowsOf(o)' : u \in Units(q)
      BY <1>6
    <3>1. CASE u \in 1..watermark[o]
      BY <1>1, <1>7, <3>1 DEF EveryLotBookedOnce
    <3>2. CASE u \in (watermark[o] + 1)..obs.cum
      BY <1>2, <1>7, <3>2
    <3> QED
      BY <1>1, <1>3, <1>5, <3>1, <3>2
  <2>4. \A q1, q2 \in RowsOf(o)' : q1 # q2 => Units(q1) \cap Units(q2) = {}
    <3>1. \A q \in RowsOf(o) : Units(q) \cap Units(r) = {}
      BY <1>1, <1>2, <1>3, <1>9
    <3>2. \A q1, q2 \in RowsOf(o) : q1 # q2 => Units(q1) \cap Units(q2) = {}
      BY <1>1 DEF EveryLotBookedOnce
    <3> QED
      BY <1>7, <3>1, <3>2
  <2> QED
    BY <2>1, <2>2, <2>3, <2>4 DEF Units
<1> QED
  BY <1>10, <1>11 DEF EveryLotBookedOnce

LEMMA TilingNext ==
    TypeOK /\ EveryLotBookedOnce /\ [Next]_ledgerVars => EveryLotBookedOnce'
<1> SUFFICES ASSUME TypeOK, EveryLotBookedOnce, [Next]_ledgerVars
             PROVE  EveryLotBookedOnce'
  OBVIOUS
<1>1. ASSUME NEW o \in Orders, Execute(o) PROVE EveryLotBookedOnce'
  BY <1>1, TilingExecute
<1>2. ASSUME NEW obs \in Observations, NEW e \in BOOLEAN, ObserveFill(obs, e)
      PROVE  EveryLotBookedOnce'
  BY <1>2, TilingObserve
<1>3. CASE UNCHANGED ledgerVars
  BY <1>3 DEF EveryLotBookedOnce, RowsOf, Units, ledgerVars
<1> QED BY <1>1, <1>2, <1>3 DEF Next

\* Every lot the exchange executed and the bot observed is booked exactly
\* once, whatever is duplicated, reordered, skipped or retried.
THEOREM LotsBookedOnce == Spec => []EveryLotBookedOnce
<1> QED BY TilingInit, TilingNext, LedgerTypeCorrect, PTL DEF Spec

-----------------------------------------------------------------------------
(***************************************************************************)
(* The position stays between what the observed fills net to and what they *)
(* bought.                                                                 *)
(***************************************************************************)

\* The orders of one side of a symbol.
OrdersOf(s, side) == {o \in Orders : SymbolOf[o] = s /\ SideOf[o] = side}

LEMMA BookedIsTotal ==
    \A s, side : /\ Booked(s, side) = Total(watermark, OrdersOf(s, side))
                 /\ Booked(s, side)' = Total(watermark', OrdersOf(s, side))
                 /\ IsFiniteSet(OrdersOf(s, side))
<1> TAKE s, side
<1>1. Booked(s, side) = Total(watermark, OrdersOf(s, side))
  BY DEF Booked, Total, OrdersOf, MapThenSumSet, MapThenFoldSet
<1>2. Booked(s, side)' = Total(watermark', OrdersOf(s, side))
  BY DEF Booked, Total, OrdersOf, MapThenSumSet, MapThenFoldSet
<1>3. IsFiniteSet(OrdersOf(s, side))
  BY FillLedgerAssumption, FS_Subset DEF OrdersOf, FillLedgerAssumption
<1> QED
  BY <1>1, <1>2, <1>3

\* An observation adds its delta to the booked lots of its symbol and side.
LEMMA BookedObserve ==
    ASSUME TypeOK, NEW obs \in Observations, NEW e \in BOOLEAN, ObserveFill(obs, e),
           NEW s \in Symbols, NEW side \in {"buy", "sell"}
    PROVE  /\ Booked(s, side) \in Nat
           /\ Booked(s, side)' = Booked(s, side) +
                 (IF SymbolOf[obs.order] = s /\ SideOf[obs.order] = side THEN Delta(obs) ELSE 0)
<1> DEFINE o == obs.order
           T == OrdersOf(s, side)
<1>1. /\ o \in Orders /\ obs.cum \in Nat /\ watermark[o] \in Nat /\ obs.cum > watermark[o]
      /\ watermark' = [watermark EXCEPT ![o] = obs.cum]
  BY FillLedgerAssumption DEF ObserveFill, IsNew, Observations, TypeOK, FillLedgerAssumption
<1>2. /\ \A p \in Orders : watermark[p] \in Nat /\ watermark'[p] \in Nat
      /\ \A p \in Orders : p # o => watermark'[p] = watermark[p]
      /\ watermark'[o] = watermark[o] + Delta(obs) /\ Delta(obs) \in Nat
  BY <1>1, FillLedgerAssumption DEF TypeOK, Delta, FillLedgerAssumption
<1>3. IsFiniteSet(T) /\ T \subseteq Orders
  BY BookedIsTotal DEF OrdersOf
<1>4. o \in T <=> SymbolOf[o] = s /\ SideOf[o] = side
  BY <1>1 DEF OrdersOf
<1>5. Booked(s, side) = Total(watermark, T) /\ Booked(s, side)' = Total(watermark', T)
  BY BookedIsTotal
<1> HIDE DEF T
<1>6. Total(watermark, T) \in Nat
  BY <1>2, <1>3, TotalType
<1>7. CASE o \in T
  <2> DEFINE rest == T \ {o}
  <2>1. IsFiniteSet(rest) /\ \A p \in rest : watermark'[p] = watermark[p] /\ watermark[p] \in Nat
    BY <1>2, <1>3, FS_RemoveElement
  <2>2. Total(watermark, rest) = Total(watermark', rest)
    <3> HIDE DEF rest
    <3> QED
      BY <2>1, TotalSame
  <2>3. Total(watermark, T) = watermark[o] + Total(watermark, rest)
    BY <1>2, <1>3, <1>7, TotalRemove
  <2>4. Total(watermark', T) = watermark'[o] + Total(watermark', rest)
    BY <1>2, <1>3, <1>7, TotalRemove
  <2>5. Total(watermark, rest) \in Nat
    <3> HIDE DEF rest
    <3> QED
      BY <2>1, TotalType
  <2> HIDE DEF rest
  <2> QED
    BY <1>1, <1>2, <1>4, <1>5, <1>6, <1>7, <2>2, <2>3, <2>4, <2>5
<1>8. CASE o \notin T
  <2>1. \A p \in T : watermark[p] = watermark'[p]
    BY <1>2, <1>3, <1>8
  <2>2. Total(watermark, T) = Total(watermark', T)
    BY <1>3, <2>1, TotalSame
  <2> QED
    BY <1>4, <1>5, <1>6, <1>8, <2>2
<1> QED
  BY <1>7, <1>8

LEMMA BookedInit ==
    ASSUME Init
    PROVE  \A s, side : Booked(s, side) = 0
<1> TAKE s, side
<1> DEFINE T == OrdersOf(s, side)
           Zero == {p \in SUBSET T : Total(watermark, p) = 0}
<1>1. IsFiniteSet(T) /\ Booked(s, side) = Total(watermark, T)
  BY BookedIsTotal
<1>2. \A o \in T : watermark[o] = 0
  BY DEF Init, OrdersOf
<1> HIDE DEF T
<1>3. ASSUME NEW p \in SUBSET T, \A x \in p : p \ {x} \in Zero
      PROVE  p \in Zero
  <2>1. CASE p = {}
    BY <2>1, TotalEmpty
  <2>2. CASE p # {}
    <3>1. PICK x \in p : TRUE
      BY <2>2
    <3>2. IsFiniteSet(p) /\ \A y \in p : watermark[y] = 0 /\ watermark[y] \in Nat
      BY <1>1, <1>2, FS_Subset
    <3>3. Total(watermark, p) = watermark[x] + Total(watermark, p \ {x})
      BY <3>2, TotalRemove
    <3> QED
      BY <1>3, <3>2, <3>3
  <2> QED
    BY <2>1, <2>2
<1>4. T \in Zero
  <2> HIDE DEF Zero
  <2> QED
    BY <1>1, <1>3, SubsetInduction
<1> QED
  BY <1>1, <1>4

LEMMA PositionInit == Init => PositionBounds
<1> SUFFICES ASSUME Init PROVE PositionBounds
  OBVIOUS
<1>1. \A s \in Symbols : position[s] = 0
  BY DEF Init
<1> QED
  BY <1>1, BookedInit DEF PositionBounds

\* A BUY moves the position and the booked lots alike; a SELL that is clamped
\* leaves a position of zero, which is above what the fills net to.
LEMMA PositionObserve ==
    ASSUME TypeOK, PositionBounds, NEW obs \in Observations, NEW e \in BOOLEAN, ObserveFill(obs, e)
    PROVE  PositionBounds'
<1> SUFFICES ASSUME NEW s \in Symbols
             PROVE  /\ position'[s] + Booked(s, "sell")' >= Booked(s, "buy")'
                    /\ position'[s] <= Booked(s, "buy")'
  BY DEF PositionBounds
<1> DEFINE o == obs.order
           d == Delta(obs)
           held == position[s]
<1>1. /\ d \in Nat /\ o \in Orders /\ SymbolOf[o] \in Symbols /\ SideOf[o] \in {"buy", "sell"}
      /\ held \in Nat
  <2>1. Delta(obs) \in 1..obs.cum /\ obs.cum \in Nat
    BY DeltaType, FillLedgerAssumption DEF ObserveFill, Observations, FillLedgerAssumption
  <2> QED
    BY <2>1, FillLedgerAssumption DEF Observations, TypeOK, FillLedgerAssumption
<1>2. /\ held + Booked(s, "sell") >= Booked(s, "buy")
      /\ held <= Booked(s, "buy")
  BY DEF PositionBounds
<1>3. /\ Booked(s, "buy") \in Nat
      /\ Booked(s, "buy")' = Booked(s, "buy") +
            (IF SymbolOf[o] = s /\ SideOf[o] = "buy" THEN d ELSE 0)
  BY BookedObserve
<1>4. /\ Booked(s, "sell") \in Nat
      /\ Booked(s, "sell")' = Booked(s, "sell") +
            (IF SymbolOf[o] = s /\ SideOf[o] = "sell" THEN d ELSE 0)
  BY BookedObserve
<1>5. position' = [position EXCEPT ![SymbolOf[o]] = NewPosition(obs)]
  BY DEF ObserveFill
<1>6. CASE SymbolOf[o] # s
  <2>1. position'[s] = held
    BY <1>1, <1>5, <1>6 DEF TypeOK
  <2> HIDE DEF d, held
  <2> QED
    BY <1>1, <1>2, <1>3, <1>4, <1>6, <2>1
<1>7. CASE SymbolOf[o] = s /\ SideOf[o] = "buy"
  <2>1. position'[s] = held + d
    BY <1>1, <1>5, <1>7 DEF TypeOK, NewPosition
  <2> HIDE DEF d, held
  <2> QED
    BY <1>1, <1>2, <1>3, <1>4, <1>7, <2>1
<1>8. CASE SymbolOf[o] = s /\ SideOf[o] = "sell"
  <2>1. position'[s] = IF d > held THEN 0 ELSE held - d
    BY <1>1, <1>5, <1>8 DEF TypeOK, NewPosition
  <2> HIDE DEF d, held
  <2> QED
    BY <1>1, <1>2, <1>3, <1>4, <1>8, <2>1
<1> QED
  BY <1>1, <1>6, <1>7, <1>8

\* Steps that neither book a fill nor move a position.
LEMMA PositionKept ==
    ASSUME PositionBounds, UNCHANGED <<watermark, position>>
    PROVE  PositionBounds'
<1>1. \A s, side : Booked(s, side)' = Booked(s, side)
  BY BookedIsTotal
<1> QED
  BY <1>1 DEF PositionBounds

LEMMA PositionNext ==
    TypeOK /\ PositionBounds /\ [Next]_ledgerVars => PositionBounds'
<1> SUFFICES ASSUME TypeOK, PositionBounds, [Next]_ledgerVars
             PROVE  PositionBounds'
  OBVIOUS
<1>1. ASSUME NEW o \in Orders, Execute(o) PROVE PositionBounds'
  BY <1>1, PositionKept DEF Execute
<1>2. ASSUME NEW obs \in Observations, NEW e \in BOOLEAN, ObserveFill(obs, e)
      PROVE  PositionBounds'
  BY <1>2, PositionObserve
<1>3. CASE UNCHANGED ledgerVars
  BY <1>3, PositionKept DEF ledgerVars
<1> QED BY <1>1, <1>2, <1>3 DEF Next

\* The persisted position is bounded by the booked fills, in every reachable
\* state, for any number of orders of any symbols and sides.
THEOREM PositionIsBounded == Spec => []PositionBounds
<1> QED BY PositionInit, PositionNext, LedgerTypeCorrect, PTL DEF Spec

-----------------------------------------------------------------------------
(***************************************************************************)
(* Ledger rows, intents and outbox entries correspond.                     *)
(***************************************************************************)
LEMMA CountersInit == Init => CountersMatchLedger /\ OneEntryPerIntent
BY DEF Init, CountersMatchLedger, OneEntryPerIntent

LEMMA CountersObserve ==
    ASSUME TypeOK, CountersMatchLedger, OneEntryPerIntent,
           NEW obs \in Observations, NEW e \in BOOLEAN, ObserveFill(obs, e)
    PROVE  CountersMatchLedger' /\ OneEntryPerIntent'
<1> DEFINE r == LedgerRow(obs, e)
           key == FillKey(obs)
           Countered(rows) == {q \in rows : NeedsCounter(q, q.eligible)}
<1>1. IsNew(obs)
  BY DEF ObserveFill
<1>2. /\ FillKey(r) = key /\ r.order = obs.order
      /\ r.delta = Delta(obs) /\ r.eligible = e
  BY <1>1, NewRow
<1>3. /\ ledger' = ledger \cup {r}
      /\ \A q \in ledger : FillKey(q) # key
  BY DEF ObserveFill
<1>4. NeedsCounter(r, r.eligible) <=> NeedsCounter(obs, e)
  BY <1>2 DEF NeedsCounter
<1>5. key \notin DOMAIN intents
  BY <1>3 DEF CountersMatchLedger
<1>6. CASE NeedsCounter(obs, e)
  <2>1. /\ DOMAIN intents' = DOMAIN intents \cup {key}
        /\ DOMAIN outbox' = DOMAIN outbox \cup {key}
        /\ intents'[key].qty = Delta(obs)
        /\ \A k \in DOMAIN intents : intents'[k] = intents[k]
    BY <1>5, <1>6 DEF ObserveFill, WithCounter, NewIntent
  <2>2. Countered(ledger') = Countered(ledger) \cup {r}
    BY <1>3, <1>4, <1>6
  <2>3. DOMAIN intents' = {FillKey(q) : q \in Countered(ledger')}
    BY <1>2, <2>1, <2>2 DEF CountersMatchLedger
  <2>4. \A q \in ledger' : FillKey(q) \in DOMAIN intents' => intents'[FillKey(q)].qty = q.delta
    BY <1>2, <1>3, <2>1 DEF CountersMatchLedger
  <2> QED
    BY <2>1, <2>3, <2>4 DEF CountersMatchLedger, OneEntryPerIntent, FillKey, NeedsCounter
<1>7. CASE ~NeedsCounter(obs, e)
  <2>1. intents' = intents /\ outbox' = outbox
    BY <1>7 DEF ObserveFill
  <2>2. Countered(ledger') = Countered(ledger)
    BY <1>3, <1>4, <1>7
  <2>3. DOMAIN intents' = {FillKey(q) : q \in Countered(ledger')}
    BY <2>1, <2>2 DEF CountersMatchLedger
  <2>4. \A q \in ledger' : FillKey(q) \in DOMAIN intents' => intents'[FillKey(q)].qty = q.delta
    BY <1>2, <1>3, <1>5, <2>1 DEF CountersMatchLedger
  <2> QED
    BY <2>1, <2>3, <2>4 DEF CountersMatchLedger, OneEntryPerIntent, FillKey, NeedsCounter
<1> QED BY <1>6, <1>7

LEMMA CountersNext ==
    TypeOK /\ CountersMatchLedger /\ OneEntryPerIntent /\ [Next]_ledgerVars
        => CountersMatchLedger' /\ OneEntryPerIntent'
<1> SUFFICES ASSUME TypeOK, CountersMatchLedger, OneEntryPerIntent, [Next]_ledgerVars
             PROVE  CountersMatchLedger' /\ OneEntryPerIntent'
  OBVIOUS
<1>1. ASSUME NEW o \in Orders, Execute(o) PROVE CountersMatchLedger' /\ OneEntryPerIntent'
  BY <1>1 DEF Execute, CountersMatchLedger, OneEntryPerIntent, FillKey, NeedsCounter
<1>2. ASSUME NEW obs \in Observations, NEW e \in BOOLEAN, ObserveFill(obs, e)
      PROVE  CountersMatchLedger' /\ OneEntryPerIntent'
  BY <1>2, CountersObserve
<1>3. CASE UNCHANGED ledgerVars
  BY <1>3 DEF ledgerVars, CountersMatchLedger, OneEntryPerIntent, FillKey, NeedsCounter
<1> QED BY <1>1, <1>2, <1>3 DEF Next

\* Exactly the eligible BUY rows have a counter SELL intent, for exactly their
\* delta, and every intent has one outbox entry.
THEOREM CountersCorrect == Spec => [](CountersMatchLedger /\ OneEntryPerIntent)
<1> DEFINE Inv == CountersMatchLedger /\ OneEntryPerIntent
<1>1. Init => Inv
  BY CountersInit
<1>2. TypeOK /\ Inv /\ [Next]_ledgerVars => Inv'
  BY CountersNext
<1>3. Spec => []Inv
  BY <1>1, <1>2, LedgerTypeCorrect, PTL DEF Spec
<1> QED BY <1>3

-----------------------------------------------------------------------------
(***************************************************************************)
(* FillLedger implements CounterCoverage.                                  *)
(***************************************************************************)
LEMMA CoverageInit == Init => Coverage!AbsInit
BY DEF Init, Coverage!AbsInit, BookedUnits, CounteredUnits, CounteredRows, RowsOf

LEMMA CoverageExecute ==
    ASSUME TypeOK, NEW o \in Orders, Execute(o)
    PROVE  Coverage!Fill(o)
<1>1. executed[o] + 1 \in 1..MaxQty /\ executed[o] + 1 > executed[o]
  BY FillLedgerAssumption DEF TypeOK, Execute, FillLedgerAssumption
<1>2. executed' = [executed EXCEPT ![o] = executed[o] + 1]
  BY DEF Execute
<1>3. UNCHANGED <<ledger, intents>>
  BY DEF Execute
<1>4. \A p \in Orders : BookedUnits(p)' = BookedUnits(p)
  BY <1>3 DEF BookedUnits, RowsOf, Units
<1>5. \A p \in Orders : CounteredRows(p)' = CounteredRows(p)
  BY <1>3 DEF CounteredRows, RowsOf, FillKey
<1> QED
  BY <1>1, <1>2, <1>4, <1>5 DEF Coverage!Fill, CounteredUnits, Units

LEMMA CoverageObserve ==
    ASSUME TypeOK, EveryLotBookedOnce, CountersMatchLedger,
           NEW obs \in Observations, NEW e \in BOOLEAN, ObserveFill(obs, e)
    PROVE  /\ Units(LedgerRow(obs, e)) \subseteq 1..executed[obs.order]
           /\ Coverage!Settle(obs.order, Units(LedgerRow(obs, e)))
<1> DEFINE r == LedgerRow(obs, e)
           o == obs.order
           key == FillKey(obs)
<1>1. IsNew(obs) /\ o \in Orders /\ obs.cum \in 1..MaxQty /\ obs.cum \in 1..executed[o]
  BY DEF ObserveFill, Observations
<1>2. /\ r.order = o /\ FillKey(r) = key /\ r.eligible = e
      /\ Units(r) = (watermark[o] + 1)..obs.cum
  BY <1>1, NewRow
<1>3. MaxQty \in Nat /\ watermark[o] \in Nat /\ executed[o] \in Nat
  BY <1>1, FillLedgerAssumption DEF TypeOK, FillLedgerAssumption
<1>4. /\ ledger' = ledger \cup {r}
      /\ executed' = executed
      /\ \A q \in ledger : FillKey(q) # key
  BY DEF ObserveFill
<1>5. key \notin DOMAIN intents
  BY <1>4 DEF CountersMatchLedger
<1>6. RowsOf(o)' = RowsOf(o) \cup {r} /\ \A p \in Orders : p # o => RowsOf(p)' = RowsOf(p)
  BY <1>2, <1>4 DEF RowsOf
<1>7. Units(r) # {} /\ Units(r) \subseteq 1..executed[o]
  BY <1>1, <1>2, <1>3 DEF IsNew
<1>8. Units(r) \cap [p \in Orders |-> BookedUnits(p)][o] = {}
  <2>1. \A q \in RowsOf(o) : Units(q) \subseteq 1..watermark[o]
    BY <1>1 DEF EveryLotBookedOnce
  <2>2. \A q \in RowsOf(o) : Units(q) \cap Units(r) = {}
    BY <1>1, <1>2, <1>3, <2>1
  <2> QED BY <1>1, <2>2 DEF BookedUnits
<1>9. [p \in Orders |-> BookedUnits(p)]' = [[p \in Orders |-> BookedUnits(p)] EXCEPT ![o] = @ \cup Units(r)]
  <2>1. BookedUnits(o)' = BookedUnits(o) \cup Units(r)
    BY <1>6 DEF BookedUnits, Units
  <2>2. \A p \in Orders : p # o => BookedUnits(p)' = BookedUnits(p)
    BY <1>6 DEF BookedUnits, Units
  <2> QED BY <1>1, <2>1, <2>2
<1>10. \A p \in Orders : \A q \in RowsOf(p) : FillKey(q) # key
  BY <1>4 DEF RowsOf
<1>11. CASE NeedsCounter(obs, e)
  <2>1. DOMAIN intents' = DOMAIN intents \cup {key}
    BY <1>11 DEF ObserveFill, WithCounter
  <2>2. CounteredRows(o)' = CounteredRows(o) \cup {r}
    BY <1>2, <1>6, <1>10, <2>1, <1>1 DEF CounteredRows, FillKey
  <2>3. \A p \in Orders : p # o => CounteredRows(p)' = CounteredRows(p)
    BY <1>6, <1>10, <2>1 DEF CounteredRows, FillKey
  <2>4. CounteredUnits(o)' = CounteredUnits(o) \cup Units(r)
    BY <2>2 DEF CounteredUnits, Units
  <2>5. \A p \in Orders : p # o => CounteredUnits(p)' = CounteredUnits(p)
    BY <2>3 DEF CounteredUnits, Units
  <2>6. [p \in Orders |-> CounteredUnits(p)]' = [[p \in Orders |-> CounteredUnits(p)] EXCEPT ![o] = @ \cup Units(r)]
    BY <1>1, <2>4, <2>5
  <2>7. o \in BuyOrders
    BY <1>1, <1>11 DEF NeedsCounter, BuyOrders
  <2> QED
    BY <1>4, <1>7, <1>8, <1>9, <2>6, <2>7 DEF Coverage!Settle
<1>12. CASE ~NeedsCounter(obs, e)
  <2>1. intents' = intents
    BY <1>12 DEF ObserveFill
  <2>2. \A p \in Orders : CounteredRows(p)' = CounteredRows(p)
    BY <1>2, <1>5, <1>6, <2>1 DEF CounteredRows, FillKey
  <2>3. \A p \in Orders : CounteredUnits(p)' = CounteredUnits(p)
    BY <2>2 DEF CounteredUnits, Units
  <2> QED
    BY <1>4, <1>7, <1>8, <1>9, <2>3 DEF Coverage!Settle
<1> QED BY <1>11, <1>12

LEMMA CoverageNext ==
    TypeOK /\ EveryLotBookedOnce /\ CountersMatchLedger /\ [Next]_ledgerVars
        => [Coverage!AbsNext]_(Coverage!absVars)
<1> SUFFICES ASSUME TypeOK, EveryLotBookedOnce, CountersMatchLedger, [Next]_ledgerVars
             PROVE  [Coverage!AbsNext]_(Coverage!absVars)
  OBVIOUS
<1>1. ASSUME NEW o \in Orders, Execute(o) PROVE Coverage!AbsNext
  BY <1>1, CoverageExecute DEF Coverage!AbsNext
<1>2. ASSUME NEW obs \in Observations, NEW e \in BOOLEAN, ObserveFill(obs, e)
      PROVE  Coverage!AbsNext
  <2>1. obs.order \in Orders
    BY DEF Observations
  <2> QED
    BY <1>2, <2>1, CoverageObserve DEF Coverage!AbsNext
<1>3. CASE UNCHANGED ledgerVars
  BY <1>3 DEF ledgerVars, Coverage!absVars, BookedUnits, CounteredUnits, CounteredRows, RowsOf, Units, FillKey
<1> QED BY <1>1, <1>2, <1>3 DEF Next

\* The durable ledger implements the abstract coverage promise: the initial
\* states correspond and every step is an abstract step or a stutter.
THEOREM LedgerImplementsCoverage == Spec => ImplementsCoverage
<1>1. Spec => [](CountersMatchLedger /\ OneEntryPerIntent)
  BY CountersCorrect
<1> QED
  BY <1>1, CoverageNext, CoverageInit, LedgerTypeCorrect, LotsBookedOnce, PTL
  DEF Spec, ImplementsCoverage, Coverage!AbsSpec

-----------------------------------------------------------------------------
(***************************************************************************)
(* The outbox.                                                             *)
(***************************************************************************)

\* A worker without a job has no answer to report.
IdleKnowsNothing == \A w \in Workers : Idle(w) => result[w] = "none"

\* A leased row has a lease that runs out.
LeasesRunOut == \A k \in DOMAIN outbox : outbox[k].status = "leased" => outbox[k].lease # "none"

OutboxInv ==
    /\ OutboxTypeOK
    /\ CountersMatchLedger
    /\ OneEntryPerIntent
    /\ IdleKnowsNothing
    /\ ClosedRowsAgree
    /\ LeasesRunOut

LEMMA OutboxInvInit == OutboxInit => OutboxInv
<1> SUFFICES ASSUME OutboxInit PROVE OutboxInv
  OBVIOUS
<1>1. TypeOK /\ CountersMatchLedger /\ OneEntryPerIntent
  BY TypeInit, CountersInit DEF OutboxInit
<1>2. intents = <<>> /\ outbox = <<>>
  BY DEF OutboxInit, Init
<1>3. OutboxTypeOK
  <2>1. \A k \in DOMAIN outbox : outbox[k] \in OutboxRows
    BY <1>2
  <2>2. job \in [Workers -> DOMAIN outbox \cup {<<>>}]
    BY DEF OutboxInit
  <2>3. result \in [Workers -> Results] /\ placed \subseteq DOMAIN outbox
    BY DEF OutboxInit, Results
  <2>4. crashes \in 0..MaxCrashes
    BY OutboxAssumption DEF OutboxInit, OutboxAssumption
  <2> QED BY <1>1, <2>1, <2>2, <2>3, <2>4 DEF OutboxTypeOK
<1>4. IdleKnowsNothing
  BY DEF OutboxInit, IdleKnowsNothing, Idle
<1>5. ClosedRowsAgree /\ LeasesRunOut
  BY <1>2 DEF ClosedRowsAgree, LeasesRunOut
<1> QED BY <1>1, <1>3, <1>4, <1>5 DEF OutboxInv

\* A worker that has an answer has a job, and the job is a row.
LEMMA Reporter ==
    ASSUME OutboxInv, NEW w \in Workers, result[w] # "none"
    PROVE  job[w] \in DOMAIN outbox /\ job[w] \in DOMAIN intents /\ ~Idle(w)
<1>1. ~Idle(w)
  BY DEF OutboxInv, IdleKnowsNothing
<1> QED
  BY <1>1 DEF OutboxInv, OutboxTypeOK, OneEntryPerIntent, Idle

\* The ledger's own steps add fresh rows and leave the others alone.
LEMMA LedgerRowsGrow ==
    ASSUME TypeOK, CountersMatchLedger, OneEntryPerIntent, Next
    PROVE  /\ DOMAIN outbox \subseteq DOMAIN outbox'
           /\ \A k \in DOMAIN outbox : outbox'[k] = outbox[k] /\ intents'[k] = intents[k]
           /\ \A k \in DOMAIN outbox' \ DOMAIN outbox :
                 outbox'[k] = NewOutboxEntry /\ intents'[k].status = "pending"
<1>1. ASSUME NEW o \in Orders, Execute(o)
      PROVE  outbox' = outbox /\ intents' = intents
  BY <1>1 DEF Execute
<1>2. ASSUME NEW obs \in Observations, NEW e \in BOOLEAN, ObserveFill(obs, e),
             ~NeedsCounter(obs, e)
      PROVE  outbox' = outbox /\ intents' = intents
  BY <1>2 DEF ObserveFill
<1>3. ASSUME NEW obs \in Observations, NEW e \in BOOLEAN, ObserveFill(obs, e),
             NeedsCounter(obs, e)
      PROVE  /\ DOMAIN outbox \subseteq DOMAIN outbox'
             /\ \A k \in DOMAIN outbox : outbox'[k] = outbox[k] /\ intents'[k] = intents[k]
             /\ \A k \in DOMAIN outbox' \ DOMAIN outbox :
                   outbox'[k] = NewOutboxEntry /\ intents'[k].status = "pending"
  <2> DEFINE key == FillKey(obs)
  <2>1. key \notin DOMAIN intents
    <3>1. \A q \in ledger : FillKey(q) # key
      BY <1>3 DEF ObserveFill
    <3> QED BY <3>1 DEF CountersMatchLedger
  <2>2. /\ intents' = [k \in DOMAIN intents \cup {key} |->
                          IF k = key THEN NewIntent(Delta(obs)) ELSE intents[k]]
        /\ outbox' = [k \in DOMAIN outbox \cup {key} |->
                          IF k = key THEN NewOutboxEntry ELSE outbox[k]]
    BY <1>3 DEF ObserveFill, WithCounter
  <2>3. NewIntent(Delta(obs)).status = "pending"
    BY DEF NewIntent
  <2> QED BY <2>1, <2>2, <2>3 DEF OneEntryPerIntent
<1> QED BY <1>1, <1>2, <1>3 DEF Next

LEMMA InvLedgerStep ==
    ASSUME OutboxInv, LedgerStep
    PROVE  OutboxInv'
<1>1. TypeOK /\ CountersMatchLedger /\ OneEntryPerIntent
  BY DEF OutboxInv, OutboxTypeOK
<1>2. Next /\ UNCHANGED outboxVars
  BY DEF LedgerStep
<1>3. TypeOK' /\ CountersMatchLedger' /\ OneEntryPerIntent'
  <2>1. ASSUME NEW o \in Orders, Execute(o)
        PROVE  TypeOK' /\ CountersMatchLedger' /\ OneEntryPerIntent'
    <3>1. TypeOK'
      BY <1>1, <2>1, TypeExecute
    <3> QED
      BY <1>1, <2>1, <3>1 DEF Execute, CountersMatchLedger, OneEntryPerIntent, FillKey, NeedsCounter
  <2>2. ASSUME NEW obs \in Observations, NEW e \in BOOLEAN, ObserveFill(obs, e)
        PROVE  TypeOK' /\ CountersMatchLedger' /\ OneEntryPerIntent'
    BY <1>1, <2>2, TypeObserve, CountersObserve
  <2> QED BY <1>2, <2>1, <2>2 DEF Next
<1>4. /\ DOMAIN outbox \subseteq DOMAIN outbox'
      /\ \A k \in DOMAIN outbox : outbox'[k] = outbox[k] /\ intents'[k] = intents[k]
      /\ \A k \in DOMAIN outbox' \ DOMAIN outbox :
            outbox'[k] = NewOutboxEntry /\ intents'[k].status = "pending"
  BY <1>1, <1>2, LedgerRowsGrow
<1>5. NewOutboxEntry \in OutboxRows
  BY OutboxAssumption DEF NewOutboxEntry, OutboxRows, OutboxStatuses, OutboxAssumption
<1>6. /\ job' = job /\ result' = result /\ placed' = placed /\ crashes' = crashes
  BY <1>2 DEF outboxVars
<1>7. OutboxTypeOK'
  BY <1>3, <1>4, <1>5, <1>6 DEF OutboxInv, OutboxTypeOK
<1>8. IdleKnowsNothing'
  BY <1>6 DEF OutboxInv, IdleKnowsNothing, Idle
<1>9. ClosedRowsAgree' /\ LeasesRunOut'
  BY <1>4 DEF OutboxInv, ClosedRowsAgree, LeasesRunOut, NewOutboxEntry
<1> QED BY <1>3, <1>7, <1>8, <1>9 DEF OutboxInv

\* Steps that rewrite rows and settle intents without adding any keep the
\* facts about the ledger.
LEMMA LedgerFactsKept ==
    ASSUME OutboxInv, UNCHANGED <<executed, ledger, watermark, position>>,
           DOMAIN intents' = DOMAIN intents, DOMAIN outbox' = DOMAIN outbox,
           \A k \in DOMAIN intents :
              intents'[k] \in IntentRows /\ intents'[k].qty = intents[k].qty
    PROVE  TypeOK' /\ CountersMatchLedger' /\ OneEntryPerIntent'
BY DEF OutboxInv, OutboxTypeOK, TypeOK, CountersMatchLedger, OneEntryPerIntent, FillKey, NeedsCounter

LEMMA InvClaim ==
    ASSUME OutboxInv, NEW w \in Workers, NEW k \in DOMAIN outbox, NEW told \in BOOLEAN,
           ClaimOutbox(w, k, told)
    PROVE  OutboxInv'
<1>1. /\ outbox' = [outbox EXCEPT ![k] = Leased(outbox[k], w)]
      /\ intents' = intents /\ result' = result /\ placed' = placed
      /\ UNCHANGED <<executed, ledger, watermark, position>>
      /\ Idle(w) /\ outbox[k].status \in {"pending", "uncertain"} /\ outbox[k].due
  BY DEF ClaimOutbox, SetRow, Claimable
<1>2. job' \in {job, [job EXCEPT ![w] = k]} /\ crashes' \in 0..MaxCrashes
  BY OutboxAssumption DEF ClaimOutbox, OutboxInv, OutboxTypeOK, OutboxAssumption
<1>3. TypeOK' /\ CountersMatchLedger' /\ OneEntryPerIntent'
  <2>1. \A j \in DOMAIN intents : intents[j] \in IntentRows
    BY DEF OutboxInv, OutboxTypeOK, TypeOK
  <2> QED BY <1>1, <2>1, LedgerFactsKept
<1>4. /\ Leased(outbox[k], w) \in OutboxRows
      /\ Leased(outbox[k], w).status = "leased"
      /\ Leased(outbox[k], w).owner = w
      /\ Leased(outbox[k], w).lease = "live"
      /\ Leased(outbox[k], w).due
  BY <1>1 DEF OutboxInv, OutboxTypeOK, OutboxRows, OutboxStatuses, Leased
<1>5. OutboxTypeOK'
  BY <1>1, <1>2, <1>3, <1>4 DEF OutboxInv, OutboxTypeOK
<1>6. IdleKnowsNothing'
  BY <1>1, <1>2 DEF OutboxInv, IdleKnowsNothing, Idle, OutboxTypeOK
<1>7. ClosedRowsAgree' /\ LeasesRunOut'
  BY <1>1, <1>4 DEF OutboxInv, ClosedRowsAgree, LeasesRunOut
<1> QED BY <1>3, <1>5, <1>6, <1>7 DEF OutboxInv

LEMMA InvRecover ==
    ASSUME OutboxInv, RecoverExpiredLeases
    PROVE  OutboxInv'
<1>1. /\ outbox' = [k \in DOMAIN outbox |->
                       IF Expired(outbox[k]) THEN Recovered(outbox[k]) ELSE outbox[k]]
      /\ UNCHANGED <<executed, ledger, watermark, position, intents, outboxVars>>
  BY DEF RecoverExpiredLeases
<1>2. \A k \in DOMAIN outbox : Expired(outbox[k]) =>
        /\ Recovered(outbox[k]) \in OutboxRows
        /\ Recovered(outbox[k]).status = "pending"
  BY DEF OutboxInv, OutboxTypeOK, OutboxRows, OutboxStatuses, Expired, Recovered
<1>3. TypeOK' /\ CountersMatchLedger' /\ OneEntryPerIntent'
  <2>1. \A j \in DOMAIN intents : intents[j] \in IntentRows
    BY DEF OutboxInv, OutboxTypeOK, TypeOK
  <2> QED BY <1>1, <2>1, LedgerFactsKept
<1>4. DOMAIN outbox' = DOMAIN outbox /\ \A k \in DOMAIN outbox : outbox'[k] \in OutboxRows
  BY <1>1, <1>2 DEF OutboxInv, OutboxTypeOK
<1>5. OutboxTypeOK' /\ IdleKnowsNothing'
  BY <1>1, <1>3, <1>4 DEF OutboxInv, OutboxTypeOK, outboxVars, IdleKnowsNothing, Idle
<1>6. ClosedRowsAgree' /\ LeasesRunOut'
  BY <1>1, <1>2 DEF OutboxInv, ClosedRowsAgree, LeasesRunOut
<1> QED BY <1>3, <1>5, <1>6 DEF OutboxInv

\* A report ends the row and its intent together, or reopens the row and
\* leaves the intent.
LEMMA InvReport ==
    ASSUME OutboxInv, NEW w \in Workers, result[w] # "none", Report(w),
           NEW row \in OutboxRows, SetRow(job[w], row), row.status # "leased",
           DOMAIN intents' = DOMAIN intents,
           \A j \in DOMAIN intents : j # job[w] => intents'[j] = intents[j],
           intents'[job[w]] \in IntentRows,
           intents'[job[w]].qty = intents[job[w]].qty,
           row.status = "completed" => intents'[job[w]].status = "confirmed",
           row.status = "failed" => intents'[job[w]].status = "safe-failure-terminal"
    PROVE  OutboxInv'
<1> DEFINE k == job[w]
<1>1. k \in DOMAIN outbox /\ k \in DOMAIN intents /\ DOMAIN intents = DOMAIN outbox
  BY Reporter DEF OutboxInv, OneEntryPerIntent
<1>2. /\ outbox' = [outbox EXCEPT ![k] = row]
      /\ job' = [job EXCEPT ![w] = <<>>]
      /\ result' = [result EXCEPT ![w] = "none"]
      /\ UNCHANGED <<executed, ledger, watermark, position, placed, crashes>>
  BY DEF SetRow, Report
<1>3. \A j \in DOMAIN intents : intents[j] \in IntentRows
  BY DEF OutboxInv, OutboxTypeOK, TypeOK
<1>4. \A j \in DOMAIN intents : intents'[j] \in IntentRows /\ intents'[j].qty = intents[j].qty
  BY <1>1, <1>3
<1>5. TypeOK' /\ CountersMatchLedger' /\ OneEntryPerIntent'
  BY <1>2, <1>4, LedgerFactsKept
<1>6. OutboxTypeOK'
  BY <1>2, <1>5 DEF OutboxInv, OutboxTypeOK, Results
<1>7. IdleKnowsNothing'
  BY <1>2 DEF OutboxInv, IdleKnowsNothing, Idle, OutboxTypeOK
<1>8. ClosedRowsAgree' /\ LeasesRunOut'
  BY <1>1, <1>2 DEF OutboxInv, ClosedRowsAgree, LeasesRunOut
<1> QED BY <1>5, <1>6, <1>7, <1>8 DEF OutboxInv

LEMMA InvSettle ==
    ASSUME OutboxInv, NEW w \in Workers, CompleteOutbox(w) \/ FailOutbox(w)
    PROVE  OutboxInv'
<1> DEFINE k == job[w]
<1>1. result[w] # "none" /\ Report(w)
  BY DEF CompleteOutbox, FailOutbox
<1>2. k \in DOMAIN outbox /\ k \in DOMAIN intents
  BY <1>1, Reporter
<1>3. outbox[k] \in OutboxRows /\ intents[k] \in IntentRows
  BY <1>2 DEF OutboxInv, OutboxTypeOK, TypeOK
<1>4. ASSUME NEW rs \in OutboxStatuses, NEW is \in IntentStatuses, Settle(k, rs, is),
             rs # "leased",
             rs = "completed" => is = "confirmed",
             rs = "failed" => is = "safe-failure-terminal"
      PROVE  OutboxInv'
  <2> DEFINE row == [outbox[k] EXCEPT !.status = rs]
  <2>1. row \in OutboxRows /\ row.status = rs
    BY <1>3 DEF OutboxRows
  <2>2. SetRow(k, row) /\ intents' = [intents EXCEPT ![k].status = is]
    BY <1>4 DEF Settle
  <2>3. /\ DOMAIN intents' = DOMAIN intents
        /\ \A j \in DOMAIN intents : j # k => intents'[j] = intents[j]
        /\ intents'[k] = [intents[k] EXCEPT !.status = is]
    BY <1>2, <2>2
  <2>4. intents'[k] \in IntentRows /\ intents'[k].qty = intents[k].qty /\ intents'[k].status = is
    BY <1>3, <2>3 DEF IntentRows
  <2> HIDE DEF row
  <2> QED BY <1>1, <1>4, <2>1, <2>2, <2>3, <2>4, InvReport
<1>5. CASE CompleteOutbox(w)
  BY <1>4, <1>5 DEF CompleteOutbox, OutboxStatuses, IntentStatuses
<1>6. CASE FailOutbox(w)
  BY <1>4, <1>6 DEF FailOutbox, OutboxStatuses, IntentStatuses
<1> QED BY <1>5, <1>6

\* A retry may reopen any row, a settled one too; the intent keeps its status.
LEMMA InvRetry ==
    ASSUME OutboxInv, NEW w \in Workers, ScheduleRetry(w)
    PROVE  OutboxInv'
<1> DEFINE k == job[w]
           row == Retried(outbox[k])
<1>1. result[w] # "none" /\ Report(w) /\ SetRow(k, row) /\ intents' = intents
      /\ outbox[k].attempts < MaxAttempts
  BY DEF ScheduleRetry
<1>2. k \in DOMAIN outbox /\ k \in DOMAIN intents
  BY <1>1, Reporter
<1>3. outbox[k] \in OutboxRows /\ intents[k] \in IntentRows
  BY <1>2 DEF OutboxInv, OutboxTypeOK, TypeOK
<1>4. row \in OutboxRows /\ row.status = "uncertain"
  <2>1. outbox[k].attempts + 1 \in 0..MaxAttempts
    BY <1>1, <1>3, OutboxAssumption DEF OutboxRows, OutboxAssumption
  <2> QED BY <1>3, <2>1 DEF OutboxRows, OutboxStatuses, Retried
<1> HIDE DEF row
<1> QED BY <1>1, <1>2, <1>3, <1>4, InvReport

LEMMA InvSend ==
    ASSUME OutboxInv, NEW w \in Workers, Send(w)
    PROVE  OutboxInv'
<1>1. /\ ~Idle(w)
      /\ UNCHANGED <<ledgerVars, job, crashes>>
      /\ placed' \in {placed, placed \cup {job[w]}}
      /\ \E answer \in {"accepted", "rejected", "unknown"} : result' = [result EXCEPT ![w] = answer]
  BY DEF Send
<1>2. job[w] \in DOMAIN outbox
  BY <1>1 DEF OutboxInv, OutboxTypeOK, Idle
<1>3. TypeOK' /\ CountersMatchLedger' /\ OneEntryPerIntent'
  <2>1. UNCHANGED ledgerVars
    BY <1>1
  <2> QED
    BY <2>1 DEF OutboxInv, OutboxTypeOK, ledgerVars, TypeOK, CountersMatchLedger,
                OneEntryPerIntent, FillKey, NeedsCounter
<1>4. OutboxTypeOK'
  BY <1>1, <1>2, <1>3 DEF OutboxInv, OutboxTypeOK, ledgerVars, Results
<1>5. IdleKnowsNothing'
  BY <1>1 DEF OutboxInv, OutboxTypeOK, IdleKnowsNothing, Idle
<1>6. ClosedRowsAgree' /\ LeasesRunOut'
  BY <1>1 DEF OutboxInv, ClosedRowsAgree, LeasesRunOut, ledgerVars
<1> QED BY <1>3, <1>4, <1>5, <1>6 DEF OutboxInv

LEMMA InvCrash ==
    ASSUME OutboxInv, NEW w \in Workers, Crash(w)
    PROVE  OutboxInv'
<1>1. /\ UNCHANGED <<ledgerVars, placed>>
      /\ crashes < MaxCrashes /\ crashes' = crashes + 1
      /\ job' = [job EXCEPT ![w] = <<>>]
      /\ result' = [result EXCEPT ![w] = "none"]
  BY DEF Crash
<1>2. TypeOK' /\ CountersMatchLedger' /\ OneEntryPerIntent'
  <2>1. UNCHANGED ledgerVars
    BY <1>1
  <2> QED
    BY <2>1 DEF OutboxInv, OutboxTypeOK, ledgerVars, TypeOK, CountersMatchLedger,
                OneEntryPerIntent, FillKey, NeedsCounter
<1>3. crashes' \in 0..MaxCrashes
  BY <1>1, OutboxAssumption DEF OutboxInv, OutboxTypeOK, OutboxAssumption
<1>4. OutboxTypeOK'
  BY <1>1, <1>2, <1>3 DEF OutboxInv, OutboxTypeOK, ledgerVars, Results
<1>5. IdleKnowsNothing'
  BY <1>1 DEF OutboxInv, OutboxTypeOK, IdleKnowsNothing, Idle
<1>6. ClosedRowsAgree' /\ LeasesRunOut'
  BY <1>1 DEF OutboxInv, ClosedRowsAgree, LeasesRunOut, ledgerVars
<1> QED BY <1>2, <1>4, <1>5, <1>6 DEF OutboxInv

\* A lease may lapse under a worker that still works on the row.
LEMMA InvTime ==
    ASSUME OutboxInv, NEW k \in DOMAIN outbox, LeaseLapses(k) \/ BecomesDue(k)
    PROVE  OutboxInv'
<1>1. outbox[k] \in OutboxRows
  BY DEF OutboxInv, OutboxTypeOK
<1>2. PICK row \in OutboxRows :
        /\ outbox' = [outbox EXCEPT ![k] = row]
        /\ row.status = outbox[k].status
        /\ row.lease = outbox[k].lease \/ row.lease = "lapsed"
  <2>1. CASE LeaseLapses(k)
    <3> DEFINE row == [outbox[k] EXCEPT !.lease = "lapsed"]
    <3>1. row \in OutboxRows /\ row.status = outbox[k].status /\ row.lease = "lapsed"
      BY <1>1 DEF OutboxRows
    <3>2. outbox' = [outbox EXCEPT ![k] = row]
      BY <2>1 DEF LeaseLapses, SetRow
    <3> QED BY <3>1, <3>2
  <2>2. CASE BecomesDue(k)
    <3> DEFINE row == [outbox[k] EXCEPT !.due = TRUE]
    <3>1. row \in OutboxRows /\ row.status = outbox[k].status /\ row.lease = outbox[k].lease
      BY <1>1 DEF OutboxRows
    <3>2. outbox' = [outbox EXCEPT ![k] = row]
      BY <2>2 DEF BecomesDue, SetRow
    <3> QED BY <3>1, <3>2
  <2> QED BY <2>1, <2>2
<1>3. UNCHANGED <<executed, ledger, watermark, position, intents, outboxVars>>
  BY DEF LeaseLapses, BecomesDue
<1>4. TypeOK' /\ CountersMatchLedger' /\ OneEntryPerIntent'
  <2>1. \A j \in DOMAIN intents : intents[j] \in IntentRows
    BY DEF OutboxInv, OutboxTypeOK, TypeOK
  <2> QED BY <1>2, <1>3, <2>1, LedgerFactsKept
<1>5. OutboxTypeOK' /\ IdleKnowsNothing'
  BY <1>2, <1>3, <1>4 DEF OutboxInv, OutboxTypeOK, outboxVars, IdleKnowsNothing, Idle
<1>6. ClosedRowsAgree' /\ LeasesRunOut'
  BY <1>2, <1>3 DEF OutboxInv, ClosedRowsAgree, LeasesRunOut
<1> QED BY <1>4, <1>5, <1>6 DEF OutboxInv

LEMMA OutboxInvNext == OutboxInv /\ [OutboxNext]_vars => OutboxInv'
<1> SUFFICES ASSUME OutboxInv, [OutboxNext]_vars PROVE OutboxInv'
  OBVIOUS
<1>1. CASE LedgerStep
  BY <1>1, InvLedgerStep
<1>2. ASSUME NEW w \in Workers, WorkerStep(w) PROVE OutboxInv'
  BY <1>2, InvSend, InvSettle, InvRetry DEF WorkerStep
<1>3. ASSUME NEW w \in Workers, ClaimStep(w) PROVE OutboxInv'
  BY <1>3, InvClaim DEF ClaimStep
<1>4. ASSUME NEW w \in Workers, Crash(w) PROVE OutboxInv'
  BY <1>4, InvCrash
<1>5. CASE RecoverExpiredLeases
  BY <1>5, InvRecover
<1>6. CASE TimeStep
  BY <1>6, InvTime DEF TimeStep
<1>7. CASE UNCHANGED vars
  <2>1. UNCHANGED ledgerVars /\ UNCHANGED outboxVars
    BY <1>7 DEF vars
  <2>2. TypeOK' /\ CountersMatchLedger' /\ OneEntryPerIntent'
    BY <2>1 DEF OutboxInv, OutboxTypeOK, ledgerVars, TypeOK, CountersMatchLedger,
                OneEntryPerIntent, FillKey, NeedsCounter
  <2> QED
    BY <2>1, <2>2 DEF OutboxInv, OutboxTypeOK, IdleKnowsNothing, ClosedRowsAgree,
                      LeasesRunOut, Idle, ledgerVars, outboxVars
<1> QED
  BY <1>1, <1>2, <1>3, <1>4, <1>5, <1>6, <1>7 DEF OutboxNext

LEMMA OutboxInvariant == OutboxSpec => []OutboxInv
<1> QED
  BY OutboxInvNext, OutboxInvInit, PTL DEF OutboxSpec

\* Whoever reports late, a closed row has an intent that ended the same way:
\* no counter order leaves the claims without its outcome.
THEOREM OutcomesAgree == OutboxSpec => []ClosedRowsAgree
<1>1. OutboxInv => ClosedRowsAgree
  BY DEF OutboxInv
<1> QED
  BY <1>1, OutboxInvariant, PTL

\* Neither a dead worker nor an uncertain COMMIT nor a late report leaves a row
\* that no claim and no recovery scan would ever pick up.
THEOREM RowsAreNotStranded == OutboxSpec => []NoRowIsStranded
<1>1. OutboxInv => NoRowIsStranded
  <2> SUFFICES ASSUME OutboxInv, NEW k \in DOMAIN outbox, outbox[k].status \notin Settled
               PROVE  \/ Claimable(Later(outbox[k]))
                      \/ /\ Expired(Later(outbox[k]))
                         /\ Claimable(Recovered(Later(outbox[k])))
    BY DEF NoRowIsStranded
  <2> DEFINE row == Later(outbox[k])
  <2>1. outbox[k] \in OutboxRows
    BY DEF OutboxInv, OutboxTypeOK
  <2>2. /\ row \in OutboxRows /\ row.status = outbox[k].status /\ row.due
        /\ row.lease # "live"
        /\ row.lease = "none" => outbox[k].lease = "none"
    BY <2>1 DEF OutboxRows, Later
  <2>3. row.status \in {"pending", "uncertain", "leased"}
    BY <2>2 DEF OutboxRows, OutboxStatuses, Settled
  <2> HIDE DEF row
  <2>4. CASE row.status = "leased"
    <3>1. Expired(row)
      BY <2>2, <2>4 DEF OutboxInv, LeasesRunOut, Expired, OutboxRows
    <3>2. Recovered(row).status = "pending" /\ Recovered(row).due /\ Recovered(row).lease = "none"
      BY <2>2 DEF Recovered, OutboxRows
    <3>3. Claimable(Recovered(row))
      BY <3>2 DEF Claimable
    <3> QED
      BY <3>1, <3>3 DEF row
  <2>5. CASE row.status # "leased"
    <3>1. Claimable(row)
      BY <2>2, <2>3, <2>5 DEF Claimable
    <3> QED
      BY <3>1 DEF row
  <2> QED
    BY <2>4, <2>5
<1> QED
  BY <1>1, OutboxInvariant, PTL

\* While a lease runs, neither a claim nor the recovery scan takes the row from
\* its owner; only a report on it does, by whichever worker was given the row.
THEOREM LeasesAreRespected == OutboxSpec => LeaseIsRespected
<1> DEFINE Live(k) == outbox[k].status = "leased" /\ outbox[k].lease = "live"
           Kept(k) == outbox'[k].status = "leased" /\ outbox'[k].owner = outbox[k].owner
           Respected == \A k \in DOMAIN outbox : Live(k) /\ ~LetsGo(k) => Kept(k)
<1>1. OutboxInv /\ [OutboxNext]_vars => [Respected]_vars
  <2> SUFFICES ASSUME OutboxInv, OutboxNext, NEW k \in DOMAIN outbox, Live(k), ~LetsGo(k)
               PROVE  Kept(k)
    OBVIOUS
  <2>0. outbox[k] \in OutboxRows
    BY DEF OutboxInv, OutboxTypeOK
  <2>1. CASE LedgerStep
    <3>1. outbox'[k] = outbox[k]
      BY <2>1, LedgerRowsGrow DEF LedgerStep, OutboxInv, OutboxTypeOK
    <3> QED BY <3>1
  <2>2. ASSUME NEW w \in Workers, CompleteOutbox(w) \/ FailOutbox(w) \/ ScheduleRetry(w)
        PROVE  Kept(k)
    <3>1. job'[w] = <<>>
      BY <2>2 DEF CompleteOutbox, FailOutbox, ScheduleRetry, Report, OutboxInv, OutboxTypeOK
    <3>2. job[w] # k
      BY <3>1 DEF LetsGo, Holds
    <3>3. outbox'[k] = outbox[k]
      BY <2>2, <3>2 DEF CompleteOutbox, FailOutbox, ScheduleRetry, Settle, SetRow
    <3> QED BY <3>3
  <2>3. ASSUME NEW w \in Workers, Send(w) \/ Crash(w) PROVE Kept(k)
    BY <2>3 DEF Send, Crash, ledgerVars
  <2>4. ASSUME NEW w \in Workers, ClaimStep(w) PROVE Kept(k)
    <3>1. PICK j \in DOMAIN outbox, told \in BOOLEAN : ClaimOutbox(w, j, told)
      BY <2>4 DEF ClaimStep
    <3>2. j # k /\ outbox' = [outbox EXCEPT ![j] = Leased(outbox[j], w)]
      BY <3>1 DEF ClaimOutbox, Claimable, SetRow
    <3>3. outbox'[k] = outbox[k]
      BY <3>2
    <3> QED BY <3>3
  <2>5. CASE RecoverExpiredLeases
    <3>1. outbox'[k] = outbox[k]
      BY <2>5 DEF RecoverExpiredLeases, Expired
    <3> QED BY <3>1
  <2>6. CASE TimeStep
    <3>1. PICK j \in DOMAIN outbox : LeaseLapses(j) \/ BecomesDue(j)
      BY <2>6 DEF TimeStep
    <3>2. CASE LeaseLapses(j)
      BY <2>0, <3>2 DEF LeaseLapses, SetRow, OutboxRows
    <3>3. CASE BecomesDue(j)
      BY <2>0, <3>3 DEF BecomesDue, SetRow, OutboxRows
    <3> QED BY <3>1, <3>2, <3>3
  <2> QED
    BY <2>1, <2>2, <2>3, <2>4, <2>5, <2>6 DEF OutboxNext, WorkerStep
<1> QED
  BY <1>1, OutboxInvNext, OutboxInvInit, PTL DEF OutboxSpec, LeaseIsRespected

\* An intent that has ended never becomes pending again, through late reports,
\* reopened rows and new attempts.
THEOREM EndedIntentsStay == OutboxSpec => IntentsStayEnded
<1> DEFINE Kept == \A k \in DOMAIN intents :
                      intents[k].status # "pending" => intents'[k].status # "pending"
<1>1. OutboxInv /\ [OutboxNext]_vars => [Kept]_vars
  <2> SUFFICES ASSUME OutboxInv, OutboxNext, NEW k \in DOMAIN intents,
                      intents[k].status # "pending"
               PROVE  intents'[k].status # "pending"
    OBVIOUS
  <2>1. CASE LedgerStep
    BY <2>1, LedgerRowsGrow DEF LedgerStep, OutboxInv, OutboxTypeOK, OneEntryPerIntent
  <2>2. ASSUME NEW w \in Workers, CompleteOutbox(w) \/ FailOutbox(w)
        PROVE  intents'[k].status # "pending"
    <3>1. PICK status \in {"confirmed", "safe-failure-terminal"} :
             intents' = [intents EXCEPT ![job[w]].status = status]
      BY <2>2 DEF CompleteOutbox, FailOutbox, Settle
    <3>2. intents[k] \in IntentRows
      BY DEF OutboxInv, OutboxTypeOK, TypeOK
    <3>3. intents'[k] = intents[k] \/ intents'[k] = [intents[k] EXCEPT !.status = status]
      BY <3>1
    <3>4. CASE intents'[k] = [intents[k] EXCEPT !.status = status]
      BY <3>2, <3>4 DEF IntentRows
    <3> QED
      BY <3>3, <3>4
  <2>3. ASSUME NEW w \in Workers, ScheduleRetry(w) \/ Send(w) \/ Crash(w) \/ ClaimStep(w)
        PROVE  intents'[k].status # "pending"
    BY <2>3 DEF ScheduleRetry, Send, Crash, ClaimStep, ClaimOutbox, ledgerVars
  <2>4. CASE RecoverExpiredLeases \/ TimeStep
    BY <2>4 DEF RecoverExpiredLeases, TimeStep, LeaseLapses, BecomesDue
  <2> QED
    BY <2>1, <2>2, <2>3, <2>4 DEF OutboxNext, WorkerStep
<1> QED
  BY <1>1, OutboxInvNext, OutboxInvInit, PTL DEF OutboxSpec, IntentsStayEnded

-----------------------------------------------------------------------------
(***************************************************************************)
(* What the workers do leaves the ledger's promises as they are, also when *)
(* leases lapse under workers that live.                                   *)
(***************************************************************************)
LedgerInv ==
    /\ TypeOK
    /\ EveryLotBookedOnce
    /\ PositionBounds
    /\ CountersMatchLedger
    /\ OneEntryPerIntent

\* A step of a worker, of the clock or of the recovery scan writes neither the
\* ledger nor the position, and neither adds a row nor changes how much an
\* intent is for.
LEMMA DispatchWrites ==
    ASSUME TypeOK, OutboxNext, ~LedgerStep
    PROVE  /\ UNCHANGED <<executed, ledger, watermark, position>>
           /\ DOMAIN intents' = DOMAIN intents
           /\ DOMAIN outbox' = DOMAIN outbox
           /\ \A k \in DOMAIN intents :
                 intents'[k] \in IntentRows /\ intents'[k].qty = intents[k].qty
<1>1. \A k \in DOMAIN intents : intents[k] \in IntentRows
  BY DEF TypeOK
<1>2. ASSUME NEW w \in Workers, Send(w) \/ Crash(w)
      PROVE  UNCHANGED ledgerVars
  BY <1>2 DEF Send, Crash
<1>3. ASSUME NEW w \in Workers, ClaimStep(w)
      PROVE  /\ UNCHANGED <<executed, ledger, watermark, position, intents>>
             /\ DOMAIN outbox' = DOMAIN outbox
  <2>1. PICK k \in DOMAIN outbox, told \in BOOLEAN : ClaimOutbox(w, k, told)
    BY <1>3 DEF ClaimStep
  <2> QED
    BY <2>1 DEF ClaimOutbox, SetRow
<1>4. ASSUME NEW w \in Workers, ScheduleRetry(w)
      PROVE  /\ UNCHANGED <<executed, ledger, watermark, position, intents>>
             /\ DOMAIN outbox' = DOMAIN outbox
  BY <1>4 DEF ScheduleRetry, Report, SetRow
<1>5. CASE RecoverExpiredLeases
  BY <1>1, <1>5 DEF RecoverExpiredLeases
<1>6. CASE TimeStep
  BY <1>1, <1>6 DEF TimeStep, LeaseLapses, BecomesDue, SetRow
<1>7. ASSUME NEW w \in Workers, CompleteOutbox(w) \/ FailOutbox(w)
      PROVE  /\ UNCHANGED <<executed, ledger, watermark, position>>
             /\ DOMAIN intents' = DOMAIN intents
             /\ DOMAIN outbox' = DOMAIN outbox
             /\ \A k \in DOMAIN intents :
                   intents'[k] \in IntentRows /\ intents'[k].qty = intents[k].qty
  <2>1. PICK rs \in OutboxStatuses, is \in IntentStatuses : Settle(job[w], rs, is) /\ Report(w)
    BY <1>7 DEF CompleteOutbox, FailOutbox, OutboxStatuses, IntentStatuses
  <2>2. /\ UNCHANGED <<executed, ledger, watermark, position>>
        /\ DOMAIN intents' = DOMAIN intents
        /\ DOMAIN outbox' = DOMAIN outbox
    BY <2>1 DEF Settle, Report, SetRow
  <2>3. ASSUME NEW k \in DOMAIN intents
        PROVE  intents'[k] \in IntentRows /\ intents'[k].qty = intents[k].qty
    <3>1. intents' = [intents EXCEPT ![job[w]].status = is]
      BY <2>1 DEF Settle
    <3>2. intents'[k] = intents[k] \/ intents'[k] = [intents[k] EXCEPT !.status = is]
      BY <3>1
    <3> QED
      BY <1>1, <3>2 DEF IntentRows
  <2> QED
    BY <2>2, <2>3
<1> QED
  BY <1>1, <1>2, <1>3, <1>4, <1>5, <1>6, <1>7 DEF OutboxNext, WorkerStep, ledgerVars

LEMMA LedgerInvInit == OutboxInit => LedgerInv
BY TypeInit, TilingInit, PositionInit, CountersInit DEF OutboxInit, LedgerInv

LEMMA LedgerInvNext == LedgerInv /\ [OutboxNext]_vars => LedgerInv'
<1> SUFFICES ASSUME LedgerInv, [OutboxNext]_vars PROVE LedgerInv'
  OBVIOUS
<1>1. CASE LedgerStep \/ UNCHANGED vars
  <2>1. [Next]_ledgerVars
    BY <1>1 DEF LedgerStep, vars
  <2> QED
    BY <2>1, TypeNext, TilingNext, PositionNext, CountersNext DEF LedgerInv
<1>2. CASE OutboxNext /\ ~LedgerStep
  <2>1. /\ UNCHANGED <<executed, ledger, watermark, position>>
        /\ DOMAIN intents' = DOMAIN intents
        /\ DOMAIN outbox' = DOMAIN outbox
        /\ \A k \in DOMAIN intents :
              intents'[k] \in IntentRows /\ intents'[k].qty = intents[k].qty
    BY <1>2, DispatchWrites DEF LedgerInv
  <2>2. TypeOK' /\ CountersMatchLedger' /\ OneEntryPerIntent'
    BY <2>1 DEF LedgerInv, TypeOK, CountersMatchLedger, OneEntryPerIntent, FillKey, NeedsCounter
  <2>3. EveryLotBookedOnce'
    BY <2>1 DEF LedgerInv, EveryLotBookedOnce, RowsOf, Units
  <2>4. PositionBounds'
    BY <2>1, PositionKept DEF LedgerInv
  <2> QED
    BY <2>2, <2>3, <2>4 DEF LedgerInv
<1> QED
  BY <1>1, <1>2

\* However the workers dispatch, retry, crash and overrun their leases, every
\* observed lot stays booked once, the position bounded, and the counter orders
\* are exactly those of the eligible BUY fills.
THEOREM LedgerSurvivesDispatch ==
    OutboxSpec => [](EveryLotBookedOnce /\ PositionBounds /\ CountersMatchLedger /\ OneEntryPerIntent)
<1>1. LedgerInv => EveryLotBookedOnce /\ PositionBounds /\ CountersMatchLedger /\ OneEntryPerIntent
  BY DEF LedgerInv
<1> QED
  BY <1>1, LedgerInvInit, LedgerInvNext, PTL DEF OutboxSpec

\* The ledger with its outbox still implements the abstract promise: what the
\* workers do is invisible to it.
THEOREM OutboxImplementsCoverage == OutboxSpec => ImplementsCoverage
<1>1. LedgerInv /\ [OutboxNext]_vars => [Coverage!AbsNext]_(Coverage!absVars)
  <2> SUFFICES ASSUME LedgerInv, [OutboxNext]_vars
               PROVE  [Coverage!AbsNext]_(Coverage!absVars)
    OBVIOUS
  <2>1. CASE LedgerStep \/ UNCHANGED vars
    <3>1. [Next]_ledgerVars
      BY <2>1 DEF LedgerStep, vars
    <3> QED
      BY <3>1, CoverageNext DEF LedgerInv
  <2>2. CASE OutboxNext /\ ~LedgerStep
    <3>1. UNCHANGED <<executed, ledger>> /\ DOMAIN intents' = DOMAIN intents
      BY <2>2, DispatchWrites DEF LedgerInv
    <3> QED
      BY <3>1 DEF Coverage!absVars, BookedUnits, CounteredUnits, CounteredRows, RowsOf, Units, FillKey
  <2> QED
    BY <2>1, <2>2
<1>2. OutboxInit => Coverage!AbsInit
  BY CoverageInit DEF OutboxInit
<1> QED
  BY <1>1, <1>2, LedgerInvInit, LedgerInvNext, PTL DEF OutboxSpec, ImplementsCoverage, Coverage!AbsSpec
=============================================================================
