--------------------------- MODULE TradingLoopProofs ---------------------------
(***************************************************************************)
(* Proofs about TradingLoop, for any number of orders, lots and events.    *)
(* The inductive invariant says that what a cleanup or a branch of the     *)
(* loop is about to cancel is owned by the program as long as it is open,  *)
(* that a cleanup without failures has every owned order before it, and    *)
(* that nothing else is at work before the loops start.  A second one, on  *)
(* top of it, says that the balance covers the open SELL orders, the BUYs  *)
(* on their way to the callback and the tracked position.                  *)
(***************************************************************************)
EXTENDS TradingLoop, SequenceTheorems, FiniteSetTheorems, WellFoundedInduction, Sums

Phases == Booting \cup {"down", "running"}
Sweeps == [todo : SUBSET Ids, failed : BOOLEAN]
Positions == [qty : Nat, age : {"fresh", "old", "expired"}]
Steps == {"idle", "ticker", "list", "cancel", "place", "market", "clear"}
Whys == {"none", "downtrend", "track", "skew", "decay", "exit"}
Jobs == [pos : Positions, why : Whys, todo : SUBSET Ids]
Events == [side : {"buy", "sell"}, qty : Nat]
Orders == [side : {"none", "BUY", "SELL"}, left : Nat, bot : BOOLEAN]

\* The types the proofs rely on.
LoopTypes ==
    /\ phase \in Phases /\ sweep \in Sweeps /\ balance \in Nat
    /\ pos \in Positions
    /\ step \in Steps /\ job \in Jobs
    /\ reports \in Seq(Events) /\ hand \in Events \cup {NoReport}
    /\ coins \in Int

OrderTypes == orders \in [Ids -> Orders]

Todo == job.todo \cup sweep.todo

\* Neither callback nor loop is at work before they are started.
NotYet == ~Running => hand = NoReport /\ step = "idle"

\* What is about to be cancelled is an order of the program, or no longer open.
TodoOwned == \A o \in Todo : Open(o) => orders[o].bot

\* A cleanup in which no call has failed has every owned order before it.
SweepCovers ==
    phase \in {"cancel", "cancel again"} /\ ~sweep.failed
        => \A o \in Ids : Owned(o) => o \in sweep.todo

LoopInv == LoopTypes /\ OrderTypes /\ NotYet /\ TodoOwned /\ SweepCovers /\ CleanStart

\* An order placed by hand goes only when something trades.
Preserved == \A o \in Ids : Open(o) /\ ~orders[o].bot /\ ~Open(o)' => coins' # coins

\* What a step may do to the orders.
OrdersGo ==
    /\ orders' \in [Ids -> Orders]
    /\ \A o \in Todo : Open(o)' => Open(o) /\ orders'[o].bot = orders[o].bot
    /\ ~Running => \A o \in Ids : Owned(o)' => Owned(o)
    /\ Preserved

-----------------------------------------------------------------------------
(* The exchange *)

\* The first free slot is a free slot.
LEMMA MinIsThere ==
    ASSUME NEW S \in SUBSET Nat, S # {}
    PROVE  Min(S) \in S
<1>1. PICK x \in S : \A y \in S : ~(<<y, x>> \in OpToRel(<, Nat))
  <2>1. S \subseteq Nat
    OBVIOUS
  <2> QED
    BY <2>1, WFMin, NatLessThanWellFounded
<1>2. \A y \in S : <<y, x>> \in Nat \X Nat
  BY SMT
<1>3. \A y \in S : ~(y < x)
  BY <1>1, <1>2, Zenon DEF OpToRel
<1>4. \A y \in S : x <= y
  BY <1>3
<1> QED
  BY <1>4 DEF Min

LEMMA IdsAreNat == Ids \subseteq Nat
BY TradingLoopAssumption DEF Ids, TradingLoopAssumption

LEMMA TodoIds == ASSUME LoopTypes PROVE Todo \subseteq Ids
BY DEF LoopTypes, Todo, Jobs, Sweeps

LEMMA OrdersStay == ASSUME LoopInv, orders' = orders PROVE OrdersGo
BY DEF LoopInv, OrderTypes, OrdersGo, Preserved, Open, Owned

LEMMA AcceptGo ==
    ASSUME LoopInv, NEW side \in {"BUY", "SELL"}, NEW lots \in Nat, NEW bot \in BOOLEAN,
           bot => Running, PlaceOrder(side, lots, bot)
    PROVE  OrdersGo
<1>1. CASE orders' = orders
  BY <1>1, OrdersStay
<1>2. CASE Accept(side, lots, bot)
  <2> DEFINE x == Min(Slots)
             new == [side |-> side, left |-> lots, bot |-> bot]
  <2>1. Slots \in SUBSET Nat /\ Slots # {}
    BY <1>2, IdsAreNat DEF Accept, Slots
  <2>2. x \in Slots
    BY <2>1, MinIsThere
  <2>3. orders' = [orders EXCEPT ![x] = new]
    BY <1>2 DEF Accept
  <2> HIDE DEF x
  <2>4. x \in Ids /\ ~Open(x) /\ x \notin Todo
    BY <2>2 DEF Slots, Todo
  <2>5. new \in Orders
    BY DEF Orders
  <2>6. orders' \in [Ids -> Orders]
    BY <2>3, <2>5 DEF LoopInv, OrderTypes
  <2>7. \A o \in Ids : o # x => orders'[o] = orders[o]
    BY <2>3 DEF LoopInv, OrderTypes
  <2>8. orders'[x].bot = bot
    BY <2>3, <2>4 DEF LoopInv, OrderTypes
  <2>9. \A o \in Todo : Open(o)' => Open(o) /\ orders'[o].bot = orders[o].bot
    BY <2>4, <2>7, TodoIds DEF Open, LoopInv
  <2>10. ~Running => \A o \in Ids : Owned(o)' => Owned(o)
    BY <2>7, <2>8 DEF Open, Owned
  <2>11. Preserved
    BY <2>4, <2>7 DEF Open, Preserved
  <2> QED
    BY <2>6, <2>9, <2>10, <2>11 DEF OrdersGo
<1> QED
  BY <1>1, <1>2 DEF PlaceOrder

LEMMA CancelGo ==
    ASSUME LoopInv, NEW o \in Ids, o \in Todo \/ Owned(o), CancelOrder(o)
    PROVE  OrdersGo
<1>1. CASE orders' = orders
  BY <1>1, OrdersStay
<1>2. CASE orders' = [orders EXCEPT ![o] = NoOrder]
  <2>1. NoOrder \in Orders /\ NoOrder.left = 0
    BY DEF NoOrder, Orders
  <2>2. orders' \in [Ids -> Orders]
    BY <1>2, <2>1 DEF LoopInv, OrderTypes
  <2>3. \A p \in Ids : p # o => orders'[p] = orders[p]
    BY <1>2 DEF LoopInv, OrderTypes
  <2>4. ~Open(o)'
    BY <1>2, <2>1 DEF LoopInv, OrderTypes, Open
  <2>5. \A p \in Ids : p # o => (Open(p)' <=> Open(p)) /\ orders'[p].bot = orders[p].bot
    BY <2>3 DEF Open
  <2>6. \A p \in Todo : Open(p)' => Open(p) /\ orders'[p].bot = orders[p].bot
    BY <2>4, <2>5, TodoIds DEF LoopInv
  <2>7. \A p \in Ids : Owned(p)' => Owned(p)
    BY <2>4, <2>5 DEF Owned
  <2>8. Open(o) => orders[o].bot
    BY DEF LoopInv, TodoOwned, Owned
  <2>9. Preserved
    BY <2>5, <2>8 DEF Preserved
  <2> QED
    BY <2>2, <2>6, <2>7, <2>9 DEF OrdersGo
<1> QED
  BY <1>1, <1>2 DEF CancelOrder

LEMMA FillGo == ASSUME LoopInv, NEW o \in Ids, Fill(o) PROVE OrdersGo
<1>1. PICK lots \in 1..orders[o].left :
          /\ orders' = [orders EXCEPT ![o] = IF lots = @.left THEN NoOrder
                ELSE [side |-> @.side, left |-> @.left - lots, bot |-> @.bot]]
          /\ coins' \in {coins + lots, coins - lots}
  BY DEF Fill
<1>2. orders[o] \in Orders /\ coins \in Int
  BY DEF LoopInv, LoopTypes, OrderTypes
<1>3. lots \in Nat /\ lots > 0 /\ lots <= orders[o].left
  BY <1>1, <1>2 DEF Orders
<1>4. coins' # coins
  BY <1>1, <1>2, <1>3
<1> DEFINE new == IF lots = orders[o].left THEN NoOrder
                  ELSE [side |-> orders[o].side, left |-> orders[o].left - lots,
                        bot |-> orders[o].bot]
<1>5. orders' = [orders EXCEPT ![o] = new]
  BY <1>1
<1>6. new \in Orders /\ (new.left > 0 => new.bot = orders[o].bot)
  BY <1>2, <1>3 DEF Orders, NoOrder
<1> HIDE DEF new
<1>7. orders' \in [Ids -> Orders]
  BY <1>5, <1>6 DEF LoopInv, OrderTypes
<1>8. \A p \in Ids : p # o => orders'[p] = orders[p]
  BY <1>5 DEF LoopInv, OrderTypes
<1>9. Open(o) /\ (Open(o)' => orders'[o].bot = orders[o].bot)
  BY <1>5, <1>6 DEF LoopInv, OrderTypes, Open, Fill
<1>10. \A p \in Ids : Open(p)' => Open(p) /\ orders'[p].bot = orders[p].bot
  BY <1>8, <1>9 DEF Open
<1>11. \A p \in Todo : Open(p)' => Open(p) /\ orders'[p].bot = orders[p].bot
  BY <1>10, TodoIds DEF LoopInv
<1>12. \A p \in Ids : Owned(p)' => Owned(p)
  BY <1>10 DEF Owned
<1> QED
  BY <1>4, <1>7, <1>11, <1>12 DEF OrdersGo, Preserved

-----------------------------------------------------------------------------
(* What a step keeps that leaves the startup alone *)

LEMMA Frame ==
    ASSUME LoopInv, OrdersGo, phase' = phase, sweep' = sweep, job'.todo \subseteq job.todo
    PROVE  OrderTypes' /\ TodoOwned' /\ SweepCovers' /\ CleanStart'
<1>1. OrderTypes'
  BY DEF OrdersGo, OrderTypes
<1>2. Todo' \subseteq Todo
  BY DEF Todo
<1>3. TodoOwned'
  BY <1>2 DEF OrdersGo, LoopInv, TodoOwned
<1>4. phase # "running" => \A o \in Ids : Owned(o)' => Owned(o)
  BY DEF OrdersGo, Running
<1>5. SweepCovers'
  BY <1>4 DEF LoopInv, SweepCovers
<1>6. CleanStart'
  BY <1>4 DEF LoopInv, CleanStart
<1> QED
  BY <1>1, <1>3, <1>5, <1>6

LEMMA GotoTypes ==
    ASSUME LoopTypes, NEW s \in Steps, NEW w \in Whys, NEW todo \in SUBSET Ids, Goto(s, w, todo)
    PROVE  step' \in Steps /\ job' \in Jobs /\ job'.todo = todo
<1>1. job.pos \in Positions
  BY DEF LoopTypes, Jobs
<1>2. [job.pos EXCEPT !.age = "fresh"] \in Positions
  BY <1>1 DEF Positions
<1> QED
  BY <1>2 DEF Goto, Jobs

LEMMA CycleEndsTypes ==
    ASSUME CycleEnds
    PROVE  step' \in Steps /\ job' \in Jobs /\ job'.todo = {}
BY DEF CycleEnds, Idle, NoPos, Steps, Jobs, Positions, Whys

LEMMA ReportTypes ==
    ASSUME LoopTypes, NEW side \in {"buy", "sell"}, NEW lots \in Nat, Report(side, lots)
    PROVE  reports' \in Seq(Events)
<1>1. [side |-> side, qty |-> lots] \in Events
  BY DEF Events
<1> QED
  BY <1>1, AppendProperties DEF Report, LoopTypes

LEMMA TrackerTypes ==
    ASSUME LoopTypes
    PROVE  /\ ClearPosition => pos' \in Positions
           /\ \A lots \in Nat : RecordBuy(lots) => pos' \in Positions
BY DEF ClearPosition, RecordBuy, NoPos, Positions

-----------------------------------------------------------------------------
LEMMA InitInv == Init => LoopInv
<1> SUFFICES ASSUME Init
             PROVE  LoopInv
  OBVIOUS
<1>1. LoopTypes
  <2>1. sweep \in Sweeps /\ pos \in Positions /\ job \in Jobs /\ phase \in Phases
    BY DEF Init, NoSweep, Sweeps, NoPos, Positions, Idle, Jobs, Whys, Phases
  <2>2. reports \in Seq(Events) /\ hand = NoReport /\ step = "idle" /\ coins = 0 /\ balance = 0
    BY DEF Init
  <2> QED
    BY <2>1, <2>2 DEF LoopTypes, Steps
<1>2. OrderTypes
  BY TradingLoopAssumption DEF Init, OrderTypes, Orders, NoOrder, TradingLoopAssumption
<1>3. Todo = {} /\ phase = "down" /\ hand = NoReport /\ step = "idle"
  BY DEF Init, Todo, Idle, NoSweep
<1> QED
  BY <1>1, <1>2, <1>3 DEF LoopInv, NotYet, TodoOwned, SweepCovers, CleanStart

-----------------------------------------------------------------------------
(* startup *)

LEMMA StartProgramStep == ASSUME LoopInv, StartProgram \/ ConnectPrivate \/ ReconcileOnce
                          PROVE  LoopInv'
<1>1. /\ UNCHANGED <<sweep, balance, pos, step, job, reports, hand, coins, orders>>
      /\ phase # "running" /\ phase' \in {"connect", "reconcile", "list"}
  BY DEF StartProgram, ConnectPrivate, ReconcileOnce, tracker, loop, socket, exchange
<1>2. LoopTypes' /\ OrderTypes'
  BY <1>1 DEF LoopInv, LoopTypes, OrderTypes, Phases, Booting
<1>3. NotYet' /\ SweepCovers' /\ CleanStart'
  BY <1>1 DEF LoopInv, NotYet, SweepCovers, CleanStart, Running
<1>4. TodoOwned'
  BY <1>1 DEF LoopInv, TodoOwned, Todo, Open
<1> QED
  BY <1>2, <1>3, <1>4 DEF LoopInv

LEMMA DiesStep == ASSUME LoopInv, Dies PROVE LoopInv'
<1>1. /\ sweep' = NoSweep /\ balance' = 0 /\ pos' = NoPos /\ step' = "idle" /\ job' = Idle
      /\ reports' = <<>> /\ hand' = NoReport
      /\ UNCHANGED <<orders, coins>> /\ phase' = "down"
  BY DEF Dies, Reset, exchange
<1>2. sweep' \in Sweeps /\ pos' \in Positions /\ job' \in Jobs /\ phase' \in Phases
  BY <1>1 DEF NoSweep, Sweeps, NoPos, Positions, Idle, Jobs, Whys, Phases
<1>3. LoopTypes' /\ OrderTypes'
  BY <1>1, <1>2 DEF LoopInv, LoopTypes, OrderTypes, Steps
<1>4. Todo' = {}
  BY <1>1 DEF Todo, Idle, NoSweep
<1>5. NotYet' /\ SweepCovers' /\ CleanStart' /\ TodoOwned'
  BY <1>1, <1>4 DEF NotYet, SweepCovers, CleanStart, TodoOwned
<1> QED
  BY <1>3, <1>5 DEF LoopInv

LEMMA SweepListStep ==
    ASSUME LoopInv, NEW from \in {"list", "list again"}, NEW to \in {"cancel", "cancel again"},
           SweepList(from, to)
    PROVE  LoopInv'
<1> DEFINE own == {o \in Ids : Owned(o)}
<1>1. /\ UNCHANGED <<balance, pos, step, job, reports, hand, coins, orders>>
      /\ phase \in {"list", "list again"} /\ phase' \in {"cancel", "cancel again"}
      /\ \/ sweep' = [todo |-> own, failed |-> FALSE]
         \/ sweep' = [todo |-> {}, failed |-> TRUE]
  BY DEF SweepList, tracker, loop, socket, exchange
<1>2. /\ own \in SUBSET Ids
      /\ \A o \in Ids : o \in own <=> Owned(o)
  OBVIOUS
<1> HIDE DEF own
<1>3. /\ sweep' \in Sweeps /\ sweep'.todo \subseteq own
      /\ ~sweep'.failed => sweep'.todo = own
  <2>1. CASE sweep' = [todo |-> own, failed |-> FALSE]
    BY <2>1, <1>2 DEF Sweeps
  <2>2. CASE sweep' = [todo |-> {}, failed |-> TRUE]
    BY <2>2 DEF Sweeps
  <2> QED
    BY <1>1, <2>1, <2>2
<1>4. LoopTypes' /\ OrderTypes'
  BY <1>1, <1>3 DEF LoopInv, LoopTypes, OrderTypes, Phases, Booting
<1>5. NotYet' /\ CleanStart'
  BY <1>1 DEF LoopInv, NotYet, CleanStart, Running
<1>6. TodoOwned'
  BY <1>1, <1>2, <1>3 DEF LoopInv, TodoOwned, Todo, Open, Owned
<1>7. \A o \in Ids : Owned(o)' <=> Owned(o)
  BY <1>1 DEF Owned, Open
<1>8. SweepCovers'
  BY <1>2, <1>3, <1>7 DEF SweepCovers
<1> QED
  BY <1>4, <1>5, <1>6, <1>8 DEF LoopInv

LEMMA SweepCancelStep ==
    ASSUME LoopInv, NEW at \in {"cancel", "cancel again"}, SweepCancel(at)
    PROVE  LoopInv'
<1>1. PICK o \in sweep.todo :
          /\ CancelOrder(o)
          /\ sweep' = [todo |-> sweep.todo \ {o}, failed |-> sweep.failed \/ Open(o)']
          /\ UNCHANGED <<phase, balance, pos, step, job, reports, hand, coins>>
  BY DEF SweepCancel, tracker, loop, socket
<1>2. phase \in {"cancel", "cancel again"}
  BY DEF SweepCancel
<1>3. o \in Ids /\ o \in Todo
  BY DEF LoopInv, LoopTypes, Sweeps, Todo
<1>4. OrdersGo
  BY <1>1, <1>3, CancelGo
<1>5. sweep' \in Sweeps
  BY <1>1 DEF LoopInv, LoopTypes, Sweeps, Open
<1>6. LoopTypes' /\ OrderTypes'
  BY <1>1, <1>4, <1>5 DEF LoopInv, LoopTypes, OrderTypes, OrdersGo
<1>7. NotYet' /\ CleanStart'
  BY <1>1, <1>2 DEF LoopInv, NotYet, CleanStart, Running
<1>8. TodoOwned'
  <2>1. Todo' \subseteq Todo
    BY <1>1 DEF Todo
  <2> QED
    BY <1>4, <2>1 DEF OrdersGo, LoopInv, TodoOwned
<1>9. SweepCovers'
  <2> SUFFICES ASSUME ~sweep'.failed, NEW p \in Ids, Owned(p)'
               PROVE  p \in sweep'.todo
    BY DEF SweepCovers
  <2>1. ~sweep.failed /\ ~Open(o)'
    BY <1>1
  <2>2. Owned(p)
    BY <1>2, <1>4 DEF OrdersGo, Running
  <2>3. p \in sweep.todo
    BY <1>2, <2>1, <2>2 DEF LoopInv, SweepCovers
  <2>4. p # o
    BY <2>1 DEF Owned
  <2> QED
    BY <1>1, <2>3, <2>4
<1> QED
  BY <1>6, <1>7, <1>8, <1>9 DEF LoopInv

LEMMA SweepEndsStep ==
    ASSUME LoopInv, NEW at \in {"cancel", "cancel again"}, NEW to \in {"load", "place"},
           SweepEnds(at, to)
    PROVE  LoopInv'
<1>1. /\ UNCHANGED <<sweep, balance, pos, step, job, reports, hand, coins, orders>>
      /\ phase \in {"cancel", "cancel again"} /\ sweep.todo = {}
      /\ phase' \in {"load", "place"}
  BY DEF SweepEnds, tracker, loop, socket, exchange
<1>2. LoopTypes' /\ OrderTypes'
  BY <1>1 DEF LoopInv, LoopTypes, OrderTypes, Phases, Booting
<1>3. NotYet' /\ SweepCovers'
  BY <1>1 DEF LoopInv, NotYet, SweepCovers, Running
<1>4. TodoOwned'
  BY <1>1 DEF LoopInv, TodoOwned, Todo, Open
<1>5. ~sweep.failed => ~\E o \in Ids : Owned(o)
  BY <1>1 DEF LoopInv, SweepCovers
<1>6. CleanStart'
  BY <1>1, <1>5 DEF CleanStart, Owned, Open
<1> QED
  BY <1>2, <1>3, <1>4, <1>6 DEF LoopInv

LEMMA BootStep ==
    ASSUME LoopInv, LoadBalance \/ LoadPosition \/ BecomeReady \/ StartLoops
    PROVE  LoopInv'
<1>1. /\ UNCHANGED <<step, job, reports, hand, coins, orders>>
      /\ phase \in {"load", "price", "public", "place"}
      /\ phase' \in {"price", "public", "list again", "place", "running"}
      /\ sweep' = sweep \/ (sweep' = NoSweep /\ phase' = "running")
  BY DEF LoadBalance, LoadPosition, BecomeReady, StartLoops, loop, socket, exchange
<1>2. pos' \in Positions /\ balance' \in Nat
  <2>1. coins > 0 => coins \in Nat
    BY DEF LoopInv, LoopTypes
  <2>2. CASE LoadBalance
    BY <2>1, <2>2 DEF LoadBalance, LoopInv, LoopTypes
  <2>3. CASE LoadPosition
    BY <2>3, TrackerTypes DEF LoadPosition, LoopInv, LoopTypes
  <2>4. CASE BecomeReady \/ StartLoops
    BY <2>4 DEF BecomeReady, StartLoops, tracker, LoopInv, LoopTypes
  <2> QED
    BY <2>2, <2>3, <2>4
<1>3. sweep' \in Sweeps /\ sweep'.todo \subseteq sweep.todo
  <2>1. NoSweep \in Sweeps /\ NoSweep.todo = {}
    BY DEF NoSweep, Sweeps
  <2>2. sweep \in Sweeps
    BY DEF LoopInv, LoopTypes
  <2> QED
    BY <1>1, <2>1, <2>2
<1>4. LoopTypes' /\ OrderTypes'
  BY <1>1, <1>2, <1>3 DEF LoopInv, LoopTypes, OrderTypes, Phases, Booting
<1>5. NotYet' /\ SweepCovers'
  BY <1>1 DEF LoopInv, NotYet, SweepCovers, Running
<1>6. TodoOwned' /\ CleanStart'
  BY <1>1, <1>3 DEF LoopInv, TodoOwned, CleanStart, Todo, Open, Owned
<1> QED
  BY <1>4, <1>5, <1>6 DEF LoopInv

LEMMA PlaceInitialStep == ASSUME LoopInv, PlaceInitialGridOrder PROVE LoopInv'
<1>1. /\ UNCHANGED <<phase, sweep, balance, pos, step, job, reports, hand, coins>>
      /\ PlaceOrder("BUY", Size, FALSE)
  BY DEF PlaceInitialGridOrder, PlaceOrder, start, tracker, loop, socket
<1>2. Size \in Nat
  BY TradingLoopAssumption DEF TradingLoopAssumption
<1>3. OrdersGo
  BY <1>1, <1>2, AcceptGo
<1>4. LoopTypes' /\ NotYet'
  BY <1>1 DEF LoopInv, LoopTypes, NotYet, Running
<1> QED
  BY <1>1, <1>3, <1>4, Frame DEF LoopInv

LEMMA StartupStep == ASSUME LoopInv, Startup PROVE LoopInv'
BY StartProgramStep, SweepListStep, SweepCancelStep, SweepEndsStep, BootStep, PlaceInitialStep
   DEF Startup

-----------------------------------------------------------------------------
(* The exchange and the fill callback *)

LEMMA FillStep == ASSUME LoopInv, NEW o \in Ids, Fill(o) PROVE LoopInv' /\ Preserved
<1>1. OrdersGo
  BY FillGo
<1>2. UNCHANGED <<phase, sweep, balance, pos, step, job, hand>>
  BY DEF Fill, start, loop
<1>3. PICK lots \in 1..orders[o].left :
          \/ coins' = coins + lots /\ Report("buy", lots)
          \/ coins' = coins - lots /\ Report("sell", lots)
  BY DEF Fill
<1>4. lots \in Nat /\ coins \in Int
  BY DEF LoopInv, LoopTypes, OrderTypes, Orders
<1>5. reports' \in Seq(Events) /\ coins' \in Int
  BY <1>3, <1>4, ReportTypes DEF LoopInv
<1>6. LoopTypes' /\ NotYet'
  BY <1>2, <1>5 DEF LoopInv, LoopTypes, NotYet, Running
<1> QED
  BY <1>1, <1>2, <1>6, Frame DEF LoopInv, OrdersGo

\* A step that leaves the orders and the startup alone.
LEMMA Quiet ==
    ASSUME LoopInv, UNCHANGED <<phase, sweep, balance, orders>>, job'.todo \subseteq job.todo,
           LoopTypes', NotYet'
    PROVE  LoopInv' /\ Preserved
BY OrdersStay, Frame DEF LoopInv, OrdersGo

LEMMA LinkStep == ASSUME LoopInv, LinkFails \/ LinkReturns PROVE LoopInv' /\ Preserved
<1>1. /\ UNCHANGED <<phase, sweep, balance, pos, step, job, hand, orders, coins>>
      /\ reports' = reports \/ reports' = <<>>
  BY DEF LinkFails, LinkReturns, start, tracker, loop, exchange
<1>2. reports' \in Seq(Events)
  <2>1. <<>> \in Seq(Events)
    BY EmptySeq
  <2>2. reports \in Seq(Events)
    BY DEF LoopInv, LoopTypes
  <2> QED
    BY <1>1, <2>1, <2>2
<1>3. LoopTypes'
  BY <1>1, <1>2 DEF LoopInv, LoopTypes
<1>4. NotYet'
  BY <1>1 DEF LoopInv, NotYet, Running
<1> QED
  BY <1>1, <1>3, <1>4, Quiet

LEMMA AgeStep == ASSUME LoopInv, Age PROVE LoopInv' /\ Preserved
<1>1. UNCHANGED <<phase, sweep, balance, step, job, reports, hand, orders, coins>>
  BY DEF Age, start, loop, socket, exchange
<1>2. pos' \in Positions
  BY DEF Age, LoopInv, LoopTypes, Positions
<1>3. LoopTypes' /\ NotYet'
  BY <1>1, <1>2 DEF LoopInv, LoopTypes, NotYet, Running
<1> QED
  BY <1>1, <1>3, Quiet

LEMMA HeadIsEvent ==
    ASSUME LoopTypes, reports # <<>>
    PROVE  Head(reports) \in Events /\ Tail(reports) \in Seq(Events)
BY HeadTailProperties DEF LoopTypes

LEMMA DropFillStep == ASSUME LoopInv, DropFill PROVE LoopInv' /\ Preserved
<1>1. /\ UNCHANGED <<phase, sweep, balance, pos, step, job, orders, coins>>
      /\ reports # <<>> /\ reports' = Tail(reports) /\ hand' = NoReport
  BY DEF DropFill, TakeReport, start, loop, exchange
<1>2. LoopTypes' /\ NotYet'
  BY <1>1, HeadIsEvent DEF LoopInv, LoopTypes, NotYet, Running
<1> QED
  BY <1>1, <1>2, Quiet

LEMMA OnFillStep == ASSUME LoopInv, OnFill PROVE LoopInv' /\ Preserved
<1>1. /\ UNCHANGED <<phase, sweep, balance, step, job, orders, coins>> /\ Running
      /\ reports # <<>> /\ reports' = Tail(reports) /\ hand' = Head(reports)
  BY DEF OnFill, TakeReport, Unheard, start, loop, exchange
<1>2. Head(reports) \in Events /\ Tail(reports) \in Seq(Events)
  BY <1>1, HeadIsEvent DEF LoopInv
<1>3. Head(reports).qty \in Nat
  BY <1>2 DEF Events
<1>4. pos' \in Positions
  BY <1>3, TrackerTypes DEF OnFill, LoopInv
<1>5. LoopTypes' /\ NotYet'
  BY <1>1, <1>2, <1>4 DEF LoopInv, LoopTypes, NotYet, Running
<1> QED
  BY <1>1, <1>5, Quiet

LEMMA PlaceCounterStep == ASSUME LoopInv, PlaceCounterOrder PROVE LoopInv' /\ Preserved
<1>1. /\ UNCHANGED <<phase, sweep, balance, pos, step, job, reports, coins>>
      /\ hand # NoReport /\ hand' = NoReport
      /\ PlaceOrder("SELL", hand.qty, TRUE) \/ PlaceOrder("BUY", Size, TRUE)
  BY DEF PlaceCounterOrder, start, tracker, loop
<1>2. Running /\ hand.qty \in Nat /\ Size \in Nat
  BY <1>1, TradingLoopAssumption
     DEF LoopInv, LoopTypes, NotYet, Events, TradingLoopAssumption
<1>3. OrdersGo
  BY <1>1, <1>2, AcceptGo
<1>4. LoopTypes' /\ NotYet'
  BY <1>1 DEF LoopInv, LoopTypes, NotYet, Running
<1> QED
  BY <1>1, <1>3, <1>4, Frame DEF LoopInv, OrdersGo

-----------------------------------------------------------------------------
(* The loop *)

\* A step of the loop that leaves the book alone.
LEMMA CycleStep ==
    ASSUME LoopInv, UNCHANGED <<phase, sweep, balance, hand, orders>>, Running,
           step' \in Steps, job' \in Jobs, pos' \in Positions, coins' \in Int,
           reports' \in Seq(Events), \A o \in job'.todo : Owned(o) \/ o \in job.todo
    PROVE  LoopInv' /\ Preserved
<1>1. LoopTypes'
  BY DEF LoopInv, LoopTypes
<1>2. NotYet'
  BY DEF NotYet, Running
<1>3. TodoOwned'
  BY DEF LoopInv, TodoOwned, Todo, Open, Owned
<1>4. OrderTypes' /\ SweepCovers' /\ CleanStart'
  BY DEF LoopInv, OrderTypes, SweepCovers, CleanStart, Running
<1>5. Preserved
  BY OrdersStay DEF OrdersGo
<1> QED
  BY <1>1, <1>2, <1>3, <1>4, <1>5 DEF LoopInv

LEMMA AtWork == ASSUME LoopInv, step # "idle" PROVE Running
BY DEF LoopInv, NotYet

LEMMA TickStep == ASSUME LoopInv, Tick PROVE LoopInv' /\ Preserved
<1>1. /\ UNCHANGED <<phase, sweep, balance, hand, orders, pos, coins, reports>> /\ Running
      /\ step' = "ticker" /\ job' = [Idle EXCEPT !.pos = pos]
  BY DEF Tick, start, tracker, socket, exchange
<1>2. job' = [pos |-> pos, why |-> "none", todo |-> {}]
  BY <1>1 DEF Idle
<1>3. job' \in Jobs /\ job'.todo = {}
  BY <1>2 DEF LoopInv, LoopTypes, Jobs, Whys
<1> QED
  BY <1>1, <1>3, CycleStep DEF LoopInv, LoopTypes, Steps

LEMMA TickerStep == ASSUME LoopInv, TickerFails \/ TickerOK PROVE LoopInv' /\ Preserved
<1>1. /\ UNCHANGED <<phase, sweep, balance, hand, orders, pos, coins, reports>> /\ step = "ticker"
      /\ \/ CycleEnds
         \/ \E s \in {"list", "market"}, w \in {"downtrend", "track", "skew", "decay", "exit"} :
               Goto(s, w, {})
  BY DEF TickerFails, TickerOK, TickerFlat, TickerHeld, start, tracker, socket, exchange
<1>2. step' \in Steps /\ job' \in Jobs /\ job'.todo = {}
  BY <1>1, CycleEndsTypes, GotoTypes DEF LoopInv, Steps, Whys
<1> QED
  BY <1>1, <1>2, AtWork, CycleStep DEF LoopInv, LoopTypes

LEMMA ListPendingStep ==
    ASSUME LoopInv, NEW found \in {Wanted, {}}, ListPending(found)
    PROVE  LoopInv' /\ Preserved
<1>1. /\ UNCHANGED <<phase, sweep, balance, hand, orders, pos, coins, reports>> /\ step = "list"
      /\ \/ CycleEnds
         \/ Goto("cancel", job.why, found)
         \/ Goto("place", "track", {})
         \/ \E o \in found : Goto("cancel", "track", {o})
  BY DEF ListPending, start, tracker, socket, exchange
<1>2. \A o \in found : o \in Ids /\ Owned(o)
  BY DEF Wanted
<1>3. job.why \in Whys /\ {"cancel", "place"} \subseteq Steps /\ "track" \in Whys
  BY DEF LoopInv, LoopTypes, Jobs, Steps, Whys
<1>4. step' \in Steps /\ job' \in Jobs /\ \A o \in job'.todo : Owned(o)
  <2>1. CASE CycleEnds
    BY <2>1, CycleEndsTypes
  <2>2. CASE Goto("cancel", job.why, found)
    BY <2>2, <1>2, <1>3, GotoTypes DEF LoopInv
  <2>3. CASE Goto("place", "track", {})
    BY <2>3, <1>3, GotoTypes DEF LoopInv
  <2>4. ASSUME NEW o \in found, Goto("cancel", "track", {o})
        PROVE  step' \in Steps /\ job' \in Jobs /\ \A p \in job'.todo : Owned(p)
    <3>1. {o} \in SUBSET Ids
      BY <1>2
    <3>2. step' \in Steps /\ job' \in Jobs /\ job'.todo = {o}
      BY <2>4, <1>3, <3>1, GotoTypes DEF LoopInv
    <3> QED
      BY <3>2, <1>2
  <2> QED
    BY <1>1, <2>1, <2>2, <2>3, <2>4
<1> QED
  BY <1>1, <1>4, AtWork, CycleStep DEF LoopInv, LoopTypes

LEMMA CancelPendingStep == ASSUME LoopInv, CancelPending PROVE LoopInv' /\ Preserved
<1>1. PICK o \in job.todo : CancelOrder(o) /\ Goto("cancel", job.why, job.todo \ {o})
  BY DEF CancelPending
<1>2. UNCHANGED <<phase, sweep, balance, hand, pos, coins, reports>> /\ step = "cancel"
  BY DEF CancelPending, start, tracker, socket
<1>3. /\ o \in Ids /\ o \in Todo /\ job.todo \ {o} \in SUBSET Ids
      /\ job.why \in Whys /\ "cancel" \in Steps
  BY <1>1 DEF LoopInv, LoopTypes, Jobs, Todo, Steps
<1>4. OrdersGo
  BY <1>1, <1>3, CancelGo
<1>5. step' \in Steps /\ job' \in Jobs /\ job'.todo = job.todo \ {o}
  BY <1>1, <1>3, GotoTypes DEF LoopInv
<1>6. Running
  BY <1>2, AtWork
<1>7. LoopTypes' /\ NotYet'
  BY <1>2, <1>5, <1>6 DEF LoopInv, LoopTypes, NotYet, Running
<1> QED
  BY <1>2, <1>4, <1>5, <1>7, Frame DEF LoopInv, OrdersGo

LEMMA CancelsEndStep == ASSUME LoopInv, CancelsEnd PROVE LoopInv' /\ Preserved
<1>1. /\ UNCHANGED <<phase, sweep, balance, hand, orders, pos, coins, reports>> /\ step = "cancel"
      /\ CycleEnds \/ Goto("place", job.why, {})
  BY DEF CancelsEnd, start, tracker, socket, exchange
<1>2. job.why \in Whys /\ "place" \in Steps
  BY DEF LoopInv, LoopTypes, Jobs, Steps
<1>3. step' \in Steps /\ job' \in Jobs /\ job'.todo = {}
  BY <1>1, <1>2, CycleEndsTypes, GotoTypes DEF LoopInv
<1> QED
  BY <1>1, <1>3, AtWork, CycleStep DEF LoopInv, LoopTypes

LEMMA PlaceReplacementStep == ASSUME LoopInv, PlaceReplacement PROVE LoopInv' /\ Preserved
<1>1. /\ UNCHANGED <<phase, sweep, balance, hand, pos, coins, reports>> /\ step = "place"
      /\ CycleEnds
      /\ PlaceOrder("BUY", Size, TRUE) \/ PlaceOrder("SELL", job.pos.qty, TRUE)
  BY DEF PlaceReplacement, start, tracker, socket
<1>2. Running /\ job.pos.qty \in Nat /\ Size \in Nat
  BY <1>1, AtWork, TradingLoopAssumption
     DEF LoopInv, LoopTypes, Jobs, Positions, TradingLoopAssumption
<1>3. OrdersGo
  BY <1>1, <1>2, AcceptGo
<1>4. step' \in Steps /\ job' \in Jobs /\ job'.todo = {}
  BY <1>1, CycleEndsTypes
<1>5. LoopTypes' /\ NotYet'
  BY <1>1, <1>2, <1>4 DEF LoopInv, LoopTypes, NotYet, Running
<1> QED
  BY <1>1, <1>3, <1>4, <1>5, Frame DEF LoopInv, OrdersGo

LEMMA SellAtMarketStep == ASSUME LoopInv, SellAtMarket PROVE LoopInv' /\ Preserved
<1>1. /\ UNCHANGED <<phase, sweep, balance, hand, orders, pos>> /\ step = "market"
      /\ Goto("clear", "exit", {})
      /\ \/ coins' = coins - job.pos.qty /\ Report("sell", job.pos.qty)
         \/ UNCHANGED <<coins, reports>>
  BY DEF SellAtMarket, start, tracker
<1>2. job.pos.qty \in Nat /\ coins \in Int /\ reports \in Seq(Events)
  BY DEF LoopInv, LoopTypes, Jobs, Positions
<1>3. coins' \in Int /\ reports' \in Seq(Events)
  BY <1>1, <1>2, ReportTypes DEF LoopInv
<1>4. step' \in Steps /\ job' \in Jobs /\ job'.todo = {}
  BY <1>1, GotoTypes DEF LoopInv, Steps, Whys
<1> QED
  BY <1>1, <1>3, <1>4, AtWork, CycleStep DEF LoopInv, LoopTypes

LEMMA ClearAfterExitStep == ASSUME LoopInv, ClearAfterExit PROVE LoopInv' /\ Preserved
<1>1. /\ UNCHANGED <<phase, sweep, balance, hand, orders, coins, reports>> /\ step = "clear"
      /\ CycleEnds /\ ClearPosition
  BY DEF ClearAfterExit, start, socket, exchange
<1>2. step' \in Steps /\ job' \in Jobs /\ job'.todo = {} /\ pos' \in Positions
  BY <1>1, CycleEndsTypes, TrackerTypes DEF LoopInv
<1> QED
  BY <1>1, <1>2, AtWork, CycleStep DEF LoopInv, LoopTypes

LEMMA LoopStepStep == ASSUME LoopInv, LoopStep PROVE LoopInv' /\ Preserved
BY TickStep, ListPendingStep, CancelPendingStep, CancelsEndStep, PlaceReplacementStep,
   SellAtMarketStep, ClearAfterExitStep DEF LoopStep

-----------------------------------------------------------------------------
(* The rebalancer *)

LEMMA RebalancerStep ==
    ASSUME LoopInv, RebalancerCancels \/ RebalancerFails
    PROVE  LoopInv' /\ Preserved
<1>1. /\ UNCHANGED <<phase, sweep, balance, pos, step, job, reports, hand, coins>>
      /\ orders' = orders \/ \E o \in Ids : Owned(o) /\ CancelOrder(o)
  BY DEF RebalancerCancels, RebalancerFails, CancelOrder, start, tracker, loop, socket, exchange
<1>2. OrdersGo
  BY <1>1, OrdersStay, CancelGo
<1>3. LoopTypes' /\ NotYet'
  BY <1>1 DEF LoopInv, LoopTypes, NotYet, Running
<1> QED
  BY <1>1, <1>2, <1>3, Frame DEF LoopInv, OrdersGo

-----------------------------------------------------------------------------
LEMMA StartupKeeps == ASSUME LoopInv, StartProgram \/ Dies \/ Startup PROVE Preserved
<1>1. CASE orders' = orders
  BY <1>1, OrdersStay DEF OrdersGo
<1>2. CASE PlaceInitialGridOrder
  <2>1. PlaceOrder("BUY", Size, FALSE) /\ Size \in Nat
    BY <1>2, TradingLoopAssumption DEF PlaceInitialGridOrder, PlaceOrder, TradingLoopAssumption
  <2> QED
    BY <2>1, AcceptGo DEF OrdersGo
<1>3. ASSUME NEW at \in {"cancel", "cancel again"}, SweepCancel(at)
      PROVE  Preserved
  <2>1. PICK o \in sweep.todo : CancelOrder(o)
    BY <1>3 DEF SweepCancel
  <2>2. o \in Ids /\ o \in Todo
    BY DEF LoopInv, LoopTypes, Sweeps, Todo
  <2> QED
    BY <2>1, <2>2, CancelGo DEF OrdersGo
<1>4. \/ orders' = orders \/ PlaceInitialGridOrder
      \/ SweepCancel("cancel") \/ SweepCancel("cancel again")
  BY DEF StartProgram, Dies, Startup, ConnectPrivate, ReconcileOnce, LoadBalance, LoadPosition,
         BecomeReady, StartLoops, SweepList, SweepEnds, exchange
<1> QED
  BY <1>1, <1>2, <1>3, <1>4

LEMMA StutterStep == ASSUME LoopInv, UNCHANGED vars PROVE LoopInv' /\ Preserved
<1>1. UNCHANGED <<phase, sweep, balance, pos, step, job, reports, hand, coins, orders>>
  BY DEF vars, start, tracker, loop, socket, exchange
<1>2. LoopTypes' /\ NotYet'
  BY <1>1 DEF LoopInv, LoopTypes, NotYet, Running
<1> QED
  BY <1>1, <1>2, Quiet

LEMMA NextInv == ASSUME LoopInv, [Next]_vars PROVE LoopInv' /\ Preserved
<1>1. CASE StartProgram \/ Startup \/ Dies
  BY <1>1, StartProgramStep, StartupStep, DiesStep, StartupKeeps
<1>2. ASSUME NEW o \in Ids, Fill(o)
      PROVE  LoopInv' /\ Preserved
  BY <1>2, FillStep
<1>3. CASE LinkFails \/ LinkReturns \/ Age
  BY <1>3, LinkStep, AgeStep
<1>4. CASE DropFill \/ OnFill \/ PlaceCounterOrder
  BY <1>4, DropFillStep, OnFillStep, PlaceCounterStep
<1>5. CASE TickerFails \/ TickerOK \/ LoopStep
  BY <1>5, TickerStep, LoopStepStep
<1>6. CASE RebalancerCancels \/ RebalancerFails
  BY <1>6, RebalancerStep
<1>7. CASE UNCHANGED vars
  BY <1>7, StutterStep
<1> QED
  BY <1>1, <1>2, <1>3, <1>4, <1>5, <1>6, <1>7 DEF Next

\* The inductive invariant: what is about to be cancelled belongs to the
\* program, whichever goroutine is about to cancel it.
THEOREM LoopInvariant == Spec => []LoopInv
<1>1. LoopInv /\ [Next]_vars => LoopInv'
  BY NextInv
<1> QED
  BY InitInv, <1>1, PTL DEF Spec

\* Between the cleanup and the first order of a run no order with a client
\* order id of the program is open, unless a listing or a cancel failed
\* (ownershipSafeCleanup), for any number of orders.  Orders of an earlier
\* initial grid carry no such id and are not spoken of.
THEOREM StartIsClean == Spec => []CleanStart
<1>1. LoopInv => CleanStart
  BY DEF LoopInv
<1> QED
  BY <1>1, LoopInvariant, PTL

\* No cleanup, no branch of the loop and no rebalancer takes an order off
\* the book that carries no client order id of the program.
THEOREM ManualOrdersAreKept == Spec => ManualOrdersKept
<1>1. LoopInv /\ [Next]_vars
        => [\A o \in Ids : Open(o) /\ ~orders[o].bot /\ ~Open(o)' => coins' # coins]_vars
  BY NextInv DEF Preserved
<1> QED
  BY <1>1, LoopInvariant, PTL DEF Spec, ManualOrdersKept

-----------------------------------------------------------------------------
(***************************************************************************)
(* A tracked position is held.  What makes this inductive: the open SELL   *)
(* orders never ask for more than the balance (the exchange freezes their  *)
(* lots), so that the balance stays a natural number; nothing is in        *)
(* transit without a link; and every BUY on its way to the callback is     *)
(* covered by the balance, unless a SELL is on its way behind it.          *)
(***************************************************************************)
SellsCovered == coins \in Nat /\ Lots("SELL") <= coins

Unlinked == ~linked => reports = <<>>

BuysCovered ==
    \A i \in DOMAIN reports : reports[i].side = "buy" =>
        \/ reports[i].qty <= coins
        \/ \E j \in DOMAIN reports : j > i /\ reports[j].side = "sell"

\* A slot without an order has no lots.
SidesKnown == \A o \in Ids : orders[o].side = "none" => orders[o].left = 0

BookSound == SidesKnown /\ SellsCovered

\* A SELL fill is on its way to the callback.
SellComing == \E i \in DOMAIN reports : reports[i].side = "sell"

\* So is the balance startup was told, which becomes the position.
BalanceHeld == phase = "price" => balance <= coins \/ missed \/ SellComing

\* Nothing is tracked before it is loaded.
Early == {"down", "connect", "reconcile", "list", "cancel", "load", "price"}
Untracked == phase \in Early => pos.qty = 0

HeldInv == BookSound /\ Unlinked /\ BuysCovered /\ BalanceHeld /\ Untracked /\ PositionIsHeld

\* What a step does to the cover of any number of lots, and to the startup.
CoverStays ==
    \A q \in Nat : (q <= coins \/ missed \/ SellComing)
                       => (q <= coins' \/ missed' \/ SellComing')
PhaseKept ==
    /\ phase' = "price" => phase = "price" /\ balance' = balance
    /\ phase' \in Early => phase \in Early

\* The lots an order book asks to sell, as a sum.
Left(book) == [o \in Ids |-> book[o].left]
Selling(book) == {o \in Ids : book[o].side = "SELL"}
SellLots(book) == Total(Left(book), Selling(book))
Frozen(order) == IF order.side = "SELL" THEN order.left ELSE 0

LEMMA SellingFinite ==
    ASSUME NEW book \in [Ids -> Orders]
    PROVE  /\ IsFiniteSet(Selling(book)) /\ Selling(book) \subseteq Ids
           /\ \A o \in Ids : Left(book)[o] = book[o].left /\ Left(book)[o] \in Nat
           /\ SellLots(book) \in Nat
<1>1. IsFiniteSet(Ids)
  BY TradingLoopAssumption, FS_Interval DEF Ids, TradingLoopAssumption
<1>2. IsFiniteSet(Selling(book)) /\ Selling(book) \subseteq Ids
  BY <1>1, FS_Subset DEF Selling
<1>3. \A o \in Ids : Left(book)[o] = book[o].left /\ Left(book)[o] \in Nat
  BY DEF Left, Orders
<1> QED
  BY <1>2, <1>3, TotalType DEF SellLots

\* The sum of the model is that sum.
LotsToSell(book) ==
    LET left(o) == book[o].left IN MapThenSumSet(left, Selling(book))

LEMMA LotsAreTotal ==
    ASSUME NEW book \in [Ids -> Orders]
    PROVE  LotsToSell(book) = SellLots(book)
<1> DEFINE S == Selling(book)
           h == CHOOSE iter :
                    iter = [s \in SUBSET S |-> IF s = {} THEN 0
                               ELSE book[CHOOSE x \in s : TRUE].left
                                        + iter[s \ {CHOOSE x \in s : TRUE}]]
<1>1. LotsToSell(book) = h[S]
  BY DEF LotsToSell, MapThenSumSet, MapThenFoldSet
<1>2. IsFiniteSet(S) /\ S \subseteq Ids
  BY SellingFinite
<1> HIDE DEF S
<1>3. PICK g : SumsUp(g, Left(book), S)
  BY <1>2, SumExists
<1>4. g = [s \in SUBSET S |-> IF s = {} THEN 0
              ELSE book[CHOOSE x \in s : TRUE].left + g[s \ {CHOOSE x \in s : TRUE}]]
  <2>1. \A s \in SUBSET S : s # {} => Left(book)[Pick(s)] = book[CHOOSE x \in s : TRUE].left
    BY <1>2 DEF Left, Pick
  <2>2. g = [s \in SUBSET S |-> IF s = {} THEN 0
                ELSE Left(book)[Pick(s)] + g[s \ {Pick(s)}]]
    BY <1>3 DEF SumsUp
  <2>3. g = [s \in SUBSET S |-> IF s = {} THEN 0
                ELSE book[CHOOSE x \in s : TRUE].left + g[s \ {Pick(s)}]]
    BY <2>1, <2>2
  <2> QED
    BY <2>3 DEF Pick
<1>5. h = [s \in SUBSET S |-> IF s = {} THEN 0
              ELSE book[CHOOSE x \in s : TRUE].left + h[s \ {CHOOSE x \in s : TRUE}]]
  BY <1>4
<1> HIDE DEF h
<1>6. SumsUp(h, Left(book), S)
  <2>1. \A s \in SUBSET S : s # {} => Left(book)[Pick(s)] = book[CHOOSE x \in s : TRUE].left
    BY <1>2 DEF Left, Pick
  <2>2. h = [s \in SUBSET S |-> IF s = {} THEN 0
                ELSE book[CHOOSE x \in s : TRUE].left + h[s \ {Pick(s)}]]
    BY <1>5 DEF Pick
  <2> QED
    BY <2>1, <2>2 DEF SumsUp
<1>7. PICK k : SumsUp(k, Left(book), S) /\ Total(Left(book), S) = k[S]
  BY <1>2, TotalSumsUp
<1>8. h[S] = k[S]
  BY <1>2, <1>6, <1>7, SumAgrees
<1> QED
  BY <1>1, <1>7, <1>8 DEF SellLots, S

LEMMA LotsForSale ==
    /\ OrderTypes => Lots("SELL") = SellLots(orders)
    /\ OrderTypes' => Lots("SELL")' = SellLots(orders')
<1>1. Lots("SELL") = LotsToSell(orders)
  BY DEF Lots, Side, LotsToSell, Selling, MapThenSumSet, MapThenFoldSet
<1>2. Lots("SELL")' = LotsToSell(orders')
  BY DEF Lots, Side, LotsToSell, Selling, MapThenSumSet, MapThenFoldSet
<1> QED
  BY <1>1, <1>2, LotsAreTotal DEF OrderTypes

LEMMA OneOrderChanges ==
    ASSUME NEW book \in [Ids -> Orders], NEW new \in [Ids -> Orders], NEW x \in Ids,
           \A o \in Ids : o # x => new[o] = book[o]
    PROVE  /\ SellLots(new) + Frozen(book[x]) = SellLots(book) + Frozen(new[x])
           /\ SellLots(new) \in Nat /\ SellLots(book) \in Nat
           /\ Frozen(new[x]) \in Nat /\ Frozen(book[x]) \in Nat
<1> DEFINE rest == Selling(book) \ {x}
<1>1. rest = Selling(new) \ {x}
  BY DEF Selling
<1>2. /\ SellLots(book) = Frozen(book[x]) + Total(Left(book), rest)
      /\ Total(Left(book), rest) \in Nat
  <2>1. x \in Selling(book) => Left(book)[x] = Frozen(book[x])
    BY SellingFinite DEF Selling, Frozen
  <2>2. x \notin Selling(book) => 0 = Frozen(book[x])
    BY DEF Selling, Frozen
  <2>3. IsFiniteSet(Selling(book)) /\ \A o \in Selling(book) : Left(book)[o] \in Nat
    BY SellingFinite
  <2> QED
    BY <2>1, <2>2, <2>3, TotalSplit DEF SellLots
<1>3. /\ SellLots(new) = Frozen(new[x]) + Total(Left(new), rest)
  <2>1. x \in Selling(new) => Left(new)[x] = Frozen(new[x])
    BY SellingFinite DEF Selling, Frozen
  <2>2. x \notin Selling(new) => 0 = Frozen(new[x])
    BY DEF Selling, Frozen
  <2>3. IsFiniteSet(Selling(new)) /\ \A o \in Selling(new) : Left(new)[o] \in Nat
    BY SellingFinite
  <2> QED
    BY <1>1, <2>1, <2>2, <2>3, TotalSplit DEF SellLots
<1>4. Total(Left(new), rest) = Total(Left(book), rest)
  <2>1. IsFiniteSet(rest) /\ rest \subseteq Ids
    BY SellingFinite, FS_Subset
  <2>2. \A o \in rest : Left(new)[o] = Left(book)[o]
    BY <2>1 DEF Left
  <2> HIDE DEF rest
  <2> QED
    BY <2>1, <2>2, TotalSame
<1>5. Frozen(new[x]) \in Nat /\ Frozen(book[x]) \in Nat
  BY DEF Frozen, Orders
<1>6. SellLots(new) \in Nat /\ SellLots(book) \in Nat
  BY SellingFinite
<1> HIDE DEF rest
<1> QED
  BY <1>2, <1>3, <1>4, <1>5, <1>6

-----------------------------------------------------------------------------
\* Cancelled orders free their lots, and a SELL is accepted only for free ones.
LEMMA BookCovered ==
    ASSUME LoopInv, OrderTypes', BookSound, coins' = coins,
           \/ orders' = orders
           \/ \E o \in Ids : CancelOrder(o)
           \/ \E side \in {"BUY", "SELL"}, lots \in Nat, bot \in BOOLEAN : PlaceOrder(side, lots, bot)
    PROVE  BookSound'
<1>1. orders \in [Ids -> Orders] /\ orders' \in [Ids -> Orders]
  BY DEF LoopInv, OrderTypes
<1>2. Lots("SELL") = SellLots(orders) /\ Lots("SELL")' = SellLots(orders')
  BY LotsForSale DEF LoopInv
<1>3. coins \in Nat /\ SellLots(orders) <= coins
  BY <1>2 DEF BookSound, SellsCovered
<1>4. CASE orders' = orders
  BY <1>2, <1>3, <1>4 DEF BookSound, SellsCovered, SidesKnown
<1>5. ASSUME NEW o \in Ids, orders' = [orders EXCEPT ![o] = NoOrder]
      PROVE  BookSound'
  <2>1. /\ SellLots(orders') + Frozen(orders[o]) = SellLots(orders) + Frozen(orders'[o])
        /\ SellLots(orders') \in Nat /\ SellLots(orders) \in Nat /\ Frozen(orders[o]) \in Nat
    BY <1>1, <1>5, OneOrderChanges
  <2>2. Frozen(orders'[o]) = 0
    BY <1>1, <1>5 DEF Frozen, NoOrder
  <2>3. SellLots(orders') <= coins
    BY <1>3, <2>1, <2>2
  <2>4. SidesKnown'
    BY <1>1, <1>5 DEF BookSound, SidesKnown, NoOrder
  <2> QED
    BY <1>2, <1>3, <2>3, <2>4 DEF BookSound, SellsCovered
<1>6. ASSUME NEW side \in {"BUY", "SELL"}, NEW lots \in Nat, NEW bot \in BOOLEAN,
             Accept(side, lots, bot)
      PROVE  BookSound'
  <2> DEFINE x == Min(Slots)
             new == [side |-> side, left |-> lots, bot |-> bot]
  <2>1. x \in Slots
    BY <1>6, IdsAreNat, MinIsThere DEF Accept, Slots
  <2>2. orders' = [orders EXCEPT ![x] = new]
    BY <1>6 DEF Accept
  <2> HIDE DEF x
  <2>3. x \in Ids
    BY <2>1 DEF Slots
  <2>4. /\ SellLots(orders') + Frozen(orders[x]) = SellLots(orders) + Frozen(orders'[x])
        /\ SellLots(orders') \in Nat /\ SellLots(orders) \in Nat /\ Frozen(orders[x]) \in Nat
    BY <1>1, <2>2, <2>3, OneOrderChanges
  <2>5. Frozen(orders'[x]) = IF side = "SELL" THEN lots ELSE 0
    BY <1>1, <2>2, <2>3 DEF Frozen
  <2>6. side = "SELL" => lots <= coins - SellLots(orders)
    BY <1>2, <1>6 DEF Accept, Free
  <2>7. SellLots(orders') <= coins
    BY <1>3, <2>4, <2>5, <2>6
  <2>8. SidesKnown'
    BY <1>1, <2>2 DEF BookSound, SidesKnown
  <2> QED
    BY <1>2, <1>3, <2>7, <2>8 DEF BookSound, SellsCovered
<1> QED
  BY <1>4, <1>5, <1>6 DEF CancelOrder, PlaceOrder

\* What trades goes off the book with the balance.
LEMMA FillCovered ==
    ASSUME LoopInv, OrderTypes', BookSound, NEW o \in Ids, Fill(o)
    PROVE  BookSound'
<1>1. orders \in [Ids -> Orders] /\ orders' \in [Ids -> Orders]
  BY DEF LoopInv, OrderTypes
<1>2. Lots("SELL") = SellLots(orders) /\ Lots("SELL")' = SellLots(orders')
  BY LotsForSale DEF LoopInv
<1>3. PICK lots \in 1..orders[o].left :
          /\ orders' = [orders EXCEPT ![o] = IF lots = @.left THEN NoOrder
                ELSE [side |-> @.side, left |-> @.left - lots, bot |-> @.bot]]
          /\ IF orders[o].side = "BUY" THEN coins' = coins + lots ELSE coins' = coins - lots
  BY DEF Fill
<1>4. orders[o] \in Orders /\ lots \in Nat /\ lots > 0 /\ lots <= orders[o].left
  BY <1>1, <1>3 DEF Orders
<1>5. orders'[o] = IF lots = orders[o].left THEN NoOrder
                   ELSE [side |-> orders[o].side, left |-> orders[o].left - lots,
                         bot |-> orders[o].bot]
  BY <1>1, <1>3
<1>6. /\ SellLots(orders') + Frozen(orders[o]) = SellLots(orders) + Frozen(orders'[o])
      /\ SellLots(orders') \in Nat /\ SellLots(orders) \in Nat
  BY <1>1, <1>3, OneOrderChanges
<1>7. coins \in Nat /\ SellLots(orders) <= coins
  BY <1>2 DEF BookSound, SellsCovered
<1>8. orders[o].side # "none" /\ SidesKnown'
  <2>1. orders[o].side # "none"
    BY <1>4 DEF BookSound, SidesKnown
  <2>2. orders'[o].side = "none" => orders'[o].left = 0
    BY <1>5, <2>1 DEF NoOrder
  <2>3. \A p \in Ids : p # o => orders'[p] = orders[p]
    BY <1>1, <1>3
  <2> QED
    BY <2>1, <2>2, <2>3 DEF BookSound, SidesKnown
<1>9. CASE orders[o].side = "SELL"
  <2>1. Frozen(orders[o]) = orders[o].left /\ Frozen(orders'[o]) = orders[o].left - lots
    BY <1>4, <1>5, <1>9 DEF Frozen, NoOrder, Orders
  <2>2. orders[o].left \in Nat /\ coins' = coins - lots
    BY <1>3, <1>4, <1>9 DEF Orders
  <2>3. coins' \in Nat /\ SellLots(orders') <= coins'
    BY <1>4, <1>6, <1>7, <2>1, <2>2
  <2> QED
    BY <1>2, <1>8, <2>3 DEF BookSound, SellsCovered
<1>10. CASE orders[o].side = "BUY"
  <2>1. Frozen(orders[o]) = 0 /\ Frozen(orders'[o]) = 0
    BY <1>4, <1>5, <1>10 DEF Frozen, NoOrder
  <2>2. coins' = coins + lots
    BY <1>3, <1>10
  <2>3. coins' \in Nat /\ SellLots(orders') <= coins'
    BY <1>4, <1>6, <1>7, <2>1, <2>2
  <2> QED
    BY <1>2, <1>8, <2>3 DEF BookSound, SellsCovered
<1> QED
  BY <1>4, <1>8, <1>9, <1>10 DEF Orders


LEMMA StartupKept ==
    ASSUME LoopInv, [Next]_vars, ~LoadBalance, ~Dies
    PROVE  PhaseKept
<1>1. CASE StartProgram \/ ConnectPrivate \/ ReconcileOnce \/ LoadPosition \/ BecomeReady
           \/ StartLoops \/ PlaceInitialGridOrder
  BY <1>1 DEF StartProgram, ConnectPrivate, ReconcileOnce, LoadPosition, BecomeReady, StartLoops,
              PlaceInitialGridOrder, start, PhaseKept, Early
<1>2. CASE \/ SweepList("list", "cancel") \/ SweepCancel("cancel") \/ SweepEnds("cancel", "load")
           \/ SweepList("list again", "cancel again") \/ SweepCancel("cancel again")
           \/ SweepEnds("cancel again", "place")
  BY <1>2 DEF SweepList, SweepCancel, SweepEnds, PhaseKept, Early
<1>3. CASE UNCHANGED start
  BY <1>3 DEF start, PhaseKept
<1>4. CASE RebalancerFails
  BY <1>4 DEF RebalancerFails, PhaseKept
<1>5. CASE \/ \E o \in Ids : Fill(o)
           \/ LinkFails \/ LinkReturns \/ Age \/ DropFill \/ OnFill \/ PlaceCounterOrder
  BY <1>3, <1>5 DEF Fill, LinkFails, LinkReturns, Age, DropFill, OnFill, TakeReport,
                    PlaceCounterOrder
<1>6. CASE TickerFails \/ TickerOK \/ LoopStep \/ RebalancerCancels \/ UNCHANGED vars
  BY <1>3, <1>6 DEF TickerFails, TickerOK, TickerFlat, TickerHeld, LoopStep, Tick, ListPending,
                    CancelPending, CancelsEnd, PlaceReplacement, SellAtMarket, ClearAfterExit,
                    RebalancerCancels, vars
<1> QED
  BY <1>1, <1>2, <1>3, <1>4, <1>5, <1>6 DEF Next, Startup

\* A step that keeps the cover, and the size of the position.
LEMMA HeldStays ==
    ASSUME LoopInv, HeldInv, BookSound', Unlinked', BuysCovered', CoverStays, PhaseKept,
           pos'.qty = pos.qty
    PROVE  HeldInv'
<1>1. pos.qty \in Nat /\ balance \in Nat
  BY DEF LoopInv, LoopTypes, Positions
<1>2. PositionIsHeld'
  <2>1. pos.qty <= coins \/ missed \/ SellComing
    BY DEF HeldInv, PositionIsHeld, SellComing
  <2>2. pos.qty <= coins' \/ missed' \/ SellComing'
    BY <1>1, <2>1 DEF CoverStays
  <2> QED
    BY <2>2 DEF PositionIsHeld, SellComing
<1>3. BalanceHeld'
  <2> SUFFICES ASSUME phase' = "price"
               PROVE  balance' <= coins' \/ missed' \/ SellComing'
    BY DEF BalanceHeld
  <2>1. balance' = balance /\ (balance <= coins \/ missed \/ SellComing)
    BY DEF PhaseKept, HeldInv, BalanceHeld
  <2>2. balance <= coins' \/ missed' \/ SellComing'
    BY <1>1, <2>1 DEF CoverStays
  <2> QED
    BY <2>1, <2>2
<1>4. Untracked'
  BY DEF PhaseKept, HeldInv, Untracked
<1> QED
  BY <1>2, <1>3, <1>4 DEF HeldInv

\* A step that leaves balance, events and the size of the position alone.
LEMMA HeldKept ==
    ASSUME LoopInv, HeldInv, BookSound', UNCHANGED <<coins, missed, reports>>, linked' \/ ~linked,
           pos'.qty = pos.qty, PhaseKept
    PROVE  HeldInv'
<1>1. Unlinked' /\ BuysCovered'
  BY DEF HeldInv, Unlinked, BuysCovered
<1>2. CoverStays
  BY DEF CoverStays, SellComing
<1> QED
  BY <1>1, <1>2, HeldStays

\* A step that reports what was traded.
LEMMA HeldReport ==
    ASSUME LoopInv, HeldInv, BookSound', linked' = linked, pos' = pos, PhaseKept,
           NEW side \in {"buy", "sell"}, NEW lots \in Nat, Report(side, lots),
           side = "buy" => coins' = coins + lots
    PROVE  HeldInv'
<1>1. /\ coins \in Nat /\ coins' \in Nat /\ reports \in Seq(Events)
      /\ Len(reports) \in Nat
  BY LenProperties DEF HeldInv, BookSound, SellsCovered, LoopInv, LoopTypes
<1>2. CASE ~linked
  <2>1. reports = <<>> /\ reports' = <<>> /\ missed' = (missed \/ side = "sell")
    BY <1>2 DEF HeldInv, Unlinked, Report
  <2>2. missed \/ side = "sell" => missed'
    BY <2>1, Zenon
  <2>3. Unlinked' /\ BuysCovered' /\ ~SellComing
    BY <2>1 DEF Unlinked, BuysCovered, SellComing
  <2>4. ASSUME NEW q \in Nat, q <= coins
        PROVE  q <= coins' \/ side = "sell"
    BY <1>1, <2>4
  <2>5. CoverStays
    BY <2>2, <2>3, <2>4, Zenon DEF CoverStays
  <2> QED
    BY <2>3, <2>5, HeldStays
<1>3. CASE linked
  <2> DEFINE n == Len(reports) + 1
             new == [side |-> side, qty |-> lots]
  <2>1. reports' = Append(reports, new) /\ missed' = missed
    BY <1>3 DEF Report
  <2>2. new \in Events
    BY DEF Events
  <2>3. /\ DOMAIN reports = 1..Len(reports) /\ DOMAIN reports' = 1..n
        /\ \A i \in 1..Len(reports) : reports'[i] = reports[i]
        /\ reports'[n] = new
    BY <1>1, <2>1, <2>2, AppendProperties, LenProperties
  <2>4. Unlinked'
    BY <1>3 DEF Unlinked
  <2>5. BuysCovered'
    <3> SUFFICES ASSUME NEW i \in 1..n, reports'[i].side = "buy"
                 PROVE  \/ reports'[i].qty <= coins'
                        \/ \E j \in 1..n : j > i /\ reports'[j].side = "sell"
      BY <2>3 DEF BuysCovered
    <3>1. CASE i = n
      BY <1>1, <2>3, <3>1
    <3>2. CASE i # n
      <4>1. i \in 1..Len(reports) /\ n > i /\ n \in 1..n
        BY <1>1, <3>2
      <4>2. CASE side = "sell"
        BY <2>3, <4>1, <4>2
      <4>3. CASE side = "buy"
        <5>1. reports[i] \in Events /\ reports[i].qty \in Nat /\ reports[i] = reports'[i]
          <6>1. reports[i] \in Events
            BY <1>1, <4>1, ElementOfSeq
          <6> QED
            BY <2>3, <4>1, <6>1 DEF Events
        <5>2. \/ reports[i].qty <= coins
              \/ \E j \in 1..Len(reports) : j > i /\ reports[j].side = "sell"
          BY <2>3, <4>1, <5>1 DEF HeldInv, BuysCovered
        <5>3. CASE reports[i].qty <= coins
          <6>1. coins' = coins + lots
            BY <4>3
          <6> QED
            BY <1>1, <5>1, <5>3, <6>1
        <5>4. ASSUME NEW j \in 1..Len(reports), j > i, reports[j].side = "sell"
              PROVE  \E k \in 1..n : k > i /\ reports'[k].side = "sell"
          <6>1. j \in 1..n /\ reports'[j] = reports[j]
            BY <1>1, <2>3
          <6> QED
            BY <5>4, <6>1
        <5> QED
          BY <5>2, <5>3, <5>4
      <4> QED
        BY <4>2, <4>3
    <3> QED
      BY <3>1, <3>2
  <2>6. CoverStays
    <3>1. CASE side = "sell"
      <4>1. n \in DOMAIN reports' /\ reports'[n].side = "sell"
        BY <1>1, <2>3, <3>1
      <4> QED
        BY <4>1 DEF CoverStays, SellComing
    <3>2. CASE side = "buy"
      <4>1. coins' = coins + lots
        BY <3>2
      <4>2. \A i \in DOMAIN reports : i \in DOMAIN reports' /\ reports'[i] = reports[i]
        BY <1>1, <2>3
      <4>3. SellComing => SellComing'
        BY <4>2 DEF SellComing
      <4>4. \A q \in Nat : q <= coins => q <= coins'
        BY <1>1, <4>1
      <4> QED
        BY <2>1, <4>3, <4>4 DEF CoverStays
    <3> QED
      BY <3>1, <3>2
  <2> QED
    BY <2>4, <2>5, <2>6, HeldStays
<1> QED
  BY <1>2, <1>3

\* The callback takes the first event: those behind it move up.
LEMMA HeldTake ==
    ASSUME LoopInv, HeldInv, reports # <<>>, reports' = Tail(reports), UNCHANGED <<coins, linked>>
    PROVE  /\ Unlinked' /\ BuysCovered'
           /\ \/ Head(reports).side = "sell"
              \/ Head(reports).qty <= coins
              \/ \E i \in DOMAIN reports' : reports'[i].side = "sell"
           /\ (\E i \in DOMAIN reports : reports[i].side = "sell")
                 => \/ Head(reports).side = "sell"
                    \/ \E i \in DOMAIN reports' : reports'[i].side = "sell"
<1> DEFINE n == Len(reports)
<1>1. /\ reports \in Seq(Events) /\ n \in Nat /\ n > 0
      /\ DOMAIN reports = 1..n
  BY LenProperties, EmptySeq DEF LoopInv, LoopTypes
<1>2. /\ Head(reports) = reports[1]
      /\ DOMAIN reports' = 1..(n - 1)
      /\ \A i \in 1..(n - 1) : reports'[i] = reports[i + 1]
  <2>1. Tail(reports) \in Seq(Events) /\ Len(Tail(reports)) = n - 1
    BY <1>1, HeadTailProperties
  <2> QED
    BY <1>1, <2>1, LenProperties, HeadTailProperties
<1>3. ASSUME NEW j \in 1..n, reports[j].side = "sell", j > 1
      PROVE  j - 1 \in 1..(n - 1) /\ reports'[j - 1].side = "sell"
  <2>1. j - 1 \in 1..(n - 1) /\ (j - 1) + 1 = j
    BY <1>1, <1>3
  <2>2. reports'[j - 1] = reports[(j - 1) + 1]
    BY <1>2, <2>1
  <2> QED
    BY <1>3, <2>1, <2>2
<1>4. Unlinked'
  <2>1. ~linked => reports = <<>>
    BY DEF HeldInv, Unlinked
  <2> QED
    BY <2>1 DEF Unlinked
<1>5. BuysCovered'
  <2> SUFFICES ASSUME NEW i \in 1..(n - 1), reports'[i].side = "buy"
               PROVE  \/ reports'[i].qty <= coins
                      \/ \E j \in 1..(n - 1) : j > i /\ reports'[j].side = "sell"
    BY <1>2 DEF BuysCovered
  <2>1. i + 1 \in 1..n /\ reports'[i] = reports[i + 1]
    BY <1>1, <1>2
  <2>2. \/ reports[i + 1].qty <= coins
        \/ \E j \in 1..n : j > i + 1 /\ reports[j].side = "sell"
    BY <1>1, <2>1 DEF HeldInv, BuysCovered
  <2>3. ASSUME NEW j \in 1..n, j > i + 1, reports[j].side = "sell"
        PROVE  \E k \in 1..(n - 1) : k > i /\ reports'[k].side = "sell"
    <3>1. j > 1 /\ j - 1 > i
      BY <2>3
    <3>2. j - 1 \in 1..(n - 1) /\ reports'[j - 1].side = "sell"
      BY <1>3, <2>3, <3>1
    <3> QED
      BY <3>1, <3>2
  <2> QED
    BY <2>1, <2>2, <2>3
<1>6. \/ Head(reports).side = "sell"
      \/ Head(reports).qty <= coins
      \/ \E i \in DOMAIN reports' : reports'[i].side = "sell"
  <2>1. reports[1] \in Events /\ 1 \in 1..n
    BY <1>1, ElementOfSeq
  <2>2. reports[1].side = "buy" =>
            \/ reports[1].qty <= coins
            \/ \E j \in 1..n : j > 1 /\ reports[j].side = "sell"
    BY <1>1, <2>1 DEF HeldInv, BuysCovered
  <2>3. reports[1].side \in {"buy", "sell"}
    BY <2>1 DEF Events
  <2> QED
    BY <1>2, <1>3, <2>2, <2>3
<1>7. ASSUME NEW i \in DOMAIN reports, reports[i].side = "sell"
      PROVE  \/ Head(reports).side = "sell"
             \/ \E k \in DOMAIN reports' : reports'[k].side = "sell"
  <2>1. CASE i = 1
    BY <1>2, <1>7, <2>1
  <2>2. CASE i # 1
    <3>1. i \in 1..n /\ i > 1
      BY <1>1, <1>7, <2>2
    <3> QED
      BY <1>2, <1>3, <1>7, <3>1
  <2> QED
    BY <2>1, <2>2
<1> QED
  BY <1>4, <1>5, <1>6, <1>7

LEMMA HeldDropFill == ASSUME LoopInv, HeldInv, BookSound', PhaseKept, DropFill PROVE HeldInv'
<1>1. /\ reports # <<>> /\ reports' = Tail(reports) /\ UNCHANGED <<coins, linked, pos>>
      /\ missed' = (missed \/ Head(reports).side = "sell")
  BY DEF DropFill, TakeReport, exchange
<1>2. /\ Unlinked' /\ BuysCovered'
      /\ (\E i \in DOMAIN reports : reports[i].side = "sell")
            => \/ Head(reports).side = "sell"
               \/ \E i \in DOMAIN reports' : reports'[i].side = "sell"
  BY <1>1, HeldTake
<1>3. missed \/ Head(reports).side = "sell" => missed'
  BY <1>1, Zenon
<1>4. CoverStays
  BY <1>1, <1>2, <1>3, Zenon DEF CoverStays, SellComing
<1> QED
  BY <1>1, <1>2, <1>4, HeldStays

LEMMA HeldOnFill == ASSUME LoopInv, HeldInv, BookSound', OnFill PROVE HeldInv'
<1>1. /\ reports # <<>> /\ reports' = Tail(reports) /\ UNCHANGED <<coins, linked>>
      /\ IF Head(reports).side = "buy"
         THEN RecordBuy(Head(reports).qty) /\ missed' = FALSE ELSE ClearPosition
      /\ phase' = "running"
  BY DEF OnFill, TakeReport, exchange, start, Unheard, Running
<1>0. BalanceHeld' /\ Untracked'
  BY <1>1 DEF BalanceHeld, Untracked, Early
<1>2. /\ Unlinked' /\ BuysCovered'
      /\ \/ Head(reports).side = "sell"
         \/ Head(reports).qty <= coins
         \/ \E i \in DOMAIN reports' : reports'[i].side = "sell"
  BY <1>1, HeldTake
<1>3. CASE Head(reports).side = "buy"
  <2>1. pos'.qty = Head(reports).qty
    BY <1>1, <1>3 DEF RecordBuy
  <2>2. Head(reports).qty <= coins => pos'.qty <= coins'
    BY <1>1, <2>1
  <2>3. PositionIsHeld'
    BY <1>2, <1>3, <2>2 DEF PositionIsHeld
  <2> QED
    BY <1>0, <1>2, <2>3 DEF HeldInv
<1>4. CASE Head(reports).side # "buy"
  <2>1. pos'.qty = 0 /\ coins' \in Nat
    BY <1>1, <1>4 DEF ClearPosition, NoPos, HeldInv, BookSound, SellsCovered
  <2>2. PositionIsHeld'
    BY <2>1 DEF PositionIsHeld
  <2> QED
    BY <1>0, <1>2, <2>2 DEF HeldInv
<1> QED
  BY <1>3, <1>4

\* Fills on their way are lost with the link.
LEMMA HeldLinkFails == ASSUME LoopInv, HeldInv, BookSound', PhaseKept, LinkFails PROVE HeldInv'
<1>1. /\ reports' = <<>> /\ UNCHANGED <<pos, coins>>
      /\ missed' = (missed \/ \E i \in DOMAIN reports : reports[i].side = "sell")
  BY DEF LinkFails, exchange
<1>2. missed \/ SellComing => missed'
  BY <1>1, Zenon DEF SellComing
<1>3. CoverStays
  BY <1>1, <1>2, Zenon DEF CoverStays
<1>4. Unlinked' /\ BuysCovered'
  BY <1>1 DEF Unlinked, BuysCovered
<1> QED
  BY <1>1, <1>3, <1>4, HeldStays

\* The tracker is set, with startup behind it.
LEMMA HeldTracked ==
    ASSUME HeldInv, BookSound', UNCHANGED <<coins, linked, reports>>, phase' \notin Early,
           PositionIsHeld'
    PROVE  HeldInv'
BY DEF HeldInv, Unlinked, BuysCovered, BalanceHeld, Untracked, Early

LEMMA HeldDies == ASSUME HeldInv, BookSound', Dies PROVE HeldInv'
<1>1. reports' = <<>> /\ pos'.qty = 0 /\ coins' \in Nat /\ phase' = "down"
  BY DEF Dies, Reset, NoPos, BookSound, SellsCovered
<1> QED
  BY <1>1 DEF HeldInv, Unlinked, BuysCovered, BalanceHeld, Untracked, PositionIsHeld

\* The balance is asked for, and counted anew.
LEMMA HeldLoad == ASSUME LoopInv, HeldInv, BookSound', LoadBalance PROVE HeldInv'
<1>1. /\ UNCHANGED <<coins, linked, reports, pos>> /\ phase = "load"
      /\ \/ phase' = "price" /\ balance' = coins
         \/ phase' = "public"
  BY DEF LoadBalance, socket, exchange
<1>2. pos.qty = 0 /\ coins \in Nat
  BY <1>1 DEF HeldInv, Untracked, Early, BookSound, SellsCovered
<1> QED
  BY <1>1, <1>2 DEF HeldInv, Unlinked, BuysCovered, BalanceHeld, Untracked, PositionIsHeld

\* The balance that was told becomes the position.
LEMMA HeldLoaded == ASSUME LoopInv, HeldInv, BookSound', LoadPosition PROVE HeldInv'
<1>1. /\ UNCHANGED <<coins, missed, linked, reports>>
      /\ phase = "price" /\ phase' = "public"
      /\ pos'.qty = balance \/ pos' = pos
  BY DEF LoadPosition, RecordBuy, socket, exchange
<1>2. phase' \notin Early
  BY <1>1 DEF Early
<1>3. PositionIsHeld'
  BY <1>1 DEF HeldInv, BalanceHeld, PositionIsHeld, SellComing
<1> QED
  BY <1>1, <1>2, <1>3, HeldTracked

\* What each step does to the book.
LEMMA BookNext == ASSUME LoopInv, HeldInv, [Next]_vars PROVE BookSound'
<1>1. OrderTypes' /\ BookSound
  BY NextInv DEF LoopInv, HeldInv
<1>2. ASSUME NEW o \in Ids, Fill(o)
      PROVE  BookSound'
  BY <1>1, <1>2, FillCovered
<1>3. CASE SellAtMarket
  <2>1. /\ orders' = orders
        /\ coins' = coins \/ (job.pos.qty <= Free /\ coins' = coins - job.pos.qty)
    BY <1>3 DEF SellAtMarket
  <2>2. job.pos.qty \in Nat /\ coins \in Nat /\ Lots("SELL") <= coins
    BY <1>1 DEF LoopInv, LoopTypes, Jobs, Positions, BookSound, SellsCovered
  <2>3. Lots("SELL") \in Nat /\ Lots("SELL")' = Lots("SELL")
    BY <1>1, <2>1, LotsForSale, SellingFinite DEF LoopInv, OrderTypes
  <2>4. coins' \in Nat /\ Lots("SELL") <= coins'
    BY <2>1, <2>2, <2>3 DEF Free
  <2> QED
    BY <1>1, <2>1, <2>3, <2>4 DEF BookSound, SellsCovered, SidesKnown
<1>4. CASE /\ coins' = coins
           /\ \/ orders' = orders
              \/ \E o \in Ids : CancelOrder(o)
              \/ \E side \in {"BUY", "SELL"}, lots \in Nat, bot \in BOOLEAN :
                    PlaceOrder(side, lots, bot)
  BY <1>1, <1>4, BookCovered
<1>5. CASE PlaceInitialGridOrder
  <2>1. coins' = coins /\ PlaceOrder("BUY", Size, FALSE) /\ Size \in Nat
    BY <1>5, TradingLoopAssumption DEF PlaceInitialGridOrder, PlaceOrder, TradingLoopAssumption
  <2> QED
    BY <1>4, <2>1
<1>6. ASSUME NEW at, SweepCancel(at)
      PROVE  BookSound'
  <2>1. coins' = coins /\ \E o \in sweep.todo : CancelOrder(o)
    BY <1>6 DEF SweepCancel
  <2> QED
    BY <1>4, <2>1 DEF LoopInv, LoopTypes, Sweeps
<1>7. CASE PlaceCounterOrder
  <2>1. /\ coins' = coins /\ hand # NoReport
        /\ PlaceOrder("SELL", hand.qty, TRUE) \/ PlaceOrder("BUY", Size, TRUE)
    BY <1>7 DEF PlaceCounterOrder
  <2>2. hand.qty \in Nat /\ Size \in Nat
    BY <2>1, TradingLoopAssumption DEF LoopInv, LoopTypes, Events, TradingLoopAssumption
  <2> QED
    BY <1>4, <2>1, <2>2
<1>8. CASE PlaceReplacement
  <2>1. /\ coins' = coins
        /\ PlaceOrder("BUY", Size, TRUE) \/ PlaceOrder("SELL", job.pos.qty, TRUE)
    BY <1>8 DEF PlaceReplacement
  <2>2. job.pos.qty \in Nat /\ Size \in Nat
    BY TradingLoopAssumption DEF LoopInv, LoopTypes, Jobs, Positions, TradingLoopAssumption
  <2> QED
    BY <1>4, <2>1, <2>2
<1>9. CASE CancelPending
  <2>1. coins' = coins /\ \E o \in job.todo : CancelOrder(o)
    BY <1>9 DEF CancelPending
  <2> QED
    BY <1>4, <2>1 DEF LoopInv, LoopTypes, Jobs
<1>10. CASE RebalancerCancels
  <2>1. coins' = coins /\ \E o \in Ids : CancelOrder(o)
    BY <1>10 DEF RebalancerCancels, CancelOrder
  <2> QED
    BY <1>4, <2>1
<1>11. CASE UNCHANGED exchange
  <2>1. coins' = coins /\ orders' = orders
    BY <1>11 DEF exchange
  <2> QED
    BY <1>4, <2>1
<1>12. CASE Startup
  BY <1>5, <1>6, <1>11, <1>12
     DEF Startup, ConnectPrivate, ReconcileOnce, LoadBalance, LoadPosition, BecomeReady, StartLoops,
         SweepList, SweepEnds
<1>13. CASE LoopStep
  BY <1>3, <1>8, <1>9, <1>11, <1>13 DEF LoopStep, Tick, ListPending, CancelsEnd, ClearAfterExit
<1>14. CASE StartProgram \/ Dies \/ LinkFails \/ LinkReturns \/ Age \/ DropFill \/ OnFill
  BY <1>11, <1>14
     DEF StartProgram, Dies, LinkFails, LinkReturns, Age, DropFill, OnFill, TakeReport
<1>15. CASE TickerFails \/ TickerOK \/ RebalancerFails \/ UNCHANGED vars
  BY <1>11, <1>15 DEF TickerFails, TickerOK, TickerFlat, TickerHeld, RebalancerFails, vars
<1> QED
  BY <1>2, <1>7, <1>10, <1>12, <1>13, <1>14, <1>15 DEF Next

LEMMA HeldNext == ASSUME LoopInv, HeldInv, [Next]_vars PROVE HeldInv'
<1>1. BookSound'
  BY BookNext
<1>a. CASE LoadBalance
  BY <1>1, <1>a, HeldLoad
<1>b. CASE Dies
  BY <1>1, <1>b, HeldDies
<1> SUFFICES ASSUME ~LoadBalance, ~Dies
             PROVE  HeldInv'
  BY <1>a, <1>b
<1>c. PhaseKept
  BY StartupKept
<1>2. ASSUME NEW o \in Ids, Fill(o)
      PROVE  HeldInv'
  <2>1. PICK lots \in 1..orders[o].left :
            \/ coins' = coins + lots /\ Report("buy", lots)
            \/ Report("sell", lots)
    BY <1>2 DEF Fill
  <2>2. lots \in Nat
    BY DEF LoopInv, OrderTypes, Orders
  <2>3. linked' = linked /\ pos' = pos
    BY <1>2 DEF Fill
  <2> QED
    BY <1>1, <1>c, <2>1, <2>2, <2>3, HeldReport
<1>3. CASE UNCHANGED <<coins, tracker, linked, reports>>
  <2>1. UNCHANGED <<coins, missed, linked, reports, pos>>
    BY <1>3 DEF tracker
  <2> QED
    BY <1>1, <1>c, <2>1, HeldKept
<1>4. CASE SellAtMarket
  <2>1. \/ Report("sell", job.pos.qty) /\ UNCHANGED <<linked, pos>>
        \/ UNCHANGED <<coins, tracker, linked, reports>>
    BY <1>4 DEF SellAtMarket, tracker
  <2>2. job.pos.qty \in Nat
    BY DEF LoopInv, LoopTypes, Jobs, Positions
  <2> QED
    BY <1>1, <1>3, <1>c, <2>1, <2>2, HeldReport
<1>5. CASE ClearAfterExit
  <2>1. UNCHANGED <<coins, linked, reports, phase>> /\ pos' = NoPos /\ step # "idle"
    BY <1>5 DEF ClearAfterExit, ClearPosition, start, socket, exchange
  <2>2. phase' \notin Early
    BY <2>1, AtWork DEF Running, Early
  <2>3. PositionIsHeld'
    BY <2>1 DEF NoPos, HeldInv, BookSound, SellsCovered, PositionIsHeld
  <2> QED
    BY <1>1, <2>1, <2>2, <2>3, HeldTracked
<1>6. CASE LoadPosition
  BY <1>1, <1>6, HeldLoaded
<1>7. CASE ConnectPrivate \/ LinkReturns
  <2>1. linked' /\ UNCHANGED <<pos, missed, coins, reports>>
    BY <1>7 DEF ConnectPrivate, LinkReturns, tracker, exchange
  <2> QED
    BY <1>1, <1>c, <2>1, HeldKept
<1>8. CASE Age
  <2>1. UNCHANGED <<coins, missed, linked, reports>>
    BY <1>8 DEF Age, socket, exchange
  <2>2. pos'.qty = pos.qty
    BY <1>8 DEF Age, LoopInv, LoopTypes, Positions
  <2> QED
    BY <1>1, <1>c, <2>1, <2>2, HeldKept
<1>10. CASE LinkFails \/ DropFill \/ OnFill
  BY <1>1, <1>c, <1>10, HeldLinkFails, HeldDropFill, HeldOnFill
<1>11. CASE PlaceCounterOrder \/ RebalancerCancels \/ RebalancerFails
  BY <1>3, <1>11 DEF PlaceCounterOrder, RebalancerCancels, RebalancerFails, socket, exchange
<1>12. CASE StartProgram \/ UNCHANGED vars
  BY <1>3, <1>12 DEF StartProgram, vars, socket, exchange
<1>13. CASE Startup
  BY <1>3, <1>6, <1>7, <1>13
     DEF Startup, ReconcileOnce, BecomeReady, StartLoops, PlaceInitialGridOrder,
         SweepList, SweepCancel, SweepEnds, socket, exchange
<1>14. CASE LoopStep
  BY <1>3, <1>4, <1>5, <1>14
     DEF LoopStep, Tick, ListPending, CancelPending, CancelsEnd, PlaceReplacement, socket, exchange
<1>15. CASE TickerFails \/ TickerOK
  BY <1>3, <1>15 DEF TickerFails, TickerOK, TickerFlat, TickerHeld, socket, exchange
<1> QED
  BY <1>2, <1>7, <1>8, <1>10, <1>11, <1>12, <1>13, <1>14, <1>15 DEF Next

LEMMA HeldInit == Init => HeldInv
<1> SUFFICES ASSUME Init
             PROVE  HeldInv
  OBVIOUS
<1>1. orders \in [Ids -> Orders] /\ Lots("SELL") = SellLots(orders)
  BY InitInv, LotsForSale DEF LoopInv, OrderTypes
<1>2. Selling(orders) = {}
  BY DEF Init, Selling, NoOrder
<1>3. Lots("SELL") = 0
  BY <1>1, <1>2, TotalEmpty DEF SellLots
<1>4. BookSound
  BY <1>3 DEF Init, BookSound, SellsCovered, SidesKnown, NoOrder
<1>5. reports = <<>> /\ pos.qty = 0 /\ coins = 0
  BY DEF Init, NoPos
<1>6. phase = "down"
  BY DEF Init
<1> QED
  BY <1>4, <1>5, <1>6 DEF HeldInv, Unlinked, BuysCovered, BalanceHeld, Untracked, PositionIsHeld

LEMMA HeldInvariant == Spec => []HeldInv
<1>1. LoopInv /\ HeldInv /\ [Next]_vars => HeldInv'
  BY HeldNext
<1> QED
  BY HeldInit, <1>1, LoopInvariant, PTL DEF Spec

\* A tracked position is held, or a SELL fill after its lots were counted was
\* not handled yet, or never will be (loadExistingPositions in its two requests,
\* RecordBuy, ClearPosition, the loop and the callback), for any number of
\* orders, lots and events.
THEOREM PositionsAreHeld == Spec => []PositionIsHeld
<1>1. HeldInv => PositionIsHeld
  BY DEF HeldInv
<1> QED
  BY <1>1, HeldInvariant, PTL

\* The exchange never holds more lots on open SELL orders than the balance
\* has, however cancels, counter-orders and market sells interleave.
THEOREM SellOrdersAreCovered == Spec => [](Lots("SELL") <= coins)
<1>1. HeldInv => Lots("SELL") <= coins
  BY DEF HeldInv, BookSound, SellsCovered
<1> QED
  BY <1>1, HeldInvariant, PTL

===============================================================================
