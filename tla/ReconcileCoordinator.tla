------------------------ MODULE ReconcileCoordinator ------------------------
(***************************************************************************)
(* internal/execution/reconciliation_coordinator.go with the watermarks of *)
(* internal/persistence/reconciliation_watermark.go: per-symbol cycles     *)
(* that page through the exchange's fills from a persisted watermark minus *)
(* an overlap, observe each fill and advance the watermark.                *)
(*                                                                         *)
(* Goroutines: the loop (ticker and trigger channel), and for each symbol  *)
(* up to two cycles, which are goroutines of the loop or callers of        *)
(* ReconcileNow.  A cycle is a record; its steps are the calls that can    *)
(* fail.  Observing a fill is idempotent (FillLedger) and is here the      *)
(* insertion into a set; the pages of one listing are one step.            *)
(*                                                                         *)
(* The exchange is external: a fill becomes visible to ListFills some time *)
(* after it happened, but not arbitrarily late against the newer ones.     *)
(***************************************************************************)
EXTENDS Integers, Sequences

CONSTANTS
    Symbols,
    Fills, SymbolOf, TimeOf,    \* fills the exchange may report, their exchange times
    Overlap,            \* OverlapWindow
    Lateness,           \* how much older than a visible fill a new one may be
    QueueCap,           \* capacity of triggerCh (64)
    MaxFailures,        \* bound on failing calls
    MaxCrashes,         \* bound on process crashes
    MaxCalls,           \* bound on calls of ReconcileNow
    CarriesCumulative   \* fill records carry a cumulative quantity, as OKXGateway's do not

ASSUME ReconcileAssumption ==
    /\ SymbolOf \in [Fills -> Symbols]
    /\ TimeOf \in [Fills -> Nat \ {0}]
    /\ Overlap \in Nat /\ Lateness \in Nat /\ Lateness <= Overlap
    /\ QueueCap \in Nat /\ MaxFailures \in Nat /\ MaxCrashes \in Nat /\ MaxCalls \in Nat
    /\ CarriesCumulative \in BOOLEAN

VARIABLES
    visible,    \* external: fills that ListFills returns
    observed,   \* fills committed through ObserveFill
    wm,         \* reconciliation_watermarks.exchange_ts, 0 for no row
    loop,       \* the coordinator: "running", "stopping" or "stopped"
    queue,      \* triggerCh
    running,    \* symbolReconcileState.running
    pending,    \* symbolReconcileState.pendingTrigger is set
    cyc,        \* the cycles of each symbol
    asked,      \* history: a trigger was accepted after the last cycle began
    faults      \* external: failures, crashes and calls so far

vars == <<visible, observed, wm, loop, queue, running, pending, cyc, asked, faults>>

Goroutines == {1, 2}
Bounded == {"failed", "crashed", "called"}
Times == {0} \cup {TimeOf[f] : f \in Fills}
FillsOf(s) == {f \in Fills : SymbolOf[f] = s}

\* No cycle.  now: a ReconcileNow call; start: the query window; todo: fills
\* still to observe; top: the latest exchange time listed.
NoCycle == [pc |-> "idle", now |-> FALSE, start |-> 0, todo |-> {}, top |-> 0]
NewCycle(now) == [NoCycle EXCEPT !.pc = "load", !.now = now]

Cycles == [pc : {"idle", "load", "list", "apply", "commit", "finish"}, now : BOOLEAN,
           start : Nat, todo : SUBSET Fills, top : Times]

Busy(s, g) == cyc[s][g].pc # "idle"

TypeOK ==
    /\ visible \subseteq Fills
    /\ observed \subseteq Fills
    /\ wm \in [Symbols -> Times]
    /\ loop \in {"running", "stopping", "stopped"}
    /\ queue \in Seq(Symbols) /\ Len(queue) <= QueueCap
    /\ running \in [Symbols -> BOOLEAN]
    /\ pending \in [Symbols -> BOOLEAN]
    /\ cyc \in [Symbols -> [Goroutines -> Cycles]]
    /\ asked \in [Symbols -> BOOLEAN]
    /\ faults \in [Bounded -> Nat]

NoCycles == [s \in Symbols |-> [g \in Goroutines |-> NoCycle]]
Nowhere == [s \in Symbols |-> FALSE]

Init ==
    /\ visible = {} /\ observed = {}
    /\ wm = [s \in Symbols |-> 0]
    /\ loop = "running"
    /\ queue = <<>>
    /\ running = Nowhere /\ pending = Nowhere
    /\ cyc = NoCycles
    /\ asked = Nowhere
    /\ faults = [what \in Bounded |-> 0]

Count(what, bound) == faults[what] < bound /\ faults' = [faults EXCEPT ![what] = @ + 1]

-----------------------------------------------------------------------------
\* The loop.

\* Mutant: a trigger never finds its symbol busy.
BusyNever(s) == FALSE

\* The symbol has a cycle in flight.
InFlight(s) == running[s]

\* handleTrigger for every symbol of a set: coalesce or spawn runCycle.
HandleTrigger(syms) ==
    /\ \A s \in syms : InFlight(s) \/ \E g \in Goroutines : ~Busy(s, g)
    /\ running' = [s \in Symbols |-> running[s] \/ s \in syms]
    /\ pending' = [s \in Symbols |-> pending[s] \/ (s \in syms /\ InFlight(s))]
    /\ cyc' = [s \in Symbols |->
                  IF s \in syms /\ ~InFlight(s)
                    THEN [cyc[s] EXCEPT ![CHOOSE g \in Goroutines : ~Busy(s, g)] = NewCycle(FALSE)]
                    ELSE cyc[s]]

\* Trigger: the channel takes it, or it is dropped (and only logged).
Trigger(s) ==
    /\ Len(queue) < QueueCap
    /\ queue' = Append(queue, s)
    /\ asked' = [asked EXCEPT ![s] = TRUE]
    /\ UNCHANGED <<visible, observed, wm, loop, running, pending, cyc, faults>>

Dispatch ==
    /\ loop # "stopped"
    /\ queue # <<>>
    /\ HandleTrigger({Head(queue)})
    /\ queue' = Tail(queue)
    /\ UNCHANGED <<visible, observed, wm, loop, asked, faults>>

\* periodicReconcileAll
Tick ==
    /\ loop # "stopped"
    /\ HandleTrigger(Symbols)
    /\ UNCHANGED <<visible, observed, wm, loop, queue, asked, faults>>

\* Stop closes stopCh and waits for the loop, not for the cycles.
Stop ==
    /\ loop = "running"
    /\ loop' = "stopping"
    /\ UNCHANGED <<visible, observed, wm, queue, running, pending, cyc, asked, faults>>

LoopExits ==
    /\ loop = "stopping"
    /\ loop' = "stopped"
    /\ UNCHANGED <<visible, observed, wm, queue, running, pending, cyc, asked, faults>>

\* Start again after a Stop: channel and cycles are those left behind.
Start ==
    /\ loop = "stopped"
    /\ loop' = "running"
    /\ UNCHANGED <<visible, observed, wm, queue, running, pending, cyc, asked, faults>>

\* ReconcileNow.
ReconcileNow(s) ==
    /\ Count("called", MaxCalls)
    /\ IF InFlight(s)
         THEN pending' = [pending EXCEPT ![s] = TRUE] /\ UNCHANGED <<running, cyc>>
         ELSE /\ running' = [running EXCEPT ![s] = TRUE]
              /\ \E g \in Goroutines :
                    ~Busy(s, g) /\ cyc' = [cyc EXCEPT ![s][g] = NewCycle(TRUE)]
              /\ UNCHANGED pending
    /\ UNCHANGED <<visible, observed, wm, loop, queue, asked>>

-----------------------------------------------------------------------------
\* executeCycle.

Set(s, g, c) == cyc' = [cyc EXCEPT ![s][g] = c]

\* The start of the query window.
Window(s) == IF wm[s] > Overlap THEN wm[s] - Overlap ELSE 0

Load(s, g) ==
    /\ cyc[s][g].pc = "load"
    /\ Set(s, g, [cyc[s][g] EXCEPT !.pc = "list", !.start = Window(s)])
    /\ asked' = [asked EXCEPT ![s] = FALSE]
    /\ UNCHANGED <<visible, observed, wm, loop, queue, running, pending, faults>>

\* paginateFills returned every page.
List(s, g) ==
    LET found == {f \in visible \cap FillsOf(s) : TimeOf[f] >= cyc[s][g].start} IN
    /\ cyc[s][g].pc = "list"
    /\ \E t \in {0} \cup {TimeOf[f] : f \in found} :
          /\ \A f \in found : TimeOf[f] <= t
          /\ Set(s, g, [cyc[s][g] EXCEPT !.pc = "apply", !.todo = found, !.top = t])
    /\ UNCHANGED <<visible, observed, wm, loop, queue, running, pending, asked, faults>>

\* ObserveFill for one fill; without a cumulative quantity it is rejected
\* (ValidateFillObservation) and the cycle ends.
Apply(s, g) ==
    /\ cyc[s][g].pc = "apply"
    /\ \E f \in cyc[s][g].todo :
          IF CarriesCumulative
            THEN /\ observed' = observed \cup {f}
                 /\ Set(s, g, [cyc[s][g] EXCEPT !.todo = @ \ {f}])
            ELSE /\ Set(s, g, [cyc[s][g] EXCEPT !.pc = "finish"])
                 /\ UNCHANGED observed
    /\ UNCHANGED <<visible, wm, loop, queue, running, pending, asked, faults>>

Applied(s, g) ==
    /\ cyc[s][g].pc = "apply" /\ cyc[s][g].todo = {}
    /\ Set(s, g, [cyc[s][g] EXCEPT !.pc = IF cyc[s][g].top > 0 THEN "commit" ELSE "finish"])
    /\ UNCHANGED <<visible, observed, wm, loop, queue, running, pending, asked, faults>>

\* CommitReconciliationWatermark: an unconditional upsert.
Commit(s, g) ==
    /\ cyc[s][g].pc = "commit"
    /\ wm' = [wm EXCEPT ![s] = cyc[s][g].top]
    /\ Set(s, g, [cyc[s][g] EXCEPT !.pc = "finish"])
    /\ UNCHANGED <<visible, observed, loop, queue, running, pending, asked, faults>>

\* Mutant: a failing fill is skipped, the cycle goes on to the watermark.
AfterFailureCommit(c) == IF c.pc = "apply" /\ c.top > 0 THEN "commit" ELSE "finish"

AfterFailure(c) == "finish"

\* Any of these calls fails: the cycle ends.  A failing COMMIT is uncertain,
\* the transaction may have happened.
CallFails(s, g) ==
    /\ cyc[s][g].pc \in {"load", "list", "apply", "commit"}
    /\ Count("failed", MaxFailures)
    /\ Set(s, g, [cyc[s][g] EXCEPT !.pc = AfterFailure(cyc[s][g])])
    /\ asked' = [asked EXCEPT ![s] = IF cyc[s][g].pc = "load" THEN FALSE ELSE @]
    /\ \/ UNCHANGED <<observed, wm>>
       \/ /\ cyc[s][g].pc = "apply" /\ CarriesCumulative
          /\ \E f \in cyc[s][g].todo : observed' = observed \cup {f}
          /\ UNCHANGED wm
       \/ /\ cyc[s][g].pc = "commit"
          /\ wm' = [wm EXCEPT ![s] = cyc[s][g].top]
          /\ UNCHANGED observed
    /\ UNCHANGED <<visible, loop, queue, running, pending>>

\* Mutant: the follow-up is looked for after the lock was released.
FollowsUpNever(s, g) == FALSE

\* runCycle looks for a coalesced follow-up; ReconcileNow does not.
FollowsUp(s, g) == pending[s] /\ ~cyc[s][g].now

Finish(s, g) ==
    /\ cyc[s][g].pc = "finish"
    /\ IF FollowsUp(s, g)
         THEN /\ pending' = [pending EXCEPT ![s] = FALSE]
              /\ Set(s, g, NewCycle(FALSE))
              /\ UNCHANGED running
         ELSE /\ running' = [running EXCEPT ![s] = FALSE]
              /\ Set(s, g, NoCycle)
              /\ UNCHANGED pending
    /\ UNCHANGED <<visible, observed, wm, loop, queue, asked, faults>>

Progress(s, g) ==
    \/ Load(s, g) \/ List(s, g) \/ Apply(s, g) \/ Applied(s, g)
    \/ Commit(s, g) \/ Finish(s, g)

-----------------------------------------------------------------------------
\* The environment.

\* The exchange makes a fill visible.
Appear(f) ==
    /\ f \notin visible
    /\ \A e \in visible \cap FillsOf(SymbolOf[f]) : TimeOf[e] <= TimeOf[f] + Lateness
    /\ visible' = visible \cup {f}
    /\ UNCHANGED <<observed, wm, loop, queue, running, pending, cyc, asked, faults>>

\* The process dies and is started again: only the database survives.
Crash ==
    /\ Count("crashed", MaxCrashes)
    /\ loop' = "running"
    /\ queue' = <<>>
    /\ running' = Nowhere /\ pending' = Nowhere
    /\ cyc' = NoCycles
    /\ asked' = Nowhere
    /\ UNCHANGED <<visible, observed, wm>>

CycleStep(s, g) == Progress(s, g) \/ CallFails(s, g)

Next ==
    \/ \E s \in Symbols : Trigger(s) \/ ReconcileNow(s)
    \/ \E s \in Symbols, g \in Goroutines : CycleStep(s, g)
    \/ \E f \in Fills : Appear(f)
    \/ Dispatch \/ Tick \/ Stop \/ LoopExits \/ Start \/ Crash

Safety == Init /\ [][Next]_vars

\* Calls return (25 s context), the loop reads its channel and its stopCh.
\* Nothing forces a tick, a trigger, a failure or a crash.
Fairness ==
    /\ \A s \in Symbols, g \in Goroutines : WF_vars(CycleStep(s, g))
    /\ WF_vars(Dispatch)
    /\ WF_vars(LoopExits)

Spec == Safety /\ Fairness

-----------------------------------------------------------------------------
\* At most one cycle of a symbol is in flight, and running says whether one
\* is (handleTrigger, ReconcileNow and runCycle under the symbol's mutex).
OneCyclePerSymbol ==
    \A s \in Symbols :
        /\ running[s] <=> \E g \in Goroutines : Busy(s, g)
        /\ \A g, h \in Goroutines : Busy(s, g) /\ Busy(s, h) => g = h

\* A visible fill that has not been observed is still inside the window of
\* the next cycle, through failures in the middle of a cycle, late fills and
\* crashes: the watermark never moves past it by more than the overlap.
NoFillLeftBehind ==
    \A f \in visible \ observed : TimeOf[f] >= Window(SymbolOf[f])

\* A trigger the channel took is followed by a cycle that begins after it,
\* without the ticker, unless the coordinator is stopped or ReconcileNow is
\* used, which forgets a coalesced trigger.
TriggersAreServed ==
    \A s \in Symbols : asked[s] ~> (~asked[s] \/ loop # "running" \/ faults["called"] > 0)

-----------------------------------------------------------------------------
\* What the design says and the code does not do: this does not hold, and TLC
\* shows why (README, section 6).

\* A coalesced follow-up belongs to a cycle in flight, which will start it
\* "immediately after completion" (design.md:479).
PendingIsServed == \A s \in Symbols : pending[s] => running[s]

\* While the coordinator and its ticker run, a visible fill is eventually
\* observed.  So it is with CarriesCumulative = TRUE; the records of the only
\* gateway carry no such quantity (exchange_gateway.go:441-481), and with FALSE
\* every cycle ends at its first fill.
EveryFillObserved ==
    WF_vars(Tick) => \A f \in Fills : f \in visible ~> (f \in observed \/ loop # "running")
=============================================================================
