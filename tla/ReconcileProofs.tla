--------------------------- MODULE ReconcileProofs ---------------------------
(***************************************************************************)
(* ReconcileCoordinator: the type invariant, one cycle of a symbol at a    *)
(* time, and no fill left behind the window.  The last needs the overlap   *)
(* to be at least the lateness of the exchange (ReconcileAssumption), and  *)
(* what a cycle in the middle of its work still has to observe.            *)
(***************************************************************************)
EXTENDS ReconcileCoordinator, TLAPS

\* A watermark is the time of a fill the exchange has shown.
WatermarkSeen ==
    \A s \in Symbols :
        wm[s] = 0 \/ \E e \in visible \cap FillsOf(s) : TimeOf[e] = wm[s]

\* What a cycle knows: its window is the present one; when it has listed, a
\* fill it will not observe is within the overlap of its next watermark.
Covers(s, c) ==
    /\ c.pc = "list" => c.start = Window(s)
    /\ c.pc \in {"apply", "commit"} =>
          /\ c.top = 0 \/ \E e \in visible \cap FillsOf(s) : TimeOf[e] = c.top
          /\ c.todo \subseteq visible
          /\ \A f \in (visible \cap FillsOf(s)) \ observed :
                f \in c.todo \/ TimeOf[f] + Overlap >= c.top
    /\ c.pc = "commit" => c.todo = {}

CyclesCover == \A s \in Symbols, g \in Goroutines : Covers(s, cyc[s][g])

ReconcileInv ==
    TypeOK /\ OneCyclePerSymbol /\ NoFillLeftBehind /\ WatermarkSeen /\ CyclesCover

-----------------------------------------------------------------------------
\* Writing one cycle changes that cycle and no other.
LEMMA SetOne ==
    ASSUME TypeOK, NEW s \in Symbols, NEW g \in Goroutines, NEW c \in Cycles, Set(s, g, c)
    PROVE  /\ cyc' \in [Symbols -> [Goroutines -> Cycles]]
           /\ cyc'[s][g] = c
           /\ \A t \in Symbols, h \in Goroutines :
                 (t # s \/ h # g) => cyc'[t][h] = cyc[t][h]
  BY DEF TypeOK, Set

LEMMA NoCycleType ==
    /\ NoCycle \in Cycles
    /\ \A now \in BOOLEAN : NewCycle(now) \in Cycles /\ NewCycle(now).pc = "load"
    /\ NoCycle.pc = "idle"
  BY DEF NoCycle, NewCycle, Cycles, Times

LEMMA WindowType ==
    ASSUME TypeOK, NEW s \in Symbols
    PROVE  Window(s) \in Nat /\ wm[s] \in Nat
  BY ReconcileAssumption DEF TypeOK, Window, Times

\* A step of a cycle writes that cycle, which stays busy or ends and clears
\* running.
LEMMA StepWrites ==
    ASSUME TypeOK, NEW s \in Symbols, NEW g \in Goroutines, CycleStep(s, g)
    PROVE  /\ Busy(s, g)
           /\ \E c \in Cycles :
                 /\ Set(s, g, c)
                 /\ \/ c.pc # "idle" /\ running' = running
                    \/ c.pc = "idle" /\ running' = [running EXCEPT ![s] = FALSE]
<1> USE ReconcileAssumption
<1> DEFINE Writes(c) == /\ Set(s, g, c)
                        /\ \/ c.pc # "idle" /\ running' = running
                           \/ c.pc = "idle" /\ running' = [running EXCEPT ![s] = FALSE]
<1>1. cyc[s][g] \in Cycles
  BY DEF TypeOK
<1>2. CASE Load(s, g)
  <2>1. Writes([cyc[s][g] EXCEPT !.pc = "list", !.start = Window(s)])
    BY <1>1, <1>2 DEF Load, Cycles
  <2>2. [cyc[s][g] EXCEPT !.pc = "list", !.start = Window(s)] \in Cycles
    BY <1>1, WindowType DEF Cycles
  <2> QED
    BY <1>2, <2>1, <2>2 DEF Load, Busy
<1>3. CASE List(s, g)
  <2> DEFINE found == {f \in visible \cap FillsOf(s) : TimeOf[f] >= cyc[s][g].start}
  <2>1. PICK t \in {0} \cup {TimeOf[f] : f \in found} :
            Set(s, g, [cyc[s][g] EXCEPT !.pc = "apply", !.todo = found, !.top = t])
    BY <1>3 DEF List
  <2>2. t \in Times /\ found \subseteq Fills
    BY DEF TypeOK, Times
  <2>3. /\ [cyc[s][g] EXCEPT !.pc = "apply", !.todo = found, !.top = t] \in Cycles
        /\ [cyc[s][g] EXCEPT !.pc = "apply", !.todo = found, !.top = t].pc = "apply"
    BY <1>1, <2>2 DEF Cycles
  <2> HIDE DEF found
  <2> QED
    BY <1>3, <2>1, <2>3 DEF List, Busy
<1>4. CASE Apply(s, g)
  <2>1. \A todo \in SUBSET Fills : [cyc[s][g] EXCEPT !.todo = todo] \in Cycles
            /\ [cyc[s][g] EXCEPT !.todo = todo].pc = cyc[s][g].pc
    BY <1>1 DEF Cycles
  <2>2. [cyc[s][g] EXCEPT !.pc = "finish"] \in Cycles
            /\ [cyc[s][g] EXCEPT !.pc = "finish"].pc = "finish"
    BY <1>1 DEF Cycles
  <2>3. \A f : cyc[s][g].todo \ {f} \in SUBSET Fills
    BY <1>1 DEF Cycles
  <2>4. PICK f \in cyc[s][g].todo :
            \/ Set(s, g, [cyc[s][g] EXCEPT !.todo = @ \ {f}])
            \/ Set(s, g, [cyc[s][g] EXCEPT !.pc = "finish"])
    BY <1>4 DEF Apply
  <2> QED
    BY <1>4, <2>1, <2>2, <2>3, <2>4 DEF Apply, Busy
<1>5. CASE Applied(s, g)
  <2>1. \A p \in {"commit", "finish"} : Writes([cyc[s][g] EXCEPT !.pc = p])
                                         <=> Set(s, g, [cyc[s][g] EXCEPT !.pc = p])
    BY <1>1, <1>5 DEF Applied, Cycles
  <2>2. \A p \in {"commit", "finish"} : [cyc[s][g] EXCEPT !.pc = p] \in Cycles
    BY <1>1 DEF Cycles
  <2>3. Busy(s, g)
    BY <1>5 DEF Applied, Busy
  <2>4. \E p \in {"commit", "finish"} : Set(s, g, [cyc[s][g] EXCEPT !.pc = p])
    BY <1>5 DEF Applied
  <2> HIDE DEF Writes
  <2>5. \E c \in Cycles : Writes(c)
    BY <2>1, <2>2, <2>4
  <2> QED
    BY <2>3, <2>5 DEF Writes
<1>6. CASE Commit(s, g) \/ CallFails(s, g)
  <2>1. Writes([cyc[s][g] EXCEPT !.pc = "finish"])
    BY <1>1, <1>6 DEF Commit, CallFails, AfterFailure, Cycles
  <2>2. [cyc[s][g] EXCEPT !.pc = "finish"] \in Cycles
    BY <1>1 DEF Cycles
  <2>3. Busy(s, g)
    BY <1>6 DEF Commit, CallFails, Busy
  <2> QED
    BY <2>1, <2>2, <2>3
<1>7. CASE Finish(s, g)
  BY <1>1, <1>7, NoCycleType DEF Finish, Busy
<1> QED
  BY <1>2, <1>3, <1>4, <1>5, <1>6, <1>7 DEF CycleStep, Progress

-----------------------------------------------------------------------------
\* Type correctness.

LEMMA InitInv == Init => ReconcileInv
<1> SUFFICES ASSUME Init
             PROVE  ReconcileInv
  OBVIOUS
<1> USE ReconcileAssumption, NoCycleType
<1>1. TypeOK
  BY DEF Init, TypeOK, NoCycles, Nowhere, Times, Bounded
<1>2. OneCyclePerSymbol
  BY DEF Init, OneCyclePerSymbol, NoCycles, Nowhere, Busy
<1>3. NoFillLeftBehind /\ WatermarkSeen
  BY DEF Init, NoFillLeftBehind, WatermarkSeen
<1>4. CyclesCover
  BY DEF Init, CyclesCover, NoCycles, Covers
<1> QED
  BY <1>1, <1>2, <1>3, <1>4 DEF ReconcileInv

\* HandleTrigger starts cycles where none is in flight.
LEMMA HandleTriggerStarts ==
    ASSUME TypeOK, NEW syms \in SUBSET Symbols, HandleTrigger(syms)
    PROVE  /\ cyc' \in [Symbols -> [Goroutines -> Cycles]]
           /\ running' \in [Symbols -> BOOLEAN] /\ pending' \in [Symbols -> BOOLEAN]
           /\ \A s \in Symbols :
                 \/ cyc'[s] = cyc[s] /\ running'[s] = running[s]
                 \/ /\ ~running[s] /\ running'[s]
                    /\ \E g \in Goroutines :
                          /\ ~Busy(s, g) /\ cyc'[s][g] = NewCycle(FALSE)
                          /\ \A h \in Goroutines \ {g} : cyc'[s][h] = cyc[s][h]
<1> DEFINE free(s) == CHOOSE g \in Goroutines : ~Busy(s, g)
<1>1. \A s \in syms : ~InFlight(s) => free(s) \in Goroutines /\ ~Busy(s, free(s))
  BY DEF HandleTrigger
<1>2. \A s \in Symbols :
          cyc'[s] = IF s \in syms /\ ~InFlight(s)
                      THEN [cyc[s] EXCEPT ![free(s)] = NewCycle(FALSE)] ELSE cyc[s]
  BY DEF HandleTrigger
<1>3. cyc' \in [Symbols -> [Goroutines -> Cycles]]
  <2>1. \A s \in Symbols :
            (IF s \in syms /\ ~InFlight(s)
               THEN [cyc[s] EXCEPT ![free(s)] = NewCycle(FALSE)] ELSE cyc[s])
            \in [Goroutines -> Cycles]
    BY <1>1, NoCycleType DEF TypeOK
  <2> QED
    BY <2>1 DEF HandleTrigger
<1>4. /\ running' \in [Symbols -> BOOLEAN] /\ pending' \in [Symbols -> BOOLEAN]
      /\ \A s \in Symbols : running'[s] = (running[s] \/ s \in syms)
  BY DEF HandleTrigger
<1>5. ASSUME NEW s \in Symbols, s \in syms, ~InFlight(s)
      PROVE  /\ ~running[s] /\ running'[s]
             /\ \E g \in Goroutines :
                   /\ ~Busy(s, g) /\ cyc'[s][g] = NewCycle(FALSE)
                   /\ \A h \in Goroutines \ {g} : cyc'[s][h] = cyc[s][h]
  <2>1. cyc'[s][free(s)] = NewCycle(FALSE)
            /\ \A h \in Goroutines \ {free(s)} : cyc'[s][h] = cyc[s][h]
    BY <1>1, <1>2, <1>5 DEF TypeOK
  <2> HIDE DEF free
  <2> QED
    BY <1>1, <1>4, <1>5, <2>1 DEF InFlight
<1>6. ASSUME NEW s \in Symbols, ~(s \in syms /\ ~InFlight(s))
      PROVE  cyc'[s] = cyc[s] /\ running'[s] = running[s]
  <2>1. cyc'[s] = cyc[s]
    BY <1>2, <1>6
  <2>2. running'[s] = running[s]
    BY <1>4, <1>6 DEF InFlight, TypeOK
  <2> QED
    BY <2>1, <2>2
<1> QED
  BY <1>3, <1>4, <1>5, <1>6

\* Where each step of a cycle leaves the variables other than cyc.
LEMMA CycleStepType ==
    ASSUME TypeOK, NEW s \in Symbols, NEW g \in Goroutines, CycleStep(s, g)
    PROVE  TypeOK'
<1> USE ReconcileAssumption
<1>1. cyc' \in [Symbols -> [Goroutines -> Cycles]]
  BY StepWrites, SetOne
<1>2. cyc[s][g] \in Cycles
  BY DEF TypeOK
<1>3. CASE Load(s, g)
  BY <1>1, <1>3 DEF Load, TypeOK
<1>4. CASE List(s, g)
  BY <1>1, <1>4 DEF List, TypeOK
<1>5. CASE Apply(s, g)
  <2>1. visible' = visible /\ observed' \subseteq Fills
    BY <1>2, <1>5 DEF Apply, TypeOK, Cycles
  <2> QED
    BY <1>1, <1>5, <2>1 DEF Apply, TypeOK
<1>6. CASE Applied(s, g)
  BY <1>1, <1>6 DEF Applied, TypeOK
<1>7. CASE Commit(s, g)
  BY <1>1, <1>2, <1>7 DEF Commit, TypeOK, Cycles
<1>8. CASE Finish(s, g)
  BY <1>1, <1>8 DEF Finish, TypeOK
<1>9. CASE CallFails(s, g)
  <2>1. faults' \in [Bounded -> Nat]
    BY <1>9 DEF CallFails, Count, TypeOK, Bounded
  <2>2. asked' \in [Symbols -> BOOLEAN]
    BY <1>9 DEF CallFails, TypeOK
  <2>3. observed' \subseteq Fills /\ wm' \in [Symbols -> Times]
    BY <1>2, <1>9 DEF CallFails, TypeOK, Cycles
  <2> QED
    BY <1>1, <1>9, <2>1, <2>2, <2>3 DEF CallFails, TypeOK
<1> QED
  BY <1>3, <1>4, <1>5, <1>6, <1>7, <1>8, <1>9 DEF CycleStep, Progress

\* The steps that are not of one cycle.
LoopStep ==
    \/ \E s \in Symbols : Trigger(s) \/ ReconcileNow(s)
    \/ \E f \in Fills : Appear(f)
    \/ Dispatch \/ Tick \/ Stop \/ LoopExits \/ Start \/ Crash

LEMMA LoopStepType ==
    ASSUME TypeOK, LoopStep
    PROVE  TypeOK'
<1> USE ReconcileAssumption, NoCycleType
<1>1. ASSUME NEW s \in Symbols, Trigger(s)
      PROVE  TypeOK'
  BY <1>1 DEF Trigger, TypeOK
<1>2. ASSUME NEW s \in Symbols, ReconcileNow(s)
      PROVE  TypeOK'
  <2>1. faults' \in [Bounded -> Nat]
    BY <1>2 DEF ReconcileNow, Count, TypeOK, Bounded
  <2>2. running' \in [Symbols -> BOOLEAN] /\ pending' \in [Symbols -> BOOLEAN]
    BY <1>2 DEF ReconcileNow, TypeOK
  <2>3. cyc' \in [Symbols -> [Goroutines -> Cycles]]
    <3>1. NewCycle(TRUE) \in Cycles
      OBVIOUS
    <3>2. cyc' = cyc \/ \E g \in Goroutines : cyc' = [cyc EXCEPT ![s][g] = NewCycle(TRUE)]
      BY <1>2 DEF ReconcileNow
    <3>3. CASE cyc' = cyc
      BY <3>3 DEF TypeOK
    <3>4. ASSUME NEW g \in Goroutines, cyc' = [cyc EXCEPT ![s][g] = NewCycle(TRUE)]
          PROVE  cyc' \in [Symbols -> [Goroutines -> Cycles]]
      BY <3>1, <3>4 DEF TypeOK
    <3> QED
      BY <3>2, <3>3, <3>4
  <2> QED
    BY <1>2, <2>1, <2>2, <2>3 DEF ReconcileNow, TypeOK
<1>3. ASSUME NEW f \in Fills, Appear(f)
      PROVE  TypeOK'
  BY <1>3 DEF Appear, TypeOK
<1>4. CASE Dispatch
  <2>1. Head(queue) \in Symbols /\ Tail(queue) \in Seq(Symbols) /\ Len(Tail(queue)) <= QueueCap
    BY <1>4 DEF Dispatch, TypeOK
  <2>2. /\ cyc' \in [Symbols -> [Goroutines -> Cycles]]
        /\ running' \in [Symbols -> BOOLEAN] /\ pending' \in [Symbols -> BOOLEAN]
    BY <1>4, <2>1, HandleTriggerStarts DEF Dispatch
  <2> QED
    BY <1>4, <2>1, <2>2 DEF Dispatch, TypeOK
<1>5. CASE Tick
  <2>1. /\ cyc' \in [Symbols -> [Goroutines -> Cycles]]
        /\ running' \in [Symbols -> BOOLEAN] /\ pending' \in [Symbols -> BOOLEAN]
    BY <1>5, HandleTriggerStarts DEF Tick
  <2> QED
    BY <1>5, <2>1 DEF Tick, TypeOK
<1>6. CASE Stop \/ LoopExits \/ Start
  BY <1>6 DEF Stop, LoopExits, Start, TypeOK
<1>7. CASE Crash
  BY <1>7 DEF Crash, Count, NoCycles, Nowhere, TypeOK, Bounded
<1> QED
  BY <1>1, <1>2, <1>3, <1>4, <1>5, <1>6, <1>7 DEF LoopStep

-----------------------------------------------------------------------------
\* One cycle at a time.

LEMMA CycleStepOne ==
    ASSUME TypeOK, OneCyclePerSymbol,
           NEW s \in Symbols, NEW g \in Goroutines, CycleStep(s, g)
    PROVE  OneCyclePerSymbol'
<1>1. Busy(s, g) /\ running \in [Symbols -> BOOLEAN]
  BY StepWrites DEF TypeOK
<1>2. PICK c \in Cycles :
          /\ Set(s, g, c)
          /\ \/ c.pc # "idle" /\ running' = running
             \/ c.pc = "idle" /\ running' = [running EXCEPT ![s] = FALSE]
  BY StepWrites
<1>3. /\ cyc'[s][g] = c
      /\ \A t \in Symbols, h \in Goroutines : (t # s \/ h # g) => cyc'[t][h] = cyc[t][h]
  BY <1>2, SetOne
<1>4. \A t \in Symbols : running'[t] <=> IF t = s THEN c.pc # "idle" ELSE running[t]
  BY <1>1, <1>2 DEF OneCyclePerSymbol
<1>5. \A h \in Goroutines : Busy(s, h) => h = g
  BY <1>1 DEF OneCyclePerSymbol
<1>6. \A h \in Goroutines : Busy(s, h)' <=> (h = g /\ c.pc # "idle")
  BY <1>3, <1>5 DEF Busy
<1>7. \A t \in Symbols \ {s}, h \in Goroutines : Busy(t, h)' <=> Busy(t, h)
  BY <1>3 DEF Busy
<1> QED
  BY <1>4, <1>6, <1>7 DEF OneCyclePerSymbol

LEMMA LoopStepOne ==
    ASSUME TypeOK, OneCyclePerSymbol, LoopStep
    PROVE  OneCyclePerSymbol'
<1> USE NoCycleType
<1>1. ASSUME NEW s \in Symbols, NEW now \in BOOLEAN, ~running[s], running'[s],
             \E g \in Goroutines :
                /\ ~Busy(s, g) /\ cyc'[s][g] = NewCycle(now)
                /\ \A h \in Goroutines \ {g} : cyc'[s][h] = cyc[s][h]
      PROVE  /\ running'[s] <=> \E g \in Goroutines : Busy(s, g)'
             /\ \A g, h \in Goroutines : Busy(s, g)' /\ Busy(s, h)' => g = h
  <2>1. \A h \in Goroutines : ~Busy(s, h)
    BY <1>1 DEF OneCyclePerSymbol
  <2> QED
    BY <1>1, <2>1 DEF Busy
<1>2. ASSUME NEW s \in Symbols, cyc'[s] = cyc[s], running'[s] = running[s]
      PROVE  /\ running'[s] <=> \E g \in Goroutines : Busy(s, g)'
             /\ \A g, h \in Goroutines : Busy(s, g)' /\ Busy(s, h)' => g = h
  BY <1>2 DEF Busy, OneCyclePerSymbol
<1>7. ASSUME NEW syms \in SUBSET Symbols, HandleTrigger(syms)
      PROVE  OneCyclePerSymbol'
  <2> SUFFICES ASSUME NEW s \in Symbols
               PROVE  /\ running'[s] <=> \E g \in Goroutines : Busy(s, g)'
                      /\ \A g, h \in Goroutines : Busy(s, g)' /\ Busy(s, h)' => g = h
    BY DEF OneCyclePerSymbol
  <2>1. CASE cyc'[s] = cyc[s] /\ running'[s] = running[s]
    BY <1>2, <2>1
  <2>2. CASE ~(cyc'[s] = cyc[s] /\ running'[s] = running[s])
    BY <1>1, <1>7, <2>2, HandleTriggerStarts
  <2> QED
    BY <2>1, <2>2
<1>8. ASSUME NEW s \in Symbols, ReconcileNow(s)
      PROVE  OneCyclePerSymbol'
  <2> SUFFICES ASSUME NEW t \in Symbols
               PROVE  /\ running'[t] <=> \E g \in Goroutines : Busy(t, g)'
                      /\ \A g, h \in Goroutines : Busy(t, g)' /\ Busy(t, h)' => g = h
    BY DEF OneCyclePerSymbol
  <2>1. CASE InFlight(s) \/ t # s
    <3>1. cyc'[t] = cyc[t] /\ running'[t] = running[t]
      BY <1>8, <2>1 DEF ReconcileNow, TypeOK
    <3> QED
      BY <1>2, <3>1
  <2>2. CASE ~InFlight(s) /\ t = s
    <3>1. PICK g \in Goroutines : ~Busy(s, g) /\ cyc' = [cyc EXCEPT ![s][g] = NewCycle(TRUE)]
      BY <1>8, <2>2 DEF ReconcileNow
    <3>2. cyc'[s][g] = NewCycle(TRUE) /\ \A h \in Goroutines \ {g} : cyc'[s][h] = cyc[s][h]
      BY <3>1 DEF TypeOK
    <3>3. ~running[s] /\ running'[s]
      BY <1>8, <2>2 DEF ReconcileNow, InFlight, TypeOK
    <3> QED
      BY <1>1, <2>2, <3>1, <3>2, <3>3
  <2> QED
    BY <2>1, <2>2
<1>3. ASSUME UNCHANGED <<running, cyc>>
      PROVE  OneCyclePerSymbol'
  BY <1>3 DEF OneCyclePerSymbol, Busy
<1>4. CASE Crash
  BY <1>4 DEF Crash, OneCyclePerSymbol, Busy, NoCycles, Nowhere
<1>5. CASE Dispatch
  <2>1. Head(queue) \in Symbols
    BY <1>5 DEF Dispatch, TypeOK
  <2> QED
    BY <1>7, <1>5, <2>1 DEF Dispatch
<1>6. CASE Tick
  BY <1>7, <1>6 DEF Tick
<1> QED
  BY <1>3, <1>4, <1>5, <1>6, <1>8 DEF LoopStep, Trigger, Appear, Stop, LoopExits, Start

-----------------------------------------------------------------------------
\* No fill left behind.

\* A step of a cycle that keeps what the cycle knows keeps the invariant.
LEMMA KeepsCovering ==
    ASSUME ReconcileInv, NEW s \in Symbols, NEW g \in Goroutines, NEW c \in Cycles,
           Busy(s, g), Set(s, g, c), visible' = visible, observed \subseteq observed',
           \A t \in Symbols \ {s} : wm'[t] = wm[t],
           Covers(s, c)'
    PROVE  CyclesCover'
<1> SUFFICES ASSUME NEW t \in Symbols, NEW h \in Goroutines
             PROVE  Covers(t, cyc[t][h])'
  BY DEF CyclesCover
<1>1. TypeOK /\ OneCyclePerSymbol /\ CyclesCover
  BY DEF ReconcileInv
<1>2. /\ cyc'[s][g] = c
      /\ (t # s \/ h # g) => cyc'[t][h] = cyc[t][h]
  BY <1>1, SetOne
<1>3. CASE t = s /\ h = g
  BY <1>2, <1>3
<1>4. CASE t = s /\ h # g
  <2>1. cyc[t][h].pc = "idle"
    BY <1>1, <1>4 DEF OneCyclePerSymbol, Busy
  <2> QED
    BY <1>2, <1>4, <2>1 DEF Covers
<1>5. CASE t # s
  <2>1. Covers(t, cyc[t][h]) /\ wm'[t] = wm[t]
    BY <1>1, <1>5 DEF CyclesCover
  <2>2. Window(t)' = Window(t)
    BY <2>1 DEF Window
  <2> QED
    BY <1>2, <1>5, <2>1, <2>2 DEF Covers
<1> QED
  BY <1>3, <1>4, <1>5

\* With the same watermarks, and no more fills unobserved than before, the
\* fills and the watermarks are as they were.
LEMMA SameMarks ==
    ASSUME ReconcileInv, UNCHANGED <<visible, wm>>, observed \subseteq observed'
    PROVE  NoFillLeftBehind' /\ WatermarkSeen'
  BY DEF ReconcileInv, NoFillLeftBehind, WatermarkSeen, Window

\* The watermark that a cycle commits.
LEMMA NewMark ==
    ASSUME ReconcileInv, NEW s \in Symbols, NEW g \in Goroutines, cyc[s][g].pc = "commit",
           wm' = [wm EXCEPT ![s] = cyc[s][g].top], UNCHANGED <<visible, observed>>
    PROVE  NoFillLeftBehind' /\ WatermarkSeen'
<1> USE ReconcileAssumption
<1>1. /\ TypeOK /\ NoFillLeftBehind /\ WatermarkSeen
      /\ Covers(s, cyc[s][g])
  BY DEF ReconcileInv, CyclesCover
<1>2. cyc[s][g].top \in Nat /\ cyc[s][g].todo = {}
  BY <1>1 DEF TypeOK, Cycles, Times, Covers
<1>3. /\ wm'[s] = cyc[s][g].top
      /\ \A t \in Symbols \ {s} : wm'[t] = wm[t]
  BY <1>1 DEF TypeOK
<1>4. NoFillLeftBehind'
  <2> SUFFICES ASSUME NEW f \in visible \ observed
               PROVE  TimeOf[f] >= Window(SymbolOf[f])'
    BY DEF NoFillLeftBehind
  <2>1. f \in Fills /\ TimeOf[f] \in Nat /\ SymbolOf[f] \in Symbols
    BY <1>1 DEF TypeOK
  <2>2. CASE SymbolOf[f] = s
    <3>1. f \in (visible \cap FillsOf(s)) \ observed
      BY <2>1, <2>2 DEF FillsOf
    <3>2. TimeOf[f] + Overlap >= cyc[s][g].top
      BY <1>1, <1>2, <3>1 DEF Covers
    <3> QED
      BY <1>2, <1>3, <2>1, <2>2, <3>2 DEF Window
  <2>3. CASE SymbolOf[f] # s
    BY <1>1, <1>3, <2>1, <2>3 DEF NoFillLeftBehind, Window
  <2> QED
    BY <2>2, <2>3
<1>5. WatermarkSeen'
  BY <1>1, <1>3 DEF WatermarkSeen, Covers
<1> QED
  BY <1>4, <1>5

LEMMA CycleStepCovers ==
    ASSUME ReconcileInv, NEW s \in Symbols, NEW g \in Goroutines, CycleStep(s, g)
    PROVE  NoFillLeftBehind' /\ WatermarkSeen' /\ CyclesCover'
<1> USE ReconcileAssumption
<1>1. /\ TypeOK /\ NoFillLeftBehind /\ Busy(s, g)
      /\ cyc[s][g] \in Cycles /\ Covers(s, cyc[s][g])
  BY StepWrites DEF ReconcileInv, CyclesCover, TypeOK
<1>2. CASE Load(s, g)
  <2>0. PICK c : c = [cyc[s][g] EXCEPT !.pc = "list", !.start = Window(s)]
    OBVIOUS
  <2>1. c \in Cycles /\ c.pc = "list" /\ c.start = Window(s)
    BY <1>1, <2>0, WindowType DEF Cycles
  <2>2. Set(s, g, c) /\ UNCHANGED <<visible, observed, wm>>
    BY <1>2, <2>0 DEF Load
  <2>3. Covers(s, c)'
    BY <2>1, <2>2 DEF Covers, Window
  <2> QED
    BY <1>1, <2>1, <2>2, <2>3, KeepsCovering, SameMarks
<1>3. CASE List(s, g)
  <2> DEFINE found == {f \in visible \cap FillsOf(s) : TimeOf[f] >= cyc[s][g].start}
  <2>1. PICK t \in {0} \cup {TimeOf[f] : f \in found} :
            Set(s, g, [cyc[s][g] EXCEPT !.pc = "apply", !.todo = found, !.top = t])
    BY <1>3 DEF List
  <2>0. PICK c : c = [cyc[s][g] EXCEPT !.pc = "apply", !.todo = found, !.top = t]
    OBVIOUS
  <2>2. t \in Times /\ found \subseteq Fills
    BY <1>1 DEF TypeOK, Times
  <2>3. c \in Cycles /\ c.pc = "apply" /\ c.todo = found /\ c.top = t
    BY <1>1, <2>0, <2>2 DEF Cycles
  <2>4. cyc[s][g].start = Window(s) /\ UNCHANGED <<visible, observed, wm>>
    BY <1>1, <1>3 DEF List, Covers
  <2>5. \A f \in (visible \cap FillsOf(s)) \ observed : f \in found
    BY <1>1, <2>4 DEF NoFillLeftBehind, FillsOf
  <2>6. t = 0 \/ \E e \in visible \cap FillsOf(s) : TimeOf[e] = t
    OBVIOUS
  <2>7. found \subseteq visible
    OBVIOUS
  <2> HIDE DEF found
  <2>8. Covers(s, c)'
    BY <2>3, <2>4, <2>5, <2>6, <2>7 DEF Covers, FillsOf
  <2> QED
    BY <1>1, <2>0, <2>1, <2>3, <2>4, <2>8, KeepsCovering, SameMarks
<1>4. ASSUME NEW c \in Cycles, c.pc \in {"idle", "load", "finish"}, Set(s, g, c),
             UNCHANGED visible, observed \subseteq observed',
             \/ UNCHANGED wm
             \/ /\ cyc[s][g].pc = "commit" /\ UNCHANGED observed
                /\ wm' = [wm EXCEPT ![s] = cyc[s][g].top]
      PROVE  NoFillLeftBehind' /\ WatermarkSeen' /\ CyclesCover'
  <2>1. Covers(s, c)'
    BY <1>4 DEF Covers
  <2>2. \A t \in Symbols \ {s} : wm'[t] = wm[t]
    BY <1>1, <1>4 DEF TypeOK
  <2>3. CyclesCover'
    BY <1>1, <1>4, <2>1, <2>2, KeepsCovering
  <2> QED
    BY <1>4, <2>3, SameMarks, NewMark
<1>5. [cyc[s][g] EXCEPT !.pc = "finish"] \in Cycles
          /\ [cyc[s][g] EXCEPT !.pc = "finish"].pc = "finish"
  BY <1>1 DEF Cycles
<1>6. CASE Apply(s, g)
  <2>1. CASE ~CarriesCumulative
    BY <1>4, <1>5, <1>6, <2>1 DEF Apply
  <2>2. CASE CarriesCumulative
    <3>1. PICK f \in cyc[s][g].todo :
              /\ observed' = observed \cup {f}
              /\ Set(s, g, [cyc[s][g] EXCEPT !.todo = @ \ {f}])
      BY <1>6, <2>2 DEF Apply
    <3>0. PICK c : c = [cyc[s][g] EXCEPT !.todo = @ \ {f}]
      OBVIOUS
    <3>2. c \in Cycles /\ c.pc = "apply" /\ c.todo = cyc[s][g].todo \ {f}
              /\ c.top = cyc[s][g].top
      BY <1>1, <1>6, <3>0 DEF Cycles, Apply
    <3>3. UNCHANGED <<visible, wm>>
      BY <1>6 DEF Apply
    <3>4. Covers(s, c)'
      BY <1>1, <1>6, <3>1, <3>2, <3>3 DEF Covers, Apply
    <3> QED
      BY <1>1, <3>0, <3>1, <3>2, <3>3, <3>4, KeepsCovering, SameMarks
  <2> QED
    BY <2>1, <2>2
<1>7. CASE Applied(s, g)
  <2>1. UNCHANGED <<visible, observed, wm>>
    BY <1>7 DEF Applied
  <2>2. CASE ~(cyc[s][g].top > 0)
    BY <1>4, <1>5, <1>7, <2>1, <2>2 DEF Applied
  <2>3. CASE cyc[s][g].top > 0
    <3>0. PICK c : c = [cyc[s][g] EXCEPT !.pc = "commit"]
      OBVIOUS
    <3>1. c \in Cycles /\ c.pc = "commit" /\ c.todo = {} /\ c.top = cyc[s][g].top
      BY <1>1, <1>7, <3>0 DEF Cycles, Applied
    <3>2. Set(s, g, c)
      BY <1>7, <2>3, <3>0 DEF Applied
    <3>3. Covers(s, c)'
      BY <1>1, <1>7, <2>1, <3>1 DEF Covers, Applied
    <3> QED
      BY <1>1, <2>1, <3>1, <3>2, <3>3, KeepsCovering, SameMarks
  <2> QED
    BY <2>2, <2>3
<1>8. CASE Commit(s, g)
  BY <1>4, <1>5, <1>8 DEF Commit
<1>9. CASE CallFails(s, g)
  <2>1. Set(s, g, [cyc[s][g] EXCEPT !.pc = "finish"]) /\ UNCHANGED visible
    BY <1>9 DEF CallFails, AfterFailure
  <2>2. CASE UNCHANGED <<observed, wm>>
    BY <1>4, <1>5, <2>1, <2>2
  <2>3. CASE UNCHANGED wm /\ \E f \in cyc[s][g].todo : observed' = observed \cup {f}
    BY <1>4, <1>5, <2>1, <2>3
  <2>4. CASE /\ cyc[s][g].pc = "commit" /\ UNCHANGED observed
             /\ wm' = [wm EXCEPT ![s] = cyc[s][g].top]
    BY <1>4, <1>5, <2>1, <2>4
  <2> QED
    BY <1>9, <2>2, <2>3, <2>4 DEF CallFails
<1>10. CASE Finish(s, g)
  BY <1>4, <1>10, NoCycleType DEF Finish
<1> QED
  BY <1>2, <1>3, <1>6, <1>7, <1>8, <1>9, <1>10 DEF CycleStep, Progress

LEMMA LoopStepCovers ==
    ASSUME ReconcileInv, LoopStep
    PROVE  NoFillLeftBehind' /\ WatermarkSeen' /\ CyclesCover'
<1> USE ReconcileAssumption
<1>0. TypeOK /\ NoFillLeftBehind /\ WatermarkSeen /\ CyclesCover
  BY DEF ReconcileInv
<1>1. ASSUME NEW f \in Fills, Appear(f)
      PROVE  NoFillLeftBehind' /\ WatermarkSeen' /\ CyclesCover'
  <2>1. /\ visible' = visible \cup {f} /\ UNCHANGED <<observed, wm, cyc>>
        /\ \A e \in visible \cap FillsOf(SymbolOf[f]) : TimeOf[e] <= TimeOf[f] + Lateness
        /\ SymbolOf[f] \in Symbols
    BY <1>1 DEF Appear
  <2>2. \A e \in Fills : TimeOf[e] \in Nat
    OBVIOUS
  <2>3. \A e \in visible \cap FillsOf(SymbolOf[f]) : TimeOf[f] + Overlap >= TimeOf[e]
    BY <1>0, <2>1, <2>2 DEF TypeOK
  <2>4. TimeOf[f] >= Window(SymbolOf[f])
    BY <1>0, <2>1, <2>2, <2>3, WindowType DEF WatermarkSeen, Window
  <2>5. NoFillLeftBehind'
    BY <1>0, <2>1, <2>4 DEF NoFillLeftBehind, Window
  <2>6. WatermarkSeen'
    BY <1>0, <2>1 DEF WatermarkSeen
  <2>7. ASSUME NEW s \in Symbols, NEW g \in Goroutines
        PROVE  Covers(s, cyc[s][g])'
    <3>1. Covers(s, cyc[s][g]) /\ cyc[s][g] \in Cycles
      BY <1>0 DEF CyclesCover, TypeOK
    <3>2. Window(s)' = Window(s)
      BY <2>1 DEF Window
    <3>3. CASE cyc[s][g].pc \in {"apply", "commit"}
      <4>1. cyc[s][g].top \in Nat
        BY <3>1 DEF Cycles, Times
      <4>2. f \in FillsOf(s) => TimeOf[f] + Overlap >= cyc[s][g].top
        BY <2>2, <2>3, <3>1, <3>3, <4>1 DEF Covers, FillsOf
      <4> QED
        BY <2>1, <3>1, <3>2, <3>3, <4>2 DEF Covers
    <3> QED
      BY <2>1, <3>1, <3>2, <3>3 DEF Covers
  <2> QED
    BY <2>5, <2>6, <2>7 DEF CyclesCover
<1>2. ASSUME UNCHANGED <<visible, observed, wm>>,
             \A s \in Symbols, g \in Goroutines :
                cyc'[s][g] = cyc[s][g] \/ cyc'[s][g].pc \in {"idle", "load"}
      PROVE  NoFillLeftBehind' /\ WatermarkSeen' /\ CyclesCover'
  <2>1. ASSUME NEW s \in Symbols, NEW g \in Goroutines
        PROVE  Covers(s, cyc[s][g])'
    BY <1>0, <1>2, <2>1 DEF CyclesCover, Covers, Window
  <2> QED
    BY <1>2, <2>1, SameMarks DEF CyclesCover
<1>3. ASSUME NEW syms \in SUBSET Symbols, HandleTrigger(syms)
      PROVE  \A s \in Symbols, g \in Goroutines :
                cyc'[s][g] = cyc[s][g] \/ cyc'[s][g].pc \in {"idle", "load"}
  <2> SUFFICES ASSUME NEW s \in Symbols, NEW h \in Goroutines
               PROVE  cyc'[s][h] = cyc[s][h] \/ cyc'[s][h].pc \in {"idle", "load"}
    OBVIOUS
  <2>1. NewCycle(FALSE).pc = "load"
    BY NoCycleType
  <2>2. CASE cyc'[s] = cyc[s]
    BY <2>2
  <2>3. ASSUME NEW g \in Goroutines, cyc'[s][g] = NewCycle(FALSE),
               \A k \in Goroutines \ {g} : cyc'[s][k] = cyc[s][k]
        PROVE  cyc'[s][h] = cyc[s][h] \/ cyc'[s][h].pc \in {"idle", "load"}
    BY <2>1, <2>3
  <2>4. \/ cyc'[s] = cyc[s]
        \/ \E g \in Goroutines :
              /\ cyc'[s][g] = NewCycle(FALSE)
              /\ \A k \in Goroutines \ {g} : cyc'[s][k] = cyc[s][k]
    <3>1. TypeOK
      BY <1>0
    <3>2. \A t \in Symbols :
              \/ cyc'[t] = cyc[t] /\ running'[t] = running[t]
              \/ /\ ~running[t] /\ running'[t]
                 /\ \E g \in Goroutines :
                       /\ ~Busy(t, g) /\ cyc'[t][g] = NewCycle(FALSE)
                       /\ \A k \in Goroutines \ {g} : cyc'[t][k] = cyc[t][k]
      BY ONLY <1>3, <3>1, HandleTriggerStarts
    <3>3. CASE cyc'[s] = cyc[s]
      BY <3>3
    <3>4. ASSUME cyc'[s] # cyc[s]
          PROVE  \E g \in Goroutines :
                    /\ cyc'[s][g] = NewCycle(FALSE)
                    /\ \A k \in Goroutines \ {g} : cyc'[s][k] = cyc[s][k]
      <4>1. \E g \in Goroutines :
               /\ ~Busy(s, g) /\ cyc'[s][g] = NewCycle(FALSE)
               /\ \A k \in Goroutines \ {g} : cyc'[s][k] = cyc[s][k]
        BY ONLY <3>2, <3>4, s \in Symbols
      <4>2. PICK g \in Goroutines :
               /\ cyc'[s][g] = NewCycle(FALSE)
               /\ \A k \in Goroutines \ {g} : cyc'[s][k] = cyc[s][k]
        BY ONLY <4>1
      <4> QED
        BY ONLY <4>2
    <3> QED
      BY ONLY <3>3, <3>4
  <2> QED
    BY <2>2, <2>3, <2>4
<1>4. CASE Dispatch \/ Tick
  <2>1. queue # <<>> => Head(queue) \in Symbols
    BY <1>0 DEF TypeOK
  <2> QED
    BY <1>2, <1>3, <1>4, <2>1 DEF Dispatch, Tick
<1>5. ASSUME NEW s \in Symbols, ReconcileNow(s)
      PROVE  NoFillLeftBehind' /\ WatermarkSeen' /\ CyclesCover'
  <2>2. UNCHANGED <<visible, observed, wm>>
    BY <1>5 DEF ReconcileNow
  <2>3. cyc' = cyc \/ \E g \in Goroutines : cyc' = [cyc EXCEPT ![s][g] = NewCycle(TRUE)]
    BY <1>5 DEF ReconcileNow
  <2>4. NewCycle(TRUE) \in Cycles /\ NewCycle(TRUE).pc = "load"
    BY NoCycleType
  <2>5. ASSUME NEW t \in Symbols, NEW h \in Goroutines
        PROVE  cyc'[t][h] = cyc[t][h] \/ cyc'[t][h].pc \in {"idle", "load"}
    <3>1. CASE cyc' = cyc
      BY <3>1
    <3>2. ASSUME NEW g \in Goroutines, cyc' = [cyc EXCEPT ![s][g] = NewCycle(TRUE)]
          PROVE  cyc'[t][h] = cyc[t][h] \/ cyc'[t][h].pc \in {"idle", "load"}
      <4>1. cyc'[t][h] = cyc[t][h] \/ cyc'[t][h] = NewCycle(TRUE)
        BY <1>0, <3>2 DEF TypeOK
      <4> QED
        BY <2>4, <4>1
    <3> QED
      BY <2>3, <3>1, <3>2
  <2> QED
    BY <1>2, <2>2, <2>5
<1>6. CASE Crash
  BY <1>2, <1>6, NoCycleType DEF Crash, NoCycles
<1>7. ASSUME UNCHANGED <<visible, observed, wm, cyc>>
      PROVE  NoFillLeftBehind' /\ WatermarkSeen' /\ CyclesCover'
  BY <1>2, <1>7
<1>8. ASSUME NEW s \in Symbols, Trigger(s)
      PROVE  UNCHANGED <<visible, observed, wm, cyc>>
  BY <1>8 DEF Trigger
<1>9. Stop \/ LoopExits \/ Start => UNCHANGED <<visible, observed, wm, cyc>>
  BY DEF Stop, LoopExits, Start
<1> QED
  BY <1>1, <1>4, <1>5, <1>6, <1>7, <1>8, <1>9 DEF LoopStep

-----------------------------------------------------------------------------
\* Every step keeps the inductive invariant.
LEMMA Inductive == ReconcileInv /\ [Next]_vars => ReconcileInv'
<1> SUFFICES ASSUME ReconcileInv, [Next]_vars
             PROVE  ReconcileInv'
  OBVIOUS
<1>1. TypeOK /\ OneCyclePerSymbol
  BY DEF ReconcileInv
<1>2. ASSUME NEW s \in Symbols, NEW g \in Goroutines, CycleStep(s, g)
      PROVE  ReconcileInv'
  BY <1>1, <1>2, CycleStepType, CycleStepOne, CycleStepCovers DEF ReconcileInv
<1>3. CASE LoopStep
  BY <1>1, <1>3, LoopStepType, LoopStepOne, LoopStepCovers DEF ReconcileInv
<1>4. CASE UNCHANGED vars
  BY <1>4 DEF vars, ReconcileInv, TypeOK, OneCyclePerSymbol, Busy, NoFillLeftBehind,
              Window, WatermarkSeen, CyclesCover, Covers
<1> QED
  BY <1>2, <1>3, <1>4 DEF Next, LoopStep

\* The variables of the coordinator keep their types.
THEOREM ReconcileTypeCorrect == Safety => []TypeOK
<1>1. ReconcileInv => TypeOK
  BY DEF ReconcileInv
<1> QED
  BY <1>1, InitInv, Inductive, PTL DEF Safety

\* At most one cycle of a symbol is in flight, whoever started it (the loop
\* or ReconcileNow), through Stop, Start and crashes.
THEOREM CyclesDoNotOverlap == Safety => []OneCyclePerSymbol
<1>1. ReconcileInv => OneCyclePerSymbol
  BY DEF ReconcileInv
<1> QED
  BY <1>1, InitInv, Inductive, PTL DEF Safety

\* A fill the exchange shows is observed or within the window of the next
\* cycle: for every overlap that is at least the lateness of the exchange,
\* every number of fills and symbols, failures and crashes.
THEOREM FillsStayInWindow == Safety => []NoFillLeftBehind
<1>1. ReconcileInv => NoFillLeftBehind
  BY DEF ReconcileInv
<1> QED
  BY <1>1, InitInv, Inductive, PTL DEF Safety
=============================================================================
