------------------------------ MODULE GateProofs -----------------------------
(***************************************************************************)
(* Proofs about the risk gate and about the private WebSocket state        *)
(* machine, which opens and closes it.                                     *)
(*                                                                         *)
(* The state machine (PrivateWS), for any number of subscriptions,         *)
(* connections and attempts.  Its types need no assumption.  Conduct ties  *)
(* the state to the step of the one connector at work, says that no sentry *)
(* is up to anything during a handshake, and that only the current         *)
(* connection can be open: this needs Prompt.  Stopped is what is left of  *)
(* it after a Stop at any time; only that Ready means subscribed is lost   *)
(* then, and assumes QuietStop.                                            *)
(*                                                                         *)
(* The gate (TradingGate): the agreement of the Active flag with the       *)
(* reasons, the isolation of symbols, and that no recovery takes along     *)
(* what requires a human.                                                  *)
(***************************************************************************)
EXTENDS PrivateWS, TradingGate, FiniteSetTheorems, TLAPS

-----------------------------------------------------------------------------
(* The state machine. *)

Handshake == {"dialing", "auth", "subscribing", "reconciling"}
Steps == {"none", "spawned", "waiting", "dialing", "auth", "subscribing", "reconciling",
          "opening", "returning", "finished"}
Links == {"none", "up", "silent", "broken", "closed"}
Places == {"none", "idle", "blocked", "lost", "losing", "exited"}

Nobody == \A i \in Connectors : ~Active(i)
NoneLosing == \A a \in Sentries : pc[a] # "losing"

OneActive == \A i, j \in Connectors : Active(i) /\ Active(j) => i = j
OneLosing == \A a, b \in Sentries : pc[a] = "losing" /\ pc[b] = "losing" => a = b

\* Between its two critical sections a sentry has the machine to itself.
LosingAlone ==
    \A a \in Sentries : pc[a] = "losing" => Nobody /\ (done \/ state = "Unhealthy")

\* The state is that of the connector at work.
StepState ==
    \A i \in Connectors :
        /\ step[i] = "spawned" => done \/ state = "Unhealthy"
        /\ step[i] = "waiting" => state \in {"Backoff", "SafeStopped"}
        /\ step[i] = "dialing" => state = "Connecting"
        /\ step[i] = "auth" => state = "Authenticating"
        /\ step[i] = "subscribing" => state = "Subscribing"
        /\ step[i] = "reconciling" => state = "Reconciling"
        /\ step[i] \in Handshake => ~done

\* The state when nobody is at work, and after Stop.
RestState ==
    /\ Nobody /\ NoneLosing /\ ~done
          => state \in {"Disconnected", "Ready", "Backoff", "SafeStopped"}
    /\ done => state \in {"Disconnected", "Backoff", "SafeStopped"}

\* During a handshake no sentry is about to report a loss.
QuietHandshake ==
    \A i \in Connectors : step[i] \in Handshake =>
        \A a \in Sentries : pc[a] \in {"none", "exited"} \/ (a \notin Readers /\ pc[a] = "idle")

\* A connector that has yet to open the gate does so before the next handshake,
\* and spawns its sentries then.
OpenersFirst ==
    (\E i \in Connectors : step[i] \in Handshake) => \A j \in Connectors : step[j] # "opening"
Unborn ==
    \A i \in Connectors : step[i] \notin {"returning", "finished"} =>
        /\ pc[Reader(i)] = "none"
        /\ i = 0 => pc[Heartbeat] = "none" /\ pc[Watchdog] = "none"
Openers == OpenersFirst /\ Unborn

Unstarted ==
    step[0] = "none" =>
        conn = 0 /\ (\A i \in Connectors : step[i] = "none") /\ (\A a \in Sentries : pc[a] = "none")

\* Only the current connection is open, and there is none before a dial.
OldLinks == \A c \in Dials : c # conn => link[c] \in {"none", "closed"}
NoConn == \A i \in Connectors : step[i] \in {"spawned", "waiting", "dialing"} => conn = 0
BlockedOn == \A a \in Sentries : pc[a] = "blocked" => on[a] \in Dials

\* What a handshake has achieved so far.
HandshakeKnows ==
    \A i \in Connectors :
        /\ step[i] = "subscribing" =>
              conn # 0 /\ using[i] = conn /\ link[conn] # "closed" /\ acked[conn] \cup todo[i] = Subs
        /\ step[i] = "reconciling" => conn # 0 /\ link[conn] # "closed" /\ acked[conn] = Subs

Budget == \A i \in Loops : step[i] \in Handshake => attempt[i] < MaxAttempts

AtWork == OneActive /\ OneLosing /\ LosingAlone /\ StepState /\ RestState /\ QuietHandshake /\ Openers
Network == Unstarted /\ OldLinks /\ NoConn /\ BlockedOn /\ HandshakeKnows
Promises == Budget /\ ReadyIsSubscribed

Conduct == AtWork /\ Network /\ Promises

WSInv == TypeOK /\ AtWork /\ Network /\ Promises

\* What FollowsDiagram and OnlyALateOpenerStrays say of a step.
Follows == state' # state /\ ~done' => <<state, state'>> \in Diagram
LateOpening == \E i \in Connectors : At(i, "opening") /\ ~At(i, "opening")' /\ state # "Ready"
GateStep == ~GateAstray /\ GateAstray' => LateOpening
Arrow == Follows /\ GateStep

-----------------------------------------------------------------------------
LEMMA Sets ==
    /\ 0 \in Connectors /\ Loops \subseteq Connectors /\ 0 \notin Loops
    /\ Dials \subseteq Nat /\ 0 \notin Dials /\ 0..MaxDials = Dials \cup {0}
    /\ Heartbeat \in Sentries /\ Watchdog \in Sentries
    /\ Heartbeat \notin Readers /\ Watchdog \notin Readers
    /\ Readers \subseteq Sentries /\ \A i \in Connectors : Reader(i) \in Readers
<1>1. MaxDials \in Nat
  BY PrivateWSAssumption DEF PrivateWSAssumption
<1>2. /\ 0 \in Connectors /\ Loops \subseteq Connectors /\ 0 \notin Loops
      /\ Dials \subseteq Nat /\ 0 \notin Dials /\ 0..MaxDials = Dials \cup {0}
  BY <1>1 DEF Connectors, Loops, Dials
<1>3. Heartbeat \notin Readers /\ Watchdog \notin Readers
  BY DEF Heartbeat, Watchdog, Readers, Reader
<1> QED
  BY <1>2, <1>3 DEF Sentries, Readers

\* The connector at work is the only one, and no sentry works beside it.
LEMMA Alone ==
    ASSUME WSInv, NEW i \in Connectors, Active(i)
    PROVE  (\A j \in Connectors : j # i => ~Active(j)) /\ NoneLosing
BY DEF WSInv, AtWork, OneActive, LosingAlone, Nobody, NoneLosing

LEMMA InitInv == Init => WSInv
<1> SUFFICES ASSUME Init
             PROVE  WSInv
  OBVIOUS
<1>1. MaxAttempts \in Nat /\ MaxDials \in Nat
  BY PrivateWSAssumption DEF PrivateWSAssumption
<1>2. TypeOK
  <2>1. /\ state \in States /\ conn \in 0..MaxDials
        /\ fresh \in BOOLEAN /\ gate \in BOOLEAN /\ done \in BOOLEAN
        /\ cancelled \subseteq Connectors /\ stop \in {"no", "waiting", "returned"}
    <3>1. conn \in 0..MaxDials /\ state \in States
      BY <1>1 DEF Init, States
    <3>2. fresh \in BOOLEAN /\ gate \in BOOLEAN /\ done \in BOOLEAN
      BY DEF Init
    <3>3. cancelled \subseteq Connectors /\ stop \in {"no", "waiting", "returned"}
      BY DEF Init
    <3> QED
      BY <3>1, <3>2, <3>3
  <2>2. link \in [Dials -> Links] /\ acked \in [Dials -> SUBSET Subs]
    <3>1. "none" \in Links /\ {} \in SUBSET Subs
      BY DEF Links
    <3> QED
      BY <3>1 DEF Init
  <2>3. /\ step \in [Connectors -> Steps] /\ todo \in [Connectors -> SUBSET Subs]
        /\ using \in [Connectors -> 0..MaxDials] /\ attempt \in [Connectors -> 0..MaxAttempts]
    BY <1>1 DEF Init, Steps
  <2>4. pc \in [Sentries -> Places] /\ on \in [Sentries -> 0..MaxDials]
    BY <1>1 DEF Init, Places
  <2> QED
    BY <2>1, <2>2, <2>3, <2>4 DEF TypeOK, Links, Steps, Places
<1>3. (\A i \in Connectors : step[i] = "none") /\ (\A a \in Sentries : pc[a] = "none")
  BY DEF Init
<1>4. AtWork
  BY <1>3, Sets DEF Init, AtWork, OneActive, OneLosing, LosingAlone, StepState, RestState,
                    QuietHandshake, Openers, OpenersFirst, Unborn, Active, Handshake
<1>5. Network
  BY <1>3 DEF Init, Network, Unstarted, OldLinks, NoConn, BlockedOn, HandshakeKnows
<1>6. Promises
  BY <1>3, Sets DEF Init, Promises, Budget, ReadyIsSubscribed, Handshake
<1> QED
  BY <1>2, <1>4, <1>5, <1>6 DEF WSInv

-----------------------------------------------------------------------------
(* The types, which need no scheduling assumption *)

TypeInv == TypeOK /\ Budget

LEMMA GotoType ==
    ASSUME TypeOK, NEW i \in Connectors, NEW s \in Steps, Goto(i, s)
    PROVE  /\ step' \in [Connectors -> Steps] /\ step'[i] = s
           /\ \A j \in Connectors : j # i => step'[j] = step[j]
BY DEF TypeOK, Steps, Goto

LEMMA MoveType ==
    ASSUME TypeOK, NEW a \in Sentries, NEW s \in Places, Move(a, s)
    PROVE  /\ pc' \in [Sentries -> Places] /\ pc'[a] = s
           /\ \A b \in Sentries : b # a => pc'[b] = pc[b]
BY DEF TypeOK, Places, Move

LEMMA ClosedLinks ==
    ASSUME TypeOK
    PROVE  Closed \in [Dials -> Links]
BY Sets DEF TypeOK, Closed, Links

\* An attempt fails: the budget of a loop in a handshake is not used up.
LEMMA FailType ==
    ASSUME TypeInv, NEW i \in Connectors, step[i] \in Handshake,
           attempt' = [attempt EXCEPT ![i] = IF i = 0 THEN 0 ELSE @ + 1],
           Goto(i, IF i = 0 THEN "finished" ELSE "waiting")
    PROVE  attempt' \in [Connectors -> 0..MaxAttempts] /\ step' \in [Connectors -> Steps] /\ Budget'
<1>1. attempt \in [Connectors -> 0..MaxAttempts] /\ MaxAttempts \in Nat
  BY PrivateWSAssumption DEF TypeInv, TypeOK, PrivateWSAssumption
<1>2. i # 0 => attempt[i] + 1 \in 0..MaxAttempts
  BY <1>1 DEF TypeInv, Budget, Loops
<1>3. /\ attempt' \in [Connectors -> 0..MaxAttempts]
      /\ \A j \in Connectors : j # i => attempt'[j] = attempt[j]
  BY <1>1, <1>2
<1>4. (IF i = 0 THEN "finished" ELSE "waiting") \in Steps
  BY DEF Steps
<1>5. /\ step' \in [Connectors -> Steps] /\ step'[i] \notin Handshake
      /\ \A j \in Connectors : j # i => step'[j] = step[j]
  BY <1>4, GotoType DEF TypeInv, Handshake
<1>6. Budget'
  BY <1>3, <1>5, Sets DEF TypeInv, Budget
<1> QED
  BY <1>3, <1>5, <1>6

\* A step that leaves the budget alone and starts no handshake.
LEMMA BudgetStays ==
    ASSUME TypeInv, NEW i \in Connectors, NEW s \in Steps, Goto(i, s), UNCHANGED attempt,
           s \in Handshake => step[i] \in Handshake \/ i = 0
    PROVE  step' \in [Connectors -> Steps] /\ Budget'
<1>1. /\ step' \in [Connectors -> Steps] /\ step'[i] = s
      /\ \A j \in Connectors : j # i => step'[j] = step[j]
  BY GotoType DEF TypeInv
<1> QED
  BY <1>1, Sets DEF TypeInv, Budget

LEMMA ConnectType == ASSUME TypeInv, NEW i \in Connectors, Connect(i) PROVE TypeInv'
<1>1. conn \in 0..MaxDials /\ (conn # 0 => conn \in Dials) /\ TypeOK
  BY Sets DEF TypeInv, TypeOK
<1>2. CASE DialFails(i) \/ HandshakeFails(i) \/ ReconcileFails(i)
  <2>1. /\ step[i] \in Handshake
        /\ attempt' = [attempt EXCEPT ![i] = IF i = 0 THEN 0 ELSE @ + 1]
        /\ Goto(i, IF i = 0 THEN "finished" ELSE "waiting")
        /\ state' \in {"Backoff", "SafeStopped"}
        /\ (conn' = 0 /\ link' = Closed) \/ UNCHANGED <<conn, link>>
        /\ UNCHANGED <<fresh, gate, done, cancelled, acked, todo, using, pc, on, stop>>
    BY <1>2 DEF DialFails, HandshakeFails, ReconcileFails, Fail, At, Handshake, network, sentries
  <2>2. attempt' \in [Connectors -> 0..MaxAttempts] /\ step' \in [Connectors -> Steps] /\ Budget'
    BY <2>1, FailType
  <2>3. conn' \in 0..MaxDials /\ link' \in [Dials -> Links] /\ state' \in States
    BY <1>1, <2>1, ClosedLinks, Sets DEF TypeOK, Links, States
  <2> QED
    BY <1>1, <2>1, <2>2, <2>3 DEF TypeInv, TypeOK, Steps, Links
<1>3. CASE Dial(i)
  <2>1. /\ step[i] \in Handshake /\ Goto(i, "auth") /\ state' = "Authenticating"
        /\ UNCHANGED <<fresh, gate, done, cancelled, acked, todo, using, attempt, pc, on, stop>>
    BY <1>3 DEF Dial, At, Handshake, sentries
  <2>2. PICK c \in Dials : link' = [link EXCEPT ![c] = "up"] /\ conn' = c
    BY <1>3 DEF Dial
  <2>3. conn' \in 0..MaxDials /\ link' \in [Dials -> Links] /\ state' \in States
    BY <1>1, <2>1, <2>2, Sets DEF TypeOK, Links, States
  <2>4. step' \in [Connectors -> Steps] /\ Budget'
    BY <2>1, BudgetStays DEF Steps
  <2> QED
    BY <1>1, <2>1, <2>3, <2>4 DEF TypeInv, TypeOK, Steps, Links
<1>4. CASE Auth(i)
  <2>1. /\ step[i] \in Handshake /\ Goto(i, "subscribing") /\ state' = "Subscribing" /\ fresh' = TRUE
        /\ todo' = [todo EXCEPT ![i] = Subs] /\ using' = [using EXCEPT ![i] = conn]
        /\ UNCHANGED <<conn, gate, done, cancelled, link, acked, attempt, pc, on, stop>>
    BY <1>4 DEF Auth, At, Handshake, network, sentries
  <2>2. todo' \in [Connectors -> SUBSET Subs] /\ using' \in [Connectors -> 0..MaxDials]
    BY <1>1, <2>1 DEF TypeOK
  <2>3. step' \in [Connectors -> Steps] /\ Budget'
    BY <2>1, BudgetStays DEF Steps
  <2>4. state' \in States
    BY <2>1 DEF States
  <2> QED
    BY <1>1, <2>1, <2>2, <2>3, <2>4 DEF TypeInv, TypeOK, Steps
<1>5. CASE SubAck(i)
  <2>1. /\ step[i] \in Handshake /\ using[i] \in Dials
        /\ UNCHANGED <<conn, gate, done, cancelled, link, using, attempt, pc, on, stop>>
    BY <1>1, <1>5, Sets DEF SubAck, At, Handshake, sentries, TypeOK
  <2>2. PICK s \in todo[i] :
           /\ acked' = [acked EXCEPT ![using[i]] = @ \cup {s}]
           /\ todo' = [todo EXCEPT ![i] = @ \ {s}]
           /\ \/ fresh' = TRUE /\ state' = "Reconciling" /\ Goto(i, "reconciling")
              \/ UNCHANGED <<fresh, state, step>>
    BY <1>5 DEF SubAck
  <2>3. acked' \in [Dials -> SUBSET Subs] /\ todo' \in [Connectors -> SUBSET Subs]
    BY <1>1, <2>1, <2>2 DEF TypeOK
  <2>4. step' \in [Connectors -> Steps] /\ Budget'
    <3>1. CASE Goto(i, "reconciling")
      BY <2>1, <3>1, BudgetStays DEF Steps
    <3>2. CASE UNCHANGED step
      BY <1>1, <2>1, <3>2 DEF TypeInv, TypeOK, Steps, Budget
    <3> QED
      BY <2>2, <3>1, <3>2
  <2>5. fresh' \in BOOLEAN /\ state' \in States
    BY <1>1, <2>2 DEF TypeOK, States
  <2> QED
    BY <1>1, <2>1, <2>3, <2>4, <2>5 DEF TypeInv, TypeOK, Steps
<1>6. CASE Reconcile(i)
  <2>1. /\ step[i] \in Handshake /\ Goto(i, "opening") /\ state' = "Ready" /\ fresh' = TRUE
        /\ UNCHANGED <<conn, gate, done, cancelled, link, acked, todo, using, attempt, pc, on, stop>>
    BY <1>6 DEF Reconcile, At, Handshake, network, sentries
  <2>2. step' \in [Connectors -> Steps] /\ Budget'
    BY <2>1, BudgetStays DEF Steps
  <2>3. state' \in States
    BY <2>1 DEF States
  <2> QED
    BY <1>1, <2>1, <2>2, <2>3 DEF TypeInv, TypeOK, Steps
<1>7. CASE OpenGate(i)
  <2>1. /\ Goto(i, IF i = 0 THEN "finished" ELSE "returning") /\ gate' = TRUE
        /\ UNCHANGED <<state, conn, fresh, done, cancelled, link, acked, todo, using, attempt, on, stop>>
    BY <1>7 DEF OpenGate, network
  <2>2. pc' \in [Sentries -> Places]
    BY <1>1, <1>7 DEF OpenGate, TypeOK, Places
  <2>3. (IF i = 0 THEN "finished" ELSE "returning") \in Steps \ Handshake
    BY DEF Steps, Handshake
  <2>4. step' \in [Connectors -> Steps] /\ Budget'
    BY <2>1, <2>3, BudgetStays
  <2> QED
    BY <1>1, <2>1, <2>2, <2>4 DEF TypeInv, TypeOK, Steps, Places
<1> QED
  BY <1>2, <1>3, <1>4, <1>5, <1>6, <1>7 DEF Connect

\* A backoff ends only with budget left.
LEMMA LoopType == ASSUME TypeInv, NEW i \in Loops, ReconnectLoop(i) PROVE TypeInv'
<1>1. i \in Connectors /\ i # 0 /\ TypeOK
  BY Sets DEF TypeInv
<1>2. CASE LoopStarts(i) \/ LoopQuits(i) \/ Exhausted(i) \/ CancelAttempt(i)
  <2>1. /\ Goto(i, "waiting") \/ Goto(i, "finished")
        /\ state' \in {"Backoff", "SafeStopped", state}
        /\ cancelled' \in {cancelled, cancelled \cup {i}}
        /\ UNCHANGED <<conn, fresh, gate, done, link, acked, todo, using, attempt, pc, on, stop>>
    BY <1>2 DEF LoopStarts, LoopQuits, Exhausted, CancelAttempt, shared, network, sentries
  <2>2. step' \in [Connectors -> Steps] /\ Budget'
    BY <1>1, <2>1, BudgetStays DEF Steps, Handshake
  <2>3. state' \in States /\ cancelled' \subseteq Connectors
    BY <1>1, <2>1 DEF TypeOK, States
  <2> QED
    BY <1>1, <2>1, <2>2, <2>3 DEF TypeInv, TypeOK, Steps
<1>3. CASE BackoffTimer(i)
  <2>1. /\ Goto(i, "dialing") /\ attempt[i] < MaxAttempts /\ state' = "Connecting"
        /\ UNCHANGED <<conn, fresh, gate, done, cancelled, link, acked, todo, using, attempt, pc, on, stop>>
    BY <1>3 DEF BackoffTimer, RetriesLeft, network, sentries
  <2>2. /\ step' \in [Connectors -> Steps]
        /\ \A j \in Connectors : j # i => step'[j] = step[j]
    BY <1>1, <2>1, GotoType DEF Steps
  <2>3. Budget' /\ state' \in States
    BY <2>1, <2>2, Sets DEF TypeInv, Budget, States
  <2> QED
    BY <1>1, <2>1, <2>2, <2>3 DEF TypeInv, TypeOK, Steps
<1> QED
  BY <1>1, <1>2, <1>3, ConnectType DEF ReconnectLoop

LEMMA SentryType ==
    ASSUME TypeInv, \/ \E a \in Sentries : SentryStep(a)
                    \/ \E i \in Connectors : ReaderGets(i)
    PROVE  TypeInv'
<1>1. TypeOK /\ conn \in 0..MaxDials
  BY DEF TypeInv, TypeOK
<1>2. ASSUME NEW a \in Sentries, NEW s \in Places, Move(a, s),
             on' = on \/ on' = [on EXCEPT ![a] = conn],
             fresh' \in BOOLEAN, state' \in States,
             UNCHANGED <<conn, gate, done, cancelled, network, connectors, stop>>
      PROVE  TypeInv'
  <2>1. pc' \in [Sentries -> Places]
    BY <1>1, <1>2, MoveType
  <2>2. on' \in [Sentries -> 0..MaxDials]
    BY <1>1, <1>2 DEF TypeOK
  <2> QED
    BY <1>1, <1>2, <2>1, <2>2 DEF TypeInv, TypeOK, Budget, Places, network, connectors
<1>3. ASSUME NEW a \in Sentries, CloseAndReconnect(a)
      PROVE  TypeInv'
  <2>1. /\ gate' = FALSE /\ link' = Closed /\ conn' = 0 /\ Move(a, "exited")
        /\ UNCHANGED <<state, fresh, done, cancelled, acked, todo, using, attempt, on, stop>>
    BY <1>3 DEF CloseAndReconnect, GateAfterLoss
  <2>2. PICK i \in Loops : Goto(i, "spawned")
    BY <1>3 DEF CloseAndReconnect
  <2>3. step' \in [Connectors -> Steps] /\ Budget'
    BY <2>1, <2>2, BudgetStays, Sets DEF Steps, Handshake
  <2>4. pc' \in [Sentries -> Places]
    BY <1>1, <2>1, MoveType DEF Places
  <2>5. link' \in [Dials -> Links] /\ conn' \in 0..MaxDials
    BY <1>1, <2>1, ClosedLinks, Sets
  <2> QED
    BY <1>1, <2>1, <2>3, <2>4, <2>5 DEF TypeInv, TypeOK, Steps, Places, Links
<1>4. ASSUME NEW a \in Sentries, SentryStep(a), ~CloseAndReconnect(a)
      PROVE  TypeInv'
  <2>1. fresh' \in BOOLEAN /\ state' \in States
    BY <1>1, <1>4 DEF SentryStep, ReaderLooks, ReaderFails, HeartbeatTick, HeartbeatWrites,
                      WatchdogTick, TickerExits, MarkUnhealthy, shared, TypeOK, States
  <2>2. UNCHANGED <<conn, gate, done, cancelled, network, connectors, stop>>
    BY <1>4 DEF SentryStep, ReaderLooks, ReaderFails, HeartbeatTick, HeartbeatWrites,
                WatchdogTick, TickerExits, MarkUnhealthy, shared
  <2>3. on' = on \/ on' = [on EXCEPT ![a] = conn]
    BY <1>4 DEF SentryStep, ReaderLooks, ReaderFails, HeartbeatTick, HeartbeatWrites,
                WatchdogTick, TickerExits, MarkUnhealthy
  <2>4. \E s \in Places : Move(a, s)
    BY <1>4 DEF SentryStep, ReaderLooks, ReaderFails, HeartbeatTick, HeartbeatWrites,
                WatchdogTick, TickerExits, MarkUnhealthy, Places
  <2> QED
    BY <1>2, <2>1, <2>2, <2>3, <2>4
<1>5. ASSUME NEW i \in Connectors, ReaderGets(i)
      PROVE  TypeInv'
  <2>1. Reader(i) \in Sentries /\ "idle" \in Places
    BY Sets DEF Places
  <2>2. Move(Reader(i), "idle") /\ fresh' \in BOOLEAN /\ state' \in States
    BY <1>1, <1>5 DEF ReaderGets, TypeOK, States
  <2> QED
    BY <1>2, <1>5, <2>1, <2>2 DEF ReaderGets
<1> QED
  BY <1>3, <1>4, <1>5

LEMMA TypeStep == ASSUME TypeInv, [Next]_vars PROVE TypeInv'
<1>1. TypeOK
  BY DEF TypeInv
<1>2. CASE Start
  <2>1. /\ gate' = FALSE /\ state' = "Connecting" /\ Goto(0, "dialing")
        /\ UNCHANGED <<conn, fresh, done, cancelled, link, acked, todo, using, attempt, pc, on, stop>>
    BY <1>2 DEF Start, network, sentries
  <2>2. step' \in [Connectors -> Steps] /\ Budget'
    BY <2>1, BudgetStays, Sets DEF Steps
  <2> QED
    BY <1>1, <2>1, <2>2 DEF TypeInv, TypeOK, Steps, States
<1>3. CASE Stop
  <2>1. /\ cancelled' = cancelled \cup {0} /\ done' = TRUE /\ link' = Closed /\ conn' = 0
        /\ state' = "Disconnected" /\ stop' = "waiting"
        /\ UNCHANGED <<fresh, gate, acked, step, todo, using, attempt, pc, on>>
    BY <1>3 DEF Stop, connectors, sentries
  <2> QED
    BY <1>1, <2>1, ClosedLinks, Sets DEF TypeInv, TypeOK, Budget, States, Links
<1>4. CASE StopReturns \/ LivenessExpires \/ UNCHANGED vars
  BY <1>1, <1>4 DEF StopReturns, LivenessExpires, vars, shared, network, connectors, sentries,
                    TypeInv, TypeOK, Budget
<1>5. ASSUME NEW c \in Dials, LinkFails(c)
      PROVE  TypeInv'
  <2>1. link' \in [Dials -> Links]
    BY <1>1, <1>5 DEF LinkFails, TypeOK, Links
  <2> QED
    BY <1>1, <1>5, <2>1 DEF LinkFails, shared, connectors, sentries, TypeInv, TypeOK, Budget, Links
<1> QED
  BY <1>2, <1>3, <1>4, <1>5, ConnectType, LoopType, SentryType DEF Next

-----------------------------------------------------------------------------
(* The connection sequence *)

\* A step of the connector at work that leaves it at work.
LEMMA StepOn ==
    ASSUME WSInv, NEW i \in Connectors, Active(i), NEW s \in Steps \ {"none", "opening", "returning", "finished"},
           Goto(i, s), UNCHANGED pc,
           s \in Handshake => \A j \in Connectors : step[j] # "opening"
    PROVE  /\ step'[i] = s /\ \A j \in Connectors : j # i => step'[j] \in {"none", "opening", "returning", "finished"}
           /\ step' \in [Connectors -> Steps]
           /\ OneActive' /\ OneLosing' /\ LosingAlone' /\ Openers'
           /\ ~Nobody' /\ (step'[0] = "none" => step[0] = "none" /\ i # 0)
<1>1. step \in [Connectors -> Steps]
  BY DEF WSInv, TypeOK, Steps
<1>2. /\ step'[i] = s /\ step' \in [Connectors -> Steps]
      /\ \A j \in Connectors : j # i => step'[j] = step[j]
  BY <1>1 DEF Goto
<1>3. (\A j \in Connectors : j # i => ~Active(j)) /\ NoneLosing
  BY Alone
<1>4. \A j \in Connectors : j # i => step'[j] \in {"none", "opening", "returning", "finished"}
  BY <1>2, <1>3 DEF Active
<1>5. \A j \in Connectors : Active(j)' <=> j = i
  BY <1>2, <1>4 DEF Active
<1>6. OneActive' /\ ~Nobody'
  BY <1>5 DEF OneActive, Nobody
<1>7. OneLosing' /\ LosingAlone'
  BY <1>3 DEF OneLosing, LosingAlone, NoneLosing
<1>8. step'[0] = "none" => step[0] = "none" /\ i # 0
  BY <1>2, Sets
<1>9. OpenersFirst'
  BY <1>2, <1>4 DEF OpenersFirst, Handshake
<1>10. Unborn'
  BY <1>2 DEF WSInv, AtWork, Openers, Unborn, Active
<1> QED
  BY <1>2, <1>4, <1>6, <1>7, <1>8, <1>9, <1>10 DEF Openers

\* A step with which the connector at work ends.
LEMMA StepOff ==
    ASSUME WSInv, NEW i \in Connectors, Active(i), NEW s \in {"opening", "finished"}, Goto(i, s),
           UNCHANGED pc
    PROVE  /\ \A j \in Connectors : step'[j] \in {"none", "opening", "returning", "finished"}
           /\ step' \in [Connectors -> Steps] /\ step'[i] = s
           /\ OneActive' /\ OneLosing' /\ LosingAlone' /\ QuietHandshake' /\ Openers' /\ NoConn'
           /\ HandshakeKnows' /\ Budget' /\ StepState' /\ Nobody' /\ NoneLosing'
           /\ step[0] # "none" /\ step'[0] # "none"
<1>1. step \in [Connectors -> Steps]
  BY DEF WSInv, TypeOK, Steps
<1>2. /\ step'[i] = s /\ step' \in [Connectors -> Steps]
      /\ \A j \in Connectors : j # i => step'[j] = step[j]
  BY <1>1 DEF Goto, Steps
<1>3. \A j \in Connectors : j # i => ~Active(j)
  BY Alone
<1>4. \A j \in Connectors : step'[j] \in {"none", "opening", "returning", "finished"}
  BY <1>2, <1>3 DEF Active
<1>5. Nobody' /\ NoneLosing'
  BY <1>4, Alone DEF Nobody, Active, NoneLosing
<1>6. OneActive' /\ OneLosing' /\ LosingAlone'
  BY <1>5 DEF OneActive, OneLosing, LosingAlone, Nobody, NoneLosing
<1>7. QuietHandshake' /\ NoConn' /\ HandshakeKnows' /\ StepState'
  BY <1>4 DEF QuietHandshake, NoConn, HandshakeKnows, StepState, Handshake
<1>8. Budget'
  BY <1>4, Sets DEF Budget, Handshake
<1>9. step[0] # "none"
  BY DEF WSInv, Network, Unstarted, Active
<1>10. step'[0] # "none"
  BY <1>2, <1>9, Sets
<1>11. OpenersFirst'
  BY <1>4 DEF OpenersFirst, Handshake
<1>12. Unborn'
  BY <1>2 DEF WSInv, AtWork, Openers, Unborn, Active
<1> QED
  BY <1>2, <1>4, <1>5, <1>6, <1>7, <1>8, <1>9, <1>10, <1>11, <1>12 DEF Openers

LEMMA ClosedType ==
    ASSUME WSInv
    PROVE  /\ Closed \in [Dials -> Links]
           /\ \A c \in Dials : Closed[c] \in {"none", "closed"}
<1>1. link \in [Dials -> Links] /\ conn \in Dials \cup {0}
  BY Sets DEF WSInv, TypeOK, Links
<1> QED
  BY <1>1, Sets DEF Closed, Links, WSInv, Network, OldLinks

\* An attempt fails, with or without a connection to close.
LEMMA FailStep ==
    ASSUME WSInv, NEW i \in Connectors, step[i] \in {"dialing", "auth", "subscribing", "reconciling"},
           NEW next \in {"Backoff", "SafeStopped"},
           state' = next,
           attempt' = [attempt EXCEPT ![i] = IF i = 0 THEN 0 ELSE @ + 1],
           Goto(i, IF i = 0 THEN "finished" ELSE "waiting"),
           \/ conn' = 0 /\ link' = Closed
           \/ conn = 0 /\ UNCHANGED <<conn, link>>,
           UNCHANGED <<fresh, gate, done, cancelled, acked, todo, using, sentries, stop>>
    PROVE  Conduct' /\ GateStep
<1>1. Active(i) /\ ~done /\ step[i] \in Handshake /\ state \notin {"Ready", "Unhealthy"}
  BY DEF Active, Handshake, WSInv, AtWork, StepState
<1>2. conn' = 0 /\ OldLinks'
  BY ClosedType, Sets DEF WSInv, TypeOK, Links, Network, OldLinks
<1>3. UNCHANGED <<pc, on, done, gate, acked, todo, using>>
  BY DEF sentries
<1>6. GateStep
  BY <1>1, <1>3, Alone DEF GateStep, GateAstray, NoneLosing
<1>7. ReadyIsSubscribed'
  BY DEF ReadyIsSubscribed
<1>8. BlockedOn'
  BY <1>3 DEF WSInv, Network, BlockedOn
<1>9. CASE i = 0
  <2>1. Goto(i, "finished")
    BY <1>9
  <2>2. /\ step' \in [Connectors -> Steps] /\ OneActive' /\ OneLosing' /\ LosingAlone'
        /\ QuietHandshake' /\ Openers' /\ NoConn' /\ HandshakeKnows' /\ Budget' /\ StepState'
        /\ step'[0] # "none"
    BY <1>1, <1>3, <2>1, StepOff
  <2>3. RestState' /\ Unstarted'
    BY <1>1, <1>3, <2>2 DEF RestState, Unstarted
  <2> QED
    BY <1>2, <1>6, <1>7, <1>8, <2>2, <2>3 DEF WSInv, Conduct, AtWork, Network, Promises
<1>10. CASE i # 0
  <2>1. Goto(i, "waiting")
    BY <1>10
  <2>2. /\ step'[i] = "waiting"
        /\ \A j \in Connectors : j # i => step'[j] \in {"none", "opening", "returning", "finished"}
        /\ step' \in [Connectors -> Steps]
        /\ OneActive' /\ OneLosing' /\ LosingAlone' /\ Openers'
        /\ ~Nobody' /\ (step'[0] = "none" => step[0] = "none" /\ i # 0)
    BY <1>1, <1>3, <2>1, StepOn DEF Steps, Handshake
  <2>3. StepState' /\ RestState' /\ QuietHandshake'
    BY <1>1, <1>3, <2>2 DEF StepState, RestState, QuietHandshake, Handshake
  <2>4. step[0] # "none"
    BY <1>1 DEF WSInv, Network, Unstarted, Active
  <2>5. Unstarted' /\ NoConn' /\ HandshakeKnows'
    BY <1>2, <2>2, <2>4 DEF Unstarted, NoConn, HandshakeKnows
  <2>6. Budget'
    BY <2>2, Sets DEF Budget, Handshake
  <2> QED
    BY <1>2, <1>6, <1>7, <1>8, <2>2, <2>3, <2>5, <2>6 DEF WSInv, Conduct, AtWork, Network, Promises
<1> QED
  BY <1>9, <1>10

LEMMA FailSteps ==
    ASSUME WSInv, NEW i \in Connectors, DialFails(i) \/ HandshakeFails(i) \/ ReconcileFails(i)
    PROVE  Conduct' /\ Arrow
<1>1. CASE DialFails(i)
  <2>1. conn = 0 /\ state = "Connecting"
    BY <1>1 DEF DialFails, At, WSInv, Network, NoConn, AtWork, StepState
  <2>2. Conduct' /\ GateStep
    BY <1>1, <2>1, FailStep DEF DialFails, At, network
  <2> QED
    BY <1>1, <2>1, <2>2 DEF DialFails, Arrow, Follows, Diagram
<1>2. CASE HandshakeFails(i)
  <2>1. state \in {"Authenticating", "Subscribing"}
    BY <1>2 DEF HandshakeFails, WSInv, AtWork, StepState
  <2>2. Conduct' /\ GateStep
    BY <1>2, FailStep DEF HandshakeFails, Fail
  <2> QED
    BY <1>2, <2>1, <2>2 DEF HandshakeFails, Fail, Arrow, Follows, Diagram
<1>3. CASE ReconcileFails(i)
  <2>1. state = "Reconciling"
    BY <1>3 DEF ReconcileFails, At, WSInv, AtWork, StepState
  <2>2. Conduct' /\ GateStep
    BY <1>3, FailStep DEF ReconcileFails, At, Fail
  <2> QED
    BY <1>3, <2>1, <2>2 DEF ReconcileFails, Fail, Arrow, Follows, Diagram
<1> QED
  BY <1>1, <1>2, <1>3

\* A step of a handshake that goes on.  What it does to the network is left to
\* the steps themselves.
LEMMA HandshakeGoesOn ==
    ASSUME WSInv, NEW i \in Connectors, step[i] \in {"dialing", "auth", "subscribing", "reconciling"},
           NEW s \in {"auth", "subscribing", "reconciling"}, Goto(i, s),
           << s, state' >> \in {<<"auth", "Authenticating">>, <<"subscribing", "Subscribing">>,
                                 <<"reconciling", "Reconciling">>},
           UNCHANGED <<gate, done, attempt, sentries>>
    PROVE  /\ AtWork' /\ Unstarted' /\ NoConn' /\ BlockedOn' /\ Budget' /\ GateStep
           /\ step' \in [Connectors -> Steps] /\ step'[i] = s
           /\ \A j \in Connectors : j # i => step'[j] \in {"none", "opening", "returning", "finished"}
<1>1. Active(i) /\ ~done /\ step[i] \in Handshake /\ state # "Ready"
  BY DEF Active, Handshake, WSInv, AtWork, StepState
<1>2. UNCHANGED <<pc, on, gate, done>>
  BY DEF sentries
<1>3. /\ step'[i] = s /\ step' \in [Connectors -> Steps]
      /\ \A j \in Connectors : j # i => step'[j] \in {"none", "opening", "returning", "finished"}
      /\ OneActive' /\ OneLosing' /\ LosingAlone' /\ Openers'
      /\ ~Nobody' /\ (step'[0] = "none" => step[0] = "none" /\ i # 0)
  <2>1. \A j \in Connectors : step[j] # "opening"
    BY <1>1 DEF WSInv, AtWork, Openers, OpenersFirst
  <2> QED
    BY <1>1, <1>2, <2>1, StepOn DEF Steps
<1>4. StepState' /\ RestState'
  BY <1>1, <1>2, <1>3 DEF StepState, RestState, Handshake
<1>5. QuietHandshake'
  <2>1. \A a \in Sentries : pc[a] \in {"none", "exited"} \/ (a \notin Readers /\ pc[a] = "idle")
    BY <1>1 DEF WSInv, AtWork, QuietHandshake
  <2> QED
    BY <1>2, <2>1 DEF QuietHandshake
<1>6. step[0] # "none"
  BY <1>1 DEF WSInv, Network, Unstarted, Active
<1>7. Unstarted' /\ NoConn'
  BY <1>3, <1>6 DEF Unstarted, NoConn
<1>8. BlockedOn'
  BY <1>2 DEF WSInv, Network, BlockedOn
<1>9. Budget'
  BY <1>1, <1>3, Sets DEF WSInv, Promises, Budget, Handshake
<1>10. GateStep
  BY <1>1, <1>2, Alone DEF GateStep, GateAstray, NoneLosing
<1> QED
  BY <1>3, <1>4, <1>5, <1>7, <1>8, <1>9, <1>10 DEF AtWork

LEMMA DialStep == ASSUME WSInv, NEW i \in Connectors, Dial(i) PROVE Conduct' /\ Arrow
<1>1. /\ step[i] = "dialing" /\ state' = "Authenticating" /\ Goto(i, "auth")
      /\ UNCHANGED <<fresh, gate, done, cancelled, acked, todo, using, attempt, sentries, stop>>
  BY DEF Dial, At
<1>2. PICK c \in Dials : link[c] = "none" /\ link' = [link EXCEPT ![c] = "up"] /\ conn' = c
  BY DEF Dial
<1>3. conn = 0 /\ state = "Connecting"
  BY <1>1 DEF WSInv, Network, NoConn, AtWork, StepState
<1>4. link' \in [Dials -> Links] /\ OldLinks'
  BY <1>2, <1>3, Sets DEF WSInv, TypeOK, Links, Network, OldLinks
<1>5. /\ AtWork' /\ Unstarted' /\ NoConn' /\ BlockedOn' /\ Budget' /\ GateStep
      /\ step' \in [Connectors -> Steps] /\ step'[i] = "auth"
      /\ \A j \in Connectors : j # i => step'[j] \in {"none", "opening", "returning", "finished"}
  BY <1>1, HandshakeGoesOn
<1>6. HandshakeKnows' /\ ReadyIsSubscribed'
  BY <1>1, <1>5 DEF HandshakeKnows, ReadyIsSubscribed
<1> QED
  BY <1>1, <1>3, <1>4, <1>5, <1>6 DEF WSInv, Conduct, Network, Promises, Arrow, Follows, Diagram

LEMMA AuthStep == ASSUME WSInv, NEW i \in Connectors, Auth(i) PROVE Conduct' /\ Arrow
<1>1. /\ step[i] = "auth" /\ state' = "Subscribing" /\ Goto(i, "subscribing") /\ fresh' = TRUE
      /\ conn # 0 /\ link[conn] = "up"
      /\ todo' = [todo EXCEPT ![i] = Subs] /\ using' = [using EXCEPT ![i] = conn]
      /\ UNCHANGED <<conn, gate, done, cancelled, link, acked, attempt, sentries, stop>>
  BY DEF Auth, At, network
<1>2. state = "Authenticating" /\ conn \in Dials
  BY <1>1, Sets DEF WSInv, AtWork, StepState, TypeOK
<1>3. /\ AtWork' /\ Unstarted' /\ NoConn' /\ BlockedOn' /\ Budget' /\ GateStep
      /\ step' \in [Connectors -> Steps] /\ step'[i] = "subscribing"
      /\ \A j \in Connectors : j # i => step'[j] \in {"none", "opening", "returning", "finished"}
  BY <1>1, HandshakeGoesOn
<1>4. /\ todo' \in [Connectors -> SUBSET Subs] /\ todo'[i] = Subs
      /\ using' \in [Connectors -> 0..MaxDials] /\ using'[i] = conn
  BY <1>1, <1>2, Sets DEF WSInv, TypeOK
<1>5. acked[conn] \subseteq Subs
  BY <1>2 DEF WSInv, TypeOK
<1>6. OldLinks' /\ HandshakeKnows' /\ ReadyIsSubscribed'
  BY <1>1, <1>3, <1>4, <1>5 DEF WSInv, Network, OldLinks, HandshakeKnows, ReadyIsSubscribed
<1> QED
  BY <1>1, <1>2, <1>3, <1>6 DEF WSInv, Conduct, Network, Promises, Arrow, Follows, Diagram

LEMMA SubAckStep == ASSUME WSInv, NEW i \in Connectors, SubAck(i) PROVE Conduct' /\ Arrow
<1>1. /\ step[i] = "subscribing" /\ using[i] # 0 /\ link[using[i]] = "up"
      /\ UNCHANGED <<conn, gate, done, cancelled, link, using, attempt, sentries, stop>>
  BY DEF SubAck, At
<1>2. PICK s \in todo[i] :
          /\ acked' = [acked EXCEPT ![using[i]] = @ \cup {s}]
          /\ todo' = [todo EXCEPT ![i] = @ \ {s}]
          /\ IF AllAcked(i, s)
               THEN fresh' = TRUE /\ state' = "Reconciling" /\ Goto(i, "reconciling")
               ELSE UNCHANGED <<fresh, state, step>>
  BY DEF SubAck
<1>3. /\ state = "Subscribing" /\ using[i] = conn /\ conn \in Dials
      /\ link[conn] # "closed" /\ acked[conn] \cup todo[i] = Subs
  BY <1>1, Sets DEF WSInv, AtWork, StepState, Network, HandshakeKnows, TypeOK
<1>4. step \in [Connectors -> Steps] /\ acked \in [Dials -> SUBSET Subs] /\ todo \in [Connectors -> SUBSET Subs]
  BY DEF WSInv, TypeOK, Steps
<1>5. /\ acked' \in [Dials -> SUBSET Subs] /\ acked'[conn] = acked[conn] \cup {s}
      /\ todo' \in [Connectors -> SUBSET Subs] /\ todo'[i] = todo[i] \ {s}
  BY <1>2, <1>3, <1>4
<1>6. acked'[conn] \cup todo'[i] = Subs
  BY <1>2, <1>3, <1>5
<1>7. OldLinks'
  BY <1>1 DEF WSInv, Network, OldLinks
<1>8. CASE AllAcked(i, s)
  <2>1. state' = "Reconciling" /\ Goto(i, "reconciling") /\ fresh' = TRUE /\ todo[i] = {s}
    BY <1>2, <1>8 DEF AllAcked
  <2>2. /\ AtWork' /\ Unstarted' /\ NoConn' /\ BlockedOn' /\ Budget' /\ GateStep
        /\ step' \in [Connectors -> Steps] /\ step'[i] = "reconciling"
        /\ \A j \in Connectors : j # i => step'[j] \in {"none", "opening", "returning", "finished"}
    BY <1>1, <2>1, HandshakeGoesOn
  <2>3. acked'[conn] = Subs
    BY <1>5, <1>6, <2>1
  <2>4. HandshakeKnows' /\ ReadyIsSubscribed'
    BY <1>1, <1>3, <2>1, <2>2, <2>3, Sets DEF HandshakeKnows, ReadyIsSubscribed
  <2> QED
    BY <1>3, <1>7, <2>1, <2>2, <2>4 DEF WSInv, Conduct, Network, Promises, Arrow, Follows, Diagram
<1>9. CASE ~AllAcked(i, s)
  <2>1. UNCHANGED <<fresh, state, step, pc, on, conn, gate, done, link, attempt>>
    BY <1>1, <1>2, <1>9 DEF sentries
  <2>2. AtWork'
    BY <2>1 DEF WSInv, AtWork, OneActive, OneLosing, LosingAlone, StepState, RestState,
                QuietHandshake, Openers, OpenersFirst, Unborn, Nobody, NoneLosing, Active
  <2>3. Unstarted' /\ NoConn' /\ BlockedOn' /\ Budget' /\ GateStep
    BY <2>1 DEF WSInv, Network, Promises, Unstarted, NoConn, BlockedOn, Budget, GateStep, GateAstray
  <2>4. \A j \in Connectors : j # i => step[j] \notin {"subscribing", "reconciling"}
    BY <1>1, Alone DEF Active
  <2>5. HandshakeKnows' /\ ReadyIsSubscribed'
    BY <1>1, <1>3, <1>6, <2>1, <2>4, Sets DEF HandshakeKnows, ReadyIsSubscribed
  <2> QED
    BY <1>7, <2>1, <2>2, <2>3, <2>5 DEF WSInv, Conduct, Network, Promises, Arrow, Follows
<1> QED
  BY <1>8, <1>9

LEMMA ReconcileStep == ASSUME WSInv, NEW i \in Connectors, Reconcile(i) PROVE Conduct' /\ Arrow
<1>1. /\ step[i] = "reconciling" /\ state' = "Ready" /\ Goto(i, "opening") /\ fresh' = TRUE
      /\ UNCHANGED <<conn, gate, done, cancelled, link, acked, todo, using, attempt, sentries, stop>>
  BY DEF Reconcile, At, network
<1>2. state = "Reconciling" /\ conn # 0 /\ link[conn] # "closed" /\ acked[conn] = Subs
  BY <1>1 DEF WSInv, AtWork, StepState, Network, HandshakeKnows
<1>3. Active(i) /\ ~done /\ UNCHANGED <<pc, on>>
  BY <1>1 DEF Active, Handshake, WSInv, AtWork, StepState, sentries
<1>4. /\ \A j \in Connectors : step'[j] \in {"none", "opening", "returning", "finished"}
      /\ step' \in [Connectors -> Steps]
      /\ OneActive' /\ OneLosing' /\ LosingAlone' /\ QuietHandshake' /\ Openers' /\ NoConn'
      /\ HandshakeKnows' /\ Budget' /\ StepState' /\ step'[0] # "none"
  BY <1>1, <1>3, StepOff
<1>5. RestState' /\ Unstarted' /\ BlockedOn'
  BY <1>1, <1>3, <1>4 DEF RestState, Unstarted, WSInv, Network, BlockedOn
<1>6. OldLinks' /\ ReadyIsSubscribed' /\ GateStep
  BY <1>1, <1>2 DEF WSInv, Network, OldLinks, ReadyIsSubscribed, GateStep, GateAstray
<1> QED
  BY <1>1, <1>2, <1>4, <1>5, <1>6
     DEF WSInv, Conduct, AtWork, Network, Promises, Arrow, Follows, Diagram

\* The gate opens: in Ready, or late, when a loss has been marked since.
LEMMA OpenGateStep == ASSUME WSInv, NEW i \in Connectors, OpenGate(i) PROVE Conduct' /\ Arrow
<1> DEFINE next == IF i = 0 THEN "finished" ELSE "returning"
           places == [a \in Sentries |->
                        IF a = Reader(i) \/ (i = 0 /\ a \in {Heartbeat, Watchdog})
                          THEN "idle" ELSE pc[a]]
<1>1. /\ step[i] = "opening" /\ gate' = TRUE /\ pc' = places /\ Goto(i, next)
      /\ UNCHANGED <<state, conn, fresh, done, cancelled, link, acked, todo, using, attempt, on, stop>>
  BY DEF OpenGate, At, network
<1>2. \A j \in Connectors : step[j] \notin Handshake
  BY <1>1 DEF WSInv, AtWork, Openers, OpenersFirst
<1>3. /\ step \in [Connectors -> Steps] /\ pc \in [Sentries -> Places]
      /\ next \in {"returning", "finished"}
  BY DEF WSInv, TypeOK, Steps, Places
<1> HIDE DEF next
<1>4. /\ step' \in [Connectors -> Steps] /\ step'[i] = next
      /\ \A j \in Connectors : j # i => step'[j] = step[j]
  BY <1>1, <1>3 DEF Goto, Steps
<1>5. \A j \in Connectors : Active(j)' <=> Active(j)
  BY <1>1, <1>3, <1>4 DEF Active
<1>6. \A j \in Connectors : step'[j] \notin Handshake
  BY <1>2, <1>3, <1>4 DEF Handshake
<1>7. /\ pc[Reader(i)] = "none"
      /\ i = 0 => pc[Heartbeat] = "none" /\ pc[Watchdog] = "none"
  BY <1>1 DEF WSInv, AtWork, Openers, Unborn
<1>8. /\ pc' \in [Sentries -> Places]
      /\ \A a \in Sentries : pc'[a] = pc[a] \/ (pc[a] = "none" /\ pc'[a] = "idle")
      /\ \A a \in Sentries :
            a # Reader(i) /\ ~(i = 0 /\ a \in {Heartbeat, Watchdog}) => pc'[a] = pc[a]
  BY <1>1, <1>3, <1>7 DEF Places
<1> HIDE DEF places
<1>9. \A a \in Sentries : /\ pc'[a] = "losing" <=> pc[a] = "losing"
                          /\ pc'[a] = "blocked" <=> pc[a] = "blocked"
  BY <1>8
<1>10. OneActive' /\ OneLosing' /\ LosingAlone' /\ RestState'
  BY <1>1, <1>5, <1>9 DEF WSInv, AtWork, OneActive, OneLosing, LosingAlone, RestState, Nobody, NoneLosing
<1>11. StepState' /\ QuietHandshake' /\ OpenersFirst'
  BY <1>1, <1>3, <1>4, <1>6 DEF WSInv, AtWork, StepState, QuietHandshake, OpenersFirst, Handshake
<1>12. Unborn'
  <2> SUFFICES ASSUME NEW j \in Connectors, step'[j] \notin {"returning", "finished"}
               PROVE  /\ pc'[Reader(j)] = "none"
                      /\ j = 0 => pc'[Heartbeat] = "none" /\ pc'[Watchdog] = "none"
    BY DEF Unborn
  <2>1. j # i /\ step[j] \notin {"returning", "finished"}
    BY <1>3, <1>4
  <2>2. Reader(j) # Reader(i) /\ Reader(j) \in Sentries /\ Reader(j) \notin {Heartbeat, Watchdog}
    BY <2>1, Sets DEF Reader
  <2>3. /\ pc[Reader(j)] = "none"
        /\ j = 0 => pc[Heartbeat] = "none" /\ pc[Watchdog] = "none"
    BY <2>1 DEF WSInv, AtWork, Openers, Unborn
  <2>4. pc'[Reader(j)] = "none"
    BY <1>8, <2>2, <2>3
  <2>5. ASSUME j = 0
        PROVE  pc'[Heartbeat] = "none" /\ pc'[Watchdog] = "none"
    <3>1. i # 0 /\ Heartbeat # Reader(i) /\ Watchdog # Reader(i)
      BY <2>1, <2>5, Sets
    <3> QED
      BY <1>8, <2>3, <2>5, <3>1, Sets
  <2> QED
    BY <2>4, <2>5
<1>13. step[0] # "none" /\ step'[0] # "none"
  <2>1. step[0] # "none"
    BY <1>1 DEF WSInv, Network, Unstarted
  <2> QED
    BY <1>3, <1>4, <2>1, Sets
<1>14. Unstarted' /\ OldLinks' /\ NoConn' /\ BlockedOn' /\ HandshakeKnows'
  BY <1>1, <1>3, <1>4, <1>9, <1>13
     DEF WSInv, Network, Unstarted, OldLinks, NoConn, BlockedOn, HandshakeKnows
<1>15. Budget' /\ ReadyIsSubscribed'
  BY <1>1, <1>6, Sets DEF WSInv, Promises, Budget, ReadyIsSubscribed
<1>16. GateStep
  <2>1. At(i, "opening") /\ ~At(i, "opening")'
    BY <1>1, <1>3, <1>4 DEF At
  <2> QED
    BY <1>1, <2>1 DEF GateStep, GateAstray, LateOpening
<1> QED
  BY <1>1, <1>10, <1>11, <1>12, <1>14, <1>15, <1>16
     DEF WSInv, Conduct, AtWork, Openers, Network, Promises, Arrow, Follows

LEMMA ConnectStep == ASSUME WSInv, NEW i \in Connectors, Connect(i) PROVE Conduct' /\ Arrow
BY DialStep, FailSteps, AuthStep, SubAckStep, ReconcileStep, OpenGateStep DEF Connect

-----------------------------------------------------------------------------
(* Start and reconnectLoop *)

LEMMA StartStep == ASSUME WSInv, Start PROVE Conduct' /\ Arrow
<1>1. /\ step[0] = "none" /\ state = "Disconnected" /\ ~done /\ gate' = FALSE
      /\ state' = "Connecting" /\ step' = [step EXCEPT ![0] = "dialing"]
      /\ UNCHANGED <<conn, fresh, done, cancelled, link, acked, todo, using, attempt, pc, on, stop>>
  BY DEF Start, At, Goto, network, sentries
<1>2. conn = 0 /\ (\A i \in Connectors : step[i] = "none") /\ (\A a \in Sentries : pc[a] = "none")
  BY <1>1 DEF WSInv, Network, Unstarted
<1>3. /\ step' \in [Connectors -> Steps] /\ step'[0] = "dialing"
      /\ \A j \in Connectors : j # 0 => step'[j] = "none"
  BY <1>1, <1>2, Sets DEF WSInv, TypeOK, Steps
<1>4. OneActive' /\ OneLosing' /\ LosingAlone' /\ RestState'
  BY <1>1, <1>2, <1>3, Sets DEF OneActive, OneLosing, LosingAlone, RestState, Nobody, Active
<1>5. StepState' /\ QuietHandshake' /\ Openers'
  BY <1>1, <1>2, <1>3, Sets
     DEF StepState, QuietHandshake, Openers, OpenersFirst, Unborn, Handshake
<1>6. Unstarted' /\ OldLinks' /\ NoConn' /\ BlockedOn' /\ HandshakeKnows'
  BY <1>1, <1>2, <1>3 DEF WSInv, Network, Unstarted, OldLinks, NoConn, BlockedOn, HandshakeKnows
<1>7. Budget' /\ ReadyIsSubscribed' /\ GateStep
  BY <1>1, <1>3, Sets DEF Budget, ReadyIsSubscribed, GateStep, GateAstray, Handshake
<1> QED
  BY <1>1, <1>4, <1>5, <1>6, <1>7 DEF WSInv, Conduct, AtWork, Network, Promises, Arrow, Follows, Diagram

LEMMA LoopStartsStep == ASSUME WSInv, NEW i \in Loops, LoopStarts(i) PROVE Conduct' /\ Arrow
<1>1. /\ step[i] = "spawned" /\ state' = "Backoff" /\ Goto(i, "waiting")
      /\ UNCHANGED <<conn, fresh, gate, done, cancelled, link, acked, todo, using, attempt, pc, on, stop>>
  BY DEF LoopStarts, At, network, sentries
<1>2. i \in Connectors /\ Active(i) /\ NoneLosing /\ conn = 0 /\ (done \/ state = "Unhealthy")
  BY <1>1, Alone, Sets DEF Active, WSInv, AtWork, StepState, Network, NoConn
<1>3. /\ step'[i] = "waiting" /\ step' \in [Connectors -> Steps]
      /\ \A j \in Connectors : j # i => step'[j] \in {"none", "opening", "returning", "finished"}
      /\ OneActive' /\ OneLosing' /\ LosingAlone' /\ Openers'
      /\ ~Nobody' /\ (step'[0] = "none" => step[0] = "none" /\ i # 0)
  BY <1>1, <1>2, StepOn DEF Steps, Handshake
<1>4. StepState' /\ RestState' /\ QuietHandshake'
  BY <1>1, <1>3 DEF StepState, RestState, QuietHandshake, Handshake
<1>5. step[0] # "none"
  BY <1>2 DEF WSInv, Network, Unstarted, Active
<1>6. Unstarted' /\ OldLinks' /\ NoConn' /\ BlockedOn' /\ HandshakeKnows'
  BY <1>1, <1>2, <1>3, <1>5 DEF WSInv, Network, Unstarted, OldLinks, NoConn, BlockedOn, HandshakeKnows
<1>8. Budget' /\ ReadyIsSubscribed' /\ GateStep
  BY <1>1, <1>2, <1>3, Sets DEF Budget, ReadyIsSubscribed, GateStep, GateAstray, NoneLosing, Handshake
<1> QED
  BY <1>1, <1>2, <1>3, <1>4, <1>6, <1>8 DEF WSInv, Conduct, AtWork, Network, Promises, Arrow, Follows, Diagram

LEMMA LoopEndsStep ==
    ASSUME WSInv, NEW i \in Loops, LoopQuits(i) \/ Exhausted(i)
    PROVE  Conduct' /\ Arrow
<1>1. /\ step[i] = "waiting" /\ Goto(i, "finished")
      /\ (done /\ state' = state) \/ state' = "SafeStopped"
      /\ UNCHANGED <<conn, fresh, gate, done, cancelled, link, acked, todo, using, attempt, pc, on, stop>>
  BY DEF LoopQuits, Exhausted, At, shared, network, sentries
<1>2. /\ i \in Connectors /\ Active(i) /\ NoneLosing /\ conn = 0
      /\ state \in {"Backoff", "SafeStopped"}
  BY <1>1, Alone, Sets DEF Active, WSInv, AtWork, StepState, Network, NoConn
<1>4. /\ step' \in [Connectors -> Steps]
      /\ OneActive' /\ OneLosing' /\ LosingAlone' /\ QuietHandshake' /\ Openers' /\ NoConn'
      /\ HandshakeKnows' /\ Budget' /\ StepState' /\ step'[0] # "none"
  BY <1>1, <1>2, StepOff
<1>5. RestState' /\ Unstarted'
  BY <1>1, <1>2, <1>4 DEF RestState, Unstarted
<1>7. OldLinks' /\ BlockedOn' /\ ReadyIsSubscribed' /\ GateStep
  BY <1>1, <1>2
     DEF WSInv, Network, OldLinks, BlockedOn, ReadyIsSubscribed, GateStep, GateAstray, NoneLosing
<1> QED
  BY <1>1, <1>2, <1>4, <1>5, <1>7 DEF WSInv, Conduct, AtWork, Network, Promises, Arrow, Follows, Diagram

\* A backoff ends when no sentry is left that could take the new handshake
\* for a lost connection.
LEMMA BackoffTimerStep ==
    ASSUME Prompt, WSInv, NEW i \in Loops, BackoffTimer(i)
    PROVE  Conduct' /\ Arrow
<1>1. /\ step[i] = "waiting" /\ attempt[i] < MaxAttempts /\ ~done /\ Settled
      /\ state' = "Connecting" /\ Goto(i, "dialing")
      /\ UNCHANGED <<conn, fresh, gate, done, cancelled, link, acked, todo, using, attempt, pc, on, stop>>
  BY DEF BackoffTimer, At, RetriesLeft, TimerMayFire, network, sentries
<1>2. /\ i \in Connectors /\ Active(i) /\ NoneLosing /\ conn = 0
      /\ state \in {"Backoff", "SafeStopped"}
  BY <1>1, Alone, Sets DEF Active, WSInv, AtWork, StepState, Network, NoConn
<1>3. /\ step'[i] = "dialing" /\ step' \in [Connectors -> Steps]
      /\ \A j \in Connectors : j # i => step'[j] \in {"none", "opening", "returning", "finished"}
      /\ OneActive' /\ OneLosing' /\ LosingAlone' /\ Openers'
      /\ ~Nobody' /\ (step'[0] = "none" => step[0] = "none" /\ i # 0)
  <2>1. \A j \in Connectors : step[j] # "opening"
    BY <1>1 DEF Settled
  <2> QED
    BY <1>1, <1>2, <2>1, StepOn DEF Steps
<1>4. StepState' /\ RestState'
  BY <1>1, <1>3 DEF StepState, RestState, Handshake
<1>5. QuietHandshake'
  <2> SUFFICES ASSUME NEW a \in Sentries
               PROVE  pc[a] \in {"none", "exited"} \/ (a \notin Readers /\ pc[a] = "idle")
    BY <1>1 DEF QuietHandshake
  <2>1. pc[a] \in Places
    BY DEF WSInv, TypeOK, Places
  <2>2. pc[a] # "blocked"
    <3> SUFFICES ASSUME pc[a] = "blocked"
                 PROVE  FALSE
      OBVIOUS
    <3>1. on[a] \in Dials
      BY DEF WSInv, Network, BlockedOn
    <3>2. link[on[a]] \in {"none", "closed"}
      BY <1>2, <3>1, Sets DEF WSInv, Network, OldLinks
    <3> QED
      BY <1>1, <3>2 DEF Settled, Blocked
  <2> QED
    BY <1>1, <2>1, <2>2 DEF Settled, Places
<1>6. step[0] # "none"
  BY <1>2 DEF WSInv, Network, Unstarted, Active
<1>7. Unstarted' /\ OldLinks' /\ NoConn' /\ BlockedOn' /\ HandshakeKnows'
  BY <1>1, <1>2, <1>3, <1>6 DEF WSInv, Network, Unstarted, OldLinks, NoConn, BlockedOn, HandshakeKnows
<1>9. Budget' /\ ReadyIsSubscribed' /\ GateStep
  BY <1>1, <1>2, <1>3, Sets DEF Budget, ReadyIsSubscribed, GateStep, GateAstray, NoneLosing, Handshake
<1> QED
  BY <1>1, <1>2, <1>3, <1>4, <1>5, <1>7, <1>9
     DEF WSInv, Conduct, AtWork, Network, Promises, Arrow, Follows, Diagram

LEMMA CancelAttemptStep ==
    ASSUME WSInv, NEW i \in Loops, CancelAttempt(i)
    PROVE  Conduct' /\ Arrow
<1>1. /\ step[i] = "returning" /\ step' = [step EXCEPT ![i] = "finished"]
      /\ cancelled' = cancelled \cup {i} /\ i \in Connectors
      /\ UNCHANGED <<state, conn, fresh, gate, done, link, acked, todo, using, attempt, pc, on, stop>>
  BY Sets DEF CancelAttempt, At, Goto, network, sentries
<1>2. step \in [Connectors -> Steps]
  BY DEF WSInv, TypeOK, Steps
<1>3. /\ step' \in [Connectors -> Steps] /\ step'[i] = "finished"
      /\ \A j \in Connectors : j # i => step'[j] = step[j]
  BY <1>1, <1>2 DEF Steps
<1>4. \A j \in Connectors : Active(j)' <=> Active(j)
  BY <1>1, <1>3 DEF Active
<1>5. OneActive' /\ OneLosing' /\ LosingAlone' /\ RestState'
  BY <1>1, <1>4 DEF WSInv, AtWork, OneActive, OneLosing, LosingAlone, RestState, Nobody, NoneLosing
<1>6. StepState' /\ QuietHandshake' /\ Openers'
  BY <1>1, <1>3
     DEF WSInv, AtWork, StepState, QuietHandshake, Openers, OpenersFirst, Unborn, Handshake
<1>7. Unstarted' /\ OldLinks' /\ NoConn' /\ BlockedOn' /\ HandshakeKnows'
  BY <1>1, <1>3, Sets DEF WSInv, Network, Unstarted, OldLinks, NoConn, BlockedOn, HandshakeKnows
<1>8. Budget' /\ ReadyIsSubscribed' /\ GateStep
  BY <1>1, <1>3, Sets
     DEF WSInv, Promises, Budget, ReadyIsSubscribed, GateStep, GateAstray, Handshake
<1> QED
  BY <1>1, <1>5, <1>6, <1>7, <1>8 DEF WSInv, Conduct, AtWork, Network, Promises, Arrow, Follows

LEMMA LoopStep ==
    ASSUME Prompt, WSInv, NEW i \in Loops, ReconnectLoop(i)
    PROVE  Conduct' /\ Arrow
BY ConnectStep, LoopStartsStep, LoopEndsStep, BackoffTimerStep, CancelAttemptStep, Sets
   DEF ReconnectLoop

-----------------------------------------------------------------------------
(* The sentries *)

\* A sentry moves without taking up a loss.  During a handshake it can only end.
LEMMA MoveStep ==
    ASSUME WSInv, NEW a \in Sentries, NEW s \in {"idle", "blocked", "lost", "exited"}, Move(a, s),
           pc[a] \notin {"none", "losing"},
           (\E i \in Connectors : step[i] \in Handshake) => s = "exited",
           s = "blocked" => on'[a] \in Dials,
           on' = on \/ \E c \in 0..MaxDials : on' = [on EXCEPT ![a] = c],
           fresh' \in BOOLEAN,
           UNCHANGED <<state, conn, gate, done, cancelled, network, connectors, stop>>
    PROVE  Conduct' /\ Arrow
<1>1. UNCHANGED <<link, acked, step, todo, using, attempt>>
  BY DEF network, connectors
<1>2. pc \in [Sentries -> Places] /\ on \in [Sentries -> 0..MaxDials]
  BY DEF WSInv, TypeOK, Places
<1>3. /\ pc' \in [Sentries -> Places] /\ pc'[a] = s
      /\ \A b \in Sentries : b # a => pc'[b] = pc[b]
  BY <1>2 DEF Move, Places
<1>4. on' \in [Sentries -> 0..MaxDials] /\ \A b \in Sentries : b # a => on'[b] = on[b]
  BY <1>2
<1>5. \A b \in Sentries : pc'[b] = "losing" <=> pc[b] = "losing"
  BY <1>3
<1>6. OneActive' /\ OneLosing' /\ LosingAlone' /\ RestState'
  BY <1>1, <1>5 DEF WSInv, AtWork, OneActive, OneLosing, LosingAlone, RestState, Nobody, NoneLosing, Active
<1>7. StepState'
  BY <1>1 DEF WSInv, AtWork, StepState
<1>8. QuietHandshake' /\ Openers'
  BY <1>1, <1>3, Sets DEF WSInv, AtWork, QuietHandshake, Openers, OpenersFirst, Unborn
<1>9. Unstarted' /\ OldLinks' /\ NoConn' /\ HandshakeKnows'
  BY <1>1 DEF WSInv, Network, Unstarted, OldLinks, NoConn, HandshakeKnows
<1>10. BlockedOn'
  BY <1>3, <1>4 DEF WSInv, Network, BlockedOn
<1>11. Budget' /\ ReadyIsSubscribed' /\ GateStep
  BY <1>1, <1>5 DEF WSInv, Promises, Budget, ReadyIsSubscribed, GateStep, GateAstray
<1> QED
  BY <1>6, <1>7, <1>8, <1>9, <1>10, <1>11 DEF WSInv, Conduct, AtWork, Network, Promises, Arrow, Follows

\* Who is about to do more than to end, or reads, is not beside a handshake.
LEMMA NoHandshake ==
    ASSUME WSInv, NEW a \in Sentries, pc[a] \in {"blocked", "lost"} \/ (a \in Readers /\ pc[a] = "idle")
    PROVE  ~\E i \in Connectors : step[i] \in Handshake
BY DEF WSInv, AtWork, QuietHandshake

LEMMA TickQuiet ==
    ASSUME WSInv, state = "Ready"
    PROVE  ~\E i \in Connectors : step[i] \in Handshake
BY DEF WSInv, AtWork, StepState, Handshake

LEMMA ReaderStep ==
    ASSUME WSInv, NEW i \in Connectors, ReaderLooks(i) \/ ReaderGets(i) \/ ReaderFails(i)
    PROVE  Conduct' /\ Arrow
<1> DEFINE a == Reader(i)
<1>1. a \in Sentries /\ a \in Readers
  BY Sets
<1>2. conn \in 0..MaxDials /\ (conn # 0 => conn \in Dials) /\ on \in [Sentries -> 0..MaxDials] /\ fresh \in BOOLEAN
  BY Sets DEF WSInv, TypeOK
<1>3. CASE ReaderLooks(i)
  <2>1. /\ pc[a] = "idle" /\ UNCHANGED <<state, conn, fresh, gate, done, cancelled, network, connectors, stop>>
        /\ \/ Move(a, "exited") /\ UNCHANGED on
           \/ conn # 0 /\ Move(a, "blocked") /\ on' = [on EXCEPT ![a] = conn]
    BY <1>3 DEF ReaderLooks, shared
  <2>2. ~\E j \in Connectors : step[j] \in Handshake
    BY <1>1, <2>1, NoHandshake
  <2> HIDE DEF a
  <2>3. CASE Move(a, "exited") /\ UNCHANGED on
    BY <1>1, <1>2, <2>1, <2>2, <2>3, MoveStep
  <2>4. CASE conn # 0 /\ Move(a, "blocked") /\ on' = [on EXCEPT ![a] = conn]
    <3>1. on'[a] \in Dials
      BY <1>1, <1>2, <2>4
    <3> QED
      BY <1>1, <1>2, <2>1, <2>2, <2>4, <3>1, MoveStep
  <2> QED
    BY <2>1, <2>3, <2>4
<1>4. CASE ReaderGets(i)
  <2>1. /\ pc[a] = "blocked" /\ Move(a, "idle") /\ fresh' \in BOOLEAN
        /\ UNCHANGED <<state, conn, gate, done, cancelled, network, connectors, on, stop>>
    BY <1>2, <1>4 DEF ReaderGets, Blocked
  <2>2. ~\E j \in Connectors : step[j] \in Handshake
    BY <1>1, <2>1, NoHandshake
  <2> QED
    BY <1>1, <2>1, <2>2, MoveStep
<1>5. CASE ReaderFails(i)
  <2>1. /\ pc[a] = "blocked"
        /\ Move(a, "exited") \/ Move(a, "lost")
        /\ UNCHANGED <<state, conn, fresh, gate, done, cancelled, network, connectors, on, stop>>
    <3>1. CASE Context(i) \/ done
      BY <1>5, <3>1 DEF ReaderFails, Blocked, shared
    <3>2. CASE ~(Context(i) \/ done)
      BY <1>5, <3>2 DEF ReaderFails, Blocked, shared
    <3> QED
      BY <3>1, <3>2
  <2>2. ~\E j \in Connectors : step[j] \in Handshake
    BY <1>1, <2>1, NoHandshake
  <2> HIDE DEF a
  <2>3. CASE Move(a, "exited")
    BY <1>1, <1>2, <2>1, <2>2, <2>3, MoveStep
  <2>4. CASE Move(a, "lost")
    BY <1>1, <1>2, <2>1, <2>2, <2>4, MoveStep
  <2> QED
    BY <2>1, <2>3, <2>4
<1> QED
  BY <1>3, <1>4, <1>5

LEMMA TickerStep ==
    ASSUME WSInv,
           HeartbeatTick \/ HeartbeatWrites \/ WatchdogTick \/ \E a \in Sentries : TickerExits(a)
    PROVE  Conduct' /\ Arrow
<1>1. conn \in 0..MaxDials /\ (conn # 0 => conn \in Dials) /\ on \in [Sentries -> 0..MaxDials] /\ fresh \in BOOLEAN
  BY Sets DEF WSInv, TypeOK
<1>2. CASE HeartbeatTick
  <2>1. /\ pc[Heartbeat] = "idle" /\ conn # 0 /\ state = "Ready"
        /\ Move(Heartbeat, "blocked") /\ on' = [on EXCEPT ![Heartbeat] = conn]
        /\ UNCHANGED <<state, conn, fresh, gate, done, cancelled, network, connectors, stop>>
    BY <1>2 DEF HeartbeatTick, shared
  <2>2. on'[Heartbeat] \in Dials
    BY <1>1, <2>1, Sets
  <2>3. ~\E j \in Connectors : step[j] \in Handshake
    BY <2>1, TickQuiet
  <2> QED
    BY <1>1, <2>1, <2>2, <2>3, Sets, MoveStep
<1>3. CASE HeartbeatWrites
  <2>1. /\ pc[Heartbeat] = "blocked"
        /\ Move(Heartbeat, "idle") \/ Move(Heartbeat, "lost")
        /\ UNCHANGED <<state, conn, fresh, gate, done, cancelled, network, connectors, on, stop>>
    <3>1. CASE link[on[Heartbeat]] \in {"up", "silent"}
      BY <1>3, <3>1 DEF HeartbeatWrites, Blocked, shared
    <3>2. CASE link[on[Heartbeat]] \notin {"up", "silent"}
      BY <1>3, <3>2 DEF HeartbeatWrites, Blocked, shared
    <3> QED
      BY <3>1, <3>2
  <2>2. ~\E j \in Connectors : step[j] \in Handshake
    BY <2>1, NoHandshake, Sets
  <2>3. CASE Move(Heartbeat, "idle")
    BY <1>1, <2>1, <2>2, <2>3, Sets, MoveStep
  <2>4. CASE Move(Heartbeat, "lost")
    BY <1>1, <2>1, <2>2, <2>4, Sets, MoveStep
  <2> QED
    BY <2>1, <2>3, <2>4
<1>4. CASE WatchdogTick
  <2>1. /\ pc[Watchdog] = "idle" /\ state = "Ready" /\ Move(Watchdog, "lost")
        /\ UNCHANGED <<state, conn, fresh, gate, done, cancelled, network, connectors, on, stop>>
    BY <1>4 DEF WatchdogTick, shared
  <2>2. ~\E j \in Connectors : step[j] \in Handshake
    BY <2>1, TickQuiet
  <2> QED
    BY <1>1, <2>1, <2>2, Sets, MoveStep
<1>5. ASSUME NEW a \in Sentries, TickerExits(a)
      PROVE  Conduct' /\ Arrow
  <2>1. /\ pc[a] = "idle" /\ Move(a, "exited")
        /\ UNCHANGED <<state, conn, fresh, gate, done, cancelled, network, connectors, on, stop>>
    BY <1>5 DEF TickerExits, shared
  <2> QED
    BY <1>1, <2>1, MoveStep
<1> QED
  BY <1>2, <1>3, <1>4, <1>5

\* A loss that is new was noticed in Ready, with nobody at work.
LEMMA MarkUnhealthyStep ==
    ASSUME WSInv, NEW a \in Sentries, MarkUnhealthy(a)
    PROVE  Conduct' /\ Arrow
<1>1. /\ pc[a] = "lost"
      /\ UNCHANGED <<conn, fresh, gate, done, cancelled, network, connectors, on, stop>>
  BY DEF MarkUnhealthy
<1>2. ~\E i \in Connectors : step[i] \in Handshake
  BY <1>1, NoHandshake
<1>3. CASE ~LossIsNew
  <2>1. Move(a, "exited") /\ state' = state /\ fresh \in BOOLEAN
    BY <1>3 DEF MarkUnhealthy, WSInv, TypeOK
  <2> QED
    BY <1>1, <1>2, <2>1, MoveStep
<1>4. CASE LossIsNew
  <2>1. state' = "Unhealthy" /\ Move(a, "losing")
    BY <1>4 DEF MarkUnhealthy
  <2>2. ~done
    BY <1>4 DEF LossIsNew, WSInv, AtWork, RestState
  <2>3. Nobody
    BY <1>2, <1>4, <2>2 DEF LossIsNew, WSInv, AtWork, StepState, Nobody, Active, Handshake, TypeOK
  <2>4. NoneLosing
    BY <1>4, <2>2 DEF LossIsNew, WSInv, AtWork, LosingAlone, NoneLosing
  <2>5. state = "Ready"
    BY <1>4, <2>2, <2>3, <2>4 DEF LossIsNew, WSInv, AtWork, RestState
  <2>6. UNCHANGED <<link, acked, step, todo, using, attempt>>
    BY <1>1 DEF network, connectors
  <2>7. pc \in [Sentries -> Places]
    BY DEF WSInv, TypeOK, Places
  <2>8. /\ pc' \in [Sentries -> Places] /\ pc'[a] = "losing"
        /\ \A b \in Sentries : b # a => pc'[b] = pc[b]
    BY <2>1, <2>7 DEF Move, Places
  <2>9. Nobody'
    BY <2>3, <2>6 DEF Nobody, Active
  <2>10. OneActive' /\ OneLosing' /\ LosingAlone' /\ RestState'
    BY <1>1, <2>1, <2>2, <2>4, <2>8, <2>9
       DEF Nobody, OneActive, OneLosing, LosingAlone, RestState, NoneLosing
  <2>11. StepState' /\ QuietHandshake' /\ Openers'
    BY <1>1, <1>2, <2>3, <2>6, <2>8, Sets
       DEF StepState, QuietHandshake, Openers, OpenersFirst, Unborn, Nobody, Active, Handshake,
           WSInv, AtWork
  <2>12. step[0] # "none"
    BY <1>1 DEF WSInv, Network, Unstarted
  <2>13. Unstarted' /\ OldLinks' /\ NoConn' /\ HandshakeKnows'
    BY <1>1, <2>6, <2>12 DEF WSInv, Network, Unstarted, OldLinks, NoConn, HandshakeKnows
  <2>14. BlockedOn'
    BY <1>1, <2>8 DEF WSInv, Network, BlockedOn
  <2>15. Budget' /\ ReadyIsSubscribed' /\ GateStep
    BY <2>1, <2>6, <2>8 DEF WSInv, Promises, Budget, ReadyIsSubscribed, GateStep, GateAstray
  <2> QED
    BY <2>1, <2>5, <2>10, <2>11, <2>13, <2>14, <2>15
       DEF WSInv, Conduct, AtWork, Network, Promises, Arrow, Follows, Diagram
<1> QED
  BY <1>3, <1>4

LEMMA CloseAndReconnectStep ==
    ASSUME WSInv, NEW a \in Sentries, CloseAndReconnect(a)
    PROVE  Conduct' /\ Arrow
<1>1. /\ pc[a] = "losing" /\ gate' = FALSE /\ link' = Closed /\ conn' = 0 /\ Move(a, "exited")
      /\ UNCHANGED <<state, fresh, done, cancelled, acked, todo, using, attempt, on, stop>>
  BY DEF CloseAndReconnect, GateAfterLoss
<1>2. PICK i \in Loops : step[i] = "none" /\ step' = [step EXCEPT ![i] = "spawned"]
  BY DEF CloseAndReconnect, Goto
<1>3. Nobody /\ (done \/ state = "Unhealthy") /\ i \in Connectors /\ i # 0
  BY <1>1, Sets DEF WSInv, AtWork, LosingAlone
<1>4. /\ step' \in [Connectors -> Steps] /\ step'[i] = "spawned"
      /\ \A j \in Connectors : j # i => step'[j] = step[j]
  BY <1>2, <1>3 DEF WSInv, TypeOK, Steps
<1>5. \A j \in Connectors : j # i => step'[j] \in {"none", "opening", "returning", "finished"}
  BY <1>3, <1>4 DEF Nobody, Active
<1>6. pc \in [Sentries -> Places]
  BY DEF WSInv, TypeOK, Places
<1>7. /\ pc' \in [Sentries -> Places] /\ pc'[a] = "exited"
      /\ \A b \in Sentries : b # a => pc'[b] = pc[b]
  BY <1>1, <1>6 DEF Move, Places
<1>8. NoneLosing'
  BY <1>1, <1>7 DEF WSInv, AtWork, OneLosing, NoneLosing
<1>9. OneActive' /\ ~Nobody'
  BY <1>3, <1>4, <1>5 DEF OneActive, Nobody, Active
<1>10. OneLosing' /\ LosingAlone' /\ RestState'
  BY <1>1, <1>8, <1>9 DEF WSInv, AtWork, OneLosing, LosingAlone, RestState, NoneLosing
<1>11. StepState' /\ QuietHandshake' /\ HandshakeKnows' /\ OpenersFirst'
  BY <1>1, <1>3, <1>4, <1>5 DEF StepState, QuietHandshake, HandshakeKnows, OpenersFirst, Handshake
<1>17. Unborn'
  BY <1>1, <1>2, <1>3, <1>4, <1>7, Sets DEF WSInv, AtWork, Openers, Unborn
<1>12. step'[0] # "none"
  BY <1>1, <1>3, <1>4, Sets DEF WSInv, Network, Unstarted
<1>13. Unstarted' /\ OldLinks' /\ NoConn'
  BY <1>1, <1>12, ClosedType DEF Unstarted, OldLinks, NoConn
<1>14. BlockedOn'
  BY <1>1, <1>7 DEF WSInv, Network, BlockedOn
<1>15. Budget' /\ GateStep
  BY <1>1, <1>4, <1>5, Sets DEF Budget, GateStep, GateAstray, Handshake
<1>16. ReadyIsSubscribed'
  BY <1>1, <1>3 DEF ReadyIsSubscribed, WSInv, AtWork, RestState
<1> QED
  BY <1>1, <1>9, <1>10, <1>11, <1>13, <1>14, <1>15, <1>16, <1>17
     DEF WSInv, Conduct, AtWork, Openers, Network, Promises, Arrow, Follows

LEMMA SentryStepStep ==
    ASSUME WSInv, NEW a \in Sentries, SentryStep(a)
    PROVE  Conduct' /\ Arrow
BY ReaderStep, TickerStep, MarkUnhealthyStep, CloseAndReconnectStep DEF SentryStep

-----------------------------------------------------------------------------
(* Stop and the environment *)

LEMMA StopStep == ASSUME QuietStop, WSInv, Stop PROVE Conduct' /\ Arrow
<1>1. /\ step[0] # "none" /\ StopMayBeCalled
      /\ cancelled' = cancelled \cup {0} /\ done' = TRUE /\ link' = Closed /\ conn' = 0
      /\ state' = "Disconnected" /\ stop' = "waiting"
      /\ UNCHANGED <<fresh, gate, acked, step, todo, using, attempt, pc, on>>
  BY DEF Stop, At, connectors, sentries
<1>2. Nobody
  BY <1>1 DEF StopMayBeCalled, Nobody
<1>3. \A i \in Connectors : step[i] \notin Handshake /\ step[i] \notin {"spawned", "waiting"}
  BY <1>2 DEF Nobody, Active, Handshake
<1>4. Nobody'
  BY <1>1, <1>2 DEF Nobody, Active
<1>5. OneActive' /\ OneLosing' /\ LosingAlone' /\ RestState'
  BY <1>1, <1>4 DEF WSInv, AtWork, Nobody, OneActive, OneLosing, LosingAlone, RestState
<1>6. StepState' /\ QuietHandshake' /\ Openers' /\ HandshakeKnows' /\ NoConn'
  BY <1>1, <1>3
     DEF StepState, QuietHandshake, HandshakeKnows, NoConn, Handshake, WSInv, AtWork, Openers,
         OpenersFirst, Unborn
<1>7. Unstarted' /\ OldLinks' /\ BlockedOn'
  BY <1>1, ClosedType DEF WSInv, Network, Unstarted, OldLinks, BlockedOn
<1>8. Budget' /\ ReadyIsSubscribed' /\ GateStep
  BY <1>1, <1>3, Sets DEF Budget, ReadyIsSubscribed, GateStep, GateAstray
<1> QED
  BY <1>1, <1>5, <1>6, <1>7, <1>8 DEF WSInv, Conduct, AtWork, Network, Promises, Arrow, Follows

\* What changes neither goroutines nor connections.
LEMMA SmallStep ==
    ASSUME WSInv, StopReturns \/ LivenessExpires \/ UNCHANGED vars
    PROVE  Conduct' /\ Arrow
<1>1. /\ UNCHANGED <<state, conn, gate, done, cancelled, link, acked, step, todo, using, attempt, pc, on>>
      /\ fresh' \in BOOLEAN /\ stop' \in {"no", "waiting", "returned"}
  BY DEF StopReturns, LivenessExpires, vars, shared, network, connectors, sentries, WSInv, TypeOK
<1>2. AtWork'
  BY <1>1 DEF WSInv, AtWork, OneActive, OneLosing, LosingAlone, StepState, RestState,
              QuietHandshake, Openers, OpenersFirst, Unborn, Nobody, NoneLosing, Active
<1>3. Network' /\ Promises'
  BY <1>1 DEF WSInv, Network, Promises, Unstarted, OldLinks, NoConn, BlockedOn, HandshakeKnows,
              Budget, ReadyIsSubscribed
<1>4. Arrow
  BY <1>1 DEF Arrow, Follows, GateStep, GateAstray
<1> QED
  BY <1>2, <1>3, <1>4 DEF WSInv, Conduct

LEMMA LinkFailsStep == ASSUME WSInv, NEW c \in Dials, LinkFails(c) PROVE Conduct' /\ Arrow
<1>1. /\ UNCHANGED <<state, conn, fresh, gate, done, cancelled, acked, step, todo, using, attempt, pc, on, stop>>
      /\ link[c] \in {"up", "silent"}
  BY DEF LinkFails, shared, connectors, sentries
<1>2. PICK how \in {"silent", "broken"} : link' = [link EXCEPT ![c] = how]
  BY DEF LinkFails
<1>3. link \in [Dials -> Links]
  BY DEF WSInv, TypeOK, Links
<1>4. /\ link' \in [Dials -> Links] /\ link'[c] # "closed"
      /\ \A d \in Dials : d # c => link'[d] = link[d]
  BY <1>2, <1>3 DEF Links
<1>5. c = conn
  BY <1>1 DEF WSInv, Network, OldLinks
<1>6. AtWork'
  BY <1>1 DEF WSInv, AtWork, OneActive, OneLosing, LosingAlone, StepState, RestState,
              QuietHandshake, Openers, OpenersFirst, Unborn, Nobody, NoneLosing, Active
<1>7. Unstarted' /\ NoConn' /\ BlockedOn' /\ Budget' /\ GateStep
  BY <1>1 DEF WSInv, Network, Promises, Unstarted, NoConn, BlockedOn, Budget, GateStep, GateAstray
<1>8. OldLinks' /\ HandshakeKnows' /\ ReadyIsSubscribed'
  BY <1>1, <1>4, <1>5 DEF WSInv, Network, Promises, OldLinks, HandshakeKnows, ReadyIsSubscribed
<1> QED
  BY <1>1, <1>6, <1>7, <1>8 DEF WSInv, Conduct, Network, Promises, Arrow, Follows

-----------------------------------------------------------------------------
(* After Stop, which may come at any time *)

\* Either a handshake is still under way, and the sentries can only end, or
\* nobody connects any more and no loss is new.
QuietSentries == \A a \in Sentries : pc[a] \in {"none", "idle", "exited"}

AtRest ==
    /\ \A i \in Connectors : step[i] \notin Handshake
    /\ state \in {"Disconnected", "Backoff", "SafeStopped"}

Stopped == OneActive /\ OneLosing /\ LosingAlone /\ (QuietSentries \/ AtRest)

StopInv == TypeInv /\ (~done => Conduct) /\ (done => Stopped)

LEMMA StopEnds == ASSUME WSInv, Stop PROVE Stopped'
<1>1. done' = TRUE /\ state' = "Disconnected" /\ UNCHANGED <<step, pc>>
  BY DEF Stop, connectors, sentries
<1>2. OneActive' /\ OneLosing' /\ LosingAlone'
  BY <1>1 DEF WSInv, AtWork, OneActive, OneLosing, LosingAlone, Nobody, Active
<1>3. CASE \E i \in Connectors : step[i] \in Handshake
  <2>1. QuietSentries'
    BY <1>1, <1>3 DEF WSInv, AtWork, QuietHandshake, QuietSentries
  <2> QED
    BY <1>2, <2>1 DEF Stopped
<1>4. CASE ~\E i \in Connectors : step[i] \in Handshake
  <2>1. AtRest'
    BY <1>1, <1>4 DEF AtRest
  <2> QED
    BY <1>2, <2>1 DEF Stopped
<1> QED
  BY <1>3, <1>4

LEMMA DoneByStop == ASSUME [Next]_vars, ~Stop PROVE done' = done
<1>1. CASE Start \/ StopReturns \/ LivenessExpires \/ UNCHANGED vars \/ \E c \in Dials : LinkFails(c)
  BY <1>1 DEF Start, StopReturns, LivenessExpires, LinkFails, vars, shared
<1>2. ASSUME NEW i \in Connectors, Connect(i)
      PROVE  done' = done
  BY <1>2 DEF Connect, Dial, DialFails, Auth, SubAck, HandshakeFails, Fail, Reconcile,
              ReconcileFails, OpenGate
<1>3. ASSUME NEW i \in Loops, ReconnectLoop(i)
      PROVE  done' = done
  BY <1>2, <1>3, Sets DEF ReconnectLoop, LoopStarts, LoopQuits, BackoffTimer, Exhausted,
                          CancelAttempt, shared
<1>4. ASSUME NEW a \in Sentries, SentryStep(a)
      PROVE  done' = done
  BY <1>4 DEF SentryStep, ReaderLooks, ReaderFails, HeartbeatTick, HeartbeatWrites,
              WatchdogTick, TickerExits, MarkUnhealthy, CloseAndReconnect, shared
<1>5. ASSUME NEW i \in Connectors, ReaderGets(i)
      PROVE  done' = done
  BY <1>5 DEF ReaderGets
<1> QED
  BY <1>1, <1>2, <1>3, <1>4, <1>5 DEF Next

LEMMA DoneStays == ASSUME done, [Next]_vars PROVE done'
BY DoneByStop DEF Stop

\* A step of the connector at work.
LEMMA StoppedConnector ==
    ASSUME TypeOK, Stopped, done', NEW i \in Connectors, Active(i), NEW s \in Steps, Goto(i, s),
           \A a \in Sentries : pc'[a] = "losing" => pc[a] = "losing"
    PROVE  OneActive' /\ OneLosing' /\ LosingAlone'
           /\ \A j \in Connectors : j # i => step'[j] \notin Handshake
<1>1. /\ step'[i] = s /\ \A j \in Connectors : j # i => step'[j] = step[j]
  BY GotoType
<1>2. \A j \in Connectors : j # i => ~Active(j)
  BY DEF Stopped, OneActive
<1>3. \A a \in Sentries : pc'[a] # "losing"
  BY DEF Stopped, LosingAlone, Nobody
<1> QED
  BY <1>1, <1>2, <1>3 DEF OneActive, OneLosing, LosingAlone, Active, Handshake

LEMMA StoppedConnect ==
    ASSUME TypeOK, Stopped, done, done', NEW i \in Connectors, Connect(i), ~OpenGate(i)
    PROVE  Stopped'
<1>1. step[i] \in Handshake /\ Active(i)
  BY DEF Connect, Dial, DialFails, Auth, SubAck, HandshakeFails, Reconcile, ReconcileFails,
         At, Handshake, Active
<1>2. QuietSentries
  BY <1>1 DEF Stopped, AtRest
<1>3. pc' = pc /\ QuietSentries'
  <2>1. pc' = pc
    BY DEF Connect, Dial, DialFails, Auth, SubAck, HandshakeFails, Fail, Reconcile,
           ReconcileFails, sentries
  <2> QED
    BY <1>2, <2>1 DEF QuietSentries
<1>4. (\E s \in Steps : Goto(i, s)) \/ UNCHANGED step
  BY DEF Connect, Dial, DialFails, Auth, SubAck, HandshakeFails, Fail, Reconcile, ReconcileFails,
         Steps
<1>5. CASE \E s \in Steps : Goto(i, s)
  BY <1>1, <1>3, <1>5, StoppedConnector DEF Stopped
<1>6. CASE UNCHANGED step
  BY <1>3, <1>6 DEF Stopped, QuietSentries, OneActive, OneLosing, LosingAlone, Active
<1> QED
  BY <1>4, <1>5, <1>6

\* A gate that is opened after Stop spawns sentries that find done closed.
LEMMA StoppedOpening ==
    ASSUME TypeOK, Stopped, done', NEW i \in Connectors, OpenGate(i)
    PROVE  Stopped'
<1>1. /\ step[i] = "opening" /\ Goto(i, IF i = 0 THEN "finished" ELSE "returning")
      /\ state' = state
  BY DEF OpenGate, At
<1>2. /\ step'[i] \in {"finished", "returning"} /\ \A j \in Connectors : j # i => step'[j] = step[j]
  BY <1>1, GotoType DEF Steps
<1>3. /\ \A j \in Connectors : Active(j)' <=> Active(j)
      /\ \A j \in Connectors : step'[j] \in Handshake => step[j] \in Handshake
  BY <1>1, <1>2 DEF Active, Handshake
<1>4. \A a \in Sentries : pc'[a] = pc[a] \/ pc'[a] = "idle"
  BY DEF OpenGate
<1>5. OneActive' /\ OneLosing' /\ LosingAlone'
  BY <1>3, <1>4 DEF Stopped, OneActive, OneLosing, LosingAlone, Nobody
<1>6. (QuietSentries \/ AtRest)'
  BY <1>1, <1>3, <1>4 DEF Stopped, QuietSentries, AtRest
<1> QED
  BY <1>5, <1>6 DEF Stopped

LEMMA StoppedLoop ==
    ASSUME TypeOK, Stopped, done, done', NEW i \in Loops, ReconnectLoop(i)
    PROVE  Stopped'
<1>1. i \in Connectors
  BY Sets
<1>2. CASE LoopStarts(i) \/ LoopQuits(i) \/ Exhausted(i)
  <2>1. /\ Active(i) /\ pc' = pc /\ state' \in {"Backoff", "SafeStopped", state}
        /\ Goto(i, "waiting") \/ Goto(i, "finished")
    BY <1>2 DEF LoopStarts, LoopQuits, Exhausted, At, Active, sentries, shared
  <2>2. /\ OneActive' /\ OneLosing' /\ LosingAlone'
        /\ \A j \in Connectors : j # i => step'[j] \notin Handshake
    BY <1>1, <2>1, StoppedConnector DEF Steps
  <2>3. step'[i] \notin Handshake
    BY <1>1, <2>1, GotoType DEF Steps, Handshake
  <2> QED
    BY <2>1, <2>2, <2>3 DEF Stopped, QuietSentries, AtRest
<1>3. CASE CancelAttempt(i)
  <2>1. step[i] = "returning" /\ Goto(i, "finished") /\ UNCHANGED <<state, pc>>
    BY <1>3 DEF CancelAttempt, At, sentries
  <2>2. /\ step'[i] = "finished" /\ \A j \in Connectors : j # i => step'[j] = step[j]
    BY <1>1, <2>1, GotoType DEF Steps
  <2>3. \A j \in Connectors : Active(j)' <=> Active(j)
    BY <2>1, <2>2 DEF Active
  <2>4. \A j \in Connectors : step'[j] \in Handshake => step[j] \in Handshake
    BY <2>2 DEF Handshake
  <2> QED
    BY <2>1, <2>3, <2>4
       DEF Stopped, OneActive, OneLosing, LosingAlone, Nobody, QuietSentries, AtRest
<1> QED
  BY <1>1, <1>2, <1>3, StoppedConnect, StoppedOpening DEF ReconnectLoop, BackoffTimer

\* A sentry moves without taking up a loss.
LEMMA StoppedMove ==
    ASSUME TypeOK, Stopped, done', NEW a \in Sentries, NEW s \in {"idle", "lost", "exited"}, Move(a, s),
           s = "lost" => pc[a] = "blocked",
           UNCHANGED <<state, step>>
    PROVE  Stopped'
<1>1. /\ pc'[a] = s /\ \A b \in Sentries : b # a => pc'[b] = pc[b]
  BY MoveType DEF Places
<1>2. OneActive' /\ OneLosing' /\ LosingAlone'
  BY <1>1 DEF Stopped, OneActive, OneLosing, LosingAlone, Nobody, Active
<1>3. (QuietSentries \/ AtRest)'
  BY <1>1 DEF Stopped, QuietSentries, AtRest
<1> QED
  BY <1>2, <1>3 DEF Stopped

LEMMA StoppedReconnect ==
    ASSUME TypeOK, Stopped, done', NEW a \in Sentries, CloseAndReconnect(a)
    PROVE  Stopped'
<1>1. pc[a] = "losing" /\ Move(a, "exited") /\ state' = state
  BY DEF CloseAndReconnect
<1>2. PICK i \in Loops : Goto(i, "spawned")
  BY DEF CloseAndReconnect
<1>3. i \in Connectors /\ Nobody /\ AtRest
  BY <1>1, Sets DEF Stopped, LosingAlone, QuietSentries
<1>4. /\ step'[i] = "spawned" /\ \A j \in Connectors : j # i => step'[j] = step[j]
  BY <1>2, <1>3, GotoType DEF Steps
<1>5. /\ pc'[a] = "exited" /\ \A b \in Sentries : b # a => pc'[b] = pc[b]
  BY <1>1, MoveType DEF Places
<1>6. \A b \in Sentries : pc'[b] # "losing"
  BY <1>1, <1>5 DEF Stopped, OneLosing
<1>7. \A j \in Connectors : Active(j)' => j = i
  BY <1>3, <1>4 DEF Nobody, Active
<1>8. AtRest'
  BY <1>1, <1>3, <1>4 DEF AtRest, Handshake
<1> QED
  BY <1>6, <1>7, <1>8 DEF Stopped, OneActive, OneLosing, LosingAlone

LEMMA StoppedSentry ==
    ASSUME TypeOK, Stopped, done, done', NEW a \in Sentries, SentryStep(a)
    PROVE  Stopped'
<1>1. ASSUME NEW i \in Connectors, a = Reader(i), ReaderLooks(i) \/ ReaderFails(i)
      PROVE  Stopped'
  <2>1. Move(a, "exited") /\ UNCHANGED <<state, step>>
    BY <1>1 DEF ReaderLooks, ReaderFails, shared, connectors
  <2> QED
    BY <2>1, StoppedMove
<1>2. CASE a = Heartbeat /\ HeartbeatWrites
  <2>1. /\ pc[a] = "blocked" /\ UNCHANGED <<state, step>>
        /\ Move(a, "idle") \/ Move(a, "lost")
    BY <1>2 DEF HeartbeatWrites, Blocked, shared, connectors
  <2> QED
    BY <2>1, StoppedMove
<1>3. CASE TickerExits(a)
  BY <1>3, StoppedMove DEF TickerExits, shared, connectors
<1>4. CASE MarkUnhealthy(a)
  <2>1. pc[a] = "lost" /\ UNCHANGED step
    BY <1>4 DEF MarkUnhealthy, connectors
  <2>2. AtRest
    BY <2>1 DEF Stopped, QuietSentries
  <2>3. ~LossIsNew
    BY <2>2 DEF AtRest, LossIsNew
  <2>4. Move(a, "exited") /\ UNCHANGED state
    BY <1>4, <2>3 DEF MarkUnhealthy
  <2> QED
    BY <2>1, <2>4, StoppedMove
<1>5. CASE CloseAndReconnect(a)
  BY <1>5, StoppedReconnect
<1>6. ~HeartbeatTick /\ ~WatchdogTick
  BY DEF HeartbeatTick, WatchdogTick
<1> QED
  BY <1>1, <1>2, <1>3, <1>4, <1>5, <1>6 DEF SentryStep

LEMMA StoppedStep ==
    ASSUME TypeOK, done, Stopped, [Next]_vars
    PROVE  Stopped'
<1>1. done'
  BY DoneStays
<1>2. CASE Start
  BY <1>2 DEF Start
<1>3. ASSUME UNCHANGED <<step, pc>>, state' \in {state, "Disconnected"}
      PROVE  Stopped'
  BY <1>1, <1>3 DEF Stopped, OneActive, OneLosing, LosingAlone, Nobody, Active, QuietSentries, AtRest
<1>4. CASE Stop \/ StopReturns \/ LivenessExpires \/ UNCHANGED vars \/ \E c \in Dials : LinkFails(c)
  BY <1>3, <1>4 DEF Stop, StopReturns, LivenessExpires, LinkFails, vars, shared, connectors, sentries
<1>5. ASSUME NEW i \in Connectors, ReaderGets(i)
      PROVE  Stopped'
  <2>1. /\ Reader(i) \in Sentries /\ Move(Reader(i), "idle") /\ UNCHANGED <<state, step>>
    BY <1>5, Sets DEF ReaderGets, connectors
  <2> QED
    BY <1>1, <2>1, StoppedMove
<1> QED
  BY <1>1, <1>2, <1>4, <1>5, StoppedConnect, StoppedOpening, StoppedLoop, StoppedSentry DEF Next

-----------------------------------------------------------------------------
LEMMA NextConduct == ASSUME Prompt, WSInv, [Next]_vars, ~Stop PROVE Conduct' /\ Arrow
<1>1. CASE Start \/ \E i \in Connectors : Connect(i)
  BY <1>1, StartStep, ConnectStep
<1>2. ASSUME NEW i \in Loops, ReconnectLoop(i)
      PROVE  Conduct' /\ Arrow
  BY <1>2, LoopStep
<1>3. ASSUME NEW a \in Sentries, SentryStep(a)
      PROVE  Conduct' /\ Arrow
  BY <1>3, SentryStepStep
<1>4. ASSUME NEW i \in Connectors, ReaderGets(i)
      PROVE  Conduct' /\ Arrow
  BY <1>4, ReaderStep
<1>5. CASE StopReturns \/ LivenessExpires \/ UNCHANGED vars
  BY <1>5, SmallStep
<1>6. ASSUME NEW c \in Dials, LinkFails(c)
      PROVE  Conduct' /\ Arrow
  BY <1>6, LinkFailsStep
<1> QED
  BY <1>1, <1>2, <1>3, <1>4, <1>5, <1>6 DEF Next

LEMMA InvTypes == WSInv <=> TypeInv /\ Conduct
BY DEF WSInv, TypeInv, Conduct, Promises

LEMMA NextStop == ASSUME Prompt, StopInv, [Next]_vars PROVE StopInv' /\ Arrow
<1>1. TypeInv /\ TypeInv' /\ TypeOK
  BY TypeStep DEF StopInv, TypeInv
<1>2. CASE done
  BY <1>1, <1>2, DoneStays, StoppedStep DEF StopInv, Arrow, Follows, GateStep, GateAstray
<1>3. CASE ~done
  <2>1. WSInv
    BY <1>3, InvTypes DEF StopInv
  <2>2. CASE Stop
    BY <1>1, <2>1, <2>2, StopEnds DEF StopInv, Stop, Arrow, Follows, GateStep, GateAstray
  <2>3. CASE ~Stop
    <3>1. Conduct' /\ Arrow
      BY <2>1, <2>3, NextConduct
    <3>2. done' = done
      BY <1>1, <2>3, DoneByStop
    <3> QED
      BY <1>1, <1>3, <3>1, <3>2 DEF StopInv
  <2> QED
    BY <2>2, <2>3
<1> QED
  BY <1>2, <1>3

\* The inductive invariants, with Stop at any time and with Stop while nobody
\* connects.
THEOREM StopInvariant == ASSUME Prompt PROVE Safety => []StopInv
<1>1. Init => StopInv
  BY InitInv, InvTypes DEF StopInv, Init
<1>2. StopInv /\ [Next]_vars => StopInv'
  BY NextStop
<1> QED
  BY <1>1, <1>2, PTL DEF Safety

THEOREM WSInvariant == ASSUME Prompt, QuietStop PROVE Safety => []WSInv
<1>1. WSInv /\ [Next]_vars => WSInv'
  <2> SUFFICES ASSUME WSInv, [Next]_vars
               PROVE  WSInv'
    OBVIOUS
  <2>1. Conduct'
    BY NextConduct, StopStep
  <2>2. TypeInv'
    BY InvTypes, TypeStep
  <2> QED
    BY <2>1, <2>2 DEF WSInv, TypeInv, Conduct
<1> QED
  BY InitInv, <1>1, PTL DEF Safety

\* The variables keep their types, whatever the scheduling and whenever Stop is
\* called; in particular the retry budget of an episode is never exceeded
\* (reconnectLoop).
THEOREM WSTypeCorrect == Safety => []TypeOK
<1>1. Init => TypeInv
  BY InitInv, InvTypes
<1>2. TypeInv /\ [Next]_vars => TypeInv'
  BY TypeStep
<1>3. TypeInv => TypeOK
  BY DEF TypeInv
<1> QED
  BY <1>1, <1>2, <1>3, PTL DEF Safety

\* At most one goroutine connects, however many sentries notice a loss
\* (handleConnectionLoss) and whenever Stop is called.
THEOREM OneGoroutineConnects == ASSUME Prompt PROVE Safety => []OneReconnectLoop
<1>1. StopInv => OneReconnectLoop
  <2> DEFINE S == {i \in Connectors : Active(i)}
  <2> SUFFICES ASSUME StopInv
               PROVE  Cardinality(S) <= 1
    BY DEF OneReconnectLoop
  <2>1. \A i, j \in S : i = j
    BY DEF StopInv, Stopped, Conduct, AtWork, OneActive
  <2> HIDE DEF S
  <2>2. CASE S = {}
    BY <2>2, FS_EmptySet
  <2>3. ASSUME NEW i \in S
        PROVE  Cardinality(S) <= 1
    <3>1. S = {i}
      BY <2>1, <2>3
    <3> QED
      BY <3>1, FS_Singleton
  <2> QED
    BY <2>2, <2>3
<1> QED
  BY <1>1, StopInvariant, PTL

\* The only step with which the gate comes to stand open outside Ready is an
\* openRiskGate that a loss, marked since transition(Ready), has overtaken: all
\* other steps that leave Ready or touch the gate keep the two together, for any
\* number of sentries and connections.
THEOREM GateStraysOnlyLate == ASSUME Prompt PROVE Safety => OnlyALateOpenerStrays
<1>1. StopInv /\ [Next]_vars
        => [~GateAstray /\ GateAstray' =>
               \E i \in Connectors : At(i, "opening") /\ ~At(i, "opening")' /\ state # "Ready"]_vars
  BY NextStop DEF Arrow, GateStep, LateOpening
<1> QED
  BY <1>1, StopInvariant, PTL DEF Safety, OnlyALateOpenerStrays

\* Ready means a current connection with all subscriptions acknowledged on it
\* (performSubscribe, waitForSubAck).  A Stop during a handshake would be
\* followed by Ready without a connection.
THEOREM ReadyMeansSubscribed == ASSUME Prompt, QuietStop PROVE Safety => []ReadyIsSubscribed
<1>1. WSInv => ReadyIsSubscribed
  BY DEF WSInv, Promises
<1> QED
  BY <1>1, WSInvariant, PTL

\* Until Stop is called the same holds whatever moment it is called at
\* (performSubscribe, waitForSubAck, Stop).
THEOREM ReadyUntilStop == ASSUME Prompt PROVE Safety => [](~done => ReadyIsSubscribed)
<1>1. StopInv => (~done => ReadyIsSubscribed)
  BY DEF StopInv, Conduct, Promises
<1> QED
  BY <1>1, StopInvariant, PTL

\* Every change of state before Stop is an arrow of the design's diagram
\* (setState and its callers).
THEOREM DiagramIsFollowed == ASSUME Prompt PROVE Safety => FollowsDiagram
<1>1. StopInv /\ [Next]_vars
        => [state' # state /\ ~done' => <<state, state'>> \in Diagram]_vars
  BY NextStop DEF Arrow, Follows
<1> QED
  BY <1>1, StopInvariant, PTL DEF Safety, FollowsDiagram

-----------------------------------------------------------------------------
(* The gate. *)

\* The inductive invariant: the flag is set wherever a reason is left.
FlagFollowsReasons == \A s \in Symbols : reasons[s] # NoReasons => active[s]

GateInv == GateTypeOK /\ FlagFollowsReasons

-----------------------------------------------------------------------------
LEMMA InitType == GateInit => GateTypeOK
<1> SUFFICES ASSUME GateInit
             PROVE  GateTypeOK
  OBVIOUS
<1>1. 0 \in Epochs
  BY TradingGateAssumption DEF Epochs
<1>2. NoReasons \in [Codes -> Kinds]
  BY DEF NoReasons, Kinds
<1> QED
  BY <1>1, <1>2 DEF GateInit, GateTypeOK

\* The state after a step of one symbol is well typed.
LEMMA SymbolStepType ==
    ASSUME GateTypeOK, NEW s \in Symbols, SymbolStep(s)
    PROVE  GateTypeOK'
<1> USE TradingGateAssumption
<1>1. ASSUME NEW c \in Codes, NEW kind \in {"auto", "human"}, EnterSymbolSafeStop(s, c, kind)
      PROVE  GateTypeOK'
  BY <1>1 DEF EnterSymbolSafeStop, GateTypeOK, Kinds, Epochs
<1>2. ASSUME NEW c \in Codes, NEW human \in BOOLEAN, ClearSymbolReason(s, c, human)
      PROVE  GateTypeOK'
  BY <1>2 DEF ClearSymbolReason, ActiveAfter, GateTypeOK, Kinds
<1>3. ASSUME NEW e \in Epochs, MarkReconciled(s, e)
      PROVE  GateTypeOK'
  BY <1>3 DEF MarkReconciled, GateTypeOK
<1>4. ASSUME NEW e \in Epochs, TryRecoverSymbol(s, e)
      PROVE  GateTypeOK'
  BY <1>4 DEF TryRecoverSymbol, Recovered, NoReasons, GateTypeOK, Kinds
<1> QED
  BY <1>1, <1>2, <1>3, <1>4 DEF SymbolStep

\* The state after a step of the global scope is well typed.
LEMMA GlobalStepType ==
    ASSUME GateTypeOK, GlobalStep
    PROVE  GateTypeOK'
<1> USE TradingGateAssumption
<1>1. ASSUME NEW c \in Codes, NEW kind \in {"auto", "human"}, EnterGlobalSafeStop(c, kind)
      PROVE  GateTypeOK'
  BY <1>1 DEF EnterGlobalSafeStop, GateTypeOK, Kinds
<1>2. ASSUME NEW c \in Codes, NEW human \in BOOLEAN, ClearGlobalReason(c, human)
      PROVE  GateTypeOK'
  BY <1>2 DEF ClearGlobalReason, GateTypeOK, Kinds
<1>3. ASSUME NEW h \in [SharedCodes -> BOOLEAN], UpdateSharedHealth(h)
      PROVE  GateTypeOK'
  BY <1>3 DEF UpdateSharedHealth, SyncHealthReason, GateTypeOK, Kinds
<1>4. ASSUME NEW flag \in BOOLEAN, SetEmergency(flag)
      PROVE  GateTypeOK'
  BY <1>4 DEF SetEmergency, GateTypeOK
<1>5. ASSUME NEW c \in Codes, HumanDecides(c)
      PROVE  GateTypeOK'
  BY <1>5 DEF HumanDecides, GateTypeOK
<1>6. ASSUME CycleCompletes
      PROVE  GateTypeOK'
  BY <1>6 DEF CycleCompletes, GateTypeOK, Epochs
<1> QED
  BY <1>1, <1>2, <1>3, <1>4, <1>5, <1>6 DEF GlobalStep

\* A step of the global scope leaves the symbols alone.
LEMMA GlobalStepFrame ==
    ASSUME GlobalStep
    PROVE  UNCHANGED <<active, reasons, epoch>>
BY DEF GlobalStep, EnterGlobalSafeStop, ClearGlobalReason, UpdateSharedHealth,
       SetEmergency, HumanDecides, CycleCompletes

\* A step of one symbol leaves the others and the global scope alone.
LEMMA SymbolStepFrame ==
    ASSUME GateTypeOK, NEW s \in Symbols, SymbolStep(s)
    PROVE  /\ UNCHANGED <<globalReasons, emergency>>
           /\ \A t \in Symbols \ {s} : reasons'[t] = reasons[t] /\ active'[t] = active[t]
<1>1. ASSUME NEW c \in Codes, NEW kind \in {"auto", "human"}, EnterSymbolSafeStop(s, c, kind)
      PROVE  /\ UNCHANGED <<globalReasons, emergency>>
             /\ \A t \in Symbols \ {s} : reasons'[t] = reasons[t] /\ active'[t] = active[t]
  BY <1>1 DEF EnterSymbolSafeStop, GateTypeOK
<1>2. ASSUME NEW c \in Codes, NEW human \in BOOLEAN, ClearSymbolReason(s, c, human)
      PROVE  /\ UNCHANGED <<globalReasons, emergency>>
             /\ \A t \in Symbols \ {s} : reasons'[t] = reasons[t] /\ active'[t] = active[t]
  BY <1>2 DEF ClearSymbolReason, GateTypeOK
<1>3. ASSUME NEW e \in Epochs, MarkReconciled(s, e) \/ TryRecoverSymbol(s, e)
      PROVE  /\ UNCHANGED <<globalReasons, emergency>>
             /\ \A t \in Symbols \ {s} : reasons'[t] = reasons[t] /\ active'[t] = active[t]
  BY <1>3 DEF MarkReconciled, TryRecoverSymbol, Recovered, GateTypeOK
<1> QED
  BY <1>1, <1>2, <1>3 DEF SymbolStep

-----------------------------------------------------------------------------
\* The flag after a step of one symbol.
LEMMA SymbolStepFlag ==
    ASSUME GateTypeOK, FlagFollowsReasons, NEW s \in Symbols, SymbolStep(s)
    PROVE  FlagFollowsReasons'
<1>1. ASSUME NEW t \in Symbols \ {s}
      PROVE  (reasons[t] # NoReasons => active[t])'
  BY SymbolStepFrame DEF FlagFollowsReasons, NoReasons
<1>2. (reasons[s] # NoReasons => active[s])'
  <2>1. ASSUME NEW c \in Codes, NEW kind \in {"auto", "human"}, EnterSymbolSafeStop(s, c, kind)
        PROVE  active'[s]
    BY <2>1 DEF EnterSymbolSafeStop, GateTypeOK
  <2>2. ASSUME NEW c \in Codes, NEW human \in BOOLEAN, ClearSymbolReason(s, c, human)
        PROVE  reasons'[s] # NoReasons => active'[s]
    <3>1. reasons[s] # NoReasons
      BY <2>2 DEF ClearSymbolReason, MayClear, NoReasons
    <3>2. reasons'[s] = [reasons[s] EXCEPT ![c] = "none"]
      BY <2>2 DEF ClearSymbolReason, GateTypeOK
    <3>3. active'[s] = ActiveAfter(s, reasons'[s])
      BY <2>2, <3>2 DEF ClearSymbolReason, GateTypeOK
    <3> QED
      BY <3>1, <3>3 DEF ActiveAfter, FlagFollowsReasons
  <2>3. ASSUME NEW e \in Epochs, MarkReconciled(s, e)
        PROVE  reasons'[s] # NoReasons => active'[s]
    BY <2>3 DEF MarkReconciled, FlagFollowsReasons
  <2>4. ASSUME NEW e \in Epochs, TryRecoverSymbol(s, e)
        PROVE  reasons'[s] = NoReasons
    BY <2>4 DEF TryRecoverSymbol, Recovered, GateTypeOK
  <2> QED
    BY <2>1, <2>2, <2>3, <2>4 DEF SymbolStep, NoReasons
<1> QED
  BY <1>1, <1>2 DEF FlagFollowsReasons

LEMMA InitGate == GateInit => GateInv
BY InitType DEF GateInit, GateInv, FlagFollowsReasons, NoReasons

LEMMA StepGate ==
    ASSUME GateInv, [GateNext]_gateVars
    PROVE  GateInv'
<1>1. CASE GateNext
  <2>1. GateTypeOK'
    BY <1>1, SymbolStepType, GlobalStepType DEF GateNext, GateInv
  <2>2. FlagFollowsReasons'
    BY <1>1, SymbolStepFlag, GlobalStepFrame DEF GateNext, GateInv, FlagFollowsReasons, NoReasons
  <2> QED
    BY <2>1, <2>2 DEF GateInv
<1>2. CASE UNCHANGED gateVars
  BY <1>2 DEF gateVars, GateInv, GateTypeOK, FlagFollowsReasons, NoReasons
<1> QED
  BY <1>1, <1>2

LEMMA GateInvariant == GateSpec => []GateInv
<1> QED
  BY InitGate, StepGate, PTL DEF GateSpec

-----------------------------------------------------------------------------
\* The gate's maps keep their shape under every method.
THEOREM GateTypeCorrect == GateSpec => []GateTypeOK
<1>1. GateInv => GateTypeOK
  BY DEF GateInv
<1> QED
  BY <1>1, GateInvariant, PTL

\* Authorize never lets an order through on a dropped flag.
THEOREM ReasonsAlwaysBlock == GateSpec => []ReasonsBlock
<1>1. GateInv => ReasonsBlock
  <2>1. ASSUME NEW side \in {"buy", "sell"}
        PROVE  ClassifyOperation(side, "unknown") = "risk-increasing"
    BY DEF ClassifyOperation
  <2> QED
    BY <2>1 DEF GateInv, FlagFollowsReasons, ReasonsBlock, Authorize, SymbolStop
<1> QED
  BY <1>1, GateInvariant, PTL

\* Symbols are isolated: the methods that name one symbol decide only about
\* that symbol.
THEOREM SymbolsAreIsolated == GateSpec => LocalFailuresStayLocal
<1> DEFINE Local ==
      \A s, t \in Symbols :
          /\ Authorize(s, "risk-increasing")' # Authorize(s, "risk-increasing")
          /\ Authorize(t, "risk-increasing")' # Authorize(t, "risk-increasing")
          /\ s # t
          => GlobalStop' # GlobalStop \/ emergency' # emergency
<1>1. ASSUME GateInv, [GateNext]_gateVars
      PROVE  [Local]_gateVars
  <2>1. ASSUME NEW u \in Symbols, SymbolStep(u)
        PROVE  Local
    <3>1. \A t \in Symbols \ {u} :
             Authorize(t, "risk-increasing")' = Authorize(t, "risk-increasing")
      BY <1>1, <2>1, SymbolStepFrame
      DEF GateInv, Authorize, GlobalStop, SymbolStop, NoReasons
    <3> QED
      BY <3>1
  <2>2. ASSUME GlobalStep
        PROVE  Local
    BY <2>2, GlobalStepFrame DEF Authorize, GlobalStop, SymbolStop, NoReasons
  <2> QED
    BY <1>1, <2>1, <2>2 DEF GateNext
<1> QED
  BY <1>1, GateInvariant, PTL DEF GateSpec, LocalFailuresStayLocal

\* No recovery takes along a reason that requires a human: short of a
\* confirmation it is overwritten under its code, or its dependency is healthy
\* (TryRecoverSymbol, ClearSymbolReason, ClearGlobalReason, syncHealthReason).
THEOREM HumansAreAsked == GateSpec => HumanReasonsDoNotVanish
<1> DEFINE Asked ==
      \A c \in Codes : c \notin confirmed =>
          /\ \A s \in Symbols : reasons[s][c] = "human" => reasons'[s][c] # "none"
          /\ globalReasons[c] = "human" /\ globalReasons'[c] = "none"
                => c \in SharedCodes /\ health'[c]
<1>1. ASSUME GateInv, [GateNext]_gateVars
      PROVE  [Asked]_gateVars
  <2>1. ASSUME NEW u \in Symbols, SymbolStep(u), NEW c \in Codes, c \notin confirmed,
               NEW s \in Symbols, reasons[s][c] = "human", reasons'[s][c] = "none"
        PROVE  FALSE
    <3>1. s = u
      BY <1>1, <2>1, SymbolStepFrame DEF GateInv
    <3>2. ASSUME NEW d \in Codes, NEW kind \in {"auto", "human"}, EnterSymbolSafeStop(s, d, kind)
          PROVE  FALSE
      BY <1>1, <2>1, <3>2 DEF GateInv, EnterSymbolSafeStop, GateTypeOK
    <3>3. ASSUME NEW d \in Codes, NEW human \in BOOLEAN, ClearSymbolReason(s, d, human)
          PROVE  FALSE
      BY <1>1, <2>1, <3>3 DEF GateInv, ClearSymbolReason, MayClear, GateTypeOK
    <3>4. ASSUME NEW e \in Epochs, MarkReconciled(s, e) \/ TryRecoverSymbol(s, e)
          PROVE  FALSE
      BY <2>1, <3>4 DEF MarkReconciled, TryRecoverSymbol, Recoverable
    <3> QED
      BY <2>1, <3>1, <3>2, <3>3, <3>4 DEF SymbolStep
  <2>2. ASSUME GlobalStep, NEW c \in Codes, c \notin confirmed,
               globalReasons[c] = "human", globalReasons'[c] = "none"
        PROVE  c \in SharedCodes /\ health'[c]
    <3>1. ASSUME NEW d \in Codes, NEW kind \in {"auto", "human"}, EnterGlobalSafeStop(d, kind)
          PROVE  FALSE
      BY <1>1, <2>2, <3>1 DEF GateInv, EnterGlobalSafeStop, GateTypeOK
    <3>2. ASSUME NEW d \in Codes, NEW human \in BOOLEAN, ClearGlobalReason(d, human)
          PROVE  FALSE
      BY <1>1, <2>2, <3>2 DEF GateInv, ClearGlobalReason, MayClear, GateTypeOK
    <3>3. ASSUME NEW h \in [SharedCodes -> BOOLEAN], UpdateSharedHealth(h)
          PROVE  c \in SharedCodes /\ health'[c]
      BY <2>2, <3>3 DEF UpdateSharedHealth, SyncHealthReason
    <3> QED
      BY <2>2, <3>1, <3>2, <3>3 DEF GlobalStep, SetEmergency, HumanDecides, CycleCompletes
  <2>3. CASE \E u \in Symbols : SymbolStep(u)
    BY <1>1, <2>1, <2>3, SymbolStepFrame DEF GateInv
  <2>4. CASE GlobalStep
    BY <2>2, <2>4, GlobalStepFrame
  <2> QED
    BY <1>1, <2>3, <2>4 DEF GateNext
<1> QED
  BY <1>1, GateInvariant, PTL DEF GateSpec, HumanReasonsDoNotVanish

=============================================================================
