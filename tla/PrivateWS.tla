------------------------------ MODULE PrivateWS ------------------------------
(***************************************************************************)
(* internal/marketdata/private_ws_state_machine.go: one instance of the    *)
(* private WebSocket state machine, from Start to Stop.                    *)
(*                                                                         *)
(* Goroutines.  Connector 0 is the caller of Start; connector i >= 1 is    *)
(* the i-th reconnectLoop.  Every successful connector spawns one reader;  *)
(* Start also spawns the heartbeat sender and the watchdog.  Readers,      *)
(* heartbeat and watchdog are the sentries: each may detect a loss and run *)
(* handleConnectionLoss, which takes the mutex to mark the loss, releases  *)
(* it, and only then closes the gate and the connection.                   *)
(*                                                                         *)
(* Abstracted: the text of the messages (a message is liveness evidence or *)
(* not, an acknowledgement is the right one or not), the clock (a backoff  *)
(* timer may fire at any time, fresh says that lastLiveness is younger     *)
(* than LivenessTimeout), and the fields that are only reported            *)
(* (epoch, reconnectCount, unhealthyAt, confirmedSubs).                    *)
(***************************************************************************)
EXTENDS Naturals, FiniteSets

CONSTANTS
    Subs,           \* RequiredSubscriptions
    MaxDials,       \* bound on successful dials, and on reconnect loops
    MaxAttempts,    \* MaxReconnectAttempts
    Prompt,         \* TRUE: goroutines run fast against the backoff delay
    QuietStop       \* TRUE: Stop is called while nobody is connecting

ASSUME PrivateWSAssumption ==
    /\ IsFiniteSet(Subs) /\ Subs # {}
    /\ MaxDials \in Nat \ {0}
    /\ MaxAttempts \in Nat \ {0}
    /\ Prompt \in BOOLEAN /\ QuietStop \in BOOLEAN

VARIABLES
    state,      \* sm.state
    conn,       \* sm.conn: the number of a dial, or 0 for nil
    fresh,      \* age of sm.lastLiveness < LivenessTimeout
    gate,       \* the risk gate, as the callback was last told
    done,       \* sm.done is closed
    cancelled,  \* connectors whose context is cancelled
    link,       \* external: what became of each dialled connection
    acked,      \* external: subscriptions acknowledged on each connection
    step,       \* per connector: where it is
    todo,       \* per connector: subscriptions it still has to request
    using,      \* per connector: the connection performSubscribe read
    attempt,    \* per connector: failed attempts of this episode
    pc,         \* per sentry: where it is
    on,         \* per sentry: the connection it read last
    stop        \* the caller of Stop: "no", "waiting" or "returned"

shared == <<state, conn, fresh, gate, done, cancelled>>
network == <<link, acked>>
connectors == <<step, todo, using, attempt>>
sentries == <<pc, on>>
vars == <<shared, network, connectors, sentries, stop>>

States == {"Disconnected", "Connecting", "Authenticating", "Subscribing", "Reconciling",
           "Ready", "Unhealthy", "Backoff", "SafeStopped"}
Dials == 1..MaxDials
Connectors == 0..MaxDials
Loops == Connectors \ {0}

Reader(i) == <<"reader", i>>
Heartbeat == <<"heartbeat", 0>>
Watchdog == <<"watchdog", 0>>
Readers == {Reader(i) : i \in Connectors}
Sentries == Readers \cup {Heartbeat, Watchdog}

\* On the way to Ready.  A connector that has got there still has to open the
\* gate: the state change callback runs in between.
Active(i) == step[i] \notin {"none", "opening", "returning", "finished"}
Blocked(a) == pc[a] = "blocked"

TypeOK ==
    /\ state \in States
    /\ conn \in 0..MaxDials
    /\ fresh \in BOOLEAN /\ gate \in BOOLEAN /\ done \in BOOLEAN
    /\ cancelled \subseteq Connectors
    /\ link \in [Dials -> {"none", "up", "silent", "broken", "closed"}]
    /\ acked \in [Dials -> SUBSET Subs]
    /\ step \in [Connectors -> {"none", "spawned", "waiting", "dialing", "auth",
                                "subscribing", "reconciling", "opening", "returning",
                                "finished"}]
    /\ todo \in [Connectors -> SUBSET Subs]
    /\ using \in [Connectors -> 0..MaxDials]
    /\ attempt \in [Connectors -> 0..MaxAttempts]
    /\ pc \in [Sentries -> {"none", "idle", "blocked", "lost", "losing", "exited"}]
    /\ on \in [Sentries -> 0..MaxDials]
    /\ stop \in {"no", "waiting", "returned"}

Init ==
    /\ state = "Disconnected" /\ conn = 0
    /\ fresh = FALSE /\ gate = FALSE /\ done = FALSE /\ cancelled = {}
    /\ link = [c \in Dials |-> "none"]
    /\ acked = [c \in Dials |-> {}]
    /\ step = [i \in Connectors |-> "none"]
    /\ todo = [i \in Connectors |-> {}]
    /\ using = [i \in Connectors |-> 0]
    /\ attempt = [i \in Connectors |-> 0]
    /\ pc = [a \in Sentries |-> "none"]
    /\ on = [a \in Sentries |-> 0]
    /\ stop = "no"

-----------------------------------------------------------------------------
\* Scheduling assumptions of the prompt runs.

\* Nobody is still inside a call on a closed connection, inside a message
\* handler, inside handleConnectionLoss or on the way from Ready to the open
\* gate: the shortest backoff (1 s) is enough for that.  The tickers are free
\* to fire anywhere.
Settled ==
    /\ \A i \in Connectors : step[i] # "opening"
    /\ \A a \in Sentries :
           /\ pc[a] \notin {"lost", "losing"}
           /\ a \in Readers => pc[a] # "idle"
           /\ Blocked(a) => link[on[a]] \in {"up", "silent"}
TimerMayFire == Prompt => Settled

\* Otherwise the handshake that Stop does not join leaves Disconnected again.
StopMayBeCalled == QuietStop => \A i \in Connectors : ~Active(i)

-----------------------------------------------------------------------------
\* The connection sequence, shared by connectSequence and attemptReconnect.

At(i, s) == step[i] = s
Goto(i, s) == step' = [step EXCEPT ![i] = s]
Context(i) == i \in cancelled

\* closeConn: whatever connection is the current one.
Closed == IF conn = 0 THEN link ELSE [link EXCEPT ![conn] = "closed"]

\* An attempt fails: Start gives up, a reconnect loop backs off.
Fail(i, next) ==
    /\ conn' = 0
    /\ link' = Closed
    /\ state' = next
    /\ attempt' = [attempt EXCEPT ![i] = IF i = 0 THEN 0 ELSE @ + 1]
    /\ Goto(i, IF i = 0 THEN "finished" ELSE "waiting")
    /\ UNCHANGED <<fresh, gate, done, cancelled, acked, todo, using, sentries, stop>>

\* Start: refused unless Disconnected; here it is called once.
Start ==
    /\ At(0, "none")
    /\ state = "Disconnected" /\ ~done
    /\ gate' = FALSE
    /\ state' = "Connecting"
    /\ Goto(0, "dialing")
    /\ UNCHANGED <<conn, fresh, done, cancelled, network, todo, using, attempt, sentries, stop>>

DialFails(i) ==
    /\ At(i, "dialing")
    /\ state' = "Backoff"
    /\ attempt' = [attempt EXCEPT ![i] = IF i = 0 THEN 0 ELSE @ + 1]
    /\ Goto(i, IF i = 0 THEN "finished" ELSE "waiting")
    /\ UNCHANGED <<conn, fresh, gate, done, cancelled, network, todo, using, sentries, stop>>

\* The dialled connection overwrites sm.conn.  Bound: MaxDials.
Dial(i) ==
    /\ At(i, "dialing")
    /\ ~Context(i)
    /\ \E c \in Dials :
          /\ link[c] = "none"
          /\ \A d \in Dials : d < c => link[d] # "none"
          /\ link' = [link EXCEPT ![c] = "up"]
          /\ conn' = c
    /\ state' = "Authenticating"
    /\ Goto(i, "auth")
    /\ UNCHANGED <<fresh, gate, done, cancelled, acked, todo, using, attempt, sentries, stop>>

\* performAuth on the current connection: the exact login acknowledgement.
Auth(i) ==
    /\ At(i, "auth")
    /\ conn # 0
    /\ link[conn] = "up"
    /\ fresh' = TRUE
    /\ state' = "Subscribing"
    /\ todo' = [todo EXCEPT ![i] = Subs]
    /\ using' = [using EXCEPT ![i] = conn]
    /\ Goto(i, "subscribing")
    /\ UNCHANGED <<conn, gate, done, cancelled, network, attempt, sentries, stop>>

\* Mutant: the first acknowledgement is taken for all of them.
AllAckedEarly(i, s) == TRUE

AllAcked(i, s) == todo[i] = {s}

\* waitForSubAck: the exact acknowledgement of one subscription; after the
\* last one the machine is Reconciling.
SubAck(i) ==
    /\ At(i, "subscribing")
    /\ using[i] # 0 /\ link[using[i]] = "up"
    /\ \E s \in todo[i] :
          /\ acked' = [acked EXCEPT ![using[i]] = @ \cup {s}]
          /\ todo' = [todo EXCEPT ![i] = @ \ {s}]
          /\ IF AllAcked(i, s)
               THEN /\ fresh' = TRUE
                    /\ state' = "Reconciling"
                    /\ Goto(i, "reconciling")
               ELSE UNCHANGED <<fresh, state, step>>
    /\ UNCHANGED <<conn, gate, done, cancelled, link, using, attempt, sentries, stop>>

\* Login or subscription is rejected, times out, or the connection is gone.
HandshakeFails(i) ==
    /\ step[i] \in {"auth", "subscribing"}
    /\ Fail(i, "Backoff")

\* performReconciliation succeeds: refresh liveness, Ready.
Reconcile(i) ==
    /\ At(i, "reconciling")
    /\ fresh' = TRUE
    /\ state' = "Ready"
    /\ Goto(i, "opening")
    /\ UNCHANGED <<conn, gate, done, cancelled, network, todo, using, attempt, sentries, stop>>

ReconcileFails(i) ==
    /\ At(i, "reconciling")
    /\ Fail(i, "SafeStopped")

\* openRiskGate, then the reader is spawned; Start also spawns the
\* heartbeat and the watchdog and returns.
OpenGate(i) ==
    /\ At(i, "opening")
    /\ gate' = TRUE
    /\ pc' = [a \in Sentries |->
                 IF a = Reader(i) \/ (i = 0 /\ a \in {Heartbeat, Watchdog})
                   THEN "idle" ELSE pc[a]]
    /\ Goto(i, IF i = 0 THEN "finished" ELSE "returning")
    /\ UNCHANGED <<state, conn, fresh, done, cancelled, network, todo, using, attempt, on, stop>>

\* attemptReconnect has returned: reconnectLoop cancels its context, which
\* is the context of the reader just spawned, and ends.
CancelAttempt(i) ==
    /\ At(i, "returning")
    /\ cancelled' = cancelled \cup {i}
    /\ Goto(i, "finished")
    /\ UNCHANGED <<state, conn, fresh, gate, done, network, todo, using, attempt, sentries, stop>>

-----------------------------------------------------------------------------
\* reconnectLoop i.

LoopStarts(i) ==
    /\ At(i, "spawned")
    /\ state' = "Backoff"
    /\ Goto(i, "waiting")
    /\ UNCHANGED <<conn, fresh, gate, done, cancelled, network, todo, using, attempt, sentries, stop>>

RetriesLeft(i) == attempt[i] < MaxAttempts

LoopQuits(i) ==
    /\ At(i, "waiting")
    /\ RetriesLeft(i)
    /\ done
    /\ Goto(i, "finished")
    /\ UNCHANGED <<shared, network, todo, using, attempt, sentries, stop>>

BackoffTimer(i) ==
    /\ At(i, "waiting")
    /\ RetriesLeft(i)
    /\ ~done
    /\ TimerMayFire
    /\ state' = "Connecting"
    /\ Goto(i, "dialing")
    /\ UNCHANGED <<conn, fresh, gate, done, cancelled, network, todo, using, attempt, sentries, stop>>

\* Mutant: nobody is told.
ExhaustedSilently(i) ==
    /\ At(i, "waiting")
    /\ ~RetriesLeft(i)
    /\ Goto(i, "finished")
    /\ UNCHANGED <<shared, network, todo, using, attempt, sentries, stop>>

\* The budget is used up; done is not looked at here.
Exhausted(i) ==
    /\ At(i, "waiting")
    /\ ~RetriesLeft(i)
    /\ state' = "SafeStopped"
    /\ Goto(i, "finished")
    /\ UNCHANGED <<conn, fresh, gate, done, cancelled, network, todo, using, attempt, sentries, stop>>

Connect(i) ==
    \/ Dial(i) \/ DialFails(i) \/ Auth(i) \/ SubAck(i) \/ HandshakeFails(i)
    \/ Reconcile(i) \/ ReconcileFails(i) \/ OpenGate(i)

ReconnectLoop(i) ==
    \/ LoopStarts(i) \/ LoopQuits(i) \/ BackoffTimer(i) \/ Exhausted(i)
    \/ Connect(i) \/ CancelAttempt(i)

-----------------------------------------------------------------------------
\* The sentries.

Move(a, s) == pc' = [pc EXCEPT ![a] = s]

\* The top of readLoop.
ReaderLooks(i) ==
    LET a == Reader(i) IN
    /\ pc[a] = "idle"
    /\ IF Context(i) \/ done \/ conn = 0
         THEN Move(a, "exited") /\ UNCHANGED on
         ELSE Move(a, "blocked") /\ on' = [on EXCEPT ![a] = conn]
    /\ UNCHANGED <<shared, network, connectors, stop>>

\* ReadMessage returns a message, which may be evidence of liveness.
ReaderGets(i) ==
    LET a == Reader(i) IN
    /\ Blocked(a)
    /\ link[on[a]] = "up"
    /\ Move(a, "idle")
    /\ \E evidence \in BOOLEAN : fresh' = (fresh \/ evidence)
    /\ UNCHANGED <<state, conn, gate, done, cancelled, network, connectors, on, stop>>

\* ReadMessage fails: silent once the context is cancelled or done is closed.
ReaderFails(i) ==
    LET a == Reader(i) IN
    /\ Blocked(a)
    /\ link[on[a]] \in {"broken", "closed"}
    /\ Move(a, IF Context(i) \/ done THEN "exited" ELSE "lost")
    /\ UNCHANGED <<shared, network, connectors, on, stop>>

\* A tick of heartbeatSendLoop: outside Ready it is skipped.
HeartbeatTick ==
    /\ pc[Heartbeat] = "idle" /\ ~done
    /\ state = "Ready" /\ conn # 0
    /\ Move(Heartbeat, "blocked")
    /\ on' = [on EXCEPT ![Heartbeat] = conn]
    /\ UNCHANGED <<shared, network, connectors, stop>>

\* The ping is written: a silent connection takes it.
HeartbeatWrites ==
    /\ Blocked(Heartbeat)
    /\ Move(Heartbeat, IF link[on[Heartbeat]] \in {"up", "silent"} THEN "idle" ELSE "lost")
    /\ UNCHANGED <<shared, network, connectors, on, stop>>

\* A tick of watchdogLoop that finds the liveness evidence too old.
WatchdogTick ==
    /\ pc[Watchdog] = "idle" /\ ~done
    /\ state = "Ready" /\ ~fresh
    /\ Move(Watchdog, "lost")
    /\ UNCHANGED <<shared, network, connectors, on, stop>>

\* The select of either ticker loop sees the context or done.
TickerExits(a) ==
    /\ a \in {Heartbeat, Watchdog}
    /\ pc[a] = "idle"
    /\ done
    /\ Move(a, "exited")
    /\ UNCHANGED <<shared, network, connectors, on, stop>>

\* Mutant: the loss is taken up whatever the state.
LossIsNewAlways == TRUE

LossIsNew == state \notin {"Unhealthy", "Backoff", "SafeStopped", "Disconnected"}

\* handleConnectionLoss, under the mutex.  Every sentry ends here.
\* Bound: no more losses than reconnect loops can be spawned.
MarkUnhealthy(a) ==
    /\ pc[a] = "lost"
    /\ IF LossIsNew
         THEN /\ \E i \in Loops : step[i] = "none"
              /\ state' = "Unhealthy"
              /\ Move(a, "losing")
         ELSE Move(a, "exited") /\ UNCHANGED state
    /\ UNCHANGED <<conn, fresh, gate, done, cancelled, network, connectors, on, stop>>

\* Mutant: the gate is not told.
GateAfterLossOpen == gate

GateAfterLoss == FALSE

\* handleConnectionLoss, after the mutex: gate, connection, new loop.
CloseAndReconnect(a) ==
    /\ pc[a] = "losing"
    /\ gate' = GateAfterLoss
    /\ link' = Closed
    /\ conn' = 0
    /\ \E i \in Loops :
          /\ step[i] = "none"
          /\ \A j \in Loops : j < i => step[j] # "none"
          /\ Goto(i, "spawned")
    /\ Move(a, "exited")
    /\ UNCHANGED <<state, fresh, done, cancelled, acked, todo, using, attempt, on, stop>>

SentryStep(a) ==
    \/ \E i \in Connectors :
          a = Reader(i) /\ (ReaderLooks(i) \/ ReaderFails(i))
    \/ a = Heartbeat /\ (HeartbeatTick \/ HeartbeatWrites)
    \/ a = Watchdog /\ WatchdogTick
    \/ TickerExits(a)
    \/ MarkUnhealthy(a)
    \/ CloseAndReconnect(a)

-----------------------------------------------------------------------------
\* Mutant: the connection is left to the garbage collector.
StopNoClose ==
    /\ stop = "no"
    /\ ~At(0, "none")
    /\ StopMayBeCalled
    /\ cancelled' = cancelled \cup {0}
    /\ done' = TRUE
    /\ conn' = 0
    /\ state' = "Disconnected"
    /\ stop' = "waiting"
    /\ UNCHANGED <<fresh, gate, network, connectors, sentries>>

\* Stop cancels, closes and waits for the sentries (not for a connector).
Stop ==
    /\ stop = "no"
    /\ ~At(0, "none")
    /\ StopMayBeCalled
    /\ cancelled' = cancelled \cup {0}
    /\ done' = TRUE
    /\ link' = Closed
    /\ conn' = 0
    /\ state' = "Disconnected"
    /\ stop' = "waiting"
    /\ UNCHANGED <<fresh, gate, acked, connectors, sentries>>

StopReturns ==
    /\ stop = "waiting"
    /\ \A a \in Sentries : pc[a] \in {"none", "exited"}
    /\ stop' = "returned"
    /\ UNCHANGED <<shared, network, connectors, sentries>>

-----------------------------------------------------------------------------
\* The environment.

\* The peer falls silent or the connection breaks.
LinkFails(c) ==
    /\ link[c] \in {"up", "silent"}
    /\ \E how \in {"silent", "broken"} :
          link[c] # how /\ link' = [link EXCEPT ![c] = how]
    /\ UNCHANGED <<shared, acked, connectors, sentries, stop>>

\* LivenessTimeout passes without evidence.
LivenessExpires ==
    /\ state = "Ready" /\ fresh
    /\ fresh' = FALSE
    /\ UNCHANGED <<state, conn, gate, done, cancelled, network, connectors, sentries, stop>>

Next ==
    \/ Start
    \/ \E i \in Connectors : Connect(i)
    \/ \E i \in Loops : ReconnectLoop(i)
    \/ \E a \in Sentries : SentryStep(a)
    \/ \E i \in Connectors : ReaderGets(i)
    \/ Stop
    \/ StopReturns
    \/ \E c \in Dials : LinkFails(c)
    \/ LivenessExpires

Safety == Init /\ [][Next]_vars

\* Every call on the way has a timeout, tickers tick, goroutines get to run,
\* and time passes.  Nobody has to call Stop, and no message has to come.
Fairness ==
    /\ WF_vars(Connect(0))
    /\ \A i \in Loops : WF_vars(ReconnectLoop(i))
    /\ \A a \in Sentries : WF_vars(SentryStep(a))
    /\ WF_vars(StopReturns)
    /\ WF_vars(LivenessExpires)

Spec == Safety /\ Fairness

-----------------------------------------------------------------------------
\* The gate is open outside Ready and no sentry is about to close it.
GateAstray == gate /\ ~done /\ state # "Ready" /\ \A a \in Sentries : pc[a] # "losing"

\* A loss that is marked between transition(Ready) and openRiskGate leaves the
\* gate astray.  There is no other way: nothing else opens the gate or leaves
\* Ready with the gate open.
OnlyALateOpenerStrays ==
    [][~GateAstray /\ GateAstray' =>
          \E i \in Connectors : At(i, "opening") /\ ~At(i, "opening")' /\ state # "Ready"]_vars

\* Several sentries may notice the same loss, but at most one goroutine is
\* connecting at any time (the state check of handleConnectionLoss).
OneReconnectLoop == Cardinality({i \in Connectors : Active(i)}) <= 1

\* Ready implies a current connection on which the exchange has acknowledged
\* every required subscription and which nobody has closed.
ReadyIsSubscribed ==
    state = "Ready" =>
        /\ conn # 0
        /\ acked[conn] = Subs
        /\ link[conn] # "closed"

\* A loss that was detected ends in a new Ready, in a safe stop or with Stop.
RecoveryTerminates ==
    (state = "Unhealthy") ~> (state \in {"Ready", "SafeStopped", "Disconnected"})

\* A caller of Stop gets the control back.
StopTerminates == (stop = "waiting") ~> (stop = "returned")

\* The state diagram of the design (design.md, "Private_WS Liveness and
\* Recovery State Machine").
Diagram ==
    {<<"Disconnected", "Connecting">>, <<"Connecting", "Authenticating">>,
     <<"Connecting", "Backoff">>, <<"Authenticating", "Subscribing">>,
     <<"Authenticating", "Backoff">>, <<"Subscribing", "Reconciling">>,
     <<"Subscribing", "Backoff">>, <<"Reconciling", "Ready">>,
     <<"Reconciling", "SafeStopped">>, <<"Ready", "Unhealthy">>,
     <<"Unhealthy", "Backoff">>, <<"Backoff", "Connecting">>,
     <<"Backoff", "SafeStopped">>, <<"Ready", "Disconnected">>,
     <<"SafeStopped", "Connecting">>, <<"SafeStopped", "Reconciling">>}

\* Every change of state before Stop is an arrow of the design's diagram.
FollowsDiagram ==
    [][state' # state /\ ~done' => <<state, state'>> \in Diagram]_vars

-----------------------------------------------------------------------------
\* What the design and the comments say and the code does not do: none of
\* these holds, and TLC shows why (README, section 6).

\* The gate is open only while the machine is Ready: a loss marked between
\* transition(Ready) and openRiskGate leaves it open.
GateMeansReady == ~GateAstray

\* private_ws_state_machine.go:917 "Restart read loop": whoever is Ready and
\* connected is eventually read from, or leaves Ready.
ReadyIsRead ==
    (state = "Ready" /\ gate) ~>
        (state # "Ready" \/ \E a \in Readers : Blocked(a) /\ on[a] = conn)

\* A separate watchdog checks the liveness age: a silent peer is noticed.
LossDetected ==
    (state = "Ready" /\ conn # 0 /\ link[conn] = "silent") ~>
        (state # "Ready" \/ conn = 0 \/ link[conn] # "silent")
=============================================================================
