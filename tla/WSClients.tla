------------------------------ MODULE WSClients ------------------------------
(***************************************************************************)
(* internal/marketdata/ws_client.go (market data) and ws_private.go        *)
(* (fills): the two clients main connects.  They share one design, so one  *)
(* module models both and the variable kind says which one runs; where     *)
(* they differ an action asks for it.                                      *)
(*                                                                         *)
(* Goroutines.  One reconnectLoop per client; a reader and a heartbeat for *)
(* every successful connection, numbered like the dial.  Both may notice   *)
(* a loss and run handleDisconnection, which marks the loss under the      *)
(* mutex and does the rest after releasing it.                             *)
(*                                                                         *)
(* Abstracted: what a message says (msgHandler and the fill callback take  *)
(* any time and leave the client alone), the clock (a heartbeat times out  *)
(* when nobody reads pongs any more, a backoff may end at any time), the   *)
(* sequence numbers, which production never updates, and the symbols: all  *)
(* of them become stale and fresh together.                                *)
(***************************************************************************)
EXTENDS Naturals

CONSTANTS
    Kinds,          \* subset of {"public", "private"}: the clients to model
    MaxDials,       \* bound on connections that are established
    MaxAttempts     \* MaxReconnectAttempts

ASSUME WSClientsAssumption ==
    /\ Kinds \subseteq {"public", "private"}
    /\ MaxDials \in Nat \ {0}
    /\ MaxAttempts \in Nat \ {0}

VARIABLES
    kind,       \* which client: never changes
    state,      \* ws.state; pw.connected is state = "Connected"
    conn,       \* ws.conn: the number of a dial, 0 for nil
    token,      \* an entry in reconnectCh, whose buffer holds one
    done,       \* the channel done is closed
    stale,      \* staleSymbols holds the subscribed symbols
    paused,     \* the order generation was told to pause
    dials,      \* number of connections established so far
    link,       \* external: what became of each connection
    pc,         \* where each reader and heartbeat is
    on,         \* the connection a reader blocks on
    mend,       \* where the reconnectLoop is
    attempt,    \* reconnectCount
    stopper,    \* where the caller of Disconnect is
    crashed     \* a method was called on a nil connection: the process died

client == <<state, conn, token, done, stale, paused>>
network == <<dials, link>>
threads == <<pc, on>>
loop == <<mend, attempt>>
vars == <<kind, client, network, threads, loop, stopper, crashed>>

Dials == 1..MaxDials
Reader(n) == <<"reader", n>>
Heartbeat(n) == <<"heartbeat", n>>
Readers == {Reader(n) : n \in Dials}
Heartbeats == {Heartbeat(n) : n \in Dials}
Threads == Readers \cup Heartbeats

TypeOK ==
    /\ kind \in Kinds
    /\ state \in {"Disconnected", "Connected", "Reconnecting"}
    /\ conn \in 0..MaxDials /\ dials \in 0..MaxDials /\ attempt \in 0..MaxAttempts
    /\ {token, done, stale, paused, crashed} \subseteq BOOLEAN
    /\ link \in [Dials -> {"none", "up", "mute", "broken", "bye", "closed"}]
    /\ pc \in [Threads -> {"none", "loop", "enter", "read", "handle",
                           "noticed", "marked", "queueing", "ended"}]
    /\ on \in [Dials -> 0..MaxDials]
    /\ mend \in {"none", "idle", "attempt", "dial", "hand", "tail", "ended"}
    /\ stopper \in {"no", "closing", "waiting", "returned"}

Init ==
    /\ kind \in Kinds
    /\ state = "Disconnected" /\ conn = 0
    /\ token = FALSE /\ done = FALSE /\ stale = FALSE /\ paused = FALSE
    /\ dials = 0 /\ link = [n \in Dials |-> "none"]
    /\ pc = [t \in Threads |-> "none"] /\ on = [n \in Dials |-> 0]
    /\ mend = "none" /\ attempt = 0
    /\ stopper = "no" /\ crashed = FALSE

-----------------------------------------------------------------------------
(* Helpers *)

Goto(t, where) == pc' = [pc EXCEPT ![t] = where]

\* connect: a dial that succeeds replaces conn.
Establish ==
    /\ dials < MaxDials
    /\ dials' = dials + 1
    /\ conn' = dials + 1
    /\ link' = [link EXCEPT ![dials + 1] = "up"]

\* closeConn: closes the connection that is current now, whoever dialled it.
CloseConn ==
    /\ conn' = 0
    /\ link' = [n \in Dials |-> IF n = conn THEN "closed" ELSE link[n]]

\* Mutant: the reader is not started again.
MutSpawn(n) == pc' = [pc EXCEPT ![Heartbeat(n)] = "loop"]

\* go readLoop(), go heartbeatLoop() for connection n.
Spawn(n) == pc' = [pc EXCEPT ![Reader(n)] = "loop", ![Heartbeat(n)] = "loop"]

\* Mutant: only a connection that breaks is given up.
MutPongsMissing == conn # 0 /\ link[conn] = "broken"

\* lastPong grows older than HeartbeatTimeout: the pong handler runs inside
\* ReadMessage, so somebody must be reading a connection that answers.
PongsMissing ==
    ~ \E n \in Dials : pc[Reader(n)] = "read" /\ on[n] = conn /\ link[on[n]] = "up"

-----------------------------------------------------------------------------
(* Connect: main calls it once; when it fails main gives up. *)

Connect ==
    /\ state = "Disconnected" /\ dials = 0
    /\ Establish
    /\ state' = "Connected"
    /\ stale' = FALSE
    /\ Spawn(1)
    /\ mend' = "idle"
    /\ UNCHANGED <<kind, token, done, paused, on, attempt, stopper, crashed>>

(***************************************************************************)
(* readLoop.  The conn # nil test and the ReadMessage call each read       *)
(* ws.conn, without a lock.                                                *)
(***************************************************************************)
ReaderEnters(n) ==
    /\ pc[Reader(n)] = "loop"
    /\ \/ done /\ Goto(Reader(n), "ended")
       \/ ~done /\ conn # 0 /\ Goto(Reader(n), "enter")
    /\ UNCHANGED <<kind, client, network, on, loop, stopper, crashed>>

ReaderReads(n) ==
    /\ pc[Reader(n)] = "enter"
    /\ IF conn = 0
       THEN crashed' = TRUE /\ UNCHANGED threads
       ELSE Goto(Reader(n), "read") /\ on' = [on EXCEPT ![n] = conn] /\ UNCHANGED crashed
    /\ UNCHANGED <<kind, client, network, loop, stopper>>

\* ReadMessage returns: a message, a normal close frame (the reader ends and
\* tells nobody), or an error (it reports, unless done is closed).
ReadReturns(n) ==
    /\ pc[Reader(n)] = "read"
    /\ \/ link[on[n]] = "up" /\ Goto(Reader(n), "handle")
       \/ link[on[n]] = "bye" /\ Goto(Reader(n), "ended")
       \/ link[on[n]] \in {"broken", "closed"} /\ Goto(Reader(n), IF done THEN "ended" ELSE "noticed")
    /\ UNCHANGED <<kind, client, network, on, loop, stopper, crashed>>

\* The message handler or the fill callback returns: it may have placed
\* orders, and taken long.
Handled(n) ==
    /\ pc[Reader(n)] = "handle"
    /\ Goto(Reader(n), "loop")
    /\ UNCHANGED <<kind, client, network, on, loop, stopper, crashed>>

ReaderStep(n) == ReaderEnters(n) \/ ReaderReads(n) \/ ReadReturns(n) \/ Handled(n)

(***************************************************************************)
(* heartbeatLoop: a tick finds the last pong too old (a ping that cannot   *)
(* be written is the same loss, noticed sooner).  It skips its turn while  *)
(* the client is not connected, so a heartbeat outlives every loss that    *)
(* somebody else noticed.                                                  *)
(***************************************************************************)
Tick(n) ==
    /\ pc[Heartbeat(n)] = "loop"
    /\ state = "Connected"
    /\ PongsMissing
    /\ Goto(Heartbeat(n), "noticed")
    /\ UNCHANGED <<kind, client, network, on, loop, stopper, crashed>>

HeartbeatEnds(n) ==
    /\ pc[Heartbeat(n)] = "loop" /\ done
    /\ Goto(Heartbeat(n), "ended")
    /\ UNCHANGED <<kind, client, network, on, loop, stopper, crashed>>

(***************************************************************************)
(* handleDisconnection, by a reader or a heartbeat.                        *)
(***************************************************************************)
MarkLoss(t) ==
    /\ pc[t] = "noticed"
    /\ IF state = "Connected"
       THEN state' = "Reconnecting" /\ Goto(t, "marked")
       ELSE Goto(t, "ended") /\ UNCHANGED state
    /\ UNCHANGED <<kind, conn, token, done, stale, paused, network, on, loop, stopper, crashed>>

\* markAllStale, PauseNewOrders and emitStaleEvent: the market data client only.
PauseOrders(t) ==
    /\ pc[t] = "marked"
    /\ Goto(t, "queueing")
    /\ IF kind = "public" THEN stale' = TRUE /\ paused' = TRUE ELSE UNCHANGED <<stale, paused>>
    /\ UNCHANGED <<kind, state, conn, token, done, network, on, loop, stopper, crashed>>

\* closeConn, then the send on reconnectCh that never blocks; the goroutine ends.
QueueReconnect(t) ==
    /\ pc[t] = "queueing"
    /\ CloseConn
    /\ token' = TRUE
    /\ Goto(t, "ended")
    /\ UNCHANGED <<kind, state, done, stale, paused, dials, on, loop, stopper, crashed>>

ReportStep(t) == MarkLoss(t) \/ PauseOrders(t) \/ QueueReconnect(t)

(***************************************************************************)
(* reconnectLoop and performReconnect.                                     *)
(***************************************************************************)
TakeToken ==
    /\ mend = "idle" /\ token
    /\ token' = FALSE
    /\ mend' = "attempt" /\ attempt' = 0
    /\ UNCHANGED <<kind, state, conn, done, stale, paused, network, threads, stopper, crashed>>

LoopEnds ==
    /\ mend = "idle" /\ done
    /\ mend' = "ended"
    /\ UNCHANGED <<kind, client, network, threads, attempt, stopper, crashed>>

\* Mutant: giving up leaves the state.
MutAttempt ==
    /\ mend = "attempt"
    /\ \/ (done \/ attempt = MaxAttempts) /\ mend' = "idle" /\ UNCHANGED attempt
       \/ ~done /\ attempt < MaxAttempts /\ mend' = "dial" /\ attempt' = attempt + 1
    /\ UNCHANGED <<kind, client, network, threads, stopper, crashed>>

\* The head of an attempt: Disconnect was called, the attempts are used up
\* (the market data client becomes Disconnected, the fill client simply stays
\* unconnected), or the backoff runs.
Attempt ==
    /\ mend = "attempt"
    /\ \/ done /\ mend' = "idle" /\ UNCHANGED <<attempt, state>>
       \/ ~done /\ attempt = MaxAttempts /\ mend' = "idle"
          /\ state' = "Disconnected" /\ UNCHANGED attempt
       \/ ~done /\ attempt < MaxAttempts /\ mend' = "dial"
          /\ attempt' = attempt + 1 /\ UNCHANGED state
    /\ UNCHANGED <<kind, conn, token, done, stale, paused, network, threads, stopper, crashed>>

\* The backoff ends; connect fails or establishes a connection.  The backoff
\* takes a second at least: a reader that has tested conn has made its call.
Dial ==
    /\ mend = "dial"
    /\ \A n \in Dials : pc[Reader(n)] # "enter"
    /\ \/ done /\ mend' = "idle" /\ UNCHANGED <<conn, network>>
       \/ mend' = "attempt" /\ UNCHANGED <<conn, network>>
       \/ mend' = "hand" /\ Establish
    /\ UNCHANGED <<kind, state, token, done, stale, paused, threads, attempt, stopper, crashed>>

\* authenticate (fill client) and subscribe.  A failure closes the connection.
HandshakeFails ==
    /\ mend = "hand"
    /\ CloseConn
    /\ mend' = "attempt"
    /\ UNCHANGED <<kind, state, token, done, stale, paused, dials, threads, attempt, stopper, crashed>>

HandshakeSucceeds ==
    /\ mend = "hand" /\ conn # 0 /\ link[conn] = "up"
    /\ state' = "Connected"
    /\ mend' = "tail"
    /\ UNCHANGED <<kind, conn, token, done, stale, paused, network, threads, attempt, stopper, crashed>>

\* The rest of onReconnectSuccess, after the state mutex is released: clear the
\* stale flags, resume the orders, start a reader and a heartbeat.
Resume ==
    /\ mend = "tail"
    /\ Spawn(dials)
    /\ IF kind = "public" THEN stale' = FALSE /\ paused' = FALSE ELSE UNCHANGED <<stale, paused>>
    /\ mend' = "idle"
    /\ UNCHANGED <<kind, state, conn, token, done, network, on, attempt, stopper, crashed>>

MendStep ==
    \/ TakeToken \/ Attempt \/ Dial \/ HandshakeFails \/ HandshakeSucceeds \/ Resume

(***************************************************************************)
(* Disconnect: main's shutdown.  It returns at once when the client is not *)
(* connected (fills) or Disconnected (market data).                        *)
(***************************************************************************)
Disconnect ==
    /\ dials > 0 /\ stopper = "no"
    /\ IF IF kind = "public" THEN state = "Disconnected" ELSE state # "Connected"
       THEN stopper' = "returned" /\ UNCHANGED done
       ELSE done' = TRUE /\ stopper' = "closing"
    /\ UNCHANGED <<kind, state, conn, token, stale, paused, network, threads, loop, crashed>>

\* Mutant: Disconnect waits without closing the connection.
MutStopCloses ==
    /\ stopper = "closing"
    /\ stopper' = "waiting"
    /\ UNCHANGED <<kind, client, network, threads, loop, crashed>>

StopCloses ==
    /\ stopper = "closing"
    /\ CloseConn
    /\ stopper' = "waiting"
    /\ UNCHANGED <<kind, state, token, done, stale, paused, dials, threads, loop, crashed>>

\* wg.Wait
StopReturns ==
    /\ stopper = "waiting"
    /\ mend = "ended" /\ \A t \in Threads : pc[t] \in {"none", "ended"}
    /\ state' = "Disconnected"
    /\ stopper' = "returned"
    /\ UNCHANGED <<kind, conn, token, done, stale, paused, network, threads, loop, crashed>>

-----------------------------------------------------------------------------
(* External: the exchange and the network. *)

\* The current connection goes mute (half open: no data, no error), breaks, or
\* the exchange closes it with a normal close frame.
LinkFails ==
    /\ conn # 0 /\ link[conn] = "up"
    /\ \E how \in {"mute", "broken", "bye"} : link' = [link EXCEPT ![conn] = how]
    /\ UNCHANGED <<kind, client, dials, threads, loop, stopper, crashed>>

Next ==
    /\ ~crashed
    /\ \/ Connect \/ LinkFails
       \/ \E n \in Dials : ReaderStep(n) \/ Tick(n) \/ HeartbeatEnds(n)
       \/ \E t \in Threads : ReportStep(t)
       \/ MendStep \/ LoopEnds
       \/ Disconnect \/ StopCloses \/ StopReturns

Spec == Init /\ [][Next]_vars

\* Goroutines are scheduled, ticks and timers come, calls to the exchange
\* return.  A reconnectLoop that finds both done and a token takes either, and a
\* heartbeat both done and a tick: only done is sure to be seen.  Nothing is
\* assumed of the peer, of main's calls or of the outcome of a dial.
Fairness ==
    /\ \A n \in Dials : /\ WF_vars(~crashed /\ ReaderStep(n))
                        /\ WF_vars(~crashed /\ Tick(n))
                        /\ WF_vars(~crashed /\ HeartbeatEnds(n))
    /\ \A t \in Threads : WF_vars(~crashed /\ ReportStep(t))
    /\ WF_vars(~crashed /\ MendStep) /\ WF_vars(~crashed /\ LoopEnds)
    /\ WF_vars(~crashed /\ StopCloses) /\ WF_vars(~crashed /\ StopReturns)

FairSpec == Spec /\ Fairness

-----------------------------------------------------------------------------
(* Properties *)

\* A client that reports Connected over a connection that works has a reader
\* for it, unless it is just being started (readLoop, handleDisconnection and
\* onReconnectSuccess): late reports about the connection before, orphaned
\* heartbeats and sleeping readers never leave a working connection unread.
ConnectedIsRead ==
    (state = "Connected" /\ mend # "tail" /\ ~done /\ conn # 0 /\ link[conn] = "up")
        => \E n \in Dials : \/ pc[Reader(n)] \in {"loop", "enter", "handle"}
                            \/ pc[Reader(n)] = "read" /\ on[n] = conn

\* A connection that no longer works is noticed, also when the reader ended
\* without a report (heartbeatLoop): the client does not stay Connected on it.
LossIsNoticed ==
    \A n \in Dials :
        (state = "Connected" /\ conn = n /\ link[n] # "up")
            ~> (crashed \/ ~(state = "Connected" /\ conn = n))

\* Every loss ends in a new connection or in giving up (performReconnect): no
\* token is lost between goroutines that report at the same time.
RecoveryEnds ==
    (state = "Reconnecting") ~> (crashed \/ state \in {"Connected", "Disconnected"})

\* Disconnect returns (wg.Wait): no reader, heartbeat or attempt outlives it.
DisconnectReturns == (stopper = "closing") ~> (crashed \/ stopper = "returned")

-----------------------------------------------------------------------------
\* What the comments say and the code does not do: this does not hold, and TLC
\* shows why (README, section 6).

\* While the market data client is down and the loss has been dealt with, the
\* orders are paused and the data is stale (handleDisconnection).
DownMeansPaused ==
    (kind = "public" /\ state = "Reconnecting"
        /\ \A t \in Threads : pc[t] \notin {"noticed", "marked"})
            => stale /\ paused
=============================================================================
