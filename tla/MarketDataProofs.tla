--------------------------- MODULE MarketDataProofs --------------------------
(***************************************************************************)
(* Proofs about the market data path: the clients that read from the       *)
(* exchange (WSClients), and the way of a fill through the dispatcher and  *)
(* the event loop (EventPipeline).                                         *)
(*                                                                         *)
(* The clients: until Disconnect a loss has one owner at a time (the       *)
(* goroutine that marked it, the token, the attempt), and the reader that  *)
(* was started for the latest connection attends to it.                    *)
(*                                                                         *)
(* The pipeline: what the event loop has heard of is older than the fill   *)
(* under way, and that is older than the fills that wait; what the event   *)
(* loop has heard of waits again, was handled or was dropped.              *)
(***************************************************************************)
EXTENDS WSClients, EventPipeline, FiniteSetTheorems, SequenceTheorems, TLAPS

-----------------------------------------------------------------------------
(* The clients. *)

Links == {"none", "up", "mute", "broken", "bye", "closed"}
Places == {"none", "loop", "enter", "read", "handle", "noticed", "marked", "queueing", "ended"}

\* A goroutine that has marked a loss and has not queued it yet.
Reporting(t) == pc[t] \in {"marked", "queueing"}
NobodyReports == \A t \in Threads : ~Reporting(t)

\* Nothing runs before Connect.
NotConnectedYet ==
    dials = 0 => pc = [t \in Threads |-> "none"] /\ ~token /\ mend = "none"

\* Only the latest connection is ever current.
LatestIsCurrent == conn \in {0, dials}

\* A Connected client has its latest connection, and no loss is under way.
ConnectedIsSettled ==
    state = "Connected" =>
        ~token /\ NobodyReports /\ mend \in {"idle", "tail"} /\ conn = dials /\ dials # 0

\* A loss has one owner at a time: the goroutine that marked it, then the
\* token, then the attempt.
OneLossAtATime ==
    /\ mend \in {"attempt", "dial", "hand"} => ~token /\ NobodyReports /\ state # "Connected"
    /\ token => NobodyReports
    /\ \A s, t \in Threads : Reporting(s) /\ Reporting(t) => s = t

\* The reader that was started for the latest connection attends to it.
Attended ==
    \/ pc[Reader(dials)] \in {"loop", "enter", "handle"}
    \/ pc[Reader(dials)] = "read" /\ on[dials] = dials
LatestIsAttended ==
    state = "Connected" /\ mend # "tail" /\ link[dials] = "up" => Attended

Recovery ==
    /\ NotConnectedYet /\ LatestIsCurrent
    /\ ConnectedIsSettled /\ OneLossAtATime /\ LatestIsAttended

\* Disconnect closes done before it closes the connection and waits.
StopOrder == stopper \in {"closing", "waiting"} => done

\* Once done is closed nobody has to read on.
ClientInv == TypeOK /\ StopOrder /\ (done \/ Recovery)

-----------------------------------------------------------------------------
\* The names of the goroutines.
LEMMA ThreadNames ==
    /\ \A n \in Dials : Reader(n) \in Threads /\ Heartbeat(n) \in Threads
    /\ \A m, n \in Dials : (Reader(m) = Reader(n) => m = n) /\ Reader(m) # Heartbeat(n)
    /\ \A t \in Threads : \E n \in Dials : t = Reader(n) \/ t = Heartbeat(n)
BY DEF Threads, Readers, Heartbeats, Reader, Heartbeat

\* The bounds are natural numbers.
LEMMA Numbers ==
    /\ MaxDials \in Nat \ {0} /\ MaxAttempts \in Nat \ {0}
    /\ \A n : n \in Dials <=> n \in 0..MaxDials /\ n # 0
BY WSClientsAssumption DEF WSClientsAssumption, Dials

\* Before Connect nothing runs and nothing is lost.
LEMMA ClientInit == Init => ClientInv
<1> SUFFICES ASSUME Init PROVE ClientInv
  OBVIOUS
<1>1. TypeOK
  <2>1. 0 \in 0..MaxDials /\ 0 \in 0..MaxAttempts
    BY Numbers
  <2>2. {token, done, stale, paused, crashed} \subseteq BOOLEAN
    BY DEF Init
  <2> QED
    BY <2>1, <2>2 DEF Init, TypeOK
<1>2. NobodyReports
  BY DEF Init, NobodyReports, Reporting
<1>3. Recovery
  BY <1>2 DEF Init, Recovery, NotConnectedYet, LatestIsCurrent, ConnectedIsSettled,
              OneLossAtATime, NobodyReports, LatestIsAttended
<1> QED
  BY <1>1, <1>3 DEF ClientInv, Init, StopOrder

\* A goroutine moves on to a place.
LEMMA GotoType ==
    ASSUME TypeOK, NEW t, NEW where \in Places, Goto(t, where)
    PROVE  pc' \in [Threads -> Places]
BY DEF Goto, TypeOK, Places

-----------------------------------------------------------------------------
\* The variables keep their types.
LEMMA TypeConnections ==
    ASSUME TypeOK, Connect \/ LinkFails \/ Disconnect \/ StopCloses \/ StopReturns
    PROVE  TypeOK'
<1>1. CASE Connect
  <2>1. dials' \in 0..MaxDials /\ conn' \in 0..MaxDials
    BY <1>1, Numbers DEF TypeOK, Connect, Establish
  <2>2. {token, done, stale, paused, crashed}' \subseteq BOOLEAN
    BY <1>1 DEF TypeOK, Connect
  <2>3. pc' \in [Threads -> Places]
    BY <1>1 DEF TypeOK, Connect, Spawn, Places
  <2> QED
    BY <1>1, <2>1, <2>2, <2>3 DEF TypeOK, Connect, Establish, Places
<1>2. CASE LinkFails
  BY <1>2, Numbers DEF TypeOK, LinkFails, client, threads, loop
<1>3. CASE Disconnect
  BY <1>3 DEF TypeOK, Disconnect, network, threads, loop
<1>4. CASE StopCloses
  BY <1>4, Numbers DEF TypeOK, StopCloses, CloseConn, threads, loop
<1>5. CASE StopReturns
  BY <1>5 DEF TypeOK, StopReturns, network, threads, loop
<1> QED BY <1>1, <1>2, <1>3, <1>4, <1>5

\* The steps of a reader.
LEMMA TypeReader ==
    ASSUME TypeOK, NEW n \in Dials, ReaderStep(n)
    PROVE  TypeOK'
<1>1. CASE ReaderEnters(n)
  BY <1>1, GotoType DEF TypeOK, Places, ReaderEnters, Goto, client, network, loop
<1>2. CASE ReaderReads(n)
  BY <1>2 DEF TypeOK, ReaderReads, Goto, client, network, loop, threads
<1>3. CASE ReadReturns(n)
  BY <1>3 DEF TypeOK, ReadReturns, Goto, client, network, loop
<1>4. CASE Handled(n)
  BY <1>4 DEF TypeOK, Handled, Goto, client, network, loop
<1> QED BY <1>1, <1>2, <1>3, <1>4 DEF ReaderStep

\* The steps of a heartbeat.
LEMMA TypeHeartbeat ==
    ASSUME TypeOK, NEW n \in Dials, Tick(n) \/ HeartbeatEnds(n)
    PROVE  TypeOK'
BY DEF TypeOK, Tick, HeartbeatEnds, Goto, client, network, loop

\* The steps of a report.
LEMMA TypeReport ==
    ASSUME TypeOK, NEW t \in Threads, ReportStep(t)
    PROVE  TypeOK'
<1>1. CASE MarkLoss(t)
  BY <1>1 DEF TypeOK, MarkLoss, Goto, network, loop
<1>2. CASE PauseOrders(t)
  BY <1>2 DEF TypeOK, PauseOrders, Goto, network, loop
<1>3. CASE QueueReconnect(t)
  BY <1>3, Numbers DEF TypeOK, QueueReconnect, CloseConn, Goto, loop
<1> QED BY <1>1, <1>2, <1>3 DEF ReportStep

\* The steps of the reconnectLoop.
LEMMA TypeMend ==
    ASSUME TypeOK, MendStep \/ LoopEnds
    PROVE  TypeOK'
<1>1. CASE TakeToken
  <2>1. attempt' \in 0..MaxAttempts
    BY <1>1, Numbers DEF TakeToken
  <2>2. {token, done, stale, paused, crashed}' \subseteq BOOLEAN
    BY <1>1 DEF TakeToken, TypeOK
  <2> QED
    BY <1>1, <2>1, <2>2 DEF TypeOK, TakeToken, network, threads
<1>2. CASE Attempt
  BY <1>2, Numbers DEF TypeOK, Attempt, network, threads
<1>3. CASE Dial
  BY <1>3, Numbers DEF TypeOK, Dial, Establish, network, threads
<1>4. CASE HandshakeFails
  BY <1>4, Numbers DEF TypeOK, HandshakeFails, CloseConn, threads
<1>5. CASE HandshakeSucceeds
  BY <1>5 DEF TypeOK, HandshakeSucceeds, network, threads
<1>6. CASE Resume
  BY <1>6 DEF TypeOK, Resume, Spawn, network
<1>7. CASE LoopEnds
  BY <1>7 DEF TypeOK, LoopEnds, client, network, threads
<1> QED BY <1>1, <1>2, <1>3, <1>4, <1>5, <1>6, <1>7 DEF MendStep

\* No step of the client breaks a type.
LEMMA ClientTypes == TypeOK /\ [Next]_vars => TypeOK'
<1> SUFFICES ASSUME TypeOK, [Next]_vars PROVE TypeOK'
  OBVIOUS
<1>1. CASE Next
  BY <1>1, TypeConnections, TypeReader, TypeHeartbeat, TypeReport, TypeMend DEF Next
<1>2. CASE UNCHANGED vars
  BY <1>2 DEF TypeOK, vars, client, network, threads, loop
<1> QED BY <1>1, <1>2

-----------------------------------------------------------------------------
(***************************************************************************)
(* Recovery.  What a step does to the goroutines is said by two facts:     *)
(* nobody starts to report, and the reader of the latest connection stays. *)
(***************************************************************************)
NoNewReport == \A t \in Threads : Reporting(t)' => Reporting(t)

\* Then there are no more reports under way than before.
LEMMA Reports ==
    ASSUME NoNewReport
    PROVE  /\ NobodyReports => NobodyReports'
           /\ (\A s, t \in Threads : Reporting(s) /\ Reporting(t) => s = t)
                 => (\A s, t \in Threads : Reporting(s)' /\ Reporting(t)' => s = t)
BY DEF NoNewReport, NobodyReports

\* A step of a goroutine that marks nothing, and nothing else.
LEMMA RecoveryGoto ==
    ASSUME TypeOK, Recovery, dials # 0, NoNewReport,
           state' = state, conn' = conn, token' = token, dials' = dials, link' = link, mend' = mend,
           state = "Connected" /\ link[dials] = "up" /\ Attended => Attended'
    PROVE  Recovery'
<1>1. NotConnectedYet' /\ LatestIsCurrent'
  BY DEF Recovery, NotConnectedYet, LatestIsCurrent
<1>2. ConnectedIsSettled' /\ OneLossAtATime'
  BY Reports DEF Recovery, ConnectedIsSettled, OneLossAtATime
<1>3. LatestIsAttended'
  BY DEF Recovery, LatestIsAttended
<1> QED
  BY <1>1, <1>2, <1>3 DEF Recovery

\* A goroutine that runs was started after Connect.
LEMMA Started ==
    ASSUME TypeOK, Recovery, NEW t \in Threads, pc[t] # "none"
    PROVE  dials # 0 /\ dials \in Dials
BY Numbers DEF TypeOK, Recovery, NotConnectedYet

\* A reader keeps the recovery going, and the latest one keeps reading.
LEMMA RecoveryReader ==
    ASSUME TypeOK, Recovery, ~done, NEW n \in Dials, ReaderStep(n)
    PROVE  Recovery'
<1>0. Reader(n) \in Threads /\ pc[Reader(n)] # "none"
  BY ThreadNames DEF ReaderStep, ReaderEnters, ReaderReads, ReadReturns, Handled
<1>1. dials # 0 /\ dials \in Dials /\ Reader(dials) \in Threads
  BY <1>0, Started, ThreadNames
<1>2. n # dials => Reader(n) # Reader(dials)
  BY <1>1, ThreadNames
<1>3. CASE crashed' = TRUE /\ UNCHANGED threads /\ UNCHANGED <<client, network, loop>>
  <2>1. NoNewReport /\ (Attended => Attended')
    BY <1>3 DEF NoNewReport, Reporting, Attended, threads, network
  <2> QED
    BY <1>1, <1>3, <2>1, RecoveryGoto DEF client, network, loop
<1>4. CASE ReaderEnters(n)
  <2>1. NoNewReport
    BY <1>4, <1>0 DEF NoNewReport, Reporting, ReaderEnters, Goto, TypeOK
  <2>2. Attended => Attended'
    BY <1>4, <1>0, <1>1, <1>2 DEF Attended, ReaderEnters, Goto, TypeOK, network
  <2> QED
    BY <1>1, <1>4, <2>1, <2>2, RecoveryGoto DEF ReaderEnters, client, network, loop
<1>5. CASE ReaderReads(n) /\ conn # 0
  <2>1. NoNewReport
    BY <1>5, <1>0 DEF NoNewReport, Reporting, ReaderReads, Goto, TypeOK
  <2>2. conn = dials
    BY <1>5 DEF Recovery, LatestIsCurrent
  <2>3. Attended => Attended'
    BY <1>5, <1>0, <1>1, <1>2, <2>2 DEF Attended, ReaderReads, Goto, TypeOK, network
  <2> QED
    BY <1>1, <1>5, <2>1, <2>3, RecoveryGoto DEF ReaderReads, client, network, loop
<1>6. CASE ReadReturns(n)
  <2>1. NoNewReport
    BY <1>6, <1>0 DEF NoNewReport, Reporting, ReadReturns, Goto, TypeOK
  <2>2. link[dials] = "up" /\ Attended => Attended'
    BY <1>6, <1>0, <1>1, <1>2 DEF Attended, ReadReturns, Goto, TypeOK, network
  <2> QED
    BY <1>1, <1>6, <2>1, <2>2, RecoveryGoto DEF ReadReturns, client, network, loop
<1>7. CASE Handled(n)
  <2>1. NoNewReport
    BY <1>7, <1>0 DEF NoNewReport, Reporting, Handled, Goto, TypeOK
  <2>2. Attended => Attended'
    BY <1>7, <1>0, <1>1, <1>2 DEF Attended, Handled, Goto, TypeOK, network
  <2> QED
    BY <1>1, <1>7, <2>1, <2>2, RecoveryGoto DEF Handled, client, network, loop
<1>8. ReaderReads(n) /\ conn = 0 => crashed' = TRUE /\ UNCHANGED threads /\ UNCHANGED <<client, network, loop>>
  BY DEF ReaderReads
<1> QED BY <1>3, <1>4, <1>5, <1>6, <1>7, <1>8 DEF ReaderStep

\* A heartbeat that misses the pongs leaves the reader alone.
LEMMA RecoveryHeartbeat ==
    ASSUME TypeOK, Recovery, ~done, NEW n \in Dials, Tick(n) \/ HeartbeatEnds(n)
    PROVE  Recovery'
<1>1. Heartbeat(n) \in Threads /\ dials # 0 /\ dials \in Dials
  <2>1. Heartbeat(n) \in Threads /\ pc[Heartbeat(n)] # "none"
    BY ThreadNames DEF Tick, HeartbeatEnds
  <2> QED
    BY <2>1, Started
<1>2. Reader(dials) \in Threads /\ Reader(dials) # Heartbeat(n)
  BY <1>1, ThreadNames DEF Reader, Heartbeat
<1>3. Tick(n)
  BY DEF HeartbeatEnds
<1>4. NoNewReport
  BY <1>1, <1>3 DEF NoNewReport, Reporting, Tick, Goto, TypeOK
<1>5. Attended => Attended'
  BY <1>1, <1>2, <1>3 DEF Attended, Tick, Goto, TypeOK, network
<1> QED
  BY <1>1, <1>3, <1>4, <1>5, RecoveryGoto DEF Tick, client, network, loop

\* A report passes the loss on: from the connection to a goroutine that marks
\* it, and from there to the token.
LEMMA RecoveryReport ==
    ASSUME TypeOK, Recovery, ~done, NEW t \in Threads, ReportStep(t)
    PROVE  Recovery'
<1>0. pc[t] \notin {"none", "loop", "enter", "read", "handle"}
  BY DEF ReportStep, MarkLoss, PauseOrders, QueueReconnect
<1>1. dials # 0 /\ dials \in Dials /\ Reader(dials) \in Threads
  BY <1>0, Started, ThreadNames
<1>2. Attended => t # Reader(dials)
  BY <1>0 DEF Attended
<1>3. CASE MarkLoss(t) /\ state = "Connected"
  <2>1. state' = "Reconnecting" /\ token' = token /\ conn' = conn /\ dials' = dials /\ mend' = mend
    BY <1>3 DEF MarkLoss, network, loop
  <2>2. ~token /\ NobodyReports /\ mend \in {"idle", "tail"}
    BY <1>3 DEF Recovery, ConnectedIsSettled
  <2>3. \A s \in Threads : Reporting(s)' => s = t
    BY <1>3, <2>2 DEF NobodyReports, Reporting, MarkLoss, Goto, TypeOK
  <2>4. OneLossAtATime'
    BY <2>1, <2>2, <2>3 DEF OneLossAtATime
  <2>5. NotConnectedYet' /\ LatestIsCurrent' /\ ConnectedIsSettled' /\ LatestIsAttended'
    BY <1>1, <2>1 DEF Recovery, NotConnectedYet, LatestIsCurrent, ConnectedIsSettled, LatestIsAttended
  <2> QED
    BY <2>4, <2>5 DEF Recovery
<1>4. CASE MarkLoss(t) /\ state # "Connected"
  <2>1. NoNewReport
    BY <1>4 DEF NoNewReport, Reporting, MarkLoss, Goto, TypeOK
  <2> QED
    BY <1>1, <1>4, <2>1, RecoveryGoto DEF MarkLoss, network, loop
<1>5. CASE PauseOrders(t)
  <2>1. NoNewReport
    BY <1>5 DEF NoNewReport, Reporting, PauseOrders, Goto, TypeOK
  <2>2. Attended => Attended'
    BY <1>1, <1>2, <1>5 DEF Attended, PauseOrders, Goto, TypeOK, network
  <2> QED
    BY <1>1, <1>5, <2>1, <2>2, RecoveryGoto DEF PauseOrders, network, loop
<1>6. CASE QueueReconnect(t)
  <2>1. Reporting(t) /\ state # "Connected" /\ mend \notin {"attempt", "dial", "hand"}
    BY <1>6 DEF QueueReconnect, Reporting, Recovery, ConnectedIsSettled, OneLossAtATime, NobodyReports
  <2>2. state' = state /\ mend' = mend /\ dials' = dials /\ conn' = 0
    BY <1>6 DEF QueueReconnect, CloseConn, loop
  <2>3. NobodyReports'
    BY <1>6, <2>1 DEF QueueReconnect, Goto, TypeOK, Recovery, OneLossAtATime, NobodyReports, Reporting
  <2>4. OneLossAtATime'
    BY <2>1, <2>2, <2>3 DEF OneLossAtATime, NobodyReports
  <2>5. NotConnectedYet' /\ LatestIsCurrent' /\ ConnectedIsSettled' /\ LatestIsAttended'
    BY <1>1, <2>1, <2>2 DEF NotConnectedYet, LatestIsCurrent, ConnectedIsSettled, LatestIsAttended
  <2> QED
    BY <2>4, <2>5 DEF Recovery
<1> QED BY <1>3, <1>4, <1>5, <1>6 DEF ReportStep

\* The reconnectLoop passes the loss on from the token to an attempt, and ends
\* it with a connection that has a new reader.
LEMMA RecoveryMend ==
    ASSUME TypeOK, Recovery, ~done, MendStep
    PROVE  Recovery'
<1>1. mend # "none" /\ dials # 0 /\ dials \in Dials
  <2>1. mend # "none"
    BY DEF MendStep, TakeToken, Attempt, Dial, HandshakeFails, HandshakeSucceeds, Resume
  <2> QED
    BY <2>1, Numbers DEF TypeOK, Recovery, NotConnectedYet
<1>2. CASE TakeToken
  <2>1. NobodyReports /\ state # "Connected"
    BY <1>2 DEF TakeToken, Recovery, OneLossAtATime, ConnectedIsSettled
  <2>2. NobodyReports'
    BY <1>2, <2>1 DEF TakeToken, threads, NobodyReports, Reporting
  <2> QED
    BY <1>1, <1>2, <2>1, <2>2
       DEF TakeToken, network, Recovery, NotConnectedYet, LatestIsCurrent, ConnectedIsSettled,
           OneLossAtATime, LatestIsAttended, NobodyReports
<1>3. CASE Attempt
  <2>1. NobodyReports /\ state # "Connected" /\ ~token
    BY <1>3 DEF Attempt, Recovery, OneLossAtATime
  <2>2. NobodyReports' /\ state' # "Connected" /\ token' = token
    BY <1>3, <2>1 DEF Attempt, threads, NobodyReports, Reporting
  <2> QED
    BY <1>1, <1>3, <2>1, <2>2
       DEF Attempt, network, Recovery, NotConnectedYet, LatestIsCurrent, ConnectedIsSettled,
           OneLossAtATime, LatestIsAttended, NobodyReports
<1>4. CASE Dial
  <2>1. NobodyReports /\ state # "Connected" /\ ~token
    BY <1>4 DEF Dial, Recovery, OneLossAtATime
  <2>2. NobodyReports' /\ state' = state /\ token' = token
    BY <1>4, <2>1 DEF Dial, threads, NobodyReports, Reporting
  <2>3. dials' # 0 /\ LatestIsCurrent'
    BY <1>1, <1>4, Numbers DEF Dial, Establish, network, Recovery, LatestIsCurrent
  <2> QED
    BY <2>1, <2>2, <2>3
       DEF Recovery, NotConnectedYet, ConnectedIsSettled, OneLossAtATime, LatestIsAttended, NobodyReports
<1>5. CASE HandshakeFails
  <2>1. NobodyReports /\ state # "Connected" /\ ~token
    BY <1>5 DEF HandshakeFails, Recovery, OneLossAtATime
  <2>2. NobodyReports' /\ state' = state /\ token' = token /\ conn' = 0 /\ dials' = dials
    BY <1>5, <2>1 DEF HandshakeFails, CloseConn, threads, NobodyReports, Reporting
  <2> QED
    BY <1>1, <2>1, <2>2
       DEF Recovery, NotConnectedYet, LatestIsCurrent, ConnectedIsSettled, OneLossAtATime,
           LatestIsAttended, NobodyReports
<1>6. CASE HandshakeSucceeds
  <2>1. NobodyReports /\ ~token /\ conn = dials
    BY <1>6 DEF HandshakeSucceeds, Recovery, OneLossAtATime, LatestIsCurrent
  <2>2. NobodyReports' /\ token' = token /\ conn' = conn /\ dials' = dials /\ mend' = "tail"
    BY <1>6, <2>1 DEF HandshakeSucceeds, threads, network, NobodyReports, Reporting
  <2> QED
    BY <1>1, <2>1, <2>2
       DEF Recovery, NotConnectedYet, LatestIsCurrent, ConnectedIsSettled, OneLossAtATime,
           LatestIsAttended, NobodyReports
<1>7. CASE Resume
  <2>1. Reader(dials) \in Threads /\ Heartbeat(dials) \in Threads /\ Reader(dials) # Heartbeat(dials)
    BY <1>1, ThreadNames DEF Reader, Heartbeat
  <2>2. NoNewReport /\ pc'[Reader(dials)] = "loop"
    BY <1>7, <2>1 DEF Resume, Spawn, NoNewReport, Reporting, TypeOK
  <2>3. state' = state /\ conn' = conn /\ token' = token /\ dials' = dials /\ link' = link /\ mend' = "idle"
    BY <1>7 DEF Resume, network
  <2>4. Attended'
    BY <2>2, <2>3 DEF Attended
  <2>5. mend = "tail"
    BY <1>7 DEF Resume
  <2>6. ConnectedIsSettled' /\ OneLossAtATime'
    BY <2>2, <2>3, <2>5, Reports DEF Recovery, ConnectedIsSettled, OneLossAtATime
  <2> QED
    BY <1>1, <2>3, <2>4, <2>6 DEF Recovery, NotConnectedYet, LatestIsCurrent, LatestIsAttended
<1> QED BY <1>2, <1>3, <1>4, <1>5, <1>6, <1>7 DEF MendStep

\* The steps of main and of the network.
LEMMA RecoveryConnections ==
    ASSUME TypeOK, Recovery, ~done, Connect \/ LinkFails \/ Disconnect
    PROVE  Recovery' \/ done'
<1>1. CASE Connect
  <2>1. 1 \in Dials /\ dials' = 1 /\ conn' = 1 /\ token' = token /\ mend' = "idle"
    BY <1>1, Numbers DEF Connect, Establish
  <2>2. pc = [t \in Threads |-> "none"] /\ ~token
    BY <1>1 DEF Connect, Recovery, NotConnectedYet
  <2>3. Reader(1) \in Threads /\ Heartbeat(1) \in Threads /\ Reader(1) # Heartbeat(1)
    BY <2>1, ThreadNames DEF Reader, Heartbeat
  <2>4. NobodyReports' /\ pc'[Reader(1)] = "loop"
    BY <1>1, <2>2, <2>3 DEF Connect, Spawn, NobodyReports, Reporting
  <2> QED
    BY <2>1, <2>2, <2>4
       DEF Recovery, NotConnectedYet, LatestIsCurrent, ConnectedIsSettled, OneLossAtATime,
           LatestIsAttended, NobodyReports, Attended
<1>2. CASE LinkFails
  <2>1. conn = dials /\ conn \in Dials /\ link'[conn] # "up"
    BY <1>2, Numbers DEF LinkFails, Recovery, LatestIsCurrent, TypeOK
  <2>2. NoNewReport /\ dials' = dials /\ mend' = mend /\ UNCHANGED client
    BY <1>2 DEF LinkFails, threads, loop, NoNewReport, Reporting
  <2>3. NotConnectedYet' /\ LatestIsCurrent' /\ LatestIsAttended'
    BY <2>1, <2>2, Numbers DEF client, Recovery, NotConnectedYet, LatestIsCurrent, LatestIsAttended
  <2>4. ConnectedIsSettled' /\ OneLossAtATime'
    BY <2>2, Reports DEF client, Recovery, ConnectedIsSettled, OneLossAtATime
  <2> QED
    BY <2>3, <2>4 DEF Recovery
<1>3. CASE Disconnect
  <2>1. ~done' => UNCHANGED <<state, conn, token>> /\ dials' = dials /\ link' = link /\ mend' = mend
                  /\ pc' = pc /\ on' = on
    BY <1>3 DEF Disconnect, network, threads, loop
  <2>2. ~done' => NoNewReport /\ (Attended => Attended')
    BY <2>1 DEF NoNewReport, Reporting, Attended
  <2>3. dials # 0
    BY <1>3, Numbers DEF Disconnect, TypeOK
  <2> QED
    BY <2>1, <2>2, <2>3, RecoveryGoto
<1> QED BY <1>1, <1>2, <1>3

\* A closed channel stays closed.
LEMMA DoneStays == done /\ [Next]_vars => done'
BY DEF Next, vars, client, Connect, LinkFails, ReaderStep, ReaderEnters, ReaderReads, ReadReturns,
       Handled, Tick, HeartbeatEnds, ReportStep, MarkLoss, PauseOrders, QueueReconnect, MendStep,
       TakeToken, Attempt, Dial, HandshakeFails, HandshakeSucceeds, Resume, LoopEnds, Disconnect,
       StopCloses, StopReturns

\* The caller of Disconnect goes one way.
LEMMA StopOrderNext == StopOrder /\ [Next]_vars => StopOrder'
<1> SUFFICES ASSUME StopOrder, [Next]_vars PROVE StopOrder'
  OBVIOUS
<1>1. CASE Disconnect
  BY <1>1 DEF Disconnect, StopOrder
<1>2. CASE StopCloses \/ StopReturns
  BY <1>2, DoneStays DEF StopCloses, StopReturns, StopOrder
<1>3. CASE stopper' = stopper
  BY <1>3, DoneStays DEF StopOrder
<1>4. Disconnect \/ StopCloses \/ StopReturns \/ stopper' = stopper
  BY DEF Next, vars, Connect, LinkFails, ReaderStep, ReaderEnters, ReaderReads, ReadReturns,
         Handled, Tick, HeartbeatEnds, ReportStep, MarkLoss, PauseOrders, QueueReconnect, MendStep,
         TakeToken, Attempt, Dial, HandshakeFails, HandshakeSucceeds, Resume, LoopEnds
<1> QED BY <1>1, <1>2, <1>3, <1>4

\* No step loses a loss.
LEMMA RecoveryNext ==
    ASSUME TypeOK, StopOrder, Recovery, ~done, [Next]_vars
    PROVE  Recovery' \/ done'
<1>1. ASSUME NEW n \in Dials, ReaderStep(n) \/ Tick(n) \/ HeartbeatEnds(n)
      PROVE  Recovery'
  BY <1>1, RecoveryReader, RecoveryHeartbeat
<1>2. ASSUME NEW t \in Threads, ReportStep(t)
      PROVE  Recovery'
  BY <1>2, RecoveryReport
<1>3. CASE MendStep
  BY <1>3, RecoveryMend
<1>4. CASE LoopEnds \/ StopCloses \/ StopReturns
  BY <1>4 DEF LoopEnds, StopCloses, StopReturns, StopOrder
<1>5. CASE Connect \/ LinkFails \/ Disconnect
  BY <1>5, RecoveryConnections
<1>6. CASE UNCHANGED vars
  BY <1>6 DEF vars, client, network, threads, loop, Recovery, NotConnectedYet, LatestIsCurrent,
              ConnectedIsSettled, OneLossAtATime, LatestIsAttended, NobodyReports, Reporting, Attended
<1> QED BY <1>1, <1>2, <1>3, <1>4, <1>5, <1>6 DEF Next

\* The invariant of the clients.
LEMMA ClientInvariant == Spec => []ClientInv
<1>1. ClientInv /\ [Next]_vars => ClientInv'
  BY ClientTypes, StopOrderNext, RecoveryNext, DoneStays DEF ClientInv
<1> QED
  BY ClientInit, <1>1, PTL DEF Spec

\* The client's variables keep their types, for any number of connections and
\* attempts.
THEOREM ClientTypeCorrect == Spec => []TypeOK
<1>1. ClientInv => TypeOK
  BY DEF ClientInv
<1> QED
  BY <1>1, ClientInvariant, PTL

\* Until Disconnect a loss has one owner at a time, however many goroutines
\* notice it and however late they report (handleDisconnection, reconnectCh):
\* no second attempt is started and no token is left over from an old loss.
THEOREM LossesHaveOneOwner == Spec => [](done \/ OneLossAtATime)
<1>1. ClientInv => done \/ OneLossAtATime
  BY DEF ClientInv, Recovery
<1> QED
  BY <1>1, ClientInvariant, PTL

\* A client that reports Connected over a connection that works has a reader
\* for it (readLoop, handleDisconnection, onReconnectSuccess), whatever late
\* reports, orphaned heartbeats and sleeping readers there are.
THEOREM WorkingConnectionsAreRead == Spec => []ConnectedIsRead
<1>1. ClientInv => ConnectedIsRead
  <2> SUFFICES ASSUME ClientInv, state = "Connected", mend # "tail", ~done, conn # 0, link[conn] = "up"
               PROVE  \E n \in Dials : \/ pc[Reader(n)] \in {"loop", "enter", "handle"}
                                       \/ pc[Reader(n)] = "read" /\ on[n] = conn
    BY DEF ConnectedIsRead
  <2>1. conn = dials /\ dials \in Dials
    BY Numbers DEF ClientInv, Recovery, ConnectedIsSettled, TypeOK
  <2>2. Attended
    BY <2>1 DEF ClientInv, Recovery, LatestIsAttended
  <2> QED
    BY <2>1, <2>2 DEF Attended
<1> QED
  BY <1>1, ClientInvariant, PTL

-----------------------------------------------------------------------------
(* The pipeline. *)

Calls == [fill : 0..MaxFills, view : Seq(Handlers \cup {Free}), shared : BOOLEAN,
          count : Nat, next : Nat]

In(s) == {s[i] : i \in DOMAIN s}
\* Smaller, or the same if it is one of M, the fills there may be twice.
Less(f, g, M) == f < g \/ (f = g /\ f \in M)
Increasing(s, M) == \A i, j \in DOMAIN s : i < j => Less(s[i], s[j], M)
AllBelow(s, f, M) == \A i \in DOMAIN s : Less(s[i], f, M)
Below(s, t, M) == \A i \in DOMAIN s, j \in DOMAIN t : Less(s[i], t[j], M)

\* The fills that were let in.
Admitted == (1..produced) \ refused

\* What the delivery under way reads at an index.
Slot(i) == IF call.shared THEN array[i] ELSE call.view[i]

\* Nobody is registered twice.
RegisteredOnce == \A i, j \in 1..size : array[i] = array[j] => i = j

\* A delivery has a fixed list of different handlers before it, unless one was
\* unregistered under it.
ViewIsFixed ==
    call # NoCall /\ call.fill \notin moved =>
        /\ call.count <= (IF call.shared THEN size ELSE Len(call.view))
        /\ \A i, j \in 1..call.count : Slot(i) = Slot(j) => i = j

\* Fills wait in the order they were produced.
QueueInOrder ==
    /\ refused \subseteq 1..produced
    /\ Increasing(queue, {})
    /\ \A i \in DOMAIN queue : queue[i] \in Admitted

\* The fill under way is younger than those the event loop has heard of, or
\* the event loop has just been called with it.
CallInOrder ==
    call # NoCall =>
        /\ call.fill \in Admitted /\ call.next \in 1..(call.count + 1)
        /\ \A i \in DOMAIN queue : call.fill < queue[i]
        /\ \A i \in DOMAIN heard[Loop] :
              \/ heard[Loop][i] < call.fill
              \/ heard[Loop][i] = call.fill /\ (call.fill \in moved \/ \E j \in 1..(call.next - 1) : Slot(j) = Loop)

HeardInOrder ==
    /\ Increasing(heard[Loop], moved)
    /\ \A i \in DOMAIN heard[Loop] : heard[Loop][i] \in Admitted
    /\ Below(heard[Loop], queue, {})

\* What the event loop has heard of waits, was handled or was dropped.
LoopInOrder ==
    /\ Increasing(inbox, moved) /\ Increasing(handled, moved) /\ Below(handled, inbox, moved)
    /\ In(heard[Loop]) = In(inbox) \cup In(handled) \cup dropped
    /\ dropped \cap (In(inbox) \cup In(handled)) \subseteq moved

InOrder == QueueInOrder /\ CallInOrder /\ HeardInOrder /\ LoopInOrder

PipelineInv == PipelineTypeOK /\ call \in Calls /\ RegisteredOnce /\ ViewIsFixed /\ InOrder

-----------------------------------------------------------------------------
\* Sequences of numbers.
LEMMA InAppend ==
    ASSUME NEW s \in Seq(Nat), NEW f \in Nat, NEW M
    PROVE  /\ Append(s, f) \in Seq(Nat)
           /\ In(Append(s, f)) = In(s) \cup {f}
           /\ \A i \in DOMAIN Append(s, f) : (i \in DOMAIN s /\ Append(s, f)[i] = s[i]) \/ (i = Len(s) + 1 /\ Append(s, f)[i] = f)
           /\ Increasing(s, M) /\ AllBelow(s, f, M) => Increasing(Append(s, f), M)
<1> DEFINE t == Append(s, f)
<1>1. t \in Seq(Nat) /\ DOMAIN t = 1..(Len(s) + 1) /\ DOMAIN s = 1..Len(s) /\ Len(s) \in Nat
  OBVIOUS
<1>2. \A i \in DOMAIN t : (i \in DOMAIN s /\ t[i] = s[i]) \/ (i = Len(s) + 1 /\ t[i] = f)
  OBVIOUS
<1>3. t[Len(s) + 1] = f /\ \A i \in DOMAIN s : i \in DOMAIN t /\ t[i] = s[i]
  OBVIOUS
<1>6. \A i \in DOMAIN s : i < Len(s) + 1 /\ i \in Nat
  BY <1>1
<1> HIDE DEF t
<1>4. In(t) = In(s) \cup {f}
  BY <1>1, <1>2, <1>3 DEF In
<1>5. ASSUME Increasing(s, M), AllBelow(s, f, M), NEW i \in DOMAIN t, NEW j \in DOMAIN t, i < j
      PROVE  Less(t[i], t[j], M)
  <2>1. i \in DOMAIN s /\ t[i] = s[i]
    BY <1>1, <1>2, <1>5
  <2>2. CASE j \in DOMAIN s /\ t[j] = s[j]
    BY <1>5, <2>1, <2>2 DEF Increasing
  <2>3. CASE t[j] = f
    BY <1>5, <2>1, <2>3 DEF AllBelow
  <2> QED BY <1>2, <2>2, <2>3
<1>7. Increasing(s, M) /\ AllBelow(s, f, M) => Increasing(t, M)
  BY <1>5 DEF Increasing
<1> QED BY <1>1, <1>2, <1>4, <1>7 DEF t

LEMMA InTail ==
    ASSUME NEW s \in Seq(Nat), s # <<>>, NEW M
    PROVE  /\ Tail(s) \in Seq(Nat) /\ Head(s) \in Nat
           /\ 1 \in DOMAIN s /\ Head(s) = s[1]
           /\ \A i \in DOMAIN Tail(s) : i + 1 \in DOMAIN s /\ Tail(s)[i] = s[i + 1]
           /\ In(s) = In(Tail(s)) \cup {Head(s)}
           /\ Increasing(s, M) => Increasing(Tail(s), M) /\ \A i \in DOMAIN Tail(s) : Less(Head(s), Tail(s)[i], M)
<1> DEFINE t == Tail(s)
<1>1. t \in Seq(Nat) /\ Len(s) \in Nat /\ Len(s) >= 1 /\ DOMAIN s = 1..Len(s) /\ DOMAIN t = 1..(Len(s) - 1)
  BY EmptySeq
<1>2. \A i \in DOMAIN t : t[i] = s[i + 1]
  BY <1>1
<1>3. Head(s) = s[1] /\ Head(s) \in Nat
  BY <1>1
<1> HIDE DEF t
<1>4. \A i \in DOMAIN t : i + 1 \in DOMAIN s
  BY <1>1
<1>5. In(s) = In(t) \cup {Head(s)}
  <2>1. \A j \in DOMAIN s : j = 1 \/ (j - 1 \in DOMAIN t /\ t[j - 1] = s[j])
    <3> TAKE j \in DOMAIN s
    <3>1. j \in 1..Len(s)
      BY <1>1
    <3>2. CASE j # 1
      <4>1. j - 1 \in DOMAIN t /\ (j - 1) + 1 = j
        BY <1>1, <3>1, <3>2
      <4> QED BY <4>1, <1>2
    <3> QED BY <3>2
  <2>2. 1 \in DOMAIN s
    BY <1>1
  <2> QED BY <2>1, <2>2, <1>2, <1>3, <1>4 DEF In
<1>6. Increasing(s, M) => Increasing(t, M)
  <2> SUFFICES ASSUME Increasing(s, M), NEW i \in DOMAIN t, NEW j \in DOMAIN t, i < j
               PROVE  Less(t[i], t[j], M)
    BY DEF Increasing
  <2>1. i + 1 \in DOMAIN s /\ j + 1 \in DOMAIN s /\ i + 1 < j + 1
    BY <1>1, <1>4
  <2> QED BY <2>1, <1>2 DEF Increasing
<1>7. Increasing(s, M) => \A i \in DOMAIN t : Less(Head(s), t[i], M)
  <2> SUFFICES ASSUME Increasing(s, M), NEW i \in DOMAIN t PROVE Less(Head(s), t[i], M)
    OBVIOUS
  <2>1. 1 \in DOMAIN s /\ i + 1 \in DOMAIN s /\ 1 < i + 1
    BY <1>1, <1>4
  <2> QED BY <2>1, <1>2, <1>3 DEF Increasing
<1>8. 1 \in DOMAIN s
  BY <1>1
<1> QED BY <1>1, <1>2, <1>3, <1>4, <1>5, <1>6, <1>7, <1>8 DEF t

\* In an increasing sequence a number is there at most once.
LEMMA TimesOnce ==
    ASSUME NEW M, NEW s \in Seq(Nat), Increasing(s, M), NEW f, f \notin M
    PROVE  Times(f, s) = IF f \in In(s) THEN 1 ELSE 0
<1> DEFINE at == {i \in DOMAIN s : s[i] = f}
<1>1. CASE f \in In(s)
  <2>1. PICK i \in DOMAIN s : s[i] = f
    BY <1>1 DEF In
  <2>2. ASSUME NEW j \in DOMAIN s, s[j] = f
        PROVE  j = i
    <3>1. i \in Nat /\ j \in Nat /\ s[i] \in Nat
      OBVIOUS
    <3>2. ~(i < j) /\ ~(j < i)
      BY <2>1, <2>2, <3>1 DEF Increasing, Less
    <3> QED BY <3>1, <3>2
  <2>3. at = {i}
    BY <2>1, <2>2
  <2> QED BY <1>1, <2>3, FS_Singleton DEF Times
<1>2. CASE f \notin In(s)
  <2>1. at = {}
    BY <1>2 DEF In
  <2> QED BY <1>2, <2>1, FS_EmptySet DEF Times
<1> QED BY <1>1, <1>2

-----------------------------------------------------------------------------
\* The constants of the pipeline.
LEMMA Sizes ==
    /\ MaxFills \in Nat \ {0} /\ DispatcherCap \in Nat \ {0} /\ LoopCap \in Nat \ {0} /\ MaxCalls \in Nat \ {0}
    /\ Loop \in Handlers /\ Free \notin Handlers
    /\ Fills \subseteq Nat /\ \A f \in Seq(Fills) : f \in Seq(Nat)
BY PipelineAssumption, FreeAssumption DEF PipelineAssumption, FreeAssumption, Handlers, Fills

\* The fields of a delivery.
LEMMA CallFields ==
    ASSUME call \in Calls
    PROVE  /\ call.fill \in 0..MaxFills /\ call.view \in Seq(Handlers \cup {Free})
           /\ call.shared \in BOOLEAN /\ call.count \in Nat /\ call.next \in Nat
BY DEF Calls

\* No delivery is a delivery.
LEMMA NoCallType == NoCall \in Calls
<1>1. 0 \in 0..MaxFills
  BY Sizes
<1>2. <<>> \in Seq(Handlers \cup {Free})
  BY EmptySeq
<1> QED BY <1>1, <1>2 DEF NoCall, Calls

\* Before the first fill nothing is anywhere.
LEMMA InvInit == PipelineInit => PipelineInv
<1> SUFFICES ASSUME PipelineInit PROVE PipelineInv
  OBVIOUS
<1>1. PipelineTypeOK
  <2>1. <<>> \in Seq(Fills) /\ Len(<<>>) = 0 /\ <<>> \in Seq(Handlers \cup {Free})
    BY EmptySeq
  <2>2. 0 \in 0..MaxFills /\ 0 \in 0..MaxCalls /\ 0 <= DispatcherCap /\ 0 <= LoopCap
    BY Sizes
  <2>3. call.fill = 0
    BY DEF PipelineInit, NoCall
  <2> QED
    BY <2>1, <2>2, <2>3 DEF PipelineInit, PipelineTypeOK
<1>2. call \in Calls /\ call = NoCall
  BY NoCallType DEF PipelineInit
<1>3. DOMAIN <<>> = {} /\ In(<<>>) = {}
  BY EmptySeq DEF In
<1>4. heard[Loop] = <<>> /\ size = 0 /\ queue = <<>> /\ inbox = <<>> /\ handled = <<>> /\ dropped = {} /\ refused = {}
  BY Sizes DEF PipelineInit
<1>5. RegisteredOnce
  BY <1>4 DEF RegisteredOnce
<1> QED
  BY <1>1, <1>2, <1>3, <1>4, <1>5
     DEF PipelineInv, ViewIsFixed, InOrder, QueueInOrder, CallInOrder, HeardInOrder, LoopInOrder,
         Increasing, Below

-----------------------------------------------------------------------------
(***************************************************************************)
(* The registry.  While a fill is delivered, nothing below the count of    *)
(* that delivery changes: append writes behind it, or into a copy.         *)
(***************************************************************************)
\* The copy of twice the capacity that append makes.
LEMMA Grown ==
    ASSUME PipelineTypeOK, size = Len(array), NEW h \in Handlers, NEW k \in Nat
    PROVE  LET grown == Append(array, h) \o [i \in 1..k |-> Free]
           IN  /\ grown \in Seq(Handlers \cup {Free})
               /\ Len(grown) = size + 1 + k
               /\ \A i \in 1..size : grown[i] = array[i]
               /\ grown[size + 1] = h
<1> DEFINE a == Append(array, h)  b == [i \in 1..k |-> Free]
<1>1. a \in Seq(Handlers \cup {Free}) /\ Len(a) = size + 1 /\ size \in Nat
  BY DEF PipelineTypeOK
<1>2. (\A i \in 1..size : a[i] = array[i]) /\ a[size + 1] = h
  BY DEF PipelineTypeOK
<1>3. b \in Seq(Handlers \cup {Free}) /\ Len(b) = k
  OBVIOUS
<1> HIDE DEF a, b
<1>4. /\ a \o b \in Seq(Handlers \cup {Free}) /\ Len(a \o b) = Len(a) + Len(b)
      /\ \A i \in 1..Len(a) : (a \o b)[i] = a[i]
  BY <1>1, <1>3
<1>5. (\A i \in 1..size : i \in 1..(size + 1)) /\ size + 1 \in 1..(size + 1)
  BY <1>1
<1> QED BY <1>1, <1>2, <1>3, <1>4, <1>5 DEF a, b

\* append writes behind the slice, and keeps what is in it.
LEMMA AddWrites ==
    ASSUME PipelineTypeOK, NEW h \in Handlers, Add(h)
    PROVE  /\ array' \in Seq(Handlers \cup {Free}) /\ size' = size + 1 /\ size' <= Len(array')
           /\ \A i \in 1..size : array'[i] = array[i]
           /\ array'[size + 1] = h
           /\ size < Len(array) => array' = [array EXCEPT ![size + 1] = h]
<1>1. array \in Seq(Handlers \cup {Free}) /\ size \in Nat /\ size <= Len(array) /\ Len(array) \in Nat
  BY DEF PipelineTypeOK
<1>2. /\ array' \in Seq(Handlers \cup {Free}) /\ size' = size + 1 /\ size' <= Len(array')
      /\ \A i \in 1..size : array'[i] = array[i]
      /\ array'[size + 1] = h
  <2>1. CASE size < Len(array)
    <3>1. size + 1 \in 1..Len(array) /\ array' = [array EXCEPT ![size + 1] = h] /\ size' = size + 1
      BY <1>1, <2>1 DEF Add
    <3>2. array' \in Seq(Handlers \cup {Free}) /\ Len(array') = Len(array)
      BY <1>1, <3>1
    <3>3. \A i \in 1..size : i \in 1..Len(array) /\ i # size + 1
      BY <1>1
    <3> QED
      BY <1>1, <2>1, <3>1, <3>2, <3>3
  <2>2. CASE ~(size < Len(array))
    <3> DEFINE k == IF size = 0 THEN 0 ELSE size - 1
    <3>1. size = Len(array) /\ k \in Nat
      BY <1>1, <2>2
    <3>2. array' = Append(array, h) \o [i \in 1..k |-> Free] /\ size' = size + 1
      BY <2>2 DEF Add
    <3> HIDE DEF k
    <3>3. size + 1 <= size + 1 + k
      BY <1>1, <3>1
    <3> QED BY <3>1, <3>2, <3>3, Grown
  <2> QED BY <2>1, <2>2
<1> QED BY <1>2 DEF Add

\* Registering keeps what a delivery reads.
LEMMA AddKeeps ==
    ASSUME PipelineTypeOK, call \in Calls, RegisteredOnce, ViewIsFixed, call # NoCall => call.fill # 0,
           NEW h \in Handlers, h \notin Registered, Add(h), moved' = moved
    PROVE  /\ array' \in Seq(Handlers \cup {Free}) /\ size' \in 0..Len(array')
           /\ call' \in Calls /\ RegisteredOnce' /\ ViewIsFixed'
           /\ (call' = NoCall <=> call = NoCall)
           /\ call'.fill = call.fill /\ call'.next = call.next /\ call'.count = call.count
           /\ call # NoCall /\ call.fill \notin moved => \A i \in 1..call.count : Slot(i)' = Slot(i)
<1>1. array \in Seq(Handlers \cup {Free}) /\ size \in Nat /\ size <= Len(array) /\ Len(array) \in Nat
  BY DEF PipelineTypeOK
<1>2. /\ array' \in Seq(Handlers \cup {Free}) /\ size' = size + 1 /\ size' <= Len(array')
      /\ \A i \in 1..size : array'[i] = array[i]
      /\ array'[size + 1] = h
  BY AddWrites
<1>3. RegisteredOnce'
  <2> SUFFICES ASSUME NEW i \in 1..(size + 1), NEW j \in 1..(size + 1), array'[i] = array'[j]
               PROVE  i = j
    BY <1>2 DEF RegisteredOnce
  <2>1. (i \in 1..size \/ i = size + 1) /\ (j \in 1..size \/ j = size + 1)
    BY <1>1
  <2>2. \A m \in 1..size : array'[m] # h
    BY <1>2 DEF Registered
  <2> QED
    BY <1>2, <2>1, <2>2 DEF RegisteredOnce
<1>4. \/ call' = call /\ (call.shared => \A i \in 1..size : array'[i] = array[i])
      \/ call.shared /\ call' = [call EXCEPT !.view = array, !.shared = FALSE] /\ size = Len(array)
  BY <1>1, <1>2 DEF Add
<1>5. CASE call' = call /\ (call.shared => \A i \in 1..size : array'[i] = array[i])
  <2>1. call # NoCall /\ call.fill \notin moved => \A i \in 1..call.count : Slot(i)' = Slot(i)
    <3> SUFFICES ASSUME call # NoCall, call.fill \notin moved, NEW i \in 1..call.count PROVE Slot(i)' = Slot(i)
      OBVIOUS
    <3>1. call.shared => i \in 1..size
      BY <1>1, CallFields DEF ViewIsFixed
    <3> QED BY <1>5, <3>1 DEF Slot
  <2>2. ViewIsFixed'
    <3> SUFFICES ASSUME call # NoCall, call.fill \notin moved
                 PROVE  /\ call.count <= (IF call.shared THEN size' ELSE Len(call.view))
                        /\ \A i, j \in 1..call.count : Slot(i)' = Slot(j)' => i = j
      BY <1>5 DEF ViewIsFixed
    <3>1. call.count <= (IF call.shared THEN size' ELSE Len(call.view))
      BY <1>1, <1>2, CallFields DEF ViewIsFixed
    <3> QED BY <2>1, <3>1 DEF ViewIsFixed
  <2> QED BY <1>1, <1>2, <1>3, <1>5, <2>1, <2>2
<1>6. CASE call.shared /\ call' = [call EXCEPT !.view = array, !.shared = FALSE] /\ size = Len(array)
  <2>1. call' \in Calls /\ call'.fill = call.fill /\ call'.next = call.next /\ call'.count = call.count
        /\ call'.view = array /\ ~call'.shared
    BY <1>1, <1>6, CallFields DEF Calls
  <2>3. call # NoCall
    BY <1>6 DEF NoCall
  <2>4. call' # NoCall
    BY <2>1, <2>3 DEF NoCall
  <2>5. \A i \in 1..call.count : Slot(i)' = Slot(i)
    BY <1>6, <2>1 DEF Slot
  <2>6. ASSUME call.fill \notin moved PROVE ViewIsFixed'
    <3>1. call.count <= Len(array)
      BY <1>6, <2>3, <2>6 DEF ViewIsFixed
    <3>2. \A i, j \in 1..call.count : Slot(i)' = Slot(j)' => i = j
      BY <2>3, <2>5, <2>6 DEF ViewIsFixed
    <3> QED BY <2>1, <3>1, <3>2 DEF ViewIsFixed
  <2>7. call.fill \in moved => ViewIsFixed'
    BY <2>1 DEF ViewIsFixed
  <2> QED BY <1>2, <1>3, <1>1, <2>1, <2>3, <2>4, <2>5, <2>6, <2>7
<1> QED BY <1>4, <1>5, <1>6

\* Unregistering writes into the array what is in it.
LEMMA RemoveTypes ==
    ASSUME PipelineTypeOK, NEW h, UnregisterFillHandler(h)
    PROVE  /\ array' \in Seq(Handlers \cup {Free}) /\ Len(array') = Len(array)
           /\ size' = size - 1 /\ size' \in 0..Len(array')
<1>1. array \in Seq(Handlers \cup {Free}) /\ size \in Nat /\ size <= Len(array) /\ Len(array) \in Nat
      /\ DOMAIN array = 1..Len(array)
  BY DEF PipelineTypeOK
<1>2. PICK i \in 1..size :
          array' = [j \in DOMAIN array |-> IF j \in i..(size - 1) THEN array[j + 1] ELSE array[j]]
  BY DEF UnregisterFillHandler
<1>3. size' = size - 1 /\ i \in Nat /\ 1 <= i /\ i <= size
  BY <1>1 DEF UnregisterFillHandler
<1>4. \A j \in 1..Len(array) : j \in i..(size - 1) => j + 1 \in 1..Len(array)
  BY <1>1, <1>3
<1>5. array' \in [1..Len(array) -> Handlers \cup {Free}]
  BY <1>1, <1>2, <1>4
<1>6. array' \in Seq(Handlers \cup {Free}) /\ Len(array') = Len(array)
  BY <1>1, <1>5
<1> QED BY <1>1, <1>3, <1>6

\* Unregistering moves the later handlers down.
LEMMA RemoveKeeps ==
    ASSUME PipelineTypeOK, RegisteredOnce, NEW h, UnregisterFillHandler(h)
    PROVE  array' \in Seq(Handlers \cup {Free}) /\ size' \in 0..Len(array') /\ RegisteredOnce'
<1>1. array \in Seq(Handlers \cup {Free}) /\ size \in Nat /\ size <= Len(array) /\ Len(array) \in Nat
      /\ DOMAIN array = 1..Len(array)
  BY DEF PipelineTypeOK
<1>2. PICK i \in 1..size :
          array' = [j \in DOMAIN array |-> IF j \in i..(size - 1) THEN array[j + 1] ELSE array[j]]
  BY DEF UnregisterFillHandler
<1>3. size' = size - 1 /\ i \in Nat /\ 1 <= i /\ i <= size
  BY <1>1 DEF UnregisterFillHandler
<1>7. RegisteredOnce'
  <2> SUFFICES ASSUME NEW a \in 1..(size - 1), NEW b \in 1..(size - 1), array'[a] = array'[b]
               PROVE  a = b
    BY <1>3 DEF RegisteredOnce
  <2>1. a \in 1..size /\ b \in 1..size /\ a + 1 \in 1..size /\ b + 1 \in 1..size
        /\ a \in DOMAIN array /\ b \in DOMAIN array
    BY <1>1
  <2>2. array'[a] = (IF a >= i THEN array[a + 1] ELSE array[a])
        /\ array'[b] = (IF b >= i THEN array[b + 1] ELSE array[b])
    BY <1>1, <1>2, <1>3, <2>1
  <2>3. CASE a >= i /\ b >= i
    <3>1. a + 1 = b + 1
      BY <2>1, <2>2, <2>3 DEF RegisteredOnce
    <3> QED BY <1>1, <3>1
  <2>4. CASE a >= i /\ ~(b >= i)
    <3>1. a + 1 = b
      BY <2>1, <2>2, <2>4 DEF RegisteredOnce
    <3> QED BY <1>1, <1>3, <2>4, <3>1
  <2>5. CASE ~(a >= i) /\ b >= i
    <3>1. a = b + 1
      BY <2>1, <2>2, <2>5 DEF RegisteredOnce
    <3> QED BY <1>1, <1>3, <2>5, <3>1
  <2>6. CASE ~(a >= i) /\ ~(b >= i)
    BY <2>1, <2>2, <2>6 DEF RegisteredOnce
  <2> QED BY <2>3, <2>4, <2>5, <2>6
<1> QED BY <1>7, RemoveTypes

-----------------------------------------------------------------------------
\* Registering, by anybody, keeps the invariant.
LEMMA InvRegister ==
    ASSUME PipelineInv, NEW h \in Handlers, Register(h),
           {worker'} \subseteq {"on", worker},
           UNCHANGED <<produced, refused, queue, dispatcher, heard, inbox, dropped, handled>>
    PROVE  PipelineInv'
<1>1. call # NoCall => call.fill # 0
  BY DEF PipelineInv, InOrder, CallInOrder, Admitted
<1>2. /\ array' \in Seq(Handlers \cup {Free}) /\ size' \in 0..Len(array')
      /\ call' \in Calls /\ RegisteredOnce' /\ ViewIsFixed'
      /\ (call' = NoCall <=> call = NoCall)
      /\ call'.fill = call.fill /\ call'.next = call.next /\ call'.count = call.count
      /\ call # NoCall /\ call.fill \notin moved => \A i \in 1..call.count : Slot(i)' = Slot(i)
  BY <1>1, AddKeeps DEF PipelineInv, Register
<1>7. moved' = moved
  BY DEF Register
<1>3. calls' \in [Handlers -> 0..MaxCalls]
  <2>1. calls[h] + 1 \in 0..MaxCalls
    BY Sizes DEF PipelineInv, PipelineTypeOK, Register
  <2> QED BY <2>1 DEF PipelineInv, PipelineTypeOK, Register
<1>4. PipelineTypeOK'
  BY <1>2, <1>3, <1>7, CallFields DEF PipelineInv, PipelineTypeOK
<1>5. QueueInOrder' /\ HeardInOrder' /\ LoopInOrder'
  BY <1>7 DEF PipelineInv, InOrder, QueueInOrder, HeardInOrder, LoopInOrder, Admitted
<1>6. CallInOrder'
  <2> SUFFICES ASSUME call # NoCall
               PROVE  /\ call.fill \in Admitted /\ call.next \in 1..(call.count + 1)
                      /\ \A i \in DOMAIN queue : call.fill < queue[i]
                      /\ \A i \in DOMAIN heard[Loop] :
                            \/ heard[Loop][i] < call.fill
                            \/ heard[Loop][i] = call.fill
                               /\ (call.fill \in moved \/ \E j \in 1..(call.next - 1) : Slot(j)' = Loop)
    BY <1>2, <1>7 DEF CallInOrder, Admitted
  <2>1. CallInOrder
    BY DEF PipelineInv, InOrder
  <2>2. ASSUME call.fill \notin moved PROVE \A j \in 1..(call.next - 1) : Slot(j)' = Slot(j)
    <3> TAKE j \in 1..(call.next - 1)
    <3>1. call.next \in 1..(call.count + 1) /\ call.count \in Nat
      BY <2>1, CallFields DEF CallInOrder, PipelineInv
    <3>2. j \in 1..call.count
      BY <3>1
    <3> QED BY <1>2, <2>2, <3>2
  <2> QED BY <2>1, <2>2 DEF CallInOrder
<1> QED BY <1>2, <1>4, <1>5, <1>6 DEF PipelineInv, InOrder

\* Unregistering keeps the invariant: the fill whose handlers it moves is
\* remembered.
LEMMA InvUnregister ==
    ASSUME PipelineInv, NEW h, UnregisterFillHandler(h)
    PROVE  PipelineInv'
<1>1. array' \in Seq(Handlers \cup {Free}) /\ size' \in 0..Len(array') /\ RegisteredOnce'
  BY RemoveKeeps DEF PipelineInv
<1>2. UNCHANGED <<produced, refused, queue, calls, dispatcher, call, heard, inbox, dropped, worker, handled>>
  BY DEF UnregisterFillHandler, delivery
<1>3. moved' = IF call.shared THEN moved \cup {call.fill} ELSE moved
  BY DEF UnregisterFillHandler
<1>4. moved \subseteq moved' /\ moved' \subseteq Fills
  <2>1. call.shared => call.fill \in Fills
    <3> SUFFICES ASSUME call.shared PROVE call.fill \in Fills
      OBVIOUS
    <3>1. call # NoCall
      BY DEF NoCall
    <3>2. call.fill \in 0..MaxFills /\ call.fill \in Admitted /\ produced \in Nat
      BY <3>1, CallFields DEF PipelineInv, InOrder, CallInOrder, PipelineTypeOK
    <3> QED BY <3>2, Sizes DEF Admitted, Fills
  <2> QED BY <1>3, <2>1 DEF PipelineInv, PipelineTypeOK
<1>5. PipelineTypeOK'
  BY <1>1, <1>2, <1>4 DEF PipelineInv, PipelineTypeOK
<1>6. ViewIsFixed'
  <2>1. CASE call.shared
    BY <1>2, <1>3, <2>1 DEF ViewIsFixed
  <2>2. CASE ~call.shared
    BY <1>2, <1>3, <2>2 DEF PipelineInv, ViewIsFixed, Slot
  <2> QED BY <2>1, <2>2
<1>7. QueueInOrder'
  BY <1>2 DEF PipelineInv, InOrder, QueueInOrder, Admitted
<1>8. CallInOrder'
  <2>1. CASE call.shared
    BY <1>2, <1>3, <2>1 DEF PipelineInv, InOrder, CallInOrder, Admitted
  <2>2. CASE ~call.shared
    BY <1>2, <1>3, <2>2 DEF PipelineInv, InOrder, CallInOrder, Admitted, Slot
  <2> QED BY <2>1, <2>2
<1>9. HeardInOrder' /\ LoopInOrder'
  BY <1>2, <1>4 DEF PipelineInv, InOrder, HeardInOrder, LoopInOrder, Admitted, Increasing, Below, Less
<1> QED
  BY <1>1, <1>2, <1>5, <1>6, <1>7, <1>8, <1>9 DEF PipelineInv, InOrder

\* The goroutines start and end.
LEMMA InvQuiet ==
    ASSUME PipelineInv, {dispatcher', worker'} \subseteq {"new", "on", "stopping", "ended"},
           UNCHANGED <<produced, refused, queue, registry, delivery, handled>>
    PROVE  PipelineInv'
<1>1. PipelineTypeOK'
  BY DEF PipelineInv, PipelineTypeOK, registry, delivery
<1>2. call' \in Calls /\ RegisteredOnce' /\ ViewIsFixed'
  BY DEF PipelineInv, registry, delivery, RegisteredOnce, ViewIsFixed, Slot
<1>3. InOrder'
  BY DEF PipelineInv, registry, delivery, InOrder, QueueInOrder, CallInOrder, HeardInOrder,
         LoopInOrder, Admitted, Slot
<1> QED BY <1>1, <1>2, <1>3 DEF PipelineInv

\* A new fill is younger than all before it.
LEMMA InvDispatch ==
    ASSUME PipelineInv, DispatchFillEvent
    PROVE  PipelineInv'
<1> DEFINE f == produced + 1
<1>1. f \in 1..MaxFills /\ produced \in Nat /\ produced' = f /\ f \in Fills /\ f \in Nat
  BY Sizes DEF PipelineInv, PipelineTypeOK, DispatchFillEvent, Fills
<1>2. queue \in Seq(Fills) /\ queue \in Seq(Nat) /\ Len(queue) \in Nat
  BY Sizes DEF PipelineInv, PipelineTypeOK
<1>3. \/ queue' = Append(queue, f) /\ refused' = refused /\ Len(queue) < DispatcherCap
      \/ queue' = queue /\ refused' = refused \cup {f}
  BY DEF DispatchFillEvent
<1>4. UNCHANGED <<array, size, calls, moved, dispatcher, call, heard, inbox, dropped, worker, handled>>
  BY DEF DispatchFillEvent, registry, delivery
<1>5. refused \subseteq 1..produced /\ refused' \subseteq 1..f
  <2>1. refused \subseteq 1..produced
    BY DEF PipelineInv, InOrder, QueueInOrder
  <2>2. 1..produced \subseteq 1..f /\ f \in 1..f
    BY <1>1
  <2> QED BY <1>3, <2>1, <2>2
<1>6. Admitted \subseteq Admitted' /\ \A g \in Admitted : g < f /\ g \in Nat
  BY <1>1, <1>3, <1>5 DEF Admitted
<1>7. \A i \in DOMAIN queue' : (i \in DOMAIN queue /\ queue'[i] = queue[i])
                                \/ (queue'[i] = f /\ f \in Admitted')
  <2>1. CASE queue' = Append(queue, f) /\ refused' = refused
    <3>1. f \in Admitted'
      BY <1>1, <1>5, <2>1 DEF Admitted
    <3> QED BY <1>1, <1>2, <2>1, <3>1, InAppend
  <2>2. CASE queue' = queue
    BY <2>2
  <2> QED BY <1>3, <2>1, <2>2
<1>8. PipelineTypeOK'
  <2>1. queue' \in Seq(Fills) /\ Len(queue') <= DispatcherCap
    <3>1. CASE queue' = Append(queue, f) /\ Len(queue) < DispatcherCap
      BY <1>1, <1>2, <3>1, Sizes
    <3>2. CASE queue' = queue
      BY <3>2 DEF PipelineInv, PipelineTypeOK
    <3> QED BY <1>3, <3>1, <3>2
  <2>2. refused' \subseteq Fills /\ produced' \in 0..MaxFills
    BY <1>1, <1>3 DEF PipelineInv, PipelineTypeOK
  <2> QED BY <1>4, <2>1, <2>2 DEF PipelineInv, PipelineTypeOK
<1> HIDE DEF f
<1>9. QueueInOrder'
  <2>1. \A i \in DOMAIN queue' : queue'[i] \in Admitted'
    BY <1>6, <1>7 DEF PipelineInv, InOrder, QueueInOrder
  <2>2. AllBelow(queue, f, {}) /\ Increasing(queue, {})
    BY <1>6 DEF PipelineInv, InOrder, QueueInOrder, AllBelow, Less
  <2>3. Increasing(queue', {})
    <3>1. Increasing(Append(queue, f), {})
      BY <1>1, <1>2, <2>2, InAppend
    <3> QED BY <1>3, <2>2, <3>1
  <2> QED BY <1>1, <1>5, <2>1, <2>3 DEF QueueInOrder
<1>10. CallInOrder'
  BY <1>4, <1>6, <1>7 DEF PipelineInv, InOrder, CallInOrder, Slot
<1>11. HeardInOrder'
  BY <1>4, <1>6, <1>7 DEF PipelineInv, InOrder, HeardInOrder, Below, Less
<1>12. LoopInOrder'
  BY <1>4 DEF PipelineInv, InOrder, LoopInOrder
<1>13. call' \in Calls /\ RegisteredOnce' /\ ViewIsFixed'
  BY <1>4 DEF PipelineInv, RegisteredOnce, ViewIsFixed, Slot
<1> QED BY <1>8, <1>9, <1>10, <1>11, <1>12, <1>13 DEF PipelineInv, InOrder

\* The dispatcher takes the oldest fill for all handlers registered now.
LEMMA InvTake ==
    ASSUME PipelineInv, TakeFill
    PROVE  PipelineInv'
<1> DEFINE f == Head(queue)
<1>1. queue \in Seq(Fills) /\ queue \in Seq(Nat) /\ queue # <<>> /\ queue' = Tail(queue)
  BY Sizes DEF PipelineInv, PipelineTypeOK, TakeFill
<1>2. /\ queue' \in Seq(Nat) /\ f \in Nat /\ 1 \in DOMAIN queue /\ f = queue[1]
      /\ \A i \in DOMAIN queue' : i + 1 \in DOMAIN queue /\ queue'[i] = queue[i + 1]
      /\ Increasing(queue, {}) => Increasing(queue', {}) /\ \A i \in DOMAIN queue' : f < queue'[i]
  BY <1>1, InTail DEF Less
<1>3. queue' \in Seq(Fills) /\ Len(queue') <= DispatcherCap /\ f \in Fills
  BY <1>1, Sizes DEF PipelineInv, PipelineTypeOK
<1>4. UNCHANGED <<produced, refused, array, size, calls, moved, dispatcher, heard, inbox, dropped, worker, handled>>
  BY DEF TakeFill, registry
<1>5. call' = [fill |-> f, view |-> <<>>, shared |-> TRUE, count |-> size, next |-> 1]
  BY DEF TakeFill
<1>6. size \in Nat
  BY DEF PipelineInv, PipelineTypeOK
<1> HIDE DEF f
<1>7. call' \in Calls /\ call'.fill = f /\ call'.shared /\ call'.count = size /\ call'.next = 1
  <2>1. f \in 0..MaxFills /\ <<>> \in Seq(Handlers \cup {Free})
    BY <1>3, EmptySeq, Sizes DEF Fills
  <2> QED BY <1>5, <1>6, <2>1 DEF Calls
<1>8. PipelineTypeOK'
  <2>1. call'.fill \in 0..MaxFills
    BY <1>7 DEF Calls
  <2> QED BY <1>3, <1>4, <2>1 DEF PipelineInv, PipelineTypeOK
<1>9. QueueInOrder'
  BY <1>2, <1>4 DEF PipelineInv, InOrder, QueueInOrder, Admitted
<1>10. HeardInOrder'
  BY <1>2, <1>4 DEF PipelineInv, InOrder, HeardInOrder, Below, Admitted
<1>11. CallInOrder'
  <2>1. f \in Admitted' /\ 1 \in 1..(size + 1)
    BY <1>2, <1>4, <1>6 DEF PipelineInv, InOrder, QueueInOrder, Admitted
  <2>2. \A i \in DOMAIN queue' : f < queue'[i]
    BY <1>2 DEF PipelineInv, InOrder, QueueInOrder
  <2>3. \A i \in DOMAIN heard'[Loop] : heard'[Loop][i] < f
    BY <1>2, <1>4 DEF PipelineInv, InOrder, HeardInOrder, Below, Less
  <2> QED BY <1>7, <2>1, <2>2, <2>3 DEF CallInOrder
<1>12. LoopInOrder'
  BY <1>4 DEF PipelineInv, InOrder, LoopInOrder
<1>13. RegisteredOnce' /\ ViewIsFixed'
  BY <1>4, <1>6, <1>7 DEF PipelineInv, RegisteredOnce, ViewIsFixed, Slot
<1> QED BY <1>7, <1>8, <1>9, <1>10, <1>11, <1>12, <1>13 DEF PipelineInv, InOrder

\* A handler is called; the event loop takes the fill or drops it.
LEMMA InvCall ==
    ASSUME PipelineInv, CallHandler
    PROVE  PipelineInv'
<1> DEFINE f == call.fill
<1>1. call # NoCall /\ call.next <= call.count /\ Callee = Slot(call.next)
  BY DEF CallHandler, Callee, Slot
<1>2. f \in 0..MaxFills /\ f \in Nat /\ call.next \in Nat /\ call.count \in Nat
  BY CallFields, Sizes DEF PipelineInv
<1>3. f \in Admitted /\ f \in Fills /\ call.next \in 1..(call.count + 1) /\ \A i \in DOMAIN queue : f < queue[i]
  <2>1. f \in Admitted /\ call.next \in 1..(call.count + 1) /\ \A i \in DOMAIN queue : f < queue[i]
    BY <1>1 DEF PipelineInv, InOrder, CallInOrder
  <2> QED BY <1>2, <2>1 DEF Admitted, Fills
<1>4. /\ heard' = [heard EXCEPT ![Callee] = Append(heard[Callee], f)]
      /\ call' = [call EXCEPT !.next = call.next + 1]
      /\ UNCHANGED <<produced, refused, queue, array, size, calls, moved, dispatcher, worker, handled>>
      /\ Callee = Loop => OnFill(f)
      /\ Callee # Loop => UNCHANGED <<inbox, dropped>>
  BY DEF CallHandler, registry
<1>5. call' \in Calls /\ call'.fill = f /\ call'.next = call.next + 1 /\ call'.count = call.count
      /\ call'.view = call.view /\ call'.shared = call.shared
  BY <1>2, <1>4 DEF PipelineInv, Calls
<1> HIDE DEF f
<1>6. \A i : Slot(i)' = Slot(i)
  BY <1>4, <1>5 DEF Slot
<1>14. call.next + 1 \in 1..(call.count + 1) /\ call.next \in 1..call.next /\ (call.next + 1) - 1 = call.next
  BY <1>1, <1>2, <1>3
<1>15. f \in Admitted' /\ \A k \in DOMAIN queue' : f < queue'[k]
  BY <1>3, <1>4 DEF Admitted
<1>7. heard \in [Handlers -> Seq(Fills)] /\ heard[Loop] \in Seq(Nat) /\ Loop \in Handlers
      /\ inbox \in Seq(Fills) /\ inbox \in Seq(Nat) /\ handled \in Seq(Nat)
  BY Sizes DEF PipelineInv, PipelineTypeOK
<1>8. heard' \in [Handlers -> Seq(Fills)]
  <2>1. \A h \in Handlers : Append(heard[h], f) \in Seq(Fills)
    BY <1>3, <1>7
  <2> QED BY <1>4, <1>7, <2>1
<1>9. CASE Callee = Loop
  <2>1. AllBelow(heard[Loop], f, moved)
    <3> SUFFICES ASSUME NEW i \in DOMAIN heard[Loop], f \notin moved,
                        NEW j \in 1..(call.next - 1), Slot(j) = Loop
                 PROVE  FALSE
      BY <1>1 DEF PipelineInv, InOrder, CallInOrder, AllBelow, Less, f
    <3>1. j \in 1..call.count /\ call.next \in 1..call.count /\ j # call.next
      BY <1>1, <1>2, <1>3
    <3> QED BY <1>1, <1>9, <3>1 DEF PipelineInv, ViewIsFixed, f
  <2>2. /\ heard'[Loop] = Append(heard[Loop], f)
        /\ In(heard'[Loop]) = In(heard[Loop]) \cup {f}
        /\ \A i \in DOMAIN heard'[Loop] :
              (i \in DOMAIN heard[Loop] /\ heard'[Loop][i] = heard[Loop][i]) \/ heard'[Loop][i] = f
        /\ Increasing(heard'[Loop], moved)
    <3>1. heard'[Loop] = Append(heard[Loop], f)
      BY <1>4, <1>7, <1>9
    <3>2. AllBelow(heard[Loop], f, moved) /\ Increasing(heard[Loop], moved)
      BY <2>1 DEF PipelineInv, InOrder, HeardInOrder
    <3> QED BY <1>2, <1>7, <3>1, <3>2, InAppend
  <2>3. HeardInOrder'
    BY <1>3, <1>4, <2>2 DEF HeardInOrder, PipelineInv, InOrder, Below, Less, Admitted
  <2>4. CallInOrder'
    <3> SUFFICES ASSUME NEW i \in DOMAIN heard'[Loop]
                 PROVE  \/ heard'[Loop][i] < f
                        \/ heard'[Loop][i] = f /\ (f \in moved \/ \E j \in 1..call.next : Slot(j) = Loop)
      BY <1>4, <1>5, <1>6, <1>14, <1>15 DEF CallInOrder
    <3>1. call.next \in 1..call.next /\ Slot(call.next) = Loop
      BY <1>1, <1>14, <1>9
    <3> QED BY <2>1, <2>2, <3>1 DEF AllBelow, Less
  <2>5. In(heard[Loop]) = In(inbox) \cup In(handled) \cup dropped /\ dropped \cap (In(inbox) \cup In(handled)) \subseteq moved
        /\ Increasing(inbox, moved) /\ Increasing(handled, moved) /\ Below(handled, inbox, moved)
    BY DEF PipelineInv, InOrder, LoopInOrder
  <2>6. \A g \in In(heard[Loop]) : Less(g, f, moved)
    BY <2>1 DEF In, AllBelow
  <2>7. f \in In(heard[Loop]) => f \in moved
    BY <1>2, <2>6 DEF Less
  <2>8. AllBelow(inbox, f, moved) /\ AllBelow(handled, f, moved)
    BY <2>5, <2>6 DEF AllBelow, In
  <2>9. CASE inbox' = Append(inbox, f) /\ dropped' = dropped /\ Len(inbox) < LoopCap
    <3>1. In(inbox') = In(inbox) \cup {f} /\ Increasing(inbox', moved)
          /\ \A i \in DOMAIN inbox' : (i \in DOMAIN inbox /\ inbox'[i] = inbox[i]) \/ inbox'[i] = f
      BY <1>2, <1>7, <2>5, <2>8, <2>9, InAppend
    <3>2. Below(handled, inbox', moved)
      BY <2>5, <2>8, <3>1 DEF Below, AllBelow
    <3>3. LoopInOrder'
      BY <1>4, <2>2, <2>5, <2>7, <2>9, <3>1, <3>2 DEF LoopInOrder
    <3>4. inbox' \in Seq(Fills) /\ Len(inbox') <= LoopCap /\ dropped' \subseteq Fills
      BY <1>3, <1>7, <2>9, Sizes DEF PipelineInv, PipelineTypeOK
    <3> QED BY <3>3, <3>4, <2>3, <2>4, <1>1, <1>4, <1>5, <1>6, <1>8, CallFields
         DEF PipelineInv, PipelineTypeOK, InOrder, QueueInOrder, RegisteredOnce, ViewIsFixed, Admitted, Calls
  <2>10. CASE inbox' = inbox /\ dropped' = dropped \cup {f}
    <3>1. LoopInOrder'
      BY <1>4, <2>2, <2>5, <2>7, <2>10 DEF LoopInOrder
    <3>2. dropped' \subseteq Fills
      BY <1>3, <2>10 DEF PipelineInv, PipelineTypeOK
    <3> QED BY <3>1, <3>2, <2>3, <2>4, <2>10, <1>1, <1>4, <1>5, <1>6, <1>8, CallFields
         DEF PipelineInv, PipelineTypeOK, InOrder, QueueInOrder, RegisteredOnce, ViewIsFixed, Admitted, Calls
  <2> QED BY <1>4, <1>9, <2>9, <2>10 DEF OnFill
<1>10. CASE Callee # Loop
  <2>1. heard'[Loop] = heard[Loop]
    BY <1>4, <1>7, <1>10
  <2>2. HeardInOrder' /\ LoopInOrder'
    BY <1>4, <1>10, <2>1 DEF PipelineInv, InOrder, HeardInOrder, LoopInOrder, Admitted
  <2>3. CallInOrder'
    <3> SUFFICES ASSUME NEW i \in DOMAIN heard[Loop]
                 PROVE  \/ heard[Loop][i] < f
                        \/ heard[Loop][i] = f /\ (f \in moved \/ \E j \in 1..call.next : Slot(j)' = Loop)
      BY <1>4, <1>5, <1>14, <1>15, <2>1 DEF CallInOrder
    <3>1. \A j \in 1..(call.next - 1) : j \in 1..call.next
      BY <1>2
    <3> QED BY <1>1, <1>6, <3>1 DEF PipelineInv, InOrder, CallInOrder, f
  <2> QED BY <2>2, <2>3, <1>1, <1>4, <1>5, <1>6, <1>8, <1>10, CallFields
       DEF PipelineInv, PipelineTypeOK, InOrder, QueueInOrder, RegisteredOnce, ViewIsFixed, Admitted, Calls
<1> QED BY <1>9, <1>10

\* The delivery ends.
LEMMA InvEnds ==
    ASSUME PipelineInv, DeliveryEnds
    PROVE  PipelineInv'
<1>1. call' = NoCall /\ call' \in Calls /\ call'.fill \in 0..MaxFills
      /\ UNCHANGED <<produced, refused, queue, array, size, calls, moved, dispatcher, heard, inbox, dropped, worker, handled>>
  BY NoCallType DEF DeliveryEnds, registry, Calls
<1> QED
  BY <1>1 DEF PipelineInv, PipelineTypeOK, RegisteredOnce, ViewIsFixed, InOrder, QueueInOrder, CallInOrder,
              HeardInOrder, LoopInOrder, Admitted

\* The event loop handles its oldest fill.
LEMMA InvHandle ==
    ASSUME PipelineInv, HandleFill
    PROVE  PipelineInv'
<1> DEFINE f == Head(inbox)
<1>1. inbox \in Seq(Fills) /\ inbox \in Seq(Nat) /\ handled \in Seq(Fills) /\ handled \in Seq(Nat)
      /\ inbox # <<>> /\ inbox' = Tail(inbox) /\ handled' = Append(handled, f)
  BY Sizes DEF PipelineInv, PipelineTypeOK, HandleFill
<1>2. UNCHANGED <<produced, refused, queue, array, size, calls, moved, dispatcher, call, heard, dropped, worker>>
  BY DEF HandleFill, registry
<1>3. LoopInOrder
  BY DEF PipelineInv, InOrder
<1>4. /\ f \in Nat /\ In(inbox) = In(inbox') \cup {f}
      /\ Increasing(inbox', moved) /\ \A i \in DOMAIN inbox' : Less(f, inbox'[i], moved)
      /\ \A i \in DOMAIN inbox' : i + 1 \in DOMAIN inbox /\ inbox'[i] = inbox[i + 1]
      /\ 1 \in DOMAIN inbox /\ f = inbox[1]
  BY <1>1, <1>3, InTail DEF LoopInOrder
<1>5. f \in Fills /\ inbox' \in Seq(Fills) /\ Len(inbox') <= LoopCap /\ handled' \in Seq(Fills)
  BY <1>1, Sizes DEF PipelineInv, PipelineTypeOK
<1> HIDE DEF f
<1>6. AllBelow(handled, f, moved)
  BY <1>3, <1>4 DEF LoopInOrder, Below, AllBelow
<1>7. /\ In(handled') = In(handled) \cup {f} /\ Increasing(handled', moved)
      /\ \A i \in DOMAIN handled' : (i \in DOMAIN handled /\ handled'[i] = handled[i]) \/ handled'[i] = f
  BY <1>1, <1>3, <1>4, <1>6, InAppend DEF LoopInOrder
<1>8. Below(handled', inbox', moved)
  BY <1>3, <1>4, <1>7 DEF LoopInOrder, Below
<1>9. LoopInOrder'
  BY <1>2, <1>3, <1>4, <1>7, <1>8 DEF LoopInOrder
<1>10. PipelineTypeOK'
  BY <1>2, <1>5 DEF PipelineInv, PipelineTypeOK
<1> QED
  BY <1>2, <1>9, <1>10 DEF PipelineInv, RegisteredOnce, ViewIsFixed, Slot, InOrder, QueueInOrder,
                           CallInOrder, HeardInOrder, Admitted

-----------------------------------------------------------------------------
\* No step of the pipeline loses a fill or overtakes one.
LEMMA InvNext == PipelineInv /\ [PipelineNext]_pipelineVars => PipelineInv'
<1> SUFFICES ASSUME PipelineInv, [PipelineNext]_pipelineVars PROVE PipelineInv'
  OBVIOUS
<1>1. CASE StartDispatcher \/ StopDispatcher \/ Drained \/ StopLoop \/ FillLoopEnds
  <2>1. {dispatcher', worker'} \subseteq {"new", "on", "stopping", "ended"}
    BY <1>1 DEF StartDispatcher, StopDispatcher, Drained, StopLoop, FillLoopEnds, PipelineInv, PipelineTypeOK
  <2>2. UNCHANGED <<produced, refused, queue, registry, delivery, handled>>
    BY <1>1 DEF StartDispatcher, StopDispatcher, Drained, StopLoop, FillLoopEnds
  <2> QED BY <2>1, <2>2, InvQuiet
<1>2. CASE DispatchFillEvent \/ TakeFill \/ CallHandler \/ DeliveryEnds \/ HandleFill
  BY <1>2, InvDispatch, InvTake, InvCall, InvEnds, InvHandle
<1>3. ASSUME NEW h \in Others, RegisterFillHandler(h)
      PROVE  PipelineInv'
  <2>1. h \in Handlers /\ Register(h) /\ {worker'} \subseteq {"on", worker}
        /\ UNCHANGED <<produced, refused, queue, dispatcher, heard, inbox, dropped, handled>>
    BY <1>3 DEF RegisterFillHandler, Handlers
  <2> QED BY <2>1, InvRegister
<1>4. ASSUME NEW h \in Others, UnregisterFillHandler(h)
      PROVE  PipelineInv'
  BY <1>4, InvUnregister
<1>5. CASE StartLoop
  <2>1. Loop \in Handlers /\ Register(Loop) /\ {worker'} \subseteq {"on", worker}
        /\ UNCHANGED <<produced, refused, queue, dispatcher, heard, inbox, dropped, handled>>
    BY <1>5, Sizes DEF StartLoop
  <2> QED BY <2>1, InvRegister
<1>6. CASE UNCHANGED pipelineVars
  <2>1. {dispatcher', worker'} \subseteq {"new", "on", "stopping", "ended"}
    BY <1>6 DEF pipelineVars, PipelineInv, PipelineTypeOK
  <2> QED BY <1>6, <2>1, InvQuiet DEF pipelineVars
<1> QED BY <1>1, <1>2, <1>3, <1>4, <1>5, <1>6 DEF PipelineNext

\* The invariant of the pipeline.
LEMMA PipelineInvariant == PipelineSpec => []PipelineInv
BY InvInit, InvNext, PTL DEF PipelineSpec

\* A fill that was produced is in one place, for any number of fills, handlers
\* and any capacities, unless an Unregister moved the handlers under its own
\* delivery (DispatchFillEvent, deliverFillEvent, onFill, handleFill).
THEOREM FillsArriveOnce == PipelineSpec => []EveryFillOnce
<1>1. PipelineInv => EveryFillOnce
  <2> SUFFICES ASSUME PipelineInv, NEW f \in (1..produced) \ moved
               PROVE  LET waiting == Times(f, queue) + (IF call.fill = f /\ Times(f, heard[Loop]) = 0 THEN 1 ELSE 0)
                          given == Times(f, inbox) + Times(f, handled) + (IF f \in dropped THEN 1 ELSE 0)
                      IN  /\ given = Times(f, heard[Loop])
                          /\ given + waiting + (IF f \in refused THEN 1 ELSE 0) <= 1
    BY DEF EveryFillOnce
  <2>1. f \in Nat /\ f # 0
    BY DEF PipelineInv, PipelineTypeOK
  <2>2. queue \in Seq(Nat) /\ inbox \in Seq(Nat) /\ handled \in Seq(Nat) /\ heard[Loop] \in Seq(Nat)
    BY Sizes DEF PipelineInv, PipelineTypeOK
  <2>3. /\ Times(f, queue) = IF f \in In(queue) THEN 1 ELSE 0
        /\ Times(f, inbox) = IF f \in In(inbox) THEN 1 ELSE 0
        /\ Times(f, handled) = IF f \in In(handled) THEN 1 ELSE 0
        /\ Times(f, heard[Loop]) = IF f \in In(heard[Loop]) THEN 1 ELSE 0
    <3>1. Increasing(queue, {}) /\ Increasing(inbox, moved) /\ Increasing(handled, moved) /\ Increasing(heard[Loop], moved)
      BY DEF PipelineInv, InOrder, QueueInOrder, HeardInOrder, LoopInOrder
    <3> QED BY <2>2, <3>1, TimesOnce
  <2>4. In(heard[Loop]) = In(inbox) \cup In(handled) \cup dropped /\ f \notin dropped \cap (In(inbox) \cup In(handled))
    BY DEF PipelineInv, InOrder, LoopInOrder
  <2>5. ~(f \in In(inbox) /\ f \in In(handled))
    <3> SUFFICES ASSUME NEW i \in DOMAIN inbox, NEW j \in DOMAIN handled, inbox[i] = f, handled[j] = f
                 PROVE  FALSE
      BY DEF In
    <3> QED BY <2>1 DEF PipelineInv, InOrder, LoopInOrder, Below, Less
  <2>6. f \in In(queue) => f \notin In(heard[Loop]) /\ f \notin refused
    <3> SUFFICES ASSUME NEW i \in DOMAIN queue, queue[i] = f
                 PROVE  f \notin In(heard[Loop]) /\ f \notin refused
      BY DEF In
    <3>1. f \notin refused
      BY DEF PipelineInv, InOrder, QueueInOrder, Admitted
    <3>2. \A j \in DOMAIN heard[Loop] : heard[Loop][j] < f
      BY DEF PipelineInv, InOrder, HeardInOrder, Below, Less
    <3>3. \A j \in DOMAIN heard[Loop] : heard[Loop][j] # f
      BY <2>1, <3>2
    <3> QED BY <3>1, <3>3 DEF In
  <2>7. call.fill = f => f \notin In(queue) /\ f \notin refused
    <3> SUFFICES ASSUME call.fill = f PROVE f \notin In(queue) /\ f \notin refused
      OBVIOUS
    <3>1. call # NoCall
      BY <2>1 DEF NoCall
    <3>2. f \notin refused /\ \A i \in DOMAIN queue : f < queue[i]
      BY <3>1 DEF PipelineInv, InOrder, CallInOrder, Admitted
    <3>3. \A i \in DOMAIN queue : queue[i] # f
      BY <2>1, <3>2
    <3> QED BY <3>2, <3>3 DEF In
  <2>8. f \in In(heard[Loop]) => f \notin refused
    BY DEF In, PipelineInv, InOrder, HeardInOrder, Admitted
  <2> QED
    BY <2>3, <2>4, <2>5, <2>6, <2>7, <2>8
<1> QED BY <1>1, PipelineInvariant, PTL

\* The strategy sees the fills in the order they were produced, and none twice
\* but one under whose delivery an Unregister moved the handlers
\* (processFillEvents, processFills).
THEOREM FillsAreHandledInOrder == PipelineSpec => []HandledInOrder
<1>1. PipelineInv => HandledInOrder
  BY DEF PipelineInv, InOrder, LoopInOrder, Increasing, Less, HandledInOrder
<1> QED BY <1>1, PipelineInvariant, PTL

\* The variables of the pipeline keep their types, whenever handlers are
\* unregistered.
THEOREM PipelineTypeCorrect == PipelineSpec => []PipelineTypeOK
<1>1. PipelineInv => PipelineTypeOK
  BY DEF PipelineInv
<1> QED BY <1>1, PipelineInvariant, PTL

-----------------------------------------------------------------------------
(***************************************************************************)
(* What a delivery reads while handlers are unregistered under it: it may  *)
(* skip one or call one twice, but every place it reads holds a handler.   *)
(***************************************************************************)
PlacesAreTaken ==
    /\ \A i \in 1..size : array[i] \in Handlers
    /\ call # NoCall =>
        /\ call.count <= Len(IF call.shared THEN array ELSE call.view)
        /\ \A i \in 1..call.count : Slot(i) \in Handlers

\* The types that the steps below read.
LEMMA PlaceFacts ==
    ASSUME PipelineInv
    PROVE  /\ PipelineTypeOK /\ call \in Calls
           /\ array \in Seq(Handlers \cup {Free}) /\ size \in Nat /\ size <= Len(array) /\ Len(array) \in Nat
           /\ call.fill \in 0..MaxFills /\ call.view \in Seq(Handlers \cup {Free})
           /\ call.shared \in BOOLEAN /\ call.count \in Nat /\ call.next \in Nat
           /\ call # NoCall => call.next \in 1..(call.count + 1)
BY CallFields DEF PipelineInv, PipelineTypeOK, InOrder, CallInOrder

\* Registering leaves the places of a delivery alone.
LEMMA PlacesRegister ==
    ASSUME PipelineInv, PlacesAreTaken, NEW h \in Handlers, Register(h)
    PROVE  PlacesAreTaken'
<1>1. /\ array' \in Seq(Handlers \cup {Free}) /\ size' = size + 1 /\ size' <= Len(array')
      /\ \A i \in 1..size : array'[i] = array[i]
      /\ array'[size + 1] = h
      /\ size < Len(array) => array' = [array EXCEPT ![size + 1] = h]
  BY PlaceFacts, AddWrites DEF Register
<1>2. \/ call' = call /\ (call.shared => size < Len(array))
      \/ call' = call /\ ~call.shared
      \/ call.shared /\ call' = [call EXCEPT !.view = array, !.shared = FALSE]
  BY DEF Register, Add
<1>3. \A i \in 1..size' : array'[i] \in Handlers
  <2> TAKE i \in 1..size'
  <2>1. i \in 1..size \/ i = size + 1
    BY <1>1, PlaceFacts
  <2> QED BY <1>1, <2>1 DEF PlacesAreTaken
<1>4. ASSUME call' # NoCall
      PROVE  /\ call'.count <= Len(IF call'.shared THEN array' ELSE call'.view)
             /\ \A i \in 1..call'.count : Slot(i)' \in Handlers
  <2>1. call # NoCall
    BY <1>2, <1>4 DEF NoCall
  <2>2. CASE call' = call /\ call.shared /\ size < Len(array)
    <3>1. array' = [array EXCEPT ![size + 1] = h] /\ Len(array') = Len(array) /\ call.count <= Len(array)
      BY <1>1, <2>1, <2>2, PlaceFacts DEF PlacesAreTaken
    <3>2. \A i \in 1..call.count : array'[i] \in Handlers
      <4> TAKE i \in 1..call.count
      <4>1. i \in 1..Len(array) /\ array[i] \in Handlers
        BY <2>1, <2>2, <3>1, PlaceFacts DEF PlacesAreTaken, Slot
      <4> QED BY <3>1, <4>1, PlaceFacts
    <3> QED BY <2>2, <3>1, <3>2 DEF Slot
  <2>3. CASE call' = call /\ ~call.shared
    BY <2>1, <2>3 DEF PlacesAreTaken, Slot
  <2>4. CASE call.shared /\ call' = [call EXCEPT !.view = array, !.shared = FALSE]
    <3>1. call'.view = array /\ ~call'.shared /\ call'.count = call.count
      BY <2>4, PlaceFacts DEF Calls
    <3> QED BY <2>1, <2>4, <3>1 DEF PlacesAreTaken, Slot
  <2> QED BY <1>2, <2>2, <2>3, <2>4
<1> QED BY <1>3, <1>4 DEF PlacesAreTaken

\* Unregistering moves handlers into places that held handlers.
LEMMA PlacesUnregister ==
    ASSUME PipelineInv, PlacesAreTaken, NEW h, UnregisterFillHandler(h)
    PROVE  PlacesAreTaken'
<1>1. PICK k \in 1..size :
          array' = [j \in DOMAIN array |-> IF j \in k..(size - 1) THEN array[j + 1] ELSE array[j]]
  BY DEF UnregisterFillHandler
<1>2. size' = size - 1 /\ Len(array') = Len(array) /\ k \in Nat /\ 1 <= k
  BY RemoveTypes, PlaceFacts
<1>3. call' = call
  BY DEF UnregisterFillHandler, delivery
<1>4. \A j \in 1..Len(array) : array[j] \in Handlers => array'[j] \in Handlers
  <2> SUFFICES ASSUME NEW j \in 1..Len(array), array[j] \in Handlers PROVE array'[j] \in Handlers
    OBVIOUS
  <2>1. array'[j] = IF j \in k..(size - 1) THEN array[j + 1] ELSE array[j]
    BY <1>1, PlaceFacts
  <2>2. j \in k..(size - 1) => j + 1 \in 1..size
    BY <1>2, PlaceFacts
  <2> QED BY <2>1, <2>2 DEF PlacesAreTaken
<1>5. \A i \in 1..size' : array'[i] \in Handlers
  <2> TAKE i \in 1..size'
  <2>1. i \in 1..size /\ i \in 1..Len(array)
    BY <1>2, PlaceFacts
  <2> QED BY <1>4, <2>1 DEF PlacesAreTaken
<1>6. ASSUME call # NoCall
      PROVE  /\ call.count <= Len(IF call.shared THEN array' ELSE call.view)
             /\ \A i \in 1..call.count : Slot(i)' \in Handlers
  <2>1. CASE call.shared
    <3>1. call.count <= Len(array) /\ \A i \in 1..call.count : array[i] \in Handlers
      BY <1>6, <2>1 DEF PlacesAreTaken, Slot
    <3>2. \A i \in 1..call.count : i \in 1..Len(array)
      BY <3>1, PlaceFacts
    <3> QED BY <1>2, <1>3, <1>4, <2>1, <3>1, <3>2 DEF Slot
  <2>2. CASE ~call.shared
    BY <1>3, <1>6, <2>2 DEF PlacesAreTaken, Slot
  <2> QED BY <2>1, <2>2
<1> QED BY <1>3, <1>5, <1>6 DEF PlacesAreTaken

\* Every step leaves a handler in every place a delivery may read.
LEMMA PlacesNext == PipelineInv /\ PlacesAreTaken /\ [PipelineNext]_pipelineVars => PlacesAreTaken'
<1> SUFFICES ASSUME PipelineInv, PlacesAreTaken, [PipelineNext]_pipelineVars PROVE PlacesAreTaken'
  OBVIOUS
<1>1. CASE UNCHANGED <<array, size, call>>
  BY <1>1 DEF PlacesAreTaken, Slot
<1>2. ASSUME NEW h \in Handlers, Register(h) PROVE PlacesAreTaken'
  BY <1>2, PlacesRegister
<1>3. ASSUME NEW h \in Others, UnregisterFillHandler(h) PROVE PlacesAreTaken'
  BY <1>3, PlacesUnregister
<1>4. CASE TakeFill
  <2>1. call' = [fill |-> Head(queue), view |-> <<>>, shared |-> TRUE, count |-> size, next |-> 1]
        /\ array' = array /\ size' = size
    BY <1>4 DEF TakeFill, registry
  <2>2. call'.shared /\ call'.count = size
    BY <2>1
  <2> QED BY <2>1, <2>2, PlaceFacts DEF PlacesAreTaken, Slot
<1>5. CASE CallHandler
  <2>1. call # NoCall /\ call' = [call EXCEPT !.next = call.next + 1] /\ array' = array /\ size' = size
    BY <1>5 DEF CallHandler, registry
  <2>2. call'.shared = call.shared /\ call'.count = call.count /\ call'.view = call.view
    BY <2>1, PlaceFacts DEF Calls
  <2> QED BY <2>1, <2>2 DEF PlacesAreTaken, Slot
<1>6. CASE DeliveryEnds
  BY <1>6 DEF DeliveryEnds, registry, PlacesAreTaken
<1>7. \A h \in Others : h \in Handlers
  BY DEF Handlers
<1> QED
  BY <1>1, <1>2, <1>3, <1>4, <1>5, <1>6, <1>7, Sizes
     DEF PipelineNext, StartDispatcher, DispatchFillEvent, StopDispatcher, RegisterFillHandler, Drained, StartLoop,
         HandleFill, StopLoop, FillLoopEnds, registry, delivery, pipelineVars

\* A delivery calls registered functions only: what an Unregister leaves
\* behind in the shared array is never nil (deliverFillEvent,
\* UnregisterFillHandler).
CalleeIsAHandler == call # NoCall /\ call.next <= call.count => Callee \in Handlers

THEOREM NoNilIsCalled == PipelineSpec => []CalleeIsAHandler
<1>1. PipelineInit => PlacesAreTaken
  BY DEF PipelineInit, PlacesAreTaken
<1>2. PipelineInv /\ PlacesAreTaken => CalleeIsAHandler
  <2> SUFFICES ASSUME PipelineInv, PlacesAreTaken, call # NoCall, call.next <= call.count PROVE Callee \in Handlers
    BY DEF CalleeIsAHandler
  <2>1. call.next \in 1..call.count
    BY PlaceFacts
  <2> QED BY <2>1 DEF PlacesAreTaken, Slot, Callee
<1> QED BY <1>1, <1>2, PlacesNext, PipelineInvariant, PTL DEF PipelineSpec

=============================================================================
