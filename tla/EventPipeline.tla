---------------------------- MODULE EventPipeline ----------------------------
(***************************************************************************)
(* internal/marketdata/dispatcher.go and internal/integration/             *)
(* event_loop.go: the way of a fill from its producer through the fill     *)
(* channel of the Dispatcher, its handlers and the fill channel of the     *)
(* EventLoop to the strategy.  Market events and order updates go the same *)
(* way through channels and goroutines of their own, with the same code.   *)
(*                                                                         *)
(* deliverFillEvent copies the slice fillHandlers under the lock and calls *)
(* the handlers without it.  The copy shares its array with the slice, so  *)
(* what Register and Unregister write meanwhile is what it reads: an       *)
(* Unregister moves the later handlers down in place.                      *)
(*                                                                         *)
(* Abstracted: what a fill says, and what the other handlers do with it.   *)
(***************************************************************************)
EXTENDS Naturals, FiniteSets, SequencesExt

CONSTANTS
    Loop, Others,       \* EventLoop.onFill, and the other handlers
    MaxFills,           \* bound on fills produced
    MaxCalls,           \* bound on Register calls of each handler
    DispatcherCap,      \* FillChannelSize
    LoopCap             \* OrderBufferSize

ASSUME PipelineAssumption ==
    /\ Loop \notin Others /\ IsFiniteSet(Others)
    /\ {MaxFills, MaxCalls, DispatcherCap, LoopCap} \subseteq Nat \ {0}

Handlers == Others \cup {Loop}
Free == "free"              \* an unused place of the array
ASSUME FreeAssumption == Free \notin Handlers

VARIABLES
    produced,   \* fills produced so far: 1, 2, ...
    refused,    \* those DispatchFillEvent returned false for
    queue,      \* Dispatcher.fillCh
    array,      \* the array of fillHandlers, whose length is its capacity
    size,       \* len(fillHandlers)
    calls,      \* Register calls so far, by handler
    moved,      \* history: the fills under whose delivery an Unregister wrote
    dispatcher, \* "new", "on", "stopping" (stopCh is closed), "ended"
    call,       \* deliverFillEvent: the fill, its copy of the slice, the index
    heard,      \* history: the fills each handler was called with
    inbox,      \* EventLoop.fillCh
    dropped,    \* fills onFill found no room for
    worker,     \* processFills: "new", "on", "stopping", "ended"
    handled     \* the fills handleFill was called with, in this order

registry == <<array, size, calls, moved>>
delivery == <<call, heard, inbox, dropped>>
pipelineVars == <<produced, refused, queue, registry, dispatcher, delivery, worker, handled>>

Fills == 1..MaxFills
NoCall == [fill |-> 0, view |-> <<>>, shared |-> FALSE, count |-> 0, next |-> 0]
Registered == {array[i] : i \in 1..size}

PipelineTypeOK ==
    /\ produced \in 0..MaxFills
    /\ refused \subseteq Fills /\ dropped \subseteq Fills /\ moved \subseteq Fills
    /\ queue \in Seq(Fills) /\ Len(queue) <= DispatcherCap
    /\ inbox \in Seq(Fills) /\ Len(inbox) <= LoopCap
    /\ array \in Seq(Handlers \cup {Free}) /\ size \in 0..Len(array)
    /\ calls \in [Handlers -> 0..MaxCalls]
    /\ {dispatcher, worker} \subseteq {"new", "on", "stopping", "ended"}
    /\ call.fill \in 0..MaxFills
    /\ heard \in [Handlers -> Seq(Fills)] /\ handled \in Seq(Fills)

PipelineInit ==
    /\ produced = 0 /\ refused = {}
    /\ queue = <<>> /\ inbox = <<>>
    /\ array = <<>> /\ size = 0 /\ calls = [h \in Handlers |-> 0] /\ moved = {}
    /\ dispatcher = "new" /\ worker = "new"
    /\ call = NoCall
    /\ heard = [h \in Handlers |-> <<>>]
    /\ dropped = {} /\ handled = <<>>

-----------------------------------------------------------------------------
(* Dispatcher *)

StartDispatcher ==
    /\ dispatcher = "new" /\ dispatcher' = "on"
    /\ UNCHANGED <<produced, refused, queue, registry, delivery, worker, handled>>

\* DispatchFillEvent never blocks: a full channel refuses the fill.  A channel
\* nobody reads any more still takes it.
DispatchFillEvent ==
    /\ produced < MaxFills
    /\ produced' = produced + 1
    /\ IF Len(queue) < DispatcherCap
       THEN queue' = Append(queue, produced + 1) /\ UNCHANGED refused
       ELSE refused' = refused \cup {produced + 1} /\ UNCHANGED queue
    /\ UNCHANGED <<registry, dispatcher, delivery, worker, handled>>

\* append: into the array while there is room, else into a copy of twice the
\* capacity; a delivery under way keeps the array it has.
Add(h) ==
    /\ size' = size + 1
    /\ IF size < Len(array)
       THEN array' = [array EXCEPT ![size + 1] = h] /\ UNCHANGED call
       ELSE /\ array' = Append(array, h) \o [i \in 1..(IF size = 0 THEN 0 ELSE size - 1) |-> Free]
            /\ call' = IF call.shared THEN [call EXCEPT !.view = array, !.shared = FALSE] ELSE call

Register(h) ==
    /\ h \notin Registered /\ calls[h] < MaxCalls
    /\ calls' = [calls EXCEPT ![h] = @ + 1]
    /\ Add(h) /\ UNCHANGED moved

RegisterFillHandler(h) ==
    /\ h \in Others /\ Register(h)
    /\ UNCHANGED <<produced, refused, queue, dispatcher, heard, inbox, dropped, worker, handled>>

\* append(handlers[:i], handlers[i+1:]...): the later ones move down in place,
\* and the last stays behind the end.  A delivery that reads the same array may
\* then skip a handler or call one twice.
UnregisterFillHandler(h) ==
    /\ h \in Registered \cap Others
    /\ \E i \in 1..size :
          /\ array[i] = h
          /\ array' = [j \in DOMAIN array |-> IF j \in i..(size - 1) THEN array[j + 1] ELSE array[j]]
    /\ size' = size - 1
    /\ moved' = IF call.shared THEN moved \cup {call.fill} ELSE moved
    /\ UNCHANGED <<produced, refused, queue, calls, dispatcher, delivery, worker, handled>>

\* processFillEvents takes a fill, also after stopCh is closed.
TakeFill ==
    /\ dispatcher \in {"on", "stopping"} /\ call = NoCall
    /\ queue # <<>>
    /\ queue' = Tail(queue)
    /\ call' = [fill |-> Head(queue), view |-> <<>>, shared |-> TRUE, count |-> size, next |-> 1]
    /\ UNCHANGED <<produced, refused, registry, dispatcher, heard, inbox, dropped, worker, handled>>

\* Mutant: onFill waits for nothing and loses nothing, the handler returns
\* without having queued the fill.
MutOnFill(f) == UNCHANGED <<inbox, dropped>>

\* EventLoop.onFill never blocks either.
OnFill(f) ==
    IF Len(inbox) < LoopCap
    THEN inbox' = Append(inbox, f) /\ UNCHANGED dropped
    ELSE dropped' = dropped \cup {f} /\ UNCHANGED inbox

\* The handler at index next of the copy.
Callee == IF call.shared THEN array[call.next] ELSE call.view[call.next]

\* deliverFillEvent, one handler.
CallHandler ==
    /\ call # NoCall /\ call.next <= call.count
    /\ heard' = [heard EXCEPT ![Callee] = Append(@, call.fill)]
    /\ IF Callee = Loop THEN OnFill(call.fill) ELSE UNCHANGED <<inbox, dropped>>
    /\ call' = [call EXCEPT !.next = @ + 1]
    /\ UNCHANGED <<produced, refused, queue, registry, dispatcher, worker, handled>>

DeliveryEnds ==
    /\ call # NoCall /\ call.next > call.count
    /\ call' = NoCall
    /\ UNCHANGED <<produced, refused, queue, registry, dispatcher, heard, inbox, dropped, worker, handled>>

StopDispatcher ==
    /\ dispatcher = "on" /\ dispatcher' = "stopping"
    /\ UNCHANGED <<produced, refused, queue, registry, delivery, worker, handled>>

\* Mutant: the goroutine returns when stopCh is closed, without draining.
MutDrained ==
    /\ dispatcher = "stopping" /\ call = NoCall
    /\ dispatcher' = "ended"
    /\ UNCHANGED <<produced, refused, queue, registry, delivery, worker, handled>>

\* The drain finds the channel empty: the goroutine ends, Stop returns.
Drained ==
    /\ dispatcher = "stopping" /\ call = NoCall /\ queue = <<>>
    /\ dispatcher' = "ended"
    /\ UNCHANGED <<produced, refused, queue, registry, delivery, worker, handled>>

-----------------------------------------------------------------------------
(* EventLoop *)

\* Start: registers onFill, then starts processFills.
StartLoop ==
    /\ worker = "new" /\ worker' = "on"
    /\ Register(Loop)
    /\ UNCHANGED <<produced, refused, queue, dispatcher, heard, inbox, dropped, handled>>

\* processFills and handleFill.  With stopCh closed select takes either.
HandleFill ==
    /\ worker \in {"on", "stopping"} /\ inbox # <<>>
    /\ inbox' = Tail(inbox)
    /\ handled' = Append(handled, Head(inbox))
    /\ UNCHANGED <<produced, refused, queue, registry, dispatcher, call, heard, dropped, worker>>

StopLoop ==
    /\ worker = "on" /\ worker' = "stopping"
    /\ UNCHANGED <<produced, refused, queue, registry, dispatcher, delivery, handled>>

\* Nothing is drained here, and onFill stays registered.
FillLoopEnds ==
    /\ worker = "stopping" /\ worker' = "ended"
    /\ UNCHANGED <<produced, refused, queue, registry, dispatcher, delivery, handled>>

-----------------------------------------------------------------------------
PipelineNext ==
    \/ StartDispatcher \/ DispatchFillEvent \/ StopDispatcher
    \/ \E h \in Others : RegisterFillHandler(h) \/ UnregisterFillHandler(h)
    \/ TakeFill \/ CallHandler \/ DeliveryEnds \/ Drained
    \/ StartLoop \/ HandleFill \/ StopLoop \/ FillLoopEnds

PipelineSpec == PipelineInit /\ [][PipelineNext]_pipelineVars

\* The goroutines are scheduled and handlers return.
PipelineFairness ==
    /\ WF_pipelineVars(TakeFill) /\ WF_pipelineVars(CallHandler) /\ WF_pipelineVars(DeliveryEnds) /\ WF_pipelineVars(Drained)
    /\ WF_pipelineVars(HandleFill) /\ WF_pipelineVars(FillLoopEnds)

PipelineFairSpec == PipelineSpec /\ PipelineFairness

-----------------------------------------------------------------------------
(* Properties *)

Times(f, s) == Cardinality({i \in DOMAIN s : s[i] = f})

\* Once the event loop listens, a fill that was produced is in one place: it
\* was refused to its producer, waits, is on its way, or was handled or dropped
\* once.  None disappears between the two channels and none is there twice,
\* whatever other handlers come and go (DispatchFillEvent, onFill, handleFill),
\* but for a fill under whose delivery an Unregister moved the handlers.
EveryFillOnce ==
    \A f \in (1..produced) \ moved :
        LET waiting == Times(f, queue) + (IF call.fill = f /\ Times(f, heard[Loop]) = 0 THEN 1 ELSE 0)
            given == Times(f, inbox) + Times(f, handled) + (IF f \in dropped THEN 1 ELSE 0)
        IN  /\ given = Times(f, heard[Loop])
            /\ given + waiting + (IF f \in refused THEN 1 ELSE 0) <= 1

\* The strategy sees the fills in the order they were produced (processFills
\* and processFillEvents are one goroutine each), and none twice but one under
\* whose delivery an Unregister moved the handlers.
HandledInOrder ==
    \A i, j \in DOMAIN handled :
        i < j => handled[i] < handled[j] \/ (handled[i] = handled[j] /\ handled[i] \in moved)

\* A fill the dispatcher took before it was stopped reaches a handler that was
\* registered then and stays, also through Stop (processFillEvents drains),
\* unless an Unregister moves the handlers under its delivery.
TakenIsDelivered ==
    \A f \in Fills, h \in Handlers :
        (/\ dispatcher \in {"on", "stopping"} /\ h \in Registered
         /\ \E i \in DOMAIN queue : queue[i] = f)
            ~> (f \in ToSet(heard[h]) \/ h \notin Registered \/ f \in moved)

=============================================================================
