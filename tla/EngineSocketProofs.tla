-------------------------- MODULE EngineSocketProofs --------------------------
(***************************************************************************)
(* Theorems about EngineSocket, for every set of callers, every capacity   *)
(* of the channels and every choice of the parts taken as finished: the    *)
(* socket closes once and for good and takes packets in order; no packet   *)
(* is duplicated or lost, and the socket implements PacketPipe; no         *)
(* callback is queued or run twice.                                        *)
(***************************************************************************)
EXTENDS EngineSocket, FiniteSetTheorems, SequenceTheorems, TLAPS

-----------------------------------------------------------------------------
(* Type correctness *)

\* Framing reads the one batch that TakeCallbacks left for it.
FramingOK == \A t \in Tasks : pc[t] = "framing" => Len(taken_callbacks[t]) = 1

TypeInv == TypeOK /\ FramingOK

\* The labels that a step other than TakeCallbacks goes to.
Targets == Labels \ {"framing"}

\* Targets holds every label the steps name.
LEMMA LabelFacts ==
  /\ {"idle", "panicked", "stuck"} \subseteq Targets
  /\ {"check", "push", "flush", "writable", "flush_event", "take", "cmd",
      "callbacks", "extend", "drain_event", "closing"} \subseteq Targets
  /\ {"open", "upgrades", "open_event", "ping_timeout", "initial",
      "subscribe", "respond", "poll", "done"} \subseteq Targets
  /\ {"unborn", "recv", "packet", "heartbeat", "message_event", "on_drain",
      "error_check", "close_check", "close_write", "close_transport",
      "close_event", "ended"} \subseteq Targets
  /\ "framing" \in Labels /\ Targets \subseteq Labels
  /\ Returns \subseteq Targets
  /\ {"idle", "open_event", "subscribe", "done", "on_drain", "heartbeat"}
       \subseteq Returns
  BY DEF Labels, SendSteps, FlushSteps, HandshakeSteps, SubscriberSteps, Returns,
         Targets

\* The two tasks of the library are tasks, different from each other and from
\* the callers.
LEMMA TaskFacts ==
  /\ Handshake \in Tasks /\ Subscriber \in Tasks /\ Callers \subseteq Tasks
  /\ Handshake # Subscriber /\ Handshake \notin Callers /\ Subscriber \notin Callers
  BY SocketAssumption DEF Tasks, Handshake, Subscriber

\* What Head, Tail and Append do to types and lengths.
LEMMA SeqFacts ==
  ASSUME NEW S, NEW s \in Seq(S)
  PROVE  /\ \A x \in S : Append(s, x) \in Seq(S) /\ Len(Append(s, x)) = Len(s) + 1
         /\ s # <<>> => /\ Head(s) \in S /\ Tail(s) \in Seq(S)
                        /\ Len(s) > 0 /\ Len(Tail(s)) = Len(s) - 1
  OBVIOUS

\* The initial state has the right types.
LEMMA TypeInit == Init => TypeInv
  <1> SUFFICES ASSUME Init PROVE TypeInv
    OBVIOUS
  <1>1. transport \in {"polling", "websocket", "none"}
    BY SocketAssumption DEF Init
  <1>2. /\ pc \in [Tasks -> Labels] /\ ret \in [Tasks -> Returns]
        /\ op \in [Tasks -> AllOps \cup Packets \cup {"none"}]
        /\ \A t \in Tasks : pc[t] # "framing"
    BY LabelFacts DEF Init
  <1>3. /\ batch \in [Tasks -> Seq(Nat)]
        /\ taken_callbacks \in [Tasks -> Seq(Seq(Nat))]
    BY DEF Init
  <1>4. Len(events) <= EventCap /\ Len(tevents) <= TransportCap
    BY SocketAssumption DEF Init
  <1>5. lagged \in BOOLEAN /\ clients \in BOOLEAN /\ announced \in BOOLEAN
    BY Zenon DEF Init
  <1>6. /\ write_buffer \in Seq(Nat) /\ pending_callbacks \in Seq(Nat)
        /\ flushed_callbacks \in Seq(Seq(Nat)) /\ cmds \in Seq(Seq(Nat))
        /\ events \in Seq(SocketEvents) /\ tevents \in Seq(AllTransportEvents)
        /\ fired \in Seq(Nat)
    BY DEF Init
  <1>7. accepted \in Nat /\ closes \in Nat /\ reported \in Nat
    BY DEF Init
  <1> QED
    BY <1>1, <1>2, <1>3, <1>4, <1>5, <1>6, <1>7, Zenon
    DEF Init, TypeInv, TypeOK, FramingOK

\* A step that changes control state only keeps the types.
LEMMA TypeControl ==
  ASSUME TypeInv,
         pc' \in [Tasks -> Labels], ret' \in [Tasks -> Returns],
         op' \in [Tasks -> AllOps \cup Packets \cup {"none"}],
         \A t \in Tasks : pc'[t] = "framing" => pc[t] = "framing",
         UNCHANGED <<socketState, channels, server, batch, taken_callbacks, history>>
  PROVE  TypeInv'
  <1>1. TypeOK'
    BY DEF TypeInv, TypeOK, socketState, channels, server, history
  <1>2. FramingOK'
    BY DEF TypeInv, FramingOK
  <1> QED
    BY <1>1, <1>2 DEF TypeInv

\* A step that only moves a task, such as one at a stub, keeps the types.
LEMMA TypeMove ==
  ASSUME TypeInv, NEW t \in Tasks, NEW l \in Targets, Move(t, l)
  PROVE  TypeInv'
  BY TypeControl, LabelFacts DEF TypeInv, TypeOK, Move, Goto, Targets

\* Calling send_packet, flush or a polling request keeps the types.
LEMMA TypeCall ==
  ASSUME TypeInv, NEW t \in Tasks, NEW e \in Targets, NEW l \in Returns,
         Call(t, e, l), op' \in [Tasks -> AllOps \cup Packets \cup {"none"}]
  PROVE  TypeInv'
  BY TypeControl, LabelFacts DEF TypeInv, TypeOK, Call, Targets

\* An early return of send_packet, flush or a polling request keeps the
\* types, and so does going on.
LEMMA TypeProceedIf ==
  ASSUME TypeInv, NEW t \in Tasks, NEW c \in BOOLEAN, NEW l \in Targets,
         ProceedIf(t, c, l)
  PROVE  TypeInv'
  <1>1. CASE c
    BY <1>1, TypeControl, LabelFacts DEF TypeInv, TypeOK, ProceedIf, Goto, Targets
  <1>2. CASE ~c
    BY <1>2, TypeControl, LabelFacts
    DEF TypeInv, TypeOK, ProceedIf, Return, Goto, Targets
  <1> QED
    BY <1>1, <1>2

\* An awaited send on the channel of SocketEvents keeps the types; it waits
\* for room, so the channel does not exceed its capacity.
LEMMA TypeEmit ==
  ASSUME TypeInv, NEW t \in Tasks, NEW e \in SocketEvents, NEW l \in Targets,
         Emit(t, e, l)
  PROVE  TypeInv'
  <1>1. events' \in Seq(SocketEvents) /\ Len(events') <= EventCap
    BY SocketAssumption DEF TypeInv, TypeOK, Emit, Deliver
  <1>2. pc' \in [Tasks -> Labels] /\ closes' \in Nat
    BY LabelFacts DEF TypeInv, TypeOK, Emit, Deliver, Goto
  <1>3. TypeOK'
    BY <1>1, <1>2 DEF TypeInv, TypeOK, Emit, Deliver, socketState, server
  <1>4. FramingOK'
    BY DEF TypeInv, TypeOK, FramingOK, Emit, Deliver, Goto, Targets
  <1> QED
    BY <1>3, <1>4 DEF TypeInv

\* The steps of send_packet, flush and a polling request keep the types.
LEMMA TypeTask ==
  ASSUME TypeInv, NEW t \in Tasks, TaskStep(t)
  PROVE  TypeInv'
  <1> USE LabelFacts DEF TypeInv
  <1>1. CASE SendCheck(t)
    <2> DEFINE c == ready \in {"Opening", "Open"}
    <2>1. c \in BOOLEAN /\ ProceedIf(t, c, "push")
      BY <1>1 DEF SendCheck
    <2> QED
      <3> HIDE DEF c
      <3> QED BY <2>1, TypeProceedIf
  <1>2. CASE Push(t)
    <2>1. /\ accepted' \in Nat /\ write_buffer' \in Seq(Nat)
          /\ pending_callbacks' \in Seq(Nat)
      BY <1>2 DEF TypeOK, Push
    <2>2. pc' \in [Tasks -> Labels] /\ FramingOK'
      BY <1>2 DEF TypeOK, Push, Goto, FramingOK
    <2> QED
      BY <1>2, <2>1, <2>2 DEF TypeOK, Push, channels, server
  <1>3. CASE FlushCheck(t)
    BY <1>3, TypeProceedIf DEF FlushCheck
  <1>4. CASE FlushWritable(t)
    BY <1>4, TypeProceedIf DEF FlushWritable, IsWritable
  <1>5. CASE FlushEvent(t)
    BY <1>5, TypeEmit DEF FlushEvent, SocketEvents
  <1>6. CASE Take(t)
    BY <1>6 DEF TypeOK, FramingOK, Take, At, Goto, channels, server, history
  <1>7. CASE SendCmd(t)
    BY <1>7 DEF TypeOK, FramingOK, SendCmd, At, Goto, socketState, history
  <1>8. CASE TakeCallbacks(t)
    BY <1>8 DEF TypeOK, FramingOK, TakeCallbacks, At, Goto, channels, server, history
  <1>9. CASE Framing(t)
    <2> DEFINE callbacks == taken_callbacks[t][1]
    <2>1. callbacks \in Seq(Nat)
      BY <1>9 DEF TypeOK, FramingOK, Framing, At
    <2>2. [i \in 1..Len(callbacks) |-> <<callbacks[i]>>] \in Seq(Seq(Nat))
      BY <2>1
    <2>3. taken_callbacks' \in [Tasks -> Seq(Seq(Nat))]
      <3> HIDE DEF callbacks
      <3>1. <<callbacks>> \in Seq(Seq(Nat))
        BY <2>1
      <3>2. \E x \in Seq(Seq(Nat)) :
              taken_callbacks' = [taken_callbacks EXCEPT ![t] = x]
        BY <1>9, <2>2, <3>1 DEF Framing, callbacks
      <3> QED
        BY <3>2 DEF TypeOK
    <2>4. FramingOK'
      BY <1>9 DEF TypeOK, FramingOK, Framing, At, Goto
    <2> QED
      BY <1>9, <2>3, <2>4
      DEF TypeOK, Framing, At, Goto, socketState, channels, server, history
  <1>10. CASE Extend(t)
    BY <1>10 DEF TypeOK, FramingOK, Extend, At, Goto, channels, server, history
  <1>11. CASE DrainEvent(t)
    BY <1>11, TypeEmit DEF DrainEvent, SocketEvents
  <1>12. CASE FlushEnd(t)
    <2>1. CASE ready = "Closing"
      BY <1>12, <2>1
      DEF TypeOK, FramingOK, FlushEnd, Goto, channels, server, history
    <2>2. CASE ready # "Closing"
      BY <1>12, <2>2, TypeControl
      DEF TypeOK, FlushEnd, Return, Goto, socketState, Targets
    <2> QED
      BY <2>1, <2>2
  <1>13. CASE PollRequest(t)
    BY <1>13, TypeProceedIf DEF PollRequest
  <1>14. CASE LockPoisoned(t)
    BY <1>14, TypeMove DEF LockPoisoned
  <1> QED
    BY <1>1, <1>2, <1>3, <1>4, <1>5, <1>6, <1>7, <1>8, <1>9, <1>10, <1>11,
       <1>12, <1>13, <1>14 DEF TaskStep, SendPacket, Flush

\* The steps of the handshake keep the types.
LEMMA TypeHandshake ==
  ASSUME TypeInv, HandshakeStep
  PROVE  TypeInv'
  <1> USE LabelFacts, TaskFacts DEF TypeInv
  <1>1. CASE Open
    BY <1>1 DEF TypeOK, FramingOK, Open, At, Goto, channels, server, history
  <1>2. CASE SendOpenPacket
    BY <1>2, TypeCall DEF TypeOK, SendOpenPacket, Unless
  <1>3. CASE OpenEvent
    BY <1>3, TypeEmit DEF OpenEvent, SocketEvents
  <1>4. CASE SetPingTimeout
    BY <1>4, TypeMove DEF SetPingTimeout, Unless
  <1>5. CASE SendInitialPacket
    BY <1>5, TypeCall DEF TypeOK, SendInitialPacket
  <1>6. CASE SpawnSubscriber
    BY <1>6, TypeControl DEF TypeOK, SpawnSubscriber
  <1>7. CASE Respond
    BY <1>7, TypeCall, TypeMove DEF TypeOK, Respond
  <1> QED
    BY <1>1, <1>2, <1>3, <1>4, <1>5, <1>6, <1>7 DEF HandshakeStep

\* The steps of the subscriber keep the types.
LEMMA TypeSubscriber ==
  ASSUME TypeInv, SubscriberStep
  PROVE  TypeInv'
  <1> USE LabelFacts, TaskFacts DEF TypeInv
  <1>1. CASE Recv
    <2>1. CASE lagged /\ Move(Subscriber, "ended")
      BY <2>1, TypeMove
    <2>2. CASE ~lagged /\ tevents # <<>>
      <3>1. /\ tevents' \in Seq(AllTransportEvents)
            /\ Len(tevents') <= TransportCap
        <4>1. tevents' = Tail(tevents)
          BY <1>1, <2>2 DEF Recv
        <4> QED
          BY <2>2, <4>1, SeqFacts, SocketAssumption DEF TypeOK
      <3>2. \E l \in Targets : Goto(Subscriber, l)
        BY <1>1, <2>2 DEF Recv
      <3>3. /\ pc' \in [Tasks -> Labels]
            /\ \A t \in Tasks : pc'[t] = "framing" => pc[t] = "framing"
        BY <3>2 DEF TypeOK, Goto, Targets
      <3>4. /\ ret' \in [Tasks -> Returns]
            /\ op' \in [Tasks -> AllOps \cup Packets \cup {"none"}]
        BY <1>1, <2>2 DEF TypeOK, Recv
      <3> QED
        BY <1>1, <2>2, <3>1, <3>3, <3>4
        DEF Recv, TypeOK, FramingOK, socketState, server, history
    <2> QED
      BY <1>1, <2>1, <2>2 DEF Recv
  <1>2. CASE OnPacket
    <2>1. \E e \in Targets, l \in Returns : Call(Subscriber, e, l)
      BY <1>2 DEF OnPacket, Unless
    <2> QED
      BY <1>2, <2>1, TypeCall DEF OnPacket, TypeOK
  <1>3. CASE Heartbeat
    BY <1>3, TypeEmit DEF Heartbeat, SocketEvents
  <1>4. CASE MessageEvent
    BY <1>4, TypeEmit DEF MessageEvent, SocketEvents
  <1>5. CASE OnDrain
    <2>1. fired' \in Seq(Nat) /\ flushed_callbacks' \in Seq(Seq(Nat))
      <3>1. CASE flushed_callbacks # <<>>
        <4>1. /\ Head(flushed_callbacks) \in Seq(Nat)
              /\ Tail(flushed_callbacks) \in Seq(Seq(Nat))
          BY <3>1, SeqFacts DEF TypeOK
        <4>2. /\ fired' = fired \o Head(flushed_callbacks)
              /\ flushed_callbacks' = Tail(flushed_callbacks)
          BY <1>5, <3>1 DEF OnDrain
        <4> HIDE DEF TypeInv
        <4>3. fired \in Seq(Nat)
          BY DEF TypeInv, TypeOK
        <4> QED
          BY <4>1, <4>2, <4>3
      <3>2. CASE flushed_callbacks = <<>>
        BY <1>5, <3>2 DEF OnDrain, TypeOK
      <3> QED
        BY <3>1, <3>2
    <2> QED
      BY <1>5, <2>1 DEF TypeOK, FramingOK, OnDrain, Goto, channels, server
  <1>6. CASE OnTransportError
    BY <1>6, TypeMove DEF OnTransportError
  <1>7. CASE OnCloseCheck
    BY <1>7, TypeMove DEF OnCloseCheck
  <1>8. CASE OnCloseWrite
    BY <1>8 DEF TypeOK, FramingOK, OnCloseWrite, Goto, channels, server, history
  <1>9. CASE OnCloseTransport
    BY <1>9 DEF TypeOK, FramingOK, OnCloseTransport, Goto, channels, server, history
  <1>10. CASE OnCloseEvent
    BY <1>10, TypeEmit DEF OnCloseEvent, SocketEvents
  <1> QED
    BY <1>1, <1>2, <1>3, <1>4, <1>5, <1>6, <1>7, <1>8, <1>9, <1>10
    DEF SubscriberStep

\* The operations of the callers keep the types.
LEMMA TypeCaller ==
  ASSUME TypeInv, NEW t \in Callers, CallerStart(t)
  PROVE  TypeInv'
  <1> USE LabelFacts, TaskFacts DEF TypeInv
  <1>1. CASE StartSend(t)
    <2>1. /\ Call(t, "check", "idle")
          /\ op' \in [Tasks -> AllOps \cup Packets \cup {"none"}]
      BY <1>1 DEF StartSend, TypeOK, AllOps
    <2> QED
      BY <2>1, TypeCall
  <1>2. CASE StartPoll(t)
    BY <1>2, TypeCall DEF StartPoll, TypeOK, AllOps
  <1>3. CASE Close(t)
    BY <1>3 DEF TypeOK, FramingOK, Close, Goto, channels, server, history
  <1>4. CASE MaybeUpgrade(t)
    BY <1>4 DEF TypeOK, FramingOK, MaybeUpgrade, Goto, channels, server, history
  <1>5. CASE CloseSocket(t)
    BY <1>5
    DEF TypeOK, FramingOK, CloseSocket, Goto, Unless, socketState, channels, history
  <1> QED
    BY <1>1, <1>2, <1>3, <1>4, <1>5 DEF CallerStart

\* Every step keeps the types.
LEMMA TypeNext == TypeInv /\ [Next]_vars => TypeInv'
  <1> SUFFICES ASSUME TypeInv, [Next]_vars PROVE TypeInv'
    OBVIOUS
  <1>1. CASE \E t \in Tasks : TaskStep(t)
    BY <1>1, TypeTask
  <1>2. CASE \E t \in Callers : CallerStart(t)
    BY <1>2, TypeCaller
  <1>3. ASSUME NEW e \in TransportEvents, Report(e)
        PROVE  TypeInv'
    <2>1. /\ tevents' \in Seq(AllTransportEvents) /\ Len(tevents') <= TransportCap
          /\ lagged' \in BOOLEAN
      <3>1. e \in AllTransportEvents /\ TransportCap \in Nat \ {0}
        BY SocketAssumption
      <3>2. CASE UNCHANGED <<tevents, lagged>>
        BY <3>2 DEF TypeInv, TypeOK
      <3>3. CASE /\ Len(tevents) < TransportCap
                 /\ tevents' = Append(tevents, e) /\ UNCHANGED lagged
        BY <3>1, <3>3, SeqFacts DEF TypeInv, TypeOK
      <3>4. CASE /\ ~(Len(tevents) < TransportCap)
                 /\ tevents' = Append(Tail(tevents), e) /\ lagged' = TRUE
        <4>1. Len(tevents) = TransportCap /\ tevents # <<>>
          BY <3>1, <3>4 DEF TypeInv, TypeOK
        <4>2. Tail(tevents) \in Seq(AllTransportEvents)
              /\ Len(Tail(tevents)) = TransportCap - 1
          BY <4>1, SeqFacts DEF TypeInv, TypeOK
        <4> QED
          BY <3>1, <3>4, <4>2, SeqFacts
      <3> QED
        BY <1>3, <3>2, <3>3, <3>4 DEF Report
    <2>2. reported' \in Nat /\ peer' \in {"up", "gone"}
      BY <1>3 DEF Report, TypeInv, TypeOK
    <2> QED
      BY <1>3, <2>1, <2>2
      DEF Report, TypeInv, TypeOK, FramingOK, socketState, server, tasks
  <1>4. CASE HandshakeStep
    BY <1>4, TypeHandshake
  <1>5. CASE SubscriberStep
    BY <1>5, TypeSubscriber
  <1>6. CASE TrySubscribe
    BY <1>6 DEF TypeInv, TypeOK, FramingOK, TrySubscribe, socketState, channels, tasks, history
  <1>7. CASE LoopRecv
    <2>1. events' \in Seq(SocketEvents) /\ Len(events') <= EventCap
      BY <1>7, SocketAssumption DEF LoopRecv, TypeInv, TypeOK
    <2>2. announced' \in BOOLEAN
      BY <1>7 DEF LoopRecv, TypeInv, TypeOK
    <2> QED
      BY <1>7, <2>1, <2>2
      DEF TypeInv, TypeOK, FramingOK, LoopRecv, socketState, tasks, history
  <1>8. CASE LoopRemove
    BY <1>8 DEF TypeInv, TypeOK, FramingOK, LoopRemove, socketState, channels, tasks, history
  <1>9. CASE UNCHANGED vars
    BY <1>9
    DEF TypeInv, TypeOK, FramingOK, vars, socketState, channels, server, tasks, history
  <1> QED
    BY <1>1, <1>2, <1>3, <1>4, <1>5, <1>6, <1>7, <1>8, <1>9 DEF Next, EventLoop

\* EngineSocket is type correct; the channel of SocketEvents in particular
\* never exceeds its capacity, and the callbacks that Framing splits exist.
THEOREM TypeCorrect == Spec => []TypeOK
  <1>1. TypeInv => TypeOK
    BY DEF TypeInv
  <1> QED
    BY <1>1, TypeInit, TypeNext, PTL DEF Spec

-----------------------------------------------------------------------------
(* The socket is closed once and for all *)

\* open() assigns ready before anything can close the socket; between the two
\* locks of on_close nobody else closes it; the Close event comes after.
CloseInv ==
  /\ pc[Handshake] = "open" => ready = "Opening" /\ pc[Subscriber] = "unborn"
  /\ pc[Subscriber] = "close_write" => ready # "Closed"
  /\ pc[Subscriber] \in {"close_transport", "close_event"} => ready = "Closed" /\ closes = 0
  /\ ready # "Closed" => closes = 0
  /\ closes <= 1

\* A step that leaves ready and closes alone, brings no task to "open" and does
\* not bring the subscriber to life or between the steps of on_close keeps it.
LEMMA CloseFrame ==
  ASSUME CloseInv, UNCHANGED <<ready, closes>>,
         pc'[Handshake] = "open" => /\ pc[Handshake] = "open"
                                    /\ pc'[Subscriber] = pc[Subscriber],
         pc'[Subscriber] \in {"close_write", "close_transport", "close_event"}
           => pc'[Subscriber] = pc[Subscriber]
  PROVE  CloseInv' /\ (ready = "Closed" => ready' = "Closed")
  BY DEF CloseInv

\* The labels that keep CloseInv without further argument.
Harmless == Labels \ {"open", "close_write", "close_transport", "close_event"}

\* Harmless holds every label but those of open() and on_close().
LEMMA HarmlessFacts ==
  /\ Returns \subseteq Harmless
  /\ {"check", "push", "flush", "writable", "flush_event", "take", "cmd",
      "callbacks", "framing", "extend", "drain_event", "closing"} \subseteq Harmless
  /\ {"upgrades", "open_event", "ping_timeout", "initial", "subscribe",
      "respond", "poll", "done", "recv", "packet", "message_event",
      "error_check", "close_check", "ended", "idle", "panicked", "stuck"}
        \subseteq Harmless
  BY DEF Harmless, Labels, SendSteps, FlushSteps, HandshakeSteps, SubscriberSteps, Returns

\* A step of one task to a harmless label keeps CloseInv.
LEMMA CloseGoto ==
  ASSUME TypeInv, CloseInv, NEW t \in Tasks, NEW l \in Harmless, Goto(t, l),
         pc[t] # "unborn", UNCHANGED <<ready, closes>>
  PROVE  CloseInv' /\ (ready = "Closed" => ready' = "Closed")
  BY CloseFrame, TaskFacts DEF Goto, TypeInv, TypeOK, Harmless, CloseInv

\* An early return of send_packet, flush or a polling request keeps CloseInv.
LEMMA CloseProceedIf ==
  ASSUME TypeInv, CloseInv, NEW t \in Tasks, NEW c \in BOOLEAN, NEW l \in Harmless,
         pc[t] # "unborn", ProceedIf(t, c, l)
  PROVE  CloseInv' /\ (ready = "Closed" => ready' = "Closed")
  <1>1. UNCHANGED <<ready, closes>>
    BY DEF ProceedIf, socketState, history
  <1>2. ret[t] \in Harmless
    BY HarmlessFacts DEF TypeInv, TypeOK
  <1>3. Goto(t, l) \/ Goto(t, ret[t])
    BY DEF ProceedIf, Return
  <1> QED
    BY <1>1, <1>2, <1>3, CloseGoto

\* Sending any SocketEvent but Close keeps CloseInv.
LEMMA CloseEmit ==
  ASSUME TypeInv, CloseInv, NEW t \in Tasks, NEW e, e # "close", NEW l \in Harmless,
         pc[t] # "unborn", Emit(t, e, l)
  PROVE  CloseInv' /\ (ready = "Closed" => ready' = "Closed")
  BY CloseGoto DEF Emit, Deliver, socketState

\* send_packet, flush and polling requests.
LEMMA CloseTask ==
  ASSUME TypeInv, CloseInv, NEW t \in Tasks, TaskStep(t)
  PROVE  CloseInv' /\ (ready = "Closed" => ready' = "Closed")
  <1> USE HarmlessFacts
  <1>1. CASE SendCheck(t)
    <2> DEFINE c == ready \in {"Opening", "Open"}
    <2>1. c \in BOOLEAN /\ pc[t] # "unborn" /\ ProceedIf(t, c, "push")
      BY <1>1 DEF SendCheck, At
    <2> QED
      <3> HIDE DEF c
      <3> QED BY <2>1, CloseProceedIf
  <1>2. CASE Push(t)
    BY <1>2, CloseGoto DEF Push, At
  <1>3. CASE FlushCheck(t)
    BY <1>3, CloseProceedIf DEF FlushCheck, At
  <1>4. CASE FlushWritable(t)
    BY <1>4, CloseProceedIf DEF FlushWritable, At, IsWritable
  <1>5. CASE FlushEvent(t)
    BY <1>5, CloseEmit DEF FlushEvent, At
  <1>6. CASE Take(t)
    BY <1>6, CloseGoto DEF Take, At, history
  <1>7. CASE SendCmd(t)
    BY <1>7, CloseGoto DEF SendCmd, At, socketState, history
  <1>8. CASE TakeCallbacks(t)
    BY <1>8, CloseGoto DEF TakeCallbacks, At, history
  <1>9. CASE Framing(t)
    BY <1>9, CloseGoto DEF Framing, At, socketState, history
  <1>10. CASE Extend(t)
    BY <1>10, CloseGoto DEF Extend, At, history
  <1>11. CASE DrainEvent(t)
    BY <1>11, CloseEmit DEF DrainEvent, At
  <1>12. CASE FlushEnd(t)
    <2>1. ret[t] \in Harmless
      BY DEF TypeInv, TypeOK
    <2> QED
      BY <1>12, <2>1, CloseGoto DEF FlushEnd, At, Return, history
  <1>13. CASE PollRequest(t)
    BY <1>13, CloseProceedIf DEF PollRequest, At
  <1>14. CASE LockPoisoned(t)
    BY <1>14, CloseGoto DEF LockPoisoned, LockSteps, SendSteps, FlushSteps, Move, socketState, history
  <1> QED
    BY <1>1, <1>2, <1>3, <1>4, <1>5, <1>6, <1>7, <1>8, <1>9, <1>10, <1>11,
       <1>12, <1>13, <1>14 DEF TaskStep, SendPacket, Flush

\* The handshake: only open() assigns ready, and it comes first.
LEMMA CloseHandshake ==
  ASSUME TypeInv, CloseInv, HandshakeStep
  PROVE  CloseInv' /\ (ready = "Closed" => ready' = "Closed")
  <1> USE HarmlessFacts, TaskFacts
  <1>1. CASE Open
    BY <1>1 DEF Open, At, Goto, CloseInv, TypeInv, TypeOK, history
  <1>2. CASE SendOpenPacket
    BY <1>2, CloseGoto DEF SendOpenPacket, At, Call, Goto, Unless, socketState, history
  <1>3. CASE OpenEvent
    BY <1>3, CloseEmit DEF OpenEvent, At
  <1>4. CASE SetPingTimeout
    BY <1>4, CloseGoto DEF SetPingTimeout, At, Move, Unless, socketState, history
  <1>5. CASE SendInitialPacket
    BY <1>5, CloseGoto DEF SendInitialPacket, At, Call, Goto, socketState, history
  <1>6. CASE SpawnSubscriber
    BY <1>6, CloseFrame DEF SpawnSubscriber, At, TypeInv, TypeOK, socketState, history
  <1>7. CASE Respond
    BY <1>7, CloseGoto DEF Respond, At, Call, Move, Goto, socketState, history
  <1> QED
    BY <1>1, <1>2, <1>3, <1>4, <1>5, <1>6, <1>7 DEF HandshakeStep

\* The subscriber is the one task that closes the socket.
LEMMA CloseSubscriber ==
  ASSUME TypeInv, CloseInv, SubscriberStep
  PROVE  CloseInv' /\ (ready = "Closed" => ready' = "Closed")
  <1> USE HarmlessFacts, TaskFacts
  <1>1. CASE Recv
    <2>1. pc[Subscriber] # "unborn" /\ \E l \in Harmless : Goto(Subscriber, l)
      BY <1>1 DEF Recv, At, Move
    <2>2. UNCHANGED <<ready, closes>>
      BY <1>1 DEF Recv, Move, socketState, history
    <2> QED
      BY <2>1, <2>2, CloseGoto
  <1>2. CASE OnPacket
    <2>1. \E l \in Harmless : Goto(Subscriber, l)
      BY <1>2 DEF OnPacket, Call, Goto, Unless
    <2> QED
      BY <1>2, <2>1, CloseGoto DEF OnPacket, At, Call, socketState, history
  <1>3. CASE Heartbeat
    BY <1>3, CloseEmit DEF Heartbeat, At
  <1>4. CASE MessageEvent
    BY <1>4, CloseEmit DEF MessageEvent, At
  <1>5. CASE OnDrain
    BY <1>5, CloseGoto DEF OnDrain, At
  <1>6. CASE OnTransportError
    BY <1>6, CloseGoto DEF OnTransportError, At, Move, socketState, history
  <1>7. CASE OnCloseCheck
    BY <1>7 DEF OnCloseCheck, At, Move, Goto, CloseInv, TypeInv, TypeOK, socketState, history
  <1>8. CASE OnCloseWrite
    BY <1>8 DEF OnCloseWrite, At, Goto, CloseInv, TypeInv, TypeOK, history
  <1>9. CASE OnCloseTransport
    BY <1>9 DEF OnCloseTransport, At, Goto, CloseInv, TypeInv, TypeOK, history
  <1>10. CASE OnCloseEvent
    BY <1>10
    DEF OnCloseEvent, Emit, Deliver, At, Goto, CloseInv, TypeInv, TypeOK, socketState
  <1> QED
    BY <1>1, <1>2, <1>3, <1>4, <1>5, <1>6, <1>7, <1>8, <1>9, <1>10
    DEF SubscriberStep

\* Every step keeps CloseInv and leaves a closed socket closed.
LEMMA CloseNext ==
  ASSUME TypeInv, CloseInv, [Next]_vars
  PROVE  CloseInv' /\ (ready = "Closed" => ready' = "Closed")
  <1> USE HarmlessFacts, TaskFacts
  <1>1. CASE \E t \in Tasks : TaskStep(t)
    BY <1>1, CloseTask
  <1>2. ASSUME NEW t \in Callers, CallerStart(t)
        PROVE  CloseInv' /\ (ready = "Closed" => ready' = "Closed")
    <2>1. CASE StartSend(t)
      BY <2>1, CloseGoto DEF StartSend, Start, Call, Goto, socketState, history
    <2>2. CASE StartPoll(t)
      BY <2>2, CloseGoto DEF StartPoll, Start, Call, Goto, socketState, history
    <2>3. CASE Close(t)
      BY <2>3, CloseGoto DEF Close, Start, history
    <2>4. CASE MaybeUpgrade(t)
      <3>1. CASE pc' = pc
        BY <2>4, <3>1, CloseFrame DEF MaybeUpgrade, history
      <3>2. CASE Goto(t, "panicked")
        BY <2>4, <3>2, CloseGoto DEF MaybeUpgrade, Start, history
      <3> QED
        BY <2>4, <3>1, <3>2 DEF MaybeUpgrade
    <2>5. CASE CloseSocket(t)
      BY <2>5, CloseGoto DEF CloseSocket, Start, Unless, socketState, history
    <2> QED
      BY <1>2, <2>1, <2>2, <2>3, <2>4, <2>5 DEF CallerStart
  <1>3. CASE \E e \in TransportEvents : Report(e)
    BY <1>3, CloseFrame DEF Report, socketState, tasks
  <1>4. CASE HandshakeStep
    BY <1>4, CloseHandshake
  <1>5. CASE SubscriberStep
    BY <1>5, CloseSubscriber
  <1>6. CASE TrySubscribe \/ EventLoop \/ UNCHANGED vars
    BY <1>6, CloseFrame
    DEF TrySubscribe, EventLoop, LoopRecv, LoopRemove, vars, socketState, tasks, history
  <1> QED
    BY <1>1, <1>2, <1>3, <1>4, <1>5, <1>6 DEF Next

\* The socket starts Opening, before open() and without a subscriber.
LEMMA CloseInit == Init => CloseInv
  BY TaskFacts DEF Init, CloseInv

\* The Server is told at most once that a socket is closed, and only then.
THEOREM ClosedOnce == Spec => []CloseOnce
  <1>1. TypeInv /\ CloseInv /\ [Next]_vars => CloseInv'
    BY CloseNext
  <1>2. CloseInv => CloseOnce
    BY DEF CloseInv, CloseOnce
  <1> QED
    BY <1>1, <1>2, TypeInit, TypeNext, CloseInit, PTL DEF Spec

\* No step reopens a closed socket.
THEOREM ClosedStaysClosed == Spec => ClosedIsFinal
  <1>1. TypeInv /\ CloseInv /\ [Next]_vars => CloseInv'
    BY CloseNext
  <1>2. TypeInv /\ CloseInv /\ [Next]_vars => [ready = "Closed" => ready' = "Closed"]_vars
    BY CloseNext
  <1> QED
    BY <1>1, <1>2, TypeInit, TypeNext, CloseInit, PTL DEF Spec, ClosedIsFinal

-----------------------------------------------------------------------------
(* Packets are taken in the order of acceptance *)

\* The buffer is the end of the sequence of accepted packets: packet number
\* accepted is its last element, and no number is missing before it.
SuffixInv ==
  /\ Len(write_buffer) <= accepted
  /\ \A i \in 1..Len(write_buffer) : write_buffer[i] = (accepted - Len(write_buffer)) + i

\* What left the buffer comes before it.
TakenInv ==
  /\ \A t \in Tasks : \A i \in DOMAIN batch[t] :
       batch[t][i] <= accepted - Len(write_buffer)
  /\ \A k \in DOMAIN cmds : \A i \in DOMAIN cmds[k] :
       cmds[k][i] <= accepted - Len(write_buffer)

OrderInv == SuffixInv /\ TakenInv

\* A step that touches no packet keeps OrderInv.
LEMMA OrderFrame ==
  ASSUME OrderInv, UNCHANGED <<write_buffer, accepted, batch, cmds>>
  PROVE  OrderInv'
  BY DEF OrderInv, SuffixInv, TakenInv

\* send_packet appends the next number: the buffer stays a run of numbers
\* that ends with the last one accepted.
LEMMA OrderPush ==
  ASSUME TypeInv, OrderInv, NEW t \in Tasks, Push(t)
  PROVE  OrderInv'
  <1>1. /\ write_buffer' = Append(write_buffer, accepted + 1)
        /\ accepted' = accepted + 1 /\ UNCHANGED <<batch, cmds>>
    BY DEF Push, channels
  <1>2. write_buffer \in Seq(Nat) /\ accepted \in Nat
    BY DEF TypeInv, TypeOK
  <1>3. /\ Len(write_buffer') = Len(write_buffer) + 1
        /\ \A i \in 1..Len(write_buffer) : write_buffer'[i] = write_buffer[i]
        /\ write_buffer'[Len(write_buffer) + 1] = accepted + 1
    BY <1>1, <1>2
  <1>4. accepted' - Len(write_buffer') = accepted - Len(write_buffer)
    BY <1>1, <1>2, <1>3
  <1>5. SuffixInv'
    <2>1. Len(write_buffer') <= accepted'
      BY <1>1, <1>2, <1>3 DEF OrderInv, SuffixInv
    <2>2. ASSUME NEW i \in 1..Len(write_buffer')
          PROVE  write_buffer'[i] = (accepted' - Len(write_buffer')) + i
      <3>1. CASE i \in 1..Len(write_buffer)
        BY <1>3, <1>4, <3>1 DEF OrderInv, SuffixInv
      <3>2. CASE i = Len(write_buffer) + 1
        BY <1>1, <1>2, <1>3, <1>4, <3>2
      <3> QED
        BY <1>2, <1>3, <3>1, <3>2
    <2> QED
      BY <2>1, <2>2 DEF SuffixInv
  <1>6. TakenInv'
    BY <1>1, <1>4 DEF OrderInv, TakenInv
  <1> QED
    BY <1>5, <1>6 DEF OrderInv

\* flush takes the whole buffer at once: what it takes was accepted before
\* anything that is pushed later.
LEMMA OrderTake ==
  ASSUME TypeInv, OrderInv, NEW t \in Tasks, Take(t)
  PROVE  OrderInv'
  <1>1. /\ batch' = [batch EXCEPT ![t] = write_buffer] /\ write_buffer' = <<>>
        /\ UNCHANGED <<cmds, accepted>>
    BY DEF Take, channels, history
  <1>2. /\ write_buffer \in Seq(Nat) /\ accepted \in Nat
        /\ batch \in [Tasks -> Seq(Nat)] /\ cmds \in Seq(Seq(Nat))
    BY DEF TypeInv, TypeOK
  <1>3. SuffixInv'
    BY <1>1, <1>2 DEF SuffixInv
  <1>4. accepted' - Len(write_buffer') = accepted
    BY <1>1, <1>2
  <1>5. ASSUME NEW u \in Tasks, NEW i \in DOMAIN batch'[u]
        PROVE  batch'[u][i] <= accepted
    <2>1. CASE u = t
      <3>1. batch'[u] = write_buffer /\ i \in 1..Len(write_buffer)
        BY <1>1, <1>2, <2>1
      <3>2. write_buffer[i] = (accepted - Len(write_buffer)) + i
        BY <3>1 DEF OrderInv, SuffixInv
      <3> QED
        BY <1>2, <3>1, <3>2
    <2>2. CASE u # t
      <3>1. batch'[u] = batch[u] /\ batch[u][i] \in Nat
        BY <1>1, <1>2, <2>2
      <3> QED
        BY <1>2, <3>1 DEF OrderInv, TakenInv
    <2> QED
      BY <2>1, <2>2
  <1>6. ASSUME NEW k \in DOMAIN cmds, NEW i \in DOMAIN cmds[k]
        PROVE  cmds[k][i] <= accepted
    <2>1. cmds[k][i] \in Nat
      BY <1>2
    <2> QED
      BY <1>2, <2>1 DEF OrderInv, TakenInv
  <1> QED
    BY <1>1, <1>3, <1>4, <1>5, <1>6 DEF OrderInv, TakenInv

\* Handing a batch to the transport moves packets that were taken before.
LEMMA OrderSendCmd ==
  ASSUME TypeInv, OrderInv, NEW t \in Tasks, SendCmd(t)
  PROVE  OrderInv'
  <1>1. /\ cmds' = Append(cmds, batch[t]) /\ batch' = [batch EXCEPT ![t] = <<>>]
        /\ UNCHANGED <<write_buffer, accepted>>
    BY DEF SendCmd, socketState, history
  <1>2. batch \in [Tasks -> Seq(Nat)] /\ cmds \in Seq(Seq(Nat))
    BY DEF TypeInv, TypeOK
  <1>3. SuffixInv'
    BY <1>1 DEF OrderInv, SuffixInv
  <1>4. \A u \in Tasks : \A i \in DOMAIN batch'[u] :
          batch'[u][i] <= accepted - Len(write_buffer)
    BY <1>1, <1>2 DEF OrderInv, TakenInv
  <1>5. \A k \in DOMAIN cmds' : \A i \in DOMAIN cmds'[k] :
          cmds'[k][i] <= accepted - Len(write_buffer)
    BY <1>1, <1>2 DEF OrderInv, TakenInv
  <1> QED
    BY <1>1, <1>3, <1>4, <1>5 DEF OrderInv, TakenInv

\* on_close drops the buffer: nothing that was taken changes.
LEMMA OrderClose ==
  ASSUME TypeInv, OrderInv, OnCloseWrite
  PROVE  OrderInv'
  <1>1. write_buffer' = <<>> /\ UNCHANGED <<batch, cmds, accepted>>
    BY DEF OnCloseWrite, channels, history
  <1>2. /\ write_buffer \in Seq(Nat) /\ accepted \in Nat
        /\ batch \in [Tasks -> Seq(Nat)] /\ cmds \in Seq(Seq(Nat))
    BY DEF TypeInv, TypeOK
  <1>3. SuffixInv' /\ accepted' - Len(write_buffer') = accepted
    BY <1>1, <1>2 DEF SuffixInv
  <1>4. ASSUME NEW u \in Tasks, NEW i \in DOMAIN batch[u]
        PROVE  batch[u][i] <= accepted
    <2>1. batch[u][i] \in Nat
      BY <1>2
    <2> QED
      BY <1>2, <2>1 DEF OrderInv, TakenInv
  <1>5. ASSUME NEW k \in DOMAIN cmds, NEW i \in DOMAIN cmds[k]
        PROVE  cmds[k][i] <= accepted
    <2>1. cmds[k][i] \in Nat
      BY <1>2
    <2> QED
      BY <1>2, <2>1 DEF OrderInv, TakenInv
  <1> QED
    BY <1>1, <1>3, <1>4, <1>5 DEF OrderInv, TakenInv

\* Push, Take, SendCmd and OnCloseWrite are the only steps that touch packets.
LEMMA OrderNext == TypeInv /\ OrderInv /\ [Next]_vars => OrderInv'
  <1> SUFFICES ASSUME TypeInv, OrderInv, [Next]_vars PROVE OrderInv'
    OBVIOUS
  <1> USE DEF socketState, channels, server, history
  <1>1. ASSUME NEW t \in Tasks, TaskStep(t)
        PROVE  OrderInv'
    <2>1. CASE Push(t)
      BY <2>1, OrderPush
    <2>2. CASE Take(t)
      BY <2>2, OrderTake
    <2>3. CASE SendCmd(t)
      BY <2>3, OrderSendCmd
    <2>4. CASE SendCheck(t) \/ FlushCheck(t) \/ FlushWritable(t) \/ PollRequest(t)
      BY <2>4, OrderFrame
      DEF SendCheck, FlushCheck, FlushWritable, PollRequest, ProceedIf
    <2>5. CASE FlushEvent(t) \/ DrainEvent(t)
      BY <2>5, OrderFrame DEF FlushEvent, DrainEvent, Emit, Deliver
    <2>6. CASE TakeCallbacks(t) \/ Framing(t) \/ Extend(t) \/ FlushEnd(t) \/ LockPoisoned(t)
      BY <2>6, OrderFrame
      DEF TakeCallbacks, Framing, Extend, FlushEnd, LockPoisoned, Move
    <2> QED
      BY <1>1, <2>1, <2>2, <2>3, <2>4, <2>5, <2>6 DEF TaskStep, SendPacket, Flush
  <1>2. ASSUME NEW t \in Callers, CallerStart(t)
        PROVE  OrderInv'
    BY <1>2, OrderFrame
    DEF CallerStart, StartSend, StartPoll, Close, MaybeUpgrade, CloseSocket, Call, tasks
  <1>3. ASSUME NEW e \in TransportEvents, Report(e)
        PROVE  OrderInv'
    BY <1>3, OrderFrame DEF Report, tasks
  <1>4. CASE HandshakeStep
    BY <1>4, OrderFrame
    DEF HandshakeStep, Open, SendOpenPacket, OpenEvent, SetPingTimeout, SendInitialPacket,
        SpawnSubscriber, Respond, Call, Move, Emit, Deliver
  <1>5. CASE SubscriberStep
    <2>1. CASE OnCloseWrite
      BY <2>1, OrderClose
    <2>2. CASE ~OnCloseWrite
      BY <1>5, <2>2, OrderFrame
      DEF SubscriberStep, Recv, OnPacket, Heartbeat, MessageEvent, OnDrain,
          OnTransportError, OnCloseCheck, OnCloseTransport, OnCloseEvent, Call, Move,
          Emit, Deliver
    <2> QED
      BY <2>1, <2>2
  <1>6. CASE TrySubscribe \/ EventLoop \/ UNCHANGED vars
    BY <1>6, OrderFrame DEF TrySubscribe, EventLoop, LoopRecv, LoopRemove, vars, tasks
  <1> QED
    BY <1>1, <1>2, <1>3, <1>4, <1>5, <1>6 DEF Next

\* flush takes packets in the order of acceptance, whatever tasks flush.
THEOREM InOrder == Spec => []TakenInOrder
  <1>1. Init => OrderInv
    BY DEF Init, OrderInv, SuffixInv, TakenInv
  <1>2. TypeInv /\ OrderInv => TakenInOrder
    <2> SUFFICES ASSUME TypeInv, OrderInv PROVE TakenInOrder
      OBVIOUS
    <2>1. /\ write_buffer \in Seq(Nat) /\ accepted \in Nat
          /\ batch \in [Tasks -> Seq(Nat)] /\ cmds \in Seq(Seq(Nat))
          /\ DOMAIN write_buffer = 1..Len(write_buffer)
      BY DEF TypeInv, TypeOK
    <2>2. \A i, j \in DOMAIN write_buffer : i < j => write_buffer[i] < write_buffer[j]
      BY <2>1 DEF OrderInv, SuffixInv
    <2>3. ASSUME NEW q \in Taken \cup Handed
          PROVE  q \in Nat /\ q <= accepted - Len(write_buffer)
      BY <2>1 DEF OrderInv, TakenInv, Taken, Handed
    <2> QED
      BY <2>1, <2>2, <2>3 DEF TakenInOrder, OrderInv, SuffixInv
  <1> QED
    BY <1>1, <1>2, TypeInit, TypeNext, OrderNext, PTL DEF Spec

-----------------------------------------------------------------------------
(* The handshake is over, but for its answer, when the subscriber is born *)

\* The handshake answers its request, by a poll if the transport is polling.
Answering ==
  \/ pc[Handshake] \in {"respond", "done", "panicked", "stuck"}
  \/ pc[Handshake] \in {"poll"} \cup FlushSteps /\ ret[Handshake] = "done"

BornInv == pc[Subscriber] = "unborn" \/ Answering

\* A step that does not move the handshake and gives no birth keeps BornInv.
LEMMA BornFrame ==
  ASSUME BornInv,
         pc'[Handshake] = pc[Handshake], ret'[Handshake] = ret[Handshake],
         pc[Subscriber] = "unborn" => pc'[Subscriber] = "unborn"
  PROVE  BornInv'
  BY DEF BornInv, Answering

\* send_packet, flush and polling requests keep BornInv: once the subscriber
\* is born the handshake comes from its poll and returns to "done".
LEMMA BornTask ==
  ASSUME TypeInv, BornInv, NEW t \in Tasks, TaskStep(t)
  PROVE  BornInv'
  <1> USE TaskFacts
  <1>1. /\ pc \in [Tasks -> Labels] /\ ret \in [Tasks -> Returns]
        /\ pc[t] \in SendSteps \cup LockSteps
    BY DEF TypeInv, TypeOK, TaskStep, SendPacket, Flush, SendCheck, Push, FlushCheck,
           FlushWritable, FlushEvent, Take, SendCmd, TakeCallbacks, Framing, Extend,
           DrainEvent, FlushEnd, PollRequest, LockPoisoned, At, SendSteps, FlushSteps,
           LockSteps
  <1>2. pc[t] # "unborn"
    BY <1>1 DEF SendSteps, FlushSteps, LockSteps
  <1>3. \A u \in Tasks : u # t => pc'[u] = pc[u] /\ ret'[u] = ret[u]
    BY <1>1
    DEF TaskStep, SendPacket, Flush, SendCheck, Push, FlushCheck,
        FlushWritable, FlushEvent, Take, SendCmd, TakeCallbacks, Framing, Extend,
        DrainEvent, FlushEnd, PollRequest, LockPoisoned, ProceedIf, Return, Goto, Move,
        Emit, Deliver
  <1>4. CASE t # Handshake
    BY <1>2, <1>3, <1>4, BornFrame
  <1>5. CASE t = Handshake /\ pc[Subscriber] = "unborn"
    BY <1>3, <1>5 DEF BornInv
  <1>6. CASE t = Handshake /\ pc[Subscriber] # "unborn"
    <2>1. Answering
      BY <1>6 DEF BornInv
    <2>2. CASE LockPoisoned(t)
      BY <1>1, <1>6, <2>2 DEF LockPoisoned, Move, Goto, BornInv, Answering
    <2>3. CASE SendCheck(t) \/ Push(t)
      BY <1>6, <2>1, <2>3 DEF SendCheck, Push, At, Answering, FlushSteps
    <2>4. CASE Flush(t) \/ PollRequest(t)
      <3>1. ret[t] = "done"
        BY <1>6, <2>1, <2>4
        DEF Flush, FlushCheck, FlushWritable, FlushEvent, Take, SendCmd, TakeCallbacks,
            Framing, Extend, DrainEvent, FlushEnd, PollRequest, At, Answering
      <3>2. \/ pc'[t] \in FlushSteps /\ ret'[t] = ret[t]
            \/ pc'[t] = ret[t] \/ pc'[t] = "stuck"
        BY <1>1, <2>4
        DEF Flush, FlushCheck, FlushWritable, FlushEvent, Take, SendCmd, TakeCallbacks,
            Framing, Extend, DrainEvent, FlushEnd, PollRequest, ProceedIf, Return, Goto,
            Emit, Deliver, FlushSteps
      <3> QED
        BY <1>6, <3>1, <3>2 DEF BornInv, Answering
    <2> QED
      BY <2>2, <2>3, <2>4 DEF TaskStep, SendPacket
  <1> QED
    BY <1>4, <1>5, <1>6

\* The handshake gives birth to the subscriber just before it answers.
LEMMA BornHandshake ==
  ASSUME TypeInv, BornInv, HandshakeStep
  PROVE  BornInv'
  <1> USE TaskFacts
  <1>1. pc \in [Tasks -> Labels] /\ ret \in [Tasks -> Returns]
    BY DEF TypeInv, TypeOK
  <1>2. CASE SpawnSubscriber
    BY <1>1, <1>2 DEF SpawnSubscriber, BornInv, Answering
  <1>3. CASE Respond
    BY <1>1, <1>3 DEF Respond, Call, Move, Goto, At, BornInv, Answering
  <1>4. CASE Open \/ SendOpenPacket \/ OpenEvent \/ SetPingTimeout \/ SendInitialPacket
    <2>1. /\ pc[Handshake] \in {"open", "upgrades", "open_event", "ping_timeout", "initial"}
          /\ pc'[Subscriber] = pc[Subscriber]
      BY <1>1, <1>4
      DEF Open, SendOpenPacket, OpenEvent, SetPingTimeout, SendInitialPacket, At, Call,
          Move, Emit, Deliver, Goto
    <2>2. pc[Subscriber] = "unborn"
      BY <2>1 DEF BornInv, Answering, FlushSteps
    <2> QED
      BY <2>1, <2>2 DEF BornInv
  <1> QED
    BY <1>2, <1>3, <1>4 DEF HandshakeStep

\* Every step keeps BornInv.
LEMMA BornNext == TypeInv /\ BornInv /\ [Next]_vars => BornInv'
  <1> SUFFICES ASSUME TypeInv, BornInv, [Next]_vars PROVE BornInv'
    OBVIOUS
  <1> USE TaskFacts
  <1>0. pc \in [Tasks -> Labels] /\ ret \in [Tasks -> Returns]
    BY DEF TypeInv, TypeOK
  <1>1. CASE \E t \in Tasks : TaskStep(t)
    BY <1>1, BornTask
  <1>2. ASSUME NEW t \in Callers, CallerStart(t)
        PROVE  BornInv'
    BY <1>0, <1>2, BornFrame
    DEF CallerStart, StartSend, StartPoll, Close, MaybeUpgrade, CloseSocket, Call, Goto, tasks
  <1>3. ASSUME NEW e \in TransportEvents, Report(e)
        PROVE  BornInv'
    BY <1>3, BornFrame DEF Report, tasks
  <1>4. CASE HandshakeStep
    BY <1>4, BornHandshake
  <1>5. CASE SubscriberStep
    <2>1. /\ pc[Subscriber] # "unborn" /\ pc'[Handshake] = pc[Handshake]
          /\ ret'[Handshake] = ret[Handshake]
      BY <1>0, <1>5
      DEF SubscriberStep, Recv, OnPacket, Heartbeat, MessageEvent, OnDrain,
          OnTransportError, OnCloseCheck, OnCloseWrite, OnCloseTransport, OnCloseEvent,
          At, Call, Move, Emit, Deliver, Goto
    <2> QED
      BY <2>1, BornFrame
  <1>6. CASE TrySubscribe \/ EventLoop \/ UNCHANGED vars
    BY <1>6, BornFrame DEF TrySubscribe, EventLoop, LoopRecv, LoopRemove, vars, tasks
  <1> QED
    BY <1>1, <1>2, <1>3, <1>4, <1>5, <1>6 DEF Next

-----------------------------------------------------------------------------
(* Every packet is in one place *)

\* A step that neither touches a packet nor closes the socket, nor moves a task
\* that carries packets.
Elsewhere ==
  /\ UNCHANGED <<write_buffer, accepted, batch, cmds>>
  /\ ready' = "Closed" <=> ready = "Closed"
  /\ \A t \in Tasks : pc[t] = "cmd" => pc'[t] = "cmd"

\* A flush carries packets from the lock under which it takes them to the
\* command by which it hands them over, and nowhere else.
BatchInv == \A t \in Tasks : pc[t] # "cmd" => batch[t] = <<>>

Distinct(s) == \A i, j \in DOMAIN s : i # j => s[i] # s[j]

Apart(r, s) == \A i \in DOMAIN r : \A j \in DOMAIN s : r[i] # s[j]

\* No packet was taken or handed over twice.
OnceInv ==
  /\ \A t \in Tasks : Distinct(batch[t])
  /\ \A t, u \in Tasks : t # u => Apart(batch[t], batch[u])
  /\ \A k \in DOMAIN cmds : Distinct(cmds[k])
  /\ \A k, l \in DOMAIN cmds : k # l => Apart(cmds[k], cmds[l])
  /\ \A k \in DOMAIN cmds : \A t \in Tasks : Apart(cmds[k], batch[t])

\* As long as the socket is not closed, what left the buffer is carried or was
\* handed over.
KeptInv ==
  ready # "Closed" =>
    \A p \in 1 .. (accepted - Len(write_buffer)) :
      \/ \E t \in Tasks : \E i \in DOMAIN batch[t] : batch[t][i] = p
      \/ \E k \in DOMAIN cmds : \E i \in DOMAIN cmds[k] : cmds[k][i] = p

PacketInv == BatchInv /\ OnceInv /\ KeptInv

\* Push, Take, SendCmd and OnCloseWrite are the only steps that touch packets
\* or close the socket; no other step moves a task that carries packets.
LEMMA PacketSteps ==
  ASSUME TypeInv, CloseInv, BornInv, [Next]_vars
  PROVE  \/ \E t \in Tasks : Push(t) \/ Take(t) \/ SendCmd(t)
         \/ OnCloseWrite
         \/ Elsewhere
  <1> USE TaskFacts
  <1> USE DEF socketState, channels, server, history
  <1>0. pc \in [Tasks -> Labels]
    BY DEF TypeInv, TypeOK
  <1>1. ASSUME NEW t \in Tasks, TaskStep(t), ~Push(t), ~Take(t), ~SendCmd(t)
        PROVE  Elsewhere
    <2>1. CASE SendCheck(t) \/ FlushCheck(t) \/ FlushWritable(t) \/ PollRequest(t)
      BY <1>0, <2>1
      DEF SendCheck, FlushCheck, FlushWritable, PollRequest, ProceedIf, Return, Goto, At,
          Elsewhere
    <2>2. CASE FlushEvent(t) \/ DrainEvent(t)
      BY <1>0, <2>2 DEF FlushEvent, DrainEvent, Emit, Deliver, Goto, At, Elsewhere
    <2>3. CASE TakeCallbacks(t) \/ Framing(t) \/ Extend(t)
      BY <1>0, <2>3 DEF TakeCallbacks, Framing, Extend, Goto, At, Elsewhere
    <2>4. CASE FlushEnd(t)
      BY <1>0, <2>4 DEF FlushEnd, Return, Goto, At, Elsewhere
    <2>5. CASE LockPoisoned(t)
      BY <1>0, <2>5
      DEF LockPoisoned, LockSteps, SendSteps, FlushSteps, Move, Goto, Elsewhere
    <2> QED
      BY <1>1, <2>1, <2>2, <2>3, <2>4, <2>5 DEF TaskStep, SendPacket, Flush
  <1>2. ASSUME NEW t \in Callers, CallerStart(t)
        PROVE  Elsewhere
    <2>1. CASE StartSend(t) \/ StartPoll(t)
      BY <1>0, <2>1 DEF StartSend, StartPoll, Start, Call, Elsewhere
    <2>2. CASE Close(t) \/ MaybeUpgrade(t) \/ CloseSocket(t)
      BY <1>0, <2>2 DEF Close, MaybeUpgrade, CloseSocket, Start, Goto, tasks, Elsewhere
    <2> QED
      BY <1>2, <2>1, <2>2 DEF CallerStart
  <1>3. ASSUME NEW e \in TransportEvents, Report(e)
        PROVE  Elsewhere
    BY <1>3 DEF Report, tasks, Elsewhere
  <1>4. CASE HandshakeStep
    <2>1. CASE Open
      BY <1>0, <2>1 DEF Open, At, Goto, CloseInv, Elsewhere
    <2>2. CASE SpawnSubscriber
      <3>1. pc[Subscriber] = "unborn" /\ pc[Handshake] = "subscribe"
        BY <2>2 DEF SpawnSubscriber, At, BornInv, Answering, FlushSteps
      <3> QED
        BY <1>0, <2>2, <3>1 DEF SpawnSubscriber, Elsewhere
    <2>3. CASE SendOpenPacket \/ OpenEvent \/ SetPingTimeout \/ SendInitialPacket \/ Respond
      BY <1>0, <2>3
      DEF SendOpenPacket, OpenEvent, SetPingTimeout, SendInitialPacket, Respond, At, Call,
          Move, Emit, Deliver, Goto, Elsewhere
    <2> QED
      BY <1>4, <2>1, <2>2, <2>3 DEF HandshakeStep
  <1>5. CASE SubscriberStep /\ ~OnCloseWrite
    <2>1. CASE Recv
      <3>1. pc[Subscriber] = "recv" /\ \A u \in Tasks : u # Subscriber => pc'[u] = pc[u]
        BY <1>0, <2>1 DEF Recv, At, Move, Goto
      <3>2. UNCHANGED <<write_buffer, accepted, batch, cmds, ready>>
        BY <2>1 DEF Recv, Move
      <3> QED
        BY <3>1, <3>2 DEF Elsewhere
    <2>2. CASE OnPacket
      <3>1. pc[Subscriber] = "packet" /\ \A u \in Tasks : u # Subscriber => pc'[u] = pc[u]
        BY <1>0, <2>2 DEF OnPacket, At, Call
      <3>2. UNCHANGED <<write_buffer, accepted, batch, cmds, ready>>
        BY <2>2 DEF OnPacket, Call
      <3> QED
        BY <3>1, <3>2 DEF Elsewhere
    <2>3. CASE Heartbeat \/ MessageEvent \/ OnCloseEvent
      BY <1>0, <2>3
      DEF Heartbeat, MessageEvent, OnCloseEvent, At, Emit, Deliver, Goto, Elsewhere
    <2>4. CASE OnDrain \/ OnTransportError \/ OnCloseCheck \/ OnCloseTransport
      BY <1>0, <2>4
      DEF OnDrain, OnTransportError, OnCloseCheck, OnCloseTransport, At, Move, Goto, Elsewhere
    <2> QED
      BY <1>5, <2>1, <2>2, <2>3, <2>4 DEF SubscriberStep
  <1>6. CASE TrySubscribe \/ EventLoop \/ UNCHANGED vars
    BY <1>6 DEF TrySubscribe, EventLoop, LoopRecv, LoopRemove, vars, tasks, Elsewhere
  <1> QED
    BY <1>1, <1>2, <1>3, <1>4, <1>5, <1>6 DEF Next

\* A step elsewhere keeps PacketInv.
LEMMA PacketFrame ==
  ASSUME PacketInv, Elsewhere
  PROVE  PacketInv'
  <1>1. BatchInv'
    BY DEF PacketInv, BatchInv, Elsewhere
  <1>2. OnceInv'
    BY DEF PacketInv, OnceInv, Elsewhere
  <1>3. KeptInv'
    BY DEF PacketInv, KeptInv, Elsewhere
  <1> QED
    BY <1>1, <1>2, <1>3 DEF PacketInv

\* send_packet pushes a packet: none leaves the buffer.
LEMMA PacketPush ==
  ASSUME TypeInv, PacketInv, NEW t \in Tasks, Push(t)
  PROVE  PacketInv'
  <1>1. /\ write_buffer' = Append(write_buffer, accepted + 1) /\ accepted' = accepted + 1
        /\ UNCHANGED <<batch, cmds, ready>> /\ pc[t] = "push"
        /\ \A u \in Tasks : u # t => pc'[u] = pc[u]
    BY DEF Push, At, Goto, channels, TypeInv, TypeOK
  <1>2. accepted' - Len(write_buffer') = accepted - Len(write_buffer)
    BY <1>1, SeqFacts DEF TypeInv, TypeOK
  <1>3. BatchInv'
    BY <1>1 DEF PacketInv, BatchInv
  <1>4. OnceInv'
    BY <1>1 DEF PacketInv, OnceInv
  <1>5. KeptInv'
    BY <1>1, <1>2 DEF PacketInv, KeptInv
  <1> QED
    BY <1>3, <1>4, <1>5 DEF PacketInv

\* flush takes the buffer: every packet in it was nowhere else, and the task
\* carried none.
LEMMA PacketTake ==
  ASSUME TypeInv, OrderInv, PacketInv, NEW t \in Tasks, Take(t)
  PROVE  PacketInv'
  <1>1. /\ write_buffer' = <<>> /\ batch' = [batch EXCEPT ![t] = write_buffer]
        /\ UNCHANGED <<accepted, cmds, ready>> /\ pc[t] = "take"
        /\ pc' = [pc EXCEPT ![t] = "cmd"]
    BY DEF Take, At, Goto, channels, history
  <1>2. /\ write_buffer \in Seq(Nat) /\ accepted \in Nat
        /\ batch \in [Tasks -> Seq(Nat)] /\ cmds \in Seq(Seq(Nat))
        /\ pc \in [Tasks -> Labels]
    BY DEF TypeInv, TypeOK
  <1>3. /\ batch'[t] = write_buffer /\ batch[t] = <<>>
        /\ \A u \in Tasks : u # t => batch'[u] = batch[u] /\ pc'[u] = pc[u]
    BY <1>1, <1>2 DEF PacketInv, BatchInv
  <1>4. /\ DOMAIN write_buffer = 1..Len(write_buffer) /\ Len(write_buffer) \in Nat
        /\ Len(write_buffer) <= accepted
        /\ \A i \in 1..Len(write_buffer) : write_buffer[i] = (accepted - Len(write_buffer)) + i
    <2>1. DOMAIN write_buffer = 1..Len(write_buffer) /\ Len(write_buffer) \in Nat
      BY <1>2
    <2> QED
      BY <2>1 DEF OrderInv, SuffixInv
  <1>5. BatchInv'
    BY <1>1, <1>2, <1>3 DEF PacketInv, BatchInv
  <1>6. Distinct(write_buffer)
    BY <1>2, <1>4 DEF Distinct
  <1>7. \A u \in Tasks : Apart(write_buffer, batch[u]) /\ Apart(batch[u], write_buffer)
    <2> SUFFICES ASSUME NEW u \in Tasks, NEW i \in DOMAIN batch[u], NEW j \in DOMAIN write_buffer
                 PROVE  batch[u][i] # write_buffer[j]
      BY DEF Apart
    <2>1. batch[u][i] \in Nat /\ batch[u][i] <= accepted - Len(write_buffer)
      BY <1>2 DEF OrderInv, TakenInv
    <2> QED
      BY <1>2, <1>4, <2>1
  <1>8. \A k \in DOMAIN cmds : Apart(cmds[k], write_buffer)
    <2> SUFFICES ASSUME NEW k \in DOMAIN cmds, NEW i \in DOMAIN cmds[k], NEW j \in DOMAIN write_buffer
                 PROVE  cmds[k][i] # write_buffer[j]
      BY DEF Apart
    <2>1. cmds[k][i] \in Nat /\ cmds[k][i] <= accepted - Len(write_buffer)
      BY <1>2 DEF OrderInv, TakenInv
    <2> QED
      BY <1>2, <1>4, <2>1
  <1>9. OnceInv'
    <2>1. \A u \in Tasks : Distinct(batch'[u])
      BY <1>3, <1>6 DEF PacketInv, OnceInv
    <2>2. \A u, v \in Tasks : u # v => Apart(batch'[u], batch'[v])
      BY <1>3, <1>7 DEF PacketInv, OnceInv
    <2>3. \A k \in DOMAIN cmds : \A u \in Tasks : Apart(cmds[k], batch'[u])
      BY <1>3, <1>8 DEF PacketInv, OnceInv
    <2> QED
      BY <1>1, <2>1, <2>2, <2>3 DEF PacketInv, OnceInv
  <1>10. KeptInv'
    <2>0. accepted' - Len(write_buffer') = accepted
      BY <1>1, <1>2
    <2> SUFFICES ASSUME ready # "Closed", NEW p \in 1..accepted
                 PROVE  \/ \E u \in Tasks : \E i \in DOMAIN batch'[u] : batch'[u][i] = p
                        \/ \E k \in DOMAIN cmds : \E i \in DOMAIN cmds[k] : cmds[k][i] = p
      BY <1>1, <2>0 DEF KeptInv
    <2>1. CASE p \in 1 .. (accepted - Len(write_buffer))
      <3>1. CASE \E k \in DOMAIN cmds : \E i \in DOMAIN cmds[k] : cmds[k][i] = p
        BY <3>1
      <3>2. CASE \E u \in Tasks : \E i \in DOMAIN batch[u] : batch[u][i] = p
        <4>1. PICK u \in Tasks : \E i \in DOMAIN batch[u] : batch[u][i] = p
          BY <3>2
        <4>2. u # t
          BY <1>3, <4>1
        <4> QED
          BY <1>3, <4>1, <4>2
      <3> QED
        BY <2>1, <3>1, <3>2 DEF PacketInv, KeptInv
    <2>2. CASE p > accepted - Len(write_buffer)
      <3> DEFINE i == p - (accepted - Len(write_buffer))
      <3>1. i \in DOMAIN write_buffer /\ write_buffer[i] = p
        BY <1>2, <1>4, <2>2
      <3> QED
        BY <1>3, <3>1
    <2> QED
      BY <1>2, <1>4, <2>1, <2>2
  <1> QED
    BY <1>5, <1>9, <1>10 DEF PacketInv

\* The command takes over what the task carried.
LEMMA PacketSendCmd ==
  ASSUME TypeInv, PacketInv, NEW t \in Tasks, SendCmd(t)
  PROVE  PacketInv'
  <1>1. /\ cmds' = Append(cmds, batch[t]) /\ batch' = [batch EXCEPT ![t] = <<>>]
        /\ UNCHANGED <<accepted, write_buffer, ready>> /\ pc' = [pc EXCEPT ![t] = "callbacks"]
    BY DEF SendCmd, Goto, socketState, history
  <1>2. /\ batch \in [Tasks -> Seq(Nat)] /\ cmds \in Seq(Seq(Nat))
        /\ pc \in [Tasks -> Labels]
    BY DEF TypeInv, TypeOK
  <1>3. /\ batch'[t] = <<>> /\ batch[t] \in Seq(Nat)
        /\ \A u \in Tasks : u # t => batch'[u] = batch[u] /\ pc'[u] = pc[u]
    BY <1>1, <1>2
  <1> DEFINE n == Len(cmds) + 1
  <1>4. /\ DOMAIN cmds' = DOMAIN cmds \cup {n} /\ n \notin DOMAIN cmds
        /\ cmds'[n] = batch[t] /\ \A k \in DOMAIN cmds : cmds'[k] = cmds[k]
    BY <1>1, <1>2
  <1> HIDE DEF n
  <1>5. BatchInv'
    BY <1>1, <1>2, <1>3 DEF PacketInv, BatchInv
  <1>6. OnceInv'
    <2>1. \A u \in Tasks : Distinct(batch'[u])
      BY <1>3 DEF PacketInv, OnceInv, Distinct
    <2>2. \A u, v \in Tasks : u # v => Apart(batch'[u], batch'[v])
      BY <1>3 DEF PacketInv, OnceInv, Apart
    <2>3. \A k \in DOMAIN cmds' : Distinct(cmds'[k])
      BY <1>4 DEF PacketInv, OnceInv
    <2>4. \A k \in DOMAIN cmds : Apart(batch[t], cmds[k])
      BY DEF PacketInv, OnceInv, Apart
    <2>5. \A k, l \in DOMAIN cmds' : k # l => Apart(cmds'[k], cmds'[l])
      BY <1>4, <2>4 DEF PacketInv, OnceInv
    <2>6. \A k \in DOMAIN cmds' : \A u \in Tasks : Apart(cmds'[k], batch'[u])
      <3> SUFFICES ASSUME NEW k \in DOMAIN cmds', NEW u \in Tasks PROVE Apart(cmds'[k], batch'[u])
        OBVIOUS
      <3>1. CASE u = t
        BY <1>3, <3>1 DEF Apart
      <3>2. CASE u # t
        BY <1>3, <1>4, <3>2 DEF PacketInv, OnceInv
      <3> QED
        BY <3>1, <3>2
    <2> QED
      BY <2>1, <2>2, <2>3, <2>5, <2>6 DEF OnceInv
  <1>7. KeptInv'
    <2> SUFFICES ASSUME ready # "Closed", NEW p \in 1..(accepted - Len(write_buffer))
                 PROVE  \/ \E u \in Tasks : \E i \in DOMAIN batch'[u] : batch'[u][i] = p
                        \/ \E k \in DOMAIN cmds' : \E i \in DOMAIN cmds'[k] : cmds'[k][i] = p
      BY <1>1 DEF KeptInv
    <2>1. CASE \E k \in DOMAIN cmds : \E i \in DOMAIN cmds[k] : cmds[k][i] = p
      BY <1>4, <2>1
    <2>2. CASE \E u \in Tasks : \E i \in DOMAIN batch[u] : batch[u][i] = p
      <3>1. PICK u \in Tasks : \E i \in DOMAIN batch[u] : batch[u][i] = p
        BY <2>2
      <3>2. CASE u = t
        BY <1>4, <3>1, <3>2
      <3>3. CASE u # t
        BY <1>3, <3>1, <3>3
      <3> QED
        BY <3>2, <3>3
    <2> QED
      BY <2>1, <2>2 DEF PacketInv, KeptInv
  <1> QED
    BY <1>5, <1>6, <1>7 DEF PacketInv

\* on_close discards what waits; nothing else changes.
LEMMA PacketClose ==
  ASSUME TypeInv, PacketInv, OnCloseWrite
  PROVE  PacketInv'
  <1>1. /\ ready' = "Closed" /\ UNCHANGED <<batch, cmds, accepted>>
        /\ \A u \in Tasks : pc[u] = "cmd" => pc'[u] = "cmd"
    BY TaskFacts DEF OnCloseWrite, At, Goto, channels, history, TypeInv, TypeOK
  <1>2. BatchInv' /\ OnceInv' /\ KeptInv'
    BY <1>1 DEF PacketInv, BatchInv, OnceInv, KeptInv
  <1> QED
    BY <1>2 DEF PacketInv

\* PacketInv is inductive relative to the invariants of order and of close.
LEMMA PacketNext ==
  TypeInv /\ CloseInv /\ BornInv /\ OrderInv /\ PacketInv /\ [Next]_vars => PacketInv'
  BY PacketSteps, PacketFrame, PacketPush, PacketTake, PacketSendCmd, PacketClose

\* The socket starts without packets, before its subscriber.
LEMMA PacketInit == Init => BornInv /\ OrderInv /\ PacketInv
  <1> SUFFICES ASSUME Init PROVE BornInv /\ OrderInv /\ PacketInv
    OBVIOUS
  <1>1. BornInv
    BY TaskFacts DEF Init, BornInv
  <1>2. OrderInv
    BY DEF Init, OrderInv, SuffixInv, TakenInv
  <1>3. BatchInv /\ OnceInv /\ KeptInv
    BY DEF Init, BatchInv, OnceInv, KeptInv, Distinct, Apart
  <1> QED
    BY <1>1, <1>2, <1>3 DEF PacketInv

\* A set whose elements are all equal has at most one.
LEMMA AtMostOne ==
  ASSUME NEW S, \A x, y \in S : x = y
  PROVE  Cardinality(S) <= 1
  <1>1. CASE S = {}
    BY <1>1, FS_EmptySet
  <1>2. CASE S # {}
    <2>1. PICK x \in S : TRUE
      BY <1>2
    <2>2. S = {x}
      BY <2>1
    <2>3. Cardinality(S) = 1
      BY <2>2, FS_Singleton
    <2> QED
      BY <2>3
  <1> QED
    BY <1>1, <1>2

\* A packet is in the buffer, in a batch or in a command.
LEMMA PacketPlacesAre ==
  ASSUME NEW p, NEW x
  PROVE  x \in PacketPlaces(p) <=>
           \/ x \in Places("buffer", 0, write_buffer, p)
           \/ \E t \in Tasks : x \in Places("batch", t, batch[t], p)
           \/ \E k \in DOMAIN cmds : x \in Places("cmd", k, cmds[k], p)
  BY DEF PacketPlaces

\* The invariants put every packet into exactly one place, or at most one if
\* the socket is closed.
LEMMA PlacesOfPacket == TypeInv /\ OrderInv /\ PacketInv => PacketConserved
  <1> SUFFICES ASSUME TypeInv, OrderInv, PacketInv, NEW p \in 1..accepted
               PROVE  /\ Cardinality(PacketPlaces(p)) <= 1
                      /\ ready # "Closed" => PacketPlaces(p) # {}
    BY DEF PacketConserved
  <1>1. /\ write_buffer \in Seq(Nat) /\ accepted \in Nat
        /\ batch \in [Tasks -> Seq(Nat)] /\ cmds \in Seq(Seq(Nat))
        /\ DOMAIN write_buffer = 1..Len(write_buffer) /\ Len(write_buffer) \in Nat
    BY DEF TypeInv, TypeOK
  <1>2. /\ Len(write_buffer) <= accepted
        /\ \A i \in 1..Len(write_buffer) : write_buffer[i] = (accepted - Len(write_buffer)) + i
    BY DEF OrderInv, SuffixInv
  <1> DEFINE InBuffer(i) == i \in DOMAIN write_buffer /\ write_buffer[i] = p
             InBatch(t, i) == t \in Tasks /\ i \in DOMAIN batch[t] /\ batch[t][i] = p
             InCmd(k, i) == k \in DOMAIN cmds /\ i \in DOMAIN cmds[k] /\ cmds[k][i] = p
  <1>3. \A x \in PacketPlaces(p) :
          \/ \E i : InBuffer(i) /\ x = <<"buffer", 0, i>>
          \/ \E t, i : InBatch(t, i) /\ x = <<"batch", t, i>>
          \/ \E k, i : InCmd(k, i) /\ x = <<"cmd", k, i>>
    <2> TAKE x \in PacketPlaces(p)
    <2>1. CASE x \in Places("buffer", 0, write_buffer, p)
      BY <2>1 DEF Places
    <2>2. ASSUME NEW t \in Tasks, x \in Places("batch", t, batch[t], p)
          PROVE  \E i : InBatch(t, i) /\ x = <<"batch", t, i>>
      BY <2>2 DEF Places
    <2>3. ASSUME NEW k \in DOMAIN cmds, x \in Places("cmd", k, cmds[k], p)
          PROVE  \E i : InCmd(k, i) /\ x = <<"cmd", k, i>>
      BY <2>3 DEF Places
    <2> HIDE DEF InBuffer, InBatch, InCmd
    <2> QED
      BY PacketPlacesAre, <2>1, <2>2, <2>3
  <1>4. (\E i : InBuffer(i)) => p > accepted - Len(write_buffer)
    BY <1>1, <1>2
  <1>5. (\E t, i : InBatch(t, i)) \/ (\E k, i : InCmd(k, i)) => p <= accepted - Len(write_buffer)
    BY DEF OrderInv, TakenInv
  <1>6. \A i, j : InBuffer(i) /\ InBuffer(j) => i = j
    BY <1>1, <1>2
  <1>7. \A t, u, i, j : InBatch(t, i) /\ InBatch(u, j) => t = u /\ i = j
    BY DEF PacketInv, OnceInv, Distinct, Apart
  <1>8. \A k, l, i, j : InCmd(k, i) /\ InCmd(l, j) => k = l /\ i = j
    BY DEF PacketInv, OnceInv, Distinct, Apart
  <1>9. \A k, t, i, j : ~(InCmd(k, i) /\ InBatch(t, j))
    BY DEF PacketInv, OnceInv, Apart
  <1>10. ~((\E i : InBuffer(i)) /\ ((\E t, i : InBatch(t, i)) \/ (\E k, i : InCmd(k, i))))
    BY <1>1, <1>4, <1>5
  <1>11. ready # "Closed" => PacketPlaces(p) # {}
    <2> SUFFICES ASSUME ready # "Closed" PROVE PacketPlaces(p) # {}
      OBVIOUS
    <2>1. CASE p \in 1 .. (accepted - Len(write_buffer))
      <3>1. (\E t, i : InBatch(t, i)) \/ (\E k, i : InCmd(k, i))
        BY <2>1 DEF PacketInv, KeptInv
      <3>2. ASSUME NEW t, NEW i, InBatch(t, i) PROVE PacketPlaces(p) # {}
        <4>1. <<"batch", t, i>> \in Places("batch", t, batch[t], p) /\ t \in Tasks
          BY <3>2 DEF Places
        <4> QED
          BY PacketPlacesAre, <4>1
      <3>3. ASSUME NEW k, NEW i, InCmd(k, i) PROVE PacketPlaces(p) # {}
        <4>1. <<"cmd", k, i>> \in Places("cmd", k, cmds[k], p) /\ k \in DOMAIN cmds
          BY <3>3 DEF Places
        <4> QED
          BY PacketPlacesAre, <4>1
      <3> QED
        BY <3>1, <3>2, <3>3
    <2>2. CASE p > accepted - Len(write_buffer)
      <3>1. InBuffer(p - (accepted - Len(write_buffer)))
        BY <1>1, <1>2, <2>2
      <3>2. \E x : x \in Places("buffer", 0, write_buffer, p)
        BY <3>1 DEF Places
      <3> QED
        BY PacketPlacesAre, <3>2
    <2> QED
      BY <1>1, <1>2, <2>1, <2>2
  <1> HIDE DEF InBuffer, InBatch, InCmd
  <1>12. \A x, y \in PacketPlaces(p) : x = y
    BY <1>3, <1>6, <1>7, <1>8, <1>9, <1>10
  <1> QED
    BY <1>11, <1>12, AtMostOne

\* However many tasks send, flush and close at once, no packet is duplicated,
\* and none disappears unless the socket was closed (socket.rs:230-242,
\* 332-338).
THEOREM PacketsConserved == Spec => []PacketConserved
  <1>1. TypeInv /\ CloseInv /\ [Next]_vars => CloseInv'
    BY CloseNext
  <1> QED
    BY <1>1, TypeInit, TypeNext, CloseInit, PacketInit, BornNext, OrderNext, PacketNext,
       PlacesOfPacket, PTL DEF Spec

-----------------------------------------------------------------------------
(* What a closed socket may keep *)

\* The callers that have found the socket open and have not pushed yet.
Pushing == {t \in Callers : pc[t] = "push"}

\* A closed socket keeps at most one packet for each caller that pushed after
\* the close; those that still may push are counted in.  Neither the
\* subscriber, which closed it, nor the handshake, which was over, can.
LeftoverInv ==
  ready = "Closed" =>
    /\ pc[Subscriber] # "push" /\ pc[Handshake] # "push"
    /\ Len(write_buffer) + Cardinality(Pushing) <= Cardinality(Callers)

\* Only SendCheck leads to a push, and only if the socket is not closed.
LEMMA PushSteps ==
  ASSUME TypeInv, [Next]_vars, ready = "Closed", NEW u \in Tasks, pc'[u] = "push"
  PROVE  pc[u] = "push"
  <1> USE TaskFacts, LabelFacts
  <1>0. pc \in [Tasks -> Labels] /\ \A t \in Tasks : ret[t] # "push"
    BY DEF TypeInv, TypeOK, Returns
  <1>1. ASSUME NEW t \in Tasks, TaskStep(t)
        PROVE  pc[u] = "push"
    <2>1. CASE SendCheck(t) \/ FlushCheck(t) \/ FlushWritable(t) \/ PollRequest(t)
      BY <1>0, <2>1
      DEF SendCheck, FlushCheck, FlushWritable, PollRequest, ProceedIf, Return, Goto
    <2>2. CASE FlushEvent(t) \/ DrainEvent(t)
      BY <1>0, <2>2 DEF FlushEvent, DrainEvent, Emit, Deliver, Goto
    <2>3. CASE TakeCallbacks(t) \/ Framing(t) \/ Extend(t) \/ Push(t) \/ Take(t) \/ SendCmd(t)
      BY <1>0, <2>3 DEF TakeCallbacks, Framing, Extend, Push, Take, SendCmd, Goto
    <2>4. CASE FlushEnd(t) \/ LockPoisoned(t)
      BY <1>0, <2>4 DEF FlushEnd, Return, Goto, LockPoisoned, Move
    <2> QED
      BY <1>1, <2>1, <2>2, <2>3, <2>4 DEF TaskStep, SendPacket, Flush
  <1>2. ASSUME NEW t \in Callers, CallerStart(t)
        PROVE  pc[u] = "push"
    BY <1>0, <1>2
    DEF CallerStart, StartSend, StartPoll, Close, MaybeUpgrade, CloseSocket, Call, Goto,
        Unless, tasks
  <1>3. ASSUME NEW e \in TransportEvents, Report(e)
        PROVE  pc[u] = "push"
    BY <1>3 DEF Report, tasks
  <1>4. CASE HandshakeStep
    BY <1>0, <1>4
    DEF HandshakeStep, Open, SendOpenPacket, OpenEvent, SetPingTimeout, SendInitialPacket,
        SpawnSubscriber, Respond, Call, Move, Emit, Deliver, Goto, Unless
  <1>5. CASE SubscriberStep
    <2>1. CASE Recv
      <3>1. \E l \in Targets \ {"push"} : Goto(Subscriber, l)
        BY <2>1 DEF Recv, Move
      <3> QED
        BY <1>0, <3>1 DEF Goto
    <2>2. CASE OnPacket
      <3>1. \E l \in Targets \ {"push"}, r \in Returns : Call(Subscriber, l, r)
        BY <2>2 DEF OnPacket, Unless
      <3> QED
        BY <1>0, <3>1 DEF Call
    <2>3. CASE SubscriberStep /\ ~Recv /\ ~OnPacket
      BY <1>0, <2>3
      DEF SubscriberStep, Heartbeat, MessageEvent, OnDrain, OnTransportError, OnCloseCheck,
          OnCloseWrite, OnCloseTransport, OnCloseEvent, Move, Emit, Deliver, Goto
    <2> QED
      BY <1>5, <2>1, <2>2, <2>3
  <1>6. CASE TrySubscribe \/ EventLoop \/ UNCHANGED vars
    BY <1>6 DEF TrySubscribe, EventLoop, LoopRecv, LoopRemove, vars, tasks
  <1> QED
    BY <1>1, <1>2, <1>3, <1>4, <1>5, <1>6 DEF Next

\* Sets of callers are finite, and a smaller one has not more members.
LEMMA CallersFinite ==
  ASSUME NEW A, NEW B, A \subseteq B, B \subseteq Callers
  PROVE  /\ IsFiniteSet(A) /\ IsFiniteSet(B)
         /\ Cardinality(A) \in Nat /\ Cardinality(B) \in Nat /\ Cardinality(Callers) \in Nat
         /\ Cardinality(A) <= Cardinality(B) /\ Cardinality(B) <= Cardinality(Callers)
  <1>1. IsFiniteSet(Callers)
    BY SocketAssumption
  <1>2. IsFiniteSet(B)
    BY <1>1, FS_Subset
  <1>3. IsFiniteSet(A)
    BY <1>2, FS_Subset
  <1> QED
    BY <1>1, <1>2, <1>3, FS_Subset, FS_CardinalityType

\* A push into a closed socket is that of a caller, which then has pushed.
LEMMA LeftoverPush ==
  ASSUME TypeInv, LeftoverInv, [Next]_vars, ready = "Closed", NEW t \in Tasks, Push(t)
  PROVE  LeftoverInv'
  <1>1. /\ pc[t] = "push" /\ pc' = [pc EXCEPT ![t] = "flush"]
        /\ write_buffer' = Append(write_buffer, accepted + 1) /\ ready' = ready
    BY DEF Push, At, Goto
  <1>2. pc \in [Tasks -> Labels] /\ write_buffer \in Seq(Nat) /\ accepted \in Nat
    BY DEF TypeInv, TypeOK
  <1>3. Len(write_buffer') = Len(write_buffer) + 1 /\ Len(write_buffer) \in Nat
    BY <1>1, <1>2
  <1>4. t \in Pushing
    BY <1>1 DEF LeftoverInv, Pushing, Tasks
  <1>5. Pushing' = Pushing \ {t}
    BY <1>1, <1>2 DEF Pushing, Tasks
  <1>6. Cardinality(Pushing') = Cardinality(Pushing) - 1 /\ Cardinality(Pushing) \in Nat
    <2>1. IsFiniteSet(Pushing) /\ Cardinality(Pushing) \in Nat
      BY CallersFinite DEF Pushing
    <2> QED
      BY <1>4, <1>5, <2>1, FS_RemoveElement
  <1>7. pc'[Subscriber] # "push" /\ pc'[Handshake] # "push"
    BY TaskFacts, PushSteps DEF LeftoverInv
  <1>8. Cardinality(Callers) \in Nat
    BY SocketAssumption, FS_CardinalityType
  <1>9. Len(write_buffer') + Cardinality(Pushing') <= Cardinality(Callers)
    BY <1>3, <1>6, <1>8 DEF LeftoverInv
  <1> QED
    BY <1>7, <1>9 DEF LeftoverInv

\* on_close empties the buffer; every caller may be about to push.
LEMMA LeftoverClose ==
  ASSUME TypeInv, BornInv, OnCloseWrite
  PROVE  LeftoverInv'
  <1>1. /\ pc[Subscriber] = "close_write" /\ pc' = [pc EXCEPT ![Subscriber] = "close_transport"]
        /\ write_buffer' = <<>>
    BY DEF OnCloseWrite, At, Goto
  <1>2. pc'[Subscriber] # "push" /\ pc'[Handshake] # "push"
    BY <1>1, TaskFacts DEF TypeInv, TypeOK, BornInv, Answering, FlushSteps
  <1>3. Len(write_buffer') = 0
    BY <1>1
  <1>4. /\ Cardinality(Pushing') <= Cardinality(Callers)
        /\ Cardinality(Pushing') \in Nat /\ Cardinality(Callers) \in Nat
    BY CallersFinite DEF Pushing
  <1>5. Len(write_buffer') + Cardinality(Pushing') <= Cardinality(Callers)
    BY <1>3, <1>4
  <1> QED
    BY <1>2, <1>5 DEF LeftoverInv

\* LeftoverInv is inductive relative to TypeInv, CloseInv and BornInv.
LEMMA LeftoverNext ==
  TypeInv /\ CloseInv /\ BornInv /\ LeftoverInv /\ [Next]_vars => LeftoverInv'
  <1> SUFFICES ASSUME TypeInv, CloseInv, BornInv, LeftoverInv, [Next]_vars
               PROVE  LeftoverInv'
    OBVIOUS
  <1>1. CASE OnCloseWrite
    BY <1>1, LeftoverClose
  <1>2. CASE ready # "Closed" /\ ~OnCloseWrite
    <2>1. ready' # "Closed"
      BY <1>2, PacketSteps DEF Push, Take, SendCmd, socketState, Elsewhere
    <2> QED
      BY <2>1 DEF LeftoverInv
  <1>3. CASE ready = "Closed" /\ \E t \in Tasks : Push(t)
    BY <1>3, LeftoverPush
  <1>4. CASE ready = "Closed" /\ ~OnCloseWrite /\ ~\E t \in Tasks : Push(t)
    <2>1. Len(write_buffer') <= Len(write_buffer) /\ Len(write_buffer') \in Nat
      <3>1. write_buffer \in Seq(Nat) /\ Len(write_buffer) \in Nat
        BY DEF TypeInv, TypeOK
      <3>2. CASE \E t \in Tasks : Take(t)
        BY <3>1, <3>2 DEF Take
      <3>3. CASE Elsewhere \/ \E t \in Tasks : SendCmd(t)
        BY <3>1, <3>3 DEF Elsewhere, SendCmd, socketState
      <3> QED
        BY <1>4, <3>2, <3>3, PacketSteps
    <2>2. pc'[Subscriber] # "push" /\ pc'[Handshake] # "push"
      BY <1>4, TaskFacts, PushSteps DEF LeftoverInv
    <2>3. Pushing' \subseteq Pushing
      BY <1>4, TaskFacts, PushSteps DEF Pushing
    <2>4. /\ Cardinality(Pushing') <= Cardinality(Pushing)
          /\ Cardinality(Pushing') \in Nat /\ Cardinality(Pushing) \in Nat
          /\ Cardinality(Callers) \in Nat
      BY <2>3, CallersFinite DEF Pushing
    <2>5. Len(write_buffer') + Cardinality(Pushing') <= Cardinality(Callers)
      <3>1. Len(write_buffer) \in Nat
        BY DEF TypeInv, TypeOK
      <3> QED
        BY <1>4, <2>1, <2>4, <3>1 DEF LeftoverInv
    <2> QED
      BY <2>2, <2>5 DEF LeftoverInv
  <1> QED
    BY <1>1, <1>2, <1>3, <1>4

\* A closed socket keeps at most one packet per caller, whatever number of
\* callers are between the check of ready and the push when it is closed
\* (socket.rs:228-234, 413-419).
THEOREM LeftoversBounded == Spec => []LeftoverBound
  <1>1. Init => LeftoverInv
    BY DEF Init, LeftoverInv
  <1>2. TypeInv /\ LeftoverInv => LeftoverBound
    <2> SUFFICES ASSUME TypeInv, LeftoverInv, ready = "Closed"
                 PROVE  Len(write_buffer) <= Cardinality(Callers)
      BY DEF LeftoverBound
    <2>1. Len(write_buffer) \in Nat
      BY DEF TypeInv, TypeOK
    <2>2. Cardinality(Pushing) \in Nat /\ Cardinality(Callers) \in Nat
      BY CallersFinite DEF Pushing
    <2> QED
      BY <2>1, <2>2 DEF LeftoverInv
  <1>3. TypeInv /\ CloseInv /\ [Next]_vars => CloseInv'
    BY CloseNext
  <1> QED
    BY <1>1, <1>2, <1>3, TypeInit, TypeNext, CloseInit, PacketInit, BornNext, LeftoverNext, PTL
    DEF Spec

-----------------------------------------------------------------------------
(* The socket implements PacketPipe *)

\* A step elsewhere is none of the pipe.
LEMMA PipeFrame ==
  ASSUME Elsewhere
  PROVE  UNCHANGED Pipe!vars
  BY DEF Elsewhere, Pipe!vars

\* send_packet accepts a packet.
LEMMA PipePush ==
  ASSUME TypeInv, NEW t \in Tasks, Push(t)
  PROVE  Pipe!Accept
  <1>1. /\ write_buffer' = Append(write_buffer, accepted + 1) /\ accepted' = accepted + 1
        /\ UNCHANGED <<batch, cmds, ready>>
    BY DEF Push, channels
  <1>2. accepted' - Len(write_buffer') = accepted - Len(write_buffer)
    BY <1>1, SeqFacts DEF TypeInv, TypeOK
  <1> QED
    BY <1>1, <1>2 DEF Pipe!Accept

\* flush cuts off what waits, unless another flush was faster.
LEMMA PipeTake ==
  ASSUME TypeInv, OrderInv, PacketInv, NEW t \in Tasks, Take(t)
  PROVE  Pipe!CutOff \/ UNCHANGED Pipe!vars
  <1>1. /\ write_buffer' = <<>> /\ batch' = [batch EXCEPT ![t] = write_buffer]
        /\ UNCHANGED <<accepted, cmds, ready>> /\ pc[t] = "take"
    BY DEF Take, At, channels, history
  <1>2. /\ write_buffer \in Seq(Nat) /\ accepted \in Nat /\ batch \in [Tasks -> Seq(Nat)]
        /\ Len(write_buffer) \in Nat
    BY DEF TypeInv, TypeOK
  <1>3. batch[t] = <<>>
    BY <1>1 DEF PacketInv, BatchInv
  <1>4. accepted' - Len(write_buffer') = accepted
    BY <1>1, <1>2
  <1>5. CASE write_buffer = <<>>
    <2>1. batch' = batch /\ accepted - Len(write_buffer) = accepted
      BY <1>1, <1>2, <1>3, <1>5
    <2> QED
      BY <1>1, <1>4, <2>1 DEF Pipe!vars
  <1>6. CASE write_buffer # <<>>
    <2> DEFINE cut == accepted - Len(write_buffer)
    <2>1. cut \in Nat /\ accepted \in (cut + 1)..accepted /\ accepted - (cut + 1) + 1 = Len(write_buffer)
      BY <1>2, <1>6 DEF OrderInv, SuffixInv
    <2>2. Pipe!Run(cut + 1, accepted) = write_buffer
      <3>1. Pipe!Run(cut + 1, accepted) = [k \in 1..Len(write_buffer) |-> cut + 1 + k - 1]
        BY <2>1 DEF Pipe!Run
      <3>2. \A k \in 1..Len(write_buffer) : write_buffer[k] = cut + 1 + k - 1
        BY <1>2, <2>1 DEF OrderInv, SuffixInv
      <3>3. write_buffer = [k \in 1..Len(write_buffer) |-> write_buffer[k]]
        BY <1>2
      <3> QED
        BY <3>1, <3>2, <3>3
    <2>3. {batch'[u] : u \in Tasks} \ {<<>>} =
            ({batch[u] : u \in Tasks} \ {<<>>}) \cup {write_buffer}
      <3>1. batch'[t] = write_buffer /\ \A u \in Tasks : u # t => batch'[u] = batch[u]
        BY <1>1, <1>2
      <3> QED
        BY <1>3, <1>6, <3>1
    <2> HIDE DEF cut
    <2>4. \E n \in (cut + 1)..accepted :
            /\ {batch'[u] : u \in Tasks} \ {<<>>} =
                 ({batch[u] : u \in Tasks} \ {<<>>}) \cup {Pipe!Run(cut + 1, n)}
            /\ accepted' - Len(write_buffer') = n
      BY <1>4, <2>1, <2>2, <2>3
    <2> QED
      BY <1>1, <2>4 DEF Pipe!CutOff, cut
  <1> QED
    BY <1>5, <1>6

\* The command hands over the run that the task carried.
LEMMA PipeSendCmd ==
  ASSUME TypeInv, PacketInv, NEW t \in Tasks, SendCmd(t)
  PROVE  Pipe!HandOver \/ Pipe!HandOverNothing
  <1>1. /\ cmds' = Append(cmds, batch[t]) /\ batch' = [batch EXCEPT ![t] = <<>>]
        /\ UNCHANGED <<accepted, write_buffer, ready>>
    BY DEF SendCmd, socketState, history
  <1>2. batch \in [Tasks -> Seq(Nat)]
    BY DEF TypeInv, TypeOK
  <1>3. batch'[t] = <<>> /\ \A u \in Tasks : u # t => batch'[u] = batch[u]
    BY <1>1, <1>2
  <1>4. CASE batch[t] = <<>>
    <2>1. {batch'[u] : u \in Tasks} = {batch[u] : u \in Tasks}
      BY <1>3, <1>4
    <2> QED
      BY <1>1, <1>4, <2>1 DEF Pipe!HandOverNothing
  <1>5. CASE batch[t] # <<>>
    <2>1. \A u \in Tasks : u # t => batch[u] # batch[t]
      <3>1. 1 \in DOMAIN batch[t]
        BY <1>2, <1>5
      <3> QED
        BY <3>1 DEF PacketInv, OnceInv, Apart
    <2>2. {batch'[u] : u \in Tasks} \ {<<>>} = ({batch[u] : u \in Tasks} \ {<<>>}) \ {batch[t]}
      BY <1>3, <2>1
    <2>3. batch[t] \in {batch[u] : u \in Tasks} \ {<<>>}
      BY <1>5
    <2> QED
      BY <1>1, <2>2, <2>3 DEF Pipe!HandOver
  <1> QED
    BY <1>4, <1>5

\* on_close closes the pipe, once.
LEMMA PipeClose ==
  ASSUME TypeInv, CloseInv, OnCloseWrite
  PROVE  Pipe!Close
  <1>1. /\ write_buffer' = <<>> /\ ready' = "Closed" /\ ready # "Closed"
        /\ UNCHANGED <<batch, cmds, accepted>>
    BY DEF OnCloseWrite, At, CloseInv, channels, history
  <1>2. accepted' - Len(write_buffer') = accepted
    BY <1>1 DEF TypeInv, TypeOK
  <1> QED
    BY <1>1, <1>2 DEF Pipe!Close

\* Nothing waits in the beginning.
LEMMA EmptyDifference ==
  ASSUME accepted = 0, Len(write_buffer) = 0
  PROVE  accepted - Len(write_buffer) = 0
  OBVIOUS

\* An EngineSocket is a PacketPipe: what waits is the end of what was accepted,
\* a flush carries away a consecutive run of it, each run is handed over once,
\* and only the close discards packets, once (socket.rs:227-244, 310-338,
\* 409-419).
THEOREM RefinesPipe == Spec => ImplementsPipe
  <1>1. Init => Pipe!Init
    <2> SUFFICES ASSUME Init PROVE Pipe!Init
      OBVIOUS
    <2>0. accepted = 0 /\ write_buffer = <<>> /\ cmds = <<>> /\ ready = "Opening"
      BY Zenon DEF Init
    <2>1. accepted - Len(write_buffer) = 0
      <3>1. Len(write_buffer) = 0
        BY <2>0
      <3> QED
        BY <2>0, <3>1, EmptyDifference, Zenon
    <2>2. {batch[t] : t \in Tasks} \ {<<>>} = {}
      BY DEF Init
    <2> QED
      BY <2>0, <2>1, <2>2 DEF Pipe!Init
  <1>2. TypeInv /\ CloseInv /\ [Next]_vars => CloseInv'
    BY CloseNext
  <1>3. TypeInv /\ CloseInv /\ BornInv /\ OrderInv /\ PacketInv /\ [Next]_vars
          => [Pipe!Next]_Pipe!vars
    BY PacketSteps, PipeFrame, PipePush, PipeTake, PipeSendCmd, PipeClose DEF Pipe!Next
  <1> QED
    BY <1>1, <1>2, <1>3, TypeInit, TypeNext, CloseInit, PacketInit, BornNext, OrderNext,
       PacketNext, PTL DEF Spec, ImplementsPipe, Pipe!Spec

-----------------------------------------------------------------------------
(* Sequences of callbacks and sequences of batches of callbacks *)

Holds(s, c) == \E i \in 1..Len(s) : s[i] = c

HoldsIn(ss, c) == \E k \in 1..Len(ss) : Holds(ss[k], c)

\* No callback occurs twice in a sequence, or in a sequence of batches.
Once(s) == \A i, j \in 1..Len(s) : s[i] = s[j] => i = j

OnceIn(ss) ==
  \A k, l \in 1..Len(ss) : \A i \in 1..Len(ss[k]), j \in 1..Len(ss[l]) :
    ss[k][i] = ss[l][j] => k = l /\ i = j

\* What nested queues hold once is in one place of one of them.
LEMMA SamePlace ==
  ASSUME NEW ss, OnceIn(ss), NEW k \in 1..Len(ss), NEW l \in 1..Len(ss),
         NEW i \in 1..Len(ss[k]), NEW j \in 1..Len(ss[l]), ss[k][i] = ss[l][j]
  PROVE  k = l /\ i = j
  BY DEF OnceIn

\* Empty queues hold nothing.
LEMMA EmptyHolds ==
  /\ \A c : ~Holds(<<>>, c) /\ ~HoldsIn(<<>>, c)
  /\ Once(<<>>) /\ OnceIn(<<>>)
  BY DEF Holds, HoldsIn, Once, OnceIn

\* Appending something new.
LEMMA AppendHolds ==
  ASSUME NEW s \in Seq(Nat), NEW x \in Nat, Once(s), ~Holds(s, x)
  PROVE  /\ Once(Append(s, x))
         /\ \A c : Holds(Append(s, x), c) => Holds(s, c) \/ c = x
  BY DEF Holds, Once

\* The elements of a concatenation.
LEMMA ConcatAt ==
  ASSUME NEW S, NEW r \in Seq(S), NEW s \in Seq(S)
  PROVE  /\ Len(r \o s) = Len(r) + Len(s) /\ Len(r) \in Nat /\ Len(s) \in Nat
         /\ \A i \in 1..Len(r) : (r \o s)[i] = r[i]
         /\ \A i \in 1..Len(r \o s) : i > Len(r) => (r \o s)[i] = s[i - Len(r)]
  OBVIOUS

\* Joining two queues that have nothing in common.
LEMMA ConcatHolds ==
  ASSUME NEW r \in Seq(Nat), NEW s \in Seq(Nat), Once(r), Once(s),
         \A c : ~(Holds(r, c) /\ Holds(s, c))
  PROVE  /\ Once(r \o s)
         /\ \A c : Holds(r \o s, c) => Holds(r, c) \/ Holds(s, c)
  <1> DEFINE rs == r \o s
  <1>1. /\ Len(rs) = Len(r) + Len(s) /\ Len(r) \in Nat /\ Len(s) \in Nat
        /\ \A i \in 1..Len(r) : rs[i] = r[i]
        /\ \A i \in 1..Len(rs) : i > Len(r) => rs[i] = s[i - Len(r)]
    BY ConcatAt
  <1> HIDE DEF rs
  <1>2. ASSUME NEW i \in 1..Len(rs)
        PROVE  IF i <= Len(r) THEN i \in 1..Len(r) /\ rs[i] = r[i] /\ Holds(r, rs[i])
               ELSE i - Len(r) \in 1..Len(s) /\ rs[i] = s[i - Len(r)] /\ Holds(s, rs[i])
    BY <1>1 DEF Holds
  <1>3. \A c : Holds(rs, c) => Holds(r, c) \/ Holds(s, c)
    BY <1>2 DEF Holds
  <1>4. ASSUME NEW i \in 1..Len(rs), NEW j \in 1..Len(rs), rs[i] = rs[j]
        PROVE  i = j
    <2>1. CASE i <= Len(r) /\ j <= Len(r)
      BY <1>2, <1>4, <2>1 DEF Once
    <2>2. CASE i > Len(r) /\ j > Len(r)
      <3>1. i - Len(r) = j - Len(r)
        BY <1>1, <1>2, <1>4, <2>2 DEF Once
      <3> QED
        BY <1>1, <3>1
    <2>3. CASE ~(i <= Len(r) <=> j <= Len(r))
      BY <1>1, <1>2, <1>4, <2>3
    <2> QED
      BY <1>1, <2>1, <2>2, <2>3
  <1> QED
    BY <1>3, <1>4 DEF Once, rs

\* Joining two queues of batches that have nothing in common.
LEMMA ConcatHoldsIn ==
  ASSUME NEW r \in Seq(Seq(Nat)), NEW s \in Seq(Seq(Nat)), OnceIn(r), OnceIn(s),
         \A c : ~(HoldsIn(r, c) /\ HoldsIn(s, c))
  PROVE  /\ OnceIn(r \o s)
         /\ \A c : HoldsIn(r \o s, c) => HoldsIn(r, c) \/ HoldsIn(s, c)
  <1> DEFINE rs == r \o s
  <1>1. /\ Len(rs) = Len(r) + Len(s) /\ Len(r) \in Nat /\ Len(s) \in Nat
        /\ \A i \in 1..Len(r) : rs[i] = r[i]
        /\ \A i \in 1..Len(rs) : i > Len(r) => rs[i] = s[i - Len(r)]
    BY ConcatAt
  <1> HIDE DEF rs
  <1>2. ASSUME NEW k \in 1..Len(rs)
        PROVE  IF k <= Len(r) THEN k \in 1..Len(r) /\ rs[k] = r[k]
               ELSE k - Len(r) \in 1..Len(s) /\ rs[k] = s[k - Len(r)]
    BY <1>1
  <1>3. \A c : HoldsIn(rs, c) => HoldsIn(r, c) \/ HoldsIn(s, c)
    BY <1>2 DEF HoldsIn
  <1>4. ASSUME NEW k \in 1..Len(rs), NEW i \in 1..Len(rs[k])
        PROVE  IF k <= Len(r) THEN HoldsIn(r, rs[k][i]) ELSE HoldsIn(s, rs[k][i])
    BY <1>2 DEF HoldsIn, Holds
  <1>5. ASSUME NEW k \in 1..Len(rs), NEW l \in 1..Len(rs),
               NEW i \in 1..Len(rs[k]), NEW j \in 1..Len(rs[l]), rs[k][i] = rs[l][j]
        PROVE  k = l /\ i = j
    <2>1. CASE k <= Len(r) /\ l <= Len(r)
      <3>1. k \in 1..Len(r) /\ rs[k] = r[k] /\ l \in 1..Len(r) /\ rs[l] = r[l]
        BY <1>2, <2>1
      <3>2. i \in 1..Len(r[k]) /\ j \in 1..Len(r[l]) /\ r[k][i] = r[l][j]
        BY <1>5, <3>1
      <3> QED
        BY <3>1, <3>2, SamePlace
    <2>2. CASE k > Len(r) /\ l > Len(r)
      <3> DEFINE k1 == k - Len(r)
                 l1 == l - Len(r)
      <3>0. k1 \in 1..Len(s) /\ rs[k] = s[k1] /\ l1 \in 1..Len(s) /\ rs[l] = s[l1]
        BY <1>1, <1>2, <2>2
      <3> HIDE DEF k1, l1
      <3>2. i \in 1..Len(s[k1]) /\ j \in 1..Len(s[l1]) /\ s[k1][i] = s[l1][j]
        BY <1>5, <3>0
      <3>3. k1 = l1 /\ i = j
        <4>1. \A m, n \in 1..Len(s) : \A x \in 1..Len(s[m]), y \in 1..Len(s[n]) :
                s[m][x] = s[n][y] => m = n /\ x = y
          BY DEF OnceIn
        <4>2. \A x \in 1..Len(s[k1]), y \in 1..Len(s[l1]) :
                s[k1][x] = s[l1][y] => k1 = l1 /\ x = y
          BY <3>0, <4>1
        <4> QED
          BY <3>2, <4>2
      <3>1. k - Len(r) = l - Len(r) /\ i = j
        BY <3>3 DEF k1, l1
      <3> QED
        BY <1>1, <3>1
    <2>3. CASE ~(k <= Len(r) <=> l <= Len(r))
      BY <1>1, <1>4, <1>5, <2>3
    <2> QED
      BY <1>1, <2>1, <2>2, <2>3
  <1> QED
    BY <1>3, <1>5 DEF OnceIn, rs

\* One batch of all callbacks, or one batch for each of them.
LEMMA BatchHolds ==
  ASSUME NEW s \in Seq(Nat), Once(s)
  PROVE  /\ OnceIn(<<s>>) /\ \A c : HoldsIn(<<s>>, c) <=> Holds(s, c)
         /\ LET ss == [i \in 1..Len(s) |-> <<s[i]>>]
            IN  /\ OnceIn(ss) /\ \A c : HoldsIn(ss, c) => Holds(s, c)
  <1>1. OnceIn(<<s>>) /\ \A c : HoldsIn(<<s>>, c) <=> Holds(s, c)
    BY DEF OnceIn, Once, HoldsIn, Holds
  <1> DEFINE ss == [i \in 1..Len(s) |-> <<s[i]>>]
  <1>2. /\ Len(ss) = Len(s) /\ \A k \in 1..Len(s) : ss[k] = <<s[k]>>
    OBVIOUS
  <1> HIDE DEF ss
  <1>3. \A k \in 1..Len(s) : Len(ss[k]) = 1 /\ ss[k][1] = s[k]
    <2> SUFFICES ASSUME NEW k \in 1..Len(s) PROVE Len(<<s[k]>>) = 1 /\ <<s[k]>>[1] = s[k]
      BY <1>2
    <2> QED
      OBVIOUS
  <1>4. OnceIn(ss)
    BY <1>2, <1>3 DEF OnceIn, Once
  <1>5. \A c : HoldsIn(ss, c) => Holds(s, c)
    BY <1>2, <1>3 DEF HoldsIn, Holds
  <1> QED
    BY <1>1, <1>4, <1>5 DEF ss

\* The first batch and the others.
LEMMA HeadHolds ==
  ASSUME NEW ss \in Seq(Seq(Nat)), ss # <<>>, OnceIn(ss)
  PROVE  /\ Head(ss) \in Seq(Nat) /\ Once(Head(ss)) /\ OnceIn(Tail(ss))
         /\ \A c : Holds(Head(ss), c) \/ HoldsIn(Tail(ss), c) => HoldsIn(ss, c)
         /\ \A c : ~(Holds(Head(ss), c) /\ HoldsIn(Tail(ss), c))
  <1> DEFINE h == Head(ss)
             r == Tail(ss)
  <1>1. /\ h = ss[1] /\ h \in Seq(Nat) /\ Len(ss) \in Nat \ {0} /\ Len(r) = Len(ss) - 1
        /\ \A k \in 1..Len(r) : r[k] = ss[k + 1] /\ k + 1 \in 1..Len(ss)
    OBVIOUS
  <1> HIDE DEF h, r
  <1>2. Once(h)
    BY <1>1 DEF Once, OnceIn
  <1>3. OnceIn(r)
    <2> SUFFICES ASSUME NEW k \in 1..Len(r), NEW l \in 1..Len(r),
                        NEW i \in 1..Len(r[k]), NEW j \in 1..Len(r[l]), r[k][i] = r[l][j]
                 PROVE  k = l /\ i = j
      BY DEF OnceIn
    <2>1. k + 1 = l + 1 /\ i = j
      <3>1. /\ r[k] = ss[k + 1] /\ k + 1 \in 1..Len(ss)
            /\ r[l] = ss[l + 1] /\ l + 1 \in 1..Len(ss)
        BY <1>1
      <3>2. /\ i \in 1..Len(ss[k + 1]) /\ j \in 1..Len(ss[l + 1])
            /\ ss[k + 1][i] = ss[l + 1][j]
        BY <3>1
      <3> QED
        <4>1. \A m, n \in 1..Len(ss) : \A x \in 1..Len(ss[m]), y \in 1..Len(ss[n]) :
                ss[m][x] = ss[n][y] => m = n /\ x = y
          BY DEF OnceIn
        <4>2. \A x \in 1..Len(ss[k + 1]), y \in 1..Len(ss[l + 1]) :
                ss[k + 1][x] = ss[l + 1][y] => k + 1 = l + 1 /\ x = y
          BY <3>1, <4>1
        <4> QED
          BY <3>2, <4>2
    <2> QED
      BY <1>1, <2>1
  <1>4. \A c : Holds(h, c) \/ HoldsIn(r, c) => HoldsIn(ss, c)
    <2>1. ASSUME NEW c, Holds(h, c) PROVE HoldsIn(ss, c)
      BY <1>1, <2>1 DEF HoldsIn
    <2>2. ASSUME NEW c, HoldsIn(r, c) PROVE HoldsIn(ss, c)
      <3>1. PICK k \in 1..Len(r) : Holds(r[k], c)
        BY <2>2 DEF HoldsIn
      <3>2. k + 1 \in 1..Len(ss) /\ Holds(ss[k + 1], c)
        BY <1>1, <3>1
      <3> QED
        BY <3>2 DEF HoldsIn
    <2> QED
      BY <2>1, <2>2
  <1>5. ASSUME NEW c, Holds(h, c), HoldsIn(r, c)
        PROVE  FALSE
    <2>1. PICK i \in 1..Len(ss[1]) : ss[1][i] = c
      BY <1>1, <1>5 DEF Holds
    <2>2. PICK k \in 1..Len(r) : \E j \in 1..Len(r[k]) : r[k][j] = c
      BY <1>5 DEF HoldsIn, Holds
    <2>3. 1 = k + 1
      <3>1. r[k] = ss[k + 1] /\ k + 1 \in 1..Len(ss) /\ 1 \in 1..Len(ss)
        BY <1>1
      <3>2. PICK j \in 1..Len(ss[k + 1]) : ss[k + 1][j] = c
        BY <2>2, <3>1
      <3>3. ss[1][i] = ss[k + 1][j]
        BY <2>1, <3>2
      <3> QED
        BY <2>1, <3>1, <3>2, <3>3, SamePlace
    <2> QED
      BY <1>1, <2>2, <2>3
  <1> QED
    BY <1>1, <1>2, <1>3, <1>4, <1>5 DEF h, r

-----------------------------------------------------------------------------
(* Every callback is in at most one place *)

\* A flush holds callbacks from the lock under which it takes them to the one
\* under which it queues them; a task that panics between the two keeps them.
Keeping == {"framing", "extend", "panicked"}

HoldInv == \A t \in Tasks : pc[t] \notin Keeping => taken_callbacks[t] = <<>>

\* No queue holds a callback twice.
QueueInv ==
  /\ Once(pending_callbacks) /\ Once(fired) /\ OnceIn(flushed_callbacks)
  /\ \A t \in Tasks : OnceIn(taken_callbacks[t])

\* No two queues hold the same callback, and the next one is in none of them.
ApartInv ==
  \A c :
    /\ Holds(pending_callbacks, c) => /\ c \in 1..accepted /\ ~Holds(fired, c)
                                     /\ ~HoldsIn(flushed_callbacks, c)
    /\ HoldsIn(flushed_callbacks, c) => c \in 1..accepted /\ ~Holds(fired, c)
    /\ Holds(fired, c) => c \in 1..accepted
    /\ \A t \in Tasks : HoldsIn(taken_callbacks[t], c) =>
         /\ c \in 1..accepted /\ ~Holds(pending_callbacks, c)
         /\ ~HoldsIn(flushed_callbacks, c) /\ ~Holds(fired, c)
         /\ \A u \in Tasks : u # t => ~HoldsIn(taken_callbacks[u], c)

CallbackInv == HoldInv /\ QueueInv /\ ApartInv

\* A step that touches no callback, nor moves a task that holds some.
Quiet ==
  /\ UNCHANGED <<pending_callbacks, flushed_callbacks, taken_callbacks, fired, accepted>>
  /\ \A t \in Tasks : pc[t] \in Keeping => pc'[t] \in Keeping

\* Push, TakeCallbacks, Framing, Extend, OnDrain and OnCloseWrite are the only
\* steps that touch callbacks.
LEMMA CallbackSteps ==
  ASSUME TypeInv, BornInv, [Next]_vars
  PROVE  \/ \E t \in Tasks : Push(t) \/ TakeCallbacks(t) \/ Framing(t) \/ Extend(t)
         \/ OnDrain \/ OnCloseWrite
         \/ Quiet
  <1> USE TaskFacts
  <1> USE DEF socketState, channels, server, history, Keeping
  <1>0. pc \in [Tasks -> Labels]
    BY DEF TypeInv, TypeOK
  <1>1. ASSUME NEW t \in Tasks, TaskStep(t), ~Push(t), ~TakeCallbacks(t), ~Framing(t),
               ~Extend(t)
        PROVE  Quiet
    <2>1. CASE SendCheck(t) \/ FlushCheck(t) \/ FlushWritable(t) \/ PollRequest(t)
      BY <1>0, <2>1
      DEF SendCheck, FlushCheck, FlushWritable, PollRequest, ProceedIf, Return, Goto, At,
          Quiet
    <2>2. CASE FlushEvent(t) \/ DrainEvent(t)
      BY <1>0, <2>2 DEF FlushEvent, DrainEvent, Emit, Deliver, Goto, At, Quiet
    <2>3. CASE Take(t) \/ SendCmd(t)
      BY <1>0, <2>3 DEF Take, SendCmd, Goto, At, Quiet
    <2>4. CASE FlushEnd(t) \/ LockPoisoned(t)
      BY <1>0, <2>4 DEF FlushEnd, Return, Goto, At, LockPoisoned, Move, Quiet
    <2> QED
      BY <1>1, <2>1, <2>2, <2>3, <2>4 DEF TaskStep, SendPacket, Flush
  <1>2. ASSUME NEW t \in Callers, CallerStart(t)
        PROVE  Quiet
    <2>1. CASE StartSend(t) \/ StartPoll(t)
      BY <1>0, <2>1 DEF StartSend, StartPoll, Start, Call, Quiet
    <2>2. CASE Close(t) \/ MaybeUpgrade(t) \/ CloseSocket(t)
      BY <1>0, <2>2 DEF Close, MaybeUpgrade, CloseSocket, Start, Goto, tasks, Quiet
    <2> QED
      BY <1>2, <2>1, <2>2 DEF CallerStart
  <1>3. ASSUME NEW e \in TransportEvents, Report(e)
        PROVE  Quiet
    BY <1>3 DEF Report, tasks, Quiet
  <1>4. CASE HandshakeStep
    <2>1. CASE SpawnSubscriber
      <3>1. pc[Subscriber] = "unborn" /\ pc[Handshake] = "subscribe"
        BY <2>1 DEF SpawnSubscriber, At, BornInv, Answering, FlushSteps
      <3> QED
        BY <1>0, <2>1, <3>1 DEF SpawnSubscriber, Quiet
    <2>2. CASE Open \/ SendOpenPacket \/ OpenEvent \/ SetPingTimeout
                 \/ SendInitialPacket \/ Respond
      BY <1>0, <2>2
      DEF Open, SendOpenPacket, OpenEvent, SetPingTimeout, SendInitialPacket, Respond, At,
          Call, Move, Emit, Deliver, Goto, Quiet
    <2> QED
      BY <1>4, <2>1, <2>2 DEF HandshakeStep
  <1>5. CASE SubscriberStep /\ ~OnCloseWrite /\ ~OnDrain
    <2>1. CASE Recv
      <3>1. pc[Subscriber] = "recv" /\ \A u \in Tasks : u # Subscriber => pc'[u] = pc[u]
        BY <1>0, <2>1 DEF Recv, At, Move, Goto
      <3>2. UNCHANGED <<pending_callbacks, flushed_callbacks, taken_callbacks, fired, accepted>>
        BY <2>1 DEF Recv, Move
      <3> QED
        BY <3>1, <3>2 DEF Quiet
    <2>2. CASE OnPacket
      <3>1. pc[Subscriber] = "packet" /\ \A u \in Tasks : u # Subscriber => pc'[u] = pc[u]
        BY <1>0, <2>2 DEF OnPacket, At, Call
      <3>2. UNCHANGED <<pending_callbacks, flushed_callbacks, taken_callbacks, fired, accepted>>
        BY <2>2 DEF OnPacket, Call
      <3> QED
        BY <3>1, <3>2 DEF Quiet
    <2>3. CASE Heartbeat \/ MessageEvent \/ OnCloseEvent
      BY <1>0, <2>3
      DEF Heartbeat, MessageEvent, OnCloseEvent, At, Emit, Deliver, Goto, Quiet
    <2>4. CASE OnTransportError \/ OnCloseCheck \/ OnCloseTransport
      BY <1>0, <2>4
      DEF OnTransportError, OnCloseCheck, OnCloseTransport, At, Move, Goto, Quiet
    <2> QED
      BY <1>5, <2>1, <2>2, <2>3, <2>4 DEF SubscriberStep
  <1>6. CASE TrySubscribe \/ EventLoop \/ UNCHANGED vars
    BY <1>6 DEF TrySubscribe, EventLoop, LoopRecv, LoopRemove, vars, tasks, Quiet
  <1> QED
    BY <1>1, <1>2, <1>3, <1>4, <1>5, <1>6 DEF Next

\* A quiet step keeps CallbackInv.
LEMMA CallbackFrame ==
  ASSUME CallbackInv, Quiet
  PROVE  CallbackInv'
  <1>1. HoldInv'
    BY DEF CallbackInv, HoldInv, Quiet
  <1>2. QueueInv' /\ ApartInv'
    BY DEF CallbackInv, QueueInv, ApartInv, Quiet
  <1> QED
    BY <1>1, <1>2 DEF CallbackInv

\* A callback gets the number of its packet, which no other has.
LEMMA CallbackPush ==
  ASSUME TypeInv, CallbackInv, NEW t \in Tasks, Push(t)
  PROVE  CallbackInv'
  <1>1. /\ UNCHANGED <<flushed_callbacks, taken_callbacks, fired>>
        /\ accepted' = accepted + 1 /\ pc[t] = "push" /\ pc' = [pc EXCEPT ![t] = "flush"]
        /\ \/ pending_callbacks' = pending_callbacks
           \/ pending_callbacks' = Append(pending_callbacks, accepted + 1)
    BY DEF Push, At, Goto
  <1>2. pc \in [Tasks -> Labels] /\ pending_callbacks \in Seq(Nat) /\ accepted \in Nat
    BY DEF TypeInv, TypeOK
  <1>3. accepted + 1 \notin 1..accepted /\ \A c \in 1..accepted : c \in 1..accepted'
    BY <1>1, <1>2
  <1>4. ~Holds(pending_callbacks, accepted + 1)
    BY <1>3 DEF CallbackInv, ApartInv
  <1>5. /\ Once(pending_callbacks')
        /\ \A c : Holds(pending_callbacks', c) => Holds(pending_callbacks, c) \/ c = accepted + 1
    <2>1. Once(pending_callbacks) /\ accepted + 1 \in Nat
      BY <1>2 DEF CallbackInv, QueueInv
    <2>2. CASE pending_callbacks' = pending_callbacks
      BY <2>1, <2>2
    <2>3. CASE pending_callbacks' = Append(pending_callbacks, accepted + 1)
      BY <1>2, <1>4, <2>1, <2>3, AppendHolds
    <2> QED
      BY <1>1, <2>2, <2>3
  <1>6. HoldInv'
    BY <1>1, <1>2 DEF CallbackInv, HoldInv, Keeping
  <1>7. QueueInv'
    BY <1>1, <1>5 DEF CallbackInv, QueueInv
  <1>8. accepted + 1 \in 1..accepted'
    BY <1>1, <1>2
  <1>9. ApartInv'
    BY <1>1, <1>3, <1>5, <1>8, Zenon DEF CallbackInv, ApartInv
  <1> QED
    BY <1>6, <1>7, <1>9 DEF CallbackInv

\* flush takes the pending callbacks; it held none.
LEMMA CallbackTake ==
  ASSUME TypeInv, CallbackInv, NEW t \in Tasks, TakeCallbacks(t)
  PROVE  CallbackInv'
  <1>1. /\ UNCHANGED <<flushed_callbacks, fired, accepted>> /\ pending_callbacks' = <<>>
        /\ taken_callbacks' = [taken_callbacks EXCEPT ![t] = <<pending_callbacks>>]
        /\ pc[t] = "callbacks" /\ pc' = [pc EXCEPT ![t] = "framing"]
    BY DEF TakeCallbacks, At, Goto, history
  <1>2. /\ pc \in [Tasks -> Labels] /\ pending_callbacks \in Seq(Nat)
        /\ taken_callbacks \in [Tasks -> Seq(Seq(Nat))]
    BY DEF TypeInv, TypeOK
  <1>3. /\ OnceIn(taken_callbacks'[t])
        /\ \A c : HoldsIn(taken_callbacks'[t], c) => Holds(pending_callbacks, c)
        /\ \A u \in Tasks : u # t => taken_callbacks'[u] = taken_callbacks[u]
    BY <1>1, <1>2, BatchHolds DEF CallbackInv, QueueInv
  <1>4. Once(pending_callbacks') /\ \A c : ~Holds(pending_callbacks', c)
    BY <1>1, EmptyHolds
  <1>5. HoldInv'
    BY <1>1, <1>2 DEF CallbackInv, HoldInv, Keeping
  <1>6. QueueInv'
    BY <1>1, <1>3, <1>4 DEF CallbackInv, QueueInv
  <1>7. ApartInv'
    BY <1>1, <1>3, <1>4 DEF CallbackInv, ApartInv
  <1> QED
    BY <1>5, <1>6, <1>7 DEF CallbackInv

\* Framing distributes the callbacks of a task over batches.
LEMMA CallbackFraming ==
  ASSUME TypeInv, CallbackInv, NEW t \in Tasks, Framing(t)
  PROVE  CallbackInv'
  <1> DEFINE s == taken_callbacks[t][1]
             ss == [i \in 1..Len(s) |-> <<s[i]>>]
  <1>1. /\ UNCHANGED <<pending_callbacks, flushed_callbacks, fired, accepted>>
        /\ \/ taken_callbacks' = [taken_callbacks EXCEPT ![t] = ss]
           \/ taken_callbacks' = [taken_callbacks EXCEPT ![t] = <<s>>]
        /\ pc[t] = "framing" /\ pc' = [pc EXCEPT ![t] = "extend"]
    BY DEF Framing, At, Goto, history, socketState
  <1>2. /\ pc \in [Tasks -> Labels] /\ taken_callbacks \in [Tasks -> Seq(Seq(Nat))]
        /\ Len(taken_callbacks[t]) = 1
    BY <1>1 DEF TypeInv, TypeOK, FramingOK
  <1>3. s \in Seq(Nat) /\ 1 \in 1..Len(taken_callbacks[t])
    <2>1. taken_callbacks[t] \in Seq(Seq(Nat))
      BY <1>2
    <2>2. ASSUME NEW r \in Seq(Seq(Nat)), Len(r) = 1
          PROVE  r[1] \in Seq(Nat) /\ 1 \in 1..Len(r)
      BY <2>2
    <2> QED
      BY <1>2, <2>1, <2>2
  <1>4. Once(s) /\ \A c : Holds(s, c) => HoldsIn(taken_callbacks[t], c)
    <2>1. OnceIn(taken_callbacks[t])
      BY DEF CallbackInv, QueueInv
    <2> QED
      BY <1>3, <2>1 DEF OnceIn, Once, HoldsIn
  <1>5. /\ OnceIn(ss) /\ \A c : HoldsIn(ss, c) => Holds(s, c)
        /\ OnceIn(<<s>>) /\ \A c : HoldsIn(<<s>>, c) => Holds(s, c)
    BY <1>3, <1>4, BatchHolds
  <1>6. \A u \in Tasks : u # t => taken_callbacks'[u] = taken_callbacks[u]
    BY <1>1, <1>2
  <1>7. taken_callbacks'[t] = ss \/ taken_callbacks'[t] = <<s>>
    BY <1>1, <1>2
  <1> HIDE DEF s, ss
  <1>8. /\ OnceIn(taken_callbacks'[t])
        /\ \A c : HoldsIn(taken_callbacks'[t], c) => HoldsIn(taken_callbacks[t], c)
    BY <1>4, <1>5, <1>7
  <1>9. HoldInv'
    BY <1>1, <1>2, <1>6 DEF CallbackInv, HoldInv, Keeping
  <1>10. QueueInv'
    BY <1>1, <1>6, <1>8 DEF CallbackInv, QueueInv
  <1>11. \A c : \A u \in Tasks : HoldsIn(taken_callbacks'[u], c) => HoldsIn(taken_callbacks[u], c)
    BY <1>6, <1>8
  <1>12. ApartInv'
    BY <1>1, <1>11 DEF CallbackInv, ApartInv
  <1> QED
    BY <1>9, <1>10, <1>12 DEF CallbackInv

\* The batches of a task go to the end of the queue.
LEMMA CallbackExtend ==
  ASSUME TypeInv, CallbackInv, NEW t \in Tasks, Extend(t)
  PROVE  CallbackInv'
  <1>1. /\ UNCHANGED <<pending_callbacks, fired, accepted>>
        /\ flushed_callbacks' = flushed_callbacks \o taken_callbacks[t]
        /\ taken_callbacks' = [taken_callbacks EXCEPT ![t] = <<>>]
        /\ pc[t] = "extend" /\ pc' = [pc EXCEPT ![t] = "drain_event"]
    BY DEF Extend, At, Goto, history
  <1>2. /\ pc \in [Tasks -> Labels] /\ taken_callbacks \in [Tasks -> Seq(Seq(Nat))]
        /\ flushed_callbacks \in Seq(Seq(Nat))
    BY DEF TypeInv, TypeOK
  <1>3. /\ taken_callbacks'[t] = <<>>
        /\ \A u \in Tasks : u # t => taken_callbacks'[u] = taken_callbacks[u]
    BY <1>1, <1>2
  <1>4. OnceIn(taken_callbacks'[t]) /\ \A c : ~HoldsIn(taken_callbacks'[t], c)
    BY <1>3, EmptyHolds
  <1>5. /\ OnceIn(flushed_callbacks')
        /\ \A c : HoldsIn(flushed_callbacks', c) =>
              HoldsIn(flushed_callbacks, c) \/ HoldsIn(taken_callbacks[t], c)
    <2>1. OnceIn(flushed_callbacks) /\ OnceIn(taken_callbacks[t])
      BY DEF CallbackInv, QueueInv
    <2>2. \A c : ~(HoldsIn(flushed_callbacks, c) /\ HoldsIn(taken_callbacks[t], c))
      BY DEF CallbackInv, ApartInv
    <2>3. taken_callbacks[t] \in Seq(Seq(Nat))
      BY <1>2
    <2> QED
      BY <1>1, <1>2, <2>1, <2>2, <2>3, ConcatHoldsIn
  <1>6. HoldInv'
    BY <1>1, <1>2, <1>3 DEF CallbackInv, HoldInv
  <1>7. QueueInv'
    BY <1>1, <1>3, <1>4, <1>5 DEF CallbackInv, QueueInv
  <1>8. ApartInv'
    BY <1>1, <1>3, <1>4, <1>5 DEF CallbackInv, ApartInv
  <1> QED
    BY <1>6, <1>7, <1>8 DEF CallbackInv

\* on_drain runs the first batch of the queue.
LEMMA CallbackDrain ==
  ASSUME TypeInv, CallbackInv, OnDrain
  PROVE  CallbackInv'
  <1>1. /\ UNCHANGED <<pending_callbacks, taken_callbacks, accepted>>
        /\ pc[Subscriber] = "on_drain" /\ pc' = [pc EXCEPT ![Subscriber] = "recv"]
    BY DEF OnDrain, At, Goto
  <1>2. /\ pc \in [Tasks -> Labels] /\ flushed_callbacks \in Seq(Seq(Nat))
        /\ fired \in Seq(Nat)
    BY DEF TypeInv, TypeOK
  <1>3. HoldInv'
    BY <1>1, <1>2, TaskFacts DEF CallbackInv, HoldInv, Keeping
  <1>4. CASE flushed_callbacks = <<>>
    BY <1>1, <1>3, <1>4 DEF OnDrain, CallbackInv, QueueInv, ApartInv
  <1>5. CASE flushed_callbacks # <<>>
    <2> DEFINE h == Head(flushed_callbacks)
    <2>1. fired' = fired \o h /\ flushed_callbacks' = Tail(flushed_callbacks)
      BY <1>5 DEF OnDrain
    <2>2. OnceIn(flushed_callbacks) /\ Once(fired)
      BY DEF CallbackInv, QueueInv
    <2>3. /\ h \in Seq(Nat) /\ Once(h) /\ OnceIn(flushed_callbacks')
          /\ \A c : Holds(h, c) \/ HoldsIn(flushed_callbacks', c) => HoldsIn(flushed_callbacks, c)
          /\ \A c : ~(Holds(h, c) /\ HoldsIn(flushed_callbacks', c))
      BY <1>2, <1>5, <2>1, <2>2, HeadHolds
    <2> HIDE DEF h
    <2>4. \A c : ~(Holds(fired, c) /\ Holds(h, c))
      BY <2>3 DEF CallbackInv, ApartInv
    <2>5. Once(fired') /\ \A c : Holds(fired', c) => Holds(fired, c) \/ Holds(h, c)
      BY <1>2, <2>1, <2>2, <2>3, <2>4, ConcatHolds
    <2>6. QueueInv'
      BY <1>1, <2>3, <2>5 DEF CallbackInv, QueueInv
    <2>7. ApartInv'
      BY <1>1, <2>3, <2>5 DEF CallbackInv, ApartInv
    <2> QED
      BY <1>3, <2>6, <2>7 DEF CallbackInv
  <1> QED
    BY <1>4, <1>5

\* on_close forgets the pending callbacks.
LEMMA CallbackClose ==
  ASSUME TypeInv, CallbackInv, OnCloseWrite
  PROVE  CallbackInv'
  <1>1. /\ UNCHANGED <<flushed_callbacks, taken_callbacks, fired, accepted>>
        /\ pending_callbacks' = <<>>
        /\ pc[Subscriber] = "close_write" /\ pc' = [pc EXCEPT ![Subscriber] = "close_transport"]
    BY DEF OnCloseWrite, At, Goto, history
  <1>2. Once(pending_callbacks') /\ \A c : ~Holds(pending_callbacks', c)
    BY <1>1, EmptyHolds
  <1>3. HoldInv'
    BY <1>1, TaskFacts DEF CallbackInv, HoldInv, Keeping, TypeInv, TypeOK
  <1>4. QueueInv' /\ ApartInv'
    BY <1>1, <1>2 DEF CallbackInv, QueueInv, ApartInv
  <1> QED
    BY <1>3, <1>4 DEF CallbackInv

\* CallbackInv is inductive relative to TypeInv and BornInv.
LEMMA CallbackNext == TypeInv /\ BornInv /\ CallbackInv /\ [Next]_vars => CallbackInv'
  BY CallbackSteps, CallbackFrame, CallbackPush, CallbackTake, CallbackFraming,
     CallbackExtend, CallbackDrain, CallbackClose

\* No callback was registered.
LEMMA CallbackInit == Init => CallbackInv
  <1> SUFFICES ASSUME Init PROVE CallbackInv
    OBVIOUS
  <1>1. /\ pending_callbacks = <<>> /\ flushed_callbacks = <<>> /\ fired = <<>>
        /\ \A t \in Tasks : taken_callbacks[t] = <<>>
    BY DEF Init
  <1>2. HoldInv /\ QueueInv /\ ApartInv
    BY <1>1, EmptyHolds DEF HoldInv, QueueInv, ApartInv
  <1> QED
    BY <1>2 DEF CallbackInv

-----------------------------------------------------------------------------
(* Places *)

\* A callback is pending, in the hands of a flush, queued or was run.
LEMMA CallbackPlacesAre ==
  ASSUME NEW c, NEW x
  PROVE  x \in CallbackPlaces(c) <=>
           \/ x \in Places("pending", 0, pending_callbacks, c)
           \/ \E t \in Tasks : \E k \in DOMAIN taken_callbacks[t] :
                x \in Places("taken", <<t, k>>, taken_callbacks[t][k], c)
           \/ \E k \in DOMAIN flushed_callbacks :
                x \in Places("flushed", k, flushed_callbacks[k], c)
           \/ x \in Places("fired", 0, fired, c)
  BY DEF CallbackPlaces

\* What the three parts of CallbackInv say about the places of one callback.
LEMMA PlacesOfCallback == TypeInv /\ CallbackInv => CallbackOnce
  <1> SUFFICES ASSUME TypeInv, CallbackInv, NEW c \in 1..accepted
               PROVE  Cardinality(CallbackPlaces(c)) <= 1
    BY DEF CallbackOnce
  <1>1. /\ pending_callbacks \in Seq(Nat) /\ fired \in Seq(Nat)
        /\ flushed_callbacks \in Seq(Seq(Nat))
        /\ taken_callbacks \in [Tasks -> Seq(Seq(Nat))]
    BY DEF TypeInv, TypeOK
  <1> DEFINE Pending(i) == i \in 1..Len(pending_callbacks) /\ pending_callbacks[i] = c
             Fired(i) == i \in 1..Len(fired) /\ fired[i] = c
             TakenAt(t, k, i) == /\ t \in Tasks /\ k \in 1..Len(taken_callbacks[t])
                                 /\ i \in 1..Len(taken_callbacks[t][k])
                                 /\ taken_callbacks[t][k][i] = c
             Flushed(k, i) == /\ k \in 1..Len(flushed_callbacks)
                              /\ i \in 1..Len(flushed_callbacks[k])
                              /\ flushed_callbacks[k][i] = c
  <1>2. \A x \in CallbackPlaces(c) :
          \/ \E i : Pending(i) /\ x = <<"pending", 0, i>>
          \/ \E t, k, i : TakenAt(t, k, i) /\ x = <<"taken", <<t, k>>, i>>
          \/ \E k, i : Flushed(k, i) /\ x = <<"flushed", k, i>>
          \/ \E i : Fired(i) /\ x = <<"fired", 0, i>>
    <2> TAKE x \in CallbackPlaces(c)
    <2>1. CASE x \in Places("pending", 0, pending_callbacks, c)
      BY <1>1, <2>1 DEF Places
    <2>2. CASE x \in Places("fired", 0, fired, c)
      BY <1>1, <2>2 DEF Places
    <2>3. ASSUME NEW t \in Tasks, NEW k \in DOMAIN taken_callbacks[t],
                 x \in Places("taken", <<t, k>>, taken_callbacks[t][k], c)
          PROVE  \E i : TakenAt(t, k, i) /\ x = <<"taken", <<t, k>>, i>>
      BY <1>1, <2>3 DEF Places
    <2>4. ASSUME NEW k \in DOMAIN flushed_callbacks,
                 x \in Places("flushed", k, flushed_callbacks[k], c)
          PROVE  \E i : Flushed(k, i) /\ x = <<"flushed", k, i>>
      BY <1>1, <2>4 DEF Places
    <2> HIDE DEF Pending, Fired, TakenAt, Flushed
    <2> QED
      BY CallbackPlacesAre, <2>1, <2>2, <2>3, <2>4
  <1>3. \A i : Pending(i) => Holds(pending_callbacks, c)
    BY DEF Holds
  <1>4. \A i : Fired(i) => Holds(fired, c)
    BY DEF Holds
  <1>5. \A t, k, i : TakenAt(t, k, i) => t \in Tasks /\ HoldsIn(taken_callbacks[t], c)
    BY DEF Holds, HoldsIn
  <1>6. \A k, i : Flushed(k, i) => HoldsIn(flushed_callbacks, c)
    BY DEF Holds, HoldsIn
  <1>7. /\ \A i, j : Pending(i) /\ Pending(j) => i = j
        /\ \A i, j : Fired(i) /\ Fired(j) => i = j
    BY DEF CallbackInv, QueueInv, Once
  <1>8. \A k, l, i, j : Flushed(k, i) /\ Flushed(l, j) => k = l /\ i = j
    BY DEF CallbackInv, QueueInv, OnceIn
  <1>9. \A t, k, l, i, j : TakenAt(t, k, i) /\ TakenAt(t, l, j) => k = l /\ i = j
    <2>1. ASSUME NEW t, NEW k, NEW l, NEW i, NEW j, TakenAt(t, k, i), TakenAt(t, l, j)
          PROVE  k = l /\ i = j
      <3>1. OnceIn(taken_callbacks[t])
        BY <2>1 DEF CallbackInv, QueueInv
      <3> QED
        BY <2>1, <3>1, SamePlace
    <2> HIDE DEF TakenAt
    <2> QED
      BY <2>1
  <1> HIDE DEF Pending, Fired, TakenAt, Flushed
  <1>10. \A t, u, k, l, i, j : TakenAt(t, k, i) /\ TakenAt(u, l, j) => t = u
    BY <1>5 DEF CallbackInv, ApartInv
  <1>11. /\ ~(Holds(pending_callbacks, c) /\ Holds(fired, c))
         /\ ~(Holds(pending_callbacks, c) /\ HoldsIn(flushed_callbacks, c))
         /\ ~(Holds(fired, c) /\ HoldsIn(flushed_callbacks, c))
         /\ \A t \in Tasks : HoldsIn(taken_callbacks[t], c) =>
              /\ ~Holds(pending_callbacks, c) /\ ~Holds(fired, c)
              /\ ~HoldsIn(flushed_callbacks, c)
    BY DEF CallbackInv, ApartInv
  <1>12. \A x, y \in CallbackPlaces(c) : x = y
    BY <1>2, <1>3, <1>4, <1>5, <1>6, <1>7, <1>8, <1>9, <1>10, <1>11
  <1> QED
    BY <1>12, AtMostOne

\* However many tasks flush at once, and wherever a poisoned lock stops one of
\* them, no callback is queued or run twice (socket.rs:344-363, 517-537).
THEOREM CallbacksOnce == Spec => []CallbackOnce
  BY TypeInit, TypeNext, PacketInit, BornNext, CallbackInit, CallbackNext,
     PlacesOfCallback, PTL DEF Spec
=============================================================================
