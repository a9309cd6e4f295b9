----------------------------- MODULE EngineSocket -----------------------------
(***************************************************************************)
(* One engine.io connection: the Socket of engine_io_server/src/socket.rs, *)
(* the handshake that opens it, the task that feeds it transport events,   *)
(* the library users that call it, and the part of the Server event loop   *)
(* (server.rs) that receives its events.                                   *)
(*                                                                         *)
(* An action is one critical section of the RwLock around SocketState, one *)
(* awaited send on a channel, or one access to the clients map: between    *)
(* any two of them another task may run.  pc[t] is the point a task has    *)
(* reached and ret[t] the point it goes on from when send_packet or flush  *)
(* returns.  A packet is the number of its push into write_buffer, and a   *)
(* callback is the number of the packet it was given with.                 *)
(***************************************************************************)
EXTENDS Integers, Sequences, FiniteSets

CONSTANTS
  Callers,            \* tasks of library users that hold the socket or the server
  Kinds,              \* transports a handshake may ask for
  Ops,                \* operations the callers use
  TransportEvents,    \* what the transport reports
  Implemented,        \* unfinished parts of the code taken as finished
  InitialPacket,      \* is ServerOptions::initial_packet set?
  EventCap,           \* capacity of the mpsc channel of SocketEvents
  TransportCap,       \* capacity of the broadcast channel of TransportEvents
  MaxPackets,         \* bound: no caller starts a send beyond this many pushes
  MaxTransportEvents  \* bound: number of transport events

(***************************************************************************)
(* The code calls todo!() or unimplemented!() in these places, and creates *)
(* the transport with an event channel nobody listens to ("wiring",        *)
(* transport.rs:244).  A part that is not in Implemented does what the     *)
(* code does: the stub panics and ends the task, the event is lost.  A     *)
(* part in Implemented returns, without any effect on the state modelled.  *)
(***************************************************************************)
Unfinished == {"get_available_upgrades", "set_ping_timeout", "on_packet",
               "wiring", "handle_upgrade", "close_socket"}

AllOps == {"send", "send_cb", "server_send", "poll", "close",
           "maybe_upgrade", "close_socket"}

Packets == {"ping", "message", "upgrade", "other"}

AllTransportEvents == Packets \cup {"error", "drain", "close"}

ASSUME SocketAssumption ==
  /\ IsFiniteSet(Callers)
  /\ {"handshake", "subscriber"} \cap Callers = {}
  /\ Kinds \subseteq {"polling", "websocket"}
  /\ Ops \subseteq AllOps
  /\ TransportEvents \subseteq AllTransportEvents
  /\ Implemented \subseteq Unfinished
  /\ InitialPacket \in BOOLEAN
  /\ EventCap \in Nat \ {0}
  /\ TransportCap \in Nat \ {0}
  /\ MaxPackets \in Nat
  /\ MaxTransportEvents \in Nat

Handshake  == "handshake"   \* the task that runs Server::handshake
Subscriber == "subscriber"  \* the task of subscribe_socket_to_transport_events

Tasks == Callers \cup {Handshake, Subscriber}

VARIABLES
  ready,              \* SocketState::ready
  transport,          \* SocketState::transport: its kind, or "none"
  write_buffer,       \* SocketState::write_buffer
  pending_callbacks,  \* SocketState::pending_callbacks
  flushed_callbacks,  \* SocketState::flushed_callbacks: a sequence of batches
  lock,               \* the RwLock: usable, held for ever, or poisoned
  events,             \* mpsc channel of SocketEvents to the Server
  cmds,               \* batches broadcast to the transport, in order
  tevents,            \* transport events the subscriber has not received
  lagged,             \* has the broadcast channel overwritten one of them?
  loop,               \* the Server's event loop
  clients,            \* is the socket in the Server's clients map?
  announced,          \* can a caller know the socket's id?
  pc, ret, op,        \* control state of each task
  batch,              \* packets a flush has taken and not handed over
  taken_callbacks,    \* callback batches a flush has taken, not yet flushed
  accepted,           \* number of pushes into write_buffer so far
  fired,              \* callbacks run, in order
  closes,             \* number of Close events sent to the Server
  reported,           \* number of transport events so far
  peer                \* has the transport reported that the peer is gone?

socketState == <<ready, transport, write_buffer, pending_callbacks,
                 flushed_callbacks, lock>>
channels    == <<events, cmds, tevents, lagged>>
server      == <<loop, clients, announced>>
tasks       == <<pc, ret, op, batch, taken_callbacks>>
history     == <<accepted, fired, closes, reported, peer>>
vars        == <<socketState, channels, server, tasks, history>>

-----------------------------------------------------------------------------
(* Types and initial state *)

FlushSteps == {"flush", "writable", "flush_event", "take", "cmd", "callbacks",
               "framing", "extend", "drain_event", "closing"}

SendSteps == {"check", "push"} \cup FlushSteps

HandshakeSteps == {"open", "upgrades", "open_event", "ping_timeout", "initial",
                   "subscribe", "respond", "poll", "done"}

SubscriberSteps == {"unborn", "recv", "packet", "heartbeat", "message_event",
                    "on_drain", "error_check", "close_check", "close_write",
                    "close_transport", "close_event", "ended"}

Labels == SendSteps \cup HandshakeSteps \cup SubscriberSteps
            \cup {"idle", "panicked", "stuck"}

\* Where send_packet, flush and a polling request may return to.
Returns == {"idle", "open_event", "subscribe", "done", "on_drain", "heartbeat"}

\* The steps that take the lock of SocketState.
LockSteps == (SendSteps \ {"flush_event", "cmd", "drain_event"})
               \cup {"open", "respond", "poll", "packet", "on_drain",
                     "error_check", "close_check", "close_write",
                     "close_transport"}

SocketEvents == {"open", "flush", "drain", "close", "heartbeat", "message"}

Init ==
  /\ ready = "Opening"
  /\ transport \in Kinds
  /\ write_buffer = <<>> /\ pending_callbacks = <<>> /\ flushed_callbacks = <<>>
  /\ lock = "free"
  /\ events = <<>> /\ cmds = <<>> /\ tevents = <<>> /\ lagged = FALSE
  /\ loop = "unsubscribed" /\ clients = TRUE /\ announced = FALSE
  /\ pc = [t \in Tasks |-> IF t = Handshake THEN "open"
                           ELSE IF t = Subscriber THEN "unborn" ELSE "idle"]
  /\ ret = [t \in Tasks |-> "idle"]
  /\ op = [t \in Tasks |-> "none"]
  /\ batch = [t \in Tasks |-> <<>>]
  /\ taken_callbacks = [t \in Tasks |-> <<>>]
  /\ accepted = 0 /\ fired = <<>> /\ closes = 0 /\ reported = 0 /\ peer = "up"

-----------------------------------------------------------------------------
(* Helpers *)

\* Task t reaches the label l.
Goto(t, l) == pc' = [pc EXCEPT ![t] = l]

\* A step that changes nothing but t's place.
Move(t, l) ==
  /\ Goto(t, l)
  /\ UNCHANGED <<socketState, channels, server, ret, op, batch,
                 taken_callbacks, history>>

\* t calls send_packet ("check"), flush ("flush") or a polling request
\* ("poll") and goes on from l when the call returns.
Call(t, entry, l) ==
  /\ pc' = [pc EXCEPT ![t] = entry]
  /\ ret' = [ret EXCEPT ![t] = l]
  /\ UNCHANGED <<socketState, channels, server, batch, taken_callbacks,
                 history>>

\* Where t goes on from if the unfinished part s does not panic.
Unless(s, l) == IF s \in Implemented THEN l ELSE "panicked"

\* t is at the step l and the lock of SocketState, if l takes it, is usable.
At(t, l) ==
  /\ pc[t] = l
  /\ l \in LockSteps => lock = "free"

\* e goes into the mpsc channel of SocketEvents.
Deliver(t, e, l) ==
  /\ events' = Append(events, e)
  /\ closes' = IF e = "close" THEN closes + 1 ELSE closes
  /\ Goto(t, l)
  /\ UNCHANGED <<socketState, cmds, tevents, lagged, server, ret, op, batch,
                 taken_callbacks, accepted, fired, reported, peer>>

\* Faulty Emit: a send that does not wait for room.
EmitUnbounded(t, e, l) == Deliver(t, e, l)

\* An awaited send on the channel: it waits while the channel is full.
Emit(t, e, l) == Len(events) < EventCap /\ Deliver(t, e, l)

\* Tasks inside Server::send_packet keep a reference into the clients map.
Holders == {t \in Callers : op[t] = "server_send" /\ pc[t] \notin {"idle", "panicked"}}

\* send_packet or flush returns to its caller.
Return(t) ==
  /\ Goto(t, ret[t])
  /\ ret' = [ret EXCEPT ![t] = "idle"]
  /\ op' = [op EXCEPT ![t] = "none"]

\* t goes on to l if the condition holds and returns otherwise.
ProceedIf(t, condition, l) ==
  /\ IF condition THEN Goto(t, l) /\ UNCHANGED <<ret, op>> ELSE Return(t)
  /\ UNCHANGED <<socketState, channels, server, batch, taken_callbacks, history>>

-----------------------------------------------------------------------------
(* send_packet and flush, run by any task *)

\* Faulty SendCheck: does not look at ready.
SendCheckNothing(t) == At(t, "check") /\ Move(t, "push")

\* send_packet reads ready under the lock and lets it go (228-229).
SendCheck(t) ==
  /\ At(t, "check")
  /\ ProceedIf(t, ready \in {"Opening", "Open"}, "push")

\* It then takes the lock again to push the packet and its callback (230-244).
Push(t) ==
  /\ At(t, "push")
  /\ accepted' = accepted + 1
  /\ write_buffer' = Append(write_buffer, accepted + 1)
  /\ pending_callbacks' = IF op[t] = "send_cb"
                            THEN Append(pending_callbacks, accepted + 1)
                            ELSE pending_callbacks
  /\ Goto(t, "flush")
  /\ UNCHANGED <<ready, transport, flushed_callbacks, lock, channels, server,
                 ret, op, batch, taken_callbacks, fired, closes, reported, peer>>

\* Faulty FlushCheck: waits for more than one packet.
FlushCheckOffByOne(t) ==
  /\ At(t, "flush")
  /\ ProceedIf(t, ready # "Closed" /\ Len(write_buffer) > 1, "writable")

\* flush reads the ready state and the length of the buffer (311-318).
FlushCheck(t) ==
  /\ At(t, "flush")
  /\ ProceedIf(t, ready # "Closed" /\ write_buffer # <<>>, "writable")

\* Transport::is_writable: a polling transport never is (polling.rs:50-55).
IsWritable(kind) == kind = "websocket"

SupportsFraming(kind) == kind = "websocket"

\* The transport is read under a lock of its own (319-322); without one, or
\* with one that is not writable, flush returns None.
FlushWritable(t) ==
  /\ At(t, "writable")
  /\ ProceedIf(t, IsWritable(transport), "flush_event")

\* SocketEvent::Flush (323-328).
FlushEvent(t) ==
  /\ At(t, "flush_event")
  /\ Emit(t, "flush", "take")

\* Faulty Take: clones the buffer and leaves it in place.
TakeClone(t) ==
  /\ At(t, "take")
  /\ batch' = [batch EXCEPT ![t] = write_buffer]
  /\ Goto(t, "cmd")
  /\ UNCHANGED <<socketState, channels, server, ret, op, taken_callbacks, history>>

\* Faulty Take: pops the last packet only.
TakePop(t) ==
  /\ At(t, "take")
  /\ batch' = [batch EXCEPT ![t] =
                 SubSeq(write_buffer, Len(write_buffer), Len(write_buffer))]
  /\ write_buffer' = SubSeq(write_buffer, 1, Len(write_buffer) - 1)
  /\ Goto(t, "cmd")
  /\ UNCHANGED <<ready, transport, pending_callbacks, flushed_callbacks, lock,
                 channels, server, ret, op, taken_callbacks, history>>

\* mem::replace of the write buffer by an empty one (332-335).
Take(t) ==
  /\ At(t, "take")
  /\ batch' = [batch EXCEPT ![t] = write_buffer]
  /\ write_buffer' = <<>>
  /\ Goto(t, "cmd")
  /\ UNCHANGED <<ready, transport, pending_callbacks, flushed_callbacks, lock,
                 channels, server, ret, op, taken_callbacks, history>>

\* TransportCmd::Send, outside any lock (336-338).  The client learns the
\* socket's id from the open packet.
SendCmd(t) ==
  /\ At(t, "cmd")
  /\ cmds' = Append(cmds, batch[t])
  /\ batch' = [batch EXCEPT ![t] = <<>>]
  /\ announced' = TRUE
  /\ Goto(t, "callbacks")
  /\ UNCHANGED <<socketState, events, tevents, lagged, loop, clients, ret, op,
                 taken_callbacks, history>>

\* Faulty TakeCallbacks: clones the callbacks and leaves them pending.
CloneCallbacks(t) ==
  /\ At(t, "callbacks")
  /\ taken_callbacks' = [taken_callbacks EXCEPT ![t] = <<pending_callbacks>>]
  /\ Goto(t, "framing")
  /\ UNCHANGED <<socketState, channels, server, ret, op, batch, history>>

\* mem::replace of the pending callbacks (344-347).
TakeCallbacks(t) ==
  /\ At(t, "callbacks")
  /\ taken_callbacks' = [taken_callbacks EXCEPT ![t] = <<pending_callbacks>>]
  /\ pending_callbacks' = <<>>
  /\ Goto(t, "framing")
  /\ UNCHANGED <<ready, transport, write_buffer, flushed_callbacks, lock,
                 channels, server, ret, op, batch, history>>

\* One batch per callback if the transport supports framing, one batch of all
\* of them, be it empty, if it does not or is gone (348-358).
Framing(t) ==
  LET callbacks == taken_callbacks[t][1] IN
  /\ At(t, "framing")
  /\ taken_callbacks' =
       [taken_callbacks EXCEPT ![t] =
          IF SupportsFraming(transport)
            THEN [i \in 1..Len(callbacks) |-> <<callbacks[i]>>]
            ELSE <<callbacks>>]
  /\ Goto(t, "extend")
  /\ UNCHANGED <<socketState, channels, server, ret, op, batch, history>>

\* (359-363)
Extend(t) ==
  /\ At(t, "extend")
  /\ flushed_callbacks' = flushed_callbacks \o taken_callbacks[t]
  /\ taken_callbacks' = [taken_callbacks EXCEPT ![t] = <<>>]
  /\ Goto(t, "drain_event")
  /\ UNCHANGED <<ready, transport, write_buffer, pending_callbacks, lock,
                 channels, server, ret, op, batch, history>>

\* SocketEvent::Drain (365-370).
DrainEvent(t) ==
  /\ At(t, "drain_event")
  /\ Emit(t, "drain", "closing")

\* If the socket is Closing, close_transport asks for the write lock while the
\* read guard of the if-let is alive (372-376): the task waits for itself.
\* The buffer was moved into the command, so flush returns None (378-382).
FlushEnd(t) ==
  /\ At(t, "closing")
  /\ IF ready = "Closing"
       THEN lock' = "held" /\ Goto(t, "stuck") /\ UNCHANGED <<ret, op>>
       ELSE Return(t) /\ UNCHANGED lock
  /\ UNCHANGED <<ready, transport, write_buffer, pending_callbacks,
                 flushed_callbacks, channels, server, batch, taken_callbacks,
                 history>>

Flush(t) ==
  \/ FlushCheck(t) \/ FlushWritable(t) \/ FlushEvent(t) \/ Take(t) \/ SendCmd(t)
  \/ TakeCallbacks(t) \/ Framing(t) \/ Extend(t) \/ DrainEvent(t) \/ FlushEnd(t)

SendPacket(t) == SendCheck(t) \/ Push(t)

\* handle_polling_request (270-299) of a GET: without a polling transport it
\* fails; handle_poll_request answers Action(Drain), so it flushes.  Whatever
\* flush does it returns None, and the request is answered with BadRequest.
PollRequest(t) ==
  /\ At(t, "poll")
  /\ ProceedIf(t, transport = "polling", "flush")

\* Every user of the lock unwraps: a poisoned lock panics.
LockPoisoned(t) ==
  /\ lock = "poisoned"
  /\ pc[t] \in LockSteps
  /\ Move(t, "panicked")

-----------------------------------------------------------------------------
(* The handshake: Server::handshake (318-354) and Socket::open (192-206) *)

Open ==
  /\ At(Handshake, "open")
  /\ ready' = "Open"
  /\ Goto(Handshake, "upgrades")
  /\ UNCHANGED <<transport, write_buffer, pending_callbacks, flushed_callbacks,
                 lock, channels, server, ret, op, batch, taken_callbacks, history>>

\* send_open_packet (394-406) asks for the upgrades first.
SendOpenPacket ==
  /\ At(Handshake, "upgrades")
  /\ Call(Handshake, Unless("get_available_upgrades", "check"), "open_event")
  /\ UNCHANGED op

OpenEvent ==
  /\ At(Handshake, "open_event")
  /\ Emit(Handshake, "open", "ping_timeout")

SetPingTimeout ==
  /\ At(Handshake, "ping_timeout")
  /\ Move(Handshake, Unless("set_ping_timeout",
                            IF InitialPacket THEN "initial" ELSE "subscribe"))

SendInitialPacket ==
  /\ At(Handshake, "initial")
  /\ Call(Handshake, "check", "subscribe")
  /\ UNCHANGED op

\* subscribe_socket_to_transport_events subscribes and spawns (335, 540-569).
SpawnSubscriber ==
  /\ At(Handshake, "subscribe")
  /\ pc' = [pc EXCEPT ![Handshake] = "respond", ![Subscriber] = "recv"]
  /\ UNCHANGED <<socketState, channels, server, ret, op, batch,
                 taken_callbacks, history>>

\* The response (337-343): a poll for a polling transport, an error otherwise
\* or if the event loop has removed the socket already.
Respond ==
  /\ At(Handshake, "respond")
  /\ IF clients /\ transport = "polling"
       THEN Call(Handshake, "poll", "done") /\ UNCHANGED op
       ELSE Move(Handshake, "done")

HandshakeStep ==
  \/ Open \/ SendOpenPacket \/ OpenEvent \/ SetPingTimeout \/ SendInitialPacket
  \/ SpawnSubscriber \/ Respond

-----------------------------------------------------------------------------
(* The subscriber: subscribe_socket_to_transport_events (540-569) *)

\* recv() fails once after an event was overwritten, and ends the loop.
Recv ==
  /\ At(Subscriber, "recv")
  /\ \/ /\ lagged
        /\ Move(Subscriber, "ended")
     \/ /\ ~lagged /\ tevents # <<>>
        /\ LET e == Head(tevents)
               l == CASE e = "error" -> "error_check"
                      [] e = "drain" -> "flush"
                      [] e = "close" -> "close_check"
                      [] OTHER -> "packet"
           IN /\ Goto(Subscriber, l)
              /\ ret' = [ret EXCEPT ![Subscriber] =
                           IF e = "drain" THEN "on_drain" ELSE "idle"]
              /\ op' = [op EXCEPT ![Subscriber] =
                           IF e \in Packets THEN e ELSE "none"]
        /\ tevents' = Tail(tevents)
        /\ UNCHANGED <<socketState, events, cmds, lagged, server, batch,
                       taken_callbacks, history>>

\* on_packet (450-511).  No code sets SocketState::upgrade to Upgrading, so an
\* Upgrade packet changes nothing.
OnPacket ==
  /\ At(Subscriber, "packet")
  /\ LET l == CASE op[Subscriber] = "ping" -> "check"
                [] op[Subscriber] = "message" -> "message_event"
                [] op[Subscriber] = "upgrade" -> "recv"
                [] OTHER -> Unless("on_packet", "recv")
         m == IF ready = "Open" THEN Unless("set_ping_timeout", l) ELSE "recv"
     IN Call(Subscriber, m, IF m = "check" THEN "heartbeat" ELSE "idle")
  /\ op' = [op EXCEPT ![Subscriber] = "none"]

Heartbeat ==
  /\ At(Subscriber, "heartbeat")
  /\ Emit(Subscriber, "heartbeat", "recv")

MessageEvent ==
  /\ At(Subscriber, "message_event")
  /\ Emit(Subscriber, "message", "recv")

\* on_drain (517-537) runs the first batch of callbacks under the write lock.
OnDrain ==
  /\ At(Subscriber, "on_drain")
  /\ IF flushed_callbacks # <<>>
       THEN /\ fired' = fired \o Head(flushed_callbacks)
            /\ flushed_callbacks' = Tail(flushed_callbacks)
       ELSE UNCHANGED <<fired, flushed_callbacks>>
  /\ Goto(Subscriber, "recv")
  /\ UNCHANGED <<ready, transport, write_buffer, pending_callbacks, lock,
                 channels, server, ret, op, batch, taken_callbacks, accepted,
                 closes, reported, peer>>

\* on_transport_error (431-447).  The Error event is built and never awaited,
\* so nothing is sent.
OnTransportError ==
  /\ At(Subscriber, "error_check")
  /\ Move(Subscriber, IF ready \in {"Opening", "Open"} THEN "close_check" ELSE "recv")

\* Faulty OnCloseCheck: does not look at ready.
OnCloseCheckNothing == At(Subscriber, "close_check") /\ Move(Subscriber, "close_write")

\* on_close (409-429): a read, a write and a third lock for the transport.
OnCloseCheck ==
  /\ At(Subscriber, "close_check")
  /\ Move(Subscriber, IF ready # "Closed" THEN "close_write" ELSE "recv")

\* Faulty OnCloseWrite: does not clear the write buffer.
OnCloseWriteKeeps ==
  /\ At(Subscriber, "close_write")
  /\ ready' = "Closed"
  /\ pending_callbacks' = <<>>
  /\ Goto(Subscriber, "close_transport")
  /\ UNCHANGED <<transport, write_buffer, flushed_callbacks, lock, channels, server,
                 ret, op, batch, taken_callbacks, history>>

OnCloseWrite ==
  /\ At(Subscriber, "close_write")
  /\ ready' = "Closed"
  /\ write_buffer' = <<>>
  /\ pending_callbacks' = <<>>
  /\ Goto(Subscriber, "close_transport")
  /\ UNCHANGED <<transport, flushed_callbacks, lock, channels, server, ret, op,
                 batch, taken_callbacks, history>>

OnCloseTransport ==
  /\ At(Subscriber, "close_transport")
  /\ transport' = "none"
  /\ Goto(Subscriber, "close_event")
  /\ UNCHANGED <<ready, write_buffer, pending_callbacks, flushed_callbacks,
                 lock, channels, server, ret, op, batch, taken_callbacks, history>>

\* Faulty OnCloseEvent: the send is not awaited, as that of the Error event.
OnCloseEventUnsent == At(Subscriber, "close_event") /\ Move(Subscriber, "recv")

OnCloseEvent ==
  /\ At(Subscriber, "close_event")
  /\ Emit(Subscriber, "close", "recv")

SubscriberStep ==
  \/ Recv \/ OnPacket \/ Heartbeat \/ MessageEvent \/ OnDrain \/ OnTransportError
  \/ OnCloseCheck \/ OnCloseWrite \/ OnCloseTransport \/ OnCloseEvent

-----------------------------------------------------------------------------
(* Library users *)

\* A caller needs the socket's id.  It is known once an event of the socket
\* was forwarded or the open packet sent; it is also taken as known after the
\* handshake, even where that ends in an error that does not carry it.
Known == announced \/ pc[Handshake] = "done"

Start(t, o) == pc[t] = "idle" /\ o \in Ops /\ Known

\* Socket::send and write (248-268) on a socket the caller holds, with or
\* without a callback, or Server::send_packet (server.rs:188-209), which looks
\* the socket up and always passes None for the callback.
StartSend(t) ==
  \E o \in {"send", "send_cb", "server_send"} :
    /\ Start(t, o)
    /\ accepted < MaxPackets
    /\ o = "server_send" => clients
    /\ Call(t, "check", "idle")
    /\ op' = [op EXCEPT ![t] = o]

\* Server::handle_request with a sid (211-224): verify_request compares the
\* transport kinds (252-268) before the socket gets the request.
StartPoll(t) ==
  /\ Start(t, "poll")
  /\ clients /\ lock = "free" /\ transport = "polling"
  /\ Call(t, "poll", "idle")
  /\ op' = [op EXCEPT ![t] = "poll"]

\* Socket::close (208-225) takes the write lock twice.  RwLock::write on a lock
\* the thread already holds either never returns or panics, which poisons it.
Close(t) ==
  /\ Start(t, "close")
  /\ lock = "free" /\ ready = "Open"
  /\ \/ lock' = "held" /\ Goto(t, "stuck")
     \/ lock' = "poisoned" /\ Goto(t, "panicked")
  /\ UNCHANGED <<ready, transport, write_buffer, pending_callbacks,
                 flushed_callbacks, channels, server, ret, op, batch,
                 taken_callbacks, history>>

\* Faulty MaybeUpgrade: marks the socket open with its new transport.
MaybeUpgradeReopens(t) ==
  /\ Start(t, "maybe_upgrade")
  /\ clients /\ "handle_upgrade" \in Implemented /\ lock = "free"
  /\ transport' = "websocket" /\ ready' = "Open"
  /\ UNCHANGED <<write_buffer, pending_callbacks, flushed_callbacks,
                 lock, channels, server, tasks, history>>

\* Server::handle_upgrade with a sid (233-241): an id that is gone is a panic,
\* and so is the todo!() before the call of Socket::maybe_upgrade (301-308) and
\* set_transport (157-168), which would go ahead whatever state the socket is in.
MaybeUpgrade(t) ==
  /\ Start(t, "maybe_upgrade")
  /\ IF clients /\ "handle_upgrade" \in Implemented
       THEN lock = "free" /\ transport' = "websocket" /\ UNCHANGED pc
       ELSE Goto(t, "panicked") /\ UNCHANGED transport
  /\ UNCHANGED <<ready, write_buffer, pending_callbacks, flushed_callbacks, lock,
                 channels, server, ret, op, batch, taken_callbacks, history>>

\* Server::close_socket (178-184): remove waits for every reference into the map.
CloseSocket(t) ==
  /\ Start(t, "close_socket")
  /\ clients /\ Holders = {}
  /\ clients' = FALSE
  /\ Goto(t, Unless("close_socket", "idle"))
  /\ UNCHANGED <<socketState, channels, loop, announced, ret, op, batch,
                 taken_callbacks, history>>

CallerStart(t) ==
  \/ StartSend(t) \/ StartPoll(t) \/ Close(t) \/ MaybeUpgrade(t) \/ CloseSocket(t)

-----------------------------------------------------------------------------
(* The Server's event loop (server.rs:149-167, 368-417) and the transport *)

TrySubscribe ==
  /\ loop = "unsubscribed"
  /\ loop' = "recv"
  /\ UNCHANGED <<socketState, channels, clients, announced, tasks, history>>

\* Faulty LoopRecv: an event it does not forward ends the loop.
LoopRecvBreak ==
  /\ loop = "recv" /\ events # <<>>
  /\ events' = Tail(events)
  /\ loop' = CASE Head(events) = "close" -> "removing"
               [] Head(events) \in {"open", "heartbeat"} -> "ended"
               [] OTHER -> "recv"
  /\ announced' = (announced \/ Head(events) \in {"flush", "drain", "message"})
  /\ UNCHANGED <<socketState, cmds, tevents, lagged, clients, tasks, history>>

\* Flush, Drain and Message are forwarded with the id; Open and Heartbeat are
\* dropped; Close first removes the socket from the map.
LoopRecv ==
  /\ loop = "recv" /\ events # <<>>
  /\ events' = Tail(events)
  /\ loop' = IF Head(events) = "close" THEN "removing" ELSE "recv"
  /\ announced' = (announced \/ Head(events) \in {"flush", "drain", "message"})
  /\ UNCHANGED <<socketState, cmds, tevents, lagged, clients, tasks, history>>

\* DashMap::remove waits, and blocks the loop, while a task keeps a reference.
LoopRemove ==
  /\ loop = "removing" /\ Holders = {}
  /\ clients' = FALSE
  /\ announced' = TRUE
  /\ loop' = "recv"
  /\ UNCHANGED <<socketState, channels, tasks, history>>

EventLoop == LoopRecv \/ LoopRemove

Subscribed == pc[Subscriber] \notin {"unborn", "ended", "panicked"}

\* The transport reports an event; Close is the last one.  A broadcast without
\* a receiver is lost, a full one overwrites its oldest event.
Report(e) ==
  /\ peer = "up" /\ reported < MaxTransportEvents
  /\ reported' = reported + 1
  /\ peer' = IF e = "close" THEN "gone" ELSE "up"
  /\ IF "wiring" \in Implemented /\ Subscribed
       THEN IF Len(tevents) < TransportCap
              THEN tevents' = Append(tevents, e) /\ UNCHANGED lagged
              ELSE tevents' = Append(Tail(tevents), e) /\ lagged' = TRUE
       ELSE UNCHANGED <<tevents, lagged>>
  /\ UNCHANGED <<socketState, events, cmds, server, tasks, accepted, fired, closes>>

-----------------------------------------------------------------------------

TaskStep(t) == SendPacket(t) \/ Flush(t) \/ PollRequest(t) \/ LockPoisoned(t)

Next ==
  \/ \E t \in Tasks : TaskStep(t)
  \/ \E t \in Callers : CallerStart(t)
  \/ \E e \in TransportEvents : Report(e)
  \/ HandshakeStep
  \/ SubscriberStep
  \/ TrySubscribe
  \/ EventLoop

Spec == Init /\ [][Next]_vars

\* The executor runs every task that can run, and the owner of the Server
\* subscribes to it.  Nobody has to call the socket and the transport has to
\* report nothing.
Fairness ==
  /\ \A t \in Tasks : WF_vars(TaskStep(t))
  /\ WF_vars(HandshakeStep)
  /\ WF_vars(SubscriberStep)
  /\ WF_vars(TrySubscribe)
  /\ WF_vars(EventLoop)

FairSpec == Spec /\ Fairness

-----------------------------------------------------------------------------
(* Properties *)

\* Every variable keeps its type; in particular the mpsc channel of
\* SocketEvents never holds more than its capacity.
TypeOK ==
  /\ ready \in {"Opening", "Open", "Closing", "Closed"}
  /\ transport \in {"polling", "websocket", "none"}
  /\ write_buffer \in Seq(Nat) /\ pending_callbacks \in Seq(Nat)
  /\ flushed_callbacks \in Seq(Seq(Nat))
  /\ lock \in {"free", "held", "poisoned"}
  /\ events \in Seq(SocketEvents) /\ Len(events) <= EventCap
  /\ cmds \in Seq(Seq(Nat))
  /\ tevents \in Seq(AllTransportEvents) /\ Len(tevents) <= TransportCap
  /\ lagged \in BOOLEAN
  /\ loop \in {"unsubscribed", "recv", "removing"}
  /\ clients \in BOOLEAN /\ announced \in BOOLEAN
  /\ pc \in [Tasks -> Labels] /\ ret \in [Tasks -> Returns]
  /\ op \in [Tasks -> AllOps \cup Packets \cup {"none"}]
  /\ batch \in [Tasks -> Seq(Nat)]
  /\ taken_callbacks \in [Tasks -> Seq(Seq(Nat))]
  /\ accepted \in Nat /\ fired \in Seq(Nat) /\ closes \in Nat /\ reported \in Nat
  /\ peer \in {"up", "gone"}

\* The packets handed to the transport, and those in the hands of a flush.
Handed == UNION {{cmds[k][i] : i \in DOMAIN cmds[k]} : k \in DOMAIN cmds}
Taken  == UNION {{batch[t][i] : i \in DOMAIN batch[t]} : t \in Tasks}

\* The positions of x in the sequence seq, which is the one named where of a kind.
Places(kind, where, seq, x) ==
  {<<kind, where, i>> : i \in {j \in DOMAIN seq : seq[j] = x}}

\* The places where the packet p is.
PacketPlaces(p) ==
  Places("buffer", 0, write_buffer, p)
    \cup (UNION {Places("batch", t, batch[t], p) : t \in Tasks})
    \cup (UNION {Places("cmd", k, cmds[k], p) : k \in DOMAIN cmds})

\* However the flushes of several tasks interleave, no packet is in two places
\* or sent twice, and none disappears unless the socket was closed: what
\* send_packet accepted is in write_buffer, in the hands of a flush or handed
\* to the transport (socket.rs:230-242, 332-338).
PacketConserved ==
  \A p \in 1..accepted :
    /\ Cardinality(PacketPlaces(p)) <= 1
    /\ ready # "Closed" => PacketPlaces(p) # {}

\* flush takes packets in the order of acceptance: whatever is still buffered
\* was accepted after everything taken so far, and the buffer itself is in
\* order.  (The batches themselves may overtake each other between the lock at
\* 332-335 and the command at 336-338.)
TakenInOrder ==
  /\ \A i, j \in DOMAIN write_buffer : i < j => write_buffer[i] < write_buffer[j]
  /\ \A i \in DOMAIN write_buffer :
       \A q \in Taken \cup Handed : q < write_buffer[i]

Pipe == INSTANCE PacketPipe WITH
          cut <- accepted - Len(write_buffer),
          carried <- {batch[t] : t \in Tasks} \ {<<>>},
          out <- cmds,
          closed <- (ready = "Closed")

\* The socket is a PacketPipe, whichever tasks send, flush and close at once
\* (socket.rs:227-244, 310-338, 409-419): what waits is the end of what was
\* accepted, a flush carries away a consecutive run of it, each run is handed
\* to the transport once, and only on_close discards packets, once.
ImplementsPipe == Pipe!Spec

\* The places where the callback c is.
CallbackPlaces(c) ==
  Places("pending", 0, pending_callbacks, c)
    \cup (UNION {UNION {Places("taken", <<t, k>>, taken_callbacks[t][k], c)
                          : k \in DOMAIN taken_callbacks[t]} : t \in Tasks})
    \cup (UNION {Places("flushed", k, flushed_callbacks[k], c) : k \in DOMAIN flushed_callbacks})
    \cup Places("fired", 0, fired, c)

\* Flushes that interleave neither run a callback twice nor queue it twice, on
\* its way from pending_callbacks over the local batches and flushed_callbacks
\* to on_drain (socket.rs:344-363, 517-537).
CallbackOnce == \A c \in 1..accepted : Cardinality(CallbackPlaces(c)) <= 1

\* A closed socket never reopens: open() and on_close() both assign ready
\* without looking at it under the same lock (socket.rs:193, 410-416).
ClosedIsFinal == [][ready = "Closed" => ready' = "Closed"]_vars

\* The Server is told at most once that the socket is closed, and only when
\* it is, although on_close checks and sets ready under two locks and both an
\* error and a close of the transport call it (socket.rs:410-428).
CloseOnce == closes <= 1 /\ (closes = 1 => ready = "Closed")

\* send_packet checks ready under one lock and pushes under another
\* (socket.rs:228-234), so packets may end up in a closed socket, but at most
\* one for each caller that was between the two.
LeftoverBound == ready = "Closed" => Len(write_buffer) <= Cardinality(Callers)

\* Every accepted packet is handed to a websocket transport unless the socket
\* is closed (send_packet always flushes, socket.rs:244).
PacketsLeave == \A p \in 1..MaxPackets :
                  accepted >= p ~> (p \in Handed \/ ready = "Closed")

\* Every call of send returns (the awaits in flush, 324-328 and 366-370, wait
\* for the Server's event loop).  The callers of the run do nothing else: close
\* and Server::send_packet may never return (CloseTakesEffect, DrainIsForwarded).
CallsReturn == \A t \in Callers : pc[t] # "idle" ~> pc[t] = "idle"

\* A Close event that the subscriber's channel holds makes the Server forget
\* the socket (socket.rs:560-563, 427 and server.rs:377-378), unless the
\* channel is overrun, which ends the subscriber (545), as long as the callers
\* use send only.
CloseReachesServer ==
  (\E i \in DOMAIN tevents : tevents[i] = "close") ~> (~clients \/ lagged)

\* socket.rs:219-223: after close() the socket is Closing and flush closes the
\* transport for it.
CloseTakesEffect ==
  (\E t \in Callers : pc[t] \in {"stuck", "panicked"} /\ lock # "free")
    ~> ready \in {"Closing", "Closed"}

\* polling.rs:51-53: "Whenever there is a poll HTTP request, we just drain the
\* whole packet buffer": what waits when a poll gets to flush does not stay.
PollDrains ==
  \A p \in 1..(MaxPackets + 1) :
    (\E t \in Tasks : /\ op[t] = "poll" \/ ret[t] = "done"
                      /\ pc[t] = "flush"
                      /\ \E i \in DOMAIN write_buffer : write_buffer[i] = p)
      ~> (\A i \in DOMAIN write_buffer : write_buffer[i] # p)

\* socket.rs:365: "Send a 'drain' event to the server, which will forward it to
\* external listeners".
DrainIsForwarded ==
  (\E i \in DOMAIN events : events[i] = "drain")
    ~> (\A i \in DOMAIN events : events[i] # "drain")

=============================================================================
