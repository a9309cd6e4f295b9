----------------------------- MODULE EngineServer -----------------------------
(***************************************************************************)
(* All the connections of one engine.io Server: the routes of the warp     *)
(* adapter (engine_io_warp/src/adapter_warp.rs), Server (server.rs), the   *)
(* polling transport's requests (polling.rs) and the subscriber task of    *)
(* each socket (socket.rs), which share the clients map and one bounded    *)
(* channel of SocketEvents.                                                *)
(*                                                                         *)
(* A step goes from one await, or one access to the clients map, to the    *)
(* next; EngineSocket refines what happens inside one socket.  The task    *)
(* that feeds a socket its transport events has the socket's id as name.   *)
(***************************************************************************)
EXTENDS Integers, Sequences, FiniteSets, SequencesExt

CONSTANTS
  Ids,           \* the ids Server::generate_id returns, in order
  Shard,         \* Shard[s]: the part of the DashMap that holds s
  Arrivals,      \* tasks, each serving one HTTP request, in order of arrival
  Users,         \* tasks of library users, each calling the Server once
  NoSid,         \* a request without the parameter sid
  HttpRequests,  \* HttpRequests[r]: the requests that may arrive at r
  PeerEvents,    \* what the peer of a websocket does
  Transports,    \* ServerOptions::transports
  InitialPacket, \* is ServerOptions::initial_packet set?
  Implemented,   \* unfinished parts of the code taken as finished
  EventCap,      \* capacity of the mpsc channel of SocketEvents
  TransportCap,  \* capacity of the broadcast channel of TransportEvents
  MaxPeerEvents  \* bound: number of events of each peer

(***************************************************************************)
(* As in EngineSocket, with one more place: headers_into_map is todo!()    *)
(* (adapter_warp.rs:89).                                                   *)
(***************************************************************************)
Unfinished == {"headers_into_map", "get_available_upgrades", "set_ping_timeout",
               "on_packet", "wiring", "handle_upgrade", "close_socket"}

Packets == {"message", "ping", "other"}

Sids == ToSet(Ids)

Requests == ToSet(Arrivals)

ASSUME ServerAssumption ==
  /\ Ids \in Seq(Sids) /\ IsInjective(Ids)
  /\ Sids \cap {NoSid, "unsubscribed", "recv"} = {}
  /\ Arrivals \in Seq(Requests) /\ IsInjective(Arrivals)
  /\ Requests \cap Users = {} /\ Requests \cap Sids = {} /\ Users \cap Sids = {}
  /\ UNION {HttpRequests[r] : r \in Requests} \subseteq
       [upgrade : BOOLEAN, method : {"Get", "Post", "Put"}, headers : BOOLEAN,
        transport : {"polling", "websocket", "unknown"},
        sid : Sids \cup {NoSid}, body : Seq(Packets \cup {"garbage"})]
  /\ PeerEvents \subseteq Packets \cup {"close"}
  /\ Transports \subseteq {"polling", "websocket"}
  /\ InitialPacket \in BOOLEAN
  /\ Implemented \subseteq Unfinished
  /\ {EventCap, TransportCap} \subseteq Nat \ {0} /\ MaxPeerEvents \in Nat

Tasks == Requests \cup Users \cup Sids

VARIABLES
  clients,    \* Server::clients
  ready,      \* SocketState::ready of each socket; "unborn" before it exists
  transport,  \* SocketState::transport: its kind, or "none"
  tevents,    \* transport events the subscriber of each socket has not received
  hand,       \* the packet each subscriber has received last
  lagged,     \* has the broadcast channel overwritten one of them?
  peer,       \* number of events of each websocket's peer; -1: it is gone
  events,     \* mpsc channel of SocketEvents to the event loop
  loop,       \* the event loop; the id of the socket it removes
  pc, ret,    \* place of each task, and where send_packet returns to
  sid,        \* the socket a task works on
  request,    \* the HTTP request a task serves
  unsent,     \* packets a data request still has to pass on
  known,      \* ids that have left the server
  sent,       \* messages broadcast to the subscriber of each socket
  passed,     \* Connection, Message and Close events of each socket that the code
              \* passes to the send of the owner's channel
  owner       \* the events in the owner's channel

sockets  == <<ready, transport, tevents, hand, lagged, peer>>
control  == <<pc, ret, sid, request, unsent>>
history  == <<known, sent, passed, owner>>
vars     == <<clients, sockets, events, loop, control, history>>

-----------------------------------------------------------------------------
(* Types and initial state *)

Replies == {"ok", "UnknownSid", "BadRequest", "BadHandshakeMethod", "Unknown",
            "rejected", "panicked", "ended"}

HandshakeSteps == {"open", "open_event", "initial", "subscribe", "respond", "connection"}

SendSteps == {"send", "flush_event", "drain_event"}

SubscriberSteps == {"recv", "message", "heartbeat", "close_event"}

Labels == Replies \cup HandshakeSteps \cup SendSteps \cup SubscriberSteps
            \cup {"idle", "verify", "lookup", "polling", "post", "handshake"}

NoPacket == <<>>

NoRequest == [upgrade |-> FALSE, method |-> "Get", headers |-> FALSE,
              transport |-> "unknown", sid |-> NoSid, body |-> <<>>]

Init ==
  /\ clients = {} /\ events = <<>> /\ loop = "unsubscribed"
  /\ ready = [s \in Sids |-> "unborn"] /\ transport = [s \in Sids |-> "none"]
  /\ tevents = [s \in Sids |-> <<>>] /\ lagged = [s \in Sids |-> FALSE]
  /\ hand = [s \in Sids |-> NoPacket] /\ peer = [s \in Sids |-> 0]
  /\ pc = [t \in Tasks |-> "idle"] /\ ret = [t \in Tasks |-> IF t \in Sids THEN "heartbeat" ELSE "ended"]
  /\ sid = [t \in Tasks |-> IF t \in Sids THEN t ELSE NoSid]
  /\ request = [r \in Requests |-> NoRequest]
  /\ unsent = [r \in Requests |-> <<>>]
  /\ known = {} /\ owner = <<>>
  /\ sent = [s \in Sids |-> <<>>] /\ passed = [s \in Sids |-> <<>>]

-----------------------------------------------------------------------------
(* Helpers *)

Goto(t, l) == pc' = [pc EXCEPT ![t] = l]

\* A step that changes nothing but t's place.
Move(t, l) ==
  Goto(t, l) /\ UNCHANGED <<clients, sockets, events, loop, ret, sid, request, unsent, history>>

\* t calls send_packet and goes on from l when it returns.
CallSend(t, l) ==
  /\ Goto(t, "send")
  /\ ret' = [ret EXCEPT ![t] = l]
  /\ UNCHANGED <<clients, events, loop, sid, request, unsent, history>>

Unless(s, l) == IF s \in Implemented THEN l ELSE "panicked"

\* The users inside Server::send_packet keep a reference into the clients map
\* (205-206).  insert and remove wait for the references into their shard.
Holders == {t \in Users : pc[t] \in SendSteps}
Unlocked(s) == \A t \in Holders : Shard[sid[t]] # Shard[s]

\* A SocketEvent goes into the channel.  Alone it is a faulty Emit, a send that
\* does not wait for room.
Deliver(t, kind, packet, l) ==
  /\ events' = Append(events, [kind |-> kind, sid |-> sid[t], packet |-> packet])
  /\ Goto(t, l)
  /\ UNCHANGED <<clients, sockets, loop, ret, sid, request, unsent, sent, passed, owner>>

\* An awaited send of a SocketEvent.
Emit(t, kind, packet, l) == Len(events) < EventCap /\ Deliver(t, kind, packet, l)

\* The send of the owner's channel, an async function of the library bmrng: it
\* runs only if its future is awaited.
OwnerSend(queue, event, awaited) == IF awaited THEN Append(queue, event) ELSE queue

\* A ServerEvent for the owner of the Server.  `let _ =` drops the future of
\* the send (346-352, 379-411).
Forward(kind, s, packet) ==
  /\ passed' = IF kind \in {"connection", "message", "close"}
                 THEN [passed EXCEPT ![s] = Append(@, <<kind, packet>>)]
                 ELSE passed
  /\ owner' = OwnerSend(owner, <<kind, s, packet>>, FALSE)

Subscribed(s) == pc[s] \notin {"idle", "ended", "panicked"}

\* A transport broadcasts the packet p, of kind k, of the socket s.  Without a
\* subscriber it is lost; a full channel overwrites its oldest event.
Broadcast(s, k, p) ==
  IF "wiring" \in Implemented /\ Subscribed(s)
    THEN /\ tevents' = [tevents EXCEPT ![s] =
                          Append(IF Len(@) < TransportCap THEN @ ELSE Tail(@), <<k, p>>)]
         /\ lagged' = [lagged EXCEPT ![s] = @ \/ Len(tevents[s]) >= TransportCap]
         /\ sent' = IF k = "message" THEN [sent EXCEPT ![s] = Append(@, p)] ELSE sent
    ELSE UNCHANGED <<tevents, lagged, sent>>

-----------------------------------------------------------------------------
(* The routes of the adapter (adapter_warp.rs:98-139, 165-221) *)

\* The websocket route comes first and wants a GET with an upgrade header; it
\* is there only if the options have websockets (203-218).
Upgrades(q) == q.upgrade /\ q.method = "Get" /\ "websocket" \in Transports

Arrived == {r \in Requests : pc[r] # "idle"}

\* The requests without an id: bounded by the number of ids.
Shaking == {r \in Arrived : request[r].sid = NoSid}

\* build_context wants the three headers and a transport it knows; clients can
\* name ids of sockets only, and only ones that exist or existed.  The id of a
\* polling connection is taken as known although its handshake is answered
\* with an error.
Arrive(r) ==
  \E q \in HttpRequests[r] :
    /\ pc[r] = "idle" /\ r = Arrivals[Cardinality(Arrived) + 1]
    /\ IF q.sid = NoSid THEN Cardinality(Shaking) < Cardinality(Sids) ELSE q.sid \in known
    /\ Goto(r, IF q.method = "Put" \/ ~q.headers \/ q.transport = "unknown" THEN "rejected"
               ELSE Unless("headers_into_map",
                 IF ~Upgrades(q) THEN "verify"
                 ELSE IF q.sid = NoSid THEN "handshake"
                 ELSE "panicked"))   \* handle_upgrade with a sid: expect, todo!() (238-241)
    /\ request' = [request EXCEPT ![r] = q]
    /\ sid' = [sid EXCEPT ![r] = q.sid]
    /\ UNCHANGED <<clients, sockets, events, loop, ret, unsent, history>>

\* handle_request answers with the error (adapter_warp.rs:71-74); handle_upgrade
\* ignores the result of the handshake and runs into todo!() (server.rs:245-248).
Answer(r, reply) ==
  Goto(r, IF Upgrades(request[r]) THEN Unless("handle_upgrade", "ended") ELSE reply)

Reply(r, reply) ==
  /\ Answer(r, reply)
  /\ UNCHANGED <<clients, sockets, events, loop, ret, sid, request, unsent, sent, passed, owner>>

-----------------------------------------------------------------------------
(* Requests of a connection (server.rs:211-230, 252-283; socket.rs:270-299) *)

\* verify_request, for handle_request.
VerifyRequest(r) ==
  LET q == request[r] IN
  /\ pc[r] = "verify"
  /\ Move(r, IF q.sid = NoSid
               THEN IF q.method # "Get" THEN "BadHandshakeMethod" ELSE "handshake"
             ELSE IF q.sid \notin clients THEN "UnknownSid"
             ELSE IF q.transport # transport[q.sid] THEN "BadRequest" ELSE "lookup")

\* get_client_or_error looks the socket up again (360-366).
GetClient(r) ==
  /\ pc[r] = "lookup"
  /\ Move(r, IF sid[r] \in clients THEN "polling" ELSE "UnknownSid")

\* Faulty Decodes: looks at the first packet only.
DecodesFirst(body) == body = <<>> \/ Head(body) # "garbage"

\* decode_payload fails as a whole if a packet of the body is none.
Decodes(body) == \A i \in DOMAIN body : body[i] # "garbage"

\* handle_polling_request.  A poll is answered with what flush returns, and
\* that is None, as a polling transport is never writable (polling.rs:50-55,
\* 116-121).  A data request decodes the whole body first (127-137).
HandlePollingRequest(r) ==
  LET q == request[r]
      accepts == transport[sid[r]] = "polling" /\ q.method = "Post" /\ Decodes(q.body)
  IN
  /\ pc[r] = "polling"
  /\ Goto(r, IF accepts THEN "post"
             ELSE IF transport[sid[r]] = "none" THEN "Unknown" ELSE "BadRequest")
  /\ unsent' = [unsent EXCEPT ![r] = IF accepts THEN q.body ELSE <<>>]
  /\ UNCHANGED <<clients, sockets, events, loop, ret, sid, request, history>>

\* One broadcast for each packet, whether anyone receives it or not, and then
\* the answer "ok" (141-157).  Packet i of the request r is <<r, i>>.
HandleDataRequest(r) ==
  LET i == Len(request[r].body) - Len(unsent[r]) + 1 IN
  /\ pc[r] = "post"
  /\ IF unsent[r] = <<>>
       THEN Goto(r, "ok") /\ UNCHANGED <<tevents, lagged, sent, unsent>>
       ELSE /\ Broadcast(sid[r], Head(unsent[r]), <<r, i>>)
            /\ unsent' = [unsent EXCEPT ![r] = Tail(@)]
            /\ UNCHANGED pc
  /\ UNCHANGED <<clients, ready, transport, hand, peer, events, loop, ret, sid, request,
                 known, passed, owner>>

RequestStep(r) ==
  VerifyRequest(r) \/ GetClient(r) \/ HandlePollingRequest(r) \/ HandleDataRequest(r)

-----------------------------------------------------------------------------
(* send_packet and flush, run by any task (socket.rs:227-246, 310-383) *)

\* Without a transport that is writable flush returns at once, and so it does
\* if another flush has taken the packet.
Send(t) ==
  /\ pc[t] = "send"
  /\ \/ Move(t, IF ready[sid[t]] \in {"Opening", "Open"} /\ transport[sid[t]] = "websocket"
                  THEN "flush_event" ELSE ret[t])
     \/ /\ \E u \in Tasks \ {t} : sid[u] = sid[t] /\ pc[u] = "drain_event"
        /\ Move(t, ret[t])

\* SocketEvent::Flush; then the packets go to the transport, so a client that
\* gets its open packet learns its id.
FlushEvent(t) ==
  /\ pc[t] = "flush_event"
  /\ Emit(t, "flush", NoPacket, "drain_event")
  /\ known' = known \cup {sid[t]}

DrainEvent(t) ==
  /\ pc[t] = "drain_event"
  /\ Emit(t, "drain", NoPacket, ret[t])
  /\ UNCHANGED known

SendPacket(t) == Send(t) \/ FlushEvent(t) \/ DrainEvent(t)

-----------------------------------------------------------------------------
(* Server::handshake (server.rs:285-354) and Socket::open (socket.rs:192-206) *)

\* generate_id returns an id that it has not returned before.
IsNext(s) ==
  \E i \in DOMAIN Ids :
    /\ Ids[i] = s /\ ready[s] = "unborn"
    /\ \A j \in 1..(i - 1) : ready[Ids[j]] # "unborn"

\* A new id and a new socket, whose transport is that of the route whatever
\* the parameter transport says, and its entry in the map.
NewSocket(r) ==
  \E s \in Sids :
    /\ pc[r] = "handshake" /\ IsNext(s) /\ Unlocked(s)
    /\ clients' = clients \cup {s}
    /\ ready' = [ready EXCEPT ![s] = "Opening"]
    /\ transport' = [transport EXCEPT ![s] =
                       IF Upgrades(request[r]) THEN "websocket" ELSE "polling"]
    /\ sid' = [sid EXCEPT ![r] = s]
    /\ Goto(r, "open")
    /\ UNCHANGED <<tevents, hand, lagged, peer, events, loop, ret, request, unsent, history>>

\* The open packet is built from get_available_upgrades (394-405).
Open(r) ==
  /\ pc[r] = "open"
  /\ ready' = [ready EXCEPT ![sid[r]] = "Open"]
  /\ UNCHANGED <<transport, tevents, hand, lagged, peer>>
  /\ IF "get_available_upgrades" \in Implemented
       THEN CallSend(r, "open_event")
       ELSE /\ Goto(r, "panicked")
            /\ UNCHANGED <<clients, events, loop, ret, sid, request, unsent, history>>

OpenEvent(r) ==
  /\ pc[r] = "open_event"
  /\ Emit(r, "open", NoPacket, Unless("set_ping_timeout", "initial"))
  /\ UNCHANGED known

Initial(r) ==
  /\ pc[r] = "initial"
  /\ IF InitialPacket THEN CallSend(r, "subscribe") /\ UNCHANGED sockets
                      ELSE Move(r, "subscribe")

\* Faulty Subscribe: only subscribes connections that can be written to.
SubscribeWritable(r) ==
  /\ pc[r] = "subscribe"
  /\ pc' = [pc EXCEPT ![r] = "respond",
                      ![sid[r]] = IF transport[sid[r]] = "websocket" THEN "recv" ELSE "idle"]
  /\ UNCHANGED <<clients, sockets, events, loop, ret, sid, request, unsent, history>>

\* subscribe_socket_to_transport_events: what the transport reported before is
\* lost (socket.rs:540-541).
Subscribe(r) ==
  /\ pc[r] = "subscribe"
  /\ pc' = [pc EXCEPT ![r] = "respond", ![sid[r]] = "recv"]
  /\ UNCHANGED <<clients, sockets, events, loop, ret, sid, request, unsent, history>>

\* The socket is looked up again and may be gone.  A polling connection is
\* answered like a poll, and returns with its error (337-343).
Respond(r) ==
  LET s == sid[r] IN
  /\ pc[r] = "respond"
  /\ IF s \in clients /\ transport[s] = "websocket"
       THEN Move(r, "connection")
       ELSE /\ Reply(r, IF s \notin clients THEN "UnknownSid"
                        ELSE IF transport[s] = "none" THEN "Unknown" ELSE "BadRequest")
            /\ known' = known \cup {s}

\* The event "connection", for websockets only, beside the channel (345-353).
Connection(r) ==
  /\ pc[r] = "connection"
  /\ Forward("connection", sid[r], NoPacket)
  /\ Answer(r, "BadRequest")
  /\ UNCHANGED <<clients, sockets, events, loop, ret, sid, request, unsent, known, sent>>

Handshake(r) ==
  \/ NewSocket(r) \/ Open(r) \/ OpenEvent(r) \/ Initial(r) \/ Subscribe(r)
  \/ Respond(r) \/ Connection(r)

-----------------------------------------------------------------------------
(* Library users (server.rs:178-209) *)

\* Server::send_packet, which returns UnknownConnectionId if the socket is not there.
ServerSend(t) ==
  \E s \in known :
    /\ pc[t] = "idle"
    /\ sid' = [sid EXCEPT ![t] = s]
    /\ Goto(t, IF s \in clients THEN "send" ELSE "ended")
    /\ UNCHANGED <<clients, sockets, events, loop, ret, request, unsent, history>>

\* Server::close_socket takes the socket out of the map and panics.
CloseSocket(t) ==
  \E s \in known \cap clients :
    /\ pc[t] = "idle" /\ Unlocked(s)
    /\ clients' = clients \ {s}
    /\ Goto(t, Unless("close_socket", "ended"))
    /\ UNCHANGED <<sockets, events, loop, ret, sid, request, unsent, history>>

-----------------------------------------------------------------------------
(* The subscriber of a socket (socket.rs:409-429, 450-511, 540-567) *)

\* Faulty Lagged: goes on with the events that are left.
LaggedGoesOn(s) == FALSE

\* recv fails if events were overwritten, and that ends the loop (545).
Lagged(s) == lagged[s]

\* on_packet: a packet for a socket that is not open is ignored.
OnPacket(s, k) ==
  Goto(s, IF ready[s] # "Open" THEN "recv"
          ELSE Unless("set_ping_timeout",
            CASE k = "message" -> "message"
              [] k = "ping" -> "send"
              [] OTHER -> Unless("on_packet", "recv")))

\* on_close, which drops the transport.
OnClose(s) ==
  /\ ready' = [ready EXCEPT ![s] = "Closed"]
  /\ transport' = [transport EXCEPT ![s] = "none"]
  /\ Goto(s, IF ready[s] # "Closed" THEN "close_event" ELSE "recv")

Recv(s) ==
  /\ pc[s] = "recv"
  /\ IF Lagged(s) THEN Move(s, "ended")
     ELSE /\ tevents[s] # <<>>
          /\ LET k == Head(tevents[s])[1] IN
               IF k = "close" THEN OnClose(s)
               ELSE OnPacket(s, k) /\ UNCHANGED <<ready, transport>>
          /\ hand' = [hand EXCEPT ![s] = Head(tevents[s])[2]]
          /\ tevents' = [tevents EXCEPT ![s] = Tail(@)]
          /\ UNCHANGED <<clients, lagged, peer, events, loop, ret, sid, request, unsent, history>>

\* Faulty MessageEvent: the send is not awaited, as that of the Error event.
MessageEventUnsent(s) == pc[s] = "message" /\ Move(s, "recv")

MessageEvent(s) ==
  /\ pc[s] = "message"
  /\ Emit(s, "message", hand[s], "recv")
  /\ UNCHANGED known

\* After the pong.
Heartbeat(s) ==
  /\ pc[s] = "heartbeat"
  /\ Emit(s, "heartbeat", NoPacket, "recv")
  /\ UNCHANGED known

CloseEvent(s) ==
  /\ pc[s] = "close_event"
  /\ Emit(s, "close", NoPacket, "recv")
  /\ UNCHANGED known

SubscriberStep(s) == Recv(s) \/ MessageEvent(s) \/ Heartbeat(s) \/ CloseEvent(s)

-----------------------------------------------------------------------------
(* The event loop (server.rs:149-167, 368-417) and the peers of websockets *)

TrySubscribe ==
  /\ loop = "unsubscribed"
  /\ loop' = "recv"
  /\ UNCHANGED <<clients, sockets, events, control, history>>

\* The loop takes an event, passes it on if it is one of kinds and goes on at l.
TakeEvent(kinds, l) ==
  LET e == Head(events) IN
  /\ loop = "recv" /\ events # <<>>
  /\ events' = Tail(events)
  /\ loop' = l
  /\ IF e.kind \in kinds THEN Forward(e.kind, e.sid, e.packet) ELSE UNCHANGED <<passed, owner>>
  /\ UNCHANGED <<clients, sockets, control, known, sent>>

\* Faulty LoopRecv: forwards a Close before the socket is removed.
LoopRecvForwardsFirst ==
  TakeEvent({"flush", "drain", "message", "close"},
            IF Head(events).kind = "close" THEN Head(events).sid ELSE "recv")

\* Faulty LoopRecv: an event it does not forward ends the loop.
LoopRecvBreak ==
  TakeEvent({"flush", "drain", "message"},
            CASE Head(events).kind = "close" -> Head(events).sid
              [] Head(events).kind \in {"open", "heartbeat"} -> "ended"
              [] OTHER -> "recv")

\* Open and Heartbeat are dropped.
LoopRecv ==
  TakeEvent({"flush", "drain", "message"},
            IF Head(events).kind = "close" THEN Head(events).sid ELSE "recv")

\* A Close: remove waits for the references into the shard, then the event is
\* passed on (377-383).
LoopRemove ==
  /\ loop \in Sids /\ Unlocked(loop)
  /\ clients' = clients \ {loop}
  /\ Forward("close", loop, NoPacket)
  /\ loop' = "recv"
  /\ UNCHANGED <<sockets, events, control, known, sent>>

EventLoop == LoopRecv \/ LoopRemove

\* The reader of a websocket, until the transport is dropped or the peer is
\* gone (websocket.rs:78-114).  Packet i of the peer is <<s, i>>.
PeerEvent(s, k) ==
  /\ transport[s] = "websocket"
  /\ peer[s] \in 0..(MaxPeerEvents - 1)
  /\ peer' = [peer EXCEPT ![s] = IF k = "close" THEN -1 ELSE @ + 1]
  /\ Broadcast(s, k, <<s, peer[s] + 1>>)
  /\ UNCHANGED <<clients, ready, transport, hand, events, loop, control, known, passed, owner>>

-----------------------------------------------------------------------------

TaskStep(t) ==
  \/ SendPacket(t)
  \/ t \in Requests /\ (RequestStep(t) \/ Handshake(t))
  \/ t \in Sids /\ SubscriberStep(t)

Next ==
  \/ \E r \in Requests : Arrive(r)
  \/ \E t \in Users : ServerSend(t) \/ CloseSocket(t)
  \/ \E t \in Tasks : TaskStep(t)
  \/ \E s \in Sids, k \in PeerEvents : PeerEvent(s, k)
  \/ TrySubscribe
  \/ EventLoop

Spec == Init /\ [][Next]_vars

\* The executor runs every task that can run and the owner of the Server
\* subscribes to it.  Nobody has to make a request, a call or an event.
FairSpec ==
  /\ Spec
  /\ \A t \in Tasks : WF_vars(TaskStep(t))
  /\ WF_vars(TrySubscribe) /\ WF_vars(EventLoop)

-----------------------------------------------------------------------------
(* Properties *)

\* Every variable keeps its type, and the channels their capacity however many
\* connections send events at once.
TypeOK ==
  /\ clients \subseteq Sids /\ known \subseteq Sids
  /\ ready \in [Sids -> {"unborn", "Opening", "Open", "Closed"}]
  /\ transport \in [Sids -> {"polling", "websocket", "none"}]
  /\ \A s \in Sids : Len(tevents[s]) <= TransportCap
  /\ lagged \in [Sids -> BOOLEAN]
  /\ peer \in [Sids -> -1..MaxPeerEvents]
  /\ \A i \in DOMAIN events : events[i].sid \in Sids
  /\ Len(events) <= EventCap
  /\ loop \in {"unsubscribed", "recv"} \cup Sids
  /\ pc \in [Tasks -> Labels] /\ ret \in [Tasks -> Labels]
  /\ sid \in [Tasks -> Sids \cup {NoSid}]
  /\ \A r \in Requests : request[r] \in HttpRequests[r] \cup {NoRequest}

\* The number of messages among the first n events of s the loop passed on.
Passed(s, n) == Cardinality({i \in 1..n : passed[s][i][1] = "message"})

\* What the loop passes on for the owner under an id are the messages broadcast
\* to the subscriber of that connection, the n-th of them the n-th message, so
\* each once, in order and without a gap, although all connections share one
\* channel and a broadcast channel that is overrun drops the oldest ones
\* (socket.rs:545, polling.rs:141-147, server.rs:396-407).
PassedIsPrefix ==
  \A s \in Sids : \A i \in DOMAIN passed[s] : passed[s][i][1] = "message" =>
    /\ Passed(s, i) <= Len(sent[s])
    /\ passed[s][i][2] = sent[s][Passed(s, i)]

\* When the loop passes on that a connection is closed, the Server has forgotten
\* it, and of that connection there is neither a message nor a second Close
\* afterwards (server.rs:377-383, socket.rs:413).
CloseIsLast ==
  \A s \in Sids : \A i \in DOMAIN passed[s] : passed[s][i][1] = "close" =>
    /\ s \notin clients
    /\ \A j \in (i + 1)..Len(passed[s]) : passed[s][j][1] = "connection"

\* A data request that is refused has no effect, and one that is accepted has
\* passed on each of its messages unless the subscriber is gone: a body that
\* fails to decode half-way must leave nothing behind (polling.rs:132-147).
PostAllOrNothing ==
  \A r \in Requests, s \in Sids :
    LET mine == {i \in DOMAIN sent[s] : sent[s][i][1] = r} IN
      mine # {} =>
        /\ pc[r] \in {"post", "ok"} /\ s = request[r].sid
        /\ \A i \in DOMAIN request[r].body : request[r].body[i] # "garbage"
        /\ pc[r] = "ok" /\ Subscribed(s) => Cardinality(mine) =
             Cardinality({i \in DOMAIN request[r].body : request[r].body[i] = "message"})

\* A handshake that panics between the insertion of its socket and the end of
\* its subscription leaves an entry that nobody listens for (server.rs:325-333).
Unsubscribable(r) ==
  pc[r] = "panicked" /\ ~({"get_available_upgrades", "set_ping_timeout"} \subseteq Implemented)

\* The handshake puts the socket into the map first and opens it, sends to it
\* and subscribes to it afterwards, with an await at each of these and two ways
\* to fail at the end (server.rs:325-343).  While an entry is in the map, what
\* its transport reports is heard: its subscriber runs, or the handshake is not
\* yet over, or did not get as far.  Only a subscriber that panicked itself, or
\* whose event channel was overrun, has left its entry behind.
ClientsServed ==
  \A s \in clients :
    \/ Subscribed(s) \/ lagged[s] \/ pc[s] = "panicked"
    \/ \E r \in Requests : sid[r] = s /\ (pc[r] \in HandshakeSteps \cup SendSteps \/ Unsubscribable(r))

\* The event loop waits to remove a socket while a user keeps a reference into
\* the same shard and waits for room in the channel that the loop empties.
Blocked ==
  /\ loop \in Sids /\ ~Unlocked(loop)
  /\ Len(events) = EventCap

\* Every HTTP request is answered, whatever the other connections do, although
\* handshakes, subscribers and users all wait for one channel, unless a
\* send_packet and the removal of a socket block each other for good
\* (server.rs:205-206, 378; socket.rs:200-204, 324-328, 366-370).
RequestsAnswered ==
  (\E r \in Arrived : pc[r] \notin Replies)
    ~> ((\A r \in Arrived : pc[r] \in Replies) \/ Blocked)

\* Messages of a live subscriber that the loop has not passed on.
Undelivered(s) ==
  Subscribed(s) /\ ~lagged[s] /\ Passed(s, Len(passed[s])) < Len(sent[s])

\* What a connection's channel took is passed on by the loop, unless the channel
\* is overrun, the subscriber panicked on an earlier packet, or the Server is
\* blocked (polling.rs:141-147, socket.rs:545-553, server.rs:396-407).
MessagesPassedOn ==
  (\E s \in Sids : Undelivered(s)) ~> ((\A s \in Sids : ~Undelivered(s)) \/ Blocked)

\* "Forward the Flush event to the external listener" (server.rs:385, and 401
\* for a Message): when the loop has passed on an event, the owner's channel
\* gets one.
EventsForwarded == (\E s \in Sids : passed[s] # <<>>) ~> owner # <<>>

=============================================================================
