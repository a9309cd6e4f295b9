--------------------------- MODULE EngineServerProofs ---------------------------
(***************************************************************************)
(* Theorems about EngineServer: all the connections of one Server.         *)
(***************************************************************************)
EXTENDS EngineServer, FiniteSetTheorems, TLAPS

-------------------------------------------------------------------------------
(* Type correctness *)

\* Packet i of the task t.
PacketIds == (Requests \cup Sids) \X Int
MaybePacket == PacketIds \cup {NoPacket}

EventKinds == {"open", "flush", "drain", "message", "heartbeat", "close"}
SocketEvent == [kind : EventKinds, sid : Sids, packet : MaybePacket]
TransportEvent == (Packets \cup {"close"}) \X PacketIds
OwnerEvent == {"connection", "message", "close"} \X MaybePacket

SocketsInv ==
    /\ ready \in [Sids -> {"unborn", "Opening", "Open", "Closed"}]
    /\ transport \in [Sids -> {"polling", "websocket", "none"}]
    /\ tevents \in [Sids -> Seq(TransportEvent)]
    /\ \A s \in Sids : Len(tevents[s]) <= TransportCap
    /\ hand \in [Sids -> MaybePacket]
    /\ lagged \in [Sids -> BOOLEAN]
    /\ peer \in [Sids -> -1 .. MaxPeerEvents]

ChannelInv ==
    /\ clients \subseteq Sids /\ known \subseteq Sids
    /\ events \in Seq(SocketEvent) /\ Len(events) <= EventCap
    /\ loop \in {"unsubscribed", "recv"} \cup Sids
    /\ sent \in [Sids -> Seq(PacketIds)]
    /\ passed \in [Sids -> Seq(OwnerEvent)]

Stopped == {"idle", "ended", "panicked"}

\* The steps of requests that have found, or made, a socket, and of those that
\* work on the socket they name.
Found == {"lookup", "polling", "post", "ok"}
WithSocket == Found \cup HandshakeSteps \cup SendSteps
WithSid == Found \cup {"verify"}

ControlInv ==
    /\ pc \in [Tasks -> Labels] /\ ret \in [Tasks -> Labels]
    /\ sid \in [Tasks -> Sids \cup {NoSid}]
    /\ \A r \in Requests : request[r] \in HttpRequests[r] \cup {NoRequest}
    /\ request = [r \in Requests |-> request[r]]
    /\ unsent \in [Requests -> Seq(Packets)]
    /\ \A t \in Users : /\ pc[t] \in Stopped \cup SendSteps /\ ret[t] = "ended"
                        /\ pc[t] \in SendSteps => sid[t] \in Sids
    /\ \A s \in Sids : /\ pc[s] \in Stopped \cup SendSteps \cup SubscriberSteps
                       /\ ret[s] = "heartbeat" /\ sid[s] = s
    /\ \A r \in Requests : /\ pc[r] \notin SubscriberSteps
                           /\ pc[r] \in SendSteps => ret[r] \in {"open_event", "subscribe"}
                           /\ pc[r] \in WithSocket => sid[r] \in Sids
                           /\ pc[r] \in WithSid => sid[r] = request[r].sid

TypeInv == SocketsInv /\ ChannelInv /\ ControlInv

\* The three kinds of tasks are apart, and no id is the absence of one.
LEMMA TaskFacts ==
    /\ Requests \subseteq Tasks /\ Users \subseteq Tasks /\ Sids \subseteq Tasks
    /\ Requests \cap Users = {} /\ Requests \cap Sids = {} /\ Users \cap Sids = {}
    /\ NoSid \notin Sids
    BY ServerAssumption DEF Tasks

\* The places of the event loop are no ids.
LEMMA LoopPlaces == "recv" \notin Sids /\ "unsubscribed" \notin Sids
    BY ServerAssumption

\* A task moves alone.
LEMMA GotoFacts ==
    ASSUME ControlInv, NEW t \in Tasks, NEW l, Goto(t, l)
    PROVE  pc'[t] = l /\ \A u \in Tasks \ {t} : pc'[u] = pc[u]
    BY DEF ControlInv, Goto

\* A task goes on to a step of its own kind.
LEMMA ControlMove ==
    ASSUME ControlInv, NEW t \in Tasks, NEW l \in Labels, Goto(t, l),
           UNCHANGED <<ret, sid, request, unsent>>,
           t \in Users => l \in Stopped \cup SendSteps /\ (l \in SendSteps => sid[t] \in Sids),
           t \in Sids => l \in Stopped \cup SendSteps \cup SubscriberSteps,
           t \in Requests =>
              /\ l \notin SubscriberSteps /\ (l \in SendSteps => pc[t] \in SendSteps)
              /\ l \in WithSocket => sid[t] \in Sids
              /\ l \in WithSid => sid[t] = request[t].sid
    PROVE  ControlInv'
    <1>1. pc'[t] = l /\ \A u \in Tasks \ {t} : pc'[u] = pc[u]
        BY GotoFacts
    <1>2. pc' \in [Tasks -> Labels]
        BY DEF ControlInv, Goto
    <1> QED
        BY <1>1, <1>2, TaskFacts DEF ControlInv

\* The requests that arrive.
LEMMA RequestFacts ==
    ASSUME NEW r \in Requests, NEW q \in HttpRequests[r] \cup {NoRequest}
    PROVE  /\ q.sid \in Sids \cup {NoSid} /\ q.body \in Seq(Packets \cup {"garbage"})
           /\ q.upgrade \in BOOLEAN /\ q.headers \in BOOLEAN
    <1>1. CASE q = NoRequest
        BY <1>1 DEF NoRequest
    <1>2. CASE q \in HttpRequests[r]
        BY <1>2, ServerAssumption
    <1> QED
        BY <1>1, <1>2

\* A body that decodes consists of packets.
LEMMA DecodesFacts ==
    ASSUME NEW body \in Seq(Packets \cup {"garbage"}), Decodes(body)
    PROVE  body \in Seq(Packets)
    <1>1. \A i \in 1 .. Len(body) : body[i] \in Packets
        BY DEF Decodes
    <1> QED
        BY <1>1

\* What a broadcast does to its own socket; it does nothing to the others.
LEMMA BroadcastFacts ==
    ASSUME SocketsInv, ChannelInv, NEW s \in Sids, NEW k \in Packets \cup {"close"},
           NEW p \in PacketIds, Broadcast(s, k, p)
    PROVE  /\ tevents' \in [Sids -> Seq(TransportEvent)] /\ lagged' \in [Sids -> BOOLEAN]
           /\ sent' \in [Sids -> Seq(PacketIds)] /\ Len(tevents'[s]) <= TransportCap
           /\ \A x \in Sids \ {s} :
                 tevents'[x] = tevents[x] /\ lagged'[x] = lagged[x] /\ sent'[x] = sent[x]
           /\ \/ /\ UNCHANGED <<tevents, lagged, sent>>
                 /\ "wiring" \notin Implemented \/ ~Subscribed(s)
              \/ /\ "wiring" \in Implemented /\ Subscribed(s)
                 /\ sent'[s] = IF k = "message" THEN Append(sent[s], p) ELSE sent[s]
                 /\ \/ lagged'[s]
                    \/ /\ lagged'[s] <=> lagged[s]
                       /\ tevents'[s] = Append(tevents[s], <<k, p>>)
    <1> DEFINE q == tevents[s]
               new == Append(IF Len(q) < TransportCap THEN q ELSE Tail(q), <<k, p>>)
    <1>1. /\ tevents \in [Sids -> Seq(TransportEvent)] /\ lagged \in [Sids -> BOOLEAN]
          /\ sent \in [Sids -> Seq(PacketIds)] /\ Len(q) <= TransportCap
          /\ q \in Seq(TransportEvent) /\ sent[s] \in Seq(PacketIds)
        BY DEF SocketsInv, ChannelInv
    <1>2. CASE UNCHANGED <<tevents, lagged, sent>>
               /\ ("wiring" \notin Implemented \/ ~Subscribed(s))
        BY <1>1, <1>2
    <1>3. CASE "wiring" \in Implemented /\ Subscribed(s)
        <2>1. /\ tevents' = [tevents EXCEPT ![s] = new]
              /\ lagged' = [lagged EXCEPT ![s] = @ \/ Len(q) >= TransportCap]
              /\ sent' = IF k = "message" THEN [sent EXCEPT ![s] = Append(@, p)] ELSE sent
            BY <1>1, <1>3 DEF Broadcast
        <2>2. TransportCap \in Nat /\ TransportCap > 0
            BY ServerAssumption
        <2>3. <<k, p>> \in TransportEvent
            BY DEF TransportEvent
        <2>4. new \in Seq(TransportEvent) /\ Len(new) <= TransportCap
            <3>1. CASE Len(q) < TransportCap
                BY <1>1, <2>2, <2>3, <3>1
            <3>2. CASE Len(q) = TransportCap
                <4>1. q # <<>>
                    BY <2>2, <3>2
                <4>2. Tail(q) \in Seq(TransportEvent) /\ Len(Tail(q)) = Len(q) - 1
                    BY <1>1, <4>1
                <4> QED
                    BY <2>2, <2>3, <3>2, <4>2
            <3> QED
                BY <1>1, <2>2, <3>1, <3>2
        <2>5. lagged'[s] \/ ((lagged'[s] <=> lagged[s]) /\ new = Append(q, <<k, p>>))
            <3>1. CASE Len(q) < TransportCap
                BY <1>1, <2>1, <2>2, <3>1
            <3>2. CASE Len(q) >= TransportCap
                BY <1>1, <2>1, <3>2
            <3> QED
                BY <1>1, <2>2, <3>1, <3>2
        <2> HIDE DEF new
        <2>6. tevents' \in [Sids -> Seq(TransportEvent)] /\ tevents'[s] = new
              /\ \A x \in Sids \ {s} : tevents'[x] = tevents[x]
            BY <1>1, <2>1, <2>4
        <2>7. /\ sent' \in [Sids -> Seq(PacketIds)]
              /\ sent'[s] = IF k = "message" THEN Append(sent[s], p) ELSE sent[s]
              /\ \A x \in Sids \ {s} : sent'[x] = sent[x]
            BY <1>1, <2>1
        <2>8. lagged' \in [Sids -> BOOLEAN] /\ \A x \in Sids \ {s} : lagged'[x] = lagged[x]
            BY <1>1, <2>1
        <2> QED
            BY <1>3, <2>4, <2>5, <2>6, <2>7, <2>8
    <1> QED
        BY <1>2, <1>3 DEF Broadcast

\* What is passed on for a socket is added to what was passed on before.
LEMMA ForwardFacts ==
    ASSUME ChannelInv, NEW s \in Sids, NEW k \in EventKinds \cup {"connection"},
           NEW p \in MaybePacket, Forward(k, s, p)
    PROVE  /\ passed' \in [Sids -> Seq(OwnerEvent)]
           /\ \A x \in Sids \ {s} : passed'[x] = passed[x]
           /\ passed'[s] = IF k \in {"connection", "message", "close"}
                             THEN Append(passed[s], <<k, p>>) ELSE passed[s]
    <1>1. passed \in [Sids -> Seq(OwnerEvent)]
        BY DEF ChannelInv
    <1>2. k \in {"connection", "message", "close"} => <<k, p>> \in OwnerEvent
        BY DEF OwnerEvent
    <1>3. CASE k \in {"connection", "message", "close"}
        <2>1. passed' = [passed EXCEPT ![s] = Append(@, <<k, p>>)]
            BY <1>3 DEF Forward
        <2>2. Append(passed[s], <<k, p>>) \in Seq(OwnerEvent)
            BY <1>1, <1>2, <1>3
        <2> QED
            BY <1>1, <1>3, <2>1, <2>2
    <1>4. CASE k \notin {"connection", "message", "close"}
        BY <1>1, <1>4 DEF Forward
    <1> QED
        BY <1>3, <1>4

\* Where send_packet returns to, by the kind of the task that called it.
LEMMA RetFacts ==
    ASSUME ControlInv, NEW t \in Tasks, pc[t] \in SendSteps
    PROVE  /\ sid[t] \in Sids
           /\ ret[t] \in {"ended", "heartbeat", "open_event", "subscribe"}
           /\ t \in Users => ret[t] = "ended"
           /\ t \in Sids => ret[t] = "heartbeat" /\ sid[t] = t
           /\ t \in Requests => ret[t] \in {"open_event", "subscribe"}
    BY TaskFacts DEF ControlInv, Tasks, WithSocket

\* The steps that only move their task.
LEMMA TypeMove ==
    ASSUME TypeInv, NEW t \in Tasks, NEW l \in Labels, Move(t, l),
           t \in Users => l \in Stopped \cup SendSteps /\ (l \in SendSteps => sid[t] \in Sids),
           t \in Sids => l \in Stopped \cup SendSteps \cup SubscriberSteps,
           t \in Requests =>
              /\ l \notin SubscriberSteps /\ (l \in SendSteps => pc[t] \in SendSteps)
              /\ l \in WithSocket => sid[t] \in Sids
              /\ l \in WithSid => sid[t] = request[t].sid
    PROVE  TypeInv'
    <1>1. ControlInv'
        BY ControlMove DEF TypeInv, Move
    <1> QED
        BY <1>1 DEF TypeInv, Move, SocketsInv, ChannelInv, sockets, history

\* A request that arrives keeps the types.
LEMMA TypeArrive ==
    ASSUME TypeInv, NEW r \in Requests, Arrive(r)
    PROVE  TypeInv'
    <1>1. PICK q \in HttpRequests[r] :
            /\ pc[r] = "idle" /\ (q.sid = NoSid \/ q.sid \in known)
            /\ \E l \in {"rejected", "panicked", "verify", "handshake"} :
                  Goto(r, l) /\ (l = "handshake" => q.sid = NoSid)
            /\ request' = [request EXCEPT ![r] = q] /\ sid' = [sid EXCEPT ![r] = q.sid]
            /\ UNCHANGED <<clients, sockets, events, loop, ret, unsent, history>>
        BY DEF Arrive, Unless
    <1>2. PICK l \in {"rejected", "panicked", "verify", "handshake"} : Goto(r, l)
        BY <1>1
    <1>3. q.sid \in Sids \cup {NoSid}
        BY RequestFacts
    <1>4. r \in Tasks /\ l \in Labels /\ l \notin SubscriberSteps \cup SendSteps \cup WithSocket
        BY TaskFacts DEF Labels, Replies, SubscriberSteps, SendSteps, WithSocket, Found,
                         HandshakeSteps
    <1>5. /\ pc'[r] = l /\ \A u \in Tasks \ {r} : pc'[u] = pc[u]
          /\ pc' \in [Tasks -> Labels]
        BY <1>2, <1>4, GotoFacts DEF TypeInv, ControlInv, Goto
    <1>6. /\ sid' \in [Tasks -> Sids \cup {NoSid}] /\ sid'[r] = q.sid
          /\ \A u \in Tasks \ {r} : sid'[u] = sid[u]
          /\ request' = [x \in Requests |-> request'[x]] /\ request'[r] = q
          /\ \A x \in Requests \ {r} : request'[x] = request[x]
        <2>1. sid' \in [Tasks -> Sids \cup {NoSid}] /\ sid'[r] = q.sid
              /\ \A u \in Tasks \ {r} : sid'[u] = sid[u]
            BY <1>1, <1>3, <1>4 DEF TypeInv, ControlInv
        <2>2. request = [x \in Requests |-> request[x]] /\ request' = [request EXCEPT ![r] = q]
            BY <1>1 DEF TypeInv, ControlInv
        <2>3. request' = [x \in Requests |-> IF x = r THEN q ELSE request[x]]
            BY <2>2
        <2> QED
            BY <2>1, <2>3
    <1>7. ControlInv'
        <2>1. \A x \in Requests :
                /\ pc'[x] \notin SubscriberSteps
                /\ pc'[x] \in SendSteps => ret[x] \in {"open_event", "subscribe"}
                /\ pc'[x] \in WithSocket => sid'[x] \in Sids
                /\ pc'[x] \in WithSid => sid'[x] = request'[x].sid
                /\ request'[x] \in HttpRequests[x] \cup {NoRequest}
            BY <1>4, <1>5, <1>6, TaskFacts DEF TypeInv, ControlInv
        <2>2. /\ \A t \in Users : /\ pc'[t] \in Stopped \cup SendSteps /\ ret[t] = "ended"
                                  /\ pc'[t] \in SendSteps => sid'[t] \in Sids
              /\ \A s \in Sids : /\ pc'[s] \in Stopped \cup SendSteps \cup SubscriberSteps
                                 /\ ret[s] = "heartbeat" /\ sid'[s] = s
            BY <1>5, <1>6, TaskFacts DEF TypeInv, ControlInv
        <2> QED
            BY <1>1, <1>5, <1>6, <2>1, <2>2 DEF TypeInv, ControlInv
    <1> QED
        BY <1>1, <1>7 DEF TypeInv, SocketsInv, ChannelInv, sockets, history

\* So does every later step of a request that is no handshake.
LEMMA TypeRequest ==
    ASSUME TypeInv, NEW r \in Requests, RequestStep(r)
    PROVE  TypeInv'
    <1>0. r \in Tasks
        BY TaskFacts
    <1> USE DEF Labels, Replies, HandshakeSteps, SendSteps, SubscriberSteps, WithSocket, WithSid,
                Found
    <1>1. CASE VerifyRequest(r)
        <2>1. PICK l \in {"BadHandshakeMethod", "handshake", "UnknownSid", "BadRequest", "lookup"} :
                Move(r, l) /\ (l = "lookup" => request[r].sid \in clients)
            BY <1>1 DEF VerifyRequest
        <2>2. sid[r] = request[r].sid /\ clients \subseteq Sids
            BY <1>1 DEF VerifyRequest, TypeInv, ControlInv, ChannelInv
        <2> QED
            BY <1>0, <2>1, <2>2, TypeMove, TaskFacts
    <1>2. CASE GetClient(r)
        <2>1. PICK l \in {"polling", "UnknownSid"} : Move(r, l) /\ pc[r] = "lookup"
            BY <1>2 DEF GetClient
        <2>2. sid[r] = request[r].sid /\ sid[r] \in Sids
            BY <2>1 DEF TypeInv, ControlInv
        <2> QED
            BY <1>0, <2>1, <2>2, TypeMove, TaskFacts
    <1>3. CASE HandlePollingRequest(r)
        <2>1. PICK l \in {"post", "Unknown", "BadRequest"} :
                /\ Goto(r, l) /\ pc[r] = "polling"
                /\ unsent' = [unsent EXCEPT ![r] =
                                 IF Decodes(request[r].body) /\ l = "post"
                                 THEN request[r].body ELSE <<>>]
                /\ UNCHANGED <<clients, sockets, events, loop, ret, sid, request, history>>
            BY <1>3 DEF HandlePollingRequest
        <2>2. sid[r] = request[r].sid /\ sid[r] \in Sids
            BY <2>1 DEF TypeInv, ControlInv
        <2>3. unsent' \in [Requests -> Seq(Packets)]
            <3>1. request[r].body \in Seq(Packets \cup {"garbage"})
                BY RequestFacts DEF TypeInv, ControlInv
            <3>2. <<>> \in Seq(Packets)
                OBVIOUS
            <3> QED
                BY <2>1, <3>1, <3>2, DecodesFacts DEF TypeInv, ControlInv
        <2>4. pc'[r] = l /\ (\A u \in Tasks \ {r} : pc'[u] = pc[u]) /\ pc' \in [Tasks -> Labels]
            BY <1>0, <2>1, GotoFacts DEF TypeInv, ControlInv, Goto
        <2>5. ControlInv'
            BY <2>1, <2>2, <2>3, <2>4, TaskFacts DEF TypeInv, ControlInv
        <2> QED
            BY <2>1, <2>5 DEF TypeInv, SocketsInv, ChannelInv, sockets, history
    <1>4. CASE HandleDataRequest(r)
        <2>1. pc[r] = "post" /\ sid[r] \in Sids /\ sid[r] = request[r].sid
            BY <1>4 DEF HandleDataRequest, TypeInv, ControlInv
        <2>2. UNCHANGED <<clients, ready, transport, hand, peer, events, loop, ret, sid, request,
                          known, passed>>
            BY <1>4 DEF HandleDataRequest
        <2>3. CASE unsent[r] = <<>>
            <3>1. Goto(r, "ok") /\ UNCHANGED <<tevents, lagged, sent, unsent>>
                BY <1>4, <2>3 DEF HandleDataRequest
            <3>2. ControlInv'
                BY <1>0, <2>1, <2>2, <3>1, ControlMove, TaskFacts DEF TypeInv
            <3> QED
                BY <2>2, <3>1, <3>2 DEF TypeInv, SocketsInv, ChannelInv
        <2>4. CASE unsent[r] # <<>>
            <3> DEFINE p == <<r, Len(request[r].body) - Len(unsent[r]) + 1>>
            <3>1. /\ Broadcast(sid[r], Head(unsent[r]), p)
                  /\ unsent' = [unsent EXCEPT ![r] = Tail(@)] /\ UNCHANGED pc
                BY <1>4, <2>4 DEF HandleDataRequest
            <3>2. unsent[r] \in Seq(Packets) /\ request[r].body \in Seq(Packets \cup {"garbage"})
                BY RequestFacts DEF TypeInv, ControlInv
            <3>3. /\ p \in PacketIds /\ Head(unsent[r]) \in Packets
                  /\ Tail(unsent[r]) \in Seq(Packets)
                <4>1. Len(unsent[r]) \in Int /\ Len(request[r].body) \in Int
                    BY <3>2
                <4>2. p \in PacketIds
                    <5>1. Len(request[r].body) - Len(unsent[r]) + 1 \in Int
                        BY <4>1
                    <5>2. \A i \in Int : <<r, i>> \in PacketIds
                        BY DEF PacketIds
                    <5> QED
                        BY <5>1, <5>2
                <4> QED
                    BY <2>4, <3>2, <4>2
            <3>4. ControlInv'
                <4>1. unsent' \in [Requests -> Seq(Packets)]
                    BY <3>1, <3>3 DEF TypeInv, ControlInv
                <4> QED
                    BY <2>2, <3>1, <4>1 DEF TypeInv, ControlInv
            <3> HIDE DEF p
            <3>5. /\ tevents' \in [Sids -> Seq(TransportEvent)] /\ lagged' \in [Sids -> BOOLEAN]
                  /\ sent' \in [Sids -> Seq(PacketIds)] /\ Len(tevents'[sid[r]]) <= TransportCap
                  /\ \A x \in Sids \ {sid[r]} : tevents'[x] = tevents[x]
                BY <2>1, <3>1, <3>3, BroadcastFacts DEF TypeInv
            <3> QED
                BY <2>2, <3>4, <3>5 DEF TypeInv, SocketsInv, ChannelInv
        <2> QED
            BY <2>3, <2>4
    <1> QED
        BY <1>1, <1>2, <1>3, <1>4 DEF RequestStep

\* The packet that a data request passes on.
LEMMA DataFacts ==
    ASSUME TypeInv, NEW r \in Requests, pc[r] = "post", unsent[r] # <<>>
    PROVE  /\ sid[r] \in Sids /\ Head(unsent[r]) \in Packets
           /\ <<r, Len(request[r].body) - Len(unsent[r]) + 1>> \in PacketIds
    <1>1. /\ unsent[r] \in Seq(Packets) /\ request[r].body \in Seq(Packets \cup {"garbage"})
          /\ sid[r] \in Sids
        BY RequestFacts DEF TypeInv, ControlInv, WithSocket, Found
    <1>2. Head(unsent[r]) \in Packets /\ Len(request[r].body) - Len(unsent[r]) + 1 \in Int
        BY <1>1
    <1>3. \A i \in Int : <<r, i>> \in PacketIds
        BY DEF PacketIds
    <1> QED
        BY <1>1, <1>2, <1>3

\* A SocketEvent goes into the channel when there is room.
LEMMA EmitFacts ==
    ASSUME TypeInv, NEW t \in Tasks, sid[t] \in Sids, NEW k \in EventKinds,
           NEW p \in MaybePacket, NEW l, Emit(t, k, p, l)
    PROVE  /\ Goto(t, l) /\ events' = Append(events, [kind |-> k, sid |-> sid[t], packet |-> p])
           /\ events' \in Seq(SocketEvent) /\ Len(events') <= EventCap
           /\ UNCHANGED <<clients, sockets, loop, ret, sid, request, unsent, sent, passed>>
    <1> DEFINE e == [kind |-> k, sid |-> sid[t], packet |-> p]
    <1>1. e \in SocketEvent
        BY DEF SocketEvent
    <1>2. /\ Goto(t, l) /\ events' = Append(events, e) /\ Len(events) < EventCap
          /\ UNCHANGED <<clients, sockets, loop, ret, sid, request, unsent, sent, passed>>
        BY DEF Emit, Deliver
    <1>3. events \in Seq(SocketEvent) /\ EventCap \in Nat
        BY ServerAssumption DEF TypeInv, ChannelInv
    <1> HIDE DEF e
    <1>4. events' \in Seq(SocketEvent) /\ Len(events') <= EventCap
        BY <1>1, <1>2, <1>3
    <1> QED
        BY <1>2, <1>4 DEF e

\* An event that is sent into the channel fits into it.
LEMMA TypeEmit ==
    ASSUME TypeInv, NEW t \in Tasks, sid[t] \in Sids, NEW k \in EventKinds,
           NEW p \in MaybePacket, NEW l \in Labels, Emit(t, k, p, l), known' \subseteq Sids,
           t \in Users => l \in Stopped \cup SendSteps,
           t \in Sids => l \in Stopped \cup SendSteps \cup SubscriberSteps,
           t \in Requests => /\ l \notin SubscriberSteps /\ l \notin WithSid
                             /\ l \in SendSteps => pc[t] \in SendSteps
    PROVE  TypeInv'
    <1>1. /\ Goto(t, l) /\ events' \in Seq(SocketEvent) /\ Len(events') <= EventCap
          /\ UNCHANGED <<clients, sockets, loop, ret, sid, request, unsent, sent, passed>>
        BY EmitFacts
    <1>2. ControlInv'
        BY <1>1, ControlMove DEF TypeInv
    <1> QED
        BY <1>1, <1>2 DEF TypeInv, SocketsInv, ChannelInv, sockets

\* send_packet, its flush and its two events.
LEMMA TypeSend ==
    ASSUME TypeInv, NEW t \in Tasks, SendPacket(t)
    PROVE  TypeInv'
    <1> USE DEF Labels, Replies, HandshakeSteps, SendSteps, SubscriberSteps, WithSocket, WithSid,
                Found, Stopped
    <1>1. /\ pc[t] \in SendSteps /\ sid[t] \in Sids
          /\ ret[t] \in {"ended", "heartbeat", "open_event", "subscribe"}
          /\ t \in Users => ret[t] = "ended"
          /\ t \in Sids => ret[t] = "heartbeat" /\ sid[t] = t
          /\ t \in Requests => ret[t] \in {"open_event", "subscribe"}
        BY RetFacts DEF SendPacket, Send, FlushEvent, DrainEvent, TypeInv
    <1>2. ASSUME NEW l \in {"flush_event", ret[t]}, Move(t, l)
          PROVE  TypeInv'
        BY <1>1, <1>2, TypeMove
    <1>3. CASE Send(t)
        BY <1>2, <1>3 DEF Send
    <1>4. NoPacket \in MaybePacket /\ known \subseteq Sids
        BY DEF MaybePacket, TypeInv, ChannelInv
    <1>5. CASE FlushEvent(t)
        <2>1. Emit(t, "flush", NoPacket, "drain_event") /\ known' \subseteq Sids
            BY <1>1, <1>4, <1>5 DEF FlushEvent
        <2> QED
            BY <1>1, <1>4, <2>1, TypeEmit DEF EventKinds
    <1>6. CASE DrainEvent(t)
        <2>1. Emit(t, "drain", NoPacket, ret[t]) /\ known' \subseteq Sids
            BY <1>4, <1>6 DEF DrainEvent
        <2> QED
            BY <1>1, <1>4, <2>1, TypeEmit DEF EventKinds
    <1> QED
        BY <1>3, <1>5, <1>6 DEF SendPacket

\* Where a handshake ends.
LEMMA AnswerFacts ==
    ASSUME NEW r, NEW reply, Answer(r, reply)
    PROVE  \E l \in {"ended", "panicked", reply} : Goto(r, l)
    BY DEF Answer, Unless

\* The steps of Server::handshake.
LEMMA TypeHandshake ==
    ASSUME TypeInv, NEW r \in Requests, Handshake(r)
    PROVE  TypeInv'
    <1> USE DEF Labels, Replies, HandshakeSteps, SendSteps, SubscriberSteps, WithSocket, WithSid,
                Found, Stopped
    <1>0. r \in Tasks /\ r \notin Users \cup Sids
        BY TaskFacts
    <1>1. CASE NewSocket(r)
        <2>1. PICK s \in Sids :
                /\ clients' = clients \cup {s} /\ ready' = [ready EXCEPT ![s] = "Opening"]
                /\ \E k \in {"websocket", "polling"} : transport' = [transport EXCEPT ![s] = k]
                /\ sid' = [sid EXCEPT ![r] = s] /\ Goto(r, "open")
                /\ UNCHANGED <<tevents, hand, lagged, peer, events, loop, ret, request, unsent,
                               history>>
            BY <1>1 DEF NewSocket
        <2>2. pc'[r] = "open" /\ (\A u \in Tasks \ {r} : pc'[u] = pc[u]) /\ pc' \in [Tasks -> Labels]
            BY <1>0, <2>1, GotoFacts DEF TypeInv, ControlInv, Goto
        <2>3. /\ sid' \in [Tasks -> Sids \cup {NoSid}] /\ sid'[r] = s
              /\ \A u \in Tasks \ {r} : sid'[u] = sid[u]
            BY <1>0, <2>1 DEF TypeInv, ControlInv
        <2>4. ControlInv'
            BY <1>0, <2>1, <2>2, <2>3, TaskFacts DEF TypeInv, ControlInv
        <2>5. SocketsInv'
            BY <2>1 DEF TypeInv, SocketsInv
        <2>6. ChannelInv'
            BY <2>1 DEF TypeInv, ChannelInv, history
        <2> QED
            BY <2>4, <2>5, <2>6 DEF TypeInv
    <1>2. ASSUME pc[r] \in {"open", "initial"}, NEW l \in {"open_event", "subscribe"},
                 CallSend(r, l), ready' \in [Sids -> {"unborn", "Opening", "Open", "Closed"}],
                 UNCHANGED <<transport, tevents, hand, lagged, peer>>
          PROVE  TypeInv'
        <2>1. /\ ret' = [ret EXCEPT ![r] = l] /\ Goto(r, "send")
              /\ UNCHANGED <<clients, events, loop, sid, request, unsent, history>>
            BY <1>2 DEF CallSend
        <2>2. pc'[r] = "send" /\ (\A u \in Tasks \ {r} : pc'[u] = pc[u]) /\ pc' \in [Tasks -> Labels]
            BY <1>0, <2>1, GotoFacts DEF TypeInv, ControlInv, Goto
        <2>3. /\ ret' \in [Tasks -> Labels] /\ ret'[r] = l
              /\ \A u \in Tasks \ {r} : ret'[u] = ret[u]
            BY <1>0, <2>1 DEF TypeInv, ControlInv
        <2>4. sid[r] \in Sids
            BY <1>2 DEF TypeInv, ControlInv
        <2>5. ControlInv'
            BY <1>0, <2>1, <2>2, <2>3, <2>4, TaskFacts DEF TypeInv, ControlInv
        <2> QED
            BY <1>2, <2>1, <2>5 DEF TypeInv, SocketsInv, ChannelInv, history
    <1>3. CASE Open(r)
        <2>1. /\ ready' \in [Sids -> {"unborn", "Opening", "Open", "Closed"}]
              /\ UNCHANGED <<transport, tevents, hand, lagged, peer>> /\ pc[r] = "open"
            BY <1>3 DEF Open, TypeInv, SocketsInv
        <2>2. CASE CallSend(r, "open_event")
            BY <1>2, <2>1, <2>2
        <2>3. CASE Goto(r, "panicked")
                   /\ UNCHANGED <<clients, events, loop, ret, sid, request, unsent, history>>
            <3>1. ControlInv'
                BY <1>0, <2>3, ControlMove DEF TypeInv
            <3> QED
                BY <2>1, <2>3, <3>1 DEF TypeInv, SocketsInv, ChannelInv, history
        <2> QED
            BY <1>3, <2>2, <2>3 DEF Open
    <1>4. CASE OpenEvent(r)
        <2>1. PICK l \in {"initial", "panicked"} : Emit(r, "open", NoPacket, l) /\ UNCHANGED known
            BY <1>4 DEF OpenEvent, Unless
        <2>2. sid[r] \in Sids /\ known' \subseteq Sids /\ NoPacket \in MaybePacket
            BY <1>4, <2>1 DEF OpenEvent, TypeInv, ControlInv, ChannelInv, MaybePacket
        <2> QED
            BY <1>0, <2>1, <2>2, TypeEmit DEF EventKinds
    <1>5. CASE Initial(r)
        <2>1. pc[r] = "initial" /\ sid[r] \in Sids
            BY <1>5 DEF Initial, TypeInv, ControlInv
        <2>2. CASE CallSend(r, "subscribe") /\ UNCHANGED sockets
            BY <1>2, <2>1, <2>2 DEF sockets, TypeInv, SocketsInv
        <2>3. CASE Move(r, "subscribe")
            BY <1>0, <2>1, <2>3, TypeMove
        <2> QED
            BY <1>5, <2>2, <2>3 DEF Initial
    <1>6. CASE Subscribe(r)
        <2>1. /\ pc[r] = "subscribe" /\ sid[r] \in Sids
              /\ pc' = [pc EXCEPT ![r] = "respond", ![sid[r]] = "recv"]
              /\ UNCHANGED <<clients, sockets, events, loop, ret, sid, request, unsent, history>>
            BY <1>6 DEF Subscribe, TypeInv, ControlInv
        <2>2. /\ pc'[r] = "respond" /\ pc'[sid[r]] = "recv" /\ pc' \in [Tasks -> Labels]
              /\ \A u \in Tasks \ {r, sid[r]} : pc'[u] = pc[u]
            BY <1>0, <2>1, TaskFacts DEF TypeInv, ControlInv
        <2>3. /\ \A t \in Users : pc'[t] = pc[t]
              /\ \A q \in Requests : pc'[q] = pc[q] \/ (q = r /\ pc'[q] = "respond")
              /\ \A s \in Sids : pc'[s] = pc[s] \/ pc'[s] = "recv"
            BY <1>0, <2>1, <2>2, TaskFacts
        <2>4. \A q \in Requests :
                /\ pc'[q] \notin SubscriberSteps
                /\ pc'[q] \in SendSteps => ret[q] \in {"open_event", "subscribe"}
                /\ pc'[q] \in WithSocket => sid[q] \in Sids
                /\ pc'[q] \in WithSid => sid[q] = request[q].sid
            BY <2>1, <2>3 DEF TypeInv, ControlInv
        <2>5. \A s \in Sids : pc'[s] \in Stopped \cup SendSteps \cup SubscriberSteps
            BY <2>3 DEF TypeInv, ControlInv
        <2>6. \A t \in Users : /\ pc'[t] \in Stopped \cup SendSteps /\ ret'[t] = "ended"
                               /\ pc'[t] \in SendSteps => sid'[t] \in Sids
            BY <2>1, <2>3 DEF TypeInv, ControlInv
        <2>7. \A s \in Sids : /\ pc'[s] \in Stopped \cup SendSteps \cup SubscriberSteps
                              /\ ret'[s] = "heartbeat" /\ sid'[s] = s
            BY <2>1, <2>5 DEF TypeInv, ControlInv
        <2>8. /\ pc' \in [Tasks -> Labels] /\ ret' \in [Tasks -> Labels]
              /\ sid' \in [Tasks -> Sids \cup {NoSid}]
              /\ \A q \in Requests : request'[q] \in HttpRequests[q] \cup {NoRequest}
              /\ request' = [q \in Requests |-> request'[q]]
              /\ unsent' \in [Requests -> Seq(Packets)]
            BY <2>1, <2>2 DEF TypeInv, ControlInv
        <2>9. \A q \in Requests : /\ pc'[q] \notin SubscriberSteps
                                  /\ pc'[q] \in SendSteps => ret'[q] \in {"open_event", "subscribe"}
                                  /\ pc'[q] \in WithSocket => sid'[q] \in Sids
                                  /\ pc'[q] \in WithSid => sid'[q] = request'[q].sid
            BY <2>1, <2>4
        <2>10. ControlInv'
            BY <2>6, <2>7, <2>8, <2>9 DEF ControlInv
        <2> QED
            BY <2>1, <2>10 DEF TypeInv, SocketsInv, ChannelInv, sockets, history
    <1>7. ASSUME NEW l \in {"connection", "ended", "panicked", "UnknownSid", "Unknown", "BadRequest"},
                 Goto(r, l), pc[r] \in {"respond", "connection"}, known' \subseteq Sids,
                 passed' \in [Sids -> Seq(OwnerEvent)],
                 UNCHANGED <<clients, sockets, events, loop, ret, sid, request, unsent, sent>>
          PROVE  TypeInv'
        <2>1. sid[r] \in Sids
            BY <1>7 DEF TypeInv, ControlInv
        <2>2. ControlInv'
            BY <1>0, <1>7, <2>1, ControlMove DEF TypeInv
        <2> QED
            BY <1>7, <2>2 DEF TypeInv, SocketsInv, ChannelInv, sockets
    <1>8. CASE Respond(r)
        <2>1. pc[r] = "respond" /\ sid[r] \in Sids
            BY <1>8 DEF Respond, TypeInv, ControlInv
        <2>2. CASE Move(r, "connection")
            BY <1>0, <2>1, <2>2, TypeMove
        <2>3. CASE known' = known \cup {sid[r]}
                   /\ \E reply \in {"UnknownSid", "Unknown", "BadRequest"} : Reply(r, reply)
            <3>1. PICK reply \in {"UnknownSid", "Unknown", "BadRequest"} : Reply(r, reply)
                BY <2>3
            <3>2. PICK l \in {"ended", "panicked", reply} : Goto(r, l)
                BY <3>1, AnswerFacts DEF Reply
            <3> QED
                BY <1>7, <2>1, <2>3, <3>1, <3>2 DEF Reply, TypeInv, ChannelInv
        <2> QED
            BY <1>8, <2>2, <2>3 DEF Respond
    <1>9. CASE Connection(r)
        <2>1. pc[r] = "connection" /\ sid[r] \in Sids /\ NoPacket \in MaybePacket
            BY <1>9 DEF Connection, TypeInv, ControlInv, MaybePacket
        <2>2. /\ Forward("connection", sid[r], NoPacket) /\ Answer(r, "BadRequest")
              /\ UNCHANGED <<clients, sockets, events, loop, ret, sid, request, unsent, known, sent>>
            BY <1>9 DEF Connection
        <2>3. known' \subseteq Sids /\ passed' \in [Sids -> Seq(OwnerEvent)]
            BY <2>1, <2>2, ForwardFacts DEF TypeInv, ChannelInv
        <2>4. PICK l \in {"ended", "panicked", "BadRequest"} : Goto(r, l)
            BY <2>2, AnswerFacts
        <2> QED
            BY <1>7, <2>1, <2>2, <2>3, <2>4
    <1> QED
        BY <1>1, <1>3, <1>4, <1>5, <1>6, <1>8, <1>9 DEF Handshake

\* The library calls that name a socket.
LEMMA TypeUser ==
    ASSUME TypeInv, NEW t \in Users, ServerSend(t) \/ CloseSocket(t)
    PROVE  TypeInv'
    <1> USE DEF Labels, Replies, HandshakeSteps, SendSteps, SubscriberSteps, WithSocket, WithSid,
                Found, Stopped
    <1>0. t \in Tasks /\ t \notin Requests \cup Sids /\ known \subseteq Sids
        BY TaskFacts DEF TypeInv, ChannelInv
    <1>1. CASE ServerSend(t)
        <2>1. PICK s \in known :
                /\ sid' = [sid EXCEPT ![t] = s] /\ \E l \in {"send", "ended"} : Goto(t, l)
                /\ UNCHANGED <<clients, sockets, events, loop, ret, request, unsent, history>>
            BY <1>1 DEF ServerSend
        <2>2. PICK l \in {"send", "ended"} : Goto(t, l)
            BY <2>1
        <2>3. pc'[t] = l /\ (\A u \in Tasks \ {t} : pc'[u] = pc[u]) /\ pc' \in [Tasks -> Labels]
            BY <1>0, <2>2, GotoFacts DEF TypeInv, ControlInv, Goto
        <2>4. /\ sid' \in [Tasks -> Sids \cup {NoSid}] /\ sid'[t] = s /\ s \in Sids
              /\ \A u \in Tasks \ {t} : sid'[u] = sid[u]
            BY <1>0, <2>1 DEF TypeInv, ControlInv
        <2>5. ControlInv'
            BY <1>0, <2>1, <2>3, <2>4, TaskFacts DEF TypeInv, ControlInv
        <2> QED
            BY <2>1, <2>5 DEF TypeInv, SocketsInv, ChannelInv, sockets, history
    <1>2. CASE CloseSocket(t)
        <2>1. /\ \E l \in {"ended", "panicked"} : Goto(t, l)
              /\ clients' \subseteq Sids
              /\ UNCHANGED <<sockets, events, loop, ret, sid, request, unsent, history>>
            BY <1>2 DEF CloseSocket, Unless, TypeInv, ChannelInv
        <2>2. PICK l \in {"ended", "panicked"} : Goto(t, l)
            BY <2>1
        <2>3. ControlInv'
            BY <1>0, <2>1, <2>2, ControlMove DEF TypeInv
        <2> QED
            BY <2>1, <2>3 DEF TypeInv, SocketsInv, ChannelInv, sockets, history
    <1> QED
        BY <1>1, <1>2

\* What a subscriber does with the event it receives.
LEMMA RecvFacts ==
    ASSUME TypeInv, NEW s \in Sids, Recv(s)
    PROVE  /\ pc[s] = "recv"
           /\ \/ lagged[s] /\ Move(s, "ended")
              \/ /\ ~ lagged[s] /\ tevents[s] # <<>> /\ Head(tevents[s]) \in TransportEvent
                 /\ \/ /\ Head(tevents[s])[1] = "close"
                       /\ ready' = [ready EXCEPT ![s] = "Closed"]
                       /\ transport' = [transport EXCEPT ![s] = "none"]
                       /\ Goto(s, IF ready[s] # "Closed" THEN "close_event" ELSE "recv")
                    \/ /\ Head(tevents[s])[1] # "close" /\ UNCHANGED <<ready, transport>>
                       /\ \E l \in {"recv", "panicked", "message", "send"} :
                            /\ Goto(s, l)
                            /\ l \in {"message", "send"} => ready[s] = "Open"
                            /\ ready[s] = "Open" /\ l # "panicked" =>
                                  (l = "message" <=> Head(tevents[s])[1] = "message")
                            /\ l = "panicked" => ready[s] = "Open"
                 /\ hand' = [hand EXCEPT ![s] = Head(tevents[s])[2]]
                 /\ tevents' = [tevents EXCEPT ![s] = Tail(@)]
                 /\ UNCHANGED <<lagged, peer>>
           /\ UNCHANGED <<clients, lagged, peer, events, loop, ret, sid, request, unsent, history>>
    <1>1. CASE lagged[s]
        BY <1>1 DEF Recv, Lagged, Move, sockets
    <1>2. CASE ~ lagged[s]
        <2>1. /\ pc[s] = "recv" /\ tevents[s] # <<>>
              /\ LET k == Head(tevents[s])[1] IN
                   IF k = "close" THEN OnClose(s)
                   ELSE OnPacket(s, k) /\ UNCHANGED <<ready, transport>>
              /\ hand' = [hand EXCEPT ![s] = Head(tevents[s])[2]]
              /\ tevents' = [tevents EXCEPT ![s] = Tail(@)]
              /\ UNCHANGED <<clients, lagged, peer, events, loop, ret, sid, request, unsent, history>>
            BY <1>2 DEF Recv, Lagged
        <2>2. Head(tevents[s]) \in TransportEvent
            <3>1. tevents[s] \in Seq(TransportEvent)
                BY DEF TypeInv, SocketsInv
            <3> QED
                BY <2>1, <3>1
        <2>3. CASE Head(tevents[s])[1] = "close"
            BY <1>2, <2>1, <2>2, <2>3 DEF OnClose
        <2>4. CASE Head(tevents[s])[1] # "close"
            <3> DEFINE k == Head(tevents[s])[1]
            <3>1. k \in Packets
                BY <2>2, <2>4 DEF TransportEvent
            <3>2. OnPacket(s, k) /\ UNCHANGED <<ready, transport>>
                BY <2>1, <2>4
            <3> HIDE DEF k
            <3>3. \E l \in {"recv", "panicked", "message", "send"} :
                      /\ Goto(s, l)
                      /\ l \in {"message", "send"} => ready[s] = "Open"
                      /\ ready[s] = "Open" /\ l # "panicked" => (l = "message" <=> k = "message")
                      /\ l = "panicked" => ready[s] = "Open"
                <4>1. CASE ready[s] # "Open"
                    BY <3>2, <4>1 DEF OnPacket
                <4>2. CASE ready[s] = "Open" /\ "set_ping_timeout" \notin Implemented
                    BY <3>2, <4>2 DEF OnPacket, Unless
                <4>3. CASE ready[s] = "Open" /\ "set_ping_timeout" \in Implemented
                    <5>1. Goto(s, CASE k = "message" -> "message"
                                    [] k = "ping" -> "send"
                                    [] OTHER -> Unless("on_packet", "recv"))
                        BY <3>2, <4>3 DEF OnPacket, Unless
                    <5>2. CASE k = "message"
                        BY <4>3, <5>1, <5>2
                    <5>3. CASE k = "ping"
                        BY <4>3, <5>1, <5>3
                    <5>4. CASE k = "other"
                        BY <4>3, <5>1, <5>4 DEF Unless
                    <5> QED
                        BY <3>1, <5>2, <5>3, <5>4 DEF Packets
                <4> QED
                    BY <4>1, <4>2, <4>3
            <3> QED
                BY <1>2, <2>1, <2>2, <2>4, <3>2, <3>3 DEF k
        <2> QED
            BY <2>3, <2>4
    <1> QED
        BY <1>1, <1>2

\* The subscriber of a socket.
LEMMA TypeSubscriber ==
    ASSUME TypeInv, NEW s \in Sids, SubscriberStep(s)
    PROVE  TypeInv'
    <1> USE DEF Labels, Replies, HandshakeSteps, SendSteps, SubscriberSteps, WithSocket, WithSid,
                Found, Stopped
    <1>0. /\ s \in Tasks /\ s \notin Requests \cup Users /\ sid[s] = s
          /\ known \subseteq Sids /\ NoPacket \in MaybePacket /\ hand[s] \in MaybePacket
        BY TaskFacts DEF TypeInv, ControlInv, ChannelInv, SocketsInv, MaybePacket
    <1>1. CASE Recv(s)
        <2>1. CASE Move(s, "ended")
            BY <1>0, <2>1, TypeMove
        <2>2. CASE ~ lagged[s] /\ tevents[s] # <<>>
            <3>0. /\ Head(tevents[s]) \in TransportEvent
                  /\ \E l \in {"close_event", "recv", "panicked", "message", "send"} : Goto(s, l)
                  /\ \/ UNCHANGED <<ready, transport>>
                     \/ /\ ready' = [ready EXCEPT ![s] = "Closed"]
                        /\ transport' = [transport EXCEPT ![s] = "none"]
                  /\ hand' = [hand EXCEPT ![s] = Head(tevents[s])[2]]
                  /\ tevents' = [tevents EXCEPT ![s] = Tail(@)]
                  /\ UNCHANGED <<clients, lagged, peer, events, loop, ret, sid, request, unsent, history>>
                BY <1>1, <2>2, RecvFacts, Zenon
            <3>1. /\ ready' \in [Sids -> {"unborn", "Opening", "Open", "Closed"}]
                  /\ transport' \in [Sids -> {"polling", "websocket", "none"}]
                BY <3>0 DEF TypeInv, SocketsInv
            <3>2. PICK l \in {"close_event", "recv", "panicked", "message", "send"} : Goto(s, l)
                BY <3>0
            <3>3. ControlInv'
                BY <1>0, <3>0, <3>2, ControlMove DEF TypeInv
            <3>4. hand' \in [Sids -> MaybePacket]
                BY <3>0 DEF TypeInv, SocketsInv, TransportEvent, MaybePacket
            <3>5. tevents[s] \in Seq(TransportEvent) /\ Len(tevents[s]) <= TransportCap
                  /\ TransportCap \in Nat
                BY ServerAssumption DEF TypeInv, SocketsInv
            <3>6. Tail(tevents[s]) \in Seq(TransportEvent) /\ Len(Tail(tevents[s])) <= TransportCap
                BY <2>2, <3>5
            <3>7. /\ tevents' \in [Sids -> Seq(TransportEvent)]
                  /\ \A x \in Sids : Len(tevents'[x]) <= TransportCap
                BY <3>0, <3>6 DEF TypeInv, SocketsInv
            <3> QED
                BY <3>0, <3>1, <3>3, <3>4, <3>7 DEF TypeInv, SocketsInv, ChannelInv, history
        <2> QED
            BY <1>1, <2>1, <2>2, RecvFacts
    <1>2. CASE MessageEvent(s)
        BY <1>0, <1>2, TypeEmit DEF MessageEvent, EventKinds
    <1>3. CASE Heartbeat(s)
        BY <1>0, <1>3, TypeEmit DEF Heartbeat, EventKinds
    <1>4. CASE CloseEvent(s)
        BY <1>0, <1>4, TypeEmit DEF CloseEvent, EventKinds
    <1> QED
        BY <1>1, <1>2, <1>3, <1>4 DEF SubscriberStep

\* The event the loop takes, and what it passes on.
LEMMA LoopFacts ==
    ASSUME TypeInv, LoopRecv
    PROVE  \E e \in SocketEvent :
             /\ loop = "recv" /\ events # <<>> /\ e = Head(events) /\ e = events[1]
             /\ events' = Tail(events) /\ events' \in Seq(SocketEvent)
             /\ Len(events') = Len(events) - 1
             /\ \A i \in 1 .. Len(events') : events'[i] = events[i + 1]
             /\ loop' = IF e.kind = "close" THEN e.sid ELSE "recv"
             /\ \/ e.kind \in {"flush", "drain", "message"} /\ Forward(e.kind, e.sid, e.packet)
                \/ e.kind \notin {"flush", "drain", "message"} /\ UNCHANGED passed
             /\ UNCHANGED <<clients, sockets, control, known, sent>>
    <1> DEFINE e == Head(events)
    <1>1. events \in Seq(SocketEvent) /\ events # <<>>
        BY DEF TypeInv, ChannelInv, LoopRecv, TakeEvent
    <1>2. e \in SocketEvent /\ e = events[1]
        BY <1>1
    <1>3. /\ Tail(events) \in Seq(SocketEvent) /\ Len(Tail(events)) = Len(events) - 1
          /\ \A i \in 1 .. (Len(events) - 1) : Tail(events)[i] = events[i + 1]
        BY <1>1
    <1>4. /\ loop = "recv" /\ events' = Tail(events)
          /\ loop' = IF e.kind = "close" THEN e.sid ELSE "recv"
          /\ IF e.kind \in {"flush", "drain", "message"} THEN Forward(e.kind, e.sid, e.packet)
                                                        ELSE UNCHANGED <<passed, owner>>
          /\ UNCHANGED <<clients, sockets, control, known, sent>>
        BY DEF LoopRecv, TakeEvent
    <1>5. \/ e.kind \in {"flush", "drain", "message"} /\ Forward(e.kind, e.sid, e.packet)
          \/ e.kind \notin {"flush", "drain", "message"} /\ UNCHANGED passed
        BY <1>4
    <1> HIDE DEF e
    <1> QED
        BY <1>1, <1>2, <1>3, <1>4, <1>5 DEF e

\* The event loop of the Server.
LEMMA TypeLoop ==
    ASSUME TypeInv, EventLoop \/ TrySubscribe
    PROVE  TypeInv'
    <1>1. CASE LoopRecv
        <2>1. PICK e \in SocketEvent :
                 /\ events' \in Seq(SocketEvent) /\ Len(events') = Len(events) - 1
                 /\ loop' = IF e.kind = "close" THEN e.sid ELSE "recv"
                 /\ \/ e.kind \in {"flush", "drain", "message"} /\ Forward(e.kind, e.sid, e.packet)
                    \/ UNCHANGED passed
                 /\ UNCHANGED <<clients, sockets, control, known, sent>>
            BY <1>1, LoopFacts
        <2>2. e.sid \in Sids /\ e.kind \in EventKinds /\ e.packet \in MaybePacket
            BY DEF SocketEvent
        <2>3. passed' \in [Sids -> Seq(OwnerEvent)]
            BY <2>1, <2>2, ForwardFacts DEF TypeInv, ChannelInv
        <2>4. Len(events') <= EventCap
            <3>1. events \in Seq(SocketEvent) /\ Len(events) <= EventCap /\ EventCap \in Nat
                BY ServerAssumption DEF TypeInv, ChannelInv
            <3> QED
                BY <2>1, <3>1
        <2>5. ChannelInv'
            BY <2>1, <2>2, <2>3, <2>4 DEF TypeInv, ChannelInv
        <2> QED
            BY <2>1, <2>5 DEF TypeInv, SocketsInv, ControlInv, sockets, control
    <1>2. CASE LoopRemove
        <2>1. /\ loop \in Sids /\ clients' \subseteq Sids /\ Forward("close", loop, NoPacket)
              /\ loop' = "recv" /\ UNCHANGED <<sockets, events, control, known, sent>>
              /\ NoPacket \in MaybePacket
            BY <1>2 DEF LoopRemove, TypeInv, ChannelInv, MaybePacket
        <2>2. passed' \in [Sids -> Seq(OwnerEvent)]
            BY <2>1, ForwardFacts DEF TypeInv, EventKinds
        <2> QED
            BY <2>1, <2>2 DEF TypeInv, SocketsInv, ChannelInv, ControlInv, sockets, control
    <1>3. CASE TrySubscribe
        BY <1>3 DEF TrySubscribe, TypeInv, SocketsInv, ChannelInv, ControlInv, sockets, control, history
    <1> QED
        BY <1>1, <1>2, <1>3 DEF EventLoop

\* What the peer of a websocket broadcasts.
LEMMA PeerFacts ==
    ASSUME TypeInv, NEW s \in Sids, NEW k \in PeerEvents, PeerEvent(s, k)
    PROVE  /\ transport[s] = "websocket" /\ k \in Packets \cup {"close"}
           /\ \E p \in PacketIds : p[1] = s /\ Broadcast(s, k, p)
           /\ peer' \in [Sids -> -1 .. MaxPeerEvents]
           /\ UNCHANGED <<clients, ready, transport, hand, events, loop, control, known, passed>>
    <1>1. peer \in [Sids -> -1 .. MaxPeerEvents] /\ MaxPeerEvents \in Nat
        BY ServerAssumption DEF TypeInv, SocketsInv
    <1>2. peer[s] \in 0 .. (MaxPeerEvents - 1)
        BY DEF PeerEvent
    <1>3. peer' \in [Sids -> -1 .. MaxPeerEvents]
        <2>1. peer[s] + 1 \in -1 .. MaxPeerEvents /\ -1 \in -1 .. MaxPeerEvents
            BY <1>1, <1>2
        <2> QED
            BY <1>1, <2>1 DEF PeerEvent
    <1>4. \E p \in PacketIds : p[1] = s /\ Broadcast(s, k, p)
        <2>1. peer[s] + 1 \in Int
            BY <1>1, <1>2
        <2>2. \A i \in Int : <<s, i>> \in PacketIds
            BY DEF PacketIds
        <2>3. <<s, peer[s] + 1>> \in PacketIds /\ <<s, peer[s] + 1>>[1] = s
            BY <2>1, <2>2
        <2> QED
            BY <2>3 DEF PeerEvent
    <1> QED
        BY <1>3, <1>4, ServerAssumption DEF PeerEvent

\* What the peer sends.
LEMMA TypePeer ==
    ASSUME TypeInv, NEW s \in Sids, NEW k \in PeerEvents, PeerEvent(s, k)
    PROVE  TypeInv'
    <1>1. PICK p \in PacketIds : Broadcast(s, k, p)
        BY PeerFacts
    <1>2. /\ k \in Packets \cup {"close"} /\ peer' \in [Sids -> -1 .. MaxPeerEvents]
          /\ UNCHANGED <<clients, ready, transport, hand, events, loop, control, known, passed>>
        BY PeerFacts
    <1>3. /\ tevents' \in [Sids -> Seq(TransportEvent)] /\ lagged' \in [Sids -> BOOLEAN]
          /\ sent' \in [Sids -> Seq(PacketIds)] /\ Len(tevents'[s]) <= TransportCap
          /\ \A x \in Sids \ {s} : tevents'[x] = tevents[x]
        BY <1>1, <1>2, BroadcastFacts DEF TypeInv
    <1> QED
        BY <1>2, <1>3 DEF TypeInv, SocketsInv, ChannelInv, ControlInv, control

\* The steps of the system, one by one.
LEMMA NextIs ==
    ASSUME [Next]_vars
    PROVE  \/ \E r \in Requests : Arrive(r) \/ RequestStep(r) \/ Handshake(r)
           \/ \E t \in Users : ServerSend(t) \/ CloseSocket(t)
           \/ \E t \in Tasks : SendPacket(t)
           \/ \E s \in Sids : SubscriberStep(s)
           \/ \E s \in Sids, k \in PeerEvents : PeerEvent(s, k)
           \/ EventLoop \/ TrySubscribe
           \/ UNCHANGED vars
    BY DEF Next, TaskStep

\* TypeInv is inductive by itself.
LEMMA TypeNext ==
    ASSUME TypeInv, [Next]_vars
    PROVE  TypeInv'
    <1>1. CASE UNCHANGED vars
        BY <1>1 DEF vars, TypeInv, SocketsInv, ChannelInv, ControlInv, sockets, control, history
    <1> QED
        BY <1>1, NextIs, TypeArrive, TypeRequest, TypeHandshake, TypeUser, TypeSend,
           TypeSubscriber, TypePeer, TypeLoop

\* No socket exists and no task has begun.
LEMMA TypeInit ==
    ASSUME Init
    PROVE  TypeInv
    <1>1. TransportCap \in Nat /\ EventCap \in Nat /\ MaxPeerEvents \in Nat
        BY ServerAssumption
    <1>2. \A S : <<>> \in Seq(S) /\ Len(<<>>) = 0
        OBVIOUS
    <1>3. SocketsInv
        BY <1>1, <1>2 DEF Init, SocketsInv, MaybePacket, NoPacket
    <1>4. ChannelInv
        BY <1>1, <1>2 DEF Init, ChannelInv
    <1>5. ControlInv
        BY <1>2, TaskFacts DEF Init, ControlInv, Labels, Replies, HandshakeSteps, SendSteps,
                               SubscriberSteps, WithSocket, WithSid, Found, Stopped
    <1> QED
        BY <1>3, <1>4, <1>5 DEF TypeInv

\* Every variable keeps its type and no channel exceeds its capacity, however
\* many connections send events at once.
THEOREM TypeCorrect == Spec => []TypeOK
    <1>1. TypeInv => TypeOK
        <2> SUFFICES ASSUME TypeInv
                     PROVE  TypeOK
            OBVIOUS
        <2>0. events \in Seq(SocketEvent) /\ DOMAIN events = 1 .. Len(events)
            BY DEF TypeInv, ChannelInv
        <2>1. \A i \in DOMAIN events : events[i].sid \in Sids
            <3> SUFFICES ASSUME NEW i \in 1 .. Len(events)
                         PROVE  events[i].sid \in Sids
                BY <2>0
            <3>1. events[i] \in SocketEvent
                BY <2>0
            <3> QED
                BY <3>1 DEF SocketEvent
        <2> QED
            BY <2>1 DEF TypeInv, SocketsInv, ChannelInv, ControlInv, TypeOK
    <1>2. Init => TypeInv
        BY TypeInit
    <1>3. TypeInv /\ [Next]_vars => TypeInv'
        BY TypeNext
    <1> QED
        BY <1>1, <1>2, <1>3, PTL DEF Spec

-------------------------------------------------------------------------------
(* Whose socket it is *)

\* The steps of a handshake before the socket has its subscriber.
Opening == {"open", "open_event", "initial", "subscribe"} \cup SendSteps

\* Nothing concerns an id that was not given out.
BornInv ==
    \A s \in Sids : ready[s] = "unborn" =>
        /\ s \notin clients /\ s \notin known /\ loop # s
        /\ pc[s] = "idle" /\ transport[s] = "none"
        /\ \A t \in Requests \cup Users : sid[t] # s
        /\ \A i \in 1 .. Len(events) : events[i].sid # s

\* A handshake has a socket of its own, which nobody feeds until it subscribes.
OwnInv ==
    \A r \in Requests :
        /\ pc[r] \in Opening =>
              /\ pc[sid[r]] = "idle"
              /\ pc[r] # "open" => ready[sid[r]] = "Open"
              /\ \A q \in Requests \ {r} : pc[q] \in Opening => sid[q] # sid[r]
        /\ pc[r] \in {"respond", "connection"} => pc[sid[r]] # "idle"

\* A subscriber that has not started has caused nothing, one that has was
\* given an open socket.
IdleInv ==
    \A s \in Sids :
        /\ pc[s] # "idle" => ready[s] \in {"Open", "Closed"}
        /\ pc[s] = "idle" =>
              /\ tevents[s] = <<>> /\ ~lagged[s] /\ ready[s] # "Closed"
              /\ sent[s] = <<>> /\ passed[s] = <<>> /\ loop # s
              /\ \A i \in 1 .. Len(events) : events[i].sid = s =>
                    events[i].kind \notin {"message", "close", "heartbeat"}

SocketInv == BornInv /\ OwnInv /\ IdleInv

\* The only event that a step puts into the channel is one of t, at the end.
Adds(t, k) ==
    /\ Len(events') >= Len(events)
    /\ \A i \in 1 .. Len(events') :
          \/ i <= Len(events) /\ events'[i] = events[i]
          \/ i = Len(events) + 1 /\ events'[i].sid = sid[t] /\ events'[i].kind = k

\* A step that appends one event adds that event and moves no other.
LEMMA AddsFacts ==
    ASSUME TypeInv, NEW t \in Tasks, NEW k \in EventKinds,
           \/ UNCHANGED events
           \/ \E p \in MaybePacket :
                 events' = Append(events, [kind |-> k, sid |-> sid[t], packet |-> p])
                 /\ sid[t] \in Sids
    PROVE  Adds(t, k)
    <1>1. events \in Seq(SocketEvent) /\ Len(events) \in Nat
        BY DEF TypeInv, ChannelInv
    <1>2. CASE UNCHANGED events
        BY <1>1, <1>2 DEF Adds
    <1>3. ASSUME NEW p \in MaybePacket, sid[t] \in Sids,
                 events' = Append(events, [kind |-> k, sid |-> sid[t], packet |-> p])
          PROVE  Adds(t, k)
        <2> DEFINE e == [kind |-> k, sid |-> sid[t], packet |-> p]
        <2>1. e \in SocketEvent /\ e.kind = k /\ e.sid = sid[t]
            BY <1>3 DEF SocketEvent
        <2> HIDE DEF e
        <2>2. /\ Len(events') = Len(events) + 1 /\ events'[Len(events) + 1] = e
              /\ \A i \in 1 .. Len(events) : events'[i] = events[i]
            BY <1>1, <1>3, <2>1 DEF e
        <2> QED
            BY <1>1, <2>1, <2>2 DEF Adds
    <1> QED
        BY <1>2, <1>3

\* The sockets that tasks work on exist.
LEMMA BornFacts ==
    ASSUME TypeInv, SocketInv, NEW t \in Tasks, sid[t] \in Sids, t \in Sids => pc[t] # "idle"
    PROVE  ready[sid[t]] # "unborn"
    <1>1. CASE t \in Sids
        BY <1>1 DEF SocketInv, BornInv, TypeInv, ControlInv
    <1>2. CASE t \in Requests \cup Users
        BY <1>2 DEF SocketInv, BornInv
    <1> QED
        BY <1>1, <1>2 DEF Tasks

\* The steps of one task that create, open, feed and close no socket.
LEMMA SocketMove ==
    ASSUME TypeInv, TypeInv', SocketInv, NEW t \in Tasks, NEW l, Goto(t, l),
           NEW k \in EventKinds, Adds(t, k), events' = events \/ sid[t] \in Sids,
           UNCHANGED <<ready, transport, tevents, lagged, loop, sid, sent>>,
           clients' \subseteq clients,
           known' \subseteq known \cup (IF sid[t] \in Sids THEN {sid[t]} ELSE {}),
           \/ UNCHANGED passed
           \/ /\ sid[t] \in Sids /\ pc[sid[t]] # "idle"
              /\ \A x \in Sids \ {sid[t]} : passed'[x] = passed[x],
           k \in {"message", "close", "heartbeat"} /\ sid[t] \in Sids => pc[sid[t]] # "idle",
           t \in Requests =>
              /\ l \in Opening => pc[t] \in Opening /\ pc[t] # "open" /\ l # "open"
              /\ l \in {"respond", "connection"} => pc[t] \in {"respond", "connection"},
           t \in Sids => pc[t] # "idle" /\ l # "idle"
    PROVE  SocketInv'
    <1>1. pc'[t] = l /\ \A u \in Tasks \ {t} : pc'[u] = pc[u]
        BY GotoFacts DEF TypeInv
    <1>2. sid[t] \in Sids => ready[sid[t]] # "unborn"
        BY BornFacts
    <1>3. \A s \in Sids : pc'[s] = pc[s] \/ (s = t /\ pc[s] # "idle" /\ pc'[s] # "idle")
        BY <1>1, TaskFacts
    <1>4. \A s \in Sids : (pc'[s] = "idle") <=> (pc[s] = "idle")
        BY <1>3
    <1>5. \A i \in 1 .. Len(events') :
             \/ i \in 1 .. Len(events) /\ events'[i] = events[i]
             \/ events'[i].sid = sid[t] /\ events'[i].kind = k /\ sid[t] \in Sids
        <2>1. Len(events) \in Nat /\ Len(events') \in Nat
            BY DEF TypeInv, ChannelInv
        <2> QED
            BY <2>1 DEF Adds
    <1>6. BornInv'
        <2> SUFFICES ASSUME NEW s \in Sids, ready[s] = "unborn"
                     PROVE  /\ s \notin clients' /\ s \notin known' /\ loop # s
                            /\ pc'[s] = "idle" /\ transport[s] = "none"
                            /\ \A u \in Requests \cup Users : sid[u] # s
                            /\ \A i \in 1 .. Len(events') : events'[i].sid # s
            BY DEF BornInv
        <2>1. /\ s \notin clients /\ s \notin known /\ loop # s
              /\ pc[s] = "idle" /\ transport[s] = "none"
              /\ \A u \in Requests \cup Users : sid[u] # s
              /\ \A i \in 1 .. Len(events) : events[i].sid # s
            BY DEF SocketInv, BornInv
        <2>2. sid[t] # s \/ sid[t] \notin Sids
            BY <1>2
        <2> QED
            BY <1>4, <1>5, <2>1, <2>2
    <1>7. OwnInv'
        <2> SUFFICES ASSUME NEW r \in Requests
                     PROVE  /\ pc'[r] \in Opening =>
                                  /\ pc'[sid[r]] = "idle"
                                  /\ pc'[r] # "open" => ready[sid[r]] = "Open"
                                  /\ \A q \in Requests \ {r} : pc'[q] \in Opening => sid[q] # sid[r]
                            /\ pc'[r] \in {"respond", "connection"} => pc'[sid[r]] # "idle"
            BY DEF OwnInv
        <2>1. /\ pc[r] \in Opening =>
                   /\ pc[sid[r]] = "idle"
                   /\ pc[r] # "open" => ready[sid[r]] = "Open"
                   /\ \A q \in Requests \ {r} : pc[q] \in Opening => sid[q] # sid[r]
              /\ pc[r] \in {"respond", "connection"} => pc[sid[r]] # "idle"
            BY DEF SocketInv, OwnInv
        <2>2. \A q \in Requests :
                /\ pc'[q] \in Opening => pc[q] \in Opening
                /\ pc'[q] \in Opening /\ pc'[q] # "open" => pc[q] # "open"
                /\ pc'[q] \in {"respond", "connection"} => pc[q] \in {"respond", "connection"}
            BY <1>1, TaskFacts
        <2>3. pc[r] \in Opening \cup {"respond", "connection"} => sid[r] \in Sids
            BY DEF TypeInv, ControlInv, Opening, WithSocket, HandshakeSteps
        <2> QED
            BY <1>4, <2>1, <2>2, <2>3
    <1>8. IdleInv'
        <2> SUFFICES ASSUME NEW s \in Sids
                     PROVE  /\ pc'[s] # "idle" => ready[s] \in {"Open", "Closed"}
                            /\ pc'[s] = "idle" =>
                                 /\ tevents[s] = <<>> /\ ~lagged[s] /\ ready[s] # "Closed"
                                 /\ sent[s] = <<>> /\ passed'[s] = <<>> /\ loop # s
                                 /\ \A i \in 1 .. Len(events') : events'[i].sid = s =>
                                       events'[i].kind \notin {"message", "close", "heartbeat"}
            BY DEF IdleInv
        <2>1. /\ pc[s] # "idle" => ready[s] \in {"Open", "Closed"}
              /\ pc[s] = "idle" =>
                    /\ tevents[s] = <<>> /\ ~lagged[s] /\ ready[s] # "Closed"
                    /\ sent[s] = <<>> /\ passed[s] = <<>> /\ loop # s
                    /\ \A i \in 1 .. Len(events) : events[i].sid = s =>
                          events[i].kind \notin {"message", "close", "heartbeat"}
            BY DEF SocketInv, IdleInv
        <2>2. pc[s] = "idle" => passed'[s] = passed[s]
            OBVIOUS
        <2> QED
            BY <1>4, <1>5, <2>1, <2>2
    <1> QED
        BY <1>6, <1>7, <1>8 DEF SocketInv

\* Requests and users that start on a socket whose id they know.
LEMMA SocketStart ==
    ASSUME TypeInv, SocketInv, NEW t \in Requests \cup Users, NEW l, Goto(t, l),
           NEW x \in known \cup {NoSid}, sid' = [sid EXCEPT ![t] = x],
           UNCHANGED <<clients, sockets, events, loop, history>>,
           l \notin Opening \cup {"respond", "connection"} \/ t \in Users
    PROVE  SocketInv'
    <1>1. /\ t \in Tasks /\ t \notin Sids
          /\ pc'[t] = l /\ \A u \in Tasks \ {t} : pc'[u] = pc[u]
        BY GotoFacts, TaskFacts DEF TypeInv
    <1>2. sid'[t] = x /\ \A u \in Tasks \ {t} : sid'[u] = sid[u]
        BY <1>1 DEF TypeInv, ControlInv
    <1>3. \A s \in Sids : pc'[s] = pc[s]
        BY <1>1, TaskFacts
    <1>4. \A r \in Requests : pc'[r] \in Opening \cup {"respond", "connection"} =>
             r # t /\ pc'[r] = pc[r] /\ sid'[r] = sid[r] /\ sid[r] \in Sids
        BY <1>1, <1>2, TaskFacts DEF TypeInv, ControlInv, Opening, WithSocket, HandshakeSteps
    <1>5. BornInv'
        BY <1>1, <1>2, <1>3, TaskFacts DEF SocketInv, BornInv, sockets, history
    <1>6. OwnInv'
        BY <1>3, <1>4 DEF SocketInv, OwnInv, sockets
    <1>7. IdleInv'
        BY <1>3 DEF SocketInv, IdleInv, sockets, history
    <1> QED
        BY <1>5, <1>6, <1>7 DEF SocketInv

\* A handshake takes an id that nothing refers to.
LEMMA SocketNew ==
    ASSUME TypeInv, SocketInv, NEW r \in Requests, NewSocket(r)
    PROVE  SocketInv'
    <1>1. PICK s \in Sids :
            /\ ready[s] = "unborn" /\ clients' = clients \cup {s}
            /\ ready' = [ready EXCEPT ![s] = "Opening"]
            /\ \E k \in {"websocket", "polling"} : transport' = [transport EXCEPT ![s] = k]
            /\ sid' = [sid EXCEPT ![r] = s] /\ Goto(r, "open")
            /\ UNCHANGED <<tevents, hand, lagged, peer, events, loop, ret, request, unsent, history>>
        BY DEF NewSocket, IsNext
    <1>2. /\ r \in Tasks /\ r \notin Sids
          /\ pc'[r] = "open" /\ \A u \in Tasks \ {r} : pc'[u] = pc[u]
        BY <1>1, GotoFacts, TaskFacts DEF TypeInv
    <1>3. sid'[r] = s /\ \A u \in Tasks \ {r} : sid'[u] = sid[u]
        BY <1>1, <1>2 DEF TypeInv, ControlInv
    <1>4. ready'[s] = "Opening" /\ \A x \in Sids \ {s} :
             ready'[x] = ready[x] /\ transport'[x] = transport[x]
        BY <1>1 DEF TypeInv, SocketsInv
    <1>5. \A x \in Sids : pc'[x] = pc[x]
        BY <1>2, TaskFacts
    <1>6. pc[s] = "idle" /\ \A q \in Requests : sid[q] # s
        BY <1>1 DEF SocketInv, BornInv
    <1>7. \A q \in Requests : pc[q] \in Opening \cup {"respond", "connection"} => sid[q] \in Sids
        BY DEF TypeInv, ControlInv, Opening, WithSocket, HandshakeSteps
    <1>8. BornInv'
        BY <1>1, <1>2, <1>3, <1>4, <1>5, TaskFacts DEF SocketInv, BornInv, history
    <1>9. OwnInv'
        <2>1. \A q \in Requests \ {r} : pc'[q] = pc[q] /\ sid'[q] = sid[q]
            BY <1>2, <1>3, TaskFacts
        <2>2. "open" \notin {"respond", "connection"}
            OBVIOUS
        <2> QED
            BY <1>2, <1>3, <1>4, <1>5, <1>6, <1>7, <2>1, <2>2 DEF SocketInv, OwnInv
    <1>10. IdleInv'
        <2>1. \A x \in Sids :
                /\ pc[x] # "idle" => ready'[x] = ready[x]
                /\ ready'[x] = "Closed" => ready[x] = "Closed"
            BY <1>4, <1>6
        <2> QED
            BY <1>1, <1>5, <2>1 DEF SocketInv, IdleInv, history
    <1> QED
        BY <1>8, <1>9, <1>10 DEF SocketInv

\* The handshake opens its own socket.
LEMMA SocketOpen ==
    ASSUME TypeInv, SocketInv, NEW r \in Requests, Open(r)
    PROVE  SocketInv'
    <1> DEFINE s == sid[r]
    <1>1. /\ pc[r] = "open" /\ s \in Sids /\ ready' = [ready EXCEPT ![s] = "Open"]
          /\ UNCHANGED <<clients, transport, tevents, lagged, events, loop, sid, history>>
          /\ Goto(r, "send") \/ Goto(r, "panicked")
        BY DEF Open, CallSend, TypeInv, ControlInv, WithSocket, HandshakeSteps
    <1>2. /\ r \in Tasks /\ r \notin Sids
          /\ pc'[r] \in {"send", "panicked"} /\ \A u \in Tasks \ {r} : pc'[u] = pc[u]
        BY <1>1, GotoFacts, TaskFacts DEF TypeInv
    <1>3. ready'[s] = "Open" /\ \A x \in Sids \ {s} : ready'[x] = ready[x]
        BY <1>1 DEF TypeInv, SocketsInv
    <1>4. \A x \in Sids : pc'[x] = pc[x]
        BY <1>2, TaskFacts
    <1>5. \A q \in Requests : pc[q] \in Opening \cup {"respond", "connection"} => sid[q] \in Sids
        BY DEF TypeInv, ControlInv, Opening, WithSocket, HandshakeSteps
    <1>6. /\ pc[s] = "idle"
          /\ \A q \in Requests \ {r} : pc[q] \in Opening => sid[q] # s
        BY <1>1 DEF SocketInv, OwnInv, Opening
    <1> HIDE DEF s
    <1>7. BornInv'
        BY <1>1, <1>3, <1>4 DEF SocketInv, BornInv, history
    <1>8. OwnInv'
        <2>1. \A q \in Requests \ {r} : pc'[q] = pc[q] /\ sid'[q] = sid[q]
            BY <1>1, <1>2, TaskFacts
        <2>2. sid'[r] = s
            BY <1>1 DEF s
        <2> QED
            BY <1>1, <1>2, <1>3, <1>4, <1>5, <1>6, <2>1, <2>2 DEF SocketInv, OwnInv
    <1>9. IdleInv'
        <2>1. \A x \in Sids : ready'[x] = ready[x] \/ (pc[x] = "idle" /\ ready'[x] = "Open")
            BY <1>3, <1>6
        <2> QED
            BY <1>1, <1>4, <2>1 DEF SocketInv, IdleInv, history
    <1> QED
        BY <1>7, <1>8, <1>9 DEF SocketInv

\* The subscriber starts at an open socket.
LEMMA SocketSubscribe ==
    ASSUME TypeInv, SocketInv, NEW r \in Requests, Subscribe(r)
    PROVE  SocketInv'
    <1> DEFINE s == sid[r]
    <1>1. /\ pc[r] = "subscribe" /\ s \in Sids
          /\ pc' = [pc EXCEPT ![r] = "respond", ![s] = "recv"]
          /\ UNCHANGED <<clients, sockets, events, loop, sid, history>>
        BY DEF Subscribe, TypeInv, ControlInv, WithSocket, HandshakeSteps
    <1>2. /\ r \in Tasks /\ r \notin Sids
          /\ pc'[r] = "respond" /\ pc'[s] = "recv"
          /\ \A u \in Tasks \ {r, s} : pc'[u] = pc[u]
        BY <1>1, TaskFacts DEF TypeInv, ControlInv
    <1>3. /\ pc[s] = "idle" /\ ready[s] = "Open"
          /\ \A q \in Requests \ {r} : pc[q] \in Opening => sid[q] # s
        BY <1>1 DEF SocketInv, OwnInv, Opening
    <1>4. \A x \in Sids \ {s} : pc'[x] = pc[x]
        BY <1>2, TaskFacts
    <1>5. \A q \in Requests \ {r} : pc'[q] = pc[q]
        BY <1>1, <1>2, TaskFacts
    <1>6. \A q \in Requests : pc[q] \in Opening \cup {"respond", "connection"} => sid[q] \in Sids
        BY DEF TypeInv, ControlInv, Opening, WithSocket, HandshakeSteps
    <1>7. "respond" \notin Opening
        BY DEF Opening, SendSteps
    <1>8. sid[r] = s
        OBVIOUS
    <1> HIDE DEF s
    <1>9. BornInv'
        BY <1>1, <1>3, <1>4 DEF SocketInv, BornInv, sockets, history
    <1>10. OwnInv'
        <2>1. UNCHANGED <<ready, sid>>
            BY <1>1 DEF sockets
        <2>2. ASSUME NEW q \in Requests \ {r}
              PROVE  /\ pc'[q] \in Opening =>
                          /\ pc'[sid[q]] = "idle"
                          /\ pc'[q] # "open" => ready[sid[q]] = "Open"
                          /\ \A z \in Requests \ {q} : pc'[z] \in Opening => sid[z] # sid[q]
                     /\ pc'[q] \in {"respond", "connection"} => pc'[sid[q]] # "idle"
            BY <1>2, <1>3, <1>4, <1>5, <1>6, <1>7 DEF SocketInv, OwnInv
        <2>3. /\ pc'[r] \notin Opening
              /\ pc'[r] \in {"respond", "connection"} => pc'[sid[r]] # "idle"
            BY <1>2, <1>7, <1>8
        <2> QED
            BY <2>1, <2>2, <2>3 DEF OwnInv
    <1>11. IdleInv'
        BY <1>1, <1>2, <1>3, <1>4 DEF SocketInv, IdleInv, sockets, history
    <1> QED
        BY <1>9, <1>10, <1>11 DEF SocketInv

\* What is broadcast for a socket, and received by its subscriber.
LEMMA SocketFed ==
    ASSUME TypeInv, SocketInv, NEW s \in Sids, pc[s] # "idle",
           UNCHANGED <<clients, events, loop, sid, history>> \/
           (UNCHANGED <<clients, events, loop, sid, known, passed>>
               /\ \A x \in Sids \ {s} : sent'[x] = sent[x]),
           pc' = pc \/ \E l : Goto(s, l) /\ l # "idle",
           \A x \in Sids \ {s} : tevents'[x] = tevents[x] /\ lagged'[x] = lagged[x],
           UNCHANGED ready \/ ready' = [ready EXCEPT ![s] = "Closed"],
           UNCHANGED transport \/ transport' = [transport EXCEPT ![s] = "none"]
    PROVE  SocketInv'
    <1>1. UNCHANGED <<clients, events, loop, sid, known, passed>>
          /\ \A x \in Sids \ {s} : sent'[x] = sent[x]
        BY DEF history
    <1>2. pc'[s] # "idle" /\ \A u \in Tasks \ {s} : pc'[u] = pc[u]
        BY GotoFacts, TaskFacts DEF TypeInv
    <1>3. \A x \in Sids \ {s} : ready'[x] = ready[x] /\ transport'[x] = transport[x]
        BY DEF TypeInv, SocketsInv
    <1>4. ready[s] \in {"Open", "Closed"} /\ ready'[s] \in {"Open", "Closed"}
        BY DEF SocketInv, IdleInv, TypeInv, SocketsInv
    <1>5. (\A x \in Sids \ {s} : pc'[x] = pc[x]) /\ \A q \in Requests : pc'[q] = pc[q]
        BY <1>2, TaskFacts
    <1>6. \A q \in Requests : pc[q] \in Opening \cup {"respond", "connection"} => sid[q] \in Sids
        BY DEF TypeInv, ControlInv, Opening, WithSocket, HandshakeSteps
    <1>7. BornInv'
        BY <1>1, <1>3, <1>4, <1>5 DEF SocketInv, BornInv
    <1>8. OwnInv'
        BY <1>1, <1>2, <1>3, <1>5, <1>6 DEF SocketInv, OwnInv
    <1>9. IdleInv'
        BY <1>1, <1>2, <1>3, <1>4, <1>5 DEF SocketInv, IdleInv
    <1> QED
        BY <1>7, <1>8, <1>9 DEF SocketInv

\* The loop removes, and otherwise only forwards.
LEMMA SocketLoop ==
    ASSUME TypeInv, SocketInv, EventLoop \/ TrySubscribe
    PROVE  SocketInv'
    <1>1. ASSUME NEW s \in Sids, ready[s] # "unborn",
                 loop' # loop => loop' = "recv" \/ (loop' = s /\ pc[s] # "idle"),
                 loop' = s => pc[s] # "idle",
                 \A x \in Sids \ {s} : passed'[x] = passed[x],
                 pc[s] = "idle" => passed'[s] = passed[s],
                 clients' \subseteq clients, known' \subseteq known \cup {s},
                 \A i \in 1 .. Len(events') : \E j \in 1 .. Len(events) : events'[i] = events[j],
                 UNCHANGED <<sockets, control, sent>>
          PROVE  SocketInv'
        <2>1. BornInv'
            <3>1. UNCHANGED <<ready, transport, pc, sid>>
                BY <1>1 DEF sockets, control
            <3> SUFFICES ASSUME NEW x \in Sids, ready[x] = "unborn"
                         PROVE  /\ x \notin clients' /\ x \notin known' /\ loop' # x
                                /\ pc[x] = "idle" /\ transport[x] = "none"
                                /\ \A t \in Requests \cup Users : sid[t] # x
                                /\ \A i \in 1 .. Len(events') : events'[i].sid # x
                BY <3>1 DEF BornInv
            <3>2. /\ x \notin clients /\ x \notin known /\ loop # x
                  /\ pc[x] = "idle" /\ transport[x] = "none"
                  /\ \A t \in Requests \cup Users : sid[t] # x
                  /\ \A i \in 1 .. Len(events) : events[i].sid # x
                BY DEF SocketInv, BornInv
            <3>3. loop' # x
                BY <1>1, <3>2, LoopPlaces
            <3>4. \A i \in 1 .. Len(events') : events'[i].sid # x
                BY <1>1, <3>2
            <3> QED
                BY <1>1, <3>2, <3>3, <3>4
        <2>2. OwnInv'
            BY <1>1 DEF SocketInv, OwnInv, sockets, control
        <2>3. IdleInv'
            <3>1. UNCHANGED <<ready, pc, tevents, lagged, sent>>
                BY <1>1 DEF sockets, control
            <3> SUFFICES ASSUME NEW x \in Sids, pc[x] = "idle"
                         PROVE  /\ passed'[x] = <<>> /\ loop' # x
                                /\ \A i \in 1 .. Len(events') : events'[i].sid = x =>
                                      events'[i].kind \notin {"message", "close", "heartbeat"}
                BY <3>1 DEF SocketInv, IdleInv
            <3>2. /\ passed[x] = <<>> /\ loop # x
                  /\ \A i \in 1 .. Len(events) : events[i].sid = x =>
                        events[i].kind \notin {"message", "close", "heartbeat"}
                BY DEF SocketInv, IdleInv
            <3>3. loop' # x
                BY <1>1, <3>2, LoopPlaces
            <3>4. \A i \in 1 .. Len(events') : events'[i].sid = x =>
                      events'[i].kind \notin {"message", "close", "heartbeat"}
                BY <1>1, <3>2
            <3> QED
                BY <1>1, <3>2, <3>3, <3>4
        <2> QED
            BY <2>1, <2>2, <2>3 DEF SocketInv
    <1>2. CASE LoopRecv
        <2>1. PICK e \in SocketEvent :
                 /\ loop = "recv" /\ events # <<>> /\ e = events[1]
                 /\ Len(events') = Len(events) - 1 /\ events' \in Seq(SocketEvent)
                 /\ \A i \in 1 .. Len(events') : events'[i] = events[i + 1]
                 /\ loop' = IF e.kind = "close" THEN e.sid ELSE "recv"
                 /\ \/ e.kind \in {"flush", "drain", "message"} /\ Forward(e.kind, e.sid, e.packet)
                    \/ e.kind \notin {"flush", "drain", "message"} /\ UNCHANGED passed
                 /\ UNCHANGED <<clients, sockets, control, known, sent>>
            BY <1>2, LoopFacts
        <2>2. e.sid \in Sids /\ e.kind \in EventKinds /\ e.packet \in MaybePacket
            BY DEF SocketEvent
        <2>3. events \in Seq(SocketEvent) /\ Len(events) \in Nat /\ 1 \in 1 .. Len(events)
            BY <2>1 DEF TypeInv, ChannelInv
        <2>4. ready[e.sid] # "unborn"
            BY <2>1, <2>2, <2>3 DEF SocketInv, BornInv
        <2>5. e.kind \in {"message", "close"} => pc[e.sid] # "idle"
            BY <2>1, <2>2, <2>3 DEF SocketInv, IdleInv
        <2>6. /\ \A x \in Sids \ {e.sid} : passed'[x] = passed[x]
              /\ e.kind # "message" => passed'[e.sid] = passed[e.sid]
              /\ known' \subseteq known \cup {e.sid}
            BY <2>1, <2>2, ForwardFacts DEF TypeInv
        <2>7. \A i \in 1 .. Len(events') : \E j \in 1 .. Len(events) : events'[i] = events[j]
            <3>1. \A i \in 1 .. Len(events') : i + 1 \in 1 .. Len(events)
                BY <2>1, <2>3
            <3> QED
                BY <2>1, <3>1
        <2>8. loop' = IF e.kind = "close" THEN e.sid ELSE "recv"
            BY <2>1
        <2>9. (loop' # loop => loop' = "recv" \/ (loop' = e.sid /\ pc[e.sid] # "idle"))
              /\ (loop' = e.sid => pc[e.sid] # "idle")
            BY <2>2, <2>5, <2>8, LoopPlaces
        <2>10. pc[e.sid] = "idle" => passed'[e.sid] = passed[e.sid]
            BY <2>5, <2>6
        <2> QED
            BY <1>1, <2>1, <2>2, <2>4, <2>6, <2>7, <2>9, <2>10
    <1>3. CASE LoopRemove
        <2>1. /\ loop \in Sids /\ clients' \subseteq clients /\ Forward("close", loop, NoPacket)
              /\ loop' = "recv" /\ UNCHANGED <<sockets, events, control, known, sent>>
              /\ NoPacket \in MaybePacket
            BY <1>3 DEF LoopRemove, TypeInv, ChannelInv, MaybePacket
        <2>2. pc[loop] # "idle" /\ ready[loop] # "unborn"
            BY <2>1 DEF SocketInv, IdleInv
        <2>3. /\ \A x \in Sids \ {loop} : passed'[x] = passed[x]
              /\ known' \subseteq known \cup {loop}
            BY <2>1, ForwardFacts DEF TypeInv, EventKinds
        <2>4. \A i \in 1 .. Len(events') : \E j \in 1 .. Len(events) : events'[i] = events[j]
            BY <2>1
        <2> QED
            BY <1>1, <2>1, <2>2, <2>3, <2>4
    <1>4. CASE TrySubscribe
        <2>1. BornInv'
            BY <1>4, LoopPlaces DEF TrySubscribe, SocketInv, BornInv, sockets, control, history
        <2>2. OwnInv'
            BY <1>4 DEF TrySubscribe, SocketInv, OwnInv, sockets, control
        <2>3. IdleInv'
            BY <1>4, LoopPlaces DEF TrySubscribe, SocketInv, IdleInv, sockets, control, history
        <2> QED
            BY <2>1, <2>2, <2>3 DEF SocketInv
    <1> QED
        BY <1>2, <1>3, <1>4 DEF EventLoop

\* A step that touches neither a socket nor the channel.
LEMMA SocketQuiet ==
    ASSUME TypeInv, TypeInv', SocketInv, NEW t \in Tasks, NEW l, Goto(t, l),
           UNCHANGED <<sockets, events, loop, sid, history>>, clients' \subseteq clients,
           t \in Requests =>
              /\ l \in Opening => pc[t] \in Opening /\ pc[t] # "open" /\ l # "open"
              /\ l \in {"respond", "connection"} => pc[t] \in {"respond", "connection"},
           t \in Sids => pc[t] # "idle" /\ l # "idle"
    PROVE  SocketInv'
    <1>1. Adds(t, "open") /\ "open" \in EventKinds
        BY AddsFacts DEF EventKinds
    <1>2. UNCHANGED <<ready, transport, tevents, lagged, loop, sid, sent, passed, known, events>>
        BY DEF sockets, history
    <1>3. "open" \notin {"message", "close", "heartbeat"}
        OBVIOUS
    <1> QED
        BY <1>1, <1>2, <1>3, SocketMove

\* A step that only sends an event.
LEMMA SocketEmit ==
    ASSUME TypeInv, TypeInv', SocketInv, NEW t \in Tasks, sid[t] \in Sids, NEW l,
           NEW k \in EventKinds, NEW p \in MaybePacket, Emit(t, k, p, l),
           known' \subseteq known \cup {sid[t]},
           k \in {"message", "close", "heartbeat"} => pc[sid[t]] # "idle",
           t \in Requests =>
              /\ l \in Opening => pc[t] \in Opening /\ pc[t] # "open" /\ l # "open"
              /\ l \notin {"respond", "connection"},
           t \in Sids => pc[t] # "idle" /\ l # "idle"
    PROVE  SocketInv'
    <1>1. /\ Goto(t, l) /\ events' = Append(events, [kind |-> k, sid |-> sid[t], packet |-> p])
          /\ UNCHANGED <<clients, ready, transport, tevents, lagged, loop, sid, sent, passed>>
        BY EmitFacts DEF sockets
    <1>2. Adds(t, k)
        BY <1>1, AddsFacts
    <1> QED
        BY <1>1, <1>2, SocketMove

\* A message of the peer reaches only a subscriber that has started.
LEMMA SocketBroadcast ==
    ASSUME TypeInv, SocketInv, NEW s \in Sids, NEW k \in Packets \cup {"close"},
           NEW p \in PacketIds, Broadcast(s, k, p),
           UNCHANGED <<clients, ready, transport, pc, events, loop, sid, known, passed>>
    PROVE  SocketInv'
    <1>1. CASE UNCHANGED <<tevents, lagged, sent>>
        BY <1>1 DEF SocketInv, BornInv, OwnInv, IdleInv
    <1>2. CASE Subscribed(s)
        <2>1. pc[s] # "idle"
            BY <1>2 DEF Subscribed
        <2>2. \A x \in Sids \ {s} : tevents'[x] = tevents[x] /\ lagged'[x] = lagged[x]
                                    /\ sent'[x] = sent[x]
            BY BroadcastFacts DEF TypeInv
        <2> QED
            BY <2>1, <2>2, SocketFed
    <1> QED
        BY <1>1, <1>2, BroadcastFacts DEF TypeInv

\* The steps of requests.
LEMMA SocketRequest ==
    ASSUME TypeInv, TypeInv', SocketInv, NEW r \in Requests,
           Arrive(r) \/ RequestStep(r) \/ Handshake(r)
    PROVE  SocketInv'
    <1> USE DEF Opening, SendSteps
    <1>0. r \in Tasks /\ r \notin Sids /\ NoPacket \in MaybePacket
        BY TaskFacts DEF MaybePacket
    <1>1. CASE Arrive(r)
        <2>1. PICK q \in HttpRequests[r] :
                /\ q.sid = NoSid \/ q.sid \in known
                /\ \E l \in {"rejected", "panicked", "verify", "handshake"} : Goto(r, l)
                /\ sid' = [sid EXCEPT ![r] = q.sid]
                /\ UNCHANGED <<clients, sockets, events, loop, history>>
            BY <1>1 DEF Arrive, Unless
        <2> QED
            BY <2>1, SocketStart
    <1>2. CASE VerifyRequest(r) \/ GetClient(r) \/ HandlePollingRequest(r)
        <2>1. /\ \E l \in {"BadHandshakeMethod", "handshake", "UnknownSid", "BadRequest", "lookup",
                           "polling", "post", "Unknown"} : Goto(r, l)
              /\ UNCHANGED <<clients, sockets, events, loop, sid, history>>
            BY <1>2 DEF VerifyRequest, GetClient, HandlePollingRequest, Move
        <2> QED
            BY <1>0, <2>1, SocketQuiet
    <1>3. CASE HandleDataRequest(r)
        <2>1. CASE Goto(r, "ok") /\ UNCHANGED <<clients, sockets, events, loop, sid, history>>
            BY <1>0, <2>1, SocketQuiet
        <2>2. CASE unsent[r] # <<>>
            <3> DEFINE p == <<r, Len(request[r].body) - Len(unsent[r]) + 1>>
            <3>1. /\ Broadcast(sid[r], Head(unsent[r]), p)
                  /\ UNCHANGED <<clients, ready, transport, pc, events, loop, sid, known, passed>>
                BY <1>3, <2>2 DEF HandleDataRequest
            <3>2. sid[r] \in Sids /\ Head(unsent[r]) \in Packets /\ p \in PacketIds
                BY <1>3, <2>2, DataFacts DEF HandleDataRequest
            <3> HIDE DEF p
            <3> QED
                BY <3>1, <3>2, SocketBroadcast
        <2> QED
            BY <1>3, <2>1, <2>2 DEF HandleDataRequest, sockets, history
    <1>4. CASE NewSocket(r) \/ Open(r) \/ Subscribe(r)
        BY <1>4, SocketNew, SocketOpen, SocketSubscribe
    <1>5. CASE OpenEvent(r)
        <2>1. sid[r] \in Sids
            BY <1>5 DEF OpenEvent, TypeInv, ControlInv, WithSocket, HandshakeSteps
        <2>2. PICK l \in {"initial", "panicked"} :
                pc[r] = "open_event" /\ Emit(r, "open", NoPacket, l) /\ UNCHANGED known
            BY <1>5 DEF OpenEvent, Unless
        <2> QED
            BY <1>0, <2>1, <2>2, SocketEmit DEF EventKinds
    <1>6. CASE Initial(r)
        <2>1. /\ pc[r] = "initial" /\ \E l \in {"send", "subscribe"} : Goto(r, l)
              /\ UNCHANGED <<clients, sockets, events, loop, sid, history>>
            BY <1>6 DEF Initial, CallSend, Move
        <2> QED
            BY <1>0, <2>1, SocketQuiet
    <1>7. CASE Respond(r)
        <2>1. pc[r] = "respond" /\ sid[r] \in Sids
            BY <1>7 DEF Respond, TypeInv, ControlInv, WithSocket, HandshakeSteps
        <2>2. CASE Move(r, "connection")
            BY <1>0, <2>1, <2>2, SocketQuiet DEF Move
        <2>3. CASE known' = known \cup {sid[r]}
                   /\ \E reply \in {"UnknownSid", "Unknown", "BadRequest"} : Reply(r, reply)
            <3>1. PICK l \in {"ended", "panicked", "UnknownSid", "Unknown", "BadRequest"} : Goto(r, l)
                BY <2>3, AnswerFacts DEF Reply
            <3>2. UNCHANGED <<clients, sockets, events, loop, ret, sid, sent, passed>>
                BY <2>3 DEF Reply
            <3>3. Adds(r, "open") /\ "open" \in EventKinds
                BY <1>0, <3>2, AddsFacts DEF EventKinds
            <3> QED
                BY <1>0, <2>1, <2>3, <3>1, <3>2, <3>3, SocketMove DEF sockets
        <2> QED
            BY <1>7, <2>2, <2>3 DEF Respond
    <1>8. CASE Connection(r)
        <2>1. /\ pc[r] = "connection" /\ sid[r] \in Sids /\ Forward("connection", sid[r], NoPacket)
              /\ Answer(r, "BadRequest")
              /\ UNCHANGED <<clients, sockets, events, loop, ret, sid, request, unsent, known, sent>>
            BY <1>8 DEF Connection, TypeInv, ControlInv, WithSocket, HandshakeSteps
        <2>2. PICK l \in {"ended", "panicked", "BadRequest"} : Goto(r, l)
            BY <2>1, AnswerFacts
        <2>3. known' \subseteq known \cup {sid[r]} /\ \A x \in Sids \ {sid[r]} : passed'[x] = passed[x]
            BY <1>0, <2>1, ForwardFacts DEF TypeInv
        <2>4. pc[sid[r]] # "idle"
            BY <2>1 DEF SocketInv, OwnInv
        <2>5. Adds(r, "open") /\ "open" \in EventKinds
            BY <1>0, <2>1, AddsFacts DEF EventKinds
        <2> QED
            BY <1>0, <2>1, <2>2, <2>3, <2>4, <2>5, SocketMove DEF sockets
    <1> QED
        BY <1>1, <1>2, <1>3, <1>4, <1>5, <1>6, <1>7, <1>8 DEF RequestStep, Handshake

\* The library calls that name a socket.
LEMMA SocketUser ==
    ASSUME TypeInv, TypeInv', SocketInv, NEW t \in Users, ServerSend(t) \/ CloseSocket(t)
    PROVE  SocketInv'
    <1>0. t \in Tasks /\ t \notin Requests \cup Sids
        BY TaskFacts
    <1>1. CASE ServerSend(t)
        <2>1. PICK s \in known :
                /\ sid' = [sid EXCEPT ![t] = s] /\ \E l \in {"send", "ended"} : Goto(t, l)
                /\ UNCHANGED <<clients, sockets, events, loop, history>>
            BY <1>1 DEF ServerSend
        <2> QED
            BY <1>0, <2>1, SocketStart
    <1>2. CASE CloseSocket(t)
        <2>1. /\ \E l \in {"ended", "panicked"} : Goto(t, l)
              /\ clients' \subseteq clients /\ UNCHANGED <<sockets, events, loop, sid, history>>
            BY <1>2 DEF CloseSocket, Unless
        <2> QED
            BY <1>0, <2>1, SocketQuiet
    <1> QED
        BY <1>1, <1>2

\* The steps of send_packet.
LEMMA SocketSend ==
    ASSUME TypeInv, TypeInv', SocketInv, NEW t \in Tasks, SendPacket(t)
    PROVE  SocketInv'
    <1> USE DEF Opening, SendSteps
    <1>1. /\ pc[t] \in SendSteps /\ sid[t] \in Sids
          /\ ret[t] \in {"ended", "heartbeat", "open_event", "subscribe"}
          /\ t \in Requests => ret[t] \in {"open_event", "subscribe"}
        BY RetFacts DEF SendPacket, Send, FlushEvent, DrainEvent, TypeInv
    <1>2. NoPacket \in MaybePacket /\ {"flush", "drain"} \subseteq EventKinds
        BY DEF MaybePacket, EventKinds
    <1>3. CASE Send(t)
        <2>1. \E l \in {"flush_event", ret[t]} : Move(t, l)
            BY <1>3 DEF Send
        <2> QED
            BY <1>1, <2>1, SocketQuiet DEF Move
    <1>4. CASE FlushEvent(t)
        BY <1>1, <1>2, <1>4, SocketEmit DEF FlushEvent
    <1>5. CASE DrainEvent(t)
        BY <1>1, <1>2, <1>5, SocketEmit DEF DrainEvent
    <1> QED
        BY <1>3, <1>4, <1>5 DEF SendPacket

\* The steps of a subscriber.
LEMMA SocketSubscriber ==
    ASSUME TypeInv, TypeInv', SocketInv, NEW s \in Sids, SubscriberStep(s)
    PROVE  SocketInv'
    <1>0. /\ s \in Tasks /\ s \notin Requests \cup Users /\ sid[s] = s
          /\ NoPacket \in MaybePacket /\ hand[s] \in MaybePacket
        BY TaskFacts DEF TypeInv, ControlInv, SocketsInv, MaybePacket
    <1>1. CASE Recv(s)
        <2>1. CASE Move(s, "ended") /\ pc[s] = "recv"
            BY <1>0, <2>1, SocketQuiet DEF Move
        <2>2. CASE ~ lagged[s] /\ tevents[s] # <<>>
            <3>1. /\ pc[s] = "recv"
                  /\ \E l \in {"close_event", "recv", "panicked", "message", "send"} : Goto(s, l)
                  /\ \/ UNCHANGED <<ready, transport>>
                     \/ /\ ready' = [ready EXCEPT ![s] = "Closed"]
                        /\ transport' = [transport EXCEPT ![s] = "none"]
                  /\ tevents' = [tevents EXCEPT ![s] = Tail(@)]
                  /\ UNCHANGED <<clients, lagged, events, loop, sid, history>>
                BY <1>1, <2>2, RecvFacts, Zenon
            <3>2. \A x \in Sids \ {s} : tevents'[x] = tevents[x] /\ lagged'[x] = lagged[x]
                BY <3>1 DEF TypeInv, SocketsInv
            <3> QED
                BY <3>1, <3>2, SocketFed
        <2> QED
            BY <1>1, <2>1, <2>2, RecvFacts
    <1>2. CASE MessageEvent(s)
        BY <1>0, <1>2, SocketEmit DEF MessageEvent, EventKinds
    <1>3. CASE Heartbeat(s)
        BY <1>0, <1>3, SocketEmit DEF Heartbeat, EventKinds
    <1>4. CASE CloseEvent(s)
        BY <1>0, <1>4, SocketEmit DEF CloseEvent, EventKinds
    <1> QED
        BY <1>1, <1>2, <1>3, <1>4 DEF SubscriberStep

\* What the peer sends.
LEMMA SocketPeer ==
    ASSUME TypeInv, SocketInv, NEW s \in Sids, NEW k \in PeerEvents, PeerEvent(s, k)
    PROVE  SocketInv'
    BY PeerFacts, SocketBroadcast DEF control

\* SocketInv is inductive relative to the types.
LEMMA SocketNext ==
    ASSUME TypeInv, TypeInv', SocketInv, [Next]_vars
    PROVE  SocketInv'
    <1>1. CASE UNCHANGED vars
        BY <1>1 DEF vars, SocketInv, BornInv, OwnInv, IdleInv, sockets, control, history
    <1> QED
        BY <1>1, NextIs, SocketRequest, SocketUser, SocketSend, SocketSubscriber, SocketPeer,
           SocketLoop

\* No id was given out.
LEMMA SocketInit ==
    ASSUME Init
    PROVE  SocketInv
    <1>1. Len(<<>>) = 0
        OBVIOUS
    <1>2. /\ \A t \in Requests \cup Users : sid[t] = NoSid
          /\ \A t \in Tasks : pc[t] = "idle"
        BY TaskFacts DEF Init
    <1>3. BornInv
        BY <1>1, <1>2, TaskFacts, LoopPlaces DEF Init, BornInv
    <1>4. OwnInv
        BY <1>2, TaskFacts DEF OwnInv, Opening, SendSteps
    <1>5. IdleInv
        BY <1>1, <1>2, TaskFacts, LoopPlaces DEF Init, IdleInv
    <1> QED
        BY <1>3, <1>4, <1>5 DEF SocketInv

-------------------------------------------------------------------------------
(* Close *)

IsFrom(i, s, kinds) == events[i].sid = s /\ events[i].kind \in kinds

ClosingInv ==
    \A s \in Sids :
        /\ ready[s] = "Closed" => pc[s] \in {"recv", "close_event", "ended"}
        /\ pc[s] = "close_event" => ready[s] = "Closed"
        /\ loop = s => ready[s] = "Closed" /\ pc[s] # "close_event"

\* A Close in the channel is the last that the subscriber put there.
ChannelCloseInv ==
    \A s \in Sids : \A i \in 1 .. Len(events) : IsFrom(i, s, {"close"}) =>
        /\ ready[s] = "Closed" /\ pc[s] # "close_event" /\ loop # s
        /\ \A j \in (i + 1) .. Len(events) : ~ IsFrom(j, s, {"message", "close"})

\* After the Close that the loop has taken there is nothing to pass on.
RemovingInv ==
    \A s \in Sids : loop = s =>
        \A i \in 1 .. Len(events) : ~ IsFrom(i, s, {"message", "close"})

PassedCloseInv ==
    \A s \in Sids : \A i \in 1 .. Len(passed[s]) : passed[s][i][1] = "close" =>
        /\ ready[s] = "Closed" /\ pc[s] # "close_event" /\ loop # s /\ s \notin clients
        /\ \A j \in 1 .. Len(events) : ~ IsFrom(j, s, {"message", "close"})
        /\ \A j \in (i + 1) .. Len(passed[s]) : passed[s][j][1] = "connection"

CloseInv == ClosingInv /\ ChannelCloseInv /\ RemovingInv /\ PassedCloseInv

\* The steps that neither close a socket nor pass on a message or a Close.
LEMMA CloseKeep ==
    ASSUME TypeInv, TypeInv', CloseInv, NEW t \in Tasks,
           NEW k \in EventKinds \ {"message", "close"}, Adds(t, k),
           loop' = loop \/ loop' = "recv",
           \A s \in Sids :
              /\ ready'[s] = "Closed" <=> ready[s] = "Closed"
              /\ ready[s] = "Closed" => pc'[s] = pc[s] \/ pc'[s] \in {"recv", "ended"}
              /\ pc'[s] = "close_event" => pc[s] = "close_event"
              /\ ready[s] = "Closed" /\ s \in clients' => s \in clients
              /\ \/ passed'[s] = passed[s]
                 \/ \E p : passed'[s] = Append(passed[s], <<"connection", p>>)
    PROVE  CloseInv'
    <1>1. Len(events) \in Nat /\ Len(events') \in Nat /\ Len(events') >= Len(events)
        BY DEF TypeInv, ChannelInv, Adds
    <1>2. \A s \in Sids : loop' = s => loop = s
        BY LoopPlaces
    <1>3. \A s \in Sids : \A i \in 1 .. Len(events') : IsFrom(i, s, {"message", "close"})' =>
             i \in 1 .. Len(events) /\ events'[i] = events[i] /\ IsFrom(i, s, {"message", "close"})
        BY <1>1 DEF Adds, IsFrom
    <1>4. \A s \in Sids : \A i \in 1 .. Len(events') : IsFrom(i, s, {"close"})' =>
             i \in 1 .. Len(events) /\ IsFrom(i, s, {"close"})
        BY <1>3 DEF IsFrom
    <1>5. ClosingInv'
        BY <1>2 DEF CloseInv, ClosingInv
    <1>6. ChannelCloseInv'
        <2> SUFFICES ASSUME NEW s \in Sids, NEW i \in 1 .. Len(events'), IsFrom(i, s, {"close"})'
                     PROVE  /\ ready'[s] = "Closed" /\ pc'[s] # "close_event" /\ loop' # s
                            /\ \A j \in (i + 1) .. Len(events') : ~ IsFrom(j, s, {"message", "close"})'
            BY DEF ChannelCloseInv
        <2>1. i \in 1 .. Len(events) /\ IsFrom(i, s, {"close"})
            BY <1>4
        <2>2. /\ ready[s] = "Closed" /\ pc[s] # "close_event" /\ loop # s
              /\ \A j \in (i + 1) .. Len(events) : ~ IsFrom(j, s, {"message", "close"})
            BY <2>1 DEF CloseInv, ChannelCloseInv
        <2>3. ASSUME NEW j \in (i + 1) .. Len(events'), IsFrom(j, s, {"message", "close"})'
              PROVE  FALSE
            <3>1. j \in 1 .. Len(events')
                BY <1>1, <2>1
            <3>2. j \in 1 .. Len(events) /\ IsFrom(j, s, {"message", "close"})
                BY <1>3, <2>3, <3>1
            <3> QED
                BY <1>1, <2>1, <2>2, <3>2
        <2> QED
            BY <1>2, <2>2, <2>3
    <1>7. RemovingInv'
        <2> SUFFICES ASSUME NEW s \in Sids, loop' = s, NEW i \in 1 .. Len(events')
                     PROVE  ~ IsFrom(i, s, {"message", "close"})'
            BY DEF RemovingInv
        <2> QED
            BY <1>2, <1>3 DEF CloseInv, RemovingInv
    <1>8. PassedCloseInv'
        <2> SUFFICES ASSUME NEW s \in Sids, NEW i \in 1 .. Len(passed'[s]),
                            passed'[s][i][1] = "close"
                     PROVE  /\ ready'[s] = "Closed" /\ pc'[s] # "close_event" /\ loop' # s
                            /\ s \notin clients'
                            /\ \A j \in 1 .. Len(events') : ~ IsFrom(j, s, {"message", "close"})'
                            /\ \A j \in (i + 1) .. Len(passed'[s]) :
                                  passed'[s][j][1] = "connection"
            BY DEF PassedCloseInv
        <2>1. passed[s] \in Seq(OwnerEvent) /\ Len(passed[s]) \in Nat
            BY DEF TypeInv, ChannelInv
        <2>2. \A j \in 1 .. Len(passed'[s]) :
                \/ j \in 1 .. Len(passed[s]) /\ passed'[s][j] = passed[s][j]
                \/ passed'[s][j][1] = "connection"
            <3>1. CASE passed'[s] = passed[s]
                BY <3>1
            <3>2. ASSUME NEW p, passed'[s] = Append(passed[s], <<"connection", p>>)
                  PROVE  \A j \in 1 .. Len(passed'[s]) :
                            \/ j \in 1 .. Len(passed[s]) /\ passed'[s][j] = passed[s][j]
                            \/ passed'[s][j][1] = "connection"
                BY <2>1, <3>2
            <3> QED
                BY <3>1, <3>2
        <2>3. i \in 1 .. Len(passed[s]) /\ passed[s][i][1] = "close"
            BY <2>2
        <2>4. /\ ready[s] = "Closed" /\ pc[s] # "close_event" /\ loop # s /\ s \notin clients
              /\ \A j \in 1 .. Len(events) : ~ IsFrom(j, s, {"message", "close"})
              /\ \A j \in (i + 1) .. Len(passed[s]) : passed[s][j][1] = "connection"
            BY <2>3 DEF CloseInv, PassedCloseInv
        <2>5. ASSUME NEW j \in (i + 1) .. Len(passed'[s])
              PROVE  passed'[s][j][1] = "connection"
            <3>1. Len(passed'[s]) \in Nat
                BY DEF TypeInv, ChannelInv
            <3>2. j \in 1 .. Len(passed'[s])
                BY <3>1
            <3>3. CASE j \in 1 .. Len(passed[s]) /\ passed'[s][j] = passed[s][j]
                <4>1. j \in (i + 1) .. Len(passed[s])
                    BY <2>1, <3>1, <3>3
                <4> QED
                    BY <2>4, <3>3, <4>1
            <3> QED
                BY <2>2, <3>2, <3>3
        <2> QED
            BY <1>2, <1>3, <2>4, <2>5
    <1> QED
        BY <1>5, <1>6, <1>7, <1>8 DEF CloseInv

\* The subscriber puts a Message or the Close into the channel.
LEMMA CloseEmit ==
    ASSUME TypeInv, TypeInv', CloseInv, NEW s \in Sids, NEW k \in {"message", "close"},
           Adds(s, k), UNCHANGED <<clients, ready, loop, passed>>, Goto(s, "recv"),
           \/ k = "message" /\ pc[s] = "message"
           \/ k = "close" /\ pc[s] = "close_event"
    PROVE  CloseInv'
    <1>1. s \in Tasks /\ sid[s] = s
        BY TaskFacts DEF TypeInv, ControlInv
    <1>2. /\ pc'[s] = "recv" /\ \A x \in Sids \ {s} : pc'[x] = pc[x]
        BY <1>1, GotoFacts, TaskFacts DEF TypeInv
    <1>3. Len(events) \in Nat /\ Len(events') \in Nat /\ Len(events') >= Len(events)
        BY DEF TypeInv, ChannelInv, Adds
    <1>4. /\ loop # s
          /\ \A i \in 1 .. Len(events) : ~ IsFrom(i, s, {"close"})
          /\ \A i \in 1 .. Len(passed[s]) : passed[s][i][1] # "close"
          /\ k = "close" => ready[s] = "Closed"
          /\ k = "message" => ready[s] # "Closed"
        BY DEF CloseInv, ClosingInv, ChannelCloseInv, PassedCloseInv
    <1>5. \A i \in 1 .. Len(events') :
             \/ i \in 1 .. Len(events) /\ events'[i] = events[i]
             \/ i = Len(events') /\ events'[i].sid = s /\ events'[i].kind = k
        <2>1. \A i \in 1 .. Len(events') : i <= Len(events) => i \in 1 .. Len(events)
            BY <1>3
        <2>2. Len(events') <= Len(events) + 1
            <3>1. CASE Len(events') > Len(events) + 1
                <4>1. Len(events) + 2 \in 1 .. Len(events')
                    BY <1>3, <3>1
                <4> QED
                    BY <1>3, <4>1 DEF Adds
            <3> QED
                BY <1>3, <3>1
        <2> QED
            BY <1>1, <1>3, <2>1, <2>2 DEF Adds
    <1>6. \A x \in Sids \ {s} : \A i \in 1 .. Len(events') :
             /\ IsFrom(i, x, {"message", "close"})' =>
                   i \in 1 .. Len(events) /\ IsFrom(i, x, {"message", "close"})
             /\ IsFrom(i, x, {"close"})' => i \in 1 .. Len(events) /\ IsFrom(i, x, {"close"})
        BY <1>5 DEF IsFrom
    <1>7. ClosingInv'
        BY <1>2, <1>4 DEF CloseInv, ClosingInv
    <1>8. ChannelCloseInv'
        <2> SUFFICES ASSUME NEW x \in Sids, NEW i \in 1 .. Len(events'), IsFrom(i, x, {"close"})'
                     PROVE  /\ ready[x] = "Closed" /\ pc'[x] # "close_event" /\ loop # x
                            /\ \A j \in (i + 1) .. Len(events') : ~ IsFrom(j, x, {"message", "close"})'
            BY DEF ChannelCloseInv
        <2>1. CASE x = s
            <3>1. i = Len(events') /\ k = "close"
                BY <1>4, <1>5, <2>1 DEF IsFrom
            <3> QED
                BY <1>2, <1>3, <1>4, <2>1, <3>1
        <2>2. CASE x # s
            <3>1. i \in 1 .. Len(events) /\ IsFrom(i, x, {"close"})
                BY <1>6, <2>2
            <3>2. /\ ready[x] = "Closed" /\ pc[x] # "close_event" /\ loop # x
                  /\ \A j \in (i + 1) .. Len(events) : ~ IsFrom(j, x, {"message", "close"})
                BY <3>1 DEF CloseInv, ChannelCloseInv
            <3>3. ASSUME NEW j \in (i + 1) .. Len(events'), IsFrom(j, x, {"message", "close"})'
                  PROVE  FALSE
                <4>1. j \in 1 .. Len(events')
                    BY <1>3, <3>1
                <4>2. j \in (i + 1) .. Len(events) /\ IsFrom(j, x, {"message", "close"})
                    BY <1>3, <1>6, <2>2, <3>3, <4>1
                <4> QED
                    BY <3>2, <4>2
            <3> QED
                BY <1>2, <2>2, <3>2, <3>3
        <2> QED
            BY <2>1, <2>2
    <1>9. RemovingInv'
        <2> SUFFICES ASSUME NEW x \in Sids, loop = x, NEW i \in 1 .. Len(events')
                     PROVE  ~ IsFrom(i, x, {"message", "close"})'
            BY DEF RemovingInv
        <2> QED
            BY <1>4, <1>6 DEF CloseInv, RemovingInv
    <1>10. PassedCloseInv'
        <2> SUFFICES ASSUME NEW x \in Sids, NEW i \in 1 .. Len(passed[x]),
                            passed[x][i][1] = "close"
                     PROVE  /\ ready[x] = "Closed" /\ pc'[x] # "close_event" /\ loop # x
                            /\ x \notin clients
                            /\ \A j \in 1 .. Len(events') : ~ IsFrom(j, x, {"message", "close"})'
                            /\ \A j \in (i + 1) .. Len(passed[x]) :
                                  passed[x][j][1] = "connection"
            BY DEF PassedCloseInv
        <2>1. x # s
            BY <1>4
        <2> QED
            BY <1>2, <1>6, <2>1 DEF CloseInv, PassedCloseInv
    <1> QED
        BY <1>7, <1>8, <1>9, <1>10 DEF CloseInv

\* The loop takes an event: the Close of a socket starts its removal, and a
\* Message is passed on, which comes before any Close.
LEMMA CloseLoopRecv ==
    ASSUME TypeInv, TypeInv', CloseInv, LoopRecv
    PROVE  CloseInv'
    <1>1. PICK e \in SocketEvent :
             /\ loop = "recv" /\ events # <<>> /\ e = events[1]
             /\ events' \in Seq(SocketEvent) /\ Len(events') = Len(events) - 1
             /\ \A i \in 1 .. Len(events') : events'[i] = events[i + 1]
             /\ loop' = IF e.kind = "close" THEN e.sid ELSE "recv"
             /\ \/ e.kind \in {"flush", "drain", "message"} /\ Forward(e.kind, e.sid, e.packet)
                \/ e.kind \notin {"flush", "drain", "message"} /\ UNCHANGED passed
             /\ UNCHANGED <<clients, sockets, control, known, sent>>
        BY LoopFacts
    <1>2. /\ e.sid \in Sids /\ e.kind \in EventKinds /\ e.packet \in MaybePacket
          /\ UNCHANGED <<ready, pc, clients>>
        BY <1>1 DEF SocketEvent, sockets, control
    <1>3. Len(events) \in Nat /\ Len(events') \in Nat /\ 1 \in 1 .. Len(events)
        BY <1>1 DEF TypeInv, ChannelInv
    <1>4. \A i \in 1 .. Len(events') : i + 1 \in 1 .. Len(events)
        BY <1>1, <1>3
    <1>5. \A x \in Sids : \A i \in 1 .. Len(events') :
             /\ IsFrom(i, x, {"message", "close"})' => IsFrom(i + 1, x, {"message", "close"})
             /\ IsFrom(i, x, {"close"})' => IsFrom(i + 1, x, {"close"})
        BY <1>1 DEF IsFrom
    <1>6. /\ IsFrom(1, e.sid, {"message", "close"}) <=> e.kind \in {"message", "close"}
          /\ IsFrom(1, e.sid, {"close"}) <=> e.kind = "close"
        BY <1>1 DEF IsFrom
    <1>7. \A x \in Sids : loop' = x => e.kind = "close" /\ e.sid = x
        BY <1>1, LoopPlaces
    <1>8. e.kind = "close" =>
             /\ ready[e.sid] = "Closed" /\ pc[e.sid] # "close_event"
             /\ \A j \in 2 .. Len(events) : ~ IsFrom(j, e.sid, {"message", "close"})
        BY <1>2, <1>3, <1>6 DEF CloseInv, ChannelCloseInv
    <1>9. e.kind = "close" => \A i \in 1 .. Len(events') : ~ IsFrom(i, e.sid, {"message", "close"})'
        <2> SUFFICES ASSUME e.kind = "close", NEW i \in 1 .. Len(events')
                     PROVE  ~ IsFrom(i, e.sid, {"message", "close"})'
            OBVIOUS
        <2>1. i + 1 \in 2 .. Len(events)
            BY <1>3, <1>4
        <2> QED
            BY <1>2, <1>5, <1>8, <2>1
    <1>10. ClosingInv'
        BY <1>2, <1>7, <1>8 DEF CloseInv, ClosingInv
    <1>11. ChannelCloseInv'
        <2> SUFFICES ASSUME NEW x \in Sids, NEW i \in 1 .. Len(events'), IsFrom(i, x, {"close"})'
                     PROVE  /\ ready[x] = "Closed" /\ pc[x] # "close_event" /\ loop' # x
                            /\ \A j \in (i + 1) .. Len(events') : ~ IsFrom(j, x, {"message", "close"})'
            BY <1>2 DEF ChannelCloseInv
        <2>1. i + 1 \in 1 .. Len(events) /\ IsFrom(i + 1, x, {"close"})
            BY <1>4, <1>5
        <2>2. /\ ready[x] = "Closed" /\ pc[x] # "close_event"
              /\ \A j \in ((i + 1) + 1) .. Len(events) : ~ IsFrom(j, x, {"message", "close"})
            BY <2>1 DEF CloseInv, ChannelCloseInv
        <2>3. loop' # x
            BY <1>7, <1>9 DEF IsFrom
        <2>4. ASSUME NEW j \in (i + 1) .. Len(events')
              PROVE  ~ IsFrom(j, x, {"message", "close"})'
            <3>1. j \in 1 .. Len(events') /\ j + 1 \in ((i + 1) + 1) .. Len(events)
                BY <1>1, <1>3
            <3> QED
                BY <1>5, <2>2, <3>1
        <2> QED
            BY <2>2, <2>3, <2>4
    <1>12. RemovingInv'
        BY <1>7, <1>9 DEF RemovingInv
    <1>13. PassedCloseInv'
        <2> SUFFICES ASSUME NEW x \in Sids, NEW i \in 1 .. Len(passed'[x]),
                            passed'[x][i][1] = "close"
                     PROVE  /\ ready[x] = "Closed" /\ pc[x] # "close_event" /\ loop' # x
                            /\ x \notin clients
                            /\ \A j \in 1 .. Len(events') : ~ IsFrom(j, x, {"message", "close"})'
                            /\ \A j \in (i + 1) .. Len(passed'[x]) :
                                  passed'[x][j][1] = "connection"
            BY <1>2 DEF PassedCloseInv
        <2>1. \/ passed'[x] = passed[x]
              \/ /\ x = e.sid /\ e.kind = "message"
                 /\ passed'[x] = Append(passed[x], <<"message", e.packet>>)
            <3>1. CASE UNCHANGED passed
                BY <3>1
            <3>2. CASE Forward(e.kind, e.sid, e.packet) /\ e.kind \in {"flush", "drain", "message"}
                <4>1. CASE x # e.sid
                    BY <1>2, <3>2, <4>1, ForwardFacts DEF TypeInv
                <4>2. CASE x = e.sid /\ e.kind = "message"
                    <5>1. \/ passed'[e.sid] = passed[e.sid]
                          \/ passed'[e.sid] = Append(passed[e.sid], <<e.kind, e.packet>>)
                        BY <1>2, <3>2, ForwardFacts DEF TypeInv
                    <5> QED
                        BY <4>2, <5>1
                <4>3. CASE x = e.sid /\ e.kind # "message"
                    BY <1>2, <3>2, <4>3, ForwardFacts DEF TypeInv
                <4> QED
                    BY <4>1, <4>2, <4>3
            <3> QED
                BY <1>1, <3>1, <3>2
        <2>2. passed[x] \in Seq(OwnerEvent) /\ Len(passed[x]) \in Nat
            BY DEF TypeInv, ChannelInv
        <2>3. i \in 1 .. Len(passed[x]) /\ passed[x][i][1] = "close"
            <3>1. CASE passed'[x] = Append(passed[x], <<"message", e.packet>>)
                <4>1. /\ Len(passed'[x]) = Len(passed[x]) + 1
                      /\ passed'[x][Len(passed[x]) + 1] = <<"message", e.packet>>
                      /\ \A j \in 1 .. Len(passed[x]) : passed'[x][j] = passed[x][j]
                    BY <2>2, <3>1
                <4> QED
                    BY <2>2, <4>1
            <3> QED
                BY <2>1, <3>1
        <2>4. /\ ready[x] = "Closed" /\ pc[x] # "close_event" /\ x \notin clients
              /\ \A j \in 1 .. Len(events) : ~ IsFrom(j, x, {"message", "close"})
              /\ \A j \in (i + 1) .. Len(passed[x]) : passed[x][j][1] = "connection"
            BY <2>3 DEF CloseInv, PassedCloseInv
        <2>5. ~ (x = e.sid /\ e.kind \in {"message", "close"})
            BY <1>3, <1>6, <2>4
        <2>6. passed'[x] = passed[x] /\ loop' # x
            BY <1>7, <2>1, <2>5
        <2>7. \A j \in 1 .. Len(events') : ~ IsFrom(j, x, {"message", "close"})'
            BY <1>4, <1>5, <2>4
        <2> QED
            BY <2>4, <2>6, <2>7
    <1> QED
        BY <1>10, <1>11, <1>12, <1>13 DEF CloseInv

\* The loop removes the socket and passes on the Close.
LEMMA CloseLoopRemove ==
    ASSUME TypeInv, TypeInv', CloseInv, LoopRemove
    PROVE  CloseInv'
    <1> DEFINE s == loop
    <1>1. /\ s \in Sids /\ clients' = clients \ {s} /\ Forward("close", s, NoPacket)
          /\ loop' = "recv" /\ UNCHANGED <<ready, pc, events>> /\ NoPacket \in MaybePacket
        BY DEF LoopRemove, MaybePacket, sockets, control
    <1>2. /\ ready[s] = "Closed" /\ pc[s] # "close_event"
          /\ \A i \in 1 .. Len(events) : ~ IsFrom(i, s, {"message", "close"})
          /\ \A i \in 1 .. Len(passed[s]) : passed[s][i][1] # "close"
        BY <1>1 DEF CloseInv, ClosingInv, RemovingInv, PassedCloseInv
    <1>3. /\ \A x \in Sids \ {s} : passed'[x] = passed[x]
          /\ \/ passed'[s] = Append(passed[s], <<"close", NoPacket>>)
             \/ passed'[s] = passed[s]
        BY <1>1, ForwardFacts DEF TypeInv, EventKinds
    <1>4. \A x \in Sids : loop' # x
        BY <1>1, LoopPlaces
    <1> HIDE DEF s
    <1>5. ClosingInv'
        BY <1>1, <1>4 DEF CloseInv, ClosingInv
    <1>6. ChannelCloseInv'
        BY <1>1, <1>4 DEF CloseInv, ChannelCloseInv, IsFrom
    <1>7. RemovingInv'
        BY <1>4 DEF RemovingInv
    <1>8. PassedCloseInv'
        <2> SUFFICES ASSUME NEW x \in Sids, NEW i \in 1 .. Len(passed'[x]),
                            passed'[x][i][1] = "close"
                     PROVE  /\ ready[x] = "Closed" /\ pc[x] # "close_event" /\ x \notin clients'
                            /\ \A j \in 1 .. Len(events) : ~ IsFrom(j, x, {"message", "close"})
                            /\ \A j \in (i + 1) .. Len(passed'[x]) :
                                  passed'[x][j][1] = "connection"
            BY <1>1, <1>4 DEF PassedCloseInv, IsFrom
        <2>1. CASE x # s
            BY <1>1, <1>3, <2>1 DEF CloseInv, PassedCloseInv
        <2>2. CASE x = s
            <3>1. passed[s] \in Seq(OwnerEvent) /\ Len(passed[s]) \in Nat
                BY <1>1 DEF TypeInv, ChannelInv
            <3>2. i = Len(passed'[s])
                BY <1>2, <1>3, <2>2, <3>1
            <3>3. \A j \in (i + 1) .. Len(passed'[x]) : FALSE
                BY <2>2, <3>1, <3>2
            <3> QED
                BY <1>1, <1>2, <2>2, <3>3
        <2> QED
            BY <2>1, <2>2
    <1> QED
        BY <1>5, <1>6, <1>7, <1>8 DEF CloseInv

\* The subscriber receives the close of an open socket.
LEMMA CloseReceived ==
    ASSUME TypeInv, CloseInv, NEW s \in Sids, ready[s] # "Closed", Goto(s, "close_event"),
           ready' = [ready EXCEPT ![s] = "Closed"], UNCHANGED <<clients, loop, events, passed>>
    PROVE  CloseInv'
    <1>1. /\ pc'[s] = "close_event" /\ \A x \in Sids \ {s} : pc'[x] = pc[x]
        BY GotoFacts, TaskFacts DEF TypeInv
    <1>2. ready'[s] = "Closed" /\ \A x \in Sids \ {s} : ready'[x] = ready[x]
        BY DEF TypeInv, SocketsInv
    <1>3. /\ loop # s
          /\ \A i \in 1 .. Len(events) : ~ IsFrom(i, s, {"close"})
          /\ \A i \in 1 .. Len(passed[s]) : passed[s][i][1] # "close"
        BY DEF CloseInv, ClosingInv, ChannelCloseInv, PassedCloseInv
    <1>4. ClosingInv'
        BY <1>1, <1>2, <1>3 DEF CloseInv, ClosingInv
    <1>5. ChannelCloseInv'
        BY <1>1, <1>2, <1>3 DEF CloseInv, ChannelCloseInv, IsFrom
    <1>6. RemovingInv'
        BY DEF CloseInv, RemovingInv, IsFrom
    <1>7. PassedCloseInv'
        BY <1>1, <1>2, <1>3 DEF CloseInv, PassedCloseInv, IsFrom
    <1> QED
        BY <1>4, <1>5, <1>6, <1>7 DEF CloseInv

\* A step that sends no message and no close.
LEMMA CloseQuiet ==
    ASSUME TypeInv, TypeInv', CloseInv, NEW t \in Tasks, NEW l, Goto(t, l),
           NEW k \in EventKinds \ {"message", "close"}, Adds(t, k),
           UNCHANGED <<ready, loop>>, clients' \subseteq clients,
           \A s \in Sids : \/ passed'[s] = passed[s]
                           \/ \E p : passed'[s] = Append(passed[s], <<"connection", p>>),
           t \in Sids => l # "close_event" /\ (ready[t] = "Closed" => l \in {"recv", "ended"})
    PROVE  CloseInv'
    <1>1. pc'[t] = l /\ \A u \in Tasks \ {t} : pc'[u] = pc[u]
        BY GotoFacts DEF TypeInv
    <1>2. \A s \in Sids : /\ ready[s] = "Closed" => pc'[s] = pc[s] \/ pc'[s] \in {"recv", "ended"}
                          /\ pc'[s] = "close_event" => pc[s] = "close_event"
        BY <1>1, TaskFacts
    <1> QED
        BY <1>2, CloseKeep

\* A step that sends nothing.
LEMMA CloseSilent ==
    ASSUME TypeInv, TypeInv', CloseInv, NEW t \in Tasks, NEW l, Goto(t, l),
           UNCHANGED <<ready, loop, events, passed>>, clients' \subseteq clients,
           t \in Sids => l # "close_event" /\ (ready[t] = "Closed" => l \in {"recv", "ended"})
    PROVE  CloseInv'
    <1>1. Adds(t, "open") /\ "open" \in EventKinds \ {"message", "close"}
        BY AddsFacts DEF EventKinds
    <1> QED
        BY <1>1, CloseQuiet

\* Open, Flush, Drain and Heartbeat disturb no Close.
LEMMA CloseEmitted ==
    ASSUME TypeInv, TypeInv', CloseInv, NEW t \in Tasks, NEW l, sid[t] \in Sids,
           NEW k \in EventKinds \ {"message", "close"}, Emit(t, k, NoPacket, l),
           t \in Sids => l # "close_event" /\ (ready[t] = "Closed" => l \in {"recv", "ended"})
    PROVE  CloseInv'
    <1>0. NoPacket \in MaybePacket
        BY DEF MaybePacket
    <1>1. /\ Goto(t, l) /\ events' = Append(events, [kind |-> k, sid |-> sid[t], packet |-> NoPacket])
          /\ UNCHANGED <<clients, sockets, loop, ret, sid, request, unsent, sent, passed>>
        BY <1>0, EmitFacts
    <1>2. Adds(t, k)
        BY <1>0, <1>1, AddsFacts
    <1> QED
        BY <1>1, <1>2, CloseQuiet DEF sockets

\* The steps of requests.
LEMMA CloseRequest ==
    ASSUME TypeInv, TypeInv', SocketInv, CloseInv, NEW r \in Requests,
           Arrive(r) \/ RequestStep(r) \/ Handshake(r)
    PROVE  CloseInv'
    <1>0. r \in Tasks /\ r \notin Sids
        BY TaskFacts
    <1>1. Adds(r, "open") \/ events' # events
        BY <1>0, AddsFacts DEF EventKinds
    <1>2. "open" \in EventKinds \ {"message", "close"}
        BY DEF EventKinds
    <1>3. CASE Arrive(r)
        <2>1. \E l : Goto(r, l) /\ UNCHANGED <<clients, ready, loop, events, passed>>
            BY <1>3 DEF Arrive, sockets, history
        <2> QED
            BY <1>0, <2>1, CloseSilent
    <1>4. CASE VerifyRequest(r) \/ GetClient(r) \/ HandlePollingRequest(r) \/ Initial(r)
        <2>1. \E l : Goto(r, l) /\ UNCHANGED <<clients, ready, loop, events, passed>>
            BY <1>4 DEF VerifyRequest, GetClient, HandlePollingRequest, Initial, CallSend, Move,
                        sockets, history
        <2> QED
            BY <1>0, <2>1, CloseSilent
    <1>5. CASE HandleDataRequest(r)
        <2>1. UNCHANGED <<clients, ready, loop, events, passed>>
              /\ (UNCHANGED pc \/ Goto(r, "ok"))
            BY <1>5 DEF HandleDataRequest
        <2>2. CASE UNCHANGED pc
            BY <1>0, <1>1, <1>2, <2>1, <2>2, CloseKeep
        <2> QED
            BY <1>0, <2>1, <2>2, CloseSilent
    <1>6. CASE NewSocket(r)
        <2>1. PICK s \in Sids :
                /\ ready[s] = "unborn" /\ clients' = clients \cup {s}
                /\ ready' = [ready EXCEPT ![s] = "Opening"] /\ Goto(r, "open")
                /\ UNCHANGED <<events, loop, passed>>
            BY <1>6 DEF NewSocket, IsNext, history
        <2>2. \A x \in Sids : pc'[x] = pc[x]
            BY <1>0, <2>1, GotoFacts, TaskFacts DEF TypeInv
        <2>3. \A x \in Sids : (ready'[x] = "Closed" <=> ready[x] = "Closed")
            BY <2>1 DEF TypeInv, SocketsInv
        <2>4. \A x \in Sids : ready[x] = "Closed" /\ x \in clients' => x \in clients
            BY <2>1
        <2> QED
            BY <1>0, <1>1, <1>2, <2>1, <2>2, <2>3, <2>4, CloseKeep
    <1>7. CASE Open(r)
        <2>1. /\ pc[r] = "open" /\ sid[r] \in Sids /\ ready' = [ready EXCEPT ![sid[r]] = "Open"]
              /\ UNCHANGED <<clients, events, loop, passed>>
              /\ Goto(r, "send") \/ Goto(r, "panicked")
            BY <1>7 DEF Open, CallSend, TypeInv, ControlInv, WithSocket, HandshakeSteps, history
        <2>2. ready[sid[r]] # "Closed"
            BY <2>1 DEF SocketInv, OwnInv, IdleInv, Opening
        <2>3. \A x \in Sids : pc'[x] = pc[x]
            BY <1>0, <2>1, GotoFacts, TaskFacts DEF TypeInv
        <2>4. \A x \in Sids : (ready'[x] = "Closed" <=> ready[x] = "Closed")
            BY <2>1, <2>2 DEF TypeInv, SocketsInv
        <2> QED
            BY <1>0, <1>1, <1>2, <2>1, <2>3, <2>4, CloseKeep
    <1>8. CASE OpenEvent(r)
        <2>1. sid[r] \in Sids
            BY <1>8 DEF OpenEvent, TypeInv, ControlInv, WithSocket, HandshakeSteps
        <2> QED
            BY <1>0, <1>2, <1>8, <2>1, CloseEmitted DEF OpenEvent
    <1>9. CASE Subscribe(r)
        <2>1. /\ pc[r] = "subscribe" /\ sid[r] \in Sids
              /\ pc' = [pc EXCEPT ![r] = "respond", ![sid[r]] = "recv"]
              /\ UNCHANGED <<clients, ready, events, loop, passed>>
            BY <1>9 DEF Subscribe, TypeInv, ControlInv, WithSocket, HandshakeSteps, sockets, history
        <2>2. \A x \in Sids : pc'[x] = pc[x] \/ pc'[x] = "recv"
            BY <1>0, <2>1, TaskFacts DEF TypeInv, ControlInv
        <2> QED
            BY <1>0, <1>1, <1>2, <2>1, <2>2, CloseKeep
    <1>10. CASE Respond(r)
        <2>1. \E l : Goto(r, l) /\ UNCHANGED <<clients, ready, loop, events, passed>>
            BY <1>10 DEF Respond, Reply, Answer, Move, sockets, history
        <2> QED
            BY <1>0, <2>1, CloseSilent
    <1>11. CASE Connection(r)
        <2>1. /\ sid[r] \in Sids /\ Forward("connection", sid[r], NoPacket)
              /\ \E l : Goto(r, l) /\ UNCHANGED <<clients, ready, loop, events>>
              /\ NoPacket \in MaybePacket
            BY <1>11 DEF Connection, Answer, TypeInv, ControlInv, WithSocket, HandshakeSteps,
                         sockets, MaybePacket
        <2>2. \A s \in Sids : \/ passed'[s] = passed[s]
                              \/ passed'[s] = Append(passed[s], <<"connection", NoPacket>>)
            BY <2>1, ForwardFacts DEF TypeInv
        <2> QED
            BY <1>0, <1>1, <1>2, <2>1, <2>2, CloseQuiet
    <1> QED
        BY <1>3, <1>4, <1>5, <1>6, <1>7, <1>8, <1>9, <1>10, <1>11 DEF RequestStep, Handshake

\* The steps of send_packet.
LEMMA CloseSend ==
    ASSUME TypeInv, TypeInv', CloseInv, NEW t \in Tasks, SendPacket(t)
    PROVE  CloseInv'
    <1>1. /\ pc[t] \in SendSteps /\ sid[t] \in Sids
          /\ t \in Sids => ret[t] = "heartbeat"
        BY RetFacts DEF SendPacket, Send, FlushEvent, DrainEvent, TypeInv, SendSteps
    <1>2. t \in Sids => ready[t] # "Closed"
        BY <1>1 DEF CloseInv, ClosingInv, SendSteps
    <1>3. {"flush", "drain"} \subseteq EventKinds \ {"message", "close"}
        BY DEF EventKinds
    <1>4. CASE Send(t)
        <2>1. /\ \E l \in {"flush_event", ret[t]} : Goto(t, l)
              /\ UNCHANGED <<clients, ready, loop, events, passed>>
            BY <1>4 DEF Send, Move, sockets, history
        <2> QED
            BY <1>1, <1>2, <2>1, CloseSilent
    <1>5. CASE FlushEvent(t)
        BY <1>1, <1>2, <1>3, <1>5, CloseEmitted DEF FlushEvent
    <1>6. CASE DrainEvent(t)
        BY <1>1, <1>2, <1>3, <1>6, CloseEmitted DEF DrainEvent
    <1> QED
        BY <1>4, <1>5, <1>6 DEF SendPacket

\* A subscriber sends a Close once, after all its messages.
LEMMA CloseSubscriber ==
    ASSUME TypeInv, TypeInv', CloseInv, NEW s \in Sids, SubscriberStep(s)
    PROVE  CloseInv'
    <1>0. /\ s \in Tasks /\ sid[s] = s /\ NoPacket \in MaybePacket /\ hand[s] \in MaybePacket
        BY TaskFacts DEF TypeInv, ControlInv, SocketsInv, MaybePacket
    <1>1. CASE Recv(s)
        <2>1. CASE Move(s, "ended")
            BY <1>0, <2>1, CloseSilent DEF Move, sockets, history
        <2>2. CASE ~ lagged[s] /\ tevents[s] # <<>>
            <3>1. /\ UNCHANGED <<clients, events, loop, passed>>
                  /\ \/ /\ ready' = [ready EXCEPT ![s] = "Closed"]
                        /\ Goto(s, IF ready[s] # "Closed" THEN "close_event" ELSE "recv")
                     \/ /\ UNCHANGED ready
                        /\ \E l \in {"recv", "panicked", "message", "send"} :
                              Goto(s, l) /\ (l # "recv" => ready[s] = "Open")
                BY <1>1, <2>2, RecvFacts DEF history
            <3>2. CASE UNCHANGED ready /\ \E l \in {"recv", "panicked", "message", "send"} :
                              Goto(s, l) /\ (l # "recv" => ready[s] = "Open")
                BY <1>0, <3>1, <3>2, CloseSilent
            <3>3. CASE /\ ready' = [ready EXCEPT ![s] = "Closed"]
                       /\ Goto(s, IF ready[s] # "Closed" THEN "close_event" ELSE "recv")
                <4>1. CASE ready[s] # "Closed"
                    BY <3>1, <3>3, <4>1, CloseReceived
                <4>2. CASE ready[s] = "Closed"
                    <5>1. UNCHANGED ready
                        BY <3>3, <4>2 DEF TypeInv, SocketsInv
                    <5> QED
                        BY <1>0, <3>1, <3>3, <4>2, <5>1, CloseSilent
                <4> QED
                    BY <4>1, <4>2
            <3> QED
                BY <3>1, <3>2, <3>3
        <2> QED
            BY <1>1, <2>1, <2>2, RecvFacts
    <1>2. CASE MessageEvent(s)
        <2>1. /\ pc[s] = "message" /\ Goto(s, "recv")
              /\ events' = Append(events, [kind |-> "message", sid |-> sid[s], packet |-> hand[s]])
              /\ UNCHANGED <<clients, ready, loop, passed>>
            BY <1>0, <1>2, EmitFacts DEF MessageEvent, EventKinds, sockets
        <2>2. Adds(s, "message")
            BY <1>0, <2>1, AddsFacts DEF EventKinds
        <2> QED
            BY <2>1, <2>2, CloseEmit
    <1>3. CASE Heartbeat(s)
        BY <1>0, <1>3, CloseEmitted DEF Heartbeat, EventKinds
    <1>4. CASE CloseEvent(s)
        <2>1. /\ pc[s] = "close_event" /\ Goto(s, "recv")
              /\ events' = Append(events, [kind |-> "close", sid |-> sid[s], packet |-> NoPacket])
              /\ UNCHANGED <<clients, ready, loop, passed>>
            BY <1>0, <1>4, EmitFacts DEF CloseEvent, EventKinds, sockets
        <2>2. Adds(s, "close")
            BY <1>0, <2>1, AddsFacts DEF EventKinds
        <2> QED
            BY <2>1, <2>2, CloseEmit
    <1> QED
        BY <1>1, <1>2, <1>3, <1>4 DEF SubscriberStep

\* CloseInv is inductive relative to TypeInv and SocketInv.
LEMMA CloseNext ==
    ASSUME TypeInv, TypeInv', SocketInv, CloseInv, [Next]_vars
    PROVE  CloseInv'
    <1>1. CASE UNCHANGED vars
        BY <1>1 DEF vars, CloseInv, ClosingInv, ChannelCloseInv, RemovingInv, PassedCloseInv, IsFrom,
                    sockets, control, history
    <1>2. ASSUME NEW t \in Users, ServerSend(t) \/ CloseSocket(t)
          PROVE  CloseInv'
        <2>1. \E l : Goto(t, l) /\ UNCHANGED <<ready, loop, events, passed>>
                     /\ clients' \subseteq clients
            BY <1>2 DEF ServerSend, CloseSocket, sockets, history
        <2> QED
            BY <2>1, TaskFacts, CloseSilent
    <1>3. ASSUME NEW s \in Sids, UNCHANGED <<clients, ready, pc, events, passed>>,
                 loop' = loop \/ loop' = "recv"
          PROVE  CloseInv'
        <2>1. Adds(s, "open") /\ "open" \in EventKinds \ {"message", "close"} /\ s \in Tasks
            BY <1>3, AddsFacts, TaskFacts DEF EventKinds
        <2> QED
            BY <1>3, <2>1, CloseKeep
    <1>4. ASSUME NEW s \in Sids, NEW k \in PeerEvents, PeerEvent(s, k)
          PROVE  CloseInv'
        BY <1>3, <1>4, PeerFacts DEF control
    <1>5. CASE TrySubscribe
        <2>1. CASE Sids = {}
            BY <2>1 DEF CloseInv, ClosingInv, ChannelCloseInv, RemovingInv, PassedCloseInv
        <2>2. CASE Sids # {}
            BY <1>3, <1>5, <2>2 DEF TrySubscribe, sockets, control, history
        <2> QED
            BY <2>1, <2>2
    <1>6. CASE EventLoop
        BY <1>6, CloseLoopRecv, CloseLoopRemove DEF EventLoop
    <1> QED
        BY <1>1, <1>2, <1>4, <1>5, <1>6, NextIs, CloseRequest, CloseSend, CloseSubscriber

\* Nothing is closed.
LEMMA CloseInit ==
    ASSUME Init
    PROVE  CloseInv
    <1>1. Len(<<>>) = 0 /\ \A s \in Sids : pc[s] = "idle" /\ ready[s] = "unborn" /\ loop # s
        BY TaskFacts, LoopPlaces DEF Init
    <1> QED
        BY <1>1 DEF Init, CloseInv, ClosingInv, ChannelCloseInv, RemovingInv, PassedCloseInv

\* When the loop passes on that a connection is closed, the Server has forgotten
\* it, and of that connection there is neither a message nor a second Close
\* afterwards.
THEOREM ClosedForGood == Spec => []CloseIsLast
    <1> DEFINE Inv == TypeInv /\ SocketInv /\ CloseInv
    <1>1. Init => Inv
        BY TypeInit, SocketInit, CloseInit
    <1>2. Inv /\ [Next]_vars => Inv'
        BY TypeNext, SocketNext, CloseNext
    <1>3. Inv => CloseIsLast
        <2> SUFFICES ASSUME Inv, NEW s \in Sids, NEW i \in DOMAIN passed[s],
                            passed[s][i][1] = "close"
                     PROVE  /\ s \notin clients
                            /\ \A j \in (i + 1) .. Len(passed[s]) :
                                  passed[s][j][1] = "connection"
            BY DEF CloseIsLast
        <2>1. i \in 1 .. Len(passed[s])
            BY DEF TypeInv, ChannelInv
        <2> QED
            BY <2>1 DEF CloseInv, PassedCloseInv
    <1> HIDE DEF Inv
    <1>4. Spec => []Inv
        BY <1>1, <1>2, PTL DEF Spec
    <1> QED
        BY <1>3, <1>4, PTL

-------------------------------------------------------------------------------
(* Messages on their way through the Server *)

\* The number of members of S among the first n elements of q.
CountTo(q, n, S) == Cardinality({i \in 1 .. n : q[i] \in S})

\* The number of elements of a beginning that are in a set.
LEMMA CountNat ==
    ASSUME NEW q, NEW n \in Nat, NEW S
    PROVE  /\ IsFiniteSet({i \in 1 .. n : q[i] \in S})
           /\ CountTo(q, n, S) \in Nat
    <1>1. IsFiniteSet(1 .. n)
        BY FS_Interval
    <1>2. {i \in 1 .. n : q[i] \in S} \in SUBSET (1 .. n)
        OBVIOUS
    <1>3. IsFiniteSet({i \in 1 .. n : q[i] \in S})
        BY <1>1, <1>2, FS_Subset
    <1> QED
        BY <1>3, FS_CardinalityType DEF CountTo

\* An empty beginning has none.
LEMMA CountZero ==
    ASSUME NEW q, NEW S
    PROVE  CountTo(q, 0, S) = 0
    <1>1. {i \in 1 .. 0 : q[i] \in S} = {}
        OBVIOUS
    <1> QED
        BY <1>1, FS_EmptySet DEF CountTo

\* Each element counts for itself.
LEMMA CountNext ==
    ASSUME NEW q, NEW n \in Nat, NEW S
    PROVE  CountTo(q, n + 1, S) = CountTo(q, n, S) + (IF q[n + 1] \in S THEN 1 ELSE 0)
    <1> DEFINE A == {i \in 1 .. n : q[i] \in S}
               B == {i \in 1 .. (n + 1) : q[i] \in S}
    <1>1. IsFiniteSet(A) /\ Cardinality(A) \in Nat
        BY CountNat DEF CountTo
    <1>2. CASE q[n + 1] \in S
        <2>1. B = A \cup {n + 1} /\ n + 1 \notin A
            BY <1>2
        <2>2. Cardinality(B) = Cardinality(A) + 1
            <3> HIDE DEF A, B
            <3> QED
                BY <1>1, <2>1, FS_AddElement
        <2> QED
            BY <1>2, <2>2 DEF CountTo
    <1>3. CASE q[n + 1] \notin S
        <2>1. B = A
            BY <1>3
        <2> QED
            BY <1>1, <1>3, <2>1 DEF CountTo
    <1> QED
        BY <1>2, <1>3

\* What is no member of S does not count.
LEMMA CountLonger ==
    ASSUME NEW q, NEW r, NEW m \in Nat, NEW n \in Nat, m <= n, NEW S,
           \A i \in 1 .. m : q[i] \in S <=> r[i] \in S,
           \A i \in (m + 1) .. n : r[i] \notin S
    PROVE  CountTo(r, n, S) = CountTo(q, m, S)
    <1>1. {i \in 1 .. m : q[i] \in S} = {i \in 1 .. n : r[i] \in S}
        OBVIOUS
    <1> QED
        BY <1>1 DEF CountTo

\* A sequence that has lost its first element.
LEMMA CountTail ==
    ASSUME NEW q, NEW r, NEW n \in Nat, NEW S, \A i \in 1 .. n : r[i] = q[i + 1]
    PROVE  CountTo(q, n + 1, S) = CountTo(r, n, S) + (IF q[1] \in S THEN 1 ELSE 0)
    <1> DEFINE A == {i \in 1 .. n : r[i] \in S}
               B == {i \in 1 .. (n + 1) : q[i] \in S}
               C == B \ {1}
               f == [i \in A |-> i + 1]
    <1>1. IsFiniteSet(A) /\ IsFiniteSet(B) /\ Cardinality(A) \in Nat /\ Cardinality(B) \in Nat
        <2>1. n + 1 \in Nat
            OBVIOUS
        <2> QED
            BY <2>1, CountNat DEF CountTo
    <1>2. f \in [A -> C] /\ \A i \in A : f[i] = i + 1
        OBVIOUS
    <1>3. \A i, j \in A : i + 1 = j + 1 => i = j
        OBVIOUS
    <1>4. \A c \in C : \E i \in A : i + 1 = c
        <2> SUFFICES ASSUME NEW c \in C
                     PROVE  c - 1 \in A /\ (c - 1) + 1 = c
            OBVIOUS
        <2>1. c \in 2 .. (n + 1) /\ q[c] \in S
            OBVIOUS
        <2>2. c - 1 \in 1 .. n /\ (c - 1) + 1 = c
            BY <2>1
        <2>3. r[c - 1] = q[c]
            BY <2>2
        <2> QED
            BY <2>1, <2>2, <2>3
    <1>5. ExistsBijection(A, C)
        <2> HIDE DEF A, C, f
        <2>1. f \in Surjection(A, C)
            BY <1>2, <1>4 DEF Surjection
        <2>2. f \in Injection(A, C)
            BY <1>2, <1>3 DEF Injection, IsInjective
        <2> QED
            BY <2>1, <2>2 DEF ExistsBijection, Bijection
    <1>6. Cardinality(C) = Cardinality(A)
        <2> HIDE DEF A, C
        <2> QED
            BY <1>1, <1>5, FS_Bijection
    <1>7. Cardinality(C) = IF 1 \in B THEN Cardinality(B) - 1 ELSE Cardinality(B)
        <2> HIDE DEF B
        <2> QED
            BY <1>1, FS_RemoveElement
    <1>8. 1 \in B <=> q[1] \in S
        OBVIOUS
    <1>9. Cardinality(B) = Cardinality(A) + (IF q[1] \in S THEN 1 ELSE 0)
        <2> HIDE DEF A, B, C
        <2> QED
            BY <1>1, <1>6, <1>7, <1>8
    <1> QED
        BY <1>9 DEF CountTo

\* A sequence that has got one element more.
LEMMA CountAppend ==
    ASSUME NEW q, NEW r, NEW n \in Nat, NEW S, \A i \in 1 .. n : r[i] = q[i]
    PROVE  /\ \A i \in 1 .. n : CountTo(r, i, S) = CountTo(q, i, S)
           /\ CountTo(r, n + 1, S) = CountTo(q, n, S) + (IF r[n + 1] \in S THEN 1 ELSE 0)
    <1>1. \A i \in 1 .. n : CountTo(r, i, S) = CountTo(q, i, S)
        <2> TAKE i \in 1 .. n
        <2>1. {j \in 1 .. i : q[j] \in S} = {j \in 1 .. i : r[j] \in S}
            OBVIOUS
        <2> QED
            BY <2>1 DEF CountTo
    <1>2. CountTo(r, n, S) = CountTo(q, n, S)
        <2>1. {j \in 1 .. n : q[j] \in S} = {j \in 1 .. n : r[j] \in S}
            OBVIOUS
        <2> QED
            BY <2>1 DEF CountTo
    <1>3. CountTo(r, n + 1, S) = CountTo(r, n, S) + (IF r[n + 1] \in S THEN 1 ELSE 0)
        BY CountNext
    <1> QED
        BY <1>1, <1>2, <1>3

MessageOf(s) == [kind : {"message"}, sid : {s}, packet : MaybePacket]
PassedMessage == {"message"} \X MaybePacket
NewMessage == {"message"} \X PacketIds

NumPassed(s) == CountTo(passed[s], Len(passed[s]), PassedMessage)
NumInChannel(s) == CountTo(events, Len(events), MessageOf(s))
NumInHand(s) == IF pc[s] = "message" THEN 1 ELSE 0
NumTaken(s) == NumPassed(s) + NumInChannel(s) + NumInHand(s)

IsSent(s, n, packet) == n \in 1 .. Len(sent[s]) /\ packet = sent[s][n]

\* Everywhere on its way, a message is the one whose number its place says.
PassedInv(s) ==
    \A i \in 1 .. Len(passed[s]) : passed[s][i] \in PassedMessage =>
        IsSent(s, CountTo(passed[s], i, PassedMessage), passed[s][i][2])

InChannelInv(s) ==
    \A i \in 1 .. Len(events) : events[i] \in MessageOf(s) =>
        IsSent(s, NumPassed(s) + CountTo(events, i, MessageOf(s)), events[i].packet)

InHandInv(s) ==
    pc[s] = "message" => IsSent(s, NumPassed(s) + NumInChannel(s) + 1, hand[s])

Live(s) == Subscribed(s) /\ ready[s] = "Open" /\ ~lagged[s]

\* What waits in the broadcast channel of a socket that was not overrun.
WaitingInv(s) ==
    Live(s) =>
        /\ NumTaken(s) + CountTo(tevents[s], Len(tevents[s]), NewMessage) = Len(sent[s])
        /\ \A i \in 1 .. Len(tevents[s]) : tevents[s][i] \in NewMessage =>
              IsSent(s, NumTaken(s) + CountTo(tevents[s], i, NewMessage), tevents[s][i][2])

PipeOf(s) == PassedInv(s) /\ InChannelInv(s) /\ InHandInv(s) /\ WaitingInv(s)

PipeInv == \A s \in Sids : PipeOf(s)

\* A step that leaves the messages where they are: those passed on, those in the
\* channel, those sent.
PassedSame(s) ==
    /\ NumPassed(s)' = NumPassed(s)
    /\ \A i \in 1 .. Len(passed'[s]) : passed'[s][i] \in PassedMessage =>
          \E j \in 1 .. Len(passed[s]) :
             /\ passed[s][j] = passed'[s][i]
             /\ CountTo(passed'[s], i, PassedMessage) = CountTo(passed[s], j, PassedMessage)

ChannelSame(s) ==
    /\ NumInChannel(s)' = NumInChannel(s)
    /\ \A i \in 1 .. Len(events') : events'[i] \in MessageOf(s) =>
          \E j \in 1 .. Len(events) :
             /\ events[j] = events'[i]
             /\ CountTo(events', i, MessageOf(s)) = CountTo(events, j, MessageOf(s))

SentGrows(s) ==
    \A n \in 1 .. Len(sent[s]) : n \in 1 .. Len(sent'[s]) /\ sent'[s][n] = sent[s][n]

\* A socket event is a message of s, or it is not, by its kind and its socket.
LEMMA MessageFacts ==
    ASSUME NEW e \in SocketEvent, NEW s
    PROVE  e \in MessageOf(s) <=> e.kind = "message" /\ e.sid = s
    BY DEF SocketEvent, MessageOf

\* All the numbers that the places of messages are made of.
LEMMA PipeLens ==
    ASSUME TypeInv, NEW s \in Sids
    PROVE  /\ Len(passed[s]) \in Nat /\ Len(events) \in Nat /\ Len(tevents[s]) \in Nat
           /\ Len(sent[s]) \in Nat
           /\ NumPassed(s) \in Nat /\ NumInChannel(s) \in Nat /\ NumInHand(s) \in {0, 1}
           /\ passed[s] \in Seq(OwnerEvent) /\ events \in Seq(SocketEvent)
           /\ tevents[s] \in Seq(TransportEvent) /\ sent[s] \in Seq(PacketIds)
    <1>1. /\ passed[s] \in Seq(OwnerEvent) /\ events \in Seq(SocketEvent)
          /\ tevents[s] \in Seq(TransportEvent) /\ sent[s] \in Seq(PacketIds)
        BY DEF TypeInv, ChannelInv, SocketsInv
    <1>2. /\ Len(passed[s]) \in Nat /\ Len(events) \in Nat /\ Len(tevents[s]) \in Nat
          /\ Len(sent[s]) \in Nat
        BY <1>1
    <1>3. NumPassed(s) \in Nat /\ NumInChannel(s) \in Nat
        BY <1>2, CountNat DEF NumPassed, NumInChannel
    <1> QED
        BY <1>1, <1>2, <1>3 DEF NumInHand

\* The messages that were passed on, as the sequence grows by an event.
LEMMA PassedKeep ==
    ASSUME TypeInv, NEW s \in Sids, NEW k, NEW p, k # "message",
           passed'[s] = passed[s] \/ passed'[s] = Append(passed[s], <<k, p>>)
    PROVE  PassedSame(s)
    <1> DEFINE q == passed[s]
               r == passed'[s]
    <1>1. CASE r = q
        BY <1>1, PipeLens DEF PassedSame, NumPassed
    <1>2. CASE r = Append(q, <<k, p>>)
        <2>1. q \in Seq(OwnerEvent) /\ Len(q) \in Nat
            BY PipeLens
        <2>2. /\ Len(r) = Len(q) + 1 /\ r[Len(q) + 1] = <<k, p>>
              /\ \A i \in 1 .. Len(q) : r[i] = q[i]
            BY <1>2, <2>1
        <2>3. <<k, p>> \notin PassedMessage
            BY DEF PassedMessage
        <2> HIDE DEF q, r
        <2>4. CountTo(r, Len(r), PassedMessage) = CountTo(q, Len(q), PassedMessage)
            <3>1. /\ \A i \in 1 .. Len(q) : q[i] \in PassedMessage <=> r[i] \in PassedMessage
                  /\ \A i \in (Len(q) + 1) .. Len(r) : r[i] \notin PassedMessage
                  /\ Len(q) <= Len(r) /\ Len(r) \in Nat
                BY <2>1, <2>2, <2>3
            <3>2. PICK m \in Nat, n \in Nat : m = Len(q) /\ n = Len(r)
                BY <2>1, <3>1
            <3>3. /\ \A i \in 1 .. m : q[i] \in PassedMessage <=> r[i] \in PassedMessage
                  /\ \A i \in (m + 1) .. n : r[i] \notin PassedMessage
                  /\ m <= n
                BY <3>1, <3>2
            <3> DEFINE P == PassedMessage
            <3>4. /\ \A i \in 1 .. m : q[i] \in P <=> r[i] \in P
                  /\ \A i \in (m + 1) .. n : r[i] \notin P
                BY <3>3
            <3> HIDE DEF P
            <3>5. CountTo(r, n, P) = CountTo(q, m, P)
                BY <3>3, <3>4, CountLonger
            <3> QED
                BY <3>2, <3>5 DEF P
        <2>5. ASSUME NEW i \in 1 .. Len(r), r[i] \in PassedMessage
              PROVE  /\ i \in 1 .. Len(q) /\ r[i] = q[i]
                     /\ CountTo(r, i, PassedMessage) = CountTo(q, i, PassedMessage)
            <3>1. i \in 1 .. Len(q) /\ r[i] = q[i]
                BY <2>1, <2>2, <2>3, <2>5
            <3>2. \A j \in 1 .. i : q[j] \in PassedMessage <=> r[j] \in PassedMessage
                BY <2>1, <2>2, <3>1
            <3>3. i \in Nat /\ i <= i /\ \A j \in (i + 1) .. i : r[j] \notin PassedMessage
                BY <3>1
            <3>4. CountTo(r, i, PassedMessage) = CountTo(q, i, PassedMessage)
                BY <3>2, <3>3, CountLonger
            <3> QED
                BY <3>1, <3>4
        <2> QED
            BY <2>4, <2>5 DEF q, r, NumPassed, PassedSame
    <1> QED
        BY <1>1, <1>2

\* What the channel holds of messages, when no message is put there.
LEMMA ChannelKeep ==
    ASSUME TypeInv, TypeInv', NEW s \in Sids, NEW t \in Tasks, NEW k \in EventKinds,
           Adds(t, k), k # "message" \/ sid[t] # s
    PROVE  ChannelSame(s)
    <1> DEFINE M == MessageOf(s)
    <1>1. /\ Len(events) \in Nat /\ Len(events') \in Nat /\ Len(events) <= Len(events')
          /\ events \in Seq(SocketEvent) /\ events' \in Seq(SocketEvent)
        BY DEF TypeInv, ChannelInv, Adds
    <1>2. \A i \in 1 .. Len(events') :
            \/ i <= Len(events) /\ events'[i] = events[i]
            \/ i = Len(events) + 1 /\ events'[i] \notin M
        <2> SUFFICES ASSUME NEW i \in 1 .. Len(events')
                     PROVE  \/ i <= Len(events) /\ events'[i] = events[i]
                            \/ i = Len(events) + 1 /\ events'[i] \notin M
            OBVIOUS
        <2>1. events'[i] \in SocketEvent
            BY <1>1
        <2> QED
            BY <2>1, MessageFacts DEF Adds
    <1>3. \A i \in 1 .. Len(events) : events'[i] = events[i]
        BY <1>1, <1>2
    <1>4. \A i \in (Len(events) + 1) .. Len(events') : events'[i] \notin M
        BY <1>1, <1>2
    <1> HIDE DEF M
    <1>5. CountTo(events', Len(events'), M) = CountTo(events, Len(events), M)
        <2>1. \A i \in 1 .. Len(events) : events[i] \in M <=> events'[i] \in M
            BY <1>3
        <2>2. {i \in 1 .. Len(events) : events[i] \in M}
                 = {i \in 1 .. Len(events') : events'[i] \in M}
            BY <1>1, <1>4, <2>1
        <2> QED
            BY <2>2 DEF CountTo
    <1>6. ASSUME NEW i \in 1 .. Len(events'), events'[i] \in M
          PROVE  /\ i \in 1 .. Len(events) /\ events'[i] = events[i]
                 /\ CountTo(events', i, M) = CountTo(events, i, M)
        <2>1. i \in 1 .. Len(events) /\ events'[i] = events[i]
            BY <1>1, <1>2, <1>6
        <2>2. \A j \in 1 .. i : events[j] \in M <=> events'[j] \in M
            BY <1>1, <1>3, <2>1
        <2>3. i \in Nat /\ i <= i /\ \A j \in (i + 1) .. i : events'[j] \notin M
            BY <2>1
        <2>4. CountTo(events', i, M) = CountTo(events, i, M)
            BY <2>2, <2>3, CountLonger
        <2> QED
            BY <2>1, <2>4
    <1> QED
        BY <1>5, <1>6 DEF M, NumInChannel, MessageOf, ChannelSame

\* A step that leaves what was passed on, and what is in the channel, in place.
LEMMA PipeHold ==
    ASSUME NEW s \in Sids, PipeOf(s), PassedSame(s), ChannelSame(s), SentGrows(s)
    PROVE  /\ PassedInv(s)' /\ InChannelInv(s)'
           /\ pc[s] = "message" /\ pc'[s] = "message" /\ hand'[s] = hand[s] => InHandInv(s)'
           /\ pc'[s] # "message" => InHandInv(s)'
    <1>1. PassedInv(s)'
        <2> SUFFICES ASSUME NEW i \in 1 .. Len(passed'[s]), passed'[s][i] \in PassedMessage
                     PROVE  /\ CountTo(passed'[s], i, PassedMessage) \in 1 .. Len(sent'[s])
                            /\ passed'[s][i][2] =
                                  sent'[s][CountTo(passed'[s], i, PassedMessage)]
            BY DEF PassedInv, IsSent
        <2>1. PICK j \in 1 .. Len(passed[s]) :
                 /\ passed[s][j] = passed'[s][i]
                 /\ CountTo(passed'[s], i, PassedMessage) = CountTo(passed[s], j, PassedMessage)
            BY DEF PassedSame
        <2>2. IsSent(s, CountTo(passed[s], j, PassedMessage), passed[s][j][2])
            BY <2>1 DEF PipeOf, PassedInv
        <2> QED
            BY <2>1, <2>2 DEF IsSent, SentGrows
    <1>2. InChannelInv(s)'
        <2> SUFFICES ASSUME NEW i \in 1 .. Len(events'), events'[i] \in MessageOf(s)
                     PROVE  /\ NumPassed(s)' + CountTo(events', i, MessageOf(s)) \in 1 .. Len(sent'[s])
                            /\ events'[i].packet =
                                  sent'[s][NumPassed(s)' + CountTo(events', i, MessageOf(s))]
            BY DEF InChannelInv, IsSent, MessageOf, MaybePacket, PacketIds, NoPacket
        <2>1. PICK j \in 1 .. Len(events) :
                 /\ events[j] = events'[i]
                 /\ CountTo(events', i, MessageOf(s)) = CountTo(events, j, MessageOf(s))
            BY DEF ChannelSame
        <2>2. IsSent(s, NumPassed(s) + CountTo(events, j, MessageOf(s)), events[j].packet)
            BY <2>1 DEF PipeOf, InChannelInv
        <2>3. NumPassed(s)' = NumPassed(s)
            BY DEF PassedSame
        <2> QED
            BY <2>1, <2>2, <2>3 DEF IsSent, SentGrows
    <1>3. CASE pc[s] = "message" /\ pc'[s] = "message" /\ hand'[s] = hand[s]
        <2>1. NumPassed(s)' = NumPassed(s) /\ NumInChannel(s)' = NumInChannel(s)
            BY DEF PassedSame, ChannelSame
        <2>2. IsSent(s, NumPassed(s) + NumInChannel(s) + 1, hand[s])
            BY <1>3 DEF PipeOf, InHandInv
        <2> QED
            BY <1>1, <1>2, <1>3, <2>1, <2>2 DEF InHandInv, IsSent, SentGrows
    <1>4. pc'[s] # "message" => InHandInv(s)'
        BY DEF InHandInv
    <1> QED
        BY <1>1, <1>2, <1>3, <1>4

\* A step that leaves all messages of s where they are.
LEMMA PipeKeep ==
    ASSUME NEW s \in Sids, PipeOf(s), PassedSame(s), ChannelSame(s),
           sent'[s] = sent[s], tevents'[s] = tevents[s], hand'[s] = hand[s],
           pc'[s] = "message" <=> pc[s] = "message", Live(s)' => Live(s)
    PROVE  PipeOf(s)'
    <1>1. SentGrows(s)
        BY DEF SentGrows
    <1>2. NumTaken(s)' = NumTaken(s)
        BY DEF PassedSame, ChannelSame, NumTaken, NumInHand
    <1>3. WaitingInv(s)'
        BY <1>2 DEF PipeOf, WaitingInv, IsSent
    <1> QED
        BY <1>1, <1>3, PipeHold DEF PipeOf

\* A packet that the transport of s broadcasts, while the others wait.
LEMMA PipeBroadcast ==
    ASSUME TypeInv, TypeInv', NEW s \in Sids, NEW k \in Packets \cup {"close"},
           NEW p \in PacketIds, Broadcast(s, k, p), \A x \in Sids : PipeOf(x),
           UNCHANGED <<ready, pc, hand, events, passed>>
    PROVE  \A x \in Sids : PipeOf(x)'
    <1>1. \A x \in Sids : PassedSame(x) /\ ChannelSame(x)
        BY DEF PassedSame, ChannelSame, NumPassed, NumInChannel
    <1>2. \A x \in Sids : pc'[x] = pc[x] /\ hand'[x] = hand[x] /\ (Subscribed(x)' <=> Subscribed(x))
        BY DEF Subscribed
    <1>3. \A x \in Sids \ {s} : PipeOf(x)'
        <2> TAKE x \in Sids \ {s}
        <2>1. tevents'[x] = tevents[x] /\ lagged'[x] = lagged[x] /\ sent'[x] = sent[x]
            BY BroadcastFacts DEF TypeInv
        <2>2. Live(x)' => Live(x)
            BY <1>2, <2>1 DEF Live
        <2> QED
            BY <1>1, <1>2, <2>1, <2>2, PipeKeep
    <1>4. CASE UNCHANGED <<tevents, lagged, sent>>
        <2>1. Live(s)' => Live(s)
            BY <1>2, <1>4 DEF Live
        <2>2. PipeOf(s)'
            BY <1>1, <1>2, <1>4, <2>1, PipeKeep
        <2> QED
            BY <1>3, <2>2
    <1>5. CASE /\ sent'[s] = IF k = "message" THEN Append(sent[s], p) ELSE sent[s]
               /\ \/ lagged'[s]
                  \/ /\ lagged'[s] <=> lagged[s]
                     /\ tevents'[s] = Append(tevents[s], <<k, p>>)
        <2> DEFINE N == NumTaken(s)
                   q == tevents[s]
                   r == tevents'[s]
                   n == CountTo(q, Len(q), NewMessage)
        <2>1. /\ Len(q) \in Nat /\ q \in Seq(TransportEvent)
              /\ Len(sent[s]) \in Nat /\ sent[s] \in Seq(PacketIds)
              /\ N \in Nat /\ n \in Nat
            <3>1. NumPassed(s) \in Nat /\ NumInChannel(s) \in Nat /\ NumInHand(s) \in {0, 1}
                BY PipeLens
            <3>2. N \in Nat
                BY <3>1 DEF NumTaken
            <3>3. /\ Len(q) \in Nat /\ q \in Seq(TransportEvent)
                  /\ Len(sent[s]) \in Nat /\ sent[s] \in Seq(PacketIds)
                BY PipeLens
            <3>4. n \in Nat
                BY <3>3, CountNat
            <3> QED
                BY <3>2, <3>3, <3>4
        <2>0. /\ Len(sent'[s]) \in Nat /\ Len(sent'[s]) >= Len(sent[s])
              /\ k = "message" => /\ Len(sent'[s]) = Len(sent[s]) + 1
                                 /\ sent'[s][Len(sent[s]) + 1] = p
              /\ k # "message" => Len(sent'[s]) = Len(sent[s])
              /\ \A i \in 1 .. Len(sent[s]) : sent'[s][i] = sent[s][i]
            <3>1. CASE k = "message"
                <4>1. sent'[s] = Append(sent[s], p)
                    BY <1>5, <3>1
                <4> QED
                    BY <2>1, <3>1, <4>1
            <3>2. CASE k # "message"
                <4>1. sent'[s] = sent[s]
                    BY <1>5, <3>2
                <4> QED
                    BY <2>1, <3>2, <4>1
            <3> QED
                BY <3>1, <3>2
        <2>2. SentGrows(s)
            BY <2>0, <2>1 DEF SentGrows
        <2>3. PassedInv(s)' /\ InChannelInv(s)' /\ InHandInv(s)'
            BY <1>1, <1>2, <2>2, PipeHold
        <2>4. NumTaken(s)' = N
            BY <1>1, <1>2 DEF PassedSame, ChannelSame, NumTaken, NumInHand
        <2>5. ASSUME Live(s)'
              PROVE  /\ N + CountTo(r, Len(r), NewMessage) = Len(sent'[s])
                     /\ \A i \in 1 .. Len(r) : r[i] \in NewMessage =>
                           /\ N + CountTo(r, i, NewMessage) \in 1 .. Len(sent'[s])
                           /\ r[i][2] = sent'[s][N + CountTo(r, i, NewMessage)]
            <3>1. r = Append(q, <<k, p>>) /\ Live(s)
                <4>1. ~ lagged'[s] /\ Subscribed(s) /\ ready[s] = "Open"
                    BY <1>2, <2>5 DEF Live
                <4>2. (lagged'[s] <=> lagged[s]) /\ r = Append(q, <<k, p>>)
                    BY <1>5, <4>1
                <4> QED
                    BY <4>1, <4>2 DEF Live
            <3>2. /\ N + n = Len(sent[s])
                  /\ \A i \in 1 .. Len(q) : q[i] \in NewMessage =>
                        /\ N + CountTo(q, i, NewMessage) \in 1 .. Len(sent[s])
                        /\ q[i][2] = sent[s][N + CountTo(q, i, NewMessage)]
                BY <3>1 DEF PipeOf, WaitingInv, IsSent
            <3>3. /\ Len(r) = Len(q) + 1 /\ r[Len(q) + 1] = <<k, p>>
                  /\ \A i \in 1 .. Len(q) : r[i] = q[i]
                  /\ \A i \in 1 .. Len(q) : CountTo(r, i, NewMessage) = CountTo(q, i, NewMessage)
                  /\ CountTo(r, Len(r), NewMessage) =
                        n + (IF <<k, p>> \in NewMessage THEN 1 ELSE 0)
                <4>1. /\ Len(r) = Len(q) + 1 /\ r[Len(q) + 1] = <<k, p>>
                      /\ \A i \in 1 .. Len(q) : r[i] = q[i]
                    <5>1. <<k, p>> \in TransportEvent
                        BY DEF TransportEvent
                    <5> QED
                        BY <2>1, <3>1, <5>1
                <4>2. PICK m \in Nat : m = Len(q)
                    BY <2>1
                <4> HIDE DEF q, r
                <4>3. \A i \in 1 .. m : r[i] = q[i]
                    BY <4>1, <4>2
                <4>4. /\ \A i \in 1 .. m : CountTo(r, i, NewMessage) = CountTo(q, i, NewMessage)
                      /\ CountTo(r, m + 1, NewMessage) = CountTo(q, m, NewMessage)
                            + (IF r[m + 1] \in NewMessage THEN 1 ELSE 0)
                    BY <4>3, CountAppend
                <4> QED
                    BY <4>1, <4>2, <4>4 DEF n
            <3>4. <<k, p>> \in NewMessage <=> k = "message"
                BY DEF NewMessage
            <3>9. ASSUME NEW i \in 1 .. Len(r), r[i] \in NewMessage
                  PROVE  /\ N + CountTo(r, i, NewMessage) \in 1 .. Len(sent'[s])
                         /\ r[i][2] = sent'[s][N + CountTo(r, i, NewMessage)]
                <4>1. CASE i \in 1 .. Len(q)
                    <5>1. /\ N + CountTo(r, i, NewMessage) \in 1 .. Len(sent[s])
                          /\ r[i][2] = sent[s][N + CountTo(r, i, NewMessage)]
                        BY <3>2, <3>3, <3>9, <4>1
                    <5> HIDE DEF N, r
                    <5> QED
                        BY <2>0, <2>1, <5>1
                <4>2. CASE i = Len(q) + 1
                    <5>1. k = "message" /\ r[i][2] = p
                        BY <3>3, <3>4, <3>9, <4>2
                    <5>2. N + CountTo(r, i, NewMessage) = Len(sent[s]) + 1
                        <6> HIDE DEF N, n, q, r
                        <6> QED
                            BY <2>1, <3>2, <3>3, <3>4, <4>2, <5>1
                    <5> QED
                        BY <2>0, <2>1, <5>1, <5>2
                <4>3. i \in 1 .. Len(q) \/ i = Len(q) + 1
                    BY <2>1, <3>3
                <4> QED
                    BY <4>1, <4>2, <4>3
            <3>10. N + CountTo(r, Len(r), NewMessage) = Len(sent'[s])
                <4> HIDE DEF N, n, q, r
                <4>1. CASE k = "message"
                    BY <2>0, <2>1, <3>2, <3>3, <3>4, <4>1
                <4>2. CASE k # "message"
                    BY <2>0, <2>1, <3>2, <3>3, <3>4, <4>2
                <4> QED
                    BY <4>1, <4>2
            <3> QED
                BY <3>9, <3>10
        <2>6. WaitingInv(s)'
            BY <2>4, <2>5 DEF WaitingInv, IsSent
        <2>7. PipeOf(s)'
            BY <2>3, <2>6 DEF PipeOf
        <2> QED
            BY <1>3, <2>7
    <1>6. \/ UNCHANGED <<tevents, lagged, sent>>
          \/ /\ sent'[s] = IF k = "message" THEN Append(sent[s], p) ELSE sent[s]
             /\ \/ lagged'[s]
                \/ /\ lagged'[s] <=> lagged[s]
                   /\ tevents'[s] = Append(tevents[s], <<k, p>>)
        BY BroadcastFacts, Zenon DEF TypeInv
    <1> QED
        BY <1>4, <1>5, <1>6

\* The steps that neither take nor pass on a message.
LEMMA PipeQuiet ==
    ASSUME TypeInv, TypeInv', \A x \in Sids : PipeOf(x), NEW t \in Tasks,
           NEW k \in EventKinds \ {"message"}, Adds(t, k), UNCHANGED <<tevents, sent, hand>>,
           \A x \in Sids :
              /\ pc'[x] = "message" <=> pc[x] = "message"
              /\ Live(x)' => Live(x)
              /\ \/ passed'[x] = passed[x]
                 \/ \E y \in {"connection", "close"} :
                       passed'[x] = Append(passed[x], <<y, NoPacket>>)
    PROVE  \A x \in Sids : PipeOf(x)'
    <1> TAKE x \in Sids
    <1>1. PassedSame(x)
        <2>1. CASE passed'[x] = passed[x]
            BY <2>1, PassedKeep
        <2>2. CASE \E y \in {"connection", "close"} :
                      passed'[x] = Append(passed[x], <<y, NoPacket>>)
            BY <2>2, PassedKeep
        <2> QED
            BY <2>1, <2>2
    <1>2. ChannelSame(x)
        BY ChannelKeep
    <1> QED
        BY <1>1, <1>2, PipeKeep

\* One task goes on, and nothing but its place and the clients changes.
LEMMA PipeSilent ==
    ASSUME TypeInv, TypeInv', \A x \in Sids : PipeOf(x), NEW t \in Tasks, NEW l, Goto(t, l),
           UNCHANGED <<ready, lagged, events, tevents, sent, hand, passed>>,
           t \in Sids => /\ pc[t] # "message" /\ l # "message"
                         /\ Subscribed(t) \/ l \in {"idle", "ended", "panicked"}
    PROVE  \A x \in Sids : PipeOf(x)'
    <1>1. Adds(t, "open") /\ "open" \in EventKinds \ {"message"}
        BY AddsFacts DEF EventKinds
    <1>2. pc'[t] = l /\ \A u \in Tasks \ {t} : pc'[u] = pc[u]
        BY GotoFacts DEF TypeInv
    <1>3. \A x \in Sids : (pc'[x] = "message" <=> pc[x] = "message") /\ (Live(x)' => Live(x))
        BY <1>2, TaskFacts DEF Live, Subscribed
    <1> QED
        BY <1>1, <1>3, PipeQuiet

\* An event that is no message goes into the channel.
LEMMA PipeEmitted ==
    ASSUME TypeInv, TypeInv', \A x \in Sids : PipeOf(x), NEW t \in Tasks, NEW l, sid[t] \in Sids,
           NEW k \in EventKinds \ {"message"}, Emit(t, k, NoPacket, l),
           t \in Sids => Subscribed(t) /\ pc[t] # "message" /\ l # "message"
    PROVE  \A x \in Sids : PipeOf(x)'
    <1>0. NoPacket \in MaybePacket
        BY DEF MaybePacket
    <1>1. /\ Goto(t, l) /\ events' = Append(events, [kind |-> k, sid |-> sid[t], packet |-> NoPacket])
          /\ UNCHANGED <<ready, lagged, tevents, hand, sent, passed>>
        BY <1>0, EmitFacts DEF sockets
    <1>2. Adds(t, k)
        BY <1>0, <1>1, AddsFacts
    <1>3. pc'[t] = l /\ \A u \in Tasks \ {t} : pc'[u] = pc[u]
        BY <1>1, GotoFacts DEF TypeInv
    <1>4. \A x \in Sids : (pc'[x] = "message" <=> pc[x] = "message") /\ (Live(x)' => Live(x))
        BY <1>1, <1>3, TaskFacts DEF Live, Subscribed
    <1> QED
        BY <1>1, <1>2, <1>4, PipeQuiet

\* The subscriber passes on the message it has received.
LEMMA PipeMessage ==
    ASSUME TypeInv, TypeInv', NEW s \in Sids, \A x \in Sids : PipeOf(x), MessageEvent(s)
    PROVE  \A x \in Sids : PipeOf(x)'
    <1>1. s \in Tasks /\ sid[s] = s /\ hand[s] \in MaybePacket
        BY TaskFacts DEF TypeInv, ControlInv, SocketsInv
    <1> DEFINE e == [kind |-> "message", sid |-> s, packet |-> hand[s]]
    <1>2. /\ pc[s] = "message" /\ Goto(s, "recv") /\ events' = Append(events, e)
          /\ UNCHANGED <<ready, lagged, tevents, hand, sent, passed>>
        BY <1>1, EmitFacts DEF MessageEvent, EventKinds, sockets
    <1>3. Adds(s, "message")
        BY <1>1, <1>2, AddsFacts DEF EventKinds
    <1>4. pc'[s] = "recv" /\ \A x \in Sids \ {s} : pc'[x] = pc[x]
        BY <1>2, GotoFacts, TaskFacts DEF TypeInv
    <1>5. \A x \in Sids : PassedSame(x) /\ SentGrows(x)
        BY <1>2, PassedKeep DEF SentGrows
    <1>6. \A x \in Sids \ {s} : PipeOf(x)'
        <2> TAKE x \in Sids \ {s}
        <2>1. ChannelSame(x)
            BY <1>1, <1>3, ChannelKeep DEF EventKinds
        <2>2. Live(x)' => Live(x)
            BY <1>2, <1>4 DEF Live, Subscribed
        <2> QED
            BY <1>2, <1>4, <1>5, <2>1, <2>2, PipeKeep
    <1>7. /\ Len(events) \in Nat /\ Len(events') = Len(events) + 1
          /\ events'[Len(events) + 1] = e /\ \A i \in 1 .. Len(events) : events'[i] = events[i]
        <2>1. e \in SocketEvent
            BY <1>1 DEF SocketEvent, EventKinds
        <2> HIDE DEF e
        <2> QED
            BY <1>2, <2>1 DEF TypeInv, ChannelInv
    <1>8. e \in MessageOf(s)
        BY <1>1 DEF MessageOf
    <1> DEFINE T == NumPassed(s)
               C == NumInChannel(s)
    <1>9. /\ \A i \in 1 .. Len(events) :
                CountTo(events', i, MessageOf(s)) = CountTo(events, i, MessageOf(s))
          /\ CountTo(events', Len(events'), MessageOf(s)) = C + 1
        <2>1. PICK m \in Nat : m = Len(events)
            BY <1>7
        <2>2. \A i \in 1 .. m : events'[i] = events[i]
            BY <1>7, <2>1
        <2>3. /\ \A i \in 1 .. m : CountTo(events', i, MessageOf(s)) = CountTo(events, i, MessageOf(s))
              /\ CountTo(events', m + 1, MessageOf(s)) = CountTo(events, m, MessageOf(s))
                    + (IF events'[m + 1] \in MessageOf(s) THEN 1 ELSE 0)
            BY <2>2, CountAppend
        <2> QED
            BY <1>7, <1>8, <2>1, <2>3 DEF NumInChannel
    <1>10. /\ T \in Nat /\ C \in Nat /\ T' = T /\ C' = C + 1 /\ NumInHand(s) = 1 /\ NumInHand(s)' = 0
        BY <1>2, <1>4, <1>5, <1>9, PipeLens DEF PassedSame, NumInHand, NumInChannel, MessageOf
    <1>11. NumTaken(s)' = NumTaken(s)
        BY <1>10 DEF NumTaken
    <1>12. IsSent(s, T + C + 1, hand[s])
        BY <1>2 DEF PipeOf, InHandInv
    <1>13. \A i \in 1 .. Len(events') : events'[i] \in MessageOf(s) =>
              /\ T + CountTo(events', i, MessageOf(s)) \in 1 .. Len(sent[s])
              /\ events'[i].packet = sent[s][T + CountTo(events', i, MessageOf(s))]
        <2> SUFFICES ASSUME NEW i \in 1 .. Len(events'), events'[i] \in MessageOf(s)
                     PROVE  IsSent(s, T + CountTo(events', i, MessageOf(s)), events'[i].packet)
            BY DEF IsSent
        <2>1. CASE i \in 1 .. Len(events)
            BY <1>7, <1>9, <2>1 DEF PipeOf, InChannelInv
        <2>2. CASE i = Len(events) + 1
            <3>1. events'[i].packet = hand[s]
                BY <1>7, <2>2
            <3>2. CountTo(events', i, MessageOf(s)) = C + 1
                BY <1>7, <1>9, <2>2
            <3>3. T + (C + 1) = T + C + 1
                BY <1>10
            <3> HIDE DEF T, C
            <3> QED
                BY <1>12, <3>1, <3>2, <3>3
        <2> QED
            BY <1>7, <2>1, <2>2
    <1>14. InChannelInv(s)'
        BY <1>2, <1>10, <1>13 DEF InChannelInv, IsSent, MessageOf, MaybePacket, PacketIds, NoPacket
    <1>15. PassedInv(s)'
        BY <1>2 DEF PipeOf, PassedInv, IsSent
    <1>16. InHandInv(s)'
        BY <1>4 DEF InHandInv
    <1>17. Live(s)' => Live(s)
        BY <1>2, <1>4 DEF Live, Subscribed
    <1>18. WaitingInv(s)'
        BY <1>2, <1>11, <1>17 DEF PipeOf, WaitingInv, IsSent
    <1> QED
        BY <1>6, <1>14, <1>15, <1>16, <1>18 DEF PipeOf

\* The subscriber receives what its transport has broadcast.
LEMMA PipeRecv ==
    ASSUME TypeInv, TypeInv', NEW s \in Sids, \A x \in Sids : PipeOf(x), Recv(s), ~ Move(s, "ended")
    PROVE  \A x \in Sids : PipeOf(x)'
    <1> DEFINE q == tevents[s]
               r == tevents'[s]
    <1>1. /\ pc[s] = "recv" /\ ~ lagged[s] /\ q # <<>> /\ Head(q) \in TransportEvent
          /\ \/ /\ Head(q)[1] = "close" /\ ready' = [ready EXCEPT ![s] = "Closed"]
                /\ \E l \in {"close_event", "recv"} : Goto(s, l)
             \/ /\ Head(q)[1] # "close" /\ UNCHANGED ready
                /\ \E l \in {"recv", "panicked", "message", "send"} :
                     /\ Goto(s, l)
                     /\ l = "message" => ready[s] = "Open"
                     /\ ready[s] = "Open" /\ l # "panicked" =>
                           (l = "message" <=> Head(q)[1] = "message")
          /\ hand' = [hand EXCEPT ![s] = Head(q)[2]] /\ tevents' = [tevents EXCEPT ![s] = Tail(@)]
          /\ UNCHANGED <<lagged, events, sent, passed>>
        BY RecvFacts, Zenon DEF history
    <1>2. /\ q \in Seq(TransportEvent) /\ Len(q) \in Nat /\ r = Tail(q) /\ hand'[s] = Head(q)[2]
          /\ \A x \in Sids \ {s} : tevents'[x] = tevents[x] /\ hand'[x] = hand[x]
        BY <1>1 DEF TypeInv, SocketsInv
    <1>3. /\ Head(q) = q[1] /\ 1 \in 1 .. Len(q) /\ Len(r) \in Nat /\ Len(q) = Len(r) + 1
          /\ \A i \in 1 .. Len(r) : r[i] = q[i + 1]
        <2>1. Head(q) = q[1] /\ Tail(q) \in Seq(TransportEvent) /\ Len(q) # 0
            BY <1>1, <1>2
        <2>2. /\ Len(Tail(q)) = Len(q) - 1
              /\ \A i \in 1 .. Len(Tail(q)) : Tail(q)[i] = q[i + 1]
            BY <1>1, <1>2
        <2>3. r = Tail(q)
            BY <1>2
        <2> HIDE DEF q, r
        <2> QED
            BY <1>2, <2>1, <2>2, <2>3
    <1>4. \A x \in Sids \ {s} : ready'[x] = ready[x]
        BY <1>1 DEF TypeInv, SocketsInv
    <1>5. /\ \A x \in Sids \ {s} : pc'[x] = pc[x]
          /\ pc'[s] = "message" => Live(s) /\ q[1][1] = "message"
          /\ Live(s)' => Live(s) /\ (pc'[s] = "message" <=> q[1][1] = "message")
        <2>1. PICK l \in {"close_event", "recv", "panicked", "message", "send"} :
                /\ Goto(s, l)
                /\ \/ /\ q[1][1] = "close" /\ ready' = [ready EXCEPT ![s] = "Closed"]
                      /\ l \in {"close_event", "recv"}
                   \/ /\ UNCHANGED ready /\ (l = "message" => ready[s] = "Open")
                      /\ ready[s] = "Open" /\ l # "panicked" =>
                            (l = "message" <=> q[1][1] = "message")
            BY <1>1, <1>3
        <2>2. pc'[s] = l /\ \A x \in Sids \ {s} : pc'[x] = pc[x]
            BY <2>1, GotoFacts, TaskFacts DEF TypeInv
        <2>3. Subscribed(s) /\ (Live(s)' => l # "panicked")
            BY <1>1, <2>2 DEF Live, Subscribed
        <2>4. CASE ready' = [ready EXCEPT ![s] = "Closed"] /\ l \in {"close_event", "recv"}
            <3>1. ready'[s] = "Closed"
                BY <2>4 DEF TypeInv, SocketsInv
            <3> QED
                BY <2>2, <2>4, <3>1 DEF Live
        <2>5. CASE /\ UNCHANGED ready /\ (l = "message" => ready[s] = "Open")
                   /\ ready[s] = "Open" /\ l # "panicked" =>
                         (l = "message" <=> q[1][1] = "message")
            <3>1. Live(s)' => ready[s] = "Open" /\ Live(s)
                BY <1>1, <2>3, <2>5 DEF Live
            <3>2. l = "message" => Live(s)
                BY <1>1, <2>3, <2>5 DEF Live
            <3> QED
                BY <2>2, <2>3, <2>5, <3>1, <3>2 DEF Live
        <2> QED
            BY <2>1, <2>4, <2>5
    <1>6. \A x \in Sids : PassedSame(x) /\ ChannelSame(x) /\ SentGrows(x)
        BY <1>1, PassedKeep DEF SentGrows, ChannelSame, NumInChannel
    <1>7. \A x \in Sids \ {s} : PipeOf(x)'
        <2> TAKE x \in Sids \ {s}
        <2>1. Live(x)' => Live(x)
            BY <1>1, <1>4, <1>5 DEF Live, Subscribed
        <2> QED
            BY <1>1, <1>2, <1>5, <1>6, <2>1, PipeKeep
    <1> DEFINE N == NumTaken(s)
               d == IF q[1] \in NewMessage THEN 1 ELSE 0
    <1>8. q[1] \in NewMessage <=> q[1][1] = "message"
        BY <1>1, <1>3 DEF TransportEvent, NewMessage
    <1>9. CountTo(q, 1, NewMessage) = d
        <2> HIDE DEF q
        <2>1. PICK m \in Nat : m = 0
            OBVIOUS
        <2>2. CountTo(q, m + 1, NewMessage)
                 = CountTo(q, m, NewMessage) + (IF q[m + 1] \in NewMessage THEN 1 ELSE 0)
            BY CountNext
        <2>3. CountTo(q, 0, NewMessage) = 0
            BY CountZero
        <2> QED
            BY <2>1, <2>2, <2>3
    <1>10. /\ N \in Nat /\ NumPassed(s) \in Nat /\ NumInChannel(s) \in Nat
           /\ N = NumPassed(s) + NumInChannel(s)
        BY <1>1, PipeLens DEF NumTaken, NumInHand
    <1>11. NumTaken(s)' = N + (IF pc'[s] = "message" THEN 1 ELSE 0)
        BY <1>6, <1>10 DEF PassedSame, ChannelSame, NumTaken, NumInHand
    <1>12. InHandInv(s)'
        <2>1. CASE pc'[s] = "message"
            <3>1. IsSent(s, N + CountTo(q, 1, NewMessage), q[1][2])
                BY <1>3, <1>5, <1>8, <2>1 DEF PipeOf, WaitingInv
            <3>2. N + CountTo(q, 1, NewMessage) = NumPassed(s) + NumInChannel(s) + 1
                BY <1>5, <1>8, <1>9, <1>10, <2>1
            <3>3. NumPassed(s)' = NumPassed(s) /\ NumInChannel(s)' = NumInChannel(s)
                BY <1>6 DEF PassedSame, ChannelSame
            <3> HIDE DEF q, N
            <3> QED
                BY <1>1, <1>2, <1>3, <3>1, <3>2, <3>3 DEF InHandInv, IsSent
        <2> QED
            BY <2>1 DEF InHandInv
    <1>13. \A i \in 0 .. Len(r) : CountTo(q, i + 1, NewMessage) = CountTo(r, i, NewMessage) + d
        <2> SUFFICES ASSUME NEW i \in 0 .. Len(r)
                     PROVE  CountTo(q, i + 1, NewMessage) = CountTo(r, i, NewMessage) + d
            OBVIOUS
        <2>1. i \in Nat /\ \A j \in 1 .. i : r[j] = q[j + 1]
            BY <1>3
        <2> HIDE DEF q, r
        <2> QED
            BY <2>1, CountTail
    <1>14. WaitingInv(s)'
        <2> SUFFICES ASSUME Live(s)'
                     PROVE  /\ NumTaken(s)' + CountTo(r, Len(r), NewMessage) = Len(sent[s])
                            /\ \A i \in 1 .. Len(r) : r[i] \in NewMessage =>
                                  IsSent(s, NumTaken(s)' + CountTo(r, i, NewMessage), r[i][2])
            BY <1>1 DEF WaitingInv, IsSent
        <2>1. NumTaken(s)' = N + d /\ d \in Nat
            BY <1>5, <1>8, <1>11
        <2>2. /\ N + CountTo(q, Len(q), NewMessage) = Len(sent[s])
              /\ \A i \in 1 .. Len(q) : q[i] \in NewMessage =>
                    IsSent(s, N + CountTo(q, i, NewMessage), q[i][2])
            BY <1>5 DEF PipeOf, WaitingInv
        <2>3. \A i \in 0 .. Len(r) : /\ CountTo(r, i, NewMessage) \in Nat
                                     /\ N + CountTo(q, i + 1, NewMessage)
                                           = NumTaken(s)' + CountTo(r, i, NewMessage)
            <3> SUFFICES ASSUME NEW i \in 0 .. Len(r)
                         PROVE  /\ CountTo(r, i, NewMessage) \in Nat
                                /\ N + CountTo(q, i + 1, NewMessage)
                                      = NumTaken(s)' + CountTo(r, i, NewMessage)
                OBVIOUS
            <3>1. i \in Nat
                BY <1>3
            <3>2. CountTo(r, i, NewMessage) \in Nat
                BY <3>1, CountNat
            <3>3. CountTo(q, i + 1, NewMessage) = CountTo(r, i, NewMessage) + d
                BY <1>13
            <3> HIDE DEF q, r, N, d
            <3> QED
                BY <1>10, <2>1, <3>2, <3>3
        <2>4. NumTaken(s)' + CountTo(r, Len(r), NewMessage) = Len(sent[s])
            BY <1>3, <2>2, <2>3
        <2>5. ASSUME NEW i \in 1 .. Len(r), r[i] \in NewMessage
              PROVE  IsSent(s, NumTaken(s)' + CountTo(r, i, NewMessage), r[i][2])
            <3>1. i + 1 \in 1 .. Len(q) /\ r[i] = q[i + 1] /\ i \in 0 .. Len(r)
                BY <1>3
            <3>2. IsSent(s, N + CountTo(q, i + 1, NewMessage), q[i + 1][2])
                BY <2>2, <2>5, <3>1
            <3> QED
                BY <2>3, <3>1, <3>2
        <2> QED
            BY <2>4, <2>5
    <1>15. PassedInv(s)' /\ InChannelInv(s)'
        BY <1>6, PipeHold
    <1> QED
        BY <1>7, <1>12, <1>14, <1>15 DEF PipeOf

\* The loop takes the next event from the channel and passes on a message.
LEMMA PipeTake ==
    ASSUME TypeInv, TypeInv', NEW s \in Sids, PipeOf(s), LoopRecv
    PROVE  PipeOf(s)'
    <1>1. PICK e \in SocketEvent :
             /\ events # <<>> /\ e = events[1]
             /\ events' \in Seq(SocketEvent) /\ Len(events') = Len(events) - 1
             /\ \A i \in 1 .. Len(events') : events'[i] = events[i + 1]
             /\ \/ e.kind \in {"flush", "drain", "message"} /\ Forward(e.kind, e.sid, e.packet)
                \/ e.kind \notin {"flush", "drain", "message"} /\ UNCHANGED passed
             /\ UNCHANGED <<clients, sockets, control, known, sent>>
        BY LoopFacts
    <1> DEFINE M == MessageOf(s)
               f == passed[s]
               g == passed'[s]
               T == NumPassed(s)
               C == NumInChannel(s)
               d == IF e \in M THEN 1 ELSE 0
               taken == <<"message", e.packet>>
    <1>2. /\ e.sid \in Sids /\ e.kind \in EventKinds /\ e.packet \in MaybePacket
          /\ UNCHANGED <<ready, lagged, tevents, hand, pc, sent>>
        BY <1>1 DEF SocketEvent, sockets, control
    <1>3. e \in M <=> e.kind = "message" /\ e.sid = s
        BY MessageFacts
    <1>4. /\ e \in M => g = Append(f, taken)
          /\ e \notin M => g = f
        <2>1. CASE e.kind \in {"flush", "drain", "message"} /\ Forward(e.kind, e.sid, e.packet)
            <3>1. /\ \A x \in Sids \ {e.sid} : passed'[x] = passed[x]
                  /\ passed'[e.sid] = IF e.kind \in {"connection", "message", "close"}
                                         THEN Append(passed[e.sid], <<e.kind, e.packet>>)
                                         ELSE passed[e.sid]
                BY <1>2, <2>1, ForwardFacts DEF TypeInv
            <3>2. CASE e \in M
                BY <1>3, <3>1, <3>2
            <3>3. CASE e \notin M
                <4>1. e.sid # s \/ e.kind \in {"flush", "drain"}
                    BY <1>3, <2>1, <3>3
                <4> QED
                    BY <3>1, <3>3, <4>1
            <3> QED
                BY <3>2, <3>3
        <2>2. CASE e.kind \notin {"flush", "drain", "message"} /\ UNCHANGED passed
            BY <1>3, <2>2
        <2> QED
            BY <1>1, <2>1, <2>2
    <1>5. /\ Len(f) \in Nat /\ Len(events) \in Nat /\ T \in Nat /\ C \in Nat
          /\ f \in Seq(OwnerEvent) /\ Len(events') \in Nat /\ Len(events) = Len(events') + 1
          /\ 1 \in 1 .. Len(events)
        <2>1. /\ Len(f) \in Nat /\ Len(events) \in Nat /\ T \in Nat /\ C \in Nat
              /\ f \in Seq(OwnerEvent)
            BY PipeLens
        <2>2. Len(events') \in Nat
            BY <1>1
        <2> QED
            BY <1>1, <2>1, <2>2
    <1>6. \A i \in 0 .. Len(events') : /\ CountTo(events', i, M) \in Nat
                                       /\ CountTo(events, i + 1, M) = CountTo(events', i, M) + d
        <2> SUFFICES ASSUME NEW i \in 0 .. Len(events')
                     PROVE  /\ CountTo(events', i, M) \in Nat
                            /\ CountTo(events, i + 1, M) = CountTo(events', i, M) + d
            OBVIOUS
        <2>1. i \in Nat /\ \A j \in 1 .. i : events'[j] = events[j + 1]
            BY <1>1, <1>5
        <2>2. CountTo(events, i + 1, M)
                 = CountTo(events', i, M) + (IF events[1] \in M THEN 1 ELSE 0)
            <3> HIDE DEF M
            <3> QED
                BY <2>1, CountTail
        <2> QED
            BY <1>1, <2>1, <2>2, CountNat
    <1>7. CountTo(events', Len(events'), M) \in Nat /\ C = CountTo(events', Len(events'), M) + d
        BY <1>5, <1>6 DEF NumInChannel
    <1>8. CountTo(events, 1, M) = d
        <2>1. CountTo(events, 0 + 1, M) = CountTo(events', 0, M) + d /\ 0 + 1 = 1
            BY <1>5, <1>6
        <2>2. CountTo(events', 0, M) = 0
            BY CountZero
        <2> HIDE DEF M, d
        <2> QED
            BY <2>1, <2>2 DEF d
    <1>9. e \in M => /\ Len(g) = Len(f) + 1 /\ g[Len(f) + 1] = taken
                     /\ \A i \in 1 .. Len(f) : g[i] = f[i]
        <2> SUFFICES ASSUME e \in M
                     PROVE  /\ Len(g) = Len(f) + 1 /\ g[Len(f) + 1] = taken
                            /\ \A i \in 1 .. Len(f) : g[i] = f[i]
            OBVIOUS
        <2>1. taken \in OwnerEvent
            BY <1>2 DEF OwnerEvent
        <2> QED
            BY <1>4, <1>5, <2>1
    <1>10. e \in M =>
              /\ \A i \in 1 .. Len(f) : CountTo(g, i, PassedMessage) = CountTo(f, i, PassedMessage)
              /\ CountTo(g, Len(f) + 1, PassedMessage) = T + 1
        <2> SUFFICES ASSUME e \in M
                     PROVE  /\ \A i \in 1 .. Len(f) :
                                  CountTo(g, i, PassedMessage) = CountTo(f, i, PassedMessage)
                            /\ CountTo(g, Len(f) + 1, PassedMessage) = T + 1
            OBVIOUS
        <2>1. taken \in PassedMessage
            BY <1>2 DEF PassedMessage
        <2>2. PICK m \in Nat : m = Len(f)
            BY <1>5
        <2>3. \A i \in 1 .. m : g[i] = f[i]
            BY <1>9, <2>2
        <2> DEFINE P == PassedMessage
        <2> HIDE DEF f, g, taken, P
        <2>4. \A i \in 1 .. m : CountTo(g, i, P) = CountTo(f, i, P)
            <3> TAKE i \in 1 .. m
            <3>1. {j \in 1 .. i : f[j] \in P} = {j \in 1 .. i : g[j] \in P}
                BY <2>3
            <3> QED
                BY <3>1 DEF CountTo
        <2>5. CountTo(g, m, P) = CountTo(f, m, P)
            <3>1. {j \in 1 .. m : f[j] \in P} = {j \in 1 .. m : g[j] \in P}
                BY <2>3
            <3> QED
                BY <3>1 DEF CountTo
        <2>6. CountTo(g, m + 1, P) = CountTo(g, m, P) + (IF g[m + 1] \in P THEN 1 ELSE 0)
            BY CountNext
        <2>7. /\ \A i \in 1 .. m : CountTo(g, i, PassedMessage) = CountTo(f, i, PassedMessage)
              /\ CountTo(g, m + 1, PassedMessage) = CountTo(f, m, PassedMessage)
                    + (IF g[m + 1] \in PassedMessage THEN 1 ELSE 0)
            BY <2>4, <2>5, <2>6 DEF P
        <2> QED
            BY <1>9, <2>1, <2>2, <2>7 DEF NumPassed, f
    <1>11. NumPassed(s)' = T + d
        <2>1. NumPassed(s)' = CountTo(g, Len(g), PassedMessage)
            BY DEF NumPassed, PassedMessage, MaybePacket, PacketIds, NoPacket
        <2>2. CASE e \in M
            BY <1>9, <1>10, <2>1, <2>2
        <2>3. CASE e \notin M
            <3>1. CountTo(g, Len(g), PassedMessage) = T
                BY <1>4, <2>3 DEF NumPassed
            <3> HIDE DEF T, M
            <3> QED
                BY <1>5, <2>1, <2>3, <3>1
        <2> QED
            BY <2>2, <2>3
    <1>12. NumInChannel(s)' = CountTo(events', Len(events'), M)
        BY DEF NumInChannel, MessageOf, MaybePacket, PacketIds, NoPacket
    <1>13. T + C = NumPassed(s)' + NumInChannel(s)' /\ NumTaken(s)' = NumTaken(s)
        <2>1. T + C = NumPassed(s)' + NumInChannel(s)'
            <3> HIDE DEF T, C, M
            <3> QED
                BY <1>5, <1>7, <1>11, <1>12
        <2>2. NumInHand(s)' = NumInHand(s)
            BY <1>2 DEF NumInHand
        <2> QED
            BY <2>1, <2>2 DEF NumTaken
    <1>14. PassedInv(s)'
        <2> SUFFICES ASSUME NEW i \in 1 .. Len(g), g[i] \in PassedMessage
                     PROVE  IsSent(s, CountTo(g, i, PassedMessage), g[i][2])
            BY <1>2 DEF PassedInv, IsSent, PassedMessage, MaybePacket, PacketIds, NoPacket
        <2>1. CASE e \notin M
            BY <1>4, <2>1 DEF PipeOf, PassedInv
        <2>2. CASE e \in M /\ i \in 1 .. Len(f)
            BY <1>9, <1>10, <2>2 DEF PipeOf, PassedInv
        <2>3. CASE e \in M /\ i = Len(f) + 1
            <3>1. IsSent(s, T + CountTo(events, 1, M), e.packet)
                BY <1>1, <1>5, <2>3 DEF PipeOf, InChannelInv
            <3>2. CountTo(g, i, PassedMessage) = T + CountTo(events, 1, M)
                BY <1>8, <1>10, <2>3
            <3>3. g[i][2] = e.packet
                BY <1>9, <2>3
            <3> QED
                BY <3>1, <3>2, <3>3
        <2>4. e \in M => i \in 1 .. Len(f) \/ i = Len(f) + 1
            BY <1>5, <1>9
        <2> QED
            BY <2>1, <2>2, <2>3, <2>4
    <1>15. InChannelInv(s)'
        <2> SUFFICES ASSUME NEW i \in 1 .. Len(events'), events'[i] \in M
                     PROVE  IsSent(s, NumPassed(s)' + CountTo(events', i, M), events'[i].packet)
            BY <1>2 DEF InChannelInv, IsSent, MessageOf, MaybePacket, PacketIds, NoPacket
        <2>1. i + 1 \in 1 .. Len(events) /\ events'[i] = events[i + 1] /\ i \in 0 .. Len(events')
            BY <1>1, <1>5
        <2>2. IsSent(s, T + CountTo(events, i + 1, M), events[i + 1].packet)
            BY <2>1 DEF PipeOf, InChannelInv
        <2>3. T + CountTo(events, i + 1, M) = NumPassed(s)' + CountTo(events', i, M)
            <3>1. CountTo(events', i, M) \in Nat /\ CountTo(events, i + 1, M) = CountTo(events', i, M) + d
                BY <1>6, <2>1
            <3> HIDE DEF T, M
            <3> QED
                BY <1>5, <1>11, <3>1
        <2> QED
            BY <2>1, <2>2, <2>3
    <1>16. InHandInv(s)'
        <2>1. ASSUME pc[s] = "message"
              PROVE  IsSent(s, NumPassed(s)' + NumInChannel(s)' + 1, hand[s])
            BY <1>13, <2>1 DEF PipeOf, InHandInv
        <2> QED
            BY <1>2, <2>1 DEF InHandInv, IsSent
    <1>17. Live(s)' => Live(s)
        BY <1>2 DEF Live, Subscribed
    <1>18. WaitingInv(s)'
        BY <1>2, <1>13, <1>17 DEF PipeOf, WaitingInv, IsSent
    <1> QED
        BY <1>14, <1>15, <1>16, <1>18 DEF PipeOf

\* A subscriber starts with nothing on its way.
LEMMA PipeSubscribe ==
    ASSUME TypeInv, TypeInv', SocketInv, \A x \in Sids : PipeOf(x), NEW r \in Requests, Subscribe(r)
    PROVE  \A x \in Sids : PipeOf(x)'
    <1>1. PICK s \in Sids :
          /\ s = sid[r] /\ r \in Tasks /\ pc[s] = "idle"
          /\ pc' = [pc EXCEPT ![r] = "respond", ![s] = "recv"]
          /\ UNCHANGED <<ready, lagged, events, tevents, sent, hand, passed>>
        BY TaskFacts DEF Subscribe, TypeInv, ControlInv, WithSocket, HandshakeSteps, SocketInv,
                         OwnInv, Opening, sockets, history
    <1>2. pc'[s] = "recv" /\ \A x \in Sids \ {s} : pc'[x] = pc[x]
        BY <1>1, TaskFacts DEF TypeInv, ControlInv
    <1>3. \A x \in Sids : PassedSame(x) /\ ChannelSame(x) /\ SentGrows(x)
        BY <1>1, PassedKeep DEF SentGrows, ChannelSame, NumInChannel
    <1>4. \A x \in Sids \ {s} : PipeOf(x)'
        <2> TAKE x \in Sids \ {s}
        <2>1. Live(x)' => Live(x)
            BY <1>1, <1>2 DEF Live, Subscribed
        <2> QED
            BY <1>1, <1>2, <1>3, <2>1, PipeKeep
    <1>5. /\ tevents[s] = <<>> /\ sent[s] = <<>> /\ passed[s] = <<>>
          /\ \A i \in 1 .. Len(events) : events[i] \notin MessageOf(s)
        BY <1>1 DEF SocketInv, IdleInv, MessageOf
    <1>6. Len(tevents[s]) = 0 /\ Len(sent[s]) = 0 /\ Len(passed[s]) = 0
        BY <1>5
    <1>7. NumPassed(s) = 0 /\ CountTo(tevents[s], Len(tevents[s]), NewMessage) = 0
        BY <1>6, CountZero DEF NumPassed
    <1>8. NumInChannel(s) = 0
        <2>1. {i \in 1 .. Len(events) : events[i] \in MessageOf(s)} = {}
            BY <1>5
        <2> QED
            BY <2>1, FS_EmptySet DEF NumInChannel, CountTo
    <1>9. NumTaken(s)' = 0
        <2>1. NumPassed(s)' = 0 /\ NumInChannel(s)' = 0 /\ NumInHand(s)' = 0
            BY <1>1, <1>2, <1>3, <1>7, <1>8 DEF PassedSame, ChannelSame, NumInHand
        <2> QED
            BY <2>1 DEF NumTaken
    <1>10. WaitingInv(s)'
        <2>1. \A i \in 1 .. Len(tevents[s]) : FALSE
            BY <1>6
        <2> QED
            BY <1>1, <1>6, <1>7, <1>9, <2>1 DEF WaitingInv
    <1>11. PassedInv(s)' /\ InChannelInv(s)' /\ InHandInv(s)'
        BY <1>1, <1>2, <1>3, PipeHold
    <1> QED
        BY <1>4, <1>10, <1>11 DEF PipeOf

\* The steps of requests: a data request broadcasts what it posts.
LEMMA PipeRequest ==
    ASSUME TypeInv, TypeInv', SocketInv, \A x \in Sids : PipeOf(x), NEW r \in Requests,
           Arrive(r) \/ RequestStep(r) \/ Handshake(r)
    PROVE  \A x \in Sids : PipeOf(x)'
    <1>0. r \in Tasks /\ r \notin Sids
        BY TaskFacts
    <1>1. Adds(r, "open") \/ events' # events
        BY <1>0, AddsFacts DEF EventKinds
    <1>2. "open" \in EventKinds \ {"message"}
        BY DEF EventKinds
    <1>3. CASE Arrive(r) \/ VerifyRequest(r) \/ GetClient(r) \/ HandlePollingRequest(r)
        <2>1. /\ \E l : Goto(r, l)
              /\ UNCHANGED <<ready, lagged, events, tevents, sent, hand, passed>>
            BY <1>3 DEF Arrive, VerifyRequest, GetClient, HandlePollingRequest, Move, sockets, history
        <2> QED
            BY <1>0, <2>1, PipeSilent
    <1>4. CASE Initial(r) \/ Respond(r)
        <2>1. /\ \E l : Goto(r, l)
              /\ UNCHANGED <<ready, lagged, events, tevents, sent, hand, passed>>
            BY <1>4 DEF Initial, CallSend, Respond, Reply, Answer, Move, sockets, history
        <2> QED
            BY <1>0, <2>1, PipeSilent
    <1>5. CASE HandleDataRequest(r)
        <2>1. CASE Goto(r, "ok") /\ UNCHANGED <<tevents, lagged, sent>>
            <3>1. UNCHANGED <<ready, lagged, events, tevents, sent, hand, passed>>
                BY <1>5, <2>1 DEF HandleDataRequest
            <3> QED
                BY <1>0, <2>1, <3>1, PipeSilent
        <2>2. CASE unsent[r] # <<>>
            <3> DEFINE p == <<r, Len(request[r].body) - Len(unsent[r]) + 1>>
            <3>1. /\ Broadcast(sid[r], Head(unsent[r]), p)
                  /\ UNCHANGED <<ready, pc, hand, events, passed>>
                BY <1>5, <2>2 DEF HandleDataRequest
            <3>2. sid[r] \in Sids /\ Head(unsent[r]) \in Packets /\ p \in PacketIds
                BY <1>5, <2>2, DataFacts DEF HandleDataRequest
            <3> HIDE DEF p
            <3> QED
                BY <3>1, <3>2, PipeBroadcast
        <2> QED
            BY <1>5, <2>1, <2>2 DEF HandleDataRequest
    <1>6. CASE NewSocket(r)
        <2>1. PICK s \in Sids :
                /\ ready[s] = "unborn" /\ ready' = [ready EXCEPT ![s] = "Opening"] /\ Goto(r, "open")
                /\ UNCHANGED <<lagged, events, tevents, sent, hand, passed>>
            BY <1>6 DEF NewSocket, IsNext, history
        <2>2. \A x \in Sids : pc'[x] = pc[x]
            BY <1>0, <2>1, GotoFacts, TaskFacts DEF TypeInv
        <2>3. \A x \in Sids : Live(x)' => Live(x)
            BY <2>1, <2>2 DEF Live, Subscribed, TypeInv, SocketsInv
        <2> QED
            BY <1>0, <1>1, <1>2, <2>1, <2>2, <2>3, PipeQuiet
    <1>7. CASE Open(r)
        <2>1. /\ pc[r] = "open" /\ sid[r] \in Sids /\ ready' = [ready EXCEPT ![sid[r]] = "Open"]
              /\ UNCHANGED <<lagged, events, tevents, sent, hand, passed>>
              /\ \E l : Goto(r, l)
            BY <1>7 DEF Open, CallSend, TypeInv, ControlInv, WithSocket, HandshakeSteps, history
        <2>2. pc[sid[r]] = "idle"
            BY <2>1 DEF SocketInv, OwnInv, Opening
        <2>3. \A x \in Sids : pc'[x] = pc[x]
            BY <1>0, <2>1, GotoFacts, TaskFacts DEF TypeInv
        <2>4. \A x \in Sids \ {sid[r]} : ready'[x] = ready[x]
            BY <2>1 DEF TypeInv, SocketsInv
        <2>5. \A x \in Sids : Live(x)' => Live(x)
            BY <2>1, <2>2, <2>3, <2>4 DEF Live, Subscribed
        <2> QED
            BY <1>0, <1>1, <1>2, <2>1, <2>3, <2>5, PipeQuiet
    <1>8. CASE OpenEvent(r)
        <2>1. sid[r] \in Sids
            BY <1>8 DEF OpenEvent, TypeInv, ControlInv, WithSocket, HandshakeSteps
        <2> QED
            BY <1>0, <1>2, <1>8, <2>1, PipeEmitted DEF OpenEvent
    <1>9. CASE Subscribe(r)
        BY <1>9, PipeSubscribe
    <1>10. CASE Connection(r)
        <2>1. /\ sid[r] \in Sids /\ Forward("connection", sid[r], NoPacket)
              /\ \E l : Goto(r, l)
              /\ UNCHANGED <<ready, lagged, events, tevents, sent, hand>>
              /\ NoPacket \in MaybePacket
            BY <1>10 DEF Connection, Answer, TypeInv, ControlInv, WithSocket, HandshakeSteps,
                         sockets, MaybePacket
        <2>2. \A x \in Sids : \/ passed'[x] = passed[x]
                              \/ passed'[x] = Append(passed[x], <<"connection", NoPacket>>)
            BY <2>1, ForwardFacts DEF TypeInv
        <2>3. \A x \in Sids : pc'[x] = pc[x]
            BY <1>0, <2>1, GotoFacts, TaskFacts DEF TypeInv
        <2>4. \A x \in Sids : Live(x)' => Live(x)
            BY <2>1, <2>3 DEF Live, Subscribed
        <2> QED
            BY <1>0, <1>1, <1>2, <2>1, <2>2, <2>3, <2>4, PipeQuiet
    <1> QED
        BY <1>3, <1>4, <1>5, <1>6, <1>7, <1>8, <1>9, <1>10 DEF RequestStep, Handshake

\* The steps of send_packet.
LEMMA PipeSend ==
    ASSUME TypeInv, TypeInv', \A x \in Sids : PipeOf(x), NEW t \in Tasks, SendPacket(t)
    PROVE  \A x \in Sids : PipeOf(x)'
    <1>1. /\ pc[t] \in SendSteps /\ sid[t] \in Sids
          /\ t \in Sids => ret[t] = "heartbeat"
        BY RetFacts DEF SendPacket, Send, FlushEvent, DrainEvent, TypeInv, SendSteps
    <1>2. pc[t] # "message" /\ (t \in Sids => Subscribed(t))
        BY <1>1 DEF SendSteps, Subscribed
    <1>3. {"flush", "drain"} \subseteq EventKinds \ {"message"}
        BY DEF EventKinds
    <1>4. CASE Send(t)
        <2>1. /\ \E l \in {"flush_event", ret[t]} : Goto(t, l)
              /\ UNCHANGED <<ready, lagged, events, tevents, sent, hand, passed>>
            BY <1>4 DEF Send, Move, sockets, history
        <2> QED
            BY <1>1, <1>2, <2>1, PipeSilent
    <1>5. CASE FlushEvent(t)
        BY <1>1, <1>2, <1>3, <1>5, PipeEmitted DEF FlushEvent
    <1>6. CASE DrainEvent(t)
        BY <1>1, <1>2, <1>3, <1>6, PipeEmitted DEF DrainEvent
    <1> QED
        BY <1>4, <1>5, <1>6 DEF SendPacket

\* A subscriber takes a message in its hand and puts it into the channel.
LEMMA PipeSubscriber ==
    ASSUME TypeInv, TypeInv', NEW s \in Sids, \A x \in Sids : PipeOf(x), SubscriberStep(s)
    PROVE  \A x \in Sids : PipeOf(x)'
    <1>0. s \in Tasks /\ sid[s] = s
        BY TaskFacts DEF TypeInv, ControlInv
    <1>1. CASE Recv(s)
        <2>1. CASE Move(s, "ended")
            <3>1. pc[s] = "recv" /\ Subscribed(s)
                BY <1>1, RecvFacts DEF Subscribed
            <3> QED
                BY <1>0, <2>1, <3>1, PipeSilent DEF Move, sockets, history
        <2> QED
            BY <1>1, <2>1, PipeRecv
    <1>2. CASE Heartbeat(s) \/ CloseEvent(s)
        <2>1. Subscribed(s) /\ pc[s] # "message"
            BY <1>2 DEF Heartbeat, CloseEvent, Subscribed
        <2> QED
            BY <1>0, <1>2, <2>1, PipeEmitted DEF Heartbeat, CloseEvent, EventKinds
    <1> QED
        BY <1>1, <1>2, PipeMessage DEF SubscriberStep

\* The loop removes the socket and passes on the Close.
LEMMA PipeRemove ==
    ASSUME TypeInv, TypeInv', \A x \in Sids : PipeOf(x), LoopRemove
    PROVE  \A x \in Sids : PipeOf(x)'
    <1>1. /\ loop \in Sids /\ Forward("close", loop, NoPacket)
          /\ UNCHANGED <<ready, lagged, tevents, hand, pc, events, sent>> /\ NoPacket \in MaybePacket
        BY DEF LoopRemove, MaybePacket, sockets, control
    <1>2. \A x \in Sids : \/ passed'[x] = passed[x]
                          \/ passed'[x] = Append(passed[x], <<"close", NoPacket>>)
        BY <1>1, ForwardFacts DEF TypeInv, EventKinds
    <1>3. loop \in Tasks /\ Adds(loop, "open") /\ "open" \in EventKinds \ {"message"}
        BY <1>1, AddsFacts, TaskFacts DEF EventKinds
    <1>4. \A x \in Sids : Live(x)' => Live(x)
        BY <1>1 DEF Live, Subscribed
    <1> QED
        BY <1>1, <1>2, <1>3, <1>4, PipeQuiet

\* PipeInv is inductive relative to TypeInv and SocketInv.
LEMMA PipeNext ==
    ASSUME TypeInv, TypeInv', SocketInv, PipeInv, [Next]_vars
    PROVE  PipeInv'
    <1> SUFFICES \A x \in Sids : PipeOf(x)'
        BY DEF PipeInv
    <1>1. \A x \in Sids : PipeOf(x)
        BY DEF PipeInv
    <1>2. ASSUME NEW s \in Sids,
                 UNCHANGED <<ready, lagged, tevents, hand, pc, events, sent, passed>>
          PROVE  PipeOf(s)'
        <2>1. PassedSame(s) /\ ChannelSame(s)
            BY <1>2, PassedKeep DEF ChannelSame, NumInChannel
        <2>2. Live(s)' => Live(s)
            BY <1>2 DEF Live, Subscribed
        <2> QED
            BY <1>1, <1>2, <2>1, <2>2, PipeKeep
    <1>3. CASE UNCHANGED vars \/ TrySubscribe
        <2>1. UNCHANGED <<ready, lagged, tevents, hand, pc, events, sent, passed>>
            BY <1>3 DEF TrySubscribe, vars, sockets, control, history
        <2> QED
            BY <1>2, <2>1
    <1>4. ASSUME NEW t \in Users, ServerSend(t) \/ CloseSocket(t)
          PROVE  \A x \in Sids : PipeOf(x)'
        <2>1. /\ \E l : Goto(t, l)
              /\ UNCHANGED <<ready, lagged, events, tevents, sent, hand, passed>>
            BY <1>4 DEF ServerSend, CloseSocket, sockets, history
        <2> QED
            BY <1>1, <2>1, TaskFacts, PipeSilent
    <1>5. ASSUME NEW s \in Sids, NEW k \in PeerEvents, PeerEvent(s, k)
          PROVE  \A x \in Sids : PipeOf(x)'
        <2>1. k \in Packets \cup {"close"} /\ \E p \in PacketIds : Broadcast(s, k, p)
            BY <1>5, PeerFacts
        <2>2. UNCHANGED <<ready, pc, hand, events, passed>>
            BY <1>5, PeerFacts DEF control
        <2> QED
            BY <1>1, <2>1, <2>2, PipeBroadcast
    <1>6. CASE EventLoop
        BY <1>1, <1>6, PipeTake, PipeRemove DEF EventLoop
    <1> QED
        BY <1>1, <1>3, <1>4, <1>5, <1>6, NextIs, PipeRequest, PipeSend, PipeSubscriber

\* No message is anywhere.
LEMMA PipeInit ==
    ASSUME Init
    PROVE  PipeInv
    <1>1. \A s \in Sids : passed[s] = <<>>
        BY DEF Init
    <1>2. ASSUME NEW s \in Sids
          PROVE  PipeOf(s)
        <2>1. Len(<<>>) = 0
            OBVIOUS
        <2>2. Len(passed[s]) = 0 /\ Len(events) = 0 /\ pc[s] = "idle"
            BY <1>1, <2>1, TaskFacts DEF Init
        <2>3. ~ Live(s)
            BY <2>2 DEF Live, Subscribed
        <2>4. (\A i \in 1 .. Len(passed[s]) : FALSE) /\ (\A i \in 1 .. Len(events) : FALSE)
            BY <2>2
        <2>5. pc[s] # "message"
            BY <2>2
        <2> QED
            BY <2>3, <2>4, <2>5 DEF PipeOf, PassedInv, InChannelInv, InHandInv, WaitingInv
    <1> QED
        BY <1>1, <1>2 DEF PipeInv

\* What is passed on under an id are the messages of that connection, in
\* order and without a gap (polling.rs:141-147, socket.rs:541-553,
\* server.rs:396-407).
THEOREM PassedInOrder == Spec => []PassedIsPrefix
    <1> DEFINE Inv == TypeInv /\ SocketInv /\ PipeInv
    <1>1. Init => Inv
        BY TypeInit, SocketInit, PipeInit
    <1>2. Inv /\ [Next]_vars => Inv'
        BY TypeNext, SocketNext, PipeNext
    <1>3. Inv => PassedIsPrefix
        <2> SUFFICES ASSUME Inv, NEW s \in Sids, NEW i \in DOMAIN passed[s],
                            passed[s][i][1] = "message"
                     PROVE  /\ Passed(s, i) <= Len(sent[s])
                            /\ passed[s][i][2] = sent[s][Passed(s, i)]
            BY DEF PassedIsPrefix
        <2>1. /\ passed[s] \in Seq(OwnerEvent) /\ Len(passed[s]) \in Nat
              /\ i \in 1 .. Len(passed[s])
            BY PipeLens DEF TypeInv, ChannelInv
        <2>2. \A j \in 1 .. Len(passed[s]) :
                 passed[s][j] \in PassedMessage <=> passed[s][j][1] = "message"
            <3> SUFFICES ASSUME NEW j \in 1 .. Len(passed[s])
                         PROVE  passed[s][j] \in PassedMessage <=> passed[s][j][1] = "message"
                OBVIOUS
            <3>1. passed[s][j] \in OwnerEvent
                BY <2>1
            <3> QED
                BY <3>1 DEF OwnerEvent, PassedMessage
        <2>3. {j \in 1 .. i : passed[s][j][1] = "message"}
                 = {j \in 1 .. i : passed[s][j] \in PassedMessage}
            BY <2>1, <2>2
        <2>4. Passed(s, i) = CountTo(passed[s], i, PassedMessage)
            BY <2>3 DEF Passed, CountTo
        <2>5. IsSent(s, CountTo(passed[s], i, PassedMessage), passed[s][i][2])
            BY <2>1, <2>2 DEF PipeInv, PipeOf, PassedInv
        <2>6. Len(sent[s]) \in Nat
            BY PipeLens
        <2> QED
            BY <2>4, <2>5, <2>6 DEF IsSent
    <1> HIDE DEF Inv
    <1>4. Spec => []Inv
        BY <1>1, <1>2, PTL DEF Spec
    <1> QED
        BY <1>3, <1>4, PTL

-------------------------------------------------------------------------------
(* Clients that are served *)

\* The places of a request that has a socket and has not yet subscribed to it.
Serving == Opening \cup
    {l \in {"panicked"} : ~({"get_available_upgrades", "set_ping_timeout"} \subseteq Implemented)}

ServedInv ==
    \A s \in Sids :
        /\ s \in clients /\ pc[s] = "idle" =>
              \E r \in Requests : sid[r] = s /\ pc[r] \in Serving
        /\ pc[s] = "ended" => lagged[s]

\* Whoever opens a socket goes on with it, panics or gives it its subscriber.
LEMMA ServedStep ==
    ASSUME ServedInv, clients' \subseteq clients,
           \A s \in Sids : /\ lagged[s] => lagged'[s]
                           /\ pc'[s] = "idle" => pc[s] = "idle"
                           /\ pc'[s] = "ended" => pc[s] = "ended" \/ lagged'[s],
           \A r \in Requests : pc[r] \in Serving =>
              \/ pc'[r] \in Serving /\ sid'[r] = sid[r]
              \/ pc'[sid[r]] # "idle"
    PROVE  ServedInv'
    <1> SUFFICES ASSUME NEW s \in Sids
                 PROVE  /\ s \in clients' /\ pc'[s] = "idle" =>
                              \E r \in Requests : sid'[r] = s /\ pc'[r] \in Serving
                        /\ pc'[s] = "ended" => lagged'[s]
        BY DEF ServedInv
    <1>1. /\ s \in clients /\ pc[s] = "idle" =>
                \E r \in Requests : sid[r] = s /\ pc[r] \in Serving
          /\ pc[s] = "ended" => lagged[s]
        BY DEF ServedInv
    <1>2. ASSUME s \in clients', pc'[s] = "idle"
          PROVE  \E r \in Requests : sid'[r] = s /\ pc'[r] \in Serving
        <2>1. PICK r \in Requests : sid[r] = s /\ pc[r] \in Serving
            BY <1>1, <1>2
        <2> QED
            BY <1>2, <2>1
    <1> QED
        BY <1>1, <1>2

\* The steps of one task.
LEMMA ServedMove ==
    ASSUME TypeInv, ServedInv, NEW t \in Tasks, NEW l, Goto(t, l),
           clients' \subseteq clients, lagged' = lagged,
           \A u \in Tasks \ {t} : sid'[u] = sid[u],
           t \in Requests /\ pc[t] \in Serving =>
              l \in Serving /\ sid'[t] = sid[t],
           t \in Sids => l # "idle" /\ (l = "ended" => lagged[t])
    PROVE  ServedInv'
    <1>1. pc'[t] = l /\ \A u \in Tasks \ {t} : pc'[u] = pc[u]
        BY GotoFacts DEF TypeInv
    <1>2. \A s \in Sids : /\ lagged[s] => lagged'[s]
                          /\ pc'[s] = "idle" => pc[s] = "idle"
                          /\ pc'[s] = "ended" => pc[s] = "ended" \/ lagged'[s]
        BY <1>1, TaskFacts
    <1>3. \A r \in Requests : pc[r] \in Serving =>
             pc'[r] \in Serving /\ sid'[r] = sid[r]
        BY <1>1, TaskFacts
    <1> QED
        BY <1>2, <1>3, ServedStep

\* A broadcast neither adds nor ends a subscriber.
LEMMA ServedBroadcast ==
    ASSUME TypeInv, ServedInv, NEW s \in Sids, NEW k \in Packets \cup {"close"},
           NEW p \in PacketIds, Broadcast(s, k, p), UNCHANGED <<clients, pc, sid>>
    PROVE  ServedInv'
    <1>1. \A x \in Sids : lagged[x] => lagged'[x]
        BY BroadcastFacts DEF TypeInv
    <1> QED
        BY <1>1, ServedStep

\* The steps of requests: the handshake that inserts a client is there to go on.
LEMMA ServedRequest ==
    ASSUME TypeInv, SocketInv, ServedInv, NEW r \in Requests,
           Arrive(r) \/ RequestStep(r) \/ Handshake(r)
    PROVE  ServedInv'
    <1> USE DEF Serving, Opening, SendSteps
    <1>0. r \in Tasks /\ r \notin Sids
        BY TaskFacts
    <1>1. CASE Arrive(r)
        <2>1. /\ pc[r] = "idle" /\ UNCHANGED <<clients, lagged>>
              /\ \E l \in {"rejected", "panicked", "verify", "handshake"} : Goto(r, l)
              /\ \E x : sid' = [sid EXCEPT ![r] = x]
            BY <1>1 DEF Arrive, Unless, sockets
        <2>2. \A u \in Tasks \ {r} : sid'[u] = sid[u]
            BY <2>1 DEF TypeInv, ControlInv
        <2> QED
            BY <1>0, <2>1, <2>2, ServedMove
    <1>2. CASE VerifyRequest(r) \/ GetClient(r) \/ HandlePollingRequest(r)
        <2>1. /\ pc[r] \in {"verify", "lookup", "polling"} /\ \E l : Goto(r, l)
              /\ UNCHANGED <<clients, lagged, sid>>
            BY <1>2 DEF VerifyRequest, GetClient, HandlePollingRequest, Move, sockets
        <2> QED
            BY <1>0, <2>1, ServedMove
    <1>3. CASE HandleDataRequest(r)
        <2>1. CASE Goto(r, "ok") /\ UNCHANGED <<clients, lagged, sid>> /\ pc[r] = "post"
            BY <1>0, <2>1, ServedMove
        <2>2. CASE unsent[r] # <<>>
            <3> DEFINE p == <<r, Len(request[r].body) - Len(unsent[r]) + 1>>
            <3>1. Broadcast(sid[r], Head(unsent[r]), p) /\ UNCHANGED <<clients, pc, sid>>
                BY <1>3, <2>2 DEF HandleDataRequest
            <3>2. sid[r] \in Sids /\ Head(unsent[r]) \in Packets /\ p \in PacketIds
                BY <1>3, <2>2, DataFacts DEF HandleDataRequest
            <3> HIDE DEF p
            <3> QED
                BY <3>1, <3>2, ServedBroadcast
        <2> QED
            BY <1>3, <2>1, <2>2 DEF HandleDataRequest
    <1>4. CASE NewSocket(r)
        <2>1. PICK s \in Sids :
                /\ pc[r] = "handshake" /\ clients' = clients \cup {s} /\ UNCHANGED lagged
                /\ sid' = [sid EXCEPT ![r] = s] /\ Goto(r, "open")
            BY <1>4 DEF NewSocket
        <2>2. pc'[r] = "open" /\ \A u \in Tasks \ {r} : pc'[u] = pc[u]
            BY <1>0, <2>1, GotoFacts DEF TypeInv
        <2>3. sid'[r] = s /\ \A u \in Tasks \ {r} : sid'[u] = sid[u]
            BY <1>0, <2>1 DEF TypeInv, ControlInv
        <2> SUFFICES ASSUME NEW x \in Sids
                     PROVE  /\ x \in clients' /\ pc'[x] = "idle" => \E q \in Requests :
                                  sid'[q] = x /\ pc'[q] \in Serving
                            /\ pc'[x] = "ended" => lagged'[x]
            BY DEF ServedInv
        <2>4. pc'[x] = "ended" => lagged'[x]
            BY <1>0, <2>1, <2>2, TaskFacts DEF ServedInv
        <2>5. CASE x = s
            BY <2>2, <2>3, <2>4, <2>5
        <2>6. ASSUME x # s, x \in clients', pc'[x] = "idle"
              PROVE  \E q \in Requests : sid'[q] = x /\ pc'[q] \in Serving
            <3>1. PICK q \in Requests : sid[q] = x /\ pc[q] \in Serving
                BY <1>0, <2>1, <2>2, <2>6, TaskFacts DEF ServedInv
            <3>2. q # r /\ q \in Tasks
                BY <2>1, <3>1, TaskFacts
            <3> QED
                BY <2>2, <2>3, <3>1, <3>2
        <2> QED
            BY <2>4, <2>5, <2>6
    <1>5. CASE Open(r) \/ OpenEvent(r) \/ Initial(r)
        <2>1. /\ \E l \in {"send", "initial", "subscribe"} \cup (Serving \cap {"panicked"}) : Goto(r, l)
              /\ UNCHANGED <<clients, lagged, sid>>
            BY <1>5 DEF Open, OpenEvent, Initial, CallSend, Move, Emit, Deliver, Unless, sockets
        <2> QED
            BY <1>0, <2>1, ServedMove
    <1>6. CASE Subscribe(r)
        <2>1. /\ pc[r] = "subscribe" /\ sid[r] \in Sids /\ UNCHANGED <<clients, lagged, sid>>
              /\ pc' = [pc EXCEPT ![r] = "respond", ![sid[r]] = "recv"]
            BY <1>6 DEF Subscribe, TypeInv, ControlInv, WithSocket, HandshakeSteps, sockets
        <2>2. /\ pc'[r] = "respond" /\ pc'[sid[r]] = "recv"
              /\ \A u \in Tasks \ {r, sid[r]} : pc'[u] = pc[u]
            BY <1>0, <2>1, TaskFacts DEF TypeInv, ControlInv
        <2>3. /\ \A s \in Sids : pc'[s] = pc[s] \/ pc'[s] = "recv"
              /\ \A q \in Requests \ {r} : pc'[q] = pc[q]
            BY <2>1, <2>2, TaskFacts
        <2> QED
            BY <2>1, <2>2, <2>3, ServedStep
    <1>7. CASE Respond(r) \/ Connection(r)
        <2>1. /\ pc[r] \in {"respond", "connection"} /\ \E l : Goto(r, l)
              /\ UNCHANGED <<clients, lagged, sid>>
            BY <1>7 DEF Respond, Connection, Reply, Answer, Move, sockets
        <2> QED
            BY <1>0, <2>1, ServedMove
    <1> QED
        BY <1>1, <1>2, <1>3, <1>4, <1>5, <1>6, <1>7 DEF RequestStep, Handshake

\* The steps of send_packet.
LEMMA ServedSend ==
    ASSUME TypeInv, ServedInv, NEW t \in Tasks, SendPacket(t)
    PROVE  ServedInv'
    <1> USE DEF Serving, Opening, SendSteps
    <1>1. /\ ret[t] \in {"ended", "heartbeat", "open_event", "subscribe"}
          /\ t \in Requests => ret[t] \in {"open_event", "subscribe"}
          /\ t \in Sids => ret[t] = "heartbeat"
        BY RetFacts DEF SendPacket, Send, FlushEvent, DrainEvent, TypeInv
    <1>2. /\ \E l \in {"flush_event", "drain_event", ret[t]} : Goto(t, l)
          /\ UNCHANGED <<clients, lagged, sid>>
        BY DEF SendPacket, Send, FlushEvent, DrainEvent, Emit, Deliver, Move, sockets
    <1> QED
        BY <1>1, <1>2, ServedMove

\* A subscriber ends when its channel was overrun.
LEMMA ServedSubscriber ==
    ASSUME TypeInv, ServedInv, NEW s \in Sids, SubscriberStep(s)
    PROVE  ServedInv'
    <1>1. s \in Tasks /\ s \notin Requests
        BY TaskFacts
    <1>2. CASE Recv(s)
        <2>1. /\ \/ lagged[s] /\ Goto(s, "ended")
                 \/ \E l \in {"close_event", "recv", "panicked", "message", "send"} : Goto(s, l)
              /\ UNCHANGED <<clients, lagged, sid>>
            BY <1>2, RecvFacts DEF Move
        <2> QED
            BY <1>1, <2>1, ServedMove
    <1>3. CASE MessageEvent(s) \/ Heartbeat(s) \/ CloseEvent(s)
        <2>1. Goto(s, "recv") /\ UNCHANGED <<clients, lagged, sid>>
            BY <1>3 DEF MessageEvent, Heartbeat, CloseEvent, Emit, Deliver, sockets
        <2> QED
            BY <1>1, <2>1, ServedMove
    <1> QED
        BY <1>2, <1>3 DEF SubscriberStep

\* ServedInv is inductive relative to TypeInv and SocketInv.
LEMMA ServedNext ==
    ASSUME TypeInv, SocketInv, ServedInv, [Next]_vars
    PROVE  ServedInv'
    <1>1. CASE UNCHANGED vars
        BY <1>1 DEF vars, ServedInv, sockets, control
    <1>2. ASSUME NEW t \in Users, ServerSend(t) \/ CloseSocket(t)
          PROVE  ServedInv'
        <2>1. /\ \E l : Goto(t, l) /\ clients' \subseteq clients /\ UNCHANGED lagged
              /\ UNCHANGED sid \/ \E x : sid' = [sid EXCEPT ![t] = x]
            BY <1>2 DEF ServerSend, CloseSocket, sockets
        <2>2. t \in Tasks /\ t \notin Requests \cup Sids
            BY TaskFacts
        <2>3. \A u \in Tasks \ {t} : sid'[u] = sid[u]
            BY <2>1, <2>2 DEF TypeInv, ControlInv
        <2> QED
            BY <2>1, <2>2, <2>3, ServedMove
    <1>3. ASSUME NEW s \in Sids, NEW k \in PeerEvents, PeerEvent(s, k)
          PROVE  ServedInv'
        BY <1>3, PeerFacts, ServedBroadcast DEF control
    <1>4. CASE EventLoop \/ TrySubscribe
        <2>1. clients' \subseteq clients /\ UNCHANGED <<lagged, pc, sid>>
            BY <1>4 DEF EventLoop, LoopRecv, TakeEvent, LoopRemove, TrySubscribe, sockets, control
        <2> QED
            BY <2>1, ServedStep
    <1> QED
        BY <1>1, <1>2, <1>3, <1>4, NextIs, ServedRequest, ServedSend, ServedSubscriber

\* While an entry is in the clients map, its subscriber runs or the handshake
\* goes on, unless the handshake panicked before it subscribed, the subscriber
\* panicked, or its event channel was overrun.
THEOREM Served == Spec => []ClientsServed
    <1> DEFINE Inv == TypeInv /\ SocketInv /\ ServedInv
    <1>1. Init => Inv
        <2> SUFFICES ASSUME Init
                     PROVE  Inv
            OBVIOUS
        <2>1. ServedInv
            BY TaskFacts DEF Init, ServedInv
        <2> QED
            BY <2>1, TypeInit, SocketInit
    <1>2. Inv /\ [Next]_vars => Inv'
        BY TypeNext, SocketNext, ServedNext
    <1>3. Inv => ClientsServed
        <2> SUFFICES ASSUME Inv, NEW s \in clients
                     PROVE  \/ Subscribed(s) \/ lagged[s] \/ pc[s] = "panicked"
                            \/ \E r \in Requests : sid[r] = s /\
                                  (pc[r] \in HandshakeSteps \cup SendSteps \/ Unsubscribable(r))
            BY DEF ClientsServed
        <2>1. s \in Sids
            BY DEF TypeInv, ChannelInv
        <2> QED
            BY <2>1 DEF ServedInv, Subscribed, Serving, Opening, HandshakeSteps, SendSteps, Unsubscribable
    <1> HIDE DEF Inv
    <1>4. Spec => []Inv
        BY <1>1, <1>2, PTL DEF Spec
    <1> QED
        BY <1>3, <1>4, PTL

-------------------------------------------------------------------------------
(* Data requests *)

\* Nobody knows the id of a polling connection before it has its subscriber:
\* only a websocket flushes and so sends its open packet.
KnownInv ==
    \A s \in Sids : transport[s] = "polling" =>
        /\ s \in known => pc[s] # "idle"
        /\ \A t \in Tasks : sid[t] = s => pc[t] \notin {"flush_event", "drain_event"}

\* A request that names a socket names one that it can know.
NamesInv == \A r \in Requests : pc[r] \in WithSid => sid[r] \in known \cup {NoSid}

OfRequest(r) == {r} \X Int
Messages == {"message"}

NumPosted(r) == Len(request[r].body) - Len(unsent[r])

Passing == {"post", "ok"}

\* A request has passed on the packets of its body that it has come by, unless
\* nobody listens, and nothing else.
PostOf(r) ==
    /\ pc[r] \in Passing =>
          /\ Decodes(request[r].body) /\ pc[sid[r]] # "idle"
          /\ NumPosted(r) \in 0 .. Len(request[r].body)
          /\ \A i \in 1 .. Len(unsent[r]) : unsent[r][i] = request[r].body[NumPosted(r) + i]
          /\ pc[r] = "ok" => Len(unsent[r]) = 0
          /\ "wiring" \in Implemented /\ Subscribed(sid[r]) =>
                CountTo(sent[sid[r]], Len(sent[sid[r]]), OfRequest(r))
                   = CountTo(request[r].body, NumPosted(r), Messages)
    /\ \A s \in Sids : \A i \in 1 .. Len(sent[s]) : sent[s][i] \in OfRequest(r) =>
          pc[r] \in Passing /\ s = sid[r] /\ "wiring" \in Implemented

PostInv == \A r \in Requests : PostOf(r)

DataInv == KnownInv /\ NamesInv /\ PostInv

\* A step that makes no id known and leaves the transports as they are.
LEMMA KnownKeep ==
    ASSUME KnownInv, \A s \in Sids :
              /\ transport'[s] = "polling" => transport[s] = "polling"
              /\ pc'[s] = "idle" => pc[s] = "idle"
              /\ transport[s] = "polling" /\ s \in known' => s \in known \/ pc[s] # "idle",
           \A t \in Tasks : pc'[t] \in {"flush_event", "drain_event"} =>
              \/ pc[t] \in {"flush_event", "drain_event"} /\ sid'[t] = sid[t]
              \/ transport[sid'[t]] # "polling"
    PROVE  KnownInv'
    <1> SUFFICES ASSUME NEW s \in Sids, transport'[s] = "polling"
                 PROVE  /\ s \in known' => pc'[s] # "idle"
                        /\ \A t \in Tasks : sid'[t] = s =>
                              pc'[t] \notin {"flush_event", "drain_event"}
        BY DEF KnownInv
    <1>1. /\ transport[s] = "polling"
          /\ s \in known => pc[s] # "idle"
          /\ \A t \in Tasks : sid[t] = s => pc[t] \notin {"flush_event", "drain_event"}
        BY DEF KnownInv
    <1>2. s \in known' => pc'[s] # "idle"
        BY <1>1
    <1>3. \A t \in Tasks : sid'[t] = s => pc'[t] \notin {"flush_event", "drain_event"}
        BY <1>1
    <1> QED
        BY <1>2, <1>3

\* The steps of one task that create no socket.
LEMMA KnownMove ==
    ASSUME TypeInv, KnownInv, NEW t \in Tasks, NEW l, Goto(t, l),
           UNCHANGED transport \/ \E x \in Sids : transport' = [transport EXCEPT ![x] = "none"],
           \A u \in Tasks \ {t} : sid'[u] = sid[u],
           l \in {"flush_event", "drain_event"} => transport[sid'[t]] # "polling",
           \A s \in Sids : transport[s] = "polling" /\ s \in known' => s \in known \/ pc[s] # "idle",
           t \in Sids => l # "idle"
    PROVE  KnownInv'
    <1>1. pc'[t] = l /\ \A u \in Tasks \ {t} : pc'[u] = pc[u]
        BY GotoFacts DEF TypeInv
    <1>2. \A s \in Sids : /\ transport'[s] = "polling" => transport[s] = "polling"
                          /\ pc'[s] = "idle" => pc[s] = "idle"
        BY <1>1, TaskFacts DEF TypeInv, SocketsInv
    <1>3. \A u \in Tasks : pc'[u] \in {"flush_event", "drain_event"} =>
              \/ pc[u] \in {"flush_event", "drain_event"} /\ sid'[u] = sid[u]
              \/ transport[sid'[u]] # "polling"
        BY <1>1
    <1> QED
        BY <1>2, <1>3, KnownKeep

\* The step of a task that sends an event.
LEMMA KnownEmit ==
    ASSUME TypeInv, KnownInv, NEW t \in Tasks, NEW l, NEW k, NEW p, Emit(t, k, p, l),
           l \in {"flush_event", "drain_event"} => transport[sid[t]] # "polling",
           UNCHANGED known \/ (known' = known \cup {sid[t]} /\ transport[sid[t]] # "polling"),
           t \in Sids => l # "idle"
    PROVE  KnownInv'
    <1>1. Goto(t, l) /\ UNCHANGED <<transport, sid>>
        BY DEF Emit, Deliver, sockets
    <1> QED
        BY <1>1, KnownMove

\* A new socket is not known, whatever its transport.
LEMMA KnownNew ==
    ASSUME TypeInv, SocketInv, KnownInv, NEW r \in Requests, NewSocket(r)
    PROVE  KnownInv'
    <1>0. r \in Tasks /\ r \notin Sids
        BY TaskFacts
    <1>1. PICK s \in Sids :
            /\ ready[s] = "unborn" /\ sid' = [sid EXCEPT ![r] = s] /\ Goto(r, "open")
            /\ \E k \in {"websocket", "polling"} : transport' = [transport EXCEPT ![s] = k]
            /\ UNCHANGED known
        BY DEF NewSocket, IsNext, history
    <1>2. pc'[r] = "open" /\ \A u \in Tasks \ {r} : pc'[u] = pc[u]
        BY <1>0, <1>1, GotoFacts DEF TypeInv
    <1>3. sid'[r] = s /\ \A u \in Tasks \ {r} : sid'[u] = sid[u]
        BY <1>0, <1>1 DEF TypeInv, ControlInv
    <1>4. \A x \in Sids \ {s} : transport'[x] = transport[x]
        BY <1>1 DEF TypeInv, SocketsInv
    <1>5. /\ s \notin known /\ pc[s] = "idle" /\ \A t \in Requests \cup Users : sid[t] # s
        BY <1>1 DEF SocketInv, BornInv
    <1> SUFFICES ASSUME NEW x \in Sids, transport'[x] = "polling"
                 PROVE  /\ x \in known => pc'[x] # "idle"
                        /\ \A t \in Tasks : sid'[t] = x =>
                              pc'[t] \notin {"flush_event", "drain_event"}
        BY <1>1 DEF KnownInv
    <1>6. CASE x = s
        <2>1. \A t \in Tasks : sid'[t] = s => t = r \/ t = s
            BY <1>3, <1>5 DEF Tasks, TypeInv, ControlInv
        <2> QED
            BY <1>0, <1>2, <1>5, <1>6, <2>1, TaskFacts
    <1>7. CASE x # s
        <2>1. /\ transport[x] = "polling" /\ (x \in known => pc[x] # "idle")
              /\ \A t \in Tasks : sid[t] = x => pc[t] \notin {"flush_event", "drain_event"}
            BY <1>4, <1>7 DEF KnownInv
        <2> QED
            BY <1>0, <1>2, <1>3, <1>7, <2>1, TaskFacts
    <1> QED
        BY <1>6, <1>7

\* The steps of requests.
LEMMA KnownRequest ==
    ASSUME TypeInv, SocketInv, KnownInv, NEW r \in Requests,
           Arrive(r) \/ RequestStep(r) \/ Handshake(r)
    PROVE  KnownInv'
    <1>0. r \in Tasks /\ r \notin Sids
        BY TaskFacts
    <1>1. CASE Arrive(r)
        <2>1. /\ \E l \in {"rejected", "panicked", "verify", "handshake"} : Goto(r, l)
              /\ \E x : sid' = [sid EXCEPT ![r] = x]
              /\ UNCHANGED <<transport, known>>
            BY <1>1 DEF Arrive, Unless, sockets, history
        <2>2. \A u \in Tasks \ {r} : sid'[u] = sid[u]
            BY <2>1 DEF TypeInv, ControlInv
        <2> QED
            BY <1>0, <2>1, <2>2, KnownMove
    <1>2. CASE VerifyRequest(r) \/ GetClient(r) \/ HandlePollingRequest(r) \/ Initial(r) \/ Open(r)
        <2>1. /\ \E l \in {"BadHandshakeMethod", "handshake", "UnknownSid", "BadRequest", "lookup",
                           "polling", "post", "Unknown", "send", "subscribe", "panicked"} : Goto(r, l)
              /\ UNCHANGED <<transport, sid, known>>
            BY <1>2 DEF VerifyRequest, GetClient, HandlePollingRequest, Initial, Open, CallSend, Move,
                        sockets, history
        <2> QED
            BY <1>0, <2>1, KnownMove
    <1>3. CASE HandleDataRequest(r)
        <2>1. UNCHANGED <<transport, sid, known>> /\ (UNCHANGED pc \/ Goto(r, "ok"))
            BY <1>3 DEF HandleDataRequest
        <2>2. CASE UNCHANGED pc
            BY <2>1, <2>2, KnownKeep
        <2> QED
            BY <1>0, <2>1, <2>2, KnownMove
    <1>4. CASE OpenEvent(r)
        <2>1. PICK l \in {"initial", "panicked"} : Emit(r, "open", NoPacket, l) /\ UNCHANGED known
            BY <1>4 DEF OpenEvent, Unless
        <2> QED
            BY <1>0, <2>1, KnownEmit
    <1>5. CASE Subscribe(r)
        <2>1. /\ sid[r] \in Sids /\ pc' = [pc EXCEPT ![r] = "respond", ![sid[r]] = "recv"]
              /\ UNCHANGED <<transport, sid, known>>
            BY <1>5 DEF Subscribe, TypeInv, ControlInv, WithSocket, HandshakeSteps, sockets, history
        <2>2. \A u \in Tasks : pc'[u] = pc[u] \/ pc'[u] \in {"respond", "recv"}
            BY <1>0, <2>1, TaskFacts DEF TypeInv, ControlInv
        <2>3. \A u \in Tasks : /\ pc'[u] = "idle" => pc[u] = "idle"
                               /\ pc'[u] \in {"flush_event", "drain_event"} =>
                                     pc[u] \in {"flush_event", "drain_event"} /\ sid'[u] = sid[u]
            BY <2>1, <2>2
        <2> QED
            BY <2>1, <2>3, TaskFacts, KnownKeep
    <1>6. CASE Respond(r) \/ Connection(r)
        <2>1. /\ pc[r] \in {"respond", "connection"} /\ sid[r] \in Sids
              /\ UNCHANGED <<transport, sid>>
            BY <1>6 DEF Respond, Connection, Reply, Move, TypeInv, ControlInv, WithSocket,
                        HandshakeSteps, sockets
        <2>2. known' \subseteq known \cup {sid[r]}
            BY <1>6 DEF Respond, Connection, Forward, Move, history
        <2>3. \E l \in {"ended", "panicked", "UnknownSid", "Unknown", "BadRequest", "connection"} :
                 Goto(r, l)
            BY <1>6 DEF Respond, Connection, Reply, Answer, Unless, Move
        <2>4. pc[sid[r]] # "idle"
            BY <2>1 DEF SocketInv, OwnInv
        <2> QED
            BY <1>0, <2>1, <2>2, <2>3, <2>4, KnownMove
    <1> QED
        BY <1>1, <1>2, <1>3, <1>4, <1>5, <1>6, KnownNew DEF RequestStep, Handshake

\* The steps of send_packet: only a websocket flushes.
LEMMA KnownSend ==
    ASSUME TypeInv, KnownInv, NEW t \in Tasks, SendPacket(t)
    PROVE  KnownInv'
    <1>1. sid[t] \in Sids /\ ret[t] \in {"ended", "heartbeat", "open_event", "subscribe"}
        BY RetFacts DEF SendPacket, Send, FlushEvent, DrainEvent, TypeInv, SendSteps
    <1>2. pc[t] \in {"flush_event", "drain_event"} => transport[sid[t]] # "polling"
        BY <1>1 DEF KnownInv
    <1>3. CASE Send(t)
        <2>1. /\ \E l \in {"flush_event", ret[t]} :
                    Goto(t, l) /\ (l = "flush_event" => transport[sid[t]] # "polling")
              /\ UNCHANGED <<transport, sid, known>>
            BY <1>1, <1>3 DEF Send, Move, sockets, history
        <2> QED
            BY <1>1, <2>1, KnownMove
    <1>4. CASE FlushEvent(t)
        BY <1>1, <1>2, <1>4, KnownEmit DEF FlushEvent
    <1>5. CASE DrainEvent(t)
        BY <1>1, <1>2, <1>5, KnownEmit DEF DrainEvent
    <1> QED
        BY <1>3, <1>4, <1>5 DEF SendPacket

\* The steps of a subscriber.
LEMMA KnownSubscriber ==
    ASSUME TypeInv, KnownInv, NEW s \in Sids, SubscriberStep(s)
    PROVE  KnownInv'
    <1>0. s \in Tasks /\ sid[s] = s
        BY TaskFacts DEF TypeInv, ControlInv
    <1>1. CASE Recv(s)
        <2>1. /\ \E l \in {"ended", "close_event", "recv", "panicked", "message", "send"} : Goto(s, l)
              /\ UNCHANGED transport \/ \E x \in Sids : transport' = [transport EXCEPT ![x] = "none"]
              /\ UNCHANGED <<sid, known>>
            <3>1. CASE Move(s, "ended")
                BY <3>1 DEF Move, sockets, history
            <3>2. CASE ~ Move(s, "ended")
                BY <1>1, <3>2, RecvFacts DEF history
            <3> QED
                BY <3>1, <3>2
        <2> QED
            BY <1>0, <2>1, KnownMove
    <1>2. CASE MessageEvent(s)
        BY <1>0, <1>2, KnownEmit DEF MessageEvent
    <1>3. CASE Heartbeat(s)
        BY <1>0, <1>3, KnownEmit DEF Heartbeat
    <1>4. CASE CloseEvent(s)
        BY <1>0, <1>4, KnownEmit DEF CloseEvent
    <1> QED
        BY <1>1, <1>2, <1>3, <1>4 DEF SubscriberStep

\* KnownInv is inductive relative to TypeInv and SocketInv.
LEMMA KnownNext ==
    ASSUME TypeInv, SocketInv, KnownInv, [Next]_vars
    PROVE  KnownInv'
    <1>1. CASE UNCHANGED vars \/ TrySubscribe \/ EventLoop
        <2>1. UNCHANGED <<transport, pc, sid, known>>
            BY <1>1 DEF vars, TrySubscribe, EventLoop, LoopRecv, TakeEvent, LoopRemove, sockets,
                        control, history
        <2> QED
            BY <2>1, KnownKeep
    <1>2. ASSUME NEW t \in Users, ServerSend(t) \/ CloseSocket(t)
          PROVE  KnownInv'
        <2>1. /\ \E l \in {"send", "ended", "panicked"} : Goto(t, l)
              /\ UNCHANGED sid \/ \E x : sid' = [sid EXCEPT ![t] = x]
              /\ UNCHANGED <<transport, known>>
            BY <1>2 DEF ServerSend, CloseSocket, Unless, sockets, history
        <2>2. t \in Tasks /\ t \notin Sids
            BY TaskFacts
        <2>3. \A u \in Tasks \ {t} : sid'[u] = sid[u]
            BY <2>1, <2>2 DEF TypeInv, ControlInv
        <2> QED
            BY <2>1, <2>2, <2>3, KnownMove
    <1>3. ASSUME NEW s \in Sids, NEW k \in PeerEvents, PeerEvent(s, k)
          PROVE  KnownInv'
        <2>1. UNCHANGED <<transport, pc, sid, known>>
            BY <1>3 DEF PeerEvent, control
        <2> QED
            BY <2>1, KnownKeep
    <1> QED
        BY <1>1, <1>2, <1>3, NextIs, KnownRequest, KnownSend, KnownSubscriber

\* No id is known.
LEMMA KnownInit ==
    ASSUME Init
    PROVE  KnownInv
    <1>1. \A s \in Sids : transport[s] = "none"
        BY DEF Init
    <1> QED
        BY <1>1 DEF KnownInv

\* Ids once known stay known.
LEMMA NamesKeep ==
    ASSUME NamesInv, known \subseteq known',
           \A r \in Requests : pc'[r] \in WithSid =>
              \/ pc[r] \in WithSid /\ sid'[r] = sid[r]
              \/ sid'[r] \in known \cup {NoSid}
    PROVE  NamesInv'
    BY DEF NamesInv

\* The packets of the request r that were broadcast for s.
NumSent(r, s) == CountTo(sent[s], Len(sent[s]), OfRequest(r))

\* The messages of others do not count.
LEMMA SentKeep ==
    ASSUME TypeInv, NEW r, NEW s \in Sids,
           \/ sent'[s] = sent[s]
           \/ \E p \in PacketIds : p \notin OfRequest(r) /\ sent'[s] = Append(sent[s], p)
    PROVE  /\ CountTo(sent'[s], Len(sent'[s]), OfRequest(r)) = NumSent(r, s)
           /\ \A i \in 1 .. Len(sent'[s]) : sent'[s][i] \in OfRequest(r) =>
                 i \in 1 .. Len(sent[s]) /\ sent[s][i] = sent'[s][i]
    <1> DEFINE q == sent[s]
               w == sent'[s]
    <1>1. q \in Seq(PacketIds) /\ Len(q) \in Nat
        BY DEF TypeInv, ChannelInv
    <1>2. CASE w = q
        BY <1>2 DEF NumSent
    <1>3. ASSUME NEW p \in PacketIds, p \notin OfRequest(r), w = Append(q, p)
          PROVE  /\ CountTo(w, Len(w), OfRequest(r)) = CountTo(q, Len(q), OfRequest(r))
                 /\ \A i \in 1 .. Len(w) : w[i] \in OfRequest(r) => i \in 1 .. Len(q) /\ q[i] = w[i]
        <2>1. Len(w) = Len(q) + 1 /\ w[Len(q) + 1] = p /\ \A i \in 1 .. Len(q) : w[i] = q[i]
            BY <1>1, <1>3
        <2> HIDE DEF q, w
        <2>2. {i \in 1 .. Len(w) : w[i] \in OfRequest(r)} = {i \in 1 .. Len(q) : q[i] \in OfRequest(r)}
            BY <1>1, <1>3, <2>1
        <2>3. CountTo(w, Len(w), OfRequest(r)) = CountTo(q, Len(q), OfRequest(r))
            BY <2>2 DEF CountTo
        <2>4. \A i \in 1 .. Len(w) : w[i] \in OfRequest(r) => i \in 1 .. Len(q) /\ q[i] = w[i]
            BY <1>1, <1>3, <2>1
        <2> QED
            BY <2>3, <2>4
    <1> QED
        BY <1>2, <1>3 DEF NumSent

\* A message of its own does.
LEMMA SentMore ==
    ASSUME NEW q, NEW w, NEW n \in Nat, NEW S, \A i \in 1 .. n : w[i] = q[i], w[n + 1] \in S
    PROVE  CountTo(w, n + 1, S) = CountTo(q, n, S) + 1
    <1>1. CountTo(w, n + 1, S) = CountTo(q, n, S) + (IF w[n + 1] \in S THEN 1 ELSE 0)
        BY CountAppend
    <1> QED
        BY <1>1

\* The steps that do not concern the packets of r.
LEMMA PostKeep ==
    ASSUME TypeInv, TypeInv', NEW r \in Requests, PostOf(r),
           pc[r] \in Passing =>
              pc'[r] = pc[r] /\ sid'[r] = sid[r] /\ request'[r] = request[r] /\ unsent'[r] = unsent[r],
           pc'[r] \in Passing => pc[r] \in Passing,
           \A s \in Sids :
              /\ pc'[s] = "idle" => pc[s] = "idle"
              /\ Subscribed(s)' => Subscribed(s) \/ pc[s] = "idle"
              /\ \/ sent'[s] = sent[s]
                 \/ \E p \in PacketIds : p \notin OfRequest(r) /\ sent'[s] = Append(sent[s], p)
    PROVE  PostOf(r)'
    <1>1. \A s \in Sids :
             /\ CountTo(sent'[s], Len(sent'[s]), OfRequest(r)) = NumSent(r, s)
             /\ \A i \in 1 .. Len(sent'[s]) : sent'[s][i] \in OfRequest(r) =>
                   i \in 1 .. Len(sent[s]) /\ sent[s][i] = sent'[s][i]
        BY SentKeep
    <1>2. ASSUME NEW s \in Sids, NEW i \in 1 .. Len(sent'[s]), sent'[s][i] \in OfRequest(r)
          PROVE  pc'[r] \in Passing /\ s = sid'[r] /\ "wiring" \in Implemented
        <2>1. pc[r] \in Passing /\ s = sid[r] /\ "wiring" \in Implemented
            BY <1>1, <1>2 DEF PostOf
        <2> QED
            BY <2>1
    <1>3. ASSUME pc'[r] \in Passing
          PROVE  /\ Decodes(request[r].body) /\ pc'[sid[r]] # "idle"
                 /\ NumPosted(r) \in 0 .. Len(request[r].body)
                 /\ \A i \in 1 .. Len(unsent[r]) : unsent[r][i] = request[r].body[NumPosted(r) + i]
                 /\ pc'[r] = "ok" => Len(unsent[r]) = 0
                 /\ "wiring" \in Implemented /\ pc'[sid[r]] \notin {"idle", "ended", "panicked"} =>
                       CountTo(sent'[sid[r]], Len(sent'[sid[r]]), OfRequest(r))
                          = CountTo(request[r].body, NumPosted(r), Messages)
        <2>1. pc[r] \in Passing /\ pc'[r] = pc[r] /\ sid[r] \in Sids
            BY <1>3 DEF TypeInv, ControlInv, WithSocket, Found, Passing
        <2>2. /\ Decodes(request[r].body) /\ pc[sid[r]] # "idle"
              /\ NumPosted(r) \in 0 .. Len(request[r].body)
              /\ \A i \in 1 .. Len(unsent[r]) : unsent[r][i] = request[r].body[NumPosted(r) + i]
              /\ pc[r] = "ok" => Len(unsent[r]) = 0
              /\ "wiring" \in Implemented /\ Subscribed(sid[r]) =>
                    NumSent(r, sid[r]) = CountTo(request[r].body, NumPosted(r), Messages)
            BY <2>1 DEF PostOf, NumSent
        <2> QED
            BY <1>1, <2>1, <2>2 DEF Subscribed
    <1>4. pc'[r] \in Passing =>
             sid'[r] = sid[r] /\ request'[r] = request[r] /\ unsent'[r] = unsent[r]
        OBVIOUS
    <1>5. /\ pc'[r] \in Passing =>
                /\ Decodes(request'[r].body) /\ pc'[sid'[r]] # "idle"
                /\ Len(request'[r].body) - Len(unsent'[r]) \in 0 .. Len(request'[r].body)
                /\ \A i \in 1 .. Len(unsent'[r]) : unsent'[r][i] =
                      request'[r].body[(Len(request'[r].body) - Len(unsent'[r])) + i]
                /\ pc'[r] = "ok" => Len(unsent'[r]) = 0
                /\ "wiring" \in Implemented /\ pc'[sid'[r]] \notin {"idle", "ended", "panicked"} =>
                      CountTo(sent'[sid'[r]], Len(sent'[sid'[r]]), OfRequest(r))
                         = CountTo(request'[r].body, Len(request'[r].body) - Len(unsent'[r]), Messages)
        BY <1>3, <1>4 DEF NumPosted
    <1> QED
        BY <1>2, <1>5 DEF PostOf, NumPosted, Subscribed, Decodes, CountTo, OfRequest

\* One task goes on, and it is no data request.
LEMMA DataMove ==
    ASSUME TypeInv, TypeInv', NamesInv, PostInv, NEW t \in Tasks, NEW l, Goto(t, l),
           known \subseteq known', sent' = sent,
           \A u \in Tasks \ {t} : sid'[u] = sid[u],
           \A q \in Requests \ {t} : request'[q] = request[q] /\ unsent'[q] = unsent[q],
           t \in Requests =>
              /\ pc[t] \notin Passing /\ l \notin Passing
              /\ l \in WithSid => \/ pc[t] \in WithSid /\ sid'[t] = sid[t]
                                  \/ sid'[t] \in known \cup {NoSid},
           t \in Sids => l # "idle" /\ pc[t] \notin {"ended", "panicked"}
    PROVE  NamesInv' /\ PostInv'
    <1>1. pc'[t] = l /\ \A u \in Tasks \ {t} : pc'[u] = pc[u]
        BY GotoFacts DEF TypeInv
    <1>2. NamesInv'
        <2>1. \A r \in Requests : pc'[r] \in WithSid =>
                 \/ pc[r] \in WithSid /\ sid'[r] = sid[r]
                 \/ sid'[r] \in known \cup {NoSid}
            BY <1>1, TaskFacts
        <2> QED
            BY <2>1, NamesKeep
    <1>3. \A s \in Sids : /\ pc'[s] = "idle" => pc[s] = "idle"
                          /\ Subscribed(s)' => Subscribed(s) \/ pc[s] = "idle"
        BY <1>1, TaskFacts DEF Subscribed
    <1>4. \A r \in Requests : PostOf(r)'
        <2> TAKE r \in Requests
        <2>1. /\ pc[r] \in Passing =>
                    /\ pc'[r] = pc[r] /\ sid'[r] = sid[r]
                    /\ request'[r] = request[r] /\ unsent'[r] = unsent[r]
              /\ pc'[r] \in Passing => pc[r] \in Passing
            BY <1>1, TaskFacts
        <2>2. PostOf(r)
            BY DEF PostInv
        <2> QED
            BY <1>3, <2>1, <2>2, PostKeep
    <1> QED
        BY <1>2, <1>4 DEF PostInv

\* No task that the requests know of goes on.
LEMMA DataStay ==
    ASSUME TypeInv, TypeInv', NamesInv, PostInv, known \subseteq known',
           UNCHANGED <<pc, sid, request, unsent, sent>>
    PROVE  NamesInv' /\ PostInv'
    <1>1. NamesInv'
        BY NamesKeep
    <1>2. \A r \in Requests : PostOf(r)'
        <2> TAKE r \in Requests
        <2>1. PostOf(r)
            BY DEF PostInv
        <2>2. \A s \in Sids : Subscribed(s)' => Subscribed(s)
            BY DEF Subscribed
        <2> QED
            BY <2>1, <2>2, PostKeep
    <1> QED
        BY <1>1, <1>2 DEF PostInv

\* A packet that is broadcast concerns only the request it came with.
LEMMA PostOthers ==
    ASSUME TypeInv, TypeInv', NEW r \in Requests, PostOf(r), NEW s \in Sids,
           NEW k \in Packets \cup {"close"}, NEW p \in PacketIds, p[1] # r, Broadcast(s, k, p),
           UNCHANGED <<pc, sid, request>>, unsent'[r] = unsent[r]
    PROVE  PostOf(r)'
    <1>1. p \notin OfRequest(r)
        BY DEF OfRequest
    <1>2. \A x \in Sids : sent'[x] = sent[x] \/ sent'[x] = Append(sent[x], p)
        <2>1. /\ \A x \in Sids \ {s} : sent'[x] = sent[x]
              /\ sent'[s] = sent[s] \/ sent'[s] = Append(sent[s], p)
            BY BroadcastFacts DEF TypeInv
        <2> QED
            BY <2>1
    <1>3. \A x \in Sids : Subscribed(x)' => Subscribed(x)
        BY DEF Subscribed
    <1> QED
        BY <1>1, <1>2, <1>3, PostKeep

\* A data request that is accepted has its whole body before it.
LEMMA PostStart ==
    ASSUME TypeInv, TypeInv', KnownInv, NamesInv, PostInv, NEW r \in Requests,
           HandlePollingRequest(r)
    PROVE  NamesInv' /\ PostInv'
    <1> DEFINE accepts == /\ transport[sid[r]] = "polling" /\ request[r].method = "Post"
                          /\ Decodes(request[r].body)
    <1>1. /\ r \in Tasks /\ pc[r] = "polling" /\ sid[r] \in Sids /\ sid[r] \in known
          /\ unsent' = [unsent EXCEPT ![r] = IF accepts THEN request[r].body ELSE <<>>]
          /\ UNCHANGED <<sid, request, sent, known>>
        BY TaskFacts DEF HandlePollingRequest, TypeInv, ControlInv, WithSocket, WithSid, Found,
                         NamesInv, history
    <1>2. /\ ~ accepts => \E l \in {"Unknown", "BadRequest"} : Goto(r, l)
          /\ accepts => Goto(r, "post")
        BY DEF HandlePollingRequest
    <1>3. \A q \in Requests \ {r} : unsent'[q] = unsent[q]
        BY <1>1 DEF TypeInv, ControlInv
    <1>4. CASE ~ accepts
        <2>1. \A l \in {"Unknown", "BadRequest"} : l \notin Passing \cup WithSid
            BY DEF Passing, WithSid, Found
        <2> QED
            BY <1>1, <1>2, <1>3, <1>4, <2>1, TaskFacts, DataMove DEF Passing
    <1>5. CASE accepts
        <2>1. pc'[r] = "post" /\ \A u \in Tasks \ {r} : pc'[u] = pc[u]
            BY <1>1, <1>2, <1>5, GotoFacts DEF TypeInv
        <2>2. pc'[sid[r]] = pc[sid[r]] /\ pc[sid[r]] # "idle"
            BY <1>1, <1>5, <2>1, TaskFacts DEF KnownInv
        <2>3. \A s \in Sids : pc'[s] = pc[s] /\ (Subscribed(s)' <=> Subscribed(s))
            BY <2>1, TaskFacts DEF Subscribed
        <2>4. NamesInv'
            <3>1. \A q \in Requests : pc'[q] \in WithSid => pc[q] \in WithSid /\ sid'[q] = sid[q]
                BY <1>1, <2>1, TaskFacts DEF WithSid, Found
            <3> QED
                BY <1>1, <3>1, NamesKeep
        <2>5. ASSUME NEW q \in Requests \ {r}
              PROVE  PostOf(q)'
            <3>1. PostOf(q) /\ pc'[q] = pc[q]
                BY <2>1, TaskFacts DEF PostInv
            <3> QED
                BY <1>1, <1>3, <2>3, <3>1, PostKeep
        <2>6. \A s \in Sids : \A i \in 1 .. Len(sent[s]) : sent[s][i] \notin OfRequest(r)
            BY <1>1 DEF PostInv, PostOf, Passing
        <2>7. /\ unsent'[r] = request[r].body /\ Len(request[r].body) \in Nat
            BY <1>1, <1>5, RequestFacts DEF TypeInv, ControlInv
        <2>8. NumPosted(r)' = 0 /\ Len(request[r].body) - Len(unsent'[r]) = 0
            BY <1>1, <2>7 DEF NumPosted
        <2>9. CountTo(sent[sid[r]], Len(sent[sid[r]]), OfRequest(r)) = 0
            <3>1. {i \in 1 .. Len(sent[sid[r]]) : sent[sid[r]][i] \in OfRequest(r)} = {}
                BY <1>1, <2>6
            <3> QED
                BY <3>1, FS_EmptySet DEF CountTo
        <2>10. CountTo(request[r].body, 0, Messages) = 0
            BY CountZero
        <2>11. PostOf(r)'
            <3>1. /\ Decodes(request[r].body) /\ pc'[sid[r]] # "idle" /\ 0 \in 0 .. Len(request[r].body)
                  /\ \A i \in 1 .. Len(unsent'[r]) : unsent'[r][i] = request[r].body[0 + i]
                BY <1>5, <2>2, <2>7
            <3> QED
                BY <1>1, <2>1, <2>6, <2>8, <2>9, <2>10, <3>1
                   DEF PostOf, Decodes, CountTo, OfRequest
        <2> QED
            BY <2>4, <2>5, <2>11 DEF PostInv
    <1> QED
        BY <1>4, <1>5

\* It passes on the next packet of its body.
LEMMA PostPass ==
    ASSUME TypeInv, TypeInv', NEW r \in Requests, PostOf(r), HandleDataRequest(r),
           Len(unsent[r]) # 0
    PROVE  PostOf(r)'
    <1> DEFINE body == request[r].body
               n == NumPosted(r)
    <1>1. PICK s \in Sids, k \in Packets, p \in PacketIds :
            /\ s = sid[r] /\ k = Head(unsent[r]) /\ p[1] = r /\ p \in OfRequest(r)
            /\ Broadcast(s, k, p)
        <2> DEFINE p == <<r, Len(request[r].body) - Len(unsent[r]) + 1>>
        <2>0. unsent[r] # <<>>
            OBVIOUS
        <2>1. sid[r] \in Sids /\ Head(unsent[r]) \in Packets /\ p \in PacketIds
            BY <2>0, DataFacts DEF HandleDataRequest
        <2>2. Broadcast(sid[r], Head(unsent[r]), p)
            BY <2>0 DEF HandleDataRequest
        <2>3. p[1] = r /\ p \in OfRequest(r)
            BY <2>1 DEF PacketIds, OfRequest
        <2> HIDE DEF p
        <2> QED
            BY <2>1, <2>2, <2>3
    <1>2. /\ pc[r] = "post" /\ unsent' = [unsent EXCEPT ![r] = Tail(@)]
          /\ UNCHANGED <<pc, sid, request>>
        <2>1. unsent[r] # <<>>
            OBVIOUS
        <2> QED
            BY <2>1 DEF HandleDataRequest
    <1>3. /\ unsent[r] \in Seq(Packets) /\ Len(unsent[r]) \in Nat \ {0} /\ k = unsent[r][1]
          /\ body \in Seq(Packets \cup {"garbage"}) /\ Len(body) \in Nat
          /\ unsent'[r] = Tail(unsent[r])
        BY <1>1, <1>2, RequestFacts DEF TypeInv, ControlInv
    <1>4. /\ Len(unsent'[r]) \in Nat /\ Len(unsent[r]) = Len(unsent'[r]) + 1
          /\ \A i \in 1 .. Len(unsent'[r]) : unsent'[r][i] = unsent[r][i + 1]
        BY <1>3
    <1>5. /\ Decodes(body) /\ pc[s] # "idle" /\ n \in 0 .. Len(body)
          /\ \A i \in 1 .. Len(unsent[r]) : unsent[r][i] = body[n + i]
          /\ "wiring" \in Implemented /\ Subscribed(s) => NumSent(r, s) = CountTo(body, n, Messages)
          /\ \A x \in Sids : \A i \in 1 .. Len(sent[x]) : sent[x][i] \in OfRequest(r) =>
                x = s /\ "wiring" \in Implemented
        BY <1>1, <1>2 DEF PostOf, Passing, NumSent
    <1>6. /\ n = Len(body) - Len(unsent[r]) /\ n \in Nat /\ n + 1 \in 0 .. Len(body)
          /\ Len(body) - Len(unsent'[r]) = n + 1
        <2>1. n = Len(body) - Len(unsent[r])
            BY DEF NumPosted
        <2> HIDE DEF n, body
        <2> QED
            BY <1>3, <1>4, <1>5, <2>1
    <1>7. \A i \in 1 .. Len(unsent'[r]) : unsent'[r][i] = body[(n + 1) + i]
        <2> SUFFICES ASSUME NEW i \in 1 .. Len(unsent'[r])
                     PROVE  unsent'[r][i] = body[(n + 1) + i]
            OBVIOUS
        <2>1. i + 1 \in 1 .. Len(unsent[r]) /\ n + (i + 1) = (n + 1) + i
            <3> HIDE DEF n, body
            <3> QED
                BY <1>4, <1>6
        <2> QED
            BY <1>4, <1>5, <2>1
    <1>8. k = body[n + 1]
        <2>1. 1 \in 1 .. Len(unsent[r])
            BY <1>3
        <2> QED
            BY <1>3, <1>5, <2>1
    <1>9. \A x \in Sids \ {s} : sent'[x] = sent[x]
        BY <1>1, BroadcastFacts DEF TypeInv
    <1>10. \/ sent' = sent /\ ("wiring" \notin Implemented \/ ~ Subscribed(s))
           \/ /\ "wiring" \in Implemented /\ Subscribed(s)
              /\ sent'[s] = IF k = "message" THEN Append(sent[s], p) ELSE sent[s]
        <2>1. k \in Packets \cup {"close"} /\ SocketsInv /\ ChannelInv
            BY DEF TypeInv
        <2> QED
            BY <1>1, <2>1, BroadcastFacts, Zenon
    <1>11. \A x \in Sids : \A i \in 1 .. Len(sent'[x]) : sent'[x][i] \in OfRequest(r) =>
                x = s /\ "wiring" \in Implemented
        BY <1>5, <1>9, <1>10
    <1>12. ASSUME "wiring" \in Implemented, Subscribed(s)
           PROVE  CountTo(sent'[s], Len(sent'[s]), OfRequest(r)) = CountTo(body, n + 1, Messages)
        <2>1. NumSent(r, s) = CountTo(body, n, Messages)
            BY <1>5, <1>12
        <2>2. CountTo(body, n + 1, Messages)
                 = CountTo(body, n, Messages) + (IF k = "message" THEN 1 ELSE 0)
            <3>1. CountTo(body, n + 1, Messages)
                     = CountTo(body, n, Messages) + (IF body[n + 1] \in Messages THEN 1 ELSE 0)
                <4>1. PICK m \in Nat : m = n
                    BY <1>6
                <4> HIDE DEF body, n
                <4>2. CountTo(body, m + 1, Messages) = CountTo(body, m, Messages)
                         + (IF body[m + 1] \in Messages THEN 1 ELSE 0)
                    BY CountNext
                <4> QED
                    BY <4>1, <4>2
            <3> QED
                BY <1>8, <3>1 DEF Messages
        <2>3. CountTo(body, n, Messages) \in Nat
            BY <1>6, CountNat
        <2>4. CASE k = "message"
            <3>1. sent'[s] = Append(sent[s], p)
                BY <1>10, <1>12, <2>4
            <3>2. sent[s] \in Seq(PacketIds) /\ Len(sent[s]) \in Nat
                BY DEF TypeInv, ChannelInv
            <3>3. /\ Len(sent'[s]) = Len(sent[s]) + 1 /\ sent'[s][Len(sent[s]) + 1] = p
                  /\ \A i \in 1 .. Len(sent[s]) : sent'[s][i] = sent[s][i]
                BY <3>1, <3>2
            <3> DEFINE q == sent[s]
                       w == sent'[s]
            <3>4. PICK m \in Nat : m = Len(sent[s])
                BY <3>2
            <3>5. (\A i \in 1 .. m : w[i] = q[i]) /\ w[m + 1] \in OfRequest(r)
                BY <1>1, <3>3, <3>4
            <3>6. CountTo(w, m + 1, OfRequest(r)) = CountTo(q, m, OfRequest(r)) + 1
                <4> HIDE DEF q, w
                <4> QED
                    BY <3>5, SentMore
            <3> QED
                BY <2>1, <2>2, <2>4, <3>3, <3>4, <3>6 DEF NumSent
        <2>5. CASE k # "message"
            <3>1. CountTo(sent'[s], Len(sent'[s]), OfRequest(r)) = NumSent(r, s)
                BY <1>10, <1>12, <2>5 DEF NumSent
            <3> HIDE DEF body, n
            <3> QED
                BY <2>1, <2>2, <2>3, <2>5, <3>1
        <2> QED
            BY <2>4, <2>5
    <1>13. "wiring" \in Implemented /\ pc'[sid'[r]] \notin {"idle", "ended", "panicked"} =>
              CountTo(sent'[sid'[r]], Len(sent'[sid'[r]]), OfRequest(r))
                 = CountTo(request'[r].body, Len(request'[r].body) - Len(unsent'[r]), Messages)
        <2> HIDE DEF n
        <2> QED
            BY <1>1, <1>2, <1>6, <1>12 DEF Subscribed
    <1>14. \A i \in 1 .. Len(unsent'[r]) : unsent'[r][i] =
              request'[r].body[(Len(request'[r].body) - Len(unsent'[r])) + i]
        <2> HIDE DEF n
        <2> QED
            BY <1>2, <1>6, <1>7
    <1>15. /\ Decodes(request'[r].body) /\ pc'[sid'[r]] # "idle" /\ pc'[r] = "post"
           /\ Len(request'[r].body) - Len(unsent'[r]) \in 0 .. Len(request'[r].body)
        <2> HIDE DEF n
        <2> QED
            BY <1>1, <1>2, <1>5, <1>6
    <1>16. \A x \in Sids : \A i \in 1 .. Len(sent'[x]) : sent'[x][i] \in OfRequest(r) =>
                x = sid'[r] /\ "wiring" \in Implemented
        BY <1>1, <1>2, <1>11
    <1> QED
        BY <1>13, <1>14, <1>15, <1>16
           DEF PostOf, NumPosted, Passing, Subscribed, Decodes, CountTo, OfRequest, Messages

\* A data request passes on one packet after the other.
LEMMA DataRequest ==
    ASSUME TypeInv, TypeInv', NamesInv, PostInv, NEW r \in Requests, HandleDataRequest(r)
    PROVE  NamesInv' /\ PostInv'
    <1>1. r \in Tasks /\ pc[r] = "post" /\ UNCHANGED <<sid, request, known>>
        BY TaskFacts DEF HandleDataRequest
    <1>2. PostOf(r)
        BY DEF PostInv
    <1>3. CASE unsent[r] = <<>>
        <2>1. Goto(r, "ok") /\ UNCHANGED <<sent, unsent>> /\ Len(unsent[r]) = 0
            BY <1>3 DEF HandleDataRequest
        <2>2. pc'[r] = "ok" /\ \A u \in Tasks \ {r} : pc'[u] = pc[u]
            BY <1>1, <2>1, GotoFacts DEF TypeInv
        <2>3. \A s \in Sids : pc'[s] = pc[s] /\ (Subscribed(s)' <=> Subscribed(s))
            BY <2>2, TaskFacts DEF Subscribed
        <2>4. NamesInv'
            <3>1. \A q \in Requests : pc'[q] \in WithSid => pc[q] \in WithSid /\ sid'[q] = sid[q]
                BY <1>1, <2>2, TaskFacts DEF WithSid, Found
            <3> QED
                BY <1>1, <3>1, NamesKeep
        <2>5. ASSUME NEW q \in Requests \ {r}
              PROVE  PostOf(q)'
            <3>1. PostOf(q) /\ pc'[q] = pc[q]
                BY <2>2, TaskFacts DEF PostInv
            <3> QED
                BY <1>1, <2>1, <2>3, <3>1, PostKeep
        <2>6. sid[r] \in Sids
            BY <1>1 DEF TypeInv, ControlInv, WithSocket, Found
        <2>7. PostOf(r)'
            BY <1>1, <1>2, <2>1, <2>2, <2>3, <2>6
               DEF PostOf, NumPosted, Passing, Subscribed, Decodes, CountTo, OfRequest
        <2> QED
            BY <2>4, <2>5, <2>7 DEF PostInv
    <1>4. CASE unsent[r] # <<>>
        <2> DEFINE p == <<r, Len(request[r].body) - Len(unsent[r]) + 1>>
        <2>1. /\ Broadcast(sid[r], Head(unsent[r]), p) /\ UNCHANGED pc
              /\ unsent' = [unsent EXCEPT ![r] = Tail(@)]
            BY <1>4 DEF HandleDataRequest
        <2>2. sid[r] \in Sids /\ Head(unsent[r]) \in Packets /\ p \in PacketIds /\ p[1] = r
            BY <1>1, <1>4, DataFacts
        <2> HIDE DEF p
        <2>3. \A q \in Requests \ {r} : unsent'[q] = unsent[q]
            BY <2>1 DEF TypeInv, ControlInv
        <2>4. ASSUME NEW q \in Requests \ {r}
              PROVE  PostOf(q)'
            <3>1. PostOf(q)
                BY DEF PostInv
            <3> QED
                BY <1>1, <2>1, <2>2, <2>3, <3>1, PostOthers
        <2>5. NamesInv'
            BY <1>1, <2>1, NamesKeep
        <2>6. Len(unsent[r]) # 0
            BY <1>4 DEF TypeInv, ControlInv
        <2> QED
            BY <1>2, <2>4, <2>5, <2>6, PostPass DEF PostInv
    <1> QED
        BY <1>3, <1>4

\* The other steps of requests.
LEMMA DataHandshake ==
    ASSUME TypeInv, TypeInv', SocketInv, KnownInv, NamesInv, PostInv, NEW r \in Requests,
           Arrive(r) \/ RequestStep(r) \/ Handshake(r)
    PROVE  NamesInv' /\ PostInv'
    <1> USE DEF Passing, WithSid, Found
    <1>0. r \in Tasks /\ r \notin Sids
        BY TaskFacts
    <1>1. CASE Arrive(r)
        <2>1. PICK q \in HttpRequests[r] :
                /\ pc[r] = "idle" /\ (q.sid = NoSid \/ q.sid \in known)
                /\ \E l \in {"rejected", "panicked", "verify", "handshake"} : Goto(r, l)
                /\ request' = [request EXCEPT ![r] = q] /\ sid' = [sid EXCEPT ![r] = q.sid]
                /\ UNCHANGED <<unsent, history>>
            BY <1>1 DEF Arrive, Unless
        <2>2. /\ \A u \in Tasks \ {r} : sid'[u] = sid[u]
              /\ sid'[r] = q.sid
            BY <1>0, <2>1 DEF TypeInv, ControlInv
        <2>3. \A x \in Requests \ {r} : request'[x] = request[x]
            <3>1. request = [x \in Requests |-> request[x]] /\ request' = [request EXCEPT ![r] = q]
                BY <2>1 DEF TypeInv, ControlInv
            <3>2. request' = [x \in Requests |-> IF x = r THEN q ELSE request[x]]
                BY <3>1
            <3> QED
                BY <3>2
        <2> QED
            BY <1>0, <2>1, <2>2, <2>3, DataMove DEF history
    <1>2. CASE VerifyRequest(r) \/ GetClient(r)
        <2>1. /\ pc[r] \in {"verify", "lookup"}
              /\ \E l \in {"BadHandshakeMethod", "handshake", "UnknownSid", "BadRequest", "lookup",
                           "polling"} : Goto(r, l)
              /\ UNCHANGED <<sid, request, unsent, history>>
            BY <1>2 DEF VerifyRequest, GetClient, Move
        <2> QED
            BY <1>0, <2>1, DataMove DEF history
    <1>3. CASE NewSocket(r)
        <2>1. PICK s \in Sids : /\ pc[r] = "handshake" /\ sid' = [sid EXCEPT ![r] = s]
                                /\ Goto(r, "open") /\ UNCHANGED <<request, unsent, history>>
            BY <1>3 DEF NewSocket
        <2>2. \A u \in Tasks \ {r} : sid'[u] = sid[u]
            BY <1>0, <2>1 DEF TypeInv, ControlInv
        <2> QED
            BY <1>0, <2>1, <2>2, DataMove DEF history
    <1>4. CASE Open(r) \/ OpenEvent(r) \/ Initial(r)
        <2>1. /\ pc[r] \in {"open", "open_event", "initial"}
              /\ \E l \in {"send", "panicked", "initial", "subscribe"} : Goto(r, l)
              /\ UNCHANGED <<sid, request, unsent, known, sent>>
            BY <1>4 DEF Open, OpenEvent, Initial, CallSend, Move, Emit, Deliver, Unless, history
        <2> QED
            BY <1>0, <2>1, DataMove
    <1>5. CASE Respond(r) \/ Connection(r)
        <2>1. /\ pc[r] \in {"respond", "connection"}
              /\ \E l \in {"ended", "panicked", "UnknownSid", "Unknown", "BadRequest", "connection"} :
                    Goto(r, l)
              /\ UNCHANGED <<sid, request, unsent, sent>> /\ known \subseteq known'
            BY <1>5 DEF Respond, Connection, Reply, Answer, Unless, Move, Forward, history
        <2> QED
            BY <1>0, <2>1, DataMove
    <1>6. CASE Subscribe(r)
        <2>1. /\ pc[r] = "subscribe" /\ sid[r] \in Sids
              /\ pc' = [pc EXCEPT ![r] = "respond", ![sid[r]] = "recv"]
              /\ UNCHANGED <<sid, request, unsent, sent, known>>
            BY <1>6 DEF Subscribe, TypeInv, ControlInv, WithSocket, HandshakeSteps, history
        <2>2. /\ pc'[r] = "respond" /\ pc'[sid[r]] = "recv"
              /\ \A u \in Tasks \ {r, sid[r]} : pc'[u] = pc[u]
            BY <1>0, <2>1, TaskFacts DEF TypeInv, ControlInv
        <2>3. /\ \A q \in Requests \ {r} : pc'[q] = pc[q]
              /\ \A s \in Sids \ {sid[r]} : pc'[s] = pc[s]
            BY <1>0, <2>1, <2>2, TaskFacts
        <2>4. NamesInv'
            <3>1. \A q \in Requests : pc'[q] \in WithSid => pc[q] \in WithSid /\ sid'[q] = sid[q]
                BY <2>1, <2>2, <2>3
            <3> QED
                BY <2>1, <3>1, NamesKeep
        <2>5. ASSUME NEW q \in Requests, pc[sid[r]] = "idle"
              PROVE  PostOf(q)'
            <3>1. PostOf(q)
                BY DEF PostInv
            <3>2. \A s \in Sids : /\ pc'[s] = "idle" => pc[s] = "idle"
                                  /\ Subscribed(s)' => Subscribed(s) \/ pc[s] = "idle"
                BY <2>1, <2>2, <2>3, <2>5 DEF Subscribed
            <3>3. pc'[q] \in Passing <=> pc[q] \in Passing
                BY <2>1, <2>2, <2>3
            <3>4. pc[q] \in Passing => pc'[q] = pc[q]
                BY <2>1, <2>3
            <3> QED
                BY <2>1, <3>1, <3>2, <3>3, <3>4, PostKeep
        <2>6. pc[sid[r]] = "idle"
            BY <2>1 DEF SocketInv, OwnInv, Opening
        <2> QED
            BY <2>4, <2>5, <2>6 DEF PostInv
    <1> QED
        BY <1>1, <1>2, <1>3, <1>4, <1>5, <1>6, PostStart, DataRequest DEF RequestStep, Handshake

\* DataInv is inductive relative to TypeInv and SocketInv.
LEMMA DataNext ==
    ASSUME TypeInv, TypeInv', SocketInv, DataInv, [Next]_vars
    PROVE  DataInv'
    <1>1. TypeInv /\ KnownInv /\ NamesInv /\ PostInv
        BY DEF DataInv
    <1> SUFFICES NamesInv' /\ PostInv'
        BY <1>1, KnownNext DEF DataInv
    <1>2. CASE UNCHANGED vars \/ TrySubscribe \/ EventLoop
        <2>1. UNCHANGED <<pc, sid, request, unsent, sent>> /\ known \subseteq known'
            BY <1>2 DEF vars, TrySubscribe, EventLoop, LoopRecv, TakeEvent, LoopRemove, Forward,
                        control, history
        <2> QED
            BY <1>1, <2>1, DataStay
    <1>3. ASSUME NEW t \in Users, ServerSend(t) \/ CloseSocket(t)
          PROVE  NamesInv' /\ PostInv'
        <2>1. /\ \E l : Goto(t, l)
              /\ UNCHANGED sid \/ \E x : sid' = [sid EXCEPT ![t] = x]
              /\ UNCHANGED <<request, unsent, known, sent>>
            BY <1>3 DEF ServerSend, CloseSocket, history
        <2>2. t \in Tasks /\ t \notin Sids /\ t \notin Requests
            BY TaskFacts
        <2>3. \A u \in Tasks \ {t} : sid'[u] = sid[u]
            BY <2>1, <2>2 DEF TypeInv, ControlInv
        <2> QED
            BY <1>1, <2>1, <2>2, <2>3, DataMove
    <1>4. ASSUME NEW t \in Tasks, SendPacket(t)
          PROVE  NamesInv' /\ PostInv'
        <2>1. /\ pc[t] \in SendSteps
              /\ \E l \in {"flush_event", "drain_event", ret[t]} : Goto(t, l)
              /\ UNCHANGED <<sid, request, unsent, sent>> /\ known \subseteq known'
            BY <1>4 DEF SendPacket, Send, FlushEvent, DrainEvent, Emit, Deliver, Move, SendSteps,
                        history
        <2>2. ret[t] \in {"ended", "heartbeat", "open_event", "subscribe"}
              /\ (t \in Sids => ret[t] = "heartbeat")
              /\ (t \in Requests => ret[t] \in {"open_event", "subscribe"})
            BY <1>1, <2>1, RetFacts DEF TypeInv
        <2> QED
            BY <1>1, <2>1, <2>2, DataMove DEF SendSteps, Passing, WithSid, Found
    <1>5. ASSUME NEW s \in Sids, SubscriberStep(s)
          PROVE  NamesInv' /\ PostInv'
        <2>1. s \in Tasks /\ s \notin Requests
            BY TaskFacts
        <2>2. /\ pc[s] \in SubscriberSteps
              /\ \E l \in {"ended", "close_event", "recv", "panicked", "message", "send"} : Goto(s, l)
              /\ UNCHANGED <<sid, request, unsent, sent, known>>
            <3>1. CASE Recv(s) /\ Move(s, "ended")
                BY <3>1 DEF Recv, Move, SubscriberSteps, history
            <3>2. CASE Recv(s) /\ ~ Move(s, "ended")
                BY <3>2, RecvFacts DEF SubscriberSteps, history
            <3>3. CASE MessageEvent(s) \/ Heartbeat(s) \/ CloseEvent(s)
                BY <3>3 DEF MessageEvent, Heartbeat, CloseEvent, Emit, Deliver, SubscriberSteps
            <3> QED
                BY <1>5, <3>1, <3>2, <3>3 DEF SubscriberStep
        <2> QED
            BY <1>1, <2>1, <2>2, DataMove DEF SubscriberSteps
    <1>6. ASSUME NEW s \in Sids, NEW k \in PeerEvents, PeerEvent(s, k)
          PROVE  NamesInv' /\ PostInv'
        <2>1. PICK p \in PacketIds : p[1] = s /\ Broadcast(s, k, p)
            BY <1>6, PeerFacts
        <2>2. k \in Packets \cup {"close"} /\ UNCHANGED <<pc, sid, request, unsent, known>>
            BY <1>6, PeerFacts DEF control
        <2>3. ASSUME NEW r \in Requests
              PROVE  PostOf(r)'
            <3>1. p[1] # r /\ PostOf(r)
                BY <1>1, <2>1, TaskFacts DEF PostInv
            <3> QED
                BY <2>1, <2>2, <3>1, PostOthers
        <2>4. NamesInv'
            BY <1>1, <2>2, NamesKeep
        <2> QED
            BY <2>3, <2>4 DEF PostInv
    <1> QED
        BY <1>1, <1>2, <1>3, <1>4, <1>5, <1>6, NextIs, DataHandshake

\* Nothing was posted.
LEMMA DataInit ==
    ASSUME Init
    PROVE  DataInv
    <1>1. \A r \in Requests : pc[r] = "idle"
        BY TaskFacts DEF Init
    <1>2. NamesInv
        BY <1>1 DEF NamesInv, WithSid, Found
    <1>3. PostInv
        <2>1. \A s \in Sids : sent[s] = <<>>
            BY DEF Init
        <2>2. \A s \in Sids : \A i \in 1 .. Len(sent[s]) : FALSE
            BY <2>1
        <2> QED
            BY <1>1, <2>2 DEF PostInv, PostOf, Passing
    <1> QED
        BY <1>2, <1>3, KnownInit DEF DataInv

\* A data request that is refused has no effect, one that is accepted has
\* passed on each of its messages unless the subscriber is gone
\* (polling.rs:132-147).
THEOREM PostedWholly == Spec => []PostAllOrNothing
    <1> DEFINE Inv == TypeInv /\ SocketInv /\ DataInv
    <1>1. Init => Inv
        BY TypeInit, SocketInit, DataInit
    <1>2. Inv /\ [Next]_vars => Inv'
        BY TypeNext, SocketNext, DataNext
    <1>3. Inv => PostAllOrNothing
        <2> SUFFICES ASSUME Inv, NEW r \in Requests, NEW s \in Sids,
                            {i \in DOMAIN sent[s] : sent[s][i][1] = r} # {}
                     PROVE  /\ pc[r] \in {"post", "ok"} /\ s = request[r].sid
                            /\ \A i \in DOMAIN request[r].body : request[r].body[i] # "garbage"
                            /\ pc[r] = "ok" /\ Subscribed(s) =>
                                  Cardinality({i \in DOMAIN sent[s] : sent[s][i][1] = r})
                                     = Cardinality({i \in DOMAIN request[r].body :
                                                       request[r].body[i] = "message"})
            BY DEF PostAllOrNothing
        <2> DEFINE body == request[r].body
        <2>1. sent[s] \in Seq(PacketIds) /\ DOMAIN sent[s] = 1 .. Len(sent[s])
            BY DEF TypeInv, ChannelInv
        <2>2. \A i \in 1 .. Len(sent[s]) : sent[s][i] \in OfRequest(r) <=> sent[s][i][1] = r
            <3> SUFFICES ASSUME NEW i \in 1 .. Len(sent[s])
                         PROVE  sent[s][i] \in OfRequest(r) <=> sent[s][i][1] = r
                OBVIOUS
            <3>1. sent[s][i] \in PacketIds
                BY <2>1
            <3> QED
                BY <3>1 DEF PacketIds, OfRequest
        <2>3. PICK i \in 1 .. Len(sent[s]) : sent[s][i] \in OfRequest(r)
            BY <2>1, <2>2
        <2>4. PostOf(r)
            BY DEF DataInv, PostInv
        <2>5. pc[r] \in Passing /\ s = sid[r] /\ "wiring" \in Implemented
            BY <2>3, <2>4 DEF PostOf
        <2>6. sid[r] = request[r].sid
            BY <2>5 DEF TypeInv, ControlInv, Passing, WithSid, Found
        <2>7. /\ body \in Seq(Packets \cup {"garbage"}) /\ Len(body) \in Nat
              /\ DOMAIN body = 1 .. Len(body)
            <3>1. request[r] \in HttpRequests[r] \cup {NoRequest}
                BY DEF TypeInv, ControlInv
            <3>2. body \in Seq(Packets \cup {"garbage"})
                BY <3>1, RequestFacts
            <3> QED
                BY <3>2
        <2>8. ASSUME pc[r] = "ok", Subscribed(s)
              PROVE  Cardinality({j \in DOMAIN sent[s] : sent[s][j][1] = r})
                        = Cardinality({j \in DOMAIN body : body[j] = "message"})
            <3>1. Len(unsent[r]) = 0
                BY <2>4, <2>8 DEF PostOf, Passing
            <3>2. NumPosted(r) = Len(body)
                BY <2>7, <3>1 DEF NumPosted
            <3>3. CountTo(sent[s], Len(sent[s]), OfRequest(r)) = CountTo(body, Len(body), Messages)
                BY <2>4, <2>5, <2>8, <3>2 DEF PostOf
            <3>4. {j \in DOMAIN sent[s] : sent[s][j][1] = r}
                     = {j \in 1 .. Len(sent[s]) : sent[s][j] \in OfRequest(r)}
                BY <2>1, <2>2
            <3>5. {j \in DOMAIN body : body[j] = "message"}
                     = {j \in 1 .. Len(body) : body[j] \in Messages}
                BY <2>7 DEF Messages
            <3> QED
                BY <3>3, <3>4, <3>5 DEF CountTo
        <2> QED
            BY <2>4, <2>5, <2>6, <2>8 DEF PostOf, Passing, Decodes
    <1> HIDE DEF Inv
    <1>4. Spec => []Inv
        BY <1>1, <1>2, PTL DEF Spec
    <1> QED
        BY <1>3, <1>4, PTL

===============================================================================
