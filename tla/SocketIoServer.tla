---------------------------- MODULE SocketIoServer ----------------------------
(***************************************************************************)
(* The socket.io layer: socket_io_server/src/server.rs with connection.rs  *)
(* and namespace.rs.                                                       *)
(*                                                                         *)
(* The server listens to the engine's events and spawns one task for each  *)
(* of them, so the events of one client are handled in any order and at    *)
(* the same time.  The tasks share three concurrent maps (connections,     *)
(* namespaces, connection_lookup); a step of a task is what it does under  *)
(* one lock of one of them.  The application's own calls (`of`,            *)
(* `make_dynamic_namespace`) run beside the tasks and are tasks here too.  *)
(*                                                                         *)
(* An Option of the code is a set with at most one element.  A socket is   *)
(* named by the task that created it, and so is a namespace object: no     *)
(* task creates two of either.  A namespace name is one that starts with   *)
(* a slash, as `get_or_create_namespace` makes it and the decoder returns  *)
(* it.                                                                     *)
(***************************************************************************)
EXTENDS Integers, Sequences, FiniteSets, FiniteSetsExt

CONSTANTS
    Connections,  \* ids of engine connections
    Names,        \* names of namespaces
    Matchers,     \* the sets of names a dynamic namespace's function accepts
    Attachments,  \* the numbers of attachments a binary header announces
    MaxTasks,     \* bound: events and calls handled in a behaviour
    Workloads,    \* the sequences of events and calls that can arrive
    Implemented   \* the functions below that are more than `todo!()`

Unfinished == {"setup_connect_timer", "clear_connect_timer"}

Tasks == 1 .. MaxTasks

EngineInput ==
    [kind : {"connection", "close", "error", "bad", "empty", "binary"},
     conn : Connections]
    \cup [kind : {"connect", "packet"}, conn : Connections, nsp : Names]
    \cup [kind : {"header"}, conn : Connections, nsp : Names, attachments : Attachments]

ApplicationInput ==
    [kind : {"of"}, nsp : Names] \cup [kind : {"dynamic"}, matches : Matchers]

\* The engine reports nothing about a connection after its Close event, except
\* for a Connection event, which does not go through the same channel.
Orderly(w) ==
    \A i, j \in Tasks :
        i < j /\ w[i].kind = "close" /\ w[j] \in EngineInput /\ w[j].kind # "connection"
            => w[j].conn # w[i].conn

Entry == [connection |-> "timer", close |-> "remove", error |-> "ignore",
          bad |-> "ignore", empty |-> "ignore", binary |-> "decode",
          connect |-> "exists", packet |-> "handle", header |-> "set_decoder",
          of |-> "of_get", dynamic |-> "register"]

ASSUME ServerAssumption ==
    /\ Matchers \subseteq SUBSET Names
    /\ Attachments \subseteq Nat
    /\ MaxTasks \in Nat
    /\ Workloads \subseteq [Tasks -> EngineInput \cup ApplicationInput]
    /\ \A w \in Workloads : Orderly(w)
    /\ Implemented \subseteq Unfinished

(***************************************************************************)
(* The state.                                                              *)
(***************************************************************************)
VARIABLES
    connections,        \* engine connection id => Connection, if there is one
    connection_lookup,  \* socket id => engine connection id, if there is one
    namespaces,         \* name => namespace object, if there is one
    socket_ids,         \* the socket_ids of each namespace object
    dynamic_namespaces, \* the registered dynamic namespaces, by their task
    members,            \* the members of each dynamic namespace: name => object
    subscribed,         \* the engine's events are being listened to
    event,              \* the event or call that each task is for
    pc,                 \* where each task is
    namespace,          \* local: the namespace object a connect works with
    socket_id,          \* local: the id `add_connection` goes on with
    held,               \* local: a Connection that only the task can reach
    assembled,          \* history: the packets put together from attachments
    overlap,            \* history: connections with two tasks at once
    replaced            \* history: names whose object was overwritten

maps == <<connections, connection_lookup>>
spaces == <<namespaces, socket_ids, dynamic_namespaces, members>>
inputs == <<event, subscribed>>
locals == <<namespace, socket_id, held>>
history == <<assembled, overlap, replaced>>
vars == <<maps, spaces, inputs, pc, locals, history>>

Conn(t) == event[t].conn
Nsp(t) == event[t].nsp

\* A Connection: `sockets`, `namespaces` (name => socket id) and `decoder`.
NewConnection(s) ==
    [sockets |-> {s}, namespaces |-> [n \in Names |-> {}], decoder |-> {}]

Finished == {"connected", "refused", "panicked", "done"}
Running == {t \in Tasks : pc[t] \notin Finished \cup {"idle"}}

Init ==
    /\ connections = [c \in Connections |-> {}]
    /\ connection_lookup = [s \in Tasks |-> {}]
    /\ namespaces = [n \in Names |-> {}]
    /\ socket_ids = [o \in Tasks |-> {}]
    /\ dynamic_namespaces = <<>>
    /\ members = [d \in Tasks |-> [n \in Names |-> {}]]
    /\ subscribed = FALSE
    /\ event \in Workloads
    /\ pc = [t \in Tasks |-> "idle"]
    /\ namespace = [t \in Tasks |-> {}]
    /\ socket_id = [t \in Tasks |-> {}]
    /\ held = [t \in Tasks |-> {}]
    /\ assembled = {}
    /\ overlap = {}
    /\ replaced = {}

Goto(t, label) == pc' = [pc EXCEPT ![t] = label]

(***************************************************************************)
(* Events and calls.                                                       *)
(***************************************************************************)
\* The read lock on the list of dynamic namespaces is held until
\* `get_matching_dynamic_namespace` returns.
StateLocked == \E t \in Tasks : pc[t] \in {"match_get", "match_create", "adopt"}

\* The first call starts the listener, a later one only returns a receiver.
Subscribe ==
    /\ ~subscribed
    /\ ~StateLocked
    /\ subscribed' = TRUE
    /\ UNCHANGED <<maps, spaces, event, pc, locals, history>>

Busy(c) == \E t \in Running :
    event[t].kind \in {"connect", "close"} /\ event[t].conn = c

\* The task is spawned; nothing orders it after the tasks before it.
Start(t) ==
    /\ pc[t] = "idle"
    /\ \A u \in Tasks : u < t => pc[u] # "idle"
    /\ event[t] \in EngineInput => subscribed
    /\ overlap' = IF event[t].kind \in {"connect", "close"} /\ Busy(Conn(t))
                  THEN overlap \cup {Conn(t)} ELSE overlap
    /\ Goto(t, Entry[event[t].kind])
    /\ UNCHANGED <<maps, spaces, inputs, locals, assembled, replaced>>

\* Text that does not decode, an empty message, an error of the engine.
Ignore(t) ==
    /\ pc[t] = "ignore"
    /\ Goto(t, "done")
    /\ UNCHANGED <<maps, spaces, inputs, locals, history>>

SetupConnectTimer(t) ==
    /\ pc[t] = "timer"
    /\ Goto(t, IF "setup_connect_timer" \in Implemented THEN "done" ELSE "panicked")
    /\ UNCHANGED <<maps, spaces, inputs, locals, history>>

(***************************************************************************)
(* Namespaces.                                                             *)
(***************************************************************************)
Found == [match_get |-> "clear_timer", connect_get |-> "add", of_get |-> "done"]
Missing == [match_get |-> "match_create", connect_get |-> "connect_create",
            of_get |-> "of_create"]
Created == [match_create |-> "adopt", connect_create |-> "add", of_create |-> "done"]

GetNamespace(t) ==
    /\ pc[t] \in DOMAIN Found
    /\ namespace' = [namespace EXCEPT ![t] = namespaces[Nsp(t)]]
    /\ Goto(t, IF namespaces[Nsp(t)] # {} THEN Found[pc[t]] ELSE Missing[pc[t]])
    /\ UNCHANGED <<maps, spaces, inputs, socket_id, held, history>>

\* The insert does not look again: it replaces what another task stored.
CreateNamespace(t) ==
    /\ pc[t] \in DOMAIN Created
    /\ namespaces' = [namespaces EXCEPT ![Nsp(t)] = {t}]
    /\ namespace' = [namespace EXCEPT ![t] = {t}]
    /\ replaced' = IF namespaces[Nsp(t)] # {} THEN replaced \cup {Nsp(t)} ELSE replaced
    /\ Goto(t, Created[pc[t]])
    /\ UNCHANGED <<maps, socket_ids, dynamic_namespaces, members, inputs, socket_id,
                   held, assembled, overlap>>

MakeDynamicNamespace(t) ==
    /\ pc[t] = "register"
    /\ ~StateLocked
    /\ dynamic_namespaces' = Append(dynamic_namespaces, t)
    /\ Goto(t, "done")
    /\ UNCHANGED <<maps, namespaces, socket_ids, members, inputs, locals, history>>

NamespaceExists(t) ==
    /\ pc[t] = "exists"
    /\ Goto(t, IF namespaces[Nsp(t)] # {} THEN "clear_timer" ELSE "match")
    /\ UNCHANGED <<maps, spaces, inputs, locals, history>>

Matching(t) == {i \in DOMAIN dynamic_namespaces :
                    Nsp(t) \in event[dynamic_namespaces[i]].matches}

\* Faulty: a name that matches nothing is given up without an answer.
MatchNamespaceSilently(t) ==
    /\ pc[t] = "match"
    /\ Goto(t, IF Matching(t) = {} THEN "done" ELSE "match_get")
    /\ UNCHANGED <<maps, spaces, inputs, locals, history>>

\* For a name that matches nothing the responder gets a CONNECT_ERROR packet.
MatchNamespace(t) ==
    /\ pc[t] = "match"
    /\ Goto(t, IF Matching(t) = {} THEN "refused" ELSE "match_get")
    /\ UNCHANGED <<maps, spaces, inputs, locals, history>>

\* Faulty: the new namespace goes to the dynamic namespace added last.
InsertSimpleNamespaceLast(t) ==
    /\ pc[t] = "adopt"
    /\ LET parent == dynamic_namespaces[Len(dynamic_namespaces)] IN
       members' = [members EXCEPT ![parent][Nsp(t)] = namespace[t]]
    /\ Goto(t, "clear_timer")
    /\ UNCHANGED <<maps, namespaces, socket_ids, dynamic_namespaces, inputs, locals,
                   history>>

\* The first dynamic namespace that matches gets the new one as a member.
InsertSimpleNamespace(t) ==
    /\ pc[t] = "adopt"
    /\ LET parent == dynamic_namespaces[Min(Matching(t))] IN
       members' = [members EXCEPT ![parent][Nsp(t)] = namespace[t]]
    /\ Goto(t, "clear_timer")
    /\ UNCHANGED <<maps, namespaces, socket_ids, dynamic_namespaces, inputs, locals,
                   history>>

(***************************************************************************)
(* A client connects to a namespace.                                       *)
(***************************************************************************)
ClearConnectTimer(t) ==
    /\ pc[t] = "clear_timer"
    /\ Goto(t, IF "clear_connect_timer" \in Implemented
               THEN "connect_get" ELSE "panicked")
    /\ UNCHANGED <<maps, spaces, inputs, locals, history>>

\* `create_socket` and `add_socket`: the socket joins the namespace object.
\* Nothing is written to the `namespaces` of the Connection.
JoinNamespace(t) ==
    socket_ids' = [o \in Tasks |-> IF o \in namespace[t]
                                   THEN socket_ids[o] \cup {t} ELSE socket_ids[o]]

\* `add_to_namespace`, under the reference to the Connection and its mutex.
AddToNamespace(t) ==
    /\ pc[t] = "add"
    /\ \E conn \in connections[Conn(t)] :
          LET known == conn.namespaces[Nsp(t)] IN
          IF known # {}
          THEN /\ socket_id' = [socket_id EXCEPT ![t] = known]
               /\ UNCHANGED <<connections, socket_ids>>
          ELSE /\ socket_id' = [socket_id EXCEPT ![t] = {t}]
               /\ connections' = [connections EXCEPT ![Conn(t)] =
                     {[conn EXCEPT !.sockets = @ \cup {t}]}]
               /\ JoinNamespace(t)
    /\ Goto(t, "lookup")
    /\ UNCHANGED <<connection_lookup, namespaces, dynamic_namespaces, members,
                   inputs, namespace, held, history>>

\* No Connection yet: `initialize` makes one, and no lock is kept until it
\* is inserted.
NoConnection(t) ==
    /\ pc[t] = "add"
    /\ connections[Conn(t)] = {}
    /\ Goto(t, "initialize")
    /\ UNCHANGED <<maps, spaces, inputs, locals, history>>

\* Faulty: the new socket is not added to its namespace.
InitializeAlone(t) ==
    /\ pc[t] = "initialize"
    /\ held' = [held EXCEPT ![t] = {NewConnection(t)}]
    /\ socket_id' = [socket_id EXCEPT ![t] = {t}]
    /\ Goto(t, "insert")
    /\ UNCHANGED <<maps, spaces, inputs, namespace, history>>

Initialize(t) ==
    /\ pc[t] = "initialize"
    /\ held' = [held EXCEPT ![t] = {NewConnection(t)}]
    /\ socket_id' = [socket_id EXCEPT ![t] = {t}]
    /\ JoinNamespace(t)
    /\ Goto(t, "insert")
    /\ UNCHANGED <<maps, namespaces, dynamic_namespaces, members, inputs, namespace,
                   history>>

\* `Drop for State`: the sockets leave the namespaces the Connection lists.
DropState(conns) ==
    socket_ids' = [o \in Tasks |-> socket_ids[o] \
        {s \in Tasks : \E conn \in conns, n \in Names :
            s \in conn.namespaces[n] /\ o \in namespaces[n]}]

\* The insert replaces, and drops, what another task of this client stored.
InsertConnection(t) ==
    /\ pc[t] = "insert"
    /\ connections' = [connections EXCEPT ![Conn(t)] = held[t]]
    /\ DropState(connections[Conn(t)])
    /\ held' = [held EXCEPT ![t] = {}]
    /\ Goto(t, "lookup")
    /\ UNCHANGED <<connection_lookup, namespaces, dynamic_namespaces, members,
                   inputs, namespace, socket_id, history>>

\* Faulty: the answer is sent and the socket is never entered.
InsertLookupNever(t) ==
    /\ pc[t] = "lookup"
    /\ Goto(t, "connected")
    /\ UNCHANGED <<maps, spaces, inputs, locals, history>>

\* The socket is entered and the responder is called with its id.  (Whether the
\* client gets it is up to the engine, which keeps no end of the responder to
\* receive it from: engine_io_server/src/server.rs:369, 379-411.)
InsertLookup(t) ==
    /\ pc[t] = "lookup"
    /\ connection_lookup' = [s \in Tasks |->
          IF s \in socket_id[t] THEN {Conn(t)} ELSE connection_lookup[s]]
    /\ Goto(t, "connected")
    /\ UNCHANGED <<connections, spaces, inputs, locals, history>>

(***************************************************************************)
(* The connection of a client is closed.                                   *)
(***************************************************************************)
RemoveConnection(t) ==
    /\ pc[t] = "remove"
    /\ held' = [held EXCEPT ![t] = connections[Conn(t)]]
    /\ connections' = [connections EXCEPT ![Conn(t)] = {}]
    /\ Goto(t, IF connections[Conn(t)] = {} THEN "done" ELSE "forget")
    /\ UNCHANGED <<connection_lookup, spaces, inputs, namespace, socket_id, history>>

\* Faulty: the sockets of the connection stay in the lookup.
RemoveSocketsNever(t) ==
    /\ pc[t] = "forget"
    /\ DropState(held[t])
    /\ held' = [held EXCEPT ![t] = {}]
    /\ Goto(t, "done")
    /\ UNCHANGED <<maps, namespaces, dynamic_namespaces, members, inputs, namespace,
                   socket_id, history>>

RemoveSockets(t) ==
    /\ pc[t] = "forget"
    /\ connection_lookup' = [s \in Tasks |->
          IF \E conn \in held[t] : s \in conn.sockets
          THEN {} ELSE connection_lookup[s]]
    /\ DropState(held[t])
    /\ held' = [held EXCEPT ![t] = {}]
    /\ Goto(t, "done")
    /\ UNCHANGED <<connections, namespaces, dynamic_namespaces, members, inputs,
                   namespace, socket_id, history>>

(***************************************************************************)
(* Packets: plain ones, and those that come as a header and attachments.   *)
(***************************************************************************)
\* `handle_packet` looks the namespace up in the Connection.  The socket's
\* own handler is `todo!()`, which the test never gets to.
AfterPacket(conn, n) == IF conn.namespaces[n] # {} THEN "panicked" ELSE "done"

HandlePacket(t) ==
    /\ pc[t] = "handle"
    /\ \/ connections[Conn(t)] = {} /\ Goto(t, "done")
       \/ \E conn \in connections[Conn(t)] : Goto(t, AfterPacket(conn, Nsp(t)))
    /\ UNCHANGED <<maps, spaces, inputs, locals, history>>

\* A second header while one is incomplete is a "sequence error".
SetDecoder(t) ==
    /\ pc[t] = "set_decoder"
    /\ connections' = [connections EXCEPT ![Conn(t)] =
          {IF conn.decoder = {} /\ event[t].attachments > 0
           THEN [conn EXCEPT !.decoder = {[header |-> t, buffer |-> <<>>]}]
           ELSE conn : conn \in @}]
    /\ Goto(t, "done")
    /\ UNCHANGED <<connection_lookup, spaces, inputs, locals, history>>

\* Faulty: counts one attachment too few.
CanCollectLate(d) == Len(d.buffer) > event[d.header].attachments

CanCollect(d) == Len(d.buffer) = event[d.header].attachments

\* Faulty: the decoder is used where it is and stays when it is done.
DecodeBinaryKept(t) ==
    /\ pc[t] = "decode"
    /\ \E conn \in connections[Conn(t)] : \E d \in conn.decoder :
          LET full == [d EXCEPT !.buffer = Append(@, t)] IN
          /\ connections' = [connections EXCEPT ![Conn(t)] =
                {[conn EXCEPT !.decoder = {full}]}]
          /\ assembled' = IF CanCollect(full) THEN assembled \cup {full} ELSE assembled
          /\ Goto(t, "done")
    /\ UNCHANGED <<connection_lookup, spaces, inputs, locals, overlap, replaced>>

\* The decoder is taken out, given the attachment, and put back unless the
\* packet is complete; one that was complete before fails and is lost.
DecodeBinary(t) ==
    /\ pc[t] = "decode"
    /\ \E conn \in connections[Conn(t)] : \E d \in conn.decoder :
          LET full == [d EXCEPT !.buffer = Append(@, t)]
              left == IF CanCollect(d) \/ CanCollect(full) THEN {} ELSE {full} IN
          /\ connections' = [connections EXCEPT ![Conn(t)] =
                {[conn EXCEPT !.decoder = left]}]
          /\ assembled' = IF ~CanCollect(d) /\ CanCollect(full)
                          THEN assembled \cup {full} ELSE assembled
          /\ Goto(t, IF CanCollect(full) THEN AfterPacket(conn, Nsp(d.header))
                                         ELSE "done")
    /\ UNCHANGED <<connection_lookup, spaces, inputs, locals, overlap, replaced>>

\* An attachment without a connection, or without a header, is dropped.
DropBinary(t) ==
    /\ pc[t] = "decode"
    /\ \A conn \in connections[Conn(t)] : conn.decoder = {}
    /\ Goto(t, "done")
    /\ UNCHANGED <<maps, spaces, inputs, locals, history>>

-------------------------------------------------------------------------------
ConnectStep(t) ==
    \/ NamespaceExists(t) \/ MatchNamespace(t) \/ InsertSimpleNamespace(t)
    \/ ClearConnectTimer(t) \/ AddToNamespace(t) \/ NoConnection(t)
    \/ Initialize(t) \/ InsertConnection(t) \/ InsertLookup(t)

NamespaceStep(t) ==
    GetNamespace(t) \/ CreateNamespace(t) \/ MakeDynamicNamespace(t)

CloseStep(t) == RemoveConnection(t) \/ RemoveSockets(t)

PacketStep(t) ==
    \/ Ignore(t) \/ SetupConnectTimer(t) \/ HandlePacket(t) \/ SetDecoder(t)
    \/ DecodeBinary(t) \/ DropBinary(t)

TaskStep(t) == ConnectStep(t) \/ NamespaceStep(t) \/ CloseStep(t) \/ PacketStep(t)

\* Every task has run.
Quiet == (\A t \in Tasks : pc[t] \in Finished) /\ UNCHANGED vars

Next ==
    \/ Subscribe
    \/ \E t \in Tasks : Start(t) \/ TaskStep(t)
    \/ Quiet

Spec == Init /\ [][Next]_vars

(***************************************************************************)
(* Properties.                                                             *)
(***************************************************************************)
ConnectionType ==
    [sockets : SUBSET Tasks, namespaces : [Names -> SUBSET Tasks],
     decoder : SUBSET [header : Tasks, buffer : Seq(Tasks)]]

\* Every map holds what its type in the code allows, and a decoder that a
\* Connection keeps still waits for an attachment (connection.rs:113-142), so
\* that the next binary message of the client is one.
TypeOK ==
    /\ \A c \in Connections :
          /\ Cardinality(connections[c]) <= 1
          /\ \A conn \in connections[c] :
                /\ conn \in ConnectionType
                /\ Cardinality(conn.decoder) <= 1
                /\ \A d \in conn.decoder : Len(d.buffer) < event[d.header].attachments
    /\ connection_lookup \in [Tasks -> SUBSET Connections]
    /\ namespaces \in [Names -> SUBSET Tasks]
    /\ \A n \in Names : Cardinality(namespaces[n]) <= 1
    /\ socket_ids \in [Tasks -> SUBSET Tasks]
    /\ members \in [Tasks -> [Names -> SUBSET Tasks]]

\* `decode_binary_data`: a packet put together from attachments has exactly
\* as many as its header announced, and no attachment is part of two
\* packets or waits in a decoder after its packet was delivered, however
\* the tasks of the messages overtake each other.
AssembledOnce ==
    LET waiting == UNION {conn.decoder : conn \in UNION {connections[c] : c \in Connections}}
        Parts(d) == {d.buffer[i] : i \in DOMAIN d.buffer}
    IN  /\ \A d \in assembled :
              Cardinality(Parts(d)) = event[d.header].attachments
        /\ \A d, e \in assembled \cup waiting :
              d # e => d.header # e.header /\ Parts(d) \cap Parts(e) = {}

\* `add_connection`: every socket of a Connection the server holds can be
\* found through `connection_lookup`, from the moment its task inserted it.
\* Close events and other connects of the same client run in between.
LiveSocketsRoutable ==
    \A c \in Connections : \A conn \in connections[c] : \A s \in conn.sockets :
        pc[s] = "lookup" \/ connection_lookup[s] = {c}

\* `remove_connection`: once the Close event of a client is handled, neither
\* its Connection nor an entry of the lookup is left, provided that its
\* connects and its close did not run at the same time.  (When they do, a
\* connect that is late leaves a Connection that nobody removes.)
CloseForgets ==
    \A t \in Tasks :
        /\ event[t].kind = "close"
        /\ pc[t] = "done"
        /\ Conn(t) \notin overlap
        => /\ connections[Conn(t)] = {}
           /\ \A s \in Tasks : Conn(t) \notin connection_lookup[s]

\* `connect_client`: every socket of a Connection is in the namespace object
\* that the server has under the name the client asked for, unless two tasks
\* created that object at once and one replaced the other's.
JoinedUnlessReplaced ==
    \A c \in Connections : \A conn \in connections[c] : \A s \in conn.sockets :
        \/ Nsp(s) \in replaced
        \/ \E o \in namespaces[Nsp(s)] : s \in socket_ids[o]

\* `get_matching_dynamic_namespace`: a namespace object that a connect
\* created is, once its task has gone on, a member of the dynamic namespace
\* that was registered first among those that match, or its name was
\* created by two tasks at once.
Adopted ==
    \A t \in Tasks : \A o \in namespace[t] :
        /\ event[t].kind = "connect"
        /\ o = t
        /\ pc[t] \notin {"adopt"}
        /\ Nsp(t) \notin replaced
        => members[dynamic_namespaces[Min(Matching(t))]][Nsp(t)] = {t}

\* `handle_packet_from_client`: a connect that is over has called its responder,
\* and one that gave it a socket id has entered that id in the lookup, where it
\* is until a Close event of the client is handled, whatever other connects of
\* the client come in between.
ConnectAnswered ==
    \A t \in Tasks :
        event[t].kind = "connect" /\ pc[t] \in Finished \ {"panicked"} =>
            \/ pc[t] = "refused"
            \/ /\ pc[t] = "connected"
               /\ \/ \E s \in socket_id[t] : connection_lookup[s] = {Conn(t)}
                  \/ \E u \in Tasks : /\ event[u].kind = "close" /\ Conn(u) = Conn(t)
                                       /\ pc[u] \in {"forget", "done"}

\* What the comment on `remove_connection` says: the destructor of the
\* connection's state cleans the namespaces up.  After a close that nothing
\* overlapped, no namespace holds a socket of that connection.
NamespacesCleaned ==
    \A t \in Tasks :
        /\ event[t].kind = "close"
        /\ pc[t] = "done"
        /\ Conn(t) \notin overlap
        => \A o \in Tasks : \A s \in socket_ids[o] : Conn(s) # Conn(t)
===============================================================================
