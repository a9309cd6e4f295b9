------------------------- MODULE SocketIoServerProofs -------------------------
(***************************************************************************)
(* Theorems about SocketIoServer, for any connections, names, workloads    *)
(* and number of tasks, and whichever unfinished functions are taken as    *)
(* implemented: connections and the routing to them, sockets in their      *)
(* namespaces, namespaces in dynamic ones, and packets put together from   *)
(* attachments.                                                            *)
(***************************************************************************)
EXTENDS SocketIoServer, FiniteSetTheorems, TLAPS

-------------------------------------------------------------------------------
(* Type correctness *)

\* The steps of a connect, in the order in which its task can get to them.
Arriving == {"exists", "match", "match_get", "match_create"}
Choosing == Arriving \cup {"adopt", "clear_timer", "connect_get", "connect_create"}
Entered == {"lookup", "connected"}
Connecting == Choosing \cup {"add", "initialize", "insert", "refused"} \cup Entered

Labels ==
    Connecting \cup Finished
        \cup {"idle", "timer", "remove", "forget", "ignore", "decode", "handle",
              "set_decoder", "of_get", "of_create", "register"}

\* The kinds of events and calls whose tasks get to a label.
Kinds(label) ==
    CASE label \in Connecting -> {"connect"}
      [] label \in {"remove", "forget"} -> {"close"}
      [] label = "timer" -> {"connection"}
      [] label = "ignore" -> {"error", "bad", "empty"}
      [] label = "decode" -> {"binary"}
      [] label = "handle" -> {"packet"}
      [] label = "set_decoder" -> {"header"}
      [] label \in {"of_get", "of_create"} -> {"of"}
      [] label = "register" -> {"dynamic"}
      [] OTHER -> DOMAIN Entry

AtMostOne(S) == \A x, y \in S : x = y

ConnectionOK(conn) == AtMostOne(conn.decoder)

\* The tasks are where their events lead them.
PlaceInv ==
    /\ event \in Workloads
    /\ pc \in [Tasks -> Labels]
    /\ \A t \in Tasks : event[t].kind \in Kinds(pc[t])

ConnectionsInv ==
    /\ connections \in [Connections -> SUBSET ConnectionType]
    /\ \A c \in Connections :
          AtMostOne(connections[c]) /\ \A conn \in connections[c] : ConnectionOK(conn)

MapsInv ==
    /\ connection_lookup \in [Tasks -> SUBSET Connections]
    /\ namespaces \in [Names -> SUBSET Tasks]
    /\ \A n \in Names : AtMostOne(namespaces[n])
    /\ socket_ids \in [Tasks -> SUBSET Tasks]
    /\ dynamic_namespaces \in Seq(Tasks)
    /\ members \in [Tasks -> [Names -> SUBSET Tasks]]

LocalsInv ==
    /\ namespace \in [Tasks -> SUBSET Tasks] /\ \A t \in Tasks : AtMostOne(namespace[t])
    /\ socket_id \in [Tasks -> SUBSET Tasks]
    /\ held \in [Tasks -> SUBSET ConnectionType]
    /\ \A t \in Tasks :
          AtMostOne(held[t]) /\ \A conn \in held[t] : ConnectionOK(conn)

HistoryInv ==
    /\ assembled \subseteq [header : Tasks, buffer : Seq(Tasks)]
    /\ overlap \subseteq Connections
    /\ replaced \subseteq Names

TypeInv == PlaceInv /\ ConnectionsInv /\ MapsInv /\ LocalsInv /\ HistoryInv

Kind(t) == event[t].kind

\* What a task's event carries.
LEMMA EventFacts ==
    ASSUME event \in Workloads, NEW t \in Tasks
    PROVE  /\ Kind(t) \in DOMAIN Entry
           /\ Kind(t) \notin {"of", "dynamic"} => event[t] \in EngineInput /\ Conn(t) \in Connections
           /\ Kind(t) \in {"connect", "packet", "header", "of"} => Nsp(t) \in Names
           /\ Kind(t) = "header" => event[t].attachments \in Nat
    <1>1. event[t] \in EngineInput \cup ApplicationInput
        BY ServerAssumption
    <1>2. CASE event[t] \in EngineInput
        BY <1>2, ServerAssumption DEF EngineInput, Entry, Kind, Conn, Nsp
    <1>3. CASE event[t] \in ApplicationInput
        BY <1>3 DEF ApplicationInput, Entry, Kind, Conn, Nsp
    <1> QED
        BY <1>1, <1>2, <1>3

\* Which events lead a task to a label.
LEMMA KindsAre ==
    /\ \A l \in Connecting : Kinds(l) = {"connect"}
    /\ Kinds("remove") = {"close"} /\ Kinds("forget") = {"close"}
    /\ Kinds("timer") = {"connection"} /\ Kinds("ignore") = {"error", "bad", "empty"}
    /\ Kinds("decode") = {"binary"} /\ Kinds("handle") = {"packet"}
    /\ Kinds("set_decoder") = {"header"} /\ Kinds("register") = {"dynamic"}
    /\ Kinds("of_get") = {"of"} /\ Kinds("of_create") = {"of"}
    /\ \A l \in {"idle", "done", "panicked"} : Kinds(l) = DOMAIN Entry
    BY DEF Kinds, Connecting, Choosing, Arriving, Entered

\* A task at a step serves the kind of event that the step is for.
LEMMA PlaceFacts ==
    ASSUME TypeInv, NEW t \in Tasks
    PROVE  /\ pc[t] \in Connecting => Kind(t) = "connect"
           /\ pc[t] \in {"remove", "forget"} => Kind(t) = "close"
           /\ pc[t] = "set_decoder" => Kind(t) = "header"
           /\ pc[t] = "decode" => Kind(t) = "binary"
           /\ pc[t] = "handle" => Kind(t) = "packet"
           /\ pc[t] = "register" => Kind(t) = "dynamic"
           /\ pc[t] \in {"of_get", "of_create"} => Kind(t) = "of"
           /\ pc[t] \in Connecting \cup {"remove", "forget", "set_decoder", "decode", "handle"}
                => Conn(t) \in Connections
           /\ pc[t] \in Connecting \cup {"set_decoder", "handle", "of_get", "of_create"}
                => Nsp(t) \in Names
           /\ Kind(t) \in DOMAIN Entry
    <1>1. Kind(t) \in Kinds(pc[t]) /\ event \in Workloads
        BY DEF TypeInv, PlaceInv, Kind
    <1>2. /\ pc[t] \in Connecting => Kind(t) = "connect"
          /\ pc[t] \in {"remove", "forget"} => Kind(t) = "close"
          /\ pc[t] = "set_decoder" => Kind(t) = "header"
          /\ pc[t] = "decode" => Kind(t) = "binary"
          /\ pc[t] = "handle" => Kind(t) = "packet"
          /\ pc[t] = "register" => Kind(t) = "dynamic"
          /\ pc[t] \in {"of_get", "of_create"} => Kind(t) = "of"
        BY <1>1, KindsAre
    <1> QED
        BY <1>1, <1>2, EventFacts

\* A task goes on to a step of its own event.
LEMMA Moves ==
    ASSUME TypeInv, NEW t \in Tasks, NEW l \in Labels, Goto(t, l), UNCHANGED event,
           Kind(t) \in Kinds(l)
    PROVE  PlaceInv'
    BY DEF TypeInv, PlaceInv, Goto, Kind

\* A task that starts keeps the types.
LEMMA TypeStart ==
    ASSUME TypeInv, NEW t \in Tasks, Start(t)
    PROVE  TypeInv'
    <1>1. Kind(t) \in DOMAIN Entry /\ event \in Workloads
        BY PlaceFacts DEF TypeInv, PlaceInv
    <1>2. Entry[Kind(t)] \in Labels /\ Kind(t) \in Kinds(Entry[Kind(t)])
        BY <1>1, KindsAre DEF Entry, Labels, Connecting, Choosing, Arriving
    <1>3. Goto(t, Entry[Kind(t)]) /\ UNCHANGED event
        BY DEF Start, Kind, inputs
    <1>4. PlaceInv'
        BY <1>2, <1>3, Moves
    <1>5. HistoryInv'
        BY <1>1, EventFacts DEF Start, TypeInv, HistoryInv, Kind
    <1>6. UNCHANGED <<maps, spaces, locals>>
        BY DEF Start
    <1> QED
        BY <1>4, <1>5, <1>6 DEF TypeInv, ConnectionsInv, MapsInv, LocalsInv, maps, spaces, locals

\* The steps that only read the maps.
Plain(t) ==
    \/ Ignore(t) \/ SetupConnectTimer(t) \/ NamespaceExists(t) \/ MatchNamespace(t)
    \/ ClearConnectTimer(t) \/ NoConnection(t) \/ HandlePacket(t) \/ DropBinary(t)

PlainFrom == {"ignore", "timer", "handle", "decode", "exists", "match", "clear_timer", "add"}
PlainTo == {"done", "panicked", "clear_timer", "match", "refused", "match_get",
            "connect_get", "initialize"}

\* What such a step has seen when it goes on.
LEMMA PlainFacts ==
    ASSUME TypeInv, NEW t \in Tasks, Plain(t)
    PROVE  /\ UNCHANGED <<maps, spaces, inputs, locals, history>>
           /\ pc[t] \in PlainFrom
           /\ \E l \in PlainTo :
                /\ Goto(t, l) /\ Kind(t) \in Kinds(l)
                /\ l = "initialize" => pc[t] = "add" /\ connections[Conn(t)] = {}
                /\ l = "clear_timer" => pc[t] = "exists" /\ namespaces[Nsp(t)] # {}
                /\ l = "match" => pc[t] = "exists"
                /\ l = "match_get" => pc[t] = "match" /\ Matching(t) # {}
                /\ l = "connect_get" => pc[t] = "clear_timer"
                /\ l = "done" => Kind(t) \notin {"connect", "close"}
    <1> USE DEF PlainFrom, PlainTo
    <1>1. /\ \A l \in {"done", "panicked"} : Kind(t) \in Kinds(l)
          /\ pc[t] \in Connecting => \A l \in Connecting : Kind(t) \in Kinds(l)
          /\ pc[t] \in {"ignore", "timer", "handle", "decode"} => Kind(t) \notin {"connect", "close"}
        <2>1. Kind(t) \in Kinds(pc[t])
            BY DEF TypeInv, PlaceInv, Kind
        <2> QED
            BY <2>1, KindsAre, PlaceFacts
    <1>2. {"match", "refused", "match_get", "connect_get", "initialize", "clear_timer",
           "exists", "add"} \subseteq Connecting
        BY DEF Connecting, Choosing, Arriving
    <1>3. UNCHANGED <<maps, spaces, inputs, locals, history>> /\ pc[t] \in PlainFrom
        BY DEF Plain, Ignore, SetupConnectTimer, NamespaceExists, MatchNamespace,
               ClearConnectTimer, NoConnection, HandlePacket, DropBinary
    <1>4. CASE Ignore(t) \/ SetupConnectTimer(t) \/ HandlePacket(t) \/ DropBinary(t)
        <2>1. \E l \in {"done", "panicked"} : Goto(t, l)
            BY <1>4 DEF Ignore, SetupConnectTimer, HandlePacket, DropBinary, AfterPacket
        <2>2. pc[t] \in {"ignore", "timer", "handle", "decode"}
            BY <1>4 DEF Ignore, SetupConnectTimer, HandlePacket, DropBinary
        <2> QED
            BY <2>1, <2>2, <1>1, <1>3
    <1>5. CASE NamespaceExists(t)
        BY <1>5, <1>1, <1>2, <1>3 DEF NamespaceExists
    <1>6. CASE MatchNamespace(t)
        BY <1>6, <1>1, <1>2, <1>3 DEF MatchNamespace
    <1>7. CASE ClearConnectTimer(t)
        BY <1>7, <1>1, <1>2, <1>3 DEF ClearConnectTimer
    <1>8. CASE NoConnection(t)
        BY <1>8, <1>1, <1>2, <1>3 DEF NoConnection
    <1> QED
        BY <1>4, <1>5, <1>6, <1>7, <1>8 DEF Plain

\* So does a step that changes no map.
LEMMA TypePlain ==
    ASSUME TypeInv, NEW t \in Tasks, Plain(t)
    PROVE  TypeInv'
    <1>1. PICK l \in PlainTo : Goto(t, l) /\ Kind(t) \in Kinds(l)
        BY PlainFacts
    <1>2. UNCHANGED <<maps, spaces, inputs, locals, history>>
        BY PlainFacts
    <1>3. l \in Labels
        BY DEF PlainTo, Labels, Connecting, Choosing, Arriving, Finished
    <1>4. PlaceInv'
        BY <1>1, <1>2, <1>3, Moves DEF inputs
    <1> QED
        BY <1>2, <1>4 DEF TypeInv, ConnectionsInv, MapsInv, LocalsInv, HistoryInv,
                          maps, spaces, locals, history

\* The other steps, with where they go.
LEMMA TypePlaces ==
    ASSUME TypeInv, NEW t \in Tasks, TaskStep(t)
    PROVE  PlaceInv'
    <1> USE DEF Labels, Connecting, Choosing, Arriving, Entered, Finished
    <1>1. /\ \A l \in {"done", "panicked"} : Kind(t) \in Kinds(l)
          /\ pc[t] \in Connecting => \A l \in Connecting : Kind(t) \in Kinds(l)
          /\ pc[t] = "remove" => Kind(t) \in Kinds("forget")
          /\ pc[t] = "of_get" => Kind(t) \in Kinds("of_create")
        <2>1. Kind(t) \in Kinds(pc[t])
            BY DEF TypeInv, PlaceInv, Kind
        <2> QED
            BY <2>1, KindsAre, PlaceFacts
    <1>2. CASE Plain(t)
        BY <1>2, TypePlain DEF TypeInv
    <1>3. CASE GetNamespace(t)
        BY <1>3, <1>1, Moves DEF GetNamespace, Found, Missing, inputs
    <1>4. CASE CreateNamespace(t)
        BY <1>4, <1>1, Moves DEF CreateNamespace, Created, inputs
    <1>5. CASE MakeDynamicNamespace(t)
        BY <1>5, <1>1, Moves DEF MakeDynamicNamespace, inputs
    <1>6. CASE InsertSimpleNamespace(t)
        BY <1>6, <1>1, Moves DEF InsertSimpleNamespace, inputs
    <1>7. CASE AddToNamespace(t)
        BY <1>7, <1>1, Moves DEF AddToNamespace, inputs
    <1>8. CASE Initialize(t) \/ InsertConnection(t) \/ InsertLookup(t)
        BY <1>8, <1>1, Moves DEF Initialize, InsertConnection, InsertLookup, inputs
    <1>9. CASE RemoveConnection(t) \/ RemoveSockets(t)
        BY <1>9, <1>1, Moves DEF RemoveConnection, RemoveSockets, inputs
    <1>10. CASE SetDecoder(t)
        BY <1>10, <1>1, Moves DEF SetDecoder, inputs
    <1>11. CASE DecodeBinary(t)
        <2>1. \E l \in {"done", "panicked"} : Goto(t, l)
            BY <1>11 DEF DecodeBinary, AfterPacket
        <2> QED
            BY <2>1, <1>11, <1>1, Moves DEF DecodeBinary, inputs
    <1> QED
        BY <1>2, <1>3, <1>4, <1>5, <1>6, <1>7, <1>8, <1>9, <1>10, <1>11
        DEF TaskStep, ConnectStep, NamespaceStep, CloseStep, PacketStep, Plain

\* Connection::new.
LEMMA NewConnectionType ==
    ASSUME NEW t \in Tasks
    PROVE  NewConnection(t) \in ConnectionType /\ ConnectionOK(NewConnection(t))
    BY DEF NewConnection, ConnectionType, ConnectionOK, AtMostOne

\* Where a task looks, and what it finds there.
LEMMA ConnectionFacts ==
    ASSUME TypeInv, NEW c \in Connections, NEW conn \in connections[c]
    PROVE  /\ conn \in ConnectionType /\ connections[c] = {conn}
           /\ conn.sockets \subseteq Tasks /\ conn.namespaces \in [Names -> SUBSET Tasks]
           /\ \A d \in conn.decoder :
                /\ conn.decoder = {d}
                /\ d \in [header : Tasks, buffer : Seq(Tasks)]
    <1>1. conn \in ConnectionType /\ connections[c] = {conn} /\ AtMostOne(conn.decoder)
        BY DEF TypeInv, ConnectionsInv, ConnectionOK, AtMostOne
    <1> QED
        BY <1>1 DEF ConnectionType, AtMostOne

\* What DecodeBinary leaves in a Connection's decoder.
LEMMA DecodeFacts ==
    ASSUME TypeInv, NEW t \in Tasks, DecodeBinary(t)
    PROVE  \E conn \in connections[Conn(t)] : \E d \in conn.decoder :
             \E full \in [header : Tasks, buffer : Seq(Tasks)] :
             \E left \in SUBSET {full} :
               /\ Conn(t) \in Connections
               /\ d \in [header : Tasks, buffer : Seq(Tasks)]
               /\ full.header = d.header /\ full.buffer = Append(d.buffer, t)
               /\ connections' = [connections EXCEPT ![Conn(t)] =
                                      {[conn EXCEPT !.decoder = left]}]
               /\ assembled' = assembled \/ (/\ assembled' = assembled \cup {full}
                                             /\ left = {} /\ CanCollect(full))
               /\ \E l \in {"done", "panicked"} : Goto(t, l)
    <1>1. Conn(t) \in Connections
        BY PlaceFacts DEF DecodeBinary
    <1>2. PICK conn \in connections[Conn(t)] : \E d \in conn.decoder :
            LET full == [d EXCEPT !.buffer = Append(@, t)]
                left == IF CanCollect(d) \/ CanCollect(full) THEN {} ELSE {full} IN
            /\ connections' = [connections EXCEPT ![Conn(t)] =
                  {[conn EXCEPT !.decoder = left]}]
            /\ assembled' = IF ~CanCollect(d) /\ CanCollect(full)
                            THEN assembled \cup {full} ELSE assembled
            /\ Goto(t, IF CanCollect(full) THEN AfterPacket(conn, Nsp(d.header))
                                           ELSE "done")
        BY DEF DecodeBinary
    <1>3. PICK d \in conn.decoder :
            LET full == [d EXCEPT !.buffer = Append(@, t)]
                left == IF CanCollect(d) \/ CanCollect(full) THEN {} ELSE {full} IN
            /\ connections' = [connections EXCEPT ![Conn(t)] =
                  {[conn EXCEPT !.decoder = left]}]
            /\ assembled' = IF ~CanCollect(d) /\ CanCollect(full)
                            THEN assembled \cup {full} ELSE assembled
            /\ Goto(t, IF CanCollect(full) THEN AfterPacket(conn, Nsp(d.header))
                                           ELSE "done")
        BY <1>2
    <1> DEFINE full == [d EXCEPT !.buffer = Append(@, t)]
    <1> DEFINE left == IF CanCollect(d) \/ CanCollect(full) THEN {} ELSE {full}
    <1>4. d \in [header : Tasks, buffer : Seq(Tasks)]
        BY <1>1, ConnectionFacts
    <1>5. /\ full \in [header : Tasks, buffer : Seq(Tasks)]
          /\ full.header = d.header /\ full.buffer = Append(d.buffer, t)
        BY <1>4
    <1>6. /\ left \in SUBSET {full}
          /\ assembled' = assembled \/ (/\ assembled' = assembled \cup {full}
                                        /\ left = {} /\ CanCollect(full))
        BY <1>3
    <1>7. \E l \in {"done", "panicked"} : Goto(t, l)
        BY <1>3 DEF AfterPacket
    <1>8. connections' = [connections EXCEPT ![Conn(t)] = {[conn EXCEPT !.decoder = left]}]
        BY <1>3
    <1> HIDE DEF full, left
    <1> QED
        BY <1>1, <1>4, <1>5, <1>6, <1>7, <1>8

\* Overwriting the Connection of a client.
LEMMA OneConnection ==
    ASSUME ConnectionsInv, NEW c \in Connections, NEW conn \in ConnectionType,
           ConnectionOK(conn), connections' = [connections EXCEPT ![c] = {conn}]
    PROVE  ConnectionsInv'
    BY DEF ConnectionsInv, AtMostOne

\* SetDecoder does nothing, or puts a new decoder where there was none.
LEMMA SetDecoderFacts ==
    ASSUME TypeInv, NEW t \in Tasks, SetDecoder(t)
    PROVE  \/ UNCHANGED connections
           \/ \E conn \in connections[Conn(t)] :
                connections' = [connections EXCEPT ![Conn(t)] =
                    {[conn EXCEPT !.decoder = {[header |-> t, buffer |-> <<>>]}]}]
    <1>1. Conn(t) \in Connections
        BY PlaceFacts DEF SetDecoder
    <1> DEFINE F(conn) == IF conn.decoder = {} /\ event[t].attachments > 0
                          THEN [conn EXCEPT !.decoder = {[header |-> t, buffer |-> <<>>]}]
                          ELSE conn
    <1>2. connections' = [connections EXCEPT ![Conn(t)] =
                              {F(conn) : conn \in connections[Conn(t)]}]
        BY <1>1 DEF SetDecoder, TypeInv, ConnectionsInv
    <1>3. connections = [connections EXCEPT ![Conn(t)] = connections[Conn(t)]]
        BY <1>1 DEF TypeInv, ConnectionsInv
    <1>4. CASE connections[Conn(t)] = {}
        BY <1>2, <1>3, <1>4
    <1>5. ASSUME NEW conn \in connections[Conn(t)]
          PROVE  \/ UNCHANGED connections
                 \/ connections' = [connections EXCEPT ![Conn(t)] =
                        {[conn EXCEPT !.decoder = {[header |-> t, buffer |-> <<>>]}]}]
        <2>1. connections[Conn(t)] = {conn}
            BY <1>1, <1>5, ConnectionFacts
        <2>2. {F(x) : x \in connections[Conn(t)]} = {F(conn)}
            BY <2>1
        <2>3. F(conn) = conn \/ F(conn) = [conn EXCEPT !.decoder = {[header |-> t, buffer |-> <<>>]}]
            OBVIOUS
        <2> HIDE DEF F
        <2> QED
            BY <1>2, <1>3, <2>1, <2>2, <2>3
    <1> QED
        BY <1>4, <1>5

\* The steps of a task and `connections`.
LEMMA TypeConnections ==
    ASSUME TypeInv, NEW t \in Tasks, TaskStep(t)
    PROVE  ConnectionsInv'
    <1>0. ConnectionsInv
        BY DEF TypeInv
    <1>1. CASE AddToNamespace(t)
        <2>1. Conn(t) \in Connections
            BY <1>1, PlaceFacts DEF AddToNamespace, Connecting
        <2>2. PICK conn \in connections[Conn(t)] :
                \/ UNCHANGED connections
                \/ connections' = [connections EXCEPT ![Conn(t)] =
                                       {[conn EXCEPT !.sockets = @ \cup {t}]}]
            BY <1>1 DEF AddToNamespace
        <2>3. [conn EXCEPT !.sockets = @ \cup {t}] \in ConnectionType
            BY <2>1, ConnectionFacts DEF ConnectionType
        <2>4. ConnectionOK([conn EXCEPT !.sockets = @ \cup {t}])
            BY <2>1, <1>0, ConnectionFacts DEF ConnectionType, ConnectionOK, ConnectionsInv
        <2>5. CASE UNCHANGED connections
            BY <1>0, <2>5 DEF ConnectionsInv
        <2> QED
            BY <1>0, <2>1, <2>2, <2>3, <2>4, <2>5, OneConnection
    <1>2. CASE InsertConnection(t)
        BY <1>0, <1>2, PlaceFacts DEF InsertConnection, ConnectionsInv, TypeInv, LocalsInv
    <1>3. CASE RemoveConnection(t)
        BY <1>0, <1>3 DEF RemoveConnection, ConnectionsInv, AtMostOne
    <1>4. CASE SetDecoder(t)
        <2> DEFINE d == [header |-> t, buffer |-> <<>>]
        <2>1. Conn(t) \in Connections
            BY <1>4, PlaceFacts DEF SetDecoder
        <2>2. CASE UNCHANGED connections
            BY <1>0, <2>2 DEF ConnectionsInv
        <2>3. ASSUME NEW conn \in connections[Conn(t)],
                     connections' = [connections EXCEPT ![Conn(t)] =
                                         {[conn EXCEPT !.decoder = {d}]}]
              PROVE  ConnectionsInv'
            <3>1. conn \in ConnectionType /\ <<>> \in Seq(Tasks)
                BY <2>1, ConnectionFacts
            <3>2. d \in [header : Tasks, buffer : Seq(Tasks)]
                BY <3>1
            <3> HIDE DEF d
            <3>3. [conn EXCEPT !.decoder = {d}] \in ConnectionType
                BY <3>1, <3>2 DEF ConnectionType
            <3>4. ConnectionOK([conn EXCEPT !.decoder = {d}])
                BY <3>1 DEF ConnectionType, ConnectionOK, AtMostOne
            <3> QED
                BY <1>0, <2>1, <2>3, <3>3, <3>4, OneConnection
        <2> QED
            BY <1>4, <2>2, <2>3, SetDecoderFacts
    <1>5. CASE DecodeBinary(t)
        <2>1. PICK conn \in connections[Conn(t)] :
                \E full \in [header : Tasks, buffer : Seq(Tasks)] : \E left \in SUBSET {full} :
                  /\ Conn(t) \in Connections
                  /\ connections' = [connections EXCEPT ![Conn(t)] =
                                         {[conn EXCEPT !.decoder = left]}]
            BY <1>5, DecodeFacts
        <2>2. PICK full \in [header : Tasks, buffer : Seq(Tasks)] : \E left \in SUBSET {full} :
                  /\ Conn(t) \in Connections
                  /\ connections' = [connections EXCEPT ![Conn(t)] =
                                         {[conn EXCEPT !.decoder = left]}]
            BY <2>1
        <2>3. PICK left \in SUBSET {full} :
                  /\ Conn(t) \in Connections
                  /\ connections' = [connections EXCEPT ![Conn(t)] =
                                         {[conn EXCEPT !.decoder = left]}]
            BY <2>2
        <2>4. conn \in ConnectionType
            BY <2>3, ConnectionFacts
        <2>5. [conn EXCEPT !.decoder = left] \in ConnectionType
            BY <2>4, <2>3 DEF ConnectionType
        <2>6. ConnectionOK([conn EXCEPT !.decoder = left])
            BY <2>4, <2>3 DEF ConnectionType, ConnectionOK, AtMostOne
        <2> QED
            BY <1>0, <2>3, <2>5, <2>6, OneConnection
    <1>6. CASE UNCHANGED connections
        BY <1>0, <1>6 DEF ConnectionsInv
    <1> QED
        BY <1>1, <1>2, <1>3, <1>4, <1>5, <1>6, PlainFacts
        DEF TaskStep, ConnectStep, NamespaceStep, CloseStep, PacketStep, Plain, maps,
            GetNamespace, CreateNamespace, MakeDynamicNamespace, InsertSimpleNamespace,
            Initialize, InsertLookup, RemoveSockets

\* Dropping a Connection.
LEMMA DropType ==
    ASSUME TypeInv, NEW conns, DropState(conns)
    PROVE  socket_ids' \in [Tasks -> SUBSET Tasks]
    BY DEF DropState, TypeInv, MapsInv

\* The steps of a task and the other maps.
LEMMA TypeMaps ==
    ASSUME TypeInv, NEW t \in Tasks, TaskStep(t)
    PROVE  MapsInv'
    <1>0. MapsInv
        BY DEF TypeInv
    <1>1. CASE CreateNamespace(t)
        BY <1>0, <1>1 DEF CreateNamespace, MapsInv, AtMostOne, maps
    <1>2. CASE MakeDynamicNamespace(t)
        BY <1>0, <1>2 DEF MakeDynamicNamespace, MapsInv, maps
    <1>3. CASE InsertSimpleNamespace(t)
        <2> DEFINE parent == dynamic_namespaces[Min(Matching(t))]
        <2>1. members' = [members EXCEPT ![parent][Nsp(t)] = namespace[t]]
            BY <1>3 DEF InsertSimpleNamespace
        <2>2. namespace[t] \in SUBSET Tasks
            BY DEF TypeInv, LocalsInv
        <2> HIDE DEF parent
        <2>3. members' \in [Tasks -> [Names -> SUBSET Tasks]]
            BY <1>0, <2>1, <2>2 DEF MapsInv
        <2>4. UNCHANGED <<maps, namespaces, socket_ids, dynamic_namespaces>>
            BY <1>3 DEF InsertSimpleNamespace
        <2> QED
            BY <1>0, <2>3, <2>4 DEF MapsInv, maps
    <1>4. CASE AddToNamespace(t) \/ Initialize(t)
        <2>1. UNCHANGED <<connection_lookup, namespaces, dynamic_namespaces, members>>
            BY <1>4 DEF AddToNamespace, Initialize, maps
        <2>2. UNCHANGED socket_ids \/ JoinNamespace(t)
            BY <1>4 DEF AddToNamespace, Initialize
        <2> QED
            BY <1>0, <2>1, <2>2 DEF MapsInv, JoinNamespace
    <1>5. CASE InsertConnection(t) \/ RemoveSockets(t)
        <2>1. UNCHANGED <<namespaces, dynamic_namespaces, members>>
            BY <1>5 DEF InsertConnection, RemoveSockets
        <2>2. connection_lookup' \in [Tasks -> SUBSET Connections]
            BY <1>0, <1>5 DEF InsertConnection, RemoveSockets, MapsInv
        <2>3. socket_ids' \in [Tasks -> SUBSET Tasks]
            BY <1>5, DropType DEF InsertConnection, RemoveSockets
        <2> QED
            BY <1>0, <2>1, <2>2, <2>3 DEF MapsInv
    <1>6. CASE InsertLookup(t)
        <2>1. Conn(t) \in Connections
            BY <1>6, PlaceFacts DEF InsertLookup, Connecting, Entered
        <2> QED
            BY <1>0, <1>6, <2>1 DEF InsertLookup, MapsInv, spaces
    <1>7. CASE UNCHANGED <<connection_lookup, spaces>>
        BY <1>0, <1>7 DEF MapsInv, spaces
    <1> QED
        BY <1>1, <1>2, <1>3, <1>4, <1>5, <1>6, <1>7, PlainFacts
        DEF TaskStep, ConnectStep, NamespaceStep, CloseStep, PacketStep, Plain, maps,
            GetNamespace, RemoveConnection, SetDecoder, DecodeBinary

\* The steps of a task and its local variables.
LEMMA TypeLocals ==
    ASSUME TypeInv, NEW t \in Tasks, TaskStep(t)
    PROVE  LocalsInv'
    <1>0. LocalsInv
        BY DEF TypeInv
    <1>1. CASE GetNamespace(t)
        <2>1. Nsp(t) \in Names
            BY <1>1, PlaceFacts DEF GetNamespace, Found, Connecting, Choosing, Arriving
        <2> QED
            BY <1>0, <1>1, <2>1 DEF GetNamespace, LocalsInv, TypeInv, MapsInv
    <1>2. CASE CreateNamespace(t)
        BY <1>0, <1>2 DEF CreateNamespace, LocalsInv, AtMostOne
    <1>3. CASE AddToNamespace(t)
        <2>1. Conn(t) \in Connections /\ Nsp(t) \in Names
            BY <1>3, PlaceFacts DEF AddToNamespace, Connecting
        <2>2. socket_id' \in [Tasks -> SUBSET Tasks]
            BY <1>0, <1>3, <2>1, ConnectionFacts DEF AddToNamespace, LocalsInv
        <2> QED
            BY <1>0, <1>3, <2>2 DEF AddToNamespace, LocalsInv
    <1>4. CASE Initialize(t)
        BY <1>0, <1>4, NewConnectionType DEF Initialize, LocalsInv, AtMostOne
    <1>5. CASE InsertConnection(t) \/ RemoveSockets(t)
        BY <1>0, <1>5 DEF InsertConnection, RemoveSockets, LocalsInv, AtMostOne
    <1>6. CASE RemoveConnection(t)
        <2>1. Conn(t) \in Connections
            BY <1>6, PlaceFacts DEF RemoveConnection
        <2> QED
            BY <1>0, <1>6, <2>1 DEF RemoveConnection, LocalsInv, TypeInv, ConnectionsInv
    <1>7. CASE UNCHANGED locals
        BY <1>0, <1>7 DEF LocalsInv, locals
    <1> QED
        BY <1>1, <1>2, <1>3, <1>4, <1>5, <1>6, <1>7, PlainFacts
        DEF TaskStep, ConnectStep, NamespaceStep, CloseStep, PacketStep, Plain,
            MakeDynamicNamespace, InsertSimpleNamespace, InsertLookup, SetDecoder,
            DecodeBinary

\* The steps of a task and the history variables.
LEMMA TypeHistory ==
    ASSUME TypeInv, NEW t \in Tasks, TaskStep(t)
    PROVE  HistoryInv'
    <1>0. HistoryInv
        BY DEF TypeInv
    <1>1. CASE CreateNamespace(t)
        <2>1. Nsp(t) \in Names
            BY <1>1, PlaceFacts DEF CreateNamespace, Created, Connecting, Choosing, Arriving
        <2> QED
            BY <1>0, <1>1, <2>1 DEF CreateNamespace, HistoryInv
    <1>2. CASE DecodeBinary(t)
        <2>1. assembled' \subseteq [header : Tasks, buffer : Seq(Tasks)]
            BY <1>0, <1>2, DecodeFacts DEF HistoryInv
        <2> QED
            BY <1>0, <1>2, <2>1 DEF DecodeBinary, HistoryInv
    <1>3. CASE UNCHANGED history
        BY <1>0, <1>3 DEF HistoryInv, history
    <1> QED
        BY <1>1, <1>2, <1>3, PlainFacts
        DEF TaskStep, ConnectStep, NamespaceStep, CloseStep, PacketStep, Plain,
            GetNamespace, MakeDynamicNamespace, InsertSimpleNamespace, AddToNamespace,
            Initialize, InsertConnection, InsertLookup, RemoveConnection, RemoveSockets,
            SetDecoder

\* The maps are empty.
LEMMA TypeInit ==
    ASSUME Init
    PROVE  TypeInv
    <1>1. event \in Workloads
        BY DEF Init
    <1>2. PlaceInv
        BY <1>1, EventFacts, KindsAre DEF Init, PlaceInv, Labels, Kind
    <1>3. ConnectionsInv /\ LocalsInv /\ HistoryInv
        BY DEF Init, ConnectionsInv, LocalsInv, HistoryInv, AtMostOne
    <1>4. MapsInv
        BY DEF Init, MapsInv, AtMostOne
    <1> QED
        BY <1>2, <1>3, <1>4 DEF TypeInv

\* A step is one of a task, the start of one, or changes neither maps nor tasks.
LEMMA NextIs ==
    ASSUME [Next]_vars
    PROVE  \/ \E t \in Tasks : Start(t) \/ TaskStep(t)
           \/ UNCHANGED <<maps, spaces, event, pc, locals, history>>
    BY DEF Next, Subscribe, Quiet, vars, inputs

\* Every step of a task keeps the types.
LEMMA TypeNextStep ==
    ASSUME TypeInv, NEW t \in Tasks, Start(t) \/ TaskStep(t)
    PROVE  TypeInv'
    <1>1. ASSUME TaskStep(t)
          PROVE  TypeInv'
        BY <1>1, TypePlaces, TypeConnections, TypeMaps, TypeLocals, TypeHistory DEF TypeInv
    <1> QED
        BY <1>1, TypeStart

\* TypeInv is inductive by itself.
LEMMA TypeNext ==
    ASSUME TypeInv, [Next]_vars
    PROVE  TypeInv'
    <1>2. CASE UNCHANGED <<maps, spaces, event, pc, locals, history>>
        BY <1>2 DEF TypeInv, PlaceInv, ConnectionsInv, MapsInv, LocalsInv, HistoryInv,
                    maps, spaces, locals, history
    <1> QED
        BY <1>2, NextIs, TypeNextStep

\* An Option that holds no two values holds at most one.
LEMMA AtMostOneCard ==
    ASSUME NEW S, AtMostOne(S)
    PROVE  Cardinality(S) <= 1
    <1>1. CASE S = {}
        BY <1>1, FS_EmptySet
    <1>2. CASE S # {}
        <2>1. PICK x \in S : S = {x}
            BY <1>2 DEF AtMostOne
        <2>2. Cardinality({x}) = 1
            BY FS_Singleton
        <2> QED
            BY <2>1, <2>2
    <1> QED
        BY <1>1, <1>2

\* A decoder waits for an attachment.
Waits(d) ==
    /\ event[d.header].attachments \in Nat
    /\ Len(d.buffer) < event[d.header].attachments

\* The decoders of the Connections in the map, and of those that only a task can
\* reach, wait.
WaitsInv ==
    /\ \A c \in Connections : \A conn \in connections[c] : \A d \in conn.decoder : Waits(d)
    /\ \A t \in Tasks : \A conn \in held[t] : \A d \in conn.decoder : Waits(d)

\* A decoder that is given an attachment and kept waits for another one.
LEMMA DecodeWaits ==
    ASSUME TypeInv, WaitsInv, NEW t \in Tasks, DecodeBinary(t)
    PROVE  WaitsInv'
    <1>1. Conn(t) \in Connections
        BY PlaceFacts DEF DecodeBinary
    <1>2. PICK conn \in connections[Conn(t)] : \E d \in conn.decoder :
            LET full == [d EXCEPT !.buffer = Append(@, t)]
                left == IF CanCollect(d) \/ CanCollect(full) THEN {} ELSE {full} IN
            connections' = [connections EXCEPT ![Conn(t)] = {[conn EXCEPT !.decoder = left]}]
        BY DEF DecodeBinary
    <1>3. PICK d \in conn.decoder :
            LET full == [d EXCEPT !.buffer = Append(@, t)]
                left == IF CanCollect(d) \/ CanCollect(full) THEN {} ELSE {full} IN
            connections' = [connections EXCEPT ![Conn(t)] = {[conn EXCEPT !.decoder = left]}]
        BY <1>2
    <1> DEFINE full == [d EXCEPT !.buffer = Append(@, t)]
    <1> DEFINE left == IF CanCollect(d) \/ CanCollect(full) THEN {} ELSE {full}
    <1>4. d \in [header : Tasks, buffer : Seq(Tasks)] /\ Waits(d)
        BY <1>1, ConnectionFacts DEF WaitsInv
    <1>5. full.header = d.header /\ Len(full.buffer) = Len(d.buffer) + 1
        BY <1>4
    <1>6. \A e \in left : Waits(e)
        <2> HIDE DEF full
        <2>1. CanCollect(full) \/ Waits(full)
            BY <1>4, <1>5 DEF CanCollect, Waits
        <2> QED
            BY <2>1
    <1>7. connections' = [connections EXCEPT ![Conn(t)] = {[conn EXCEPT !.decoder = left]}]
        BY <1>3
    <1> HIDE DEF full, left
    <1>8. conn \in ConnectionType
        BY <1>1, ConnectionFacts
    <1>9. [conn EXCEPT !.decoder = left].decoder = left
        BY <1>8 DEF ConnectionType
    <1>10. connections \in [Connections -> SUBSET ConnectionType]
        BY DEF TypeInv, ConnectionsInv
    <1>11. UNCHANGED <<event, held>>
        BY DEF DecodeBinary, inputs, locals
    <1>12. \A d1 : Waits(d1)' = Waits(d1)
        BY <1>11 DEF Waits
    <1>13. \A c \in Connections : \A x \in connections'[c] :
              x = [conn EXCEPT !.decoder = left] \/ x \in connections[c]
        BY <1>1, <1>7, <1>10
    <1> QED
        BY <1>6, <1>9, <1>11, <1>12, <1>13 DEF WaitsInv

\* A new decoder waits: a header without attachments makes none.
LEMMA HeaderWaits ==
    ASSUME TypeInv, WaitsInv, NEW t \in Tasks, SetDecoder(t)
    PROVE  WaitsInv'
    <1> DEFINE F(conn) == IF conn.decoder = {} /\ event[t].attachments > 0
                          THEN [conn EXCEPT !.decoder = {[header |-> t, buffer |-> <<>>]}]
                          ELSE conn
    <1>1. /\ Conn(t) \in Connections /\ event[t].attachments \in Nat
          /\ connections \in [Connections -> SUBSET ConnectionType]
        BY PlaceFacts, EventFacts DEF SetDecoder, TypeInv, PlaceInv, ConnectionsInv
    <1>2. connections' = [connections EXCEPT ![Conn(t)] =
                              {F(conn) : conn \in connections[Conn(t)]}]
        BY <1>1 DEF SetDecoder
    <1>3. ASSUME NEW conn \in connections[Conn(t)], NEW d \in F(conn).decoder
          PROVE  Waits(d)
        <2>1. conn \in ConnectionType
            BY <1>1, <1>3
        <2>2. CASE conn.decoder = {} /\ event[t].attachments > 0
            <3>1. d = [header |-> t, buffer |-> <<>>]
                BY <1>3, <2>1, <2>2 DEF ConnectionType
            <3>2. d.header = t /\ Len(d.buffer) = 0
                BY <3>1
            <3> QED
                BY <1>1, <2>2, <3>2 DEF Waits
        <2>3. CASE ~(conn.decoder = {} /\ event[t].attachments > 0)
            BY <1>1, <1>3, <2>3 DEF WaitsInv
        <2> QED
            BY <2>2, <2>3
    <1>4. UNCHANGED <<event, held>>
        BY DEF SetDecoder, inputs, locals
    <1>5. \A d1 : Waits(d1)' = Waits(d1)
        BY <1>4 DEF Waits
    <1> HIDE DEF F
    <1>6. \A c \in Connections : \A x \in connections'[c] :
              (c = Conn(t) /\ \E conn \in connections[c] : x = F(conn)) \/ x \in connections[c]
        BY <1>1, <1>2
    <1> QED
        BY <1>3, <1>4, <1>5, <1>6 DEF WaitsInv

\* Every other step leaves the decoders as they are.
LEMMA WaitsNext ==
    ASSUME TypeInv, WaitsInv, [Next]_vars
    PROVE  WaitsInv'
    <1>1. ASSUME UNCHANGED event,
                 \A c \in Connections : \A x \in connections'[c] : \A d \in x.decoder : Waits(d),
                 \A t \in Tasks : \A x \in held'[t] : \A d \in x.decoder : Waits(d)
          PROVE  WaitsInv'
        BY <1>1 DEF WaitsInv, Waits
    <1>2. /\ connections \in [Connections -> SUBSET ConnectionType]
          /\ held \in [Tasks -> SUBSET ConnectionType]
        BY DEF TypeInv, ConnectionsInv, LocalsInv
    <1>3. CASE UNCHANGED <<event, connections, held>>
        BY <1>1, <1>3 DEF WaitsInv
    <1>4. ASSUME NEW t \in Tasks, AddToNamespace(t)
          PROVE  WaitsInv'
        <2>1. Conn(t) \in Connections /\ UNCHANGED <<event, held>>
            BY <1>4, PlaceFacts DEF AddToNamespace, Connecting, inputs
        <2>2. PICK conn \in connections[Conn(t)] :
                \/ UNCHANGED connections
                \/ connections' = [connections EXCEPT ![Conn(t)] =
                                       {[conn EXCEPT !.sockets = @ \cup {t}]}]
            BY <1>4 DEF AddToNamespace
        <2>3. [conn EXCEPT !.sockets = @ \cup {t}].decoder = conn.decoder
            BY <1>2, <2>1 DEF ConnectionType
        <2>4. \A c \in Connections : \A x \in connections'[c] :
                 x = [conn EXCEPT !.sockets = @ \cup {t}] \/ x \in connections[c]
            BY <1>2, <2>1, <2>2
        <2>5. \A c \in Connections : \A x \in connections'[c] : \A d \in x.decoder : Waits(d)
            BY <2>1, <2>3, <2>4 DEF WaitsInv
        <2> QED
            BY <1>1, <2>1, <2>5 DEF WaitsInv
    <1>5. ASSUME NEW t \in Tasks, Initialize(t)
          PROVE  WaitsInv'
        <2>1. held' = [held EXCEPT ![t] = {NewConnection(t)}] /\ UNCHANGED <<event, connections>>
            BY <1>5 DEF Initialize, maps, inputs
        <2>2. NewConnection(t).decoder = {}
            BY DEF NewConnection
        <2>3. \A u \in Tasks : \A x \in held'[u] : x = NewConnection(t) \/ x \in held[u]
            BY <1>2, <2>1
        <2> QED
            BY <1>1, <2>1, <2>2, <2>3 DEF WaitsInv
    <1>6. ASSUME NEW t \in Tasks, InsertConnection(t) \/ RemoveConnection(t)
          PROVE  WaitsInv'
        <2>1. Conn(t) \in Connections /\ UNCHANGED event
            BY <1>6, PlaceFacts DEF InsertConnection, RemoveConnection, Connecting, inputs
        <2>2. /\ \A c \in Connections : connections'[c] \subseteq connections[c] \cup held[t]
              /\ \A u \in Tasks : held'[u] \subseteq held[u] \cup connections[Conn(t)]
            BY <1>2, <1>6, <2>1 DEF InsertConnection, RemoveConnection
        <2> QED
            BY <1>1, <2>1, <2>2 DEF WaitsInv
    <1>7. ASSUME NEW t \in Tasks, RemoveSockets(t)
          PROVE  WaitsInv'
        <2>1. /\ UNCHANGED <<event, connections>>
              /\ \A u \in Tasks : held'[u] \subseteq held[u]
            BY <1>2, <1>7 DEF RemoveSockets, inputs
        <2> QED
            BY <1>1, <2>1 DEF WaitsInv
    <1>8. ASSUME NEW t \in Tasks, TaskStep(t)
          PROVE  WaitsInv'
        BY <1>3, <1>4, <1>5, <1>6, <1>7, <1>8, DecodeWaits, HeaderWaits
        DEF TaskStep, ConnectStep, NamespaceStep, CloseStep, PacketStep, maps, locals, inputs,
            NamespaceExists, MatchNamespace, InsertSimpleNamespace, ClearConnectTimer,
            NoConnection, InsertLookup, GetNamespace, CreateNamespace, MakeDynamicNamespace,
            Ignore, SetupConnectTimer, HandlePacket, DropBinary
    <1>9. ASSUME NEW t \in Tasks, Start(t)
          PROVE  WaitsInv'
        BY <1>3, <1>9 DEF Start, maps, locals, inputs
    <1> QED
        BY <1>3, <1>8, <1>9, NextIs DEF maps, locals

\* Every map of the socket.io server holds what its type allows, for any
\* workload, and no Connection keeps a decoder that has all its attachments
\* (socket_io_server/src/server.rs, connection.rs:113-142).
THEOREM TypeCorrect == Spec => []TypeOK
    <1>1. Init => TypeInv /\ WaitsInv
        BY TypeInit DEF Init, WaitsInv
    <1>2. TypeInv /\ WaitsInv /\ [Next]_vars => (TypeInv /\ WaitsInv)'
        BY TypeNext, WaitsNext
    <1>3. TypeInv /\ WaitsInv => TypeOK
        BY AtMostOneCard
        DEF TypeInv, ConnectionsInv, MapsInv, ConnectionOK, WaitsInv, Waits, TypeOK
    <1> QED
        BY <1>1, <1>2, <1>3, PTL DEF Spec

-------------------------------------------------------------------------------
(* Who owns a socket *)

\* A Connection's sockets are those of connects of its own client that got as
\* far as the lookup.  Its `namespaces` are never written.
Owned(conn, c) ==
    /\ \A n \in Names : conn.namespaces[n] = {}
    /\ \A s \in conn.sockets :
          event[s].kind = "connect" /\ Conn(s) = c /\ pc[s] \in Entered

OwnInv ==
    /\ \A c \in Connections : \A conn \in connections[c] : Owned(conn, c)
    /\ \A t \in Tasks : pc[t] = "forget" => \A conn \in held[t] : Owned(conn, Conn(t))
    /\ \A t \in Tasks : pc[t] = "insert" => held[t] = {NewConnection(t)}
    /\ \A t \in Tasks : pc[t] \in {"insert", "lookup"} => socket_id[t] = {t}

\* A Connection that is being forgotten shares no socket with the one that
\* has taken its place.
ApartInv ==
    \A t \in Tasks : pc[t] = "forget" =>
        \A old \in held[t], conn \in connections[Conn(t)] :
            old.sockets \cap conn.sockets = {}

RouteInv == OwnInv /\ ApartInv /\ LiveSocketsRoutable

\* A Connection keeps its owner when a task moves, unless it leaves the steps
\* its socket must be at.
LEMMA OwnedKept ==
    ASSUME TypeInv, NEW t \in Tasks, NEW l, Goto(t, l), UNCHANGED event,
           pc[t] \notin Entered \/ l \in Entered,
           NEW conn, NEW c, conn.sockets \subseteq Tasks, Owned(conn, c)
    PROVE  Owned(conn, c)'
    <1>1. pc \in [Tasks -> Labels]
        BY DEF TypeInv, PlaceInv
    <1>2. \A s \in conn.sockets : pc'[s] \in Entered
        BY <1>1 DEF Owned, Goto
    <1> QED
        BY <1>2 DEF Owned, Conn

\* A step that changes at most the decoders of Connections.
SameSockets ==
    \A c \in Connections :
        /\ \A new \in connections'[c] : \E old \in connections[c] :
              new.sockets = old.sockets /\ new.namespaces = old.namespaces
        /\ \A old \in connections[c] : \E new \in connections'[c] : new.sockets = old.sockets

\* Steps that change no socket of a Connection.
LEMMA RouteFrame ==
    ASSUME TypeInv, RouteInv, NEW t \in Tasks, NEW l, Goto(t, l), UNCHANGED event,
           pc[t] \notin Entered, l \notin Entered \cup {"insert", "forget"},
           UNCHANGED <<connection_lookup, held, socket_id>>,
           SameSockets
    PROVE  RouteInv'
    <1>1. pc \in [Tasks -> Labels]
        BY DEF TypeInv, PlaceInv
    <1>2. \A u \in Tasks \ {t} : pc'[u] = pc[u]
        BY <1>1 DEF Goto
    <1>3. pc'[t] = l
        BY <1>1 DEF Goto
    <1>4. OwnInv'
        <2>1. ASSUME NEW c \in Connections, NEW new \in connections'[c]
              PROVE  Owned(new, c)'
            <3>1. PICK old \in connections[c] :
                    new.sockets = old.sockets /\ new.namespaces = old.namespaces
                BY <2>1 DEF SameSockets
            <3>2. Owned(new, c) /\ new.sockets \subseteq Tasks
                BY <3>1, ConnectionFacts DEF RouteInv, OwnInv, Owned
            <3> QED
                BY <3>2, OwnedKept
        <2>2. ASSUME NEW u \in Tasks, pc'[u] = "forget", NEW conn \in held'[u]
              PROVE  Owned(conn, Conn(u))'
            <3>1. u # t /\ pc[u] = "forget" /\ conn \in held[u]
                BY <1>2, <1>3, <2>2
            <3>2. Owned(conn, Conn(u)) /\ conn.sockets \subseteq Tasks
                BY <3>1 DEF RouteInv, OwnInv, TypeInv, LocalsInv, ConnectionType
            <3>3. Owned(conn, event[u].conn)'
                BY <3>2, OwnedKept DEF Conn
            <3> QED
                BY <3>3 DEF Conn
        <2>3. ASSUME NEW u \in Tasks, pc'[u] \in {"insert", "lookup"}
              PROVE  u # t /\ pc[u] = pc'[u]
            BY <1>2, <1>3, <2>3 DEF Entered
        <2> QED
            BY <2>1, <2>2, <2>3 DEF OwnInv, RouteInv, NewConnection
    <1>5. ApartInv'
        <2> SUFFICES ASSUME NEW u \in Tasks, pc'[u] = "forget", NEW old \in held'[u],
                            NEW conn \in connections'[Conn(u)]
                     PROVE  old.sockets \cap conn.sockets = {}
            BY DEF ApartInv, Conn
        <2>1. u # t /\ pc[u] = "forget" /\ old \in held[u] /\ Conn(u) \in Connections
            BY <1>2, <1>3, PlaceFacts
        <2>2. PICK prior \in connections[Conn(u)] : conn.sockets = prior.sockets
            BY <2>1 DEF SameSockets
        <2> QED
            BY <2>1, <2>2 DEF RouteInv, ApartInv
    <1>6. LiveSocketsRoutable'
        <2> SUFFICES ASSUME NEW c \in Connections, NEW new \in connections'[c],
                            NEW s \in new.sockets
                     PROVE  pc'[s] = "lookup" \/ connection_lookup'[s] = {c}
            BY DEF LiveSocketsRoutable
        <2>1. PICK old \in connections[c] :
                new.sockets = old.sockets /\ new.namespaces = old.namespaces
            BY DEF SameSockets
        <2>2. s \in Tasks /\ pc[s] \in Entered
            BY <2>1, ConnectionFacts DEF RouteInv, OwnInv, Owned
        <2>3. pc[s] = "lookup" \/ connection_lookup[s] = {c}
            BY <2>1 DEF RouteInv, LiveSocketsRoutable
        <2> QED
            BY <1>2, <2>2, <2>3
    <1> QED
        BY <1>4, <1>5, <1>6 DEF RouteInv

\* The steps that put no socket anywhere.
Quieter(t) ==
    \/ Start(t) \/ Plain(t) \/ NamespaceStep(t) \/ InsertSimpleNamespace(t)
    \/ SetDecoder(t) \/ DecodeBinary(t)

\* Setting a decoder leaves the sockets of all Connections as they are.
LEMMA OneDecoder ==
    ASSUME TypeInv, NEW c \in Connections, NEW conn \in connections[c], NEW D,
           connections' = [connections EXCEPT ![c] = {[conn EXCEPT !.decoder = D]}]
    PROVE  SameSockets
    <1>1. connections[c] = {conn} /\ conn \in ConnectionType
        BY ConnectionFacts
    <1>2. connections \in [Connections -> SUBSET ConnectionType]
        BY DEF TypeInv, ConnectionsInv
    <1> DEFINE new == [conn EXCEPT !.decoder = D]
    <1>3. new.sockets = conn.sockets /\ new.namespaces = conn.namespaces
        BY <1>1 DEF ConnectionType
    <1>4. connections' = [connections EXCEPT ![c] = {new}]
        OBVIOUS
    <1> HIDE DEF new
    <1> QED
        BY <1>1, <1>2, <1>3, <1>4 DEF SameSockets

\* What the steps that leave the Connections and the lookup alone do.
LEMMA QuietFacts ==
    ASSUME TypeInv, NEW t \in Tasks, Quieter(t)
    PROVE  /\ pc[t] \notin Entered \cup {"initialize", "insert", "forget"}
           /\ \E l : /\ Goto(t, l) /\ l \notin Entered \cup {"insert", "forget"}
                     /\ l = "initialize" => connections[Conn(t)] = {}
                     /\ l = "done" => Kind(t) # "close"
           /\ UNCHANGED <<connection_lookup, event, held, socket_id>> /\ SameSockets
    <1> USE DEF Entered
    <1>1. CASE Start(t)
        <2>1. Kind(t) \in DOMAIN Entry
            BY PlaceFacts
        <2>2. Entry[Kind(t)] \notin Entered \cup {"insert", "forget", "initialize", "done"}
            BY <2>1 DEF Entry
        <2>3. /\ Goto(t, Entry[Kind(t)]) /\ pc[t] = "idle"
              /\ UNCHANGED <<maps, inputs, locals>>
            BY <1>1 DEF Start, Kind, inputs
        <2> QED
            BY <2>2, <2>3 DEF SameSockets, maps, inputs, locals
    <1>2. CASE Plain(t)
        BY <1>2, PlainFacts DEF PlainFrom, PlainTo, SameSockets, maps, inputs, locals
    <1>3. CASE NamespaceStep(t) \/ InsertSimpleNamespace(t)
        <2>1. /\ UNCHANGED <<maps, event, held, socket_id>>
              /\ pc[t] \in {"match_get", "connect_get", "of_get", "match_create",
                            "connect_create", "of_create", "register", "adopt"}
              /\ \E l \in {"clear_timer", "add", "done", "match_create", "connect_create",
                           "of_create", "adopt"} :
                    Goto(t, l) /\ (l = "done" => pc[t] \in {"of_get", "of_create", "register"})
            BY <1>3 DEF NamespaceStep, GetNamespace, CreateNamespace, MakeDynamicNamespace,
                        InsertSimpleNamespace, Found, Missing, Created, inputs, locals
        <2> QED
            BY <2>1, PlaceFacts DEF SameSockets, maps
    <1>4. CASE SetDecoder(t)
        <2>1. /\ UNCHANGED <<connection_lookup, event, held, socket_id>>
              /\ Goto(t, "done") /\ pc[t] = "set_decoder"
            BY <1>4 DEF SetDecoder, inputs, locals
        <2>2. Conn(t) \in Connections /\ Kind(t) = "header"
            BY <2>1, PlaceFacts
        <2>3. SameSockets
            BY <1>4, <2>2, SetDecoderFacts, OneDecoder DEF SameSockets
        <2> QED
            BY <2>1, <2>2, <2>3
    <1>5. CASE DecodeBinary(t)
        <2>1. /\ UNCHANGED <<connection_lookup, event, held, socket_id>>
              /\ pc[t] = "decode" /\ \E l \in {"done", "panicked"} : Goto(t, l)
            BY <1>5, DecodeFacts DEF DecodeBinary, inputs, locals
        <2>2. Conn(t) \in Connections /\ Kind(t) = "binary"
            BY <2>1, PlaceFacts
        <2>3. SameSockets
            BY <1>5, <2>2, DecodeFacts, OneDecoder
        <2> QED
            BY <2>1, <2>2, <2>3
    <1> QED
        BY <1>1, <1>2, <1>3, <1>4, <1>5 DEF Quieter

\* Steps that leave the Connections and the lookup alone.
LEMMA RouteQuiet ==
    ASSUME TypeInv, RouteInv, NEW t \in Tasks, Quieter(t)
    PROVE  RouteInv'
    BY QuietFacts, RouteFrame

\* What the invariant says of the Connection a task finds.
LEMMA RouteFacts ==
    ASSUME TypeInv, RouteInv, NEW c \in Connections, NEW conn \in connections[c]
    PROVE  /\ connections[c] = {conn} /\ conn \in ConnectionType
           /\ conn.sockets \subseteq Tasks /\ Owned(conn, c)
           /\ \A s \in conn.sockets : pc[s] = "lookup" \/ connection_lookup[s] = {c}
    BY ConnectionFacts DEF RouteInv, OwnInv, LiveSocketsRoutable

\* The same of a Connection that is being forgotten.
LEMMA HeldFacts ==
    ASSUME TypeInv, RouteInv, NEW t \in Tasks, pc[t] = "forget", NEW conn \in held[t]
    PROVE  /\ Conn(t) \in Connections /\ Owned(conn, Conn(t)) /\ conn.sockets \subseteq Tasks
           /\ \A new \in connections[Conn(t)] : conn.sockets \cap new.sockets = {}
    BY PlaceFacts DEF RouteInv, OwnInv, ApartInv, TypeInv, LocalsInv, ConnectionType

\* A socket is put into a Connection: the one there is, or a new one.
LEMMA RoutePut ==
    ASSUME TypeInv, RouteInv, NEW t \in Tasks, pc[t] \in {"add", "insert"},
           Goto(t, "lookup"), UNCHANGED <<event, connection_lookup>>,
           NEW conn, \A n \in Names : conn.namespaces[n] = {},
           \/ conn.sockets = {t}
           \/ \E old \in connections[Conn(t)] : conn.sockets = old.sockets \cup {t},
           connections' = [connections EXCEPT ![Conn(t)] = {conn}],
           socket_id'[t] = {t},
           \A u \in Tasks \ {t} : held'[u] = held[u] /\ socket_id'[u] = socket_id[u]
    PROVE  RouteInv'
    <1>1. /\ pc \in [Tasks -> Labels] /\ connections \in [Connections -> SUBSET ConnectionType]
          /\ Conn(t) \in Connections /\ Kind(t) = "connect"
        BY PlaceFacts DEF TypeInv, PlaceInv, ConnectionsInv, Connecting
    <1>2. pc'[t] = "lookup" /\ \A u \in Tasks \ {t} : pc'[u] = pc[u]
        BY <1>1 DEF Goto
    <1>0. PICK others : /\ conn.sockets = others \cup {t}
                        /\ others = {} \/ \E old \in connections[Conn(t)] : others = old.sockets
        BY {} \cup {t} = {t}
    <1>3. others \subseteq Tasks /\ \A s \in others :
              /\ event[s].kind = "connect" /\ Conn(s) = Conn(t) /\ pc[s] \in Entered
              /\ pc[s] = "lookup" \/ connection_lookup[s] = {Conn(t)}
        BY <1>0, <1>1, RouteFacts DEF Owned
    <1>4. /\ connections'[Conn(t)] = {conn}
          /\ \A c \in Connections \ {Conn(t)} : connections'[c] = connections[c]
        BY <1>1
    <1>5. t \notin others
        BY <1>3 DEF Entered
    <1>6. Owned(conn, Conn(t))'
        <2>1. \A s \in conn.sockets : pc'[s] \in Entered
            BY <1>0, <1>2, <1>3 DEF Entered
        <2> QED
            BY <1>0, <1>1, <1>3, <2>1 DEF Owned, Conn, Kind
    <1>7. OwnInv'
        <2>1. ASSUME NEW c \in Connections, NEW x \in connections'[c]
              PROVE  Owned(x, c)'
            <3>1. CASE c = Conn(t)
                BY <1>4, <1>6, <2>1, <3>1 DEF Conn
            <3>2. CASE c # Conn(t)
                BY <1>4, <2>1, <3>2, RouteFacts, OwnedKept DEF Entered
            <3> QED
                BY <3>1, <3>2
        <2>2. ASSUME NEW u \in Tasks, pc'[u] = "forget", NEW x \in held'[u]
              PROVE  Owned(x, Conn(u))'
            <3>1. u # t /\ pc[u] = "forget" /\ x \in held[u]
                BY <1>2, <2>2
            <3>2. Owned(x, event[u].conn)'
                BY <3>1, HeldFacts, OwnedKept DEF Conn, Entered
            <3> QED
                BY <3>2 DEF Conn
        <2>3. ASSUME NEW u \in Tasks, pc'[u] \in {"insert", "lookup"}, u # t
              PROVE  pc[u] = pc'[u] /\ held'[u] = held[u] /\ socket_id'[u] = socket_id[u]
            BY <1>2, <2>3
        <2> QED
            BY <1>2, <2>1, <2>2, <2>3 DEF OwnInv, RouteInv, NewConnection
    <1>8. ApartInv'
        <2> SUFFICES ASSUME NEW u \in Tasks, pc'[u] = "forget", NEW old \in held'[u],
                            NEW x \in connections'[Conn(u)]
                     PROVE  old.sockets \cap x.sockets = {}
            BY DEF ApartInv, Conn
        <2>1. u # t /\ pc[u] = "forget" /\ old \in held[u]
            BY <1>2
        <2>2. /\ Conn(u) \in Connections /\ Owned(old, Conn(u))
              /\ \A new \in connections[Conn(u)] : old.sockets \cap new.sockets = {}
            BY <2>1, HeldFacts
        <2>3. CASE Conn(u) = Conn(t)
            <3>1. x = conn /\ t \notin old.sockets
                BY <1>4, <2>2, <2>3 DEF Owned, Entered
            <3> QED
                BY <1>0, <2>2, <2>3, <3>1
        <2>4. CASE Conn(u) # Conn(t)
            BY <1>4, <2>2, <2>4
        <2> QED
            BY <2>3, <2>4
    <1>9. LiveSocketsRoutable'
        <2> SUFFICES ASSUME NEW c \in Connections, NEW x \in connections'[c], NEW s \in x.sockets
                     PROVE  pc'[s] = "lookup" \/ connection_lookup'[s] = {c}
            BY DEF LiveSocketsRoutable
        <2>1. CASE c = Conn(t)
            <3>1. s = t \/ s \in others
                BY <1>0, <1>4, <2>1
            <3> QED
                BY <1>2, <1>3, <2>1, <3>1
        <2>2. CASE c # Conn(t)
            <3>1. x \in connections[c]
                BY <1>4, <2>2
            <3>2. s \in Tasks /\ (pc[s] = "lookup" \/ connection_lookup[s] = {c})
                BY <3>1, RouteFacts
            <3> QED
                BY <1>2, <3>2
        <2> QED
            BY <2>1, <2>2
    <1> QED
        BY <1>7, <1>8, <1>9 DEF RouteInv

\* add_to_namespace at a Connection that is there.
LEMMA RouteAdd ==
    ASSUME TypeInv, RouteInv, NEW t \in Tasks, AddToNamespace(t)
    PROVE  /\ RouteInv'
           /\ socket_id' = [socket_id EXCEPT ![t] = {t}] /\ JoinNamespace(t)
           /\ \E conn \in connections[Conn(t)] : connections' =
                [connections EXCEPT ![Conn(t)] = {[conn EXCEPT !.sockets = @ \cup {t}]}]
    <1>1. Conn(t) \in Connections /\ Nsp(t) \in Names
        BY PlaceFacts DEF AddToNamespace, Connecting
    <1>2. PICK conn \in connections[Conn(t)] :
            IF conn.namespaces[Nsp(t)] # {}
            THEN socket_id' = [socket_id EXCEPT ![t] = conn.namespaces[Nsp(t)]]
            ELSE /\ socket_id' = [socket_id EXCEPT ![t] = {t}]
                 /\ connections' = [connections EXCEPT ![Conn(t)] =
                       {[conn EXCEPT !.sockets = @ \cup {t}]}]
                 /\ JoinNamespace(t)
        BY DEF AddToNamespace
    <1>3. conn \in ConnectionType /\ Owned(conn, Conn(t))
        BY <1>1, RouteFacts
    <1>4. /\ socket_id' = [socket_id EXCEPT ![t] = {t}] /\ JoinNamespace(t)
          /\ connections' = [connections EXCEPT ![Conn(t)] =
                {[conn EXCEPT !.sockets = @ \cup {t}]}]
        BY <1>1, <1>2, <1>3 DEF Owned
    <1> DEFINE new == [conn EXCEPT !.sockets = @ \cup {t}]
    <1>5. /\ \A n \in Names : new.namespaces[n] = {}
          /\ \E old \in connections[Conn(t)] : new.sockets = old.sockets \cup {t}
        BY <1>3 DEF ConnectionType, Owned
    <1>6. /\ socket_id'[t] = {t}
          /\ \A u \in Tasks \ {t} : held'[u] = held[u] /\ socket_id'[u] = socket_id[u]
        BY <1>4 DEF AddToNamespace, TypeInv, LocalsInv
    <1>7. pc[t] = "add" /\ Goto(t, "lookup") /\ UNCHANGED <<event, connection_lookup>>
        BY DEF AddToNamespace, inputs
    <1>8. connections' = [connections EXCEPT ![Conn(t)] = {new}]
        BY <1>4
    <1> HIDE DEF new
    <1>9. RouteInv'
        BY <1>5, <1>6, <1>7, <1>8, RoutePut
    <1> QED
        BY <1>4, <1>9

\* A Connection that is inserted, also over another one.
LEMMA RouteInsert ==
    ASSUME TypeInv, RouteInv, NEW t \in Tasks, InsertConnection(t)
    PROVE  RouteInv'
    <1>1. held[t] = {NewConnection(t)} /\ socket_id[t] = {t}
        BY DEF RouteInv, OwnInv, InsertConnection
    <1>2. /\ pc[t] = "insert" /\ Goto(t, "lookup")
          /\ UNCHANGED <<event, connection_lookup, socket_id>>
          /\ connections' = [connections EXCEPT ![Conn(t)] = {NewConnection(t)}]
        BY <1>1 DEF InsertConnection, inputs
    <1>3. \A u \in Tasks \ {t} : held'[u] = held[u]
        BY DEF InsertConnection, TypeInv, LocalsInv
    <1>4. /\ NewConnection(t).sockets = {t}
          /\ \A n \in Names : NewConnection(t).namespaces[n] = {}
        BY DEF NewConnection
    <1> QED
        BY <1>1, <1>2, <1>3, <1>4, RoutePut

\* A Connection that is made with its first socket and is not inserted yet.
LEMMA RouteInitialize ==
    ASSUME TypeInv, RouteInv, NEW t \in Tasks, Initialize(t)
    PROVE  RouteInv'
    <1>1. /\ pc \in [Tasks -> Labels] /\ held \in [Tasks -> SUBSET ConnectionType]
          /\ socket_id \in [Tasks -> SUBSET Tasks]
        BY DEF TypeInv, PlaceInv, LocalsInv
    <1>2. /\ pc[t] = "initialize" /\ Goto(t, "insert") /\ UNCHANGED <<maps, event>>
          /\ held' = [held EXCEPT ![t] = {NewConnection(t)}]
          /\ socket_id' = [socket_id EXCEPT ![t] = {t}]
        BY DEF Initialize, inputs
    <1>3. /\ pc'[t] = "insert" /\ held'[t] = {NewConnection(t)} /\ socket_id'[t] = {t}
          /\ \A u \in Tasks \ {t} :
                pc'[u] = pc[u] /\ held'[u] = held[u] /\ socket_id'[u] = socket_id[u]
        BY <1>1, <1>2 DEF Goto
    <1>4. OwnInv'
        <2>1. ASSUME NEW c \in Connections, NEW x \in connections'[c]
              PROVE  Owned(x, c)'
            BY <1>2, <2>1, RouteFacts, OwnedKept DEF maps, Entered
        <2>2. ASSUME NEW u \in Tasks, pc'[u] = "forget", NEW x \in held'[u]
              PROVE  Owned(x, Conn(u))'
            <3>1. u # t /\ pc[u] = "forget" /\ x \in held[u]
                BY <1>3, <2>2
            <3>2. Owned(x, event[u].conn)'
                BY <1>2, <3>1, HeldFacts, OwnedKept DEF Conn, Entered
            <3> QED
                BY <3>2 DEF Conn
        <2>3. ASSUME NEW u \in Tasks, pc'[u] \in {"insert", "lookup"}, u # t
              PROVE  pc[u] = pc'[u] /\ held'[u] = held[u] /\ socket_id'[u] = socket_id[u]
            BY <1>3, <2>3
        <2> QED
            BY <1>3, <2>1, <2>2, <2>3 DEF OwnInv, RouteInv, NewConnection
    <1>5. ApartInv'
        <2> SUFFICES ASSUME NEW u \in Tasks, pc'[u] = "forget"
                     PROVE  pc[u] = "forget" /\ held'[u] = held[u]
            BY <1>2 DEF ApartInv, RouteInv, Conn, maps
        <2> QED
            BY <1>3
    <1>6. LiveSocketsRoutable'
        <2> SUFFICES ASSUME NEW c \in Connections, NEW x \in connections[c], NEW s \in x.sockets
                     PROVE  pc'[s] = "lookup" \/ connection_lookup[s] = {c}
            BY <1>2 DEF LiveSocketsRoutable, maps
        <2>1. s \in Tasks /\ pc[s] \in Entered /\ (pc[s] = "lookup" \/ connection_lookup[s] = {c})
            BY RouteFacts DEF Owned
        <2> QED
            BY <1>2, <1>3, <2>1 DEF Entered
    <1> QED
        BY <1>4, <1>5, <1>6 DEF RouteInv

\* The entry of connection_lookup comes after the Connection.
LEMMA RouteLookup ==
    ASSUME TypeInv, RouteInv, NEW t \in Tasks, InsertLookup(t)
    PROVE  RouteInv' /\ connection_lookup' = [connection_lookup EXCEPT ![t] = {Conn(t)}]
    <1>1. /\ pc \in [Tasks -> Labels] /\ connection_lookup \in [Tasks -> SUBSET Connections]
        BY DEF TypeInv, PlaceInv, MapsInv
    <1>2. /\ pc[t] = "lookup" /\ Goto(t, "connected")
          /\ UNCHANGED <<connections, event, held, socket_id>> /\ socket_id[t] = {t}
        BY DEF InsertLookup, inputs, locals, RouteInv, OwnInv
    <1>3. connection_lookup' = [connection_lookup EXCEPT ![t] = {Conn(t)}]
        BY <1>1, <1>2 DEF InsertLookup
    <1>4. pc'[t] = "connected" /\ \A u \in Tasks \ {t} : pc'[u] = pc[u]
        BY <1>1, <1>2 DEF Goto
    <1>5. OwnInv'
        <2>1. ASSUME NEW c \in Connections, NEW x \in connections'[c]
              PROVE  Owned(x, c)'
            BY <1>2, <2>1, RouteFacts, OwnedKept DEF Entered
        <2>2. ASSUME NEW u \in Tasks, pc'[u] = "forget", NEW x \in held'[u]
              PROVE  Owned(x, Conn(u))'
            <3>1. u # t /\ pc[u] = "forget" /\ x \in held[u]
                BY <1>2, <1>4, <2>2
            <3>2. Owned(x, event[u].conn)'
                BY <1>2, <3>1, HeldFacts, OwnedKept DEF Conn, Entered
            <3> QED
                BY <3>2 DEF Conn
        <2>3. ASSUME NEW u \in Tasks, pc'[u] \in {"insert", "lookup"}
              PROVE  pc[u] = pc'[u]
            BY <1>4, <2>3
        <2> QED
            BY <1>2, <2>1, <2>2, <2>3 DEF OwnInv, RouteInv, NewConnection
    <1>6. ApartInv'
        <2> SUFFICES ASSUME NEW u \in Tasks, pc'[u] = "forget"
                     PROVE  pc[u] = "forget"
            BY <1>2 DEF ApartInv, RouteInv, Conn
        <2> QED
            BY <1>4
    <1>7. LiveSocketsRoutable'
        <2> SUFFICES ASSUME NEW c \in Connections, NEW x \in connections[c], NEW s \in x.sockets
                     PROVE  pc'[s] = "lookup" \/ connection_lookup'[s] = {c}
            BY <1>2 DEF LiveSocketsRoutable
        <2>1. /\ s \in Tasks /\ Conn(s) = c
              /\ pc[s] = "lookup" \/ connection_lookup[s] = {c}
            BY RouteFacts DEF Owned
        <2> QED
            BY <1>1, <1>3, <1>4, <2>1
    <1> QED
        BY <1>3, <1>5, <1>6, <1>7 DEF RouteInv

\* A close takes the Connection and all of its sockets.
LEMMA RouteRemove ==
    ASSUME TypeInv, RouteInv, NEW t \in Tasks, RemoveConnection(t)
    PROVE  RouteInv'
    <1>1. /\ pc \in [Tasks -> Labels] /\ held \in [Tasks -> SUBSET ConnectionType]
          /\ connections \in [Connections -> SUBSET ConnectionType] /\ Conn(t) \in Connections
        BY PlaceFacts DEF TypeInv, PlaceInv, LocalsInv, ConnectionsInv, RemoveConnection
    <1>2. PICK l \in {"done", "forget"} : Goto(t, l)
        BY DEF RemoveConnection
    <1>3. /\ pc[t] = "remove" /\ UNCHANGED <<event, connection_lookup, socket_id>>
          /\ held' = [held EXCEPT ![t] = connections[Conn(t)]]
          /\ connections' = [connections EXCEPT ![Conn(t)] = {}]
        BY DEF RemoveConnection, inputs
    <1>4. /\ pc'[t] = l /\ held'[t] = connections[Conn(t)] /\ connections'[Conn(t)] = {}
          /\ \A u \in Tasks \ {t} : pc'[u] = pc[u] /\ held'[u] = held[u]
          /\ \A c \in Connections \ {Conn(t)} : connections'[c] = connections[c]
        BY <1>1, <1>2, <1>3 DEF Goto
    <1>5. ASSUME NEW x, NEW c, x.sockets \subseteq Tasks, Owned(x, c)
          PROVE  Owned(x, c)'
        BY <1>2, <1>3, <1>5, OwnedKept DEF Entered
    <1>6. OwnInv'
        <2>1. ASSUME NEW c \in Connections, NEW x \in connections'[c]
              PROVE  Owned(x, c)'
            BY <1>4, <1>5, <2>1, RouteFacts
        <2>2. ASSUME NEW u \in Tasks, pc'[u] = "forget", NEW x \in held'[u]
              PROVE  Owned(x, Conn(u))'
            <3>1. Owned(x, event[u].conn) /\ x.sockets \subseteq Tasks
                BY <1>1, <1>4, <2>2, HeldFacts, RouteFacts DEF Conn
            <3>2. PICK c : c = event[u].conn
                OBVIOUS
            <3>3. Owned(x, c)'
                BY <1>5, <3>1, <3>2
            <3> QED
                BY <1>3, <3>2, <3>3 DEF Conn
        <2>3. ASSUME NEW u \in Tasks, pc'[u] \in {"insert", "lookup"}
              PROVE  pc[u] = pc'[u] /\ held'[u] = held[u]
            BY <1>4, <2>3
        <2> QED
            BY <1>3, <2>1, <2>2, <2>3 DEF OwnInv, RouteInv, NewConnection
    <1>7. ApartInv'
        <2> SUFFICES ASSUME NEW u \in Tasks, pc'[u] = "forget", NEW old \in held'[u],
                            NEW x \in connections'[Conn(u)]
                     PROVE  old.sockets \cap x.sockets = {}
            BY <1>3 DEF ApartInv, Conn
        <2>1. u # t
            BY <1>4
        <2>2. pc[u] = "forget" /\ old \in held[u] /\ Conn(u) # Conn(t)
            BY <1>4, <2>1
        <2>3. Conn(u) \in Connections
            BY <2>2, PlaceFacts
        <2> QED
            BY <1>4, <2>2, <2>3, HeldFacts
    <1>8. LiveSocketsRoutable'
        <2> SUFFICES ASSUME NEW c \in Connections, NEW x \in connections'[c], NEW s \in x.sockets
                     PROVE  pc'[s] = "lookup" \/ connection_lookup[s] = {c}
            BY <1>3 DEF LiveSocketsRoutable
        <2>1. x \in connections[c]
            BY <1>4
        <2>2. s \in Tasks /\ (pc[s] = "lookup" \/ connection_lookup[s] = {c})
            BY <2>1, RouteFacts
        <2> QED
            BY <1>3, <1>4, <2>2
    <1> QED
        BY <1>6, <1>7, <1>8 DEF RouteInv

\* The sockets that are forgotten are in no Connection.
LEMMA RouteForget ==
    ASSUME TypeInv, RouteInv, NEW t \in Tasks, RemoveSockets(t)
    PROVE  RouteInv'
    <1>1. /\ pc \in [Tasks -> Labels] /\ held \in [Tasks -> SUBSET ConnectionType]
        BY DEF TypeInv, PlaceInv, LocalsInv
    <1>2. /\ pc[t] = "forget" /\ Goto(t, "done") /\ UNCHANGED <<event, connections, socket_id>>
          /\ held' = [held EXCEPT ![t] = {}]
        BY DEF RemoveSockets, inputs
    <1>3. /\ pc'[t] = "done" /\ \A u \in Tasks \ {t} : pc'[u] = pc[u] /\ held'[u] = held[u]
        BY <1>1, <1>2 DEF Goto
    <1>4. ASSUME NEW x, NEW c, x.sockets \subseteq Tasks, Owned(x, c)
          PROVE  Owned(x, c)'
        BY <1>2, <1>4, OwnedKept DEF Entered
    <1>5. OwnInv'
        <2>1. ASSUME NEW c \in Connections, NEW x \in connections'[c]
              PROVE  Owned(x, c)'
            BY <1>2, <1>4, <2>1, RouteFacts
        <2>2. ASSUME NEW u \in Tasks, pc'[u] = "forget", NEW x \in held'[u]
              PROVE  Owned(x, Conn(u))'
            <3>1. Owned(x, event[u].conn) /\ x.sockets \subseteq Tasks
                BY <1>3, <2>2, HeldFacts DEF Conn
            <3>2. PICK c : c = event[u].conn
                OBVIOUS
            <3>3. Owned(x, c)'
                BY <1>4, <3>1, <3>2
            <3> QED
                BY <1>2, <3>2, <3>3 DEF Conn
        <2>3. ASSUME NEW u \in Tasks, pc'[u] \in {"insert", "lookup"}
              PROVE  pc[u] = pc'[u] /\ held'[u] = held[u]
            BY <1>3, <2>3
        <2> QED
            BY <1>2, <2>1, <2>2, <2>3 DEF OwnInv, RouteInv, NewConnection
    <1>6. ApartInv'
        <2> SUFFICES ASSUME NEW u \in Tasks, pc'[u] = "forget"
                     PROVE  pc[u] = "forget" /\ held'[u] = held[u]
            BY <1>2 DEF ApartInv, RouteInv, Conn
        <2> QED
            BY <1>3
    <1>7. LiveSocketsRoutable'
        <2> SUFFICES ASSUME NEW c \in Connections, NEW x \in connections[c], NEW s \in x.sockets
                     PROVE  pc'[s] = "lookup" \/ connection_lookup'[s] = {c}
            BY <1>2 DEF LiveSocketsRoutable
        <2>1. /\ s \in Tasks /\ Conn(s) = c /\ pc[s] \in Entered
              /\ pc[s] = "lookup" \/ connection_lookup[s] = {c}
            BY RouteFacts DEF Owned
        <2>2. ~ \E old \in held[t] : s \in old.sockets
            <3> SUFFICES ASSUME NEW old \in held[t], s \in old.sockets
                         PROVE  FALSE
                OBVIOUS
            <3>1. Conn(s) = Conn(t)
                BY <1>2, HeldFacts DEF Owned
            <3> QED
                BY <1>2, <2>1, <3>1, HeldFacts
        <2>3. connection_lookup'[s] = connection_lookup[s]
            BY <2>1, <2>2 DEF RemoveSockets
        <2> QED
            BY <1>2, <1>3, <2>1, <2>3 DEF Entered
    <1> QED
        BY <1>5, <1>6, <1>7 DEF RouteInv

\* RouteInv is inductive relative to TypeInv.
LEMMA RouteNext ==
    ASSUME TypeInv, RouteInv, [Next]_vars
    PROVE  RouteInv'
    <1>1. ASSUME NEW t \in Tasks, TaskStep(t)
          PROVE  RouteInv'
        BY <1>1, RouteQuiet, RouteAdd, RouteInsert, RouteInitialize, RouteLookup,
           RouteRemove, RouteForget
        DEF Quieter, TaskStep, ConnectStep, NamespaceStep, CloseStep, PacketStep, Plain
    <1>2. CASE UNCHANGED <<maps, spaces, event, pc, locals, history>>
        BY <1>2 DEF RouteInv, OwnInv, Owned, ApartInv, LiveSocketsRoutable, Conn,
                    NewConnection, maps, locals
    <1> QED
        BY <1>1, <1>2, NextIs, RouteQuiet DEF Quieter

\* There is no Connection.
LEMMA RouteInit ==
    ASSUME Init
    PROVE  RouteInv
    BY DEF Init, RouteInv, OwnInv, ApartInv, LiveSocketsRoutable

\* Every socket of a Connection can be found through `connection_lookup` from
\* the moment its task has entered it, for any number of clients, namespaces
\* and tasks (`add_connection`, `remove_connection`).
THEOREM AlwaysRoutable == Spec => []LiveSocketsRoutable
    <1>1. Init => TypeInv /\ RouteInv
        BY TypeInit, RouteInit
    <1>2. TypeInv /\ RouteInv /\ [Next]_vars => (TypeInv /\ RouteInv)'
        BY TypeNext, RouteNext
    <1>3. RouteInv => LiveSocketsRoutable
        BY DEF RouteInv
    <1> QED
        BY <1>1, <1>2, <1>3, PTL DEF Spec

-------------------------------------------------------------------------------
(* What a close leaves behind *)

\* The tasks start in the order of the events.
StartedInv == \A t, u \in Tasks : t < u /\ pc[u] # "idle" => pc[t] # "idle"

\* Two tasks that connect or close the same client at once were noticed.
SoloInv ==
    \A t, u \in Running :
        /\ t # u
        /\ Kind(t) \in {"connect", "close"} /\ Kind(u) \in {"connect", "close"}
        /\ Conn(t) = Conn(u)
        => Conn(t) \in overlap

\* While and after a close runs undisturbed, the client's connects are over.
LastInv ==
    \A t, u \in Tasks :
        /\ Kind(t) = "close" /\ pc[t] # "idle"
        /\ Kind(u) = "connect" /\ Conn(u) = Conn(t)
        => pc[u] \in Finished \/ Conn(t) \in overlap

\* A socket that is in the lookup, or about to be, is in a Connection that is
\* held or being forgotten.
KeptInv ==
    \A s \in Tasks :
        /\ connection_lookup[s] # {} => Kind(s) = "connect" /\ connection_lookup[s] = {Conn(s)}
        /\ pc[s] = "lookup" \/ connection_lookup[s] # {} =>
              \/ Conn(s) \in overlap
              \/ \E conn \in connections[Conn(s)] : s \in conn.sockets
              \/ \E t \in Tasks : /\ pc[t] = "forget" /\ Conn(t) = Conn(s)
                                  /\ \E conn \in held[t] : s \in conn.sockets

\* A connect that saw no Connection finds none when it inserts its own, and
\* what a close has removed stays removed.
EmptyInv ==
    \A t \in Tasks :
        /\ \/ pc[t] \in {"initialize", "insert"}
           \/ Kind(t) = "close" /\ pc[t] \in {"forget", "done"}
        => Conn(t) \in overlap \/ connections[Conn(t)] = {}

ForgetInv == StartedInv /\ SoloInv /\ LastInv /\ KeptInv /\ EmptyInv

\* A client's close is the last of its events.
LEMMA CloseIsLastEvent ==
    ASSUME TypeInv, NEW t \in Tasks, NEW u \in Tasks, t # u,
           Kind(t) = "close", Kind(u) \in {"connect", "close"}, Conn(u) = Conn(t)
    PROVE  u < t /\ Kind(u) = "connect"
    <1>1. event \in Workloads /\ Orderly(event)
        BY ServerAssumption DEF TypeInv, PlaceInv
    <1>2. event[t] \in EngineInput /\ event[u] \in EngineInput
        BY <1>1, EventFacts
    <1>3. t \in Int /\ u \in Int
        BY ServerAssumption DEF Tasks
    <1> QED
        BY <1>1, <1>2, <1>3 DEF Orderly, Kind, Conn

\* A step of a task is one of a running task and moves no other.
LEMMA StepMoves ==
    ASSUME TypeInv, NEW t \in Tasks, TaskStep(t)
    PROVE  /\ t \in Running
           /\ \A u \in Tasks \ {t} : pc'[u] = pc[u]
           /\ pc'[t] # "idle" /\ UNCHANGED <<event, overlap>>
    <1>1. pc \in [Tasks -> Labels]
        BY DEF TypeInv, PlaceInv
    <1>2. CASE Plain(t)
        BY <1>1, <1>2, PlainFacts DEF PlainFrom, PlainTo, Goto, Running, Finished, inputs, history
    <1>3. CASE NamespaceStep(t)
        BY <1>1, <1>3 DEF NamespaceStep, GetNamespace, CreateNamespace, MakeDynamicNamespace,
                          Found, Missing, Created, Goto, Running, Finished, inputs, history
    <1>4. CASE InsertSimpleNamespace(t) \/ AddToNamespace(t) \/ Initialize(t)
        BY <1>1, <1>4 DEF InsertSimpleNamespace, AddToNamespace, Initialize, Goto, Running,
                          Finished, inputs, history
    <1>5. CASE InsertConnection(t) \/ InsertLookup(t)
        BY <1>1, <1>5 DEF InsertConnection, InsertLookup, Goto, Running, Finished, inputs, history
    <1>6. CASE CloseStep(t)
        BY <1>1, <1>6 DEF CloseStep, RemoveConnection, RemoveSockets, Goto, Running, Finished,
                          inputs, history
    <1>7. CASE SetDecoder(t)
        BY <1>1, <1>7 DEF SetDecoder, Goto, Running, Finished, inputs, history
    <1>8. CASE DecodeBinary(t)
        <2>1. pc[t] = "decode" /\ UNCHANGED <<event, overlap>>
            BY <1>8 DEF DecodeBinary, inputs
        <2>2. PICK l \in {"done", "panicked"} : Goto(t, l)
            BY <1>8, DecodeFacts
        <2> QED
            BY <1>1, <2>1, <2>2 DEF Goto, Running, Finished
    <1> QED
        BY <1>2, <1>3, <1>4, <1>5, <1>6, <1>7, <1>8
        DEF TaskStep, ConnectStep, PacketStep, Plain

\* A task starts after those before it, and is noticed if it is not alone.
LEMMA StartFacts ==
    ASSUME TypeInv, NEW t \in Tasks, Start(t)
    PROVE  /\ pc[t] = "idle" /\ pc'[t] = Entry[Kind(t)] /\ pc'[t] \notin Finished \cup {"idle"}
           /\ \A u \in Tasks \ {t} : pc'[u] = pc[u]
           /\ \A u \in Tasks : u < t => pc[u] # "idle"
           /\ UNCHANGED <<maps, spaces, event, locals>> /\ overlap \subseteq overlap'
           /\ Kind(t) \in {"connect", "close"} /\ Busy(Conn(t)) => Conn(t) \in overlap'
    <1>1. Kind(t) \in DOMAIN Entry /\ pc \in [Tasks -> Labels]
        BY PlaceFacts DEF TypeInv, PlaceInv
    <1>2. Entry[Kind(t)] \notin Finished \cup {"idle"}
        BY <1>1 DEF Entry, Finished
    <1> QED
        BY <1>1, <1>2 DEF Start, Goto, Kind, inputs

\* What overlap records is inductive relative to TypeInv.
LEMMA SoloNext ==
    ASSUME TypeInv, StartedInv, SoloInv, LastInv, NEW t \in Tasks, Start(t) \/ TaskStep(t)
    PROVE  StartedInv' /\ SoloInv' /\ LastInv'
    <1>1. CASE TaskStep(t)
        <2>1. /\ t \in Running /\ \A u \in Tasks \ {t} : pc'[u] = pc[u]
              /\ pc'[t] # "idle" /\ UNCHANGED <<event, overlap>>
            BY <1>1, StepMoves
        <2>2. \A u \in Tasks : u \in Running' => u \in Running
            BY <2>1 DEF Running
        <2>3. \A u \in Tasks : (pc[u] # "idle" <=> pc'[u] # "idle")
                               /\ (pc[u] \in Finished => pc'[u] \in Finished)
            BY <2>1 DEF Running, Finished
        <2>4. StartedInv'
            BY <2>3 DEF StartedInv
        <2>5. SoloInv'
            BY <2>1, <2>2 DEF SoloInv, Kind, Conn, Running
        <2>6. LastInv'
            BY <2>1, <2>3 DEF LastInv, Kind, Conn, Finished
        <2> QED
            BY <2>4, <2>5, <2>6
    <1>2. CASE Start(t)
        <2>1. /\ pc[t] = "idle" /\ pc'[t] \notin Finished \cup {"idle"}
              /\ \A u \in Tasks \ {t} : pc'[u] = pc[u]
              /\ \A u \in Tasks : u < t => pc[u] # "idle"
              /\ UNCHANGED event /\ overlap \subseteq overlap'
              /\ Kind(t) \in {"connect", "close"} /\ Busy(Conn(t)) => Conn(t) \in overlap'
            BY <1>2, StartFacts
        <2>2. \A u \in Tasks : u \in Int
            BY ServerAssumption DEF Tasks
        <2>3. StartedInv'
            BY <2>1, <2>2 DEF StartedInv
        <2>4. ASSUME NEW u \in Tasks, u \in Running, Kind(t) \in {"connect", "close"},
                     Kind(u) \in {"connect", "close"}, Conn(u) = Conn(t)
              PROVE  Conn(t) \in overlap'
            BY <2>1, <2>4 DEF Busy, Kind, Conn
        <2>5. \A u \in Tasks \ {t} : u \in Running' => u \in Running
            BY <2>1 DEF Running
        <2>6. SoloInv'
            <3> SUFFICES ASSUME NEW v \in Running', NEW u \in Running', v # u,
                                Kind(v) \in {"connect", "close"},
                                Kind(u) \in {"connect", "close"}, Conn(v) = Conn(u)
                         PROVE  Conn(v) \in overlap'
                BY <2>1 DEF SoloInv, Kind, Conn
            <3>1. v \in Tasks /\ u \in Tasks
                BY DEF Running
            <3>2. CASE v # t /\ u # t
                <4>1. v \in Running /\ u \in Running
                    BY <2>5, <3>1, <3>2
                <4> QED
                    BY <2>1, <4>1 DEF SoloInv
            <3>3. CASE v = t
                BY <2>4, <2>5, <3>1, <3>3
            <3>4. CASE u = t
                BY <2>4, <2>5, <3>1, <3>4
            <3> QED
                BY <3>2, <3>3, <3>4
        <2>7. LastInv'
            <3> SUFFICES ASSUME NEW v \in Tasks, NEW u \in Tasks,
                                Kind(v) = "close", pc'[v] # "idle",
                                Kind(u) = "connect", Conn(u) = Conn(v)
                         PROVE  pc'[u] \in Finished \/ Conn(v) \in overlap'
                BY <2>1 DEF LastInv, Kind, Conn, Finished
            <3>1. u < v /\ u # v
                BY CloseIsLastEvent
            <3>2. CASE v = t
                <4>1. pc[u] # "idle" /\ pc'[u] = pc[u]
                    BY <2>1, <3>1, <3>2
                <4>2. pc[u] \in Finished \/ u \in Running
                    BY <4>1 DEF Running
                <4> QED
                    BY <2>4, <3>2, <4>1, <4>2
            <3>3. CASE v # t
                <4>1. pc[v] # "idle"
                    BY <2>1, <3>3
                <4>2. pc[u] # "idle"
                    BY <3>1, <4>1 DEF StartedInv
                <4>3. u # t /\ pc'[u] = pc[u]
                    BY <2>1, <4>2
                <4> QED
                    BY <2>1, <4>1, <4>3 DEF LastInv
            <3> QED
                BY <3>2, <3>3
        <2> QED
            BY <2>3, <2>6, <2>7
    <1> QED
        BY <1>1, <1>2

\* A socket is in a Connection that is held, or in one that is being forgotten.
Somewhere(s) ==
    \/ \E conn \in connections[Conn(s)] : s \in conn.sockets
    \/ \E t \in Tasks : /\ pc[t] = "forget" /\ Conn(t) = Conn(s)
                        /\ \E conn \in held[t] : s \in conn.sockets

\* Whose socket an entry of the lookup is.
LEMMA KeptFacts ==
    ASSUME TypeInv, KeptInv, NEW s \in Tasks, pc[s] = "lookup" \/ connection_lookup[s] # {}
    PROVE  /\ Kind(s) = "connect" /\ Conn(s) \in Connections
           /\ Conn(s) \in overlap \/ Somewhere(s)
    <1>1. Kind(s) = "connect"
        BY PlaceFacts DEF KeptInv, Connecting, Entered
    <1>2. Conn(s) \in Connections
        BY <1>1, EventFacts DEF TypeInv, PlaceInv
    <1> QED
        BY <1>1, <1>2 DEF KeptInv, Somewhere

\* Steps that leave the Connections and the lookup alone.
LEMMA KeptQuiet ==
    ASSUME TypeInv, KeptInv, EmptyInv, NEW t \in Tasks, Quieter(t)
    PROVE  KeptInv' /\ EmptyInv'
    <1>1. pc \in [Tasks -> Labels]
        BY DEF TypeInv, PlaceInv
    <1>2. PICK l : /\ Goto(t, l) /\ l \notin Entered \cup {"insert", "forget"}
                   /\ l = "initialize" => connections[Conn(t)] = {}
                   /\ l = "done" => Kind(t) # "close"
        BY QuietFacts
    <1>3. /\ pc[t] \notin Entered \cup {"initialize", "insert", "forget"}
          /\ UNCHANGED <<connection_lookup, event, held, socket_id>> /\ SameSockets
        BY QuietFacts
    <1>4. pc'[t] = l /\ \A u \in Tasks \ {t} : pc'[u] = pc[u]
        BY <1>1, <1>2 DEF Goto
    <1>5. overlap \subseteq overlap'
        BY StartFacts, StepMoves
        DEF Quieter, TaskStep, ConnectStep, NamespaceStep, PacketStep, Plain
    <1>6. ASSUME NEW s \in Tasks, Conn(s) \in Connections, Somewhere(s)
          PROVE  Somewhere(s)'
        <2>1. CASE \E conn \in connections[Conn(s)] : s \in conn.sockets
            BY <1>3, <1>6, <2>1 DEF Somewhere, SameSockets, Conn
        <2>2. ASSUME NEW u \in Tasks, pc[u] = "forget", Conn(u) = Conn(s),
                     NEW conn \in held[u], s \in conn.sockets
              PROVE  Somewhere(s)'
            BY <1>3, <1>4, <2>2 DEF Somewhere, Conn
        <2> QED
            BY <1>6, <2>1, <2>2 DEF Somewhere
    <1>7. KeptInv'
        <2> SUFFICES ASSUME NEW s \in Tasks
                     PROVE  /\ connection_lookup[s] # {} =>
                                 Kind(s) = "connect" /\ connection_lookup[s] = {Conn(s)}
                            /\ pc'[s] = "lookup" \/ connection_lookup[s] # {} =>
                                 Conn(s) \in overlap' \/ Somewhere(s)'
            BY <1>3 DEF KeptInv, Somewhere, Kind, Conn
        <2>1. pc'[s] = "lookup" => pc[s] = "lookup"
            BY <1>2, <1>4 DEF Entered
        <2> QED
            BY <1>5, <1>6, <2>1, KeptFacts DEF KeptInv
    <1>8. EmptyInv'
        <2> SUFFICES ASSUME NEW u \in Tasks,
                            \/ pc'[u] \in {"initialize", "insert"}
                            \/ Kind(u) = "close" /\ pc'[u] \in {"forget", "done"}
                     PROVE  Conn(u) \in overlap' \/ connections'[Conn(u)] = {}
            BY <1>3 DEF EmptyInv, Kind, Conn
        <2>1. Conn(u) \in Connections
            <3>1. u = t \/ pc[u] = pc'[u]
                BY <1>4
            <3>2. pc'[u] \in Connecting \cup {"remove", "forget"} => Conn(u) \in Connections
                <4>1. PlaceInv'
                    BY TypeNextStep
                    DEF TypeInv, Quieter, TaskStep, ConnectStep, NamespaceStep, PacketStep, Plain
                <4> QED
                    BY <1>3, <4>1, KindsAre, EventFacts DEF PlaceInv, Kind, TypeInv
            <3>3. Kind(u) = "close" => Conn(u) \in Connections
                BY EventFacts DEF TypeInv, PlaceInv
            <3> QED
                BY <3>2, <3>3 DEF Connecting
        <2>2. connections[Conn(u)] = {} => connections'[Conn(u)] = {}
            BY <1>3, <2>1 DEF SameSockets
        <2>3. CASE u = t
            BY <1>2, <1>4, <2>2, <2>3
        <2>4. CASE u # t
            BY <1>4, <1>5, <2>2, <2>4 DEF EmptyInv
        <2> QED
            BY <2>3, <2>4
    <1> QED
        BY <1>7, <1>8

\* A step of a task leaves in `overlap` what is there.
LEMMA OverlapGrows ==
    ASSUME TypeInv, NEW t \in Tasks, TaskStep(t)
    PROVE  /\ pc \in [Tasks -> Labels] /\ UNCHANGED <<event, overlap>>
           /\ \A u \in Tasks \ {t} : pc'[u] = pc[u]
           /\ \A s \in Tasks : Kind(s)' = Kind(s) /\ Conn(s)' = Conn(s)
    BY StepMoves DEF TypeInv, PlaceInv, Kind, Conn

\* Another connect or close of the same client at the same time is an overlap.
LEMMA NotAlone ==
    ASSUME TypeInv, SoloInv, NEW t \in Tasks, NEW u \in Tasks, t # u, Conn(t) = Conn(u),
           pc[t] \in {"add", "initialize", "insert", "lookup", "remove", "forget"},
           pc[u] \in {"add", "initialize", "insert", "lookup", "remove", "forget"}
    PROVE  Conn(t) \in overlap
    <1>1. t \in Running /\ u \in Running
        BY DEF Running, Finished
    <1>2. Kind(t) \in {"connect", "close"} /\ Kind(u) \in {"connect", "close"}
        BY PlaceFacts DEF Connecting, Entered
    <1> QED
        BY <1>1, <1>2 DEF SoloInv

\* A socket that is added to a Connection that is there.
LEMMA KeptAdd ==
    ASSUME TypeInv, RouteInv, KeptInv, EmptyInv, NEW t \in Tasks, AddToNamespace(t)
    PROVE  KeptInv' /\ EmptyInv'
    <1>1. /\ pc \in [Tasks -> Labels] /\ UNCHANGED <<event, overlap>>
          /\ \A s \in Tasks : Kind(s)' = Kind(s) /\ Conn(s)' = Conn(s)
        BY OverlapGrows DEF TaskStep, ConnectStep
    <1>2. /\ pc[t] = "add" /\ pc'[t] = "lookup" /\ \A u \in Tasks \ {t} : pc'[u] = pc[u]
          /\ UNCHANGED <<connection_lookup, held>>
        BY <1>1 DEF AddToNamespace, Goto
    <1>3. Conn(t) \in Connections /\ Kind(t) = "connect"
        BY <1>2, PlaceFacts DEF Connecting
    <1>4. PICK conn \in connections[Conn(t)] : connections' =
              [connections EXCEPT ![Conn(t)] = {[conn EXCEPT !.sockets = @ \cup {t}]}]
        BY RouteAdd
    <1> DEFINE new == [conn EXCEPT !.sockets = @ \cup {t}]
    <1>5. conn \in ConnectionType /\ connections[Conn(t)] = {conn}
        BY <1>3, RouteFacts
    <1>6. new.sockets = conn.sockets \cup {t}
        BY <1>5 DEF ConnectionType
    <1>7. connections' = [connections EXCEPT ![Conn(t)] = {new}]
        BY <1>4
    <1> HIDE DEF new
    <1>8. /\ connections'[Conn(t)] = {new}
          /\ \A c \in Connections \ {Conn(t)} : connections'[c] = connections[c]
        BY <1>3, <1>7 DEF TypeInv, ConnectionsInv
    <1>9. ASSUME NEW s \in Tasks, Conn(s) \in Connections, Somewhere(s) \/ s = t
          PROVE  Somewhere(s)'
        <2>1. CASE \E x \in connections[Conn(s)] : s \in x.sockets
            BY <1>1, <1>5, <1>6, <1>8, <1>9, <2>1 DEF Somewhere
        <2>2. CASE s = t
            BY <1>1, <1>6, <1>8, <2>2 DEF Somewhere
        <2>3. ASSUME NEW u \in Tasks, pc[u] = "forget", Conn(u) = Conn(s),
                     NEW x \in held[u], s \in x.sockets
              PROVE  Somewhere(s)'
            <3>1. pc'[u] = "forget" /\ x \in held'[u] /\ Conn(u)' = Conn(s)'
                BY <1>1, <1>2, <2>3
            <3> QED
                BY <2>3, <3>1 DEF Somewhere
        <2> QED
            BY <1>9, <2>1, <2>2, <2>3 DEF Somewhere
    <1>10. KeptInv'
        <2> SUFFICES ASSUME NEW s \in Tasks
                     PROVE  /\ connection_lookup[s] # {} =>
                                 Kind(s) = "connect" /\ connection_lookup[s] = {Conn(s)}
                            /\ pc'[s] = "lookup" \/ connection_lookup[s] # {} =>
                                 Conn(s) \in overlap \/ Somewhere(s)'
            BY <1>1, <1>2 DEF KeptInv, Somewhere
        <2> QED
            BY <1>2, <1>3, <1>9, KeptFacts DEF KeptInv
    <1>11. EmptyInv'
        <2> SUFFICES ASSUME NEW u \in Tasks,
                            \/ pc'[u] \in {"initialize", "insert"}
                            \/ Kind(u) = "close" /\ pc'[u] \in {"forget", "done"}
                     PROVE  Conn(u) \in overlap \/ connections'[Conn(u)] = {}
            BY <1>1 DEF EmptyInv
        <2>1. Conn(u) \in overlap \/ connections[Conn(u)] = {}
            BY <1>2 DEF EmptyInv
        <2>2. Conn(u) \in Connections
            BY <1>2, PlaceFacts, EventFacts DEF Connecting, TypeInv, PlaceInv
        <2> QED
            BY <1>4, <1>8, <2>1, <2>2
    <1> QED
        BY <1>10, <1>11

\* A Connection that is inserted where none was.
LEMMA KeptInsert ==
    ASSUME TypeInv, RouteInv, SoloInv, LastInv, KeptInv, EmptyInv, NEW t \in Tasks,
           InsertConnection(t)
    PROVE  KeptInv' /\ EmptyInv'
    <1>1. /\ pc \in [Tasks -> Labels] /\ UNCHANGED <<event, overlap>>
          /\ \A s \in Tasks : Kind(s)' = Kind(s) /\ Conn(s)' = Conn(s)
        BY OverlapGrows DEF TaskStep, ConnectStep
    <1>2. /\ pc[t] = "insert" /\ pc'[t] = "lookup" /\ \A u \in Tasks \ {t} : pc'[u] = pc[u]
          /\ UNCHANGED connection_lookup
        BY <1>1 DEF InsertConnection, Goto
    <1>3. Conn(t) \in Connections /\ Kind(t) = "connect"
        BY <1>2, PlaceFacts DEF Connecting
    <1>4. held[t] = {NewConnection(t)} /\ t \in NewConnection(t).sockets
        BY <1>2 DEF RouteInv, OwnInv, NewConnection
    <1>5. /\ connections'[Conn(t)] = {NewConnection(t)}
          /\ \A c \in Connections \ {Conn(t)} : connections'[c] = connections[c]
          /\ \A u \in Tasks \ {t} : held'[u] = held[u]
        BY <1>3, <1>4 DEF InsertConnection, TypeInv, ConnectionsInv, LocalsInv
    <1>6. Conn(t) \in overlap \/ connections[Conn(t)] = {}
        BY <1>2 DEF EmptyInv
    <1>7. ASSUME NEW s \in Tasks, Conn(s) \in Connections, Somewhere(s) \/ s = t
          PROVE  Conn(s) \in overlap \/ Somewhere(s)'
        <2>1. CASE \E x \in connections[Conn(s)] : s \in x.sockets
            BY <1>1, <1>5, <1>6, <1>7, <2>1 DEF Somewhere
        <2>2. CASE s = t
            BY <1>1, <1>4, <1>5, <2>2 DEF Somewhere
        <2>3. ASSUME NEW u \in Tasks, pc[u] = "forget", Conn(u) = Conn(s),
                     NEW x \in held[u], s \in x.sockets
              PROVE  Somewhere(s)'
            <3>1. pc'[u] = "forget" /\ x \in held'[u] /\ Conn(u)' = Conn(s)'
                BY <1>1, <1>2, <1>5, <2>3
            <3> QED
                BY <2>3, <3>1 DEF Somewhere
        <2> QED
            BY <1>7, <2>1, <2>2, <2>3 DEF Somewhere
    <1>8. KeptInv'
        <2> SUFFICES ASSUME NEW s \in Tasks
                     PROVE  /\ connection_lookup[s] # {} =>
                                 Kind(s) = "connect" /\ connection_lookup[s] = {Conn(s)}
                            /\ pc'[s] = "lookup" \/ connection_lookup[s] # {} =>
                                 Conn(s) \in overlap \/ Somewhere(s)'
            BY <1>1, <1>2 DEF KeptInv, Somewhere
        <2> QED
            BY <1>2, <1>3, <1>7, KeptFacts DEF KeptInv
    <1>9. EmptyInv'
        <2> SUFFICES ASSUME NEW u \in Tasks,
                            \/ pc'[u] \in {"initialize", "insert"}
                            \/ Kind(u) = "close" /\ pc'[u] \in {"forget", "done"}
                     PROVE  Conn(u) \in overlap \/ connections'[Conn(u)] = {}
            BY <1>1 DEF EmptyInv
        <2>1. u # t /\ pc[u] = pc'[u]
            BY <1>2, <1>3
        <2>2. Conn(u) \in Connections
            BY <2>1, PlaceFacts, EventFacts DEF Connecting, TypeInv, PlaceInv
        <2>3. CASE Conn(u) # Conn(t)
            BY <1>5, <2>1, <2>2, <2>3 DEF EmptyInv
        <2>4. CASE Conn(u) = Conn(t) /\ pc[u] \in {"initialize", "insert", "forget"}
            BY <1>2, <2>1, <2>4, NotAlone
        <2>5. CASE Conn(u) = Conn(t) /\ Kind(u) = "close" /\ pc[u] = "done"
            BY <1>2, <1>3, <2>5 DEF LastInv, Finished
        <2> QED
            BY <2>1, <2>3, <2>4, <2>5
    <1> QED
        BY <1>8, <1>9

\* A Connection that is made with its first socket and is not inserted yet.
LEMMA KeptInitialize ==
    ASSUME TypeInv, KeptInv, EmptyInv, NEW t \in Tasks, Initialize(t)
    PROVE  KeptInv' /\ EmptyInv'
    <1>1. /\ pc \in [Tasks -> Labels] /\ UNCHANGED <<event, overlap>>
          /\ \A s \in Tasks : Kind(s)' = Kind(s) /\ Conn(s)' = Conn(s)
        BY OverlapGrows DEF TaskStep, ConnectStep
    <1>2. /\ pc[t] = "initialize" /\ pc'[t] = "insert" /\ \A u \in Tasks \ {t} : pc'[u] = pc[u]
          /\ UNCHANGED <<connections, connection_lookup>>
          /\ \A u \in Tasks \ {t} : held'[u] = held[u]
        BY <1>1 DEF Initialize, Goto, maps, TypeInv, LocalsInv
    <1>3. ASSUME NEW s \in Tasks, Somewhere(s)
          PROVE  Somewhere(s)'
        <2>1. CASE \E x \in connections[Conn(s)] : s \in x.sockets
            BY <1>1, <1>2, <2>1 DEF Somewhere
        <2>2. ASSUME NEW u \in Tasks, pc[u] = "forget", Conn(u) = Conn(s),
                     NEW x \in held[u], s \in x.sockets
              PROVE  Somewhere(s)'
            <3>1. pc'[u] = "forget" /\ x \in held'[u] /\ Conn(u)' = Conn(s)'
                BY <1>1, <1>2, <2>2
            <3> QED
                BY <2>2, <3>1 DEF Somewhere
        <2> QED
            BY <1>3, <2>1, <2>2 DEF Somewhere
    <1>4. KeptInv'
        <2> SUFFICES ASSUME NEW s \in Tasks
                     PROVE  /\ connection_lookup[s] # {} =>
                                 Kind(s) = "connect" /\ connection_lookup[s] = {Conn(s)}
                            /\ pc'[s] = "lookup" \/ connection_lookup[s] # {} =>
                                 Conn(s) \in overlap \/ Somewhere(s)'
            BY <1>1, <1>2 DEF KeptInv, Somewhere
        <2> QED
            BY <1>2, <1>3, KeptFacts DEF KeptInv
    <1>5. EmptyInv'
        BY <1>1, <1>2 DEF EmptyInv
    <1> QED
        BY <1>4, <1>5

\* The entry of a socket whose Connection is there, or being forgotten.
LEMMA KeptLookup ==
    ASSUME TypeInv, RouteInv, KeptInv, EmptyInv, NEW t \in Tasks, InsertLookup(t)
    PROVE  KeptInv' /\ EmptyInv'
    <1>1. /\ pc \in [Tasks -> Labels] /\ UNCHANGED <<event, overlap>>
          /\ \A s \in Tasks : Kind(s)' = Kind(s) /\ Conn(s)' = Conn(s)
        BY OverlapGrows DEF TaskStep, ConnectStep
    <1>2. /\ pc[t] = "lookup" /\ pc'[t] = "connected" /\ \A u \in Tasks \ {t} : pc'[u] = pc[u]
          /\ UNCHANGED <<connections, held>>
        BY <1>1 DEF InsertLookup, Goto, locals
    <1>3. Kind(t) = "connect"
        BY <1>2, PlaceFacts DEF Connecting, Entered
    <1>4. /\ connection_lookup'[t] = {Conn(t)}
          /\ \A s \in Tasks \ {t} : connection_lookup'[s] = connection_lookup[s]
        BY RouteLookup DEF TypeInv, MapsInv
    <1>5. ASSUME NEW s \in Tasks, Somewhere(s)
          PROVE  Somewhere(s)'
        <2>1. \A u \in Tasks : pc[u] = "forget" => pc'[u] = "forget" /\ Conn(u)' = Conn(u)
            BY <1>1, <1>2
        <2> QED
            BY <1>1, <1>2, <1>5, <2>1 DEF Somewhere
    <1>6. KeptInv'
        <2> SUFFICES ASSUME NEW s \in Tasks
                     PROVE  /\ connection_lookup'[s] # {} =>
                                 Kind(s) = "connect" /\ connection_lookup'[s] = {Conn(s)}
                            /\ pc'[s] = "lookup" \/ connection_lookup'[s] # {} =>
                                 Conn(s) \in overlap \/ Somewhere(s)'
            BY <1>1 DEF KeptInv, Somewhere
        <2> QED
            BY <1>2, <1>3, <1>4, <1>5, KeptFacts DEF KeptInv
    <1>7. EmptyInv'
        BY <1>1, <1>2, <1>3 DEF EmptyInv
    <1> QED
        BY <1>6, <1>7

\* A close takes the Connection: it is being forgotten.
LEMMA KeptRemove ==
    ASSUME TypeInv, KeptInv, EmptyInv, NEW t \in Tasks, RemoveConnection(t)
    PROVE  KeptInv' /\ EmptyInv'
    <1>1. /\ pc \in [Tasks -> Labels] /\ UNCHANGED <<event, overlap>>
          /\ \A s \in Tasks : Kind(s)' = Kind(s) /\ Conn(s)' = Conn(s)
        BY OverlapGrows DEF TaskStep, CloseStep
    <1>2. /\ pc[t] = "remove" /\ \A u \in Tasks \ {t} : pc'[u] = pc[u]
          /\ pc'[t] = IF connections[Conn(t)] = {} THEN "done" ELSE "forget"
          /\ UNCHANGED connection_lookup
        BY <1>1 DEF RemoveConnection, Goto
    <1>3. Conn(t) \in Connections /\ Kind(t) = "close"
        BY <1>2, PlaceFacts
    <1>4. /\ connections'[Conn(t)] = {} /\ held'[t] = connections[Conn(t)]
          /\ \A c \in Connections \ {Conn(t)} : connections'[c] = connections[c]
          /\ \A u \in Tasks \ {t} : held'[u] = held[u]
        BY <1>3 DEF RemoveConnection, TypeInv, ConnectionsInv, LocalsInv
    <1>5. ASSUME NEW s \in Tasks, Conn(s) \in Connections, Somewhere(s)
          PROVE  Somewhere(s)'
        <2>1. ASSUME NEW x \in connections[Conn(s)], s \in x.sockets
              PROVE  Somewhere(s)'
            <3>1. CASE Conn(s) = Conn(t)
                <4>1. pc'[t] = "forget" /\ x \in held'[t] /\ Conn(t)' = Conn(s)'
                    BY <1>1, <1>2, <1>4, <2>1, <3>1
                <4> QED
                    BY <2>1, <4>1 DEF Somewhere
            <3>2. CASE Conn(s) # Conn(t)
                BY <1>1, <1>4, <1>5, <2>1, <3>2 DEF Somewhere
            <3> QED
                BY <3>1, <3>2
        <2>2. ASSUME NEW u \in Tasks, pc[u] = "forget", Conn(u) = Conn(s),
                     NEW x \in held[u], s \in x.sockets
              PROVE  Somewhere(s)'
            <3>1. pc'[u] = "forget" /\ x \in held'[u] /\ Conn(u)' = Conn(s)'
                BY <1>1, <1>2, <1>4, <2>2
            <3> QED
                BY <2>2, <3>1 DEF Somewhere
        <2> QED
            BY <1>5, <2>1, <2>2 DEF Somewhere
    <1>6. KeptInv'
        <2> SUFFICES ASSUME NEW s \in Tasks
                     PROVE  /\ connection_lookup[s] # {} =>
                                 Kind(s) = "connect" /\ connection_lookup[s] = {Conn(s)}
                            /\ pc'[s] = "lookup" \/ connection_lookup[s] # {} =>
                                 Conn(s) \in overlap \/ Somewhere(s)'
            BY <1>1, <1>2 DEF KeptInv, Somewhere
        <2> QED
            BY <1>2, <1>5, KeptFacts DEF KeptInv
    <1>7. EmptyInv'
        <2> SUFFICES ASSUME NEW u \in Tasks,
                            \/ pc'[u] \in {"initialize", "insert"}
                            \/ Kind(u) = "close" /\ pc'[u] \in {"forget", "done"}
                     PROVE  Conn(u) \in overlap \/ connections'[Conn(u)] = {}
            BY <1>1 DEF EmptyInv
        <2>1. CASE u = t
            BY <1>4, <2>1
        <2>2. CASE u # t
            <3>1. pc[u] = pc'[u]
                BY <1>2, <2>2
            <3>2. Conn(u) \in Connections
                BY <3>1, PlaceFacts, EventFacts DEF Connecting, TypeInv, PlaceInv
            <3> QED
                BY <1>4, <3>1, <3>2 DEF EmptyInv
        <2> QED
            BY <2>1, <2>2
    <1> QED
        BY <1>6, <1>7

\* The close removes the sockets of what it took.
LEMMA KeptForget ==
    ASSUME TypeInv, SoloInv, KeptInv, EmptyInv, NEW t \in Tasks, RemoveSockets(t)
    PROVE  KeptInv' /\ EmptyInv'
    <1>1. /\ pc \in [Tasks -> Labels] /\ UNCHANGED <<event, overlap>>
          /\ \A s \in Tasks : Kind(s)' = Kind(s) /\ Conn(s)' = Conn(s)
        BY OverlapGrows DEF TaskStep, CloseStep
    <1>2. /\ pc[t] = "forget" /\ pc'[t] = "done" /\ \A u \in Tasks \ {t} : pc'[u] = pc[u]
          /\ UNCHANGED connections
        BY <1>1 DEF RemoveSockets, Goto
    <1>3. \A u \in Tasks \ {t} : held'[u] = held[u]
        BY DEF RemoveSockets, TypeInv, LocalsInv
    <1>4. \A s \in Tasks :
              /\ connection_lookup'[s] # {} => /\ connection_lookup'[s] = connection_lookup[s]
                                               /\ ~ \E conn \in held[t] : s \in conn.sockets
        BY DEF RemoveSockets
    <1>5. ASSUME NEW s \in Tasks, Somewhere(s)
          PROVE  Somewhere(s)' \/ (Conn(s) = Conn(t) /\ \E x \in held[t] : s \in x.sockets)
        <2>1. CASE \E x \in connections[Conn(s)] : s \in x.sockets
            BY <1>1, <1>2, <2>1 DEF Somewhere
        <2>2. ASSUME NEW u \in Tasks \ {t}, pc[u] = "forget", Conn(u) = Conn(s),
                     NEW x \in held[u], s \in x.sockets
              PROVE  Somewhere(s)'
            <3>1. pc'[u] = "forget" /\ x \in held'[u] /\ Conn(u)' = Conn(s)'
                BY <1>1, <1>2, <1>3, <2>2
            <3> QED
                BY <2>2, <3>1 DEF Somewhere
        <2> QED
            BY <1>5, <2>1, <2>2 DEF Somewhere
    <1>6. KeptInv'
        <2> SUFFICES ASSUME NEW s \in Tasks
                     PROVE  /\ connection_lookup'[s] # {} =>
                                 Kind(s) = "connect" /\ connection_lookup'[s] = {Conn(s)}
                            /\ pc'[s] = "lookup" \/ connection_lookup'[s] # {} =>
                                 Conn(s) \in overlap \/ Somewhere(s)'
            BY <1>1 DEF KeptInv, Somewhere
        <2>1. connection_lookup'[s] # {} =>
                Kind(s) = "connect" /\ connection_lookup'[s] = {Conn(s)}
            BY <1>4 DEF KeptInv
        <2>2. ASSUME connection_lookup'[s] # {}
              PROVE  Conn(s) \in overlap \/ Somewhere(s)'
            <3>1. connection_lookup[s] # {} /\ ~ \E x \in held[t] : s \in x.sockets
                BY <1>4, <2>2
            <3>2. Conn(s) \in overlap \/ Somewhere(s)
                BY <3>1, KeptFacts
            <3> QED
                BY <1>5, <3>1, <3>2
        <2>3. ASSUME pc'[s] = "lookup"
              PROVE  Conn(s) \in overlap \/ Somewhere(s)'
            <3>1. s # t /\ pc[s] = "lookup"
                BY <1>2, <2>3
            <3>2. Conn(s) = Conn(t) => Conn(s) \in overlap
                BY <1>2, <3>1, NotAlone
            <3>3. Conn(s) \in overlap \/ Somewhere(s)
                BY <3>1, KeptFacts
            <3> QED
                BY <1>5, <3>2, <3>3
        <2> QED
            BY <2>1, <2>2, <2>3
    <1>7. EmptyInv'
        BY <1>1, <1>2 DEF EmptyInv
    <1> QED
        BY <1>6, <1>7

\* ForgetInv is inductive relative to TypeInv and RouteInv.
LEMMA ForgetNext ==
    ASSUME TypeInv, RouteInv, ForgetInv, [Next]_vars
    PROVE  ForgetInv'
    <1>1. ASSUME NEW t \in Tasks, Start(t) \/ TaskStep(t)
          PROVE  ForgetInv'
        <2>1. KeptInv' /\ EmptyInv'
            BY <1>1, KeptQuiet, KeptAdd, KeptInsert, KeptInitialize, KeptLookup, KeptRemove,
               KeptForget
            DEF ForgetInv, Quieter, TaskStep, ConnectStep, NamespaceStep, CloseStep,
                PacketStep, Plain
        <2> QED
            BY <1>1, <2>1, SoloNext DEF ForgetInv
    <1>2. CASE UNCHANGED <<maps, spaces, event, pc, locals, history>>
        BY <1>2 DEF ForgetInv, StartedInv, SoloInv, LastInv, KeptInv, EmptyInv, Kind, Conn,
                    Running, maps, locals, history
    <1> QED
        BY <1>1, <1>2, NextIs

\* No task has begun.
LEMMA ForgetInit ==
    ASSUME Init
    PROVE  ForgetInv
    BY DEF Init, ForgetInv, StartedInv, SoloInv, LastInv, KeptInv, EmptyInv, Running

\* A close that nothing overlapped has left neither a Connection nor a socket.
LEMMA ForgetEnough ==
    ASSUME TypeInv, ForgetInv
    PROVE  CloseForgets
    <1> SUFFICES ASSUME NEW t \in Tasks, Kind(t) = "close", pc[t] = "done",
                        Conn(t) \notin overlap
                 PROVE  /\ connections[Conn(t)] = {}
                        /\ \A s \in Tasks : Conn(t) \notin connection_lookup[s]
        BY DEF CloseForgets, Kind
    <1>1. connections[Conn(t)] = {}
        BY DEF ForgetInv, EmptyInv
    <1>2. ASSUME NEW s \in Tasks, Conn(t) \in connection_lookup[s]
          PROVE  FALSE
        <2>1. Conn(s) = Conn(t) /\ Somewhere(s)
            BY <1>2, KeptFacts DEF ForgetInv, KeptInv
        <2>2. PICK u \in Tasks : pc[u] = "forget" /\ Conn(u) = Conn(s)
            BY <1>1, <2>1 DEF Somewhere
        <2>3. u # t /\ Kind(u) = "close"
            BY <2>2, PlaceFacts
        <2> QED
            BY <2>1, <2>2, <2>3, CloseIsLastEvent
    <1> QED
        BY <1>1, <1>2

\* Once the Close event of a client is handled, neither its Connection nor an
\* entry of the lookup is left, unless one of its connects ran at the same
\* time (`remove_connection`): also events that are handled in another order
\* than they came, and sockets that were just being entered, leave nothing.
THEOREM ForgottenAfterClose == Spec => []CloseForgets
    <1>1. Init => TypeInv /\ RouteInv /\ ForgetInv
        BY TypeInit, RouteInit, ForgetInit
    <1>2. TypeInv /\ RouteInv /\ ForgetInv /\ [Next]_vars => (TypeInv /\ RouteInv /\ ForgetInv)'
        BY TypeNext, RouteNext, ForgetNext
    <1>3. TypeInv /\ ForgetInv => CloseForgets
        BY ForgetEnough
    <1> QED
        BY <1>1, <1>2, <1>3, PTL DEF Spec

-------------------------------------------------------------------------------
(* Namespaces: joined and adopted *)

\* A namespace object is named by the task that made it, which has gone on.
BornInv ==
    \A n \in Names : \A o \in namespaces[n] :
        /\ Kind(o) \in {"connect", "of"} /\ Nsp(o) = n
        /\ pc[o] \notin Arriving \cup {"idle", "of_get", "of_create"}

\* The namespace object that a task works with is the one in the map, unless
\* it was replaced, and there is one from the step after the search on.
ChosenInv ==
    \A t \in Tasks : Kind(t) = "connect" =>
        /\ namespace[t] # {} =>
              Nsp(t) \in replaced \/ namespaces[Nsp(t)] = namespace[t]
        /\ pc[t] \in {"adopt", "add", "initialize"} => namespace[t] # {}
        /\ pc[t] = "adopt" => namespace[t] = {t}
        /\ pc[t] \in {"clear_timer", "connect_get", "adopt"} => namespaces[Nsp(t)] # {}
        /\ pc[t] # "connect_create"

JoinInv ==
    \A t \in Tasks : pc[t] \in {"insert"} \cup Entered =>
        Nsp(t) \in replaced \/ \E o \in namespaces[Nsp(t)] : t \in socket_ids[o]

\* Only dynamic namespaces are searched, and the search that goes on has
\* found one.
MatchInv ==
    /\ \A i \in 1 .. Len(dynamic_namespaces) : Kind(dynamic_namespaces[i]) = "dynamic"
    /\ \A t \in Tasks : pc[t] \in {"match_get", "match_create", "adopt"} => Matching(t) # {}

AdoptInv ==
    \A t \in Tasks :
        /\ Kind(t) = "connect" /\ t \in namespaces[Nsp(t)]
        /\ pc[t] # "adopt" /\ Nsp(t) \notin replaced
        => /\ Matching(t) # {}
           /\ members[dynamic_namespaces[Min(Matching(t))]][Nsp(t)] = {t}

SpaceInv == BornInv /\ ChosenInv /\ JoinInv /\ MatchInv /\ AdoptInv

\* The first of the dynamic namespaces that match.
LEMMA MinFacts ==
    ASSUME NEW S \in SUBSET Nat, S # {}
    PROVE  Min(S) \in S /\ \A y \in S : Min(S) <= y
    <1>1. S \subseteq Nat
        OBVIOUS
    <1>2. PICK x \in S : \A y \in S : <<y, x>> \notin OpToRel(<, Nat)
        BY <1>1, WFMin, NatLessThanWellFounded, Zenon
    <1>3. \A y \in S : ~ (y < x)
        BY <1>1, <1>2, Zenon DEF OpToRel
    <1>4. \A y \in S : x <= y
        BY <1>1, <1>3
    <1> QED
        BY <1>4 DEF Min

First(t) == dynamic_namespaces[Min(Matching(t))]

\* The dynamic namespace that a search finds.
LEMMA FirstFacts ==
    ASSUME TypeInv, NEW t, Matching(t) # {}
    PROVE  /\ Matching(t) \subseteq 1 .. Len(dynamic_namespaces)
           /\ Min(Matching(t)) \in Matching(t)
           /\ \A i \in Matching(t) : Min(Matching(t)) <= i
           /\ First(t) \in Tasks
    <1>1. dynamic_namespaces \in Seq(Tasks)
        BY DEF TypeInv, MapsInv
    <1>2. Matching(t) \subseteq 1 .. Len(dynamic_namespaces)
        BY <1>1 DEF Matching
    <1>3. Matching(t) \in SUBSET Nat
        BY <1>1, <1>2
    <1>4. Min(Matching(t)) \in Matching(t) /\ \A i \in Matching(t) : Min(Matching(t)) <= i
        BY <1>3, MinFacts
    <1> QED
        BY <1>1, <1>2, <1>4 DEF First

\* Another registration does not change which one is the first.
LEMMA FirstStays ==
    ASSUME TypeInv, NEW t, Matching(t) # {}, NEW d \in Tasks, UNCHANGED event,
           dynamic_namespaces' = Append(dynamic_namespaces, d)
    PROVE  Matching(t)' # {} /\ First(t)' = First(t)
    <1> DEFINE n == Len(dynamic_namespaces)
    <1>1. dynamic_namespaces \in Seq(Tasks) /\ n \in Nat
        BY DEF TypeInv, MapsInv
    <1>2. \A i \in 1 .. n : dynamic_namespaces'[i] = dynamic_namespaces[i]
        BY <1>1
    <1>3. DOMAIN dynamic_namespaces = 1 .. n /\ DOMAIN dynamic_namespaces' = 1 .. (n + 1)
        BY <1>1
    <1>4. Matching(t) \subseteq Matching(t)' /\ Matching(t)' \subseteq Matching(t) \cup {n + 1}
        BY <1>1, <1>2, <1>3 DEF Matching, Nsp
    <1>5. /\ Matching(t) \subseteq 1 .. n /\ Min(Matching(t)) \in Matching(t)
          /\ \A i \in Matching(t) : Min(Matching(t)) <= i
        BY FirstFacts
    <1>6. Matching(t)' \in SUBSET Nat /\ Matching(t)' # {}
        BY <1>1, <1>4, <1>5
    <1> DEFINE M == Matching(t)
               N == Matching(t)'
    <1>7. Min(N) \in N /\ \A i \in N : Min(N) <= i
        BY <1>6, MinFacts
    <1>8. Min(N) = Min(M)
        <2>1. Min(M) \in N /\ Min(M) \in 1 .. n
            BY <1>4, <1>5
        <2>2. Min(N) <= Min(M)
            BY <1>7, <2>1
        <2>3. Min(N) \in M
            BY <1>1, <1>4, <1>6, <1>7, <2>1, <2>2
        <2>4. Min(M) <= Min(N)
            BY <1>5, <2>3
        <2>5. Min(N) \in 1 .. n
            BY <1>5, <2>3
        <2> QED
            BY <1>1, <2>1, <2>2, <2>4, <2>5
    <1> QED
        BY <1>2, <1>5, <1>6, <1>8 DEF First, Min

\* A Connection whose `namespaces` are empty takes no socket out when dropped.
LEMMA DropNothing ==
    ASSUME TypeInv, NEW conns, DropState(conns),
           \A conn \in conns : \A n \in Names : conn.namespaces[n] = {}
    PROVE  UNCHANGED socket_ids
    <1>1. socket_ids \in [Tasks -> SUBSET Tasks]
        BY DEF TypeInv, MapsInv
    <1>2. socket_ids' = [o \in Tasks |-> socket_ids[o]]
        BY DEF DropState
    <1> QED
        BY <1>1, <1>2

\* Steps that leave the namespaces alone, apart from sockets that join.
LEMMA SpaceFrame ==
    ASSUME TypeInv, SpaceInv, NEW t \in Tasks, NEW l, Goto(t, l),
           UNCHANGED <<event, namespaces, dynamic_namespaces, members, namespace, replaced>>,
           \A o \in Tasks : socket_ids[o] \subseteq socket_ids'[o],
           pc[t] # "adopt", l \notin {"adopt", "add", "connect_create"},
           l \in Arriving \cup {"idle", "of_get", "of_create"} => pc[t] \in Arriving \cup {"idle"},
           l = "initialize" => pc[t] = "add",
           l = "clear_timer" => namespaces[Nsp(t)] # {},
           l = "connect_get" => pc[t] = "clear_timer",
           l \in {"match_get", "match_create"} => Matching(t) # {},
           l \in {"insert"} \cup Entered =>
               \/ pc[t] \in {"insert", "lookup"}
               \/ pc[t] \in {"add", "initialize"} /\ JoinNamespace(t)
    PROVE  SpaceInv'
    <1>1. /\ pc \in [Tasks -> Labels] /\ namespaces \in [Names -> SUBSET Tasks]
          /\ namespace \in [Tasks -> SUBSET Tasks]
        BY DEF TypeInv, PlaceInv, MapsInv, LocalsInv
    <1>2. pc'[t] = l /\ \A u \in Tasks \ {t} : pc'[u] = pc[u]
        BY <1>1 DEF Goto
    <1>3. \A u \in Tasks : Kind(u)' = Kind(u) /\ Nsp(u)' = Nsp(u) /\ Matching(u)' = Matching(u)
        BY DEF Kind, Nsp, Matching
    <1>4. BornInv'
        <2> SUFFICES ASSUME NEW n \in Names, NEW o \in namespaces[n]
                     PROVE  /\ Kind(o) \in {"connect", "of"} /\ Nsp(o) = n
                            /\ pc'[o] \notin Arriving \cup {"idle", "of_get", "of_create"}
            BY <1>3 DEF BornInv, Kind, Nsp
        <2> QED
            BY <1>1, <1>2 DEF SpaceInv, BornInv
    <1>5. ChosenInv'
        <2> SUFFICES ASSUME NEW u \in Tasks, Kind(u) = "connect"
                     PROVE  /\ namespace[u] # {} =>
                                 Nsp(u) \in replaced \/ namespaces[Nsp(u)] = namespace[u]
                            /\ pc'[u] \in {"adopt", "add", "initialize"} => namespace[u] # {}
                            /\ pc'[u] = "adopt" => namespace[u] = {u}
                            /\ pc'[u] \in {"clear_timer", "connect_get", "adopt"} =>
                                 namespaces[Nsp(u)] # {}
                            /\ pc'[u] # "connect_create"
            BY <1>3 DEF ChosenInv
        <2> QED
            BY <1>2 DEF SpaceInv, ChosenInv
    <1>6. JoinInv'
        <2> SUFFICES ASSUME NEW u \in Tasks, pc'[u] \in {"insert"} \cup Entered
                     PROVE  Nsp(u) \in replaced
                            \/ \E o \in namespaces[Nsp(u)] : u \in socket_ids'[o]
            BY <1>3 DEF JoinInv, Entered
        <2>1. CASE pc[u] \in {"insert"} \cup Entered
            <3>1. Nsp(u) \in Names
                BY <2>1, PlaceFacts DEF Connecting
            <3> QED
                BY <1>1, <2>1, <3>1 DEF SpaceInv, JoinInv
        <2>2. CASE u = t /\ pc[t] \in {"add", "initialize"} /\ JoinNamespace(t)
            <3>1. Kind(t) = "connect" /\ Nsp(t) \in Names
                BY <2>2, PlaceFacts DEF Connecting
            <3>2. namespace[t] # {} /\ (Nsp(t) \in replaced \/ namespaces[Nsp(t)] = namespace[t])
                BY <2>2, <3>1 DEF SpaceInv, ChosenInv
            <3>3. \A o \in namespace[t] : t \in socket_ids'[o]
                BY <1>1, <2>2 DEF JoinNamespace
            <3> QED
                BY <2>2, <3>2, <3>3
        <2> QED
            BY <1>2, <2>1, <2>2 DEF Entered
    <1>7. MatchInv'
        <2>1. \A i \in 1 .. Len(dynamic_namespaces) : Kind(dynamic_namespaces[i])' = "dynamic"
            BY DEF SpaceInv, MatchInv, Kind
        <2>2. \A u \in Tasks : pc'[u] \in {"match_get", "match_create", "adopt"} =>
                Matching(u) # {}
            BY <1>2 DEF SpaceInv, MatchInv
        <2> QED
            BY <1>3, <2>1, <2>2 DEF MatchInv, Kind
    <1>8. AdoptInv'
        BY <1>2, <1>3 DEF SpaceInv, AdoptInv
    <1> QED
        BY <1>4, <1>5, <1>6, <1>7, <1>8 DEF SpaceInv

\* Steps that create, replace and register no namespace.
LEMMA SpaceQuiet ==
    ASSUME TypeInv, RouteInv, SpaceInv, NEW t \in Tasks,
           \/ Start(t) \/ Plain(t) \/ AddToNamespace(t) \/ Initialize(t)
           \/ InsertConnection(t) \/ InsertLookup(t) \/ CloseStep(t)
           \/ SetDecoder(t) \/ DecodeBinary(t)
    PROVE  SpaceInv'
    <1> USE DEF Arriving, Entered
    <1>0. socket_ids \in [Tasks -> SUBSET Tasks]
        BY DEF TypeInv, MapsInv
    <1>1. CASE Start(t)
        <2>1. Kind(t) \in DOMAIN Entry
            BY PlaceFacts
        <2>2. Entry[Kind(t)] \in {"timer", "remove", "ignore", "decode", "exists", "handle",
                                  "set_decoder", "of_get", "register"}
            BY <2>1 DEF Entry
        <2>3. /\ Goto(t, Entry[Kind(t)]) /\ pc[t] = "idle"
              /\ UNCHANGED <<spaces, event, namespace, replaced>>
            BY <1>1 DEF Start, Kind, inputs, locals
        <2> QED
            BY <2>2, <2>3, SpaceFrame DEF spaces
    <1>2. CASE Plain(t)
        <2>1. PICK l \in PlainTo :
                /\ Goto(t, l)
                /\ l = "initialize" => pc[t] = "add"
                /\ l = "clear_timer" => pc[t] = "exists" /\ namespaces[Nsp(t)] # {}
                /\ l = "match" => pc[t] = "exists"
                /\ l = "match_get" => pc[t] = "match" /\ Matching(t) # {}
                /\ l = "connect_get" => pc[t] = "clear_timer"
            BY <1>2, PlainFacts
        <2>2. pc[t] \in PlainFrom /\ UNCHANGED <<spaces, event, namespace, replaced>>
            BY <1>2, PlainFacts DEF inputs, locals, history
        <2> QED
            BY <2>1, <2>2, SpaceFrame DEF PlainFrom, PlainTo, spaces
    <1>3. CASE AddToNamespace(t)
        <2>1. /\ pc[t] = "add" /\ Goto(t, "lookup") /\ JoinNamespace(t)
              /\ UNCHANGED <<event, namespaces, dynamic_namespaces, members, namespace, replaced>>
            BY <1>3, RouteAdd DEF AddToNamespace, inputs, history
        <2>2. \A o \in Tasks : socket_ids[o] \subseteq socket_ids'[o]
            BY <2>1 DEF JoinNamespace
        <2> QED
            BY <2>1, <2>2, SpaceFrame
    <1>4. CASE Initialize(t)
        <2>1. /\ pc[t] = "initialize" /\ Goto(t, "insert") /\ JoinNamespace(t)
              /\ UNCHANGED <<event, namespaces, dynamic_namespaces, members, namespace, replaced>>
            BY <1>4 DEF Initialize, inputs, history
        <2>2. \A o \in Tasks : socket_ids[o] \subseteq socket_ids'[o]
            BY <2>1 DEF JoinNamespace
        <2> QED
            BY <2>1, <2>2, SpaceFrame
    <1>5. CASE InsertConnection(t)
        <2>1. Conn(t) \in Connections
            BY <1>5, PlaceFacts DEF InsertConnection, Connecting
        <2>2. UNCHANGED socket_ids
            <3>1. \A conn \in connections[Conn(t)] : \A n \in Names : conn.namespaces[n] = {}
                BY <2>1, RouteFacts DEF Owned
            <3> QED
                BY <1>5, <3>1, DropNothing DEF InsertConnection
        <2>3. /\ pc[t] = "insert" /\ Goto(t, "lookup")
              /\ UNCHANGED <<event, namespaces, dynamic_namespaces, members, namespace, replaced>>
            BY <1>5 DEF InsertConnection, inputs, history
        <2> QED
            BY <2>2, <2>3, SpaceFrame
    <1>6. CASE InsertLookup(t)
        <2>1. /\ pc[t] = "lookup" /\ Goto(t, "connected")
              /\ UNCHANGED <<event, spaces, namespace, replaced>>
            BY <1>6 DEF InsertLookup, inputs, locals, history
        <2> QED
            BY <2>1, SpaceFrame DEF spaces
    <1>7. CASE RemoveConnection(t)
        <2>1. /\ pc[t] = "remove" /\ \E l \in {"done", "forget"} : Goto(t, l)
              /\ UNCHANGED <<event, spaces, namespace, replaced>>
            BY <1>7 DEF RemoveConnection, inputs, history
        <2> QED
            BY <2>1, SpaceFrame DEF spaces
    <1>8. CASE RemoveSockets(t)
        <2>1. UNCHANGED socket_ids
            <3>1. \A conn \in held[t] : \A n \in Names : conn.namespaces[n] = {}
                BY <1>8, HeldFacts DEF RemoveSockets, Owned
            <3> QED
                BY <1>8, <3>1, DropNothing DEF RemoveSockets
        <2>2. /\ pc[t] = "forget" /\ Goto(t, "done")
              /\ UNCHANGED <<event, namespaces, dynamic_namespaces, members, namespace, replaced>>
            BY <1>8 DEF RemoveSockets, inputs, history
        <2> QED
            BY <2>1, <2>2, SpaceFrame
    <1>9. CASE SetDecoder(t)
        <2>1. /\ pc[t] = "set_decoder" /\ Goto(t, "done")
              /\ UNCHANGED <<event, spaces, namespace, replaced>>
            BY <1>9 DEF SetDecoder, inputs, locals, history
        <2> QED
            BY <2>1, SpaceFrame DEF spaces
    <1>10. CASE DecodeBinary(t)
        <2>1. /\ pc[t] = "decode" /\ \E l \in {"done", "panicked"} : Goto(t, l)
              /\ UNCHANGED <<event, spaces, namespace, replaced>>
            BY <1>10, DecodeFacts DEF DecodeBinary, inputs, locals
        <2> QED
            BY <2>1, SpaceFrame DEF spaces
    <1> QED
        BY <1>1, <1>2, <1>3, <1>4, <1>5, <1>6, <1>7, <1>8, <1>9, <1>10 DEF CloseStep

\* A task that finds a namespace, or none.
LEMMA SpaceGet ==
    ASSUME TypeInv, SpaceInv, NEW t \in Tasks, GetNamespace(t)
    PROVE  SpaceInv'
    <1>1. /\ pc \in [Tasks -> Labels] /\ namespaces \in [Names -> SUBSET Tasks]
          /\ namespace \in [Tasks -> SUBSET Tasks]
        BY DEF TypeInv, PlaceInv, MapsInv, LocalsInv
    <1>2. /\ pc[t] \in {"match_get", "connect_get", "of_get"}
          /\ namespace' = [namespace EXCEPT ![t] = namespaces[Nsp(t)]]
          /\ UNCHANGED <<event, spaces, replaced>>
        BY DEF GetNamespace, Found, inputs, history
    <1>3. PICK l : /\ Goto(t, l)
                   /\ \/ namespaces[Nsp(t)] # {} /\ l \in {"clear_timer", "add", "done"}
                      \/ /\ namespaces[Nsp(t)] = {}
                         /\ \/ pc[t] = "match_get" /\ l = "match_create"
                            \/ pc[t] = "connect_get" /\ l = "connect_create"
                            \/ pc[t] = "of_get" /\ l = "of_create"
        BY DEF GetNamespace, Found, Missing
    <1>4. Nsp(t) \in Names
        BY <1>2, PlaceFacts DEF Connecting, Choosing, Arriving
    <1>5. pc'[t] = l /\ namespace'[t] = namespaces[Nsp(t)]
          /\ \A u \in Tasks \ {t} : pc'[u] = pc[u] /\ namespace'[u] = namespace[u]
        BY <1>1, <1>2, <1>3 DEF Goto
    <1>6. \A u \in Tasks : Kind(u)' = Kind(u) /\ Nsp(u)' = Nsp(u) /\ Matching(u)' = Matching(u)
        BY <1>2 DEF Kind, Nsp, Matching, spaces
    <1>7. pc[t] = "connect_get" => namespaces[Nsp(t)] # {}
        BY PlaceFacts DEF SpaceInv, ChosenInv, Connecting, Choosing
    <1>8. BornInv'
        <2> SUFFICES ASSUME NEW n \in Names, NEW o \in namespaces[n]
                     PROVE  /\ Kind(o) \in {"connect", "of"} /\ Nsp(o) = n
                            /\ pc'[o] \notin Arriving \cup {"idle", "of_get", "of_create"}
            BY <1>2, <1>6 DEF BornInv, Kind, Nsp, spaces
        <2>1. o \in Tasks /\ pc[o] \notin Arriving \cup {"idle", "of_get", "of_create"}
            BY <1>1 DEF SpaceInv, BornInv
        <2> QED
            BY <1>2, <1>3, <1>5, <2>1 DEF SpaceInv, BornInv, Arriving
    <1>9. ChosenInv'
        <2> SUFFICES ASSUME NEW u \in Tasks, Kind(u) = "connect"
                     PROVE  /\ namespace'[u] # {} =>
                                 Nsp(u) \in replaced \/ namespaces[Nsp(u)] = namespace'[u]
                            /\ pc'[u] \in {"adopt", "add", "initialize"} => namespace'[u] # {}
                            /\ pc'[u] = "adopt" => namespace'[u] = {u}
                            /\ pc'[u] \in {"clear_timer", "connect_get", "adopt"} =>
                                 namespaces[Nsp(u)] # {}
                            /\ pc'[u] # "connect_create"
            BY <1>2, <1>6 DEF ChosenInv, spaces
        <2>1. CASE u = t
            BY <1>3, <1>5, <1>7, <2>1
        <2>2. CASE u # t
            BY <1>5, <2>2 DEF SpaceInv, ChosenInv
        <2> QED
            BY <2>1, <2>2
    <1>10. JoinInv'
        <2> SUFFICES ASSUME NEW u \in Tasks, pc'[u] \in {"insert"} \cup Entered
                     PROVE  Nsp(u) \in replaced
                            \/ \E o \in namespaces[Nsp(u)] : u \in socket_ids[o]
            BY <1>2, <1>6 DEF JoinInv, Entered, spaces
        <2>1. u # t
            BY <1>3, <1>5 DEF Entered
        <2> QED
            BY <1>5, <2>1 DEF SpaceInv, JoinInv
    <1>11. MatchInv'
        <2>1. \A i \in 1 .. Len(dynamic_namespaces) : Kind(dynamic_namespaces[i])' = "dynamic"
            BY <1>2 DEF SpaceInv, MatchInv, Kind, spaces
        <2>2. \A u \in Tasks : pc'[u] \in {"match_get", "match_create", "adopt"} =>
                Matching(u) # {}
            BY <1>3, <1>5 DEF SpaceInv, MatchInv
        <2> QED
            BY <1>2, <1>6, <2>1, <2>2 DEF MatchInv, Kind, spaces
    <1>12. AdoptInv'
        BY <1>2, <1>3, <1>5, <1>6 DEF SpaceInv, AdoptInv, spaces
    <1> QED
        BY <1>8, <1>9, <1>10, <1>11, <1>12 DEF SpaceInv

\* A task that inserts its own object, which may replace another.
LEMMA SpaceCreate ==
    ASSUME TypeInv, SpaceInv, NEW t \in Tasks, CreateNamespace(t)
    PROVE  SpaceInv'
    <1>1. /\ pc \in [Tasks -> Labels] /\ namespaces \in [Names -> SUBSET Tasks]
          /\ namespace \in [Tasks -> SUBSET Tasks]
        BY DEF TypeInv, PlaceInv, MapsInv, LocalsInv
    <1>2. /\ pc[t] \in {"match_create", "connect_create", "of_create"}
          /\ namespaces' = [namespaces EXCEPT ![Nsp(t)] = {t}]
          /\ namespace' = [namespace EXCEPT ![t] = {t}]
          /\ UNCHANGED <<event, socket_ids, dynamic_namespaces, members>>
          /\ replaced \subseteq replaced'
          /\ namespaces[Nsp(t)] # {} => Nsp(t) \in replaced'
        BY DEF CreateNamespace, Created, inputs
    <1>3. Nsp(t) \in Names
        BY <1>2, PlaceFacts DEF Connecting, Choosing, Arriving
    <1>4. pc[t] # "connect_create"
        BY PlaceFacts DEF SpaceInv, ChosenInv, Connecting, Choosing
    <1>5. \/ pc[t] = "match_create" /\ Kind(t) = "connect" /\ Goto(t, "adopt")
          \/ pc[t] = "of_create" /\ Kind(t) = "of" /\ Goto(t, "done")
        BY <1>2, <1>4, PlaceFacts DEF CreateNamespace, Created, Connecting, Choosing, Arriving
    <1>6. /\ \/ pc[t] = "match_create" /\ Kind(t) = "connect" /\ pc'[t] = "adopt"
             \/ pc[t] = "of_create" /\ Kind(t) = "of" /\ pc'[t] = "done"
          /\ namespace'[t] = {t} /\ namespaces'[Nsp(t)] = {t}
          /\ \A u \in Tasks \ {t} : pc'[u] = pc[u] /\ namespace'[u] = namespace[u]
          /\ \A n \in Names \ {Nsp(t)} : namespaces'[n] = namespaces[n]
        BY <1>1, <1>2, <1>3, <1>5 DEF Goto
    <1>7. \A u \in Tasks : Kind(u)' = Kind(u) /\ Nsp(u)' = Nsp(u) /\ Matching(u)' = Matching(u)
        BY <1>2 DEF Kind, Nsp, Matching
    <1>8. BornInv'
        <2> SUFFICES ASSUME NEW n \in Names, NEW o \in namespaces'[n]
                     PROVE  /\ Kind(o) \in {"connect", "of"} /\ Nsp(o) = n
                            /\ pc'[o] \notin Arriving \cup {"idle", "of_get", "of_create"}
            BY <1>2, <1>7 DEF BornInv, Kind, Nsp
        <2>1. CASE o = t
            BY <1>3, <1>4, <1>6, <2>1 DEF Arriving, SpaceInv, BornInv
        <2>2. CASE o # t
            <3>1. o \in namespaces[n] /\ o \in Tasks
                BY <1>1, <1>3, <1>6, <2>2
            <3> QED
                BY <1>6, <2>2, <3>1 DEF SpaceInv, BornInv
        <2> QED
            BY <2>1, <2>2
    <1>9. ChosenInv'
        <2> SUFFICES ASSUME NEW u \in Tasks, Kind(u) = "connect"
                     PROVE  /\ namespace'[u] # {} =>
                                 Nsp(u) \in replaced' \/ namespaces'[Nsp(u)] = namespace'[u]
                            /\ pc'[u] \in {"adopt", "add", "initialize"} => namespace'[u] # {}
                            /\ pc'[u] = "adopt" => namespace'[u] = {u}
                            /\ pc'[u] \in {"clear_timer", "connect_get", "adopt"} =>
                                 namespaces'[Nsp(u)] # {}
                            /\ pc'[u] # "connect_create"
            BY <1>7 DEF ChosenInv
        <2>1. CASE u = t
            BY <1>6, <2>1
        <2>2. CASE u # t
            <3>1. Nsp(u) \in Names
                BY EventFacts DEF TypeInv, PlaceInv
            <3>2. CASE Nsp(u) = Nsp(t)
                BY <1>2, <1>6, <2>2, <3>2 DEF SpaceInv, ChosenInv
            <3>3. CASE Nsp(u) # Nsp(t)
                BY <1>2, <1>6, <2>2, <3>1, <3>3 DEF SpaceInv, ChosenInv
            <3> QED
                BY <3>2, <3>3
        <2> QED
            BY <2>1, <2>2
    <1>10. JoinInv'
        <2> SUFFICES ASSUME NEW u \in Tasks, pc'[u] \in {"insert"} \cup Entered
                     PROVE  Nsp(u) \in replaced'
                            \/ \E o \in namespaces'[Nsp(u)] : u \in socket_ids[o]
            BY <1>2, <1>7 DEF JoinInv, Entered
        <2>1. u # t /\ pc[u] \in {"insert"} \cup Entered
            BY <1>6 DEF Entered
        <2>2. Nsp(u) \in Names
            BY <2>1, PlaceFacts DEF Connecting
        <2>3. Nsp(u) \in replaced \/ \E o \in namespaces[Nsp(u)] : u \in socket_ids[o]
            BY <2>1 DEF SpaceInv, JoinInv
        <2> QED
            BY <1>2, <1>6, <2>2, <2>3
    <1>11. MatchInv'
        <2>1. \A i \in 1 .. Len(dynamic_namespaces) : Kind(dynamic_namespaces[i])' = "dynamic"
            BY <1>2 DEF SpaceInv, MatchInv, Kind
        <2>2. \A u \in Tasks : pc'[u] \in {"match_get", "match_create", "adopt"} =>
                Matching(u) # {}
            BY <1>6 DEF SpaceInv, MatchInv
        <2> QED
            BY <1>2, <1>7, <2>1, <2>2 DEF MatchInv, Kind
    <1>12. AdoptInv'
        <2> SUFFICES ASSUME NEW u \in Tasks, Kind(u) = "connect", u \in namespaces'[Nsp(u)],
                            pc'[u] # "adopt", Nsp(u) \notin replaced'
                     PROVE  /\ Matching(u) # {}
                            /\ members[dynamic_namespaces[Min(Matching(u))]][Nsp(u)] = {u}
            BY <1>2, <1>7 DEF AdoptInv
        <2>1. u # t
            BY <1>6
        <2>2. Nsp(u) \in Names
            BY EventFacts DEF TypeInv, PlaceInv
        <2>3. u \in namespaces[Nsp(u)]
            BY <1>6, <2>1, <2>2
        <2> QED
            BY <1>2, <1>6, <2>1, <2>3 DEF SpaceInv, AdoptInv
    <1> QED
        BY <1>8, <1>9, <1>10, <1>11, <1>12 DEF SpaceInv

\* A dynamic namespace that is registered comes last in the search.
LEMMA SpaceRegister ==
    ASSUME TypeInv, SpaceInv, NEW t \in Tasks, MakeDynamicNamespace(t)
    PROVE  SpaceInv'
    <1>1. pc \in [Tasks -> Labels] /\ dynamic_namespaces \in Seq(Tasks)
          /\ namespaces \in [Names -> SUBSET Tasks]
        BY DEF TypeInv, PlaceInv, MapsInv
    <1>2. /\ pc[t] = "register" /\ Goto(t, "done")
          /\ dynamic_namespaces' = Append(dynamic_namespaces, t)
          /\ UNCHANGED <<event, namespaces, socket_ids, members, namespace, replaced>>
        BY DEF MakeDynamicNamespace, inputs, locals, history
    <1>3. pc'[t] = "done" /\ \A u \in Tasks \ {t} : pc'[u] = pc[u]
        BY <1>1, <1>2 DEF Goto
    <1>4. \A u \in Tasks : Kind(u)' = Kind(u) /\ Nsp(u)' = Nsp(u)
        BY <1>2 DEF Kind, Nsp
    <1>5. BornInv'
        <2> SUFFICES ASSUME NEW n \in Names, NEW o \in namespaces[n]
                     PROVE  /\ Kind(o) \in {"connect", "of"} /\ Nsp(o) = n
                            /\ pc'[o] \notin Arriving \cup {"idle", "of_get", "of_create"}
            BY <1>2 DEF BornInv, Kind, Nsp
        <2> QED
            BY <1>1, <1>3 DEF SpaceInv, BornInv, Arriving
    <1>6. ChosenInv'
        BY <1>2, <1>3, <1>4 DEF SpaceInv, ChosenInv
    <1>7. JoinInv'
        BY <1>2, <1>3, <1>4 DEF SpaceInv, JoinInv, Entered
    <1>8. \A u \in Tasks : Matching(u) # {} => Matching(u)' # {} /\ First(u)' = First(u)
        BY <1>2, FirstStays
    <1>9. MatchInv'
        <2>1. ASSUME NEW i \in 1 .. Len(dynamic_namespaces')
              PROVE  Kind(dynamic_namespaces'[i]) = "dynamic"
            <3>1. CASE i \in 1 .. Len(dynamic_namespaces)
                BY <1>1, <1>2, <3>1 DEF SpaceInv, MatchInv
            <3>2. CASE i = Len(dynamic_namespaces) + 1
                BY <1>1, <1>2, <3>2, PlaceFacts
            <3> QED
                BY <1>1, <1>2, <3>1, <3>2
        <2>2. \A u \in Tasks : pc'[u] \in {"match_get", "match_create", "adopt"} =>
                Matching(u)' # {}
            BY <1>3, <1>8 DEF SpaceInv, MatchInv
        <2> QED
            BY <1>2, <2>1, <2>2 DEF MatchInv, Kind
    <1>10. AdoptInv'
        <2> SUFFICES ASSUME NEW u \in Tasks, Kind(u) = "connect", u \in namespaces[Nsp(u)],
                            pc'[u] # "adopt", Nsp(u) \notin replaced
                     PROVE  Matching(u)' # {} /\ members[First(u)'][Nsp(u)] = {u}
            BY <1>2, <1>4 DEF AdoptInv, First
        <2>1. Matching(u) # {} /\ members[First(u)][Nsp(u)] = {u}
            BY <1>2, <1>3 DEF SpaceInv, AdoptInv, First
        <2> QED
            BY <1>8, <2>1
    <1> QED
        BY <1>5, <1>6, <1>7, <1>9, <1>10 DEF SpaceInv

\* A new namespace becomes a member of the first that matches.
LEMMA SpaceAdopt ==
    ASSUME TypeInv, SpaceInv, NEW t \in Tasks, InsertSimpleNamespace(t)
    PROVE  SpaceInv'
    <1>1. /\ pc \in [Tasks -> Labels] /\ namespaces \in [Names -> SUBSET Tasks]
          /\ members \in [Tasks -> [Names -> SUBSET Tasks]]
        BY DEF TypeInv, PlaceInv, MapsInv
    <1>2. /\ pc[t] = "adopt" /\ Goto(t, "clear_timer")
          /\ members' = [members EXCEPT ![First(t)][Nsp(t)] = namespace[t]]
          /\ UNCHANGED <<event, namespaces, socket_ids, dynamic_namespaces, namespace, replaced>>
        BY DEF InsertSimpleNamespace, First, inputs, locals, history
    <1>3. pc'[t] = "clear_timer" /\ \A u \in Tasks \ {t} : pc'[u] = pc[u]
        BY <1>1, <1>2 DEF Goto
    <1>4. \A u \in Tasks : Kind(u)' = Kind(u) /\ Nsp(u)' = Nsp(u) /\ Matching(u)' = Matching(u)
                           /\ First(u)' = First(u)
        BY <1>2 DEF Kind, Nsp, Matching, First
    <1>5. Kind(t) = "connect" /\ Nsp(t) \in Names
        BY <1>2, PlaceFacts DEF Connecting, Choosing
    <1>6. /\ namespace[t] = {t} /\ namespaces[Nsp(t)] # {} /\ Matching(t) # {}
          /\ Nsp(t) \in replaced \/ namespaces[Nsp(t)] = {t}
        BY <1>2, <1>5 DEF SpaceInv, ChosenInv, MatchInv
    <1>7. BornInv'
        <2> SUFFICES ASSUME NEW n \in Names, NEW o \in namespaces[n]
                     PROVE  /\ Kind(o) \in {"connect", "of"} /\ Nsp(o) = n
                            /\ pc'[o] \notin Arriving \cup {"idle", "of_get", "of_create"}
            BY <1>2 DEF BornInv, Kind, Nsp
        <2> QED
            BY <1>1, <1>3 DEF SpaceInv, BornInv, Arriving
    <1>8. ChosenInv'
        BY <1>2, <1>3, <1>4, <1>6 DEF SpaceInv, ChosenInv
    <1>9. JoinInv'
        BY <1>2, <1>3, <1>4 DEF SpaceInv, JoinInv, Entered
    <1>10. MatchInv'
        <2>1. \A i \in 1 .. Len(dynamic_namespaces) : Kind(dynamic_namespaces[i])' = "dynamic"
            BY <1>2 DEF SpaceInv, MatchInv, Kind
        <2>2. \A u \in Tasks : pc'[u] \in {"match_get", "match_create", "adopt"} =>
                Matching(u) # {}
            BY <1>3 DEF SpaceInv, MatchInv
        <2> QED
            BY <1>2, <1>4, <2>1, <2>2 DEF MatchInv, Kind
    <1>11. AdoptInv'
        <2> SUFFICES ASSUME NEW u \in Tasks, Kind(u) = "connect", u \in namespaces[Nsp(u)],
                            pc'[u] # "adopt", Nsp(u) \notin replaced
                     PROVE  Matching(u) # {} /\ members'[First(u)][Nsp(u)] = {u}
            BY <1>2, <1>4 DEF AdoptInv, First
        <2>1. CASE u = t
            <3>1. First(t) \in Tasks
                BY <1>6, FirstFacts
            <3> QED
                BY <1>1, <1>2, <1>5, <1>6, <2>1, <3>1
        <2>2. CASE u # t
            <3>1. Matching(u) # {} /\ members[First(u)][Nsp(u)] = {u}
                BY <1>3, <2>2 DEF SpaceInv, AdoptInv, First
            <3>2. First(u) \in Tasks /\ Nsp(u) \in Names
                BY <3>1, FirstFacts, EventFacts DEF TypeInv, PlaceInv
            <3>3. Nsp(u) # Nsp(t)
                BY <1>6, <2>2
            <3> QED
                BY <1>1, <1>2, <3>1, <3>2, <3>3
        <2> QED
            BY <2>1, <2>2
    <1> QED
        BY <1>7, <1>8, <1>9, <1>10, <1>11 DEF SpaceInv

\* SpaceInv is inductive relative to TypeInv and RouteInv.
LEMMA SpaceNext ==
    ASSUME TypeInv, RouteInv, SpaceInv, [Next]_vars
    PROVE  SpaceInv'
    <1>1. ASSUME NEW t \in Tasks, Start(t) \/ TaskStep(t)
          PROVE  SpaceInv'
        BY <1>1, SpaceQuiet, SpaceGet, SpaceCreate, SpaceRegister, SpaceAdopt
        DEF TaskStep, ConnectStep, NamespaceStep, PacketStep, Plain
    <1>2. CASE UNCHANGED <<maps, spaces, event, pc, locals, history>>
        <2>1. /\ UNCHANGED <<namespaces, socket_ids, dynamic_namespaces, members, event, pc>>
              /\ UNCHANGED <<namespace, replaced>>
            BY <1>2 DEF spaces, locals, history
        <2>2. BornInv' /\ ChosenInv' /\ JoinInv'
            BY <2>1 DEF SpaceInv, BornInv, ChosenInv, JoinInv, Kind, Nsp, Entered
        <2>3. MatchInv' /\ AdoptInv'
            BY <2>1 DEF SpaceInv, MatchInv, AdoptInv, Kind, Nsp, Matching
        <2> QED
            BY <2>2, <2>3 DEF SpaceInv
    <1> QED
        BY <1>1, <1>2, NextIs

\* There is no namespace.
LEMMA SpaceInit ==
    ASSUME Init
    PROVE  SpaceInv
    <1>1. /\ event \in Workloads /\ \A t \in Tasks : pc[t] = "idle" /\ namespace[t] = {}
          /\ \A n \in Names : namespaces[n] = {}
        BY DEF Init
    <1>2. BornInv /\ ChosenInv /\ JoinInv
        BY <1>1 DEF BornInv, ChosenInv, JoinInv, Entered
    <1>3. AdoptInv
        BY <1>1, EventFacts DEF AdoptInv
    <1>4. Len(dynamic_namespaces) = 0
        BY DEF Init
    <1>5. MatchInv
        BY <1>1, <1>4 DEF MatchInv
    <1> QED
        BY <1>2, <1>3, <1>5 DEF SpaceInv

\* The invariants behind JoinsItsNamespace and AdoptedByFirst.
LEMMA SpaceAlways == Spec => [](TypeInv /\ RouteInv /\ SpaceInv)
    <1>1. Init => TypeInv /\ RouteInv /\ SpaceInv
        BY TypeInit, RouteInit, SpaceInit
    <1>2. TypeInv /\ RouteInv /\ SpaceInv /\ [Next]_vars => (TypeInv /\ RouteInv /\ SpaceInv)'
        BY TypeNext, RouteNext, SpaceNext
    <1> QED
        BY <1>1, <1>2, PTL DEF Spec

\* Every socket of a Connection is in the namespace object that the server has
\* under the name the client asked for, unless two tasks created that object
\* at once and one replaced the other's (`connect_client`): no close, no drop
\* of a Connection and no other connect takes it out.
THEOREM JoinsItsNamespace == Spec => []JoinedUnlessReplaced
    <1>1. TypeInv /\ RouteInv /\ SpaceInv => JoinedUnlessReplaced
        <2> SUFFICES ASSUME TypeInv, RouteInv, SpaceInv, NEW c \in Connections,
                            NEW conn \in connections[c], NEW s \in conn.sockets
                     PROVE  Nsp(s) \in replaced
                            \/ \E o \in namespaces[Nsp(s)] : s \in socket_ids[o]
            BY DEF JoinedUnlessReplaced
        <2>1. s \in Tasks /\ pc[s] \in Entered
            BY RouteFacts DEF Owned
        <2> QED
            BY <2>1 DEF SpaceInv, JoinInv
    <1> QED
        BY <1>1, SpaceAlways, PTL

\* A namespace object that a connect created is a member of the dynamic
\* namespace that was registered first among those that match, however many
\* are registered meanwhile, unless its name was created by two tasks at once
\* (`get_matching_dynamic_namespace`).
THEOREM AdoptedByFirst == Spec => []Adopted
    <1>1. TypeInv /\ RouteInv /\ SpaceInv => Adopted
        <2> SUFFICES ASSUME TypeInv, SpaceInv, NEW t \in Tasks, t \in namespace[t],
                            Kind(t) = "connect", pc[t] # "adopt", Nsp(t) \notin replaced
                     PROVE  members[dynamic_namespaces[Min(Matching(t))]][Nsp(t)] = {t}
            BY DEF Adopted, Kind
        <2>1. t \in namespaces[Nsp(t)]
            BY DEF SpaceInv, ChosenInv
        <2> QED
            BY <2>1 DEF SpaceInv, AdoptInv
    <1> QED
        BY <1>1, SpaceAlways, PTL

-------------------------------------------------------------------------------
(* Packets put together from attachments *)

Decoders == [header : Tasks, buffer : Seq(Tasks)]

Waiting(c, d) == \E conn \in connections[c] : d \in conn.decoder

\* A decoder was made by a header, and each attachment in it came with a
\* task of its own; all these tasks are over.
Collected(d) ==
    /\ Kind(d.header) = "header" /\ pc[d.header] \in Finished
    /\ \A i \in 1 .. Len(d.buffer) :
          Kind(d.buffer[i]) = "binary" /\ pc[d.buffer[i]] \in Finished
    /\ \A i, j \in 1 .. Len(d.buffer) : i # j => d.buffer[i] # d.buffer[j]

Separate(d, e) ==
    /\ d.header # e.header
    /\ \A i \in 1 .. Len(d.buffer), j \in 1 .. Len(e.buffer) : d.buffer[i] # e.buffer[j]

\* A decoder belongs to its header's client and has nothing in common with
\* those of other clients, nor with a packet that is complete.
WaitingInv ==
    \A c \in Connections, d \in Decoders : Waiting(c, d) =>
        /\ Collected(d) /\ Conn(d.header) = c
        /\ \A e \in assembled : Separate(d, e)
        /\ \A b \in Connections \ {c}, e \in Decoders : Waiting(b, e) => Separate(d, e)

CompleteInv ==
    /\ \A d \in assembled : Collected(d) /\ CanCollect(d)
    /\ \A d, e \in assembled : d # e => Separate(d, e)

AssemblyInv == WaitingInv /\ CompleteInv

\* Being separate is symmetric.
LEMMA SeparateBoth ==
    ASSUME NEW d \in Decoders, NEW e \in Decoders
    PROVE  Separate(d, e) <=> Separate(e, d)
    BY DEF Separate

\* What is waiting in a Connection, and alone there.
LEMMA WaitingFacts ==
    ASSUME TypeInv, NEW c \in Connections, NEW d, Waiting(c, d)
    PROVE  /\ d \in Decoders /\ \A e : Waiting(c, e) => e = d
           /\ \E conn \in connections[c] : connections[c] = {conn} /\ conn.decoder = {d}
    <1>1. PICK conn \in connections[c] : d \in conn.decoder
        BY DEF Waiting
    <1>2. connections[c] = {conn} /\ conn.decoder = {d} /\ d \in Decoders
        BY <1>1, ConnectionFacts DEF Decoders
    <1> QED
        BY <1>2 DEF Waiting

\* Tasks that are over stay so: what they collected stays collected.
LEMMA CollectedStays ==
    ASSUME TypeInv, NEW t \in Tasks, pc[t] \notin Finished, UNCHANGED event,
           \A u \in Tasks \ {t} : pc'[u] = pc[u],
           NEW d \in Decoders, Collected(d)
    PROVE  Collected(d)' /\ d.header # t /\ \A i \in 1 .. Len(d.buffer) : d.buffer[i] # t
    BY DEF Collected, Decoders, Kind

\* Steps that start no decoder and add nothing to one.
LEMMA AssemblyFrame ==
    ASSUME TypeInv, AssemblyInv, NEW t \in Tasks, pc[t] \notin Finished,
           UNCHANGED <<event, assembled>>, \A u \in Tasks \ {t} : pc'[u] = pc[u],
           \A c \in Connections, d \in Decoders : Waiting(c, d)' => Waiting(c, d)
    PROVE  AssemblyInv'
    <1>1. assembled \subseteq Decoders
        BY DEF TypeInv, HistoryInv, Decoders
    <1>2. WaitingInv'
        <2> SUFFICES ASSUME NEW c \in Connections, NEW d \in Decoders, Waiting(c, d)'
                     PROVE  /\ Collected(d)' /\ Conn(d.header) = c
                            /\ \A e \in assembled : Separate(d, e)
                            /\ \A b \in Connections \ {c}, e \in Decoders :
                                  Waiting(b, e)' => Separate(d, e)
            BY DEF WaitingInv, Conn, Separate
        <2>1. Waiting(c, d) /\ Collected(d)
            BY DEF AssemblyInv, WaitingInv
        <2>2. Collected(d)'
            BY <2>1, CollectedStays
        <2> QED
            BY <2>1, <2>2 DEF AssemblyInv, WaitingInv
    <1>3. CompleteInv'
        <2>1. \A d \in assembled : Collected(d)'
            BY <1>1, CollectedStays DEF AssemblyInv, CompleteInv
        <2>2. \A d \in assembled : CanCollect(d)'
            BY DEF AssemblyInv, CompleteInv, CanCollect
        <2> QED
            BY <2>1, <2>2 DEF AssemblyInv, CompleteInv, Separate
    <1> QED
        BY <1>2, <1>3 DEF AssemblyInv

\* A new decoder, which no other has anything in common with.
LEMMA AssemblySet ==
    ASSUME TypeInv, AssemblyInv, NEW t \in Tasks, SetDecoder(t)
    PROVE  AssemblyInv'
    <1> DEFINE new == [header |-> t, buffer |-> <<>>]
    <1>1. pc[t] = "set_decoder" /\ Goto(t, "done") /\ UNCHANGED <<event, assembled>>
        BY DEF SetDecoder, inputs, history
    <1>2. pc'[t] = "done" /\ \A u \in Tasks \ {t} : pc'[u] = pc[u]
        BY <1>1 DEF Goto, TypeInv, PlaceInv
    <1>3. Conn(t) \in Connections /\ Kind(t) = "header" /\ pc[t] \notin Finished
        BY <1>1, PlaceFacts DEF Finished
    <1>4. CASE UNCHANGED connections
        BY <1>1, <1>2, <1>3, <1>4, AssemblyFrame DEF Waiting
    <1>5. ASSUME NEW conn \in connections[Conn(t)],
                 connections' = [connections EXCEPT ![Conn(t)] = {[conn EXCEPT !.decoder = {new}]}]
          PROVE  AssemblyInv'
        <2>1. /\ <<>> \in Seq(Tasks) /\ Len(<<>>) = 0
            OBVIOUS
        <2>2. new \in Decoders /\ new.header = t /\ Len(new.buffer) = 0
            BY <2>1 DEF Decoders
        <2> HIDE DEF new
        <2> DEFINE after == [conn EXCEPT !.decoder = {new}]
        <2>3. after.decoder = {new}
            BY <1>3, <1>5, ConnectionFacts DEF ConnectionType
        <2>4. /\ connections'[Conn(t)] = {after}
              /\ \A c \in Connections \ {Conn(t)} : connections'[c] = connections[c]
            BY <1>3, <1>5 DEF TypeInv, ConnectionsInv
        <2> HIDE DEF after
        <2>5. \A c \in Connections, d \in Decoders :
                  IF c = Conn(t) THEN Waiting(c, d)' <=> d = new
                                 ELSE Waiting(c, d)' <=> Waiting(c, d)
            BY <1>1, <2>3, <2>4 DEF Waiting, Conn
        <2>6. assembled \subseteq Decoders
            BY DEF TypeInv, HistoryInv, Decoders
        <2>7. ASSUME NEW e \in Decoders, Collected(e)
              PROVE  Collected(e)' /\ Separate(new, e) /\ Separate(e, new)
            <3>1. Collected(e)' /\ e.header # t
                BY <1>1, <1>2, <1>3, <2>7, CollectedStays
            <3>2. Separate(new, e)
                BY <2>2, <3>1 DEF Separate
            <3> QED
                BY <2>2, <3>1, <3>2, SeparateBoth
        <2>8. Collected(new)'
            BY <1>1, <1>2, <1>3, <2>2 DEF Collected, Kind, Finished
        <2>9. WaitingInv'
            <3> SUFFICES ASSUME NEW c \in Connections, NEW d \in Decoders, Waiting(c, d)'
                         PROVE  /\ Collected(d)' /\ Conn(d.header) = c
                                /\ \A e \in assembled : Separate(d, e)
                                /\ \A b \in Connections \ {c}, e \in Decoders :
                                      Waiting(b, e)' => Separate(d, e)
                BY <1>1 DEF WaitingInv, Conn, Separate
            <3>1. CASE c = Conn(t)
                <4>1. d = new
                    BY <2>5, <3>1
                <4> QED
                    BY <2>2, <2>5, <2>6, <2>7, <2>8, <3>1, <4>1 DEF AssemblyInv, WaitingInv, CompleteInv
            <3>2. CASE c # Conn(t)
                <4>1. Waiting(c, d)
                    BY <2>5, <3>2
                <4>2. /\ Collected(d) /\ Conn(d.header) = c
                      /\ \A e \in assembled : Separate(d, e)
                      /\ \A b \in Connections \ {c}, e \in Decoders :
                            Waiting(b, e) => Separate(d, e)
                    BY <4>1 DEF AssemblyInv, WaitingInv
                <4> QED
                    BY <1>3, <2>5, <2>7, <4>2
            <3> QED
                BY <3>1, <3>2
        <2>10. CompleteInv'
            <3>1. \A d \in assembled : Collected(d)' /\ CanCollect(d)'
                BY <1>1, <2>6, <2>7 DEF AssemblyInv, CompleteInv, CanCollect
            <3> QED
                BY <1>1, <3>1 DEF AssemblyInv, CompleteInv, Separate
        <2> QED
            BY <2>9, <2>10 DEF AssemblyInv
    <1> QED
        BY <1>4, <1>5, SetDecoderFacts

\* A decoder that an attachment was added to: what was separate from it is
\* separate from it still, since the attachment's task is not over yet.
LEMMA FullFacts ==
    ASSUME TypeInv, NEW t \in Tasks, Kind(t) = "binary", pc[t] \notin Finished,
           pc'[t] \in Finished, UNCHANGED event, \A u \in Tasks \ {t} : pc'[u] = pc[u],
           NEW d \in Decoders, Collected(d), NEW full \in Decoders,
           full.header = d.header, full.buffer = Append(d.buffer, t)
    PROVE  /\ Collected(full)'
           /\ \A e \in Decoders : Collected(e) /\ Separate(d, e) =>
                 Collected(e)' /\ Separate(full, e) /\ Separate(e, full)
    <1> DEFINE n == Len(d.buffer)
    <1>1. /\ d.buffer \in Seq(Tasks) /\ n \in Nat /\ d.header \in Tasks
          /\ Len(full.buffer) = n + 1 /\ full.buffer[n + 1] = t
          /\ \A i \in 1 .. n : full.buffer[i] = d.buffer[i]
        BY DEF Decoders
    <1>2. /\ Collected(d)' /\ d.header # t /\ \A i \in 1 .. n : d.buffer[i] # t
        BY CollectedStays
    <1>3. \A i \in 1 .. (n + 1) : i \in 1 .. n \/ i = n + 1
        BY <1>1
    <1>4. Collected(full)'
        <2>1. /\ Kind(d.header)' = "header" /\ pc'[d.header] \in Finished
              /\ \A i \in 1 .. n : Kind(d.buffer[i])' = "binary" /\ pc'[d.buffer[i]] \in Finished
              /\ \A i, j \in 1 .. n : i # j => d.buffer[i] # d.buffer[j]
            BY <1>2 DEF Collected, Kind, Finished
        <2>2. \A i \in 1 .. (n + 1) :
                 Kind(full.buffer[i])' = "binary" /\ pc'[full.buffer[i]] \in Finished
            BY <1>1, <1>3, <2>1 DEF Kind
        <2>3. \A i, j \in 1 .. (n + 1) : i # j => full.buffer[i] # full.buffer[j]
            BY <1>1, <1>2, <1>3, <2>1
        <2> QED
            BY <1>1, <2>1, <2>2, <2>3 DEF Collected, Kind, Finished
    <1>5. ASSUME NEW e \in Decoders, Collected(e), Separate(d, e)
          PROVE  Collected(e)' /\ Separate(full, e)
        <2>1. Collected(e)' /\ \A i \in 1 .. Len(e.buffer) : e.buffer[i] # t
            BY <1>5, CollectedStays
        <2>2. /\ d.header # e.header
              /\ \A i \in 1 .. n, j \in 1 .. Len(e.buffer) : d.buffer[i] # e.buffer[j]
            BY <1>5 DEF Separate
        <2>3. \A i \in 1 .. (n + 1), j \in 1 .. Len(e.buffer) : full.buffer[i] # e.buffer[j]
            BY <1>1, <1>3, <2>1, <2>2
        <2> QED
            BY <1>1, <2>1, <2>2, <2>3 DEF Separate
    <1> QED
        BY <1>4, <1>5, SeparateBoth

\* The decoder an attachment is for is taken out: it is put back fuller, or
\* the packet is complete, or what was in it is lost.
LEMMA AssemblyDecode ==
    ASSUME TypeInv, AssemblyInv, NEW t \in Tasks, DecodeBinary(t)
    PROVE  AssemblyInv'
    <1>1. pc[t] = "decode" /\ Kind(t) = "binary" /\ UNCHANGED event
        BY PlaceFacts DEF DecodeBinary, inputs
    <1>2. PICK c : c = Conn(t)
        OBVIOUS
    <1> DEFINE Did(conn, d, full, left) ==
                   /\ c \in Connections /\ d \in Decoders
                   /\ full.header = d.header /\ full.buffer = Append(d.buffer, t)
                   /\ connections' = [connections EXCEPT ![c] = {[conn EXCEPT !.decoder = left]}]
                   /\ assembled' = assembled \/ (/\ assembled' = assembled \cup {full}
                                                 /\ left = {} /\ CanCollect(full))
                   /\ \E l \in {"done", "panicked"} : Goto(t, l)
    <1>3. PICK conn \in connections[c] : \E d \in conn.decoder :
             \E full \in Decoders : \E left \in SUBSET {full} : Did(conn, d, full, left)
        BY <1>2, DecodeFacts DEF Decoders
    <1>4. PICK d \in conn.decoder, full \in Decoders :
             \E left \in SUBSET {full} : Did(conn, d, full, left)
        BY <1>3
    <1>5. PICK left \in SUBSET {full} : Did(conn, d, full, left)
        BY <1>4
    <1>6. /\ pc[t] \notin Finished /\ pc'[t] \in Finished
          /\ \A u \in Tasks \ {t} : pc'[u] = pc[u]
        BY <1>1, <1>5 DEF Goto, TypeInv, PlaceInv, Finished
    <1>7. Waiting(c, d)
        BY <1>4, <1>5, <1>5 DEF Waiting
    <1>8. /\ Collected(d) /\ Conn(d.header) = c
          /\ \A e \in assembled : Separate(d, e)
          /\ \A b \in Connections \ {c}, e \in Decoders : Waiting(b, e) => Separate(d, e)
        BY <1>4, <1>5, <1>7 DEF AssemblyInv, WaitingInv
    <1>9. Conn(full.header)' = c /\ \A e \in Decoders : Conn(e.header)' = Conn(e.header)
        BY <1>1, <1>4, <1>5, <1>8 DEF Conn
    <1>10. /\ Collected(full)'
          /\ \A e \in Decoders : Collected(e) /\ Separate(d, e) =>
                Collected(e)' /\ Separate(full, e) /\ Separate(e, full)
        BY <1>1, <1>4, <1>5, <1>6, <1>8, FullFacts
    <1>11. assembled \subseteq Decoders /\ \A e \in assembled : Collected(e) /\ CanCollect(e)
        BY DEF TypeInv, HistoryInv, Decoders, AssemblyInv, CompleteInv
    <1>12. \A e \in Decoders : Collected(e) => Collected(e)'
        BY <1>1, <1>6, CollectedStays
    <1>13. \A b \in Connections, e \in Decoders : Waiting(b, e)' =>
              IF b = c THEN e = full /\ full \in left ELSE Waiting(b, e)
        <2> DEFINE after == [conn EXCEPT !.decoder = left]
        <2>1. after.decoder = left
            BY <1>4, <1>5, ConnectionFacts DEF ConnectionType
        <2>2. /\ connections'[c] = {after}
              /\ \A b \in Connections \ {c} : connections'[b] = connections[b]
            BY <1>4, <1>5, <1>5 DEF TypeInv, ConnectionsInv
        <2> HIDE DEF after
        <2> QED
            BY <1>4, <1>5, <2>1, <2>2 DEF Waiting
    <1>14. WaitingInv'
        <2> SUFFICES ASSUME NEW b \in Connections, NEW e \in Decoders, Waiting(b, e)'
                     PROVE  /\ Collected(e)' /\ Conn(e.header) = b
                            /\ \A f \in assembled' : Separate(e, f)
                            /\ \A a \in Connections \ {b}, f \in Decoders :
                                  Waiting(a, f)' => Separate(e, f)
            BY <1>9 DEF WaitingInv, Separate
        <2>1. CASE b = c
            <3>1. e = full /\ full \in left /\ assembled' = assembled
                BY <1>4, <1>5, <1>13, <2>1
            <3>2. \A a \in Connections \ {c}, f \in Decoders : Waiting(a, f)' => Waiting(a, f)
                BY <1>13
            <3>3. \A a \in Connections, f \in Decoders : Waiting(a, f) => Collected(f)
                BY DEF AssemblyInv, WaitingInv
            <3>4. \A f \in assembled : Separate(full, f)
                BY <1>8, <1>10, <1>11
            <3>5. \A a \in Connections \ {c}, f \in Decoders : Waiting(a, f)' => Separate(full, f)
                BY <1>8, <1>10, <3>2, <3>3
            <3>6. Collected(full)' /\ Conn(full.header) = c
                BY <1>4, <1>5, <1>8, <1>10
            <3> QED
                BY <2>1, <3>1, <3>4, <3>5, <3>6
        <2>2. CASE b # c
            <3>1. Waiting(b, e)
                BY <1>13, <2>2
            <3>2. /\ Collected(e) /\ Conn(e.header) = b
                  /\ \A f \in assembled : Separate(e, f)
                  /\ \A a \in Connections \ {b}, f \in Decoders : Waiting(a, f) => Separate(e, f)
                BY <3>1 DEF AssemblyInv, WaitingInv
            <3>3. Separate(d, e)
                BY <1>8, <2>2, <3>1
            <3>4. Collected(e)' /\ Separate(e, full)
                BY <1>10, <3>2, <3>3
            <3>5. \A f \in assembled' : Separate(e, f)
                BY <1>4, <1>5, <3>2, <3>4
            <3>6. \A a \in Connections \ {b}, f \in Decoders : Waiting(a, f)' => Separate(e, f)
                BY <1>13, <3>2, <3>4
            <3> QED
                BY <3>2, <3>4, <3>5, <3>6
        <2> QED
            BY <2>1, <2>2
    <1>15. CompleteInv'
        <2>1. \A e \in assembled' : Collected(e)' /\ CanCollect(e)
            BY <1>4, <1>5, <1>10, <1>11, <1>12
        <2>2. \A e, f \in assembled : e # f => Separate(e, f)
            BY DEF AssemblyInv, CompleteInv
        <2>3. \A e \in assembled : Separate(full, e) /\ Separate(e, full)
            BY <1>8, <1>10, <1>11
        <2>4. \A e, f \in assembled' : e # f => Separate(e, f)
            BY <1>4, <1>5, <2>2, <2>3
        <2> QED
            BY <1>1, <2>1, <2>4 DEF CompleteInv, CanCollect, Separate
    <1> QED
        BY <1>14, <1>15 DEF AssemblyInv

\* No other step puts a decoder into a Connection.
LEMMA NoNewDecoder ==
    ASSUME TypeInv, RouteInv, NEW t \in Tasks,
           \/ UNCHANGED connections
           \/ AddToNamespace(t) \/ InsertConnection(t) \/ RemoveConnection(t)
    PROVE  \A b \in Connections : \A e : Waiting(b, e)' => Waiting(b, e)
    <1> DEFINE c == Conn(t)
    <1>1. connections \in [Connections -> SUBSET ConnectionType]
        BY DEF TypeInv, ConnectionsInv
    <1>2. CASE UNCHANGED connections
        BY <1>2 DEF Waiting
    <1>3. CASE AddToNamespace(t)
        <2>1. c \in Connections
            BY <1>3, PlaceFacts DEF AddToNamespace, Connecting
        <2>2. PICK conn \in connections[c] :
                connections' = [connections EXCEPT ![c] = {[conn EXCEPT !.sockets = @ \cup {t}]}]
            BY <1>3, RouteAdd
        <2> DEFINE after == [conn EXCEPT !.sockets = @ \cup {t}]
        <2>3. after.decoder = conn.decoder
            BY <2>1, ConnectionFacts DEF ConnectionType
        <2>4. connections'[c] = {after} /\ \A b \in Connections \ {c} : connections'[b] = connections[b]
            BY <1>1, <2>1, <2>2
        <2> HIDE DEF after, c
        <2> QED
            BY <2>2, <2>3, <2>4 DEF Waiting
    <1>4. CASE InsertConnection(t)
        <2>1. c \in Connections /\ held[t] = {NewConnection(t)}
            BY <1>4, PlaceFacts DEF InsertConnection, Connecting, RouteInv, OwnInv
        <2>2. /\ connections'[c] = {NewConnection(t)}
              /\ \A b \in Connections \ {c} : connections'[b] = connections[b]
            BY <1>1, <1>4, <2>1 DEF InsertConnection
        <2>3. NewConnection(t).decoder = {}
            BY DEF NewConnection
        <2> HIDE DEF c
        <2> QED
            BY <2>2, <2>3 DEF Waiting
    <1>5. CASE RemoveConnection(t)
        <2>1. c \in Connections
            BY <1>5, PlaceFacts DEF RemoveConnection
        <2>2. connections'[c] = {} /\ \A b \in Connections \ {c} : connections'[b] = connections[b]
            BY <1>1, <1>5, <2>1 DEF RemoveConnection
        <2> HIDE DEF c
        <2> QED
            BY <2>2 DEF Waiting
    <1> QED
        BY <1>2, <1>3, <1>4, <1>5

\* AssemblyInv is inductive relative to TypeInv and RouteInv.
LEMMA AssemblyNext ==
    ASSUME TypeInv, RouteInv, AssemblyInv, [Next]_vars
    PROVE  AssemblyInv'
    <1>1. ASSUME NEW t \in Tasks, Start(t) \/ TaskStep(t)
          PROVE  AssemblyInv'
        <2>1. /\ pc[t] \notin Finished /\ UNCHANGED event
              /\ \A u \in Tasks \ {t} : pc'[u] = pc[u]
            <3>1. CASE Start(t)
                BY <3>1, StartFacts DEF Finished
            <3>2. CASE TaskStep(t)
                BY <3>2, StepMoves DEF Running
            <3> QED
                BY <1>1, <3>1, <3>2
        <2>2. ASSUME UNCHANGED assembled,
                     \/ UNCHANGED connections
                     \/ AddToNamespace(t) \/ InsertConnection(t) \/ RemoveConnection(t)
              PROVE  AssemblyInv'
            BY <2>1, <2>2, NoNewDecoder, AssemblyFrame
        <2>3. CASE Start(t) \/ Plain(t) \/ NamespaceStep(t) \/ InsertSimpleNamespace(t)
            <3>1. UNCHANGED <<connections, assembled>>
                BY <2>3, PlainFacts DEF Start, NamespaceStep, GetNamespace, CreateNamespace,
                   MakeDynamicNamespace, InsertSimpleNamespace, maps, history
            <3> QED
                BY <2>2, <3>1
        <2>4. CASE Initialize(t) \/ InsertLookup(t) \/ RemoveSockets(t)
            <3>1. UNCHANGED <<connections, assembled>>
                BY <2>4 DEF Initialize, InsertLookup, RemoveSockets, maps, history
            <3> QED
                BY <2>2, <3>1
        <2>5. CASE AddToNamespace(t) \/ InsertConnection(t) \/ RemoveConnection(t)
            <3>1. UNCHANGED assembled
                BY <2>5 DEF AddToNamespace, InsertConnection, RemoveConnection, history
            <3> QED
                BY <2>2, <2>5, <3>1
        <2> QED
            BY <1>1, <2>3, <2>4, <2>5, AssemblySet, AssemblyDecode
            DEF TaskStep, ConnectStep, CloseStep, PacketStep, Plain
    <1>2. CASE UNCHANGED <<maps, spaces, event, pc, locals, history>>
        <2>1. UNCHANGED <<connections, assembled, event, pc>>
            BY <1>2 DEF maps, history
        <2>2. /\ \A d \in Decoders : Collected(d)' <=> Collected(d)
              /\ \A c, d : Waiting(c, d)' <=> Waiting(c, d)
            BY <2>1 DEF Collected, Waiting, Kind
        <2>3. assembled \subseteq Decoders
            BY DEF TypeInv, HistoryInv, Decoders
        <2>4. WaitingInv'
            BY <2>1, <2>2 DEF AssemblyInv, WaitingInv, Conn, Separate
        <2>5. CompleteInv'
            BY <2>1, <2>2, <2>3 DEF AssemblyInv, CompleteInv, CanCollect, Separate
        <2> QED
            BY <2>4, <2>5 DEF AssemblyInv
    <1> QED
        BY <1>1, <1>2, NextIs

\* Nothing was decoded.
LEMMA AssemblyInit ==
    ASSUME Init
    PROVE  AssemblyInv
    BY DEF Init, AssemblyInv, WaitingInv, CompleteInv, Waiting

\* A sequence without repetitions has as many members as places.
LEMMA MembersAreMany ==
    ASSUME NEW S, NEW s \in Seq(S),
           \A i, j \in 1 .. Len(s) : i # j => s[i] # s[j]
    PROVE  Cardinality({s[i] : i \in DOMAIN s}) = Len(s)
    <1> DEFINE n == Len(s)
               P == {s[i] : i \in DOMAIN s}
               f == [i \in 1 .. n |-> s[i]]
    <1>1. n \in Nat /\ DOMAIN s = 1 .. n
        OBVIOUS
    <1>2. IsFiniteSet(1 .. n) /\ Cardinality(1 .. n) = n
        <2> HIDE DEF n
        <2>1. IsFiniteSet(1 .. n) /\ Cardinality(1 .. n) = IF 1 > n THEN 0 ELSE n - 1 + 1
            BY <1>1, FS_Interval
        <2> QED
            BY <1>1, <2>1
    <1>3. f \in Bijection(1 .. n, P)
        <2>1. f \in [1 .. n -> P] /\ \A p \in P : \E i \in 1 .. n : f[i] = p
            BY <1>1
        <2>2. \A i, j \in 1 .. n : i # j => f[i] # f[j]
            BY <1>1
        <2> HIDE DEF f, n, P
        <2> QED
            BY <2>1, <2>2 DEF Bijection, Injection, Surjection, IsInjective
    <1>4. ExistsBijection(1 .. n, P)
        BY <1>3 DEF ExistsBijection
    <1> HIDE DEF n, P
    <1>5. Cardinality(P) = n
        BY <1>2, <1>4, FS_Bijection
    <1> QED
        BY <1>5 DEF n, P

\* The invariants behind AssembledAtMostOnce.
LEMMA AssemblyAlways == Spec => [](TypeInv /\ RouteInv /\ AssemblyInv)
    <1>1. Init => TypeInv /\ RouteInv /\ AssemblyInv
        BY TypeInit, RouteInit, AssemblyInit
    <1>2. TypeInv /\ RouteInv /\ AssemblyInv /\ [Next]_vars
            => (TypeInv /\ RouteInv /\ AssemblyInv)'
        BY TypeNext, RouteNext, AssemblyNext
    <1> QED
        BY <1>1, <1>2, PTL DEF Spec

\* What `decode_binary_data` puts together has as many attachments as its
\* header announced, and no attachment is part of two packets nor of one that
\* is complete and one that is not.
THEOREM AssembledAtMostOnce == Spec => []AssembledOnce
    <1>1. TypeInv /\ AssemblyInv => AssembledOnce
        <2> SUFFICES ASSUME TypeInv, AssemblyInv
                     PROVE  AssembledOnce
            OBVIOUS
        <2> DEFINE waiting == UNION {conn.decoder :
                                  conn \in UNION {connections[c] : c \in Connections}}
                   Parts(d) == {d.buffer[i] : i \in DOMAIN d.buffer}
        <2>1. /\ assembled \subseteq Decoders
              /\ \A d \in assembled : Collected(d) /\ CanCollect(d)
              /\ \A d, e \in assembled : d # e => Separate(d, e)
            BY DEF TypeInv, HistoryInv, Decoders, AssemblyInv, CompleteInv
        <2>2. \A d \in waiting : \E c \in Connections : Waiting(c, d)
            BY DEF Waiting
        <2>3. \A d \in Decoders :
                 DOMAIN d.buffer = 1 .. Len(d.buffer) /\ d.buffer \in Seq(Tasks)
            BY DEF Decoders
        <2>4. ASSUME NEW d \in assembled
              PROVE  Cardinality(Parts(d)) = event[d.header].attachments
            <3>1. /\ d.buffer \in Seq(Tasks) /\ Len(d.buffer) = event[d.header].attachments
                  /\ \A i, j \in 1 .. Len(d.buffer) : i # j => d.buffer[i] # d.buffer[j]
                BY <2>1, <2>3 DEF Collected, CanCollect
            <3> QED
                BY <3>1, MembersAreMany
        <2>5. \A d, e \in Decoders : Separate(d, e) =>
                 d.header # e.header /\ Parts(d) \cap Parts(e) = {}
            BY <2>3 DEF Separate
        <2>6. ASSUME NEW d \in waiting, NEW e \in assembled \cup waiting, d # e
              PROVE  d \in Decoders /\ e \in Decoders /\ Separate(d, e)
            <3> HIDE DEF waiting
            <3>1. PICK c \in Connections : Waiting(c, d)
                BY <2>2
            <3>2. d \in Decoders /\ \A f : Waiting(c, f) => f = d
                BY <3>1, WaitingFacts
            <3>3. /\ \A f \in assembled : Separate(d, f)
                  /\ \A b \in Connections \ {c}, f \in Decoders : Waiting(b, f) => Separate(d, f)
                BY <3>1, <3>2 DEF AssemblyInv, WaitingInv
            <3>4. ASSUME e \in waiting
                  PROVE  e \in Decoders /\ Separate(d, e)
                <4>1. PICK b \in Connections : Waiting(b, e)
                    BY <2>2, <3>4
                <4>2. e \in Decoders
                    BY <4>1, WaitingFacts
                <4> QED
                    BY <2>6, <3>2, <3>3, <4>1, <4>2
            <3> QED
                BY <2>1, <2>6, <3>2, <3>3, <3>4
        <2>7. ASSUME NEW d \in assembled \cup waiting, NEW e \in assembled \cup waiting, d # e
              PROVE  d.header # e.header /\ Parts(d) \cap Parts(e) = {}
            <3> HIDE DEF waiting
            <3>1. d \in Decoders /\ e \in Decoders /\ Separate(d, e)
                BY <2>1, <2>6, <2>7, SeparateBoth
            <3> QED
                BY <2>5, <3>1
        <2> QED
            BY <2>4, <2>7 DEF AssembledOnce
    <1> QED
        BY <1>1, AssemblyAlways, PTL

===============================================================================
