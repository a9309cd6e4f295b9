----------------------------- MODULE Namespaces -----------------------------
(***************************************************************************)
(* The namespaces of socket_io_server (socket_io_server/src/namespace.rs): *)
(* simple namespaces, which sockets join and leave and which announce the  *)
(* sockets that join, a dynamic namespace, whose members are simple ones   *)
(* that appear while it is used, and filtered namespaces, which emit to    *)
(* rooms.  Every operation takes `&self` and may run on any thread, so     *)
(* only the single calls on a map, a channel or the storage are atomic.    *)
(*                                                                         *)
(* `Storage` is a trait and every method of `DefaultStorage` is todo!():   *)
(* the storage modelled here is any implementation that keeps the (socket, *)
(* room) pairs it is given and whose broadcast either reaches the sockets  *)
(* of the rooms, all sockets when there are no rooms, or fails.            *)
(***************************************************************************)
EXTENDS Naturals, Sequences, FiniteSets

CONSTANTS
    NspNames,     \* the simple namespaces
    Sockets,      \* the socket ids, each made once by `Socket::generate_id`
    ExtraRooms,   \* rooms other than the own room of a socket
    Dynamic,      \* the dynamic namespace
    Calls,        \* the calls that sockets joining and leaving lead to
    Emitters,     \* the application's emits, one each
    Subscribers,  \* the application's subscriptions, one each
    EventCap      \* the capacity of a namespace's event channel (128)

Rooms == Sockets \cup ExtraRooms

\* `add_socket_to_room`, which is `add_socket` when the room is the socket's
\* own, `remove_socket`, and `remove_socket_from_room`.
CallType == [op : {"add", "remove", "leave"}, nsp : NspNames, socket : Sockets,
             room : Rooms]

ASSUME NamespaceAssumption ==
    /\ Dynamic \notin NspNames
    /\ Calls \subseteq CallType
    /\ EventCap \in Nat \ {0}

VARIABLES
    nsp_members,  \* the members of the dynamic namespace
    storage,      \* the (socket, room) pairs in each namespace's storage
    nsp_ids,      \* the socket_ids of each namespace
    progress,     \* how many steps of each call are done
    feed,         \* the receiver of each subscription
    heard,        \* the (namespace, socket) connections each was told of
    emit          \* each emit: its target and rooms, where it is, and history

nspVars == <<nsp_members, storage, nsp_ids, progress, feed, heard, emit>>

NoFeed == [of |-> {}, queue |-> <<>>, lagged |-> FALSE]

\* `always` and `ever` are history: who was in the audience from the start
\* of the call to now, and who has been in it at some time of the call.
NewEmit(target) ==
    [target |-> target, rooms |-> {}, at |-> "ready", start |-> {}, visited |-> {},
     got |-> {}, always |-> {}, ever |-> {}]

NspInit ==
    /\ nsp_members = {}
    /\ storage = [n \in NspNames |-> {}]
    /\ nsp_ids = [n \in NspNames |-> {}]
    /\ progress = [c \in Calls |-> 0]
    /\ feed = [u \in Subscribers |-> NoFeed]
    /\ heard = [u \in Subscribers |-> {}]
    /\ emit \in [Emitters -> {NewEmit(x) : x \in NspNames \cup {Dynamic}}]

(***************************************************************************)
(* The audience of an emit: the sockets in one of its rooms, or all.       *)
(***************************************************************************)
InRooms(pairs, rooms) ==
    {s \in Sockets : \E r \in Rooms : <<s, r>> \in pairs /\ (rooms = {} \/ r \in rooms)}

Targets(e) == IF emit[e].target = Dynamic THEN nsp_members ELSE {emit[e].target}

Audience(st, names, rooms) ==
    UNION {{n} \X InRooms(st[n], rooms) : n \in names}

\* The history of the emits under way when the storage becomes st and the
\* members of the dynamic namespace become ms.
Watch(st, ms) ==
    [e \in Emitters |->
        LET names == IF emit[e].target = Dynamic THEN ms ELSE {emit[e].target}
            now == Audience(st, names, emit[e].rooms)
        IN IF emit[e].at # "broadcast" THEN emit[e]
           ELSE [emit[e] EXCEPT !.always = @ \cap now, !.ever = @ \cup now]]

(***************************************************************************)
(* Sockets join and leave.                                                 *)
(***************************************************************************)
\* Faulty: a socket is announced before it is in the storage.
StepsAnnounceFirst ==
    [add |-> <<"announce", "add_all", "insert">>,
     remove |-> <<"remove", "del">>, leave |-> <<"del">>]

\* The calls that `add_socket_to_room`, `remove_socket` and
\* `remove_socket_from_room` make, in their order.
Steps ==
    [add |-> <<"add_all", "insert", "announce">>,
     remove |-> <<"remove", "del">>, leave |-> <<"del">>]

Began(c) == progress[c] > 0
Done(c) == progress[c] = Len(Steps[c.op])

\* `add_socket`.  The id is new, and known to no one else before it is done.
IsJoin(c) == c.op = "add" /\ c.room = c.socket
Known(c) == \E j \in Calls :
    IsJoin(j) /\ j.nsp = c.nsp /\ j.socket = c.socket /\ Done(j)

Step(c, step) ==
    /\ ~Done(c)
    /\ Steps[c.op][progress[c] + 1] = step
    /\ IsJoin(c) \/ Known(c)
    /\ progress' = [progress EXCEPT ![c] = @ + 1]

AddAll(c) ==
    /\ Step(c, "add_all")
    /\ storage' = [storage EXCEPT ![c.nsp] = @ \cup {<<c.socket, c.room>>}]
    /\ emit' = Watch(storage', nsp_members)
    /\ UNCHANGED <<nsp_members, nsp_ids, feed, heard>>

InsertId(c) ==
    /\ Step(c, "insert")
    /\ nsp_ids' = [nsp_ids EXCEPT ![c.nsp] = @ \cup {c.socket}]
    /\ UNCHANGED <<nsp_members, storage, feed, heard, emit>>

\* Faulty: a full channel grows.
PushUnbounded(f, s) == [f EXCEPT !.queue = Append(@, s)]

\* A broadcast channel: a receiver that is behind loses its oldest event.
Push(f, s) ==
    IF Len(f.queue) < EventCap
    THEN [f EXCEPT !.queue = Append(@, s)]
    ELSE [f EXCEPT !.queue = Append(Tail(@), s), !.lagged = TRUE]

SendEvent(c) ==
    /\ Step(c, "announce")
    /\ feed' = [u \in Subscribers |-> IF c.nsp \in feed[u].of
                                      THEN Push(feed[u], c.socket) ELSE feed[u]]
    /\ UNCHANGED <<nsp_members, storage, nsp_ids, heard, emit>>

RemoveId(c) ==
    /\ Step(c, "remove")
    /\ nsp_ids' = [nsp_ids EXCEPT ![c.nsp] = @ \ {c.socket}]
    /\ UNCHANGED <<nsp_members, storage, feed, heard, emit>>

\* `remove_socket` deletes the own room only.
Del(c) ==
    /\ Step(c, "del")
    /\ storage' = [storage EXCEPT ![c.nsp] = @ \ {<<c.socket, c.room>>}]
    /\ emit' = Watch(storage', nsp_members)
    /\ UNCHANGED <<nsp_members, nsp_ids, feed, heard>>

(***************************************************************************)
(* Subscriptions.  Nothing is ever sent to the dynamic namespace's own     *)
(* channel.                                                                *)
(***************************************************************************)
SubscribeTo(u, target) ==
    /\ feed[u].of = {}
    /\ feed' = [feed EXCEPT ![u].of = {target}]
    /\ UNCHANGED <<nsp_members, storage, nsp_ids, progress, heard, emit>>

\* The next event, or the error that says that some were lost.
Recv(u) ==
    /\ feed[u].queue # <<>>
    /\ IF feed[u].lagged
       THEN feed' = [feed EXCEPT ![u].lagged = FALSE] /\ UNCHANGED heard
       ELSE /\ feed' = [feed EXCEPT ![u].queue = Tail(@)]
            /\ heard' = [heard EXCEPT ![u] =
                  @ \cup (feed[u].of \X {Head(feed[u].queue)})]
    /\ UNCHANGED <<nsp_members, storage, nsp_ids, progress, emit>>

(***************************************************************************)
(* Members and emits.                                                      *)
(***************************************************************************)
AddMember(n) ==
    /\ n \notin nsp_members
    /\ nsp_members' = nsp_members \cup {n}
    /\ emit' = Watch(storage, nsp_members')
    /\ UNCHANGED <<storage, nsp_ids, progress, feed, heard>>

\* `Namespace::to`, `Namespace::filter` and `FilteredNamespace::to`: the
\* handle that is returned has this one room, whatever it had before.
To(e, r) ==
    /\ emit[e].at = "ready"
    /\ emit[e].rooms # {r}
    /\ emit' = [emit EXCEPT ![e].rooms = {r}]
    /\ UNCHANGED <<nsp_members, storage, nsp_ids, progress, feed, heard>>

\* `FilteredNamespace::add_room`.
AddRoom(e, r) ==
    /\ emit[e].at = "ready"
    /\ emit[e].rooms # {}
    /\ r \notin emit[e].rooms
    /\ emit' = [emit EXCEPT ![e].rooms = @ \cup {r}]
    /\ UNCHANGED <<nsp_members, storage, nsp_ids, progress, feed, heard>>

\* Only a filtered namespace looks at the event's name.
EmptyEventName(e) ==
    /\ emit[e].at = "ready"
    /\ emit[e].rooms # {}
    /\ emit' = [emit EXCEPT ![e].at = "empty_name"]
    /\ UNCHANGED <<nsp_members, storage, nsp_ids, progress, feed, heard>>

\* `emit`, `emit_with_flags`, `send`, `send_with_flags` up to the storages.
EmitWithFlags(e) ==
    /\ emit[e].at = "ready"
    /\ LET now == Audience(storage, Targets(e), emit[e].rooms) IN
       emit' = [emit EXCEPT ![e].at = "broadcast", ![e].start = Targets(e),
                            ![e].always = now, ![e].ever = now]
    /\ UNCHANGED <<nsp_members, storage, nsp_ids, progress, feed, heard>>

\* Faulty: a dynamic namespace does not pass the rooms on.
BroadcastRoomsOfSimple(e) == IF emit[e].target = Dynamic THEN {} ELSE emit[e].rooms

\* The rooms that the storage is given.
BroadcastRooms(e) == emit[e].rooms

\* The packet carries the name of the member, whatever the rooms.
MakePacketForEvent(n, sockets) == {<<n, s>> : s \in sockets}

\* The members come in any order; one inserted during the iteration may be
\* seen or not.
Visit(e, n) ==
    /\ emit[e].at = "broadcast"
    /\ n \in Targets(e) \ emit[e].visited
    /\ emit' = [emit EXCEPT
          ![e].visited = @ \cup {n},
          ![e].got = @ \cup MakePacketForEvent(n, InRooms(storage[n], BroadcastRooms(e)))]
    /\ UNCHANGED <<nsp_members, storage, nsp_ids, progress, feed, heard>>

\* Faulty: the error of one storage is dropped and the iteration goes on.
BroadcastErrorIgnored(e, n) ==
    /\ emit[e].at = "broadcast"
    /\ n \in Targets(e) \ emit[e].visited
    /\ emit' = [emit EXCEPT ![e].visited = @ \cup {n}]
    /\ UNCHANGED <<nsp_members, storage, nsp_ids, progress, feed, heard>>

\* `try_for_each`: the first error ends the iteration and is returned.
BroadcastError(e, n) ==
    /\ emit[e].at = "broadcast"
    /\ n \in Targets(e) \ emit[e].visited
    /\ emit' = [emit EXCEPT ![e].at = "failed"]
    /\ UNCHANGED <<nsp_members, storage, nsp_ids, progress, feed, heard>>

ReturnOk(e) ==
    /\ emit[e].at = "broadcast"
    /\ emit[e].start \subseteq emit[e].visited
    /\ emit' = [emit EXCEPT ![e].at = "ok"]
    /\ UNCHANGED <<nsp_members, storage, nsp_ids, progress, feed, heard>>

NspNext ==
    \/ \E c \in Calls : AddAll(c) \/ InsertId(c) \/ SendEvent(c) \/ RemoveId(c) \/ Del(c)
    \/ \E u \in Subscribers, x \in NspNames \cup {Dynamic} : SubscribeTo(u, x)
    \/ \E u \in Subscribers : Recv(u)
    \/ \E n \in NspNames : AddMember(n)
    \/ \E e \in Emitters, r \in Rooms : To(e, r) \/ AddRoom(e, r)
    \/ \E e \in Emitters : EmptyEventName(e) \/ EmitWithFlags(e) \/ ReturnOk(e)
    \/ \E e \in Emitters, n \in NspNames : Visit(e, n) \/ BroadcastError(e, n)

NspSpec == NspInit /\ [][NspNext]_nspVars

(***************************************************************************)
(* Properties.                                                             *)
(***************************************************************************)
\* The types, and that a namespace's event channel keeps to its capacity
\* (namespace.rs: broadcast::channel(128)).
NspTypeOK ==
    /\ nsp_members \subseteq NspNames
    /\ storage \in [NspNames -> SUBSET (Sockets \X Rooms)]
    /\ nsp_ids \in [NspNames -> SUBSET Sockets]
    /\ \A c \in Calls : progress[c] \in 0 .. Len(Steps[c.op])
    /\ \A u \in Subscribers :
          /\ feed[u].of \subseteq NspNames \cup {Dynamic}
          /\ feed[u].queue \in Seq(Sockets) /\ Len(feed[u].queue) <= EventCap
          /\ feed[u].lagged \in BOOLEAN
    /\ heard \in [Subscribers -> SUBSET (NspNames \X Sockets)]
    /\ emit \in [Emitters ->
          [target : NspNames \cup {Dynamic}, rooms : SUBSET Rooms,
           at : {"ready", "empty_name", "broadcast", "failed", "ok"},
           start : SUBSET NspNames, visited : SUBSET NspNames,
           got : SUBSET (NspNames \X Sockets),
           always : SUBSET (NspNames \X Sockets),
           ever : SUBSET (NspNames \X Sockets)]]

\* The socket is being taken from the namespace, or was, or it left its own
\* room, which `remove_socket_from_room` allows.
Removing(n, s) == \E c \in Calls :
    /\ c.op = "remove" \/ (c.op = "leave" /\ c.room = s)
    /\ c.nsp = n /\ c.socket = s /\ Began(c)

\* An application that is told of a connection and answers at once reaches
\* the socket: from the moment `add_socket_to_room` announces it, through
\* any joining and leaving of other rooms, the socket is in its own room and
\* in `socket_ids`, until `remove_socket` is called for it or it leaves that
\* room.
AnnouncedIsReachable ==
    \A u \in Subscribers, n \in NspNames, s \in Sockets :
        /\ \/ <<n, s>> \in heard[u]
           \/ n \in feed[u].of /\ \E i \in DOMAIN feed[u].queue : feed[u].queue[i] = s
        /\ ~Removing(n, s)
        => <<s, s>> \in storage[n] /\ s \in nsp_ids[n]

\* An emit that returns Ok has reached every socket that was in its rooms
\* for the whole call, in every namespace that was a member when it began
\* (`broadcast_packet` of simple and dynamic namespaces), whatever sockets
\* and members came and went during the iteration.
OkReachesAudience ==
    \A e \in Emitters : emit[e].at = "ok" => emit[e].always \subseteq emit[e].got

\* No emit reaches a socket that was in none of its rooms at any time of the
\* call, nor under the name of another namespace (the rooms that
\* `FilteredNamespace::emit_with_flags` passes to each member's storage).
OnlyAudience == \A e \in Emitters : emit[e].got \subseteq emit[e].ever

=============================================================================
