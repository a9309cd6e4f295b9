--------------------------- MODULE NamespacesProofs ---------------------------
(***************************************************************************)
(* Theorems about Namespaces, for any namespaces, sockets, rooms, calls,   *)
(* emits and subscriptions.                                                *)
(***************************************************************************)
EXTENDS Namespaces, TLAPS

-----------------------------------------------------------------------------
(* Type correctness *)

EmitType ==
    [target : NspNames \cup {Dynamic}, rooms : SUBSET Rooms,
     at : {"ready", "empty_name", "broadcast", "failed", "ok"},
     start : SUBSET NspNames, visited : SUBSET NspNames,
     got : SUBSET (NspNames \X Sockets), always : SUBSET (NspNames \X Sockets),
     ever : SUBSET (NspNames \X Sockets)]

FeedType == [of : SUBSET (NspNames \cup {Dynamic}), queue : Seq(Sockets), lagged : BOOLEAN]

\* An event can only come from the one namespace that was subscribed to, and
\* none from the dynamic one.
FeedOK(f) ==
    /\ Len(f.queue) <= EventCap
    /\ f.of = {} \/ \E x \in NspNames \cup {Dynamic} : f.of = {x}
    /\ Len(f.queue) > 0 => \E n \in NspNames : f.of = {n}

FeedInv == \A u \in Subscribers : FeedOK(feed[u])

TypeInv ==
    /\ nsp_members \subseteq NspNames
    /\ storage \in [NspNames -> SUBSET (Sockets \X Rooms)]
    /\ nsp_ids \in [NspNames -> SUBSET Sockets]
    /\ progress \in [Calls -> Nat] /\ \A c \in Calls : progress[c] <= Len(Steps[c.op])
    /\ feed \in [Subscribers -> FeedType] /\ FeedInv
    /\ heard \in [Subscribers -> SUBSET (NspNames \X Sockets)]
    /\ emit \in [Emitters -> EmitType]

\* The parts of a call.
LEMMA CallFacts ==
    ASSUME NEW c \in Calls
    PROVE  /\ c.op \in {"add", "remove", "leave"}
           /\ c.nsp \in NspNames /\ c.socket \in Sockets /\ c.room \in Rooms
           /\ c.socket \in Rooms
    BY NamespaceAssumption DEF CallType, Rooms

\* The steps of each operation.
LEMMA StepsAre ==
    /\ Len(Steps["add"]) = 3 /\ Len(Steps["remove"]) = 2 /\ Len(Steps["leave"]) = 1
    /\ Steps["add"][1] = "add_all" /\ Steps["add"][2] = "insert"
    /\ Steps["add"][3] = "announce"
    /\ Steps["remove"][1] = "remove" /\ Steps["remove"][2] = "del"
    /\ Steps["leave"][1] = "del"
    BY DEF Steps

\* A step belongs to an operation and comes at its place.
LEMMA StepFacts ==
    ASSUME TypeInv, NEW c \in Calls, NEW step, Step(c, step)
    PROVE  /\ progress' = [progress EXCEPT ![c] = progress[c] + 1] /\ progress[c] \in Nat
           /\ progress[c] + 1 <= Len(Steps[c.op])
           /\ step = "add_all" => c.op = "add" /\ progress[c] = 0
           /\ step = "insert" => c.op = "add" /\ progress[c] = 1
           /\ step = "announce" => c.op = "add" /\ progress[c] = 2
           /\ step = "remove" => c.op = "remove" /\ progress[c] = 0
           /\ step = "del" => c.op \in {"remove", "leave"}
           /\ IsJoin(c) \/ Known(c)
    <1>1. /\ progress[c] \in Nat /\ progress[c] <= Len(Steps[c.op]) /\ progress[c] # Len(Steps[c.op])
          /\ Steps[c.op][progress[c] + 1] = step
          /\ progress' = [progress EXCEPT ![c] = progress[c] + 1]
          /\ IsJoin(c) \/ Known(c)
        BY DEF TypeInv, Step, Done
    <1>2. CASE c.op = "add"
        <2>1. progress[c] \in {0, 1, 2}
            BY <1>1, <1>2, StepsAre
        <2> QED
            BY <1>1, <1>2, <2>1, StepsAre
    <1>3. CASE c.op = "remove"
        <2>1. progress[c] \in {0, 1}
            BY <1>1, <1>3, StepsAre
        <2> QED
            BY <1>1, <1>3, <2>1, StepsAre
    <1>4. CASE c.op = "leave"
        <2>1. progress[c] = 0
            BY <1>1, <1>4, StepsAre
        <2> QED
            BY <1>1, <1>4, <2>1, StepsAre
    <1> QED
        BY <1>2, <1>3, <1>4, CallFacts

\* A call only goes on.
LEMMA PcStep ==
    ASSUME TypeInv, NEW c \in Calls, NEW step, Step(c, step)
    PROVE  /\ progress' \in [Calls -> Nat] /\ \A d \in Calls : progress'[d] <= Len(Steps[d.op])
           /\ \A d \in Calls : progress[d] <= progress'[d]
           /\ progress'[c] > 0
    <1>1. /\ progress \in [Calls -> Nat] /\ \A d \in Calls : progress[d] <= Len(Steps[d.op])
          /\ progress' = [progress EXCEPT ![c] = progress[c] + 1] /\ progress[c] + 1 <= Len(Steps[c.op])
        BY StepFacts DEF TypeInv
    <1>2. progress' \in [Calls -> Nat] /\ progress'[c] = progress[c] + 1 /\ \A d \in Calls : d # c => progress'[d] = progress[d]
        BY <1>1
    <1>3. \A d \in Calls : progress'[d] <= Len(Steps[d.op])
        BY <1>1, <1>2
    <1>4. \A d \in Calls : progress[d] <= progress'[d]
        BY <1>1, <1>2
    <1> QED
        BY <1>1, <1>2, <1>3, <1>4

\* The audience is made of pairs.
LEMMA AudienceIs ==
    ASSUME NEW st, NEW names, NEW rooms, NEW n, NEW s
    PROVE  <<n, s>> \in Audience(st, names, rooms)
             <=> n \in names /\ s \in InRooms(st[n], rooms)
    <1>1. <<n, s>> \in Audience(st, names, rooms)
            <=> \E m \in names : <<n, s>> \in {m} \X InRooms(st[m], rooms)
        BY DEF Audience
    <1>2. \A m : <<n, s>> \in {m} \X InRooms(st[m], rooms)
            <=> n = m /\ s \in InRooms(st[m], rooms)
        OBVIOUS
    <1> QED
        BY <1>1, <1>2

\* An audience lies in the namespaces asked for.
LEMMA AudienceType ==
    ASSUME NEW st, NEW names, NEW rooms
    PROVE  Audience(st, names, rooms) \subseteq names \X Sockets
    <1> SUFFICES ASSUME NEW x \in Audience(st, names, rooms) PROVE x \in names \X Sockets
        OBVIOUS
    <1>1. PICK m \in names : x \in {m} \X InRooms(st[m], rooms)
        BY DEF Audience
    <1>2. InRooms(st[m], rooms) \subseteq Sockets
        BY DEF InRooms
    <1> HIDE DEF InRooms
    <1> QED
        BY <1>1, <1>2

\* The audience of an emit as Watch computes it.
Now(m, st, ms) == Audience(st, IF m.target = Dynamic THEN ms ELSE {m.target}, m.rooms)

\* The history of the emits changes for those under way only.
LEMMA WatchFacts ==
    ASSUME NEW st, NEW ms, NEW e \in Emitters
    PROVE  /\ emit[e].at = "broadcast" =>
                Watch(st, ms)[e] =
                  [emit[e] EXCEPT !.always = emit[e].always \cap Now(emit[e], st, ms),
                                  !.ever = emit[e].ever \cup Now(emit[e], st, ms)]
           /\ emit[e].at # "broadcast" => Watch(st, ms)[e] = emit[e]
    BY DEF Watch, Now

\* It has the right type.
LEMMA WatchType ==
    ASSUME emit \in [Emitters -> EmitType], NEW st, NEW ms, ms \subseteq NspNames
    PROVE  Watch(st, ms) \in [Emitters -> EmitType]
    <1>1. ASSUME NEW e \in Emitters
          PROVE  Watch(st, ms)[e] \in EmitType
        <2> DEFINE m == emit[e]
                   now == Now(m, st, ms)
        <2>1. m \in EmitType
            OBVIOUS
        <2>2. now \subseteq NspNames \X Sockets
            <3>1. (IF m.target = Dynamic THEN ms ELSE {m.target}) \subseteq NspNames
                BY <2>1 DEF EmitType
            <3> QED
                BY <3>1, AudienceType DEF Now
        <2> HIDE DEF now
        <2>3. [m EXCEPT !.always = m.always \cap now, !.ever = m.ever \cup now] \in EmitType
            BY <2>1, <2>2 DEF EmitType
        <2>4. CASE m.at = "broadcast"
            <3>1. Watch(st, ms)[e] = [m EXCEPT !.always = m.always \cap now, !.ever = m.ever \cup now]
                BY <2>4 DEF Watch, Now, now
            <3> QED
                BY <2>3, <3>1
        <2>5. CASE m.at # "broadcast"
            BY <2>1, <2>5 DEF Watch
        <2> QED
            BY <2>4, <2>5
    <1> QED
        BY <1>1 DEF Watch

\* An emit goes to names only.
LEMMA TargetsType ==
    ASSUME TypeInv, NEW e \in Emitters
    PROVE  Targets(e) \subseteq NspNames /\ emit[e] \in EmitType
    BY DEF TypeInv, Targets, EmitType

\* Taking the first element of a sequence.
LEMMA TailFacts ==
    ASSUME NEW S, NEW s \in Seq(S), s # <<>>
    PROVE  /\ Head(s) = s[1] /\ Head(s) \in S /\ Tail(s) \in Seq(S) /\ 1 \in 1..Len(s)
           /\ Len(s) \in Nat /\ Len(Tail(s)) = Len(s) - 1 /\ Len(s) > 0
           /\ \A i \in 1..Len(Tail(s)) : Tail(s)[i] = s[i + 1] /\ i + 1 \in 1..Len(s)
    OBVIOUS

\* What an event does to the receiver of a subscription.
LEMMA PushFacts ==
    ASSUME NEW f \in FeedType, NEW s \in Sockets, Len(f.queue) <= EventCap
    PROVE  /\ Push(f, s) \in FeedType /\ Push(f, s).of = f.of
           /\ Len(Push(f, s).queue) <= EventCap
           /\ \A i \in 1..Len(Push(f, s).queue) :
                Push(f, s).queue[i] = s \/ \E j \in 1..Len(f.queue) : f.queue[j] = Push(f, s).queue[i]
    <1> USE NamespaceAssumption
    <1>0. f.queue \in Seq(Sockets) /\ Len(f.queue) \in Nat
        BY DEF FeedType
    <1> DEFINE q == IF Len(f.queue) < EventCap THEN f.queue ELSE Tail(f.queue)
    <1>1. q \in Seq(Sockets) /\ Len(q) \in Nat /\ Len(q) + 1 <= EventCap
        BY <1>0
    <1>2. \A i \in 1..Len(q) : \E j \in 1..Len(f.queue) : f.queue[j] = q[i]
        <2>1. CASE Len(f.queue) < EventCap
            BY <1>0, <2>1
        <2>2. CASE ~(Len(f.queue) < EventCap)
            <3>1. f.queue # <<>> /\ q = Tail(f.queue)
                BY <1>0, <2>2
            <3>2. \A i \in 1..Len(q) : q[i] = f.queue[i + 1] /\ i + 1 \in 1..Len(f.queue)
                BY <1>0, <3>1, TailFacts
            <3> QED
                BY <3>2
        <2> QED
            BY <2>1, <2>2
    <1>3. /\ Push(f, s).of = f.of /\ Push(f, s).queue = Append(q, s)
          /\ Push(f, s) \in FeedType
        <2>1. CASE Len(f.queue) < EventCap
            BY <1>0, <2>1 DEF Push, FeedType
        <2>2. CASE ~(Len(f.queue) < EventCap)
            <3>1. q = Tail(f.queue) /\ Append(q, s) \in Seq(Sockets)
                BY <1>1, <2>2
            <3> HIDE DEF q
            <3>2. Push(f, s) = [f EXCEPT !.queue = Append(q, s), !.lagged = TRUE]
                BY <2>2, <3>1 DEF Push
            <3> QED
                BY <3>1, <3>2 DEF FeedType
        <2> QED
            BY <2>1, <2>2
    <1> HIDE DEF q
    <1>4. /\ Len(Append(q, s)) = Len(q) + 1 /\ Append(q, s)[Len(q) + 1] = s
          /\ \A i \in 1..Len(q) : Append(q, s)[i] = q[i]
        BY <1>1
    <1>5. \A i \in 1..Len(Append(q, s)) :
            Append(q, s)[i] = s \/ \E j \in 1..Len(f.queue) : f.queue[j] = Append(q, s)[i]
        BY <1>1, <1>2, <1>4
    <1> QED
        BY <1>1, <1>3, <1>4, <1>5

\* The steps of calls keep the types.
LEMMA TypeCall ==
    ASSUME TypeInv, NEW c \in Calls,
           AddAll(c) \/ InsertId(c) \/ SendEvent(c) \/ RemoveId(c) \/ Del(c)
    PROVE  TypeInv'
    <1> USE CallFacts, NamespaceAssumption
    <1>1. CASE AddAll(c) \/ Del(c)
        <2>1. storage' \in [NspNames -> SUBSET (Sockets \X Rooms)]
            BY <1>1 DEF AddAll, Del, TypeInv
        <2>2. emit' \in [Emitters -> EmitType]
            <3>1. emit' = Watch(storage', nsp_members)
                BY <1>1 DEF AddAll, Del
            <3> QED
                BY <3>1, WatchType DEF TypeInv
        <2>3. progress' \in [Calls -> Nat] /\ \A d \in Calls : progress'[d] <= Len(Steps[d.op])
            BY <1>1, PcStep DEF AddAll, Del
        <2>4. UNCHANGED <<nsp_members, nsp_ids, feed, heard>>
            BY <1>1 DEF AddAll, Del
        <2> QED
            BY <2>1, <2>2, <2>3, <2>4 DEF TypeInv, FeedInv
    <1>2. CASE InsertId(c) \/ RemoveId(c)
        <2>1. nsp_ids' \in [NspNames -> SUBSET Sockets]
            BY <1>2 DEF InsertId, RemoveId, TypeInv
        <2>2. progress' \in [Calls -> Nat] /\ \A d \in Calls : progress'[d] <= Len(Steps[d.op])
            BY <1>2, PcStep DEF InsertId, RemoveId
        <2>3. UNCHANGED <<nsp_members, storage, feed, heard, emit>>
            BY <1>2 DEF InsertId, RemoveId
        <2> QED
            BY <2>1, <2>2, <2>3 DEF TypeInv, FeedInv
    <1>3. CASE SendEvent(c)
        <2>1. progress' \in [Calls -> Nat] /\ \A d \in Calls : progress'[d] <= Len(Steps[d.op])
            BY <1>3, PcStep DEF SendEvent
        <2>2. UNCHANGED <<nsp_members, storage, nsp_ids, heard, emit>>
            BY <1>3 DEF SendEvent
        <2>3. feed' \in [Subscribers -> FeedType] /\ FeedInv'
            <3> SUFFICES ASSUME NEW u \in Subscribers PROVE feed'[u] \in FeedType /\ FeedOK(feed'[u])
                BY <1>3 DEF SendEvent, FeedInv
            <3>0. feed[u] \in FeedType /\ FeedOK(feed[u])
                BY DEF TypeInv, FeedInv
            <3>1. CASE c.nsp \notin feed[u].of
                BY <1>3, <3>0, <3>1 DEF SendEvent
            <3>2. CASE c.nsp \in feed[u].of
                <4>1. feed'[u] = Push(feed[u], c.socket)
                    BY <1>3, <3>2 DEF SendEvent
                <4>2. feed[u].of = {c.nsp}
                    BY <3>0, <3>2 DEF FeedOK
                <4>3. Len(feed[u].queue) <= EventCap
                    BY <3>0 DEF FeedOK
                <4>4. /\ feed'[u] \in FeedType /\ feed'[u].of = {c.nsp}
                      /\ Len(feed'[u].queue) <= EventCap
                    BY <3>0, <4>1, <4>2, <4>3, PushFacts
                <4> QED
                    BY <4>4 DEF FeedOK
            <3> QED
                BY <3>1, <3>2
        <2> QED
            BY <2>1, <2>2, <2>3 DEF TypeInv
    <1> QED
        BY <1>1, <1>2, <1>3

\* Subscribing and receiving keep the types.
LEMMA TypeFeed ==
    ASSUME TypeInv, NEW u \in Subscribers,
           Recv(u) \/ \E x \in NspNames \cup {Dynamic} : SubscribeTo(u, x)
    PROVE  TypeInv'
    <1>0. /\ feed \in [Subscribers -> FeedType] /\ FeedInv /\ feed[u] \in FeedType
          /\ FeedOK(feed[u]) /\ heard \in [Subscribers -> SUBSET (NspNames \X Sockets)]
        BY DEF TypeInv, FeedInv
    <1>1. UNCHANGED <<nsp_members, storage, nsp_ids, progress, emit>>
        BY DEF Recv, SubscribeTo
    <1>2. ASSUME NEW x \in NspNames \cup {Dynamic}, SubscribeTo(u, x)
          PROVE  /\ feed' \in [Subscribers -> FeedType] /\ FeedInv'
                 /\ heard' \in [Subscribers -> SUBSET (NspNames \X Sockets)]
        <2>1. /\ feed' = [feed EXCEPT ![u] = [feed[u] EXCEPT !.of = {x}]] /\ UNCHANGED heard
              /\ feed[u].of = {}
            BY <1>2 DEF SubscribeTo
        <2>2. Len(feed[u].queue) \in Nat /\ ~(Len(feed[u].queue) > 0) /\ Len(feed[u].queue) <= EventCap
            BY <1>0, <2>1 DEF FeedOK, FeedType
        <2>3. /\ [feed[u] EXCEPT !.of = {x}] \in FeedType
              /\ FeedOK([feed[u] EXCEPT !.of = {x}])
            BY <1>0, <2>2 DEF FeedOK, FeedType
        <2> QED
            BY <1>0, <2>1, <2>3 DEF FeedInv
    <1>3. CASE Recv(u) /\ feed[u].lagged
        <2>1. feed' = [feed EXCEPT ![u] = [feed[u] EXCEPT !.lagged = FALSE]] /\ UNCHANGED heard
            BY <1>3 DEF Recv
        <2>2. /\ [feed[u] EXCEPT !.lagged = FALSE] \in FeedType
              /\ FeedOK([feed[u] EXCEPT !.lagged = FALSE])
            BY <1>0 DEF FeedOK, FeedType
        <2> QED
            BY <1>0, <1>1, <2>1, <2>2 DEF FeedInv, TypeInv
    <1>4. CASE Recv(u) /\ ~feed[u].lagged
        <2> DEFINE q == feed[u].queue
        <2>1. /\ q # <<>> /\ feed' = [feed EXCEPT ![u] = [feed[u] EXCEPT !.queue = Tail(q)]]
              /\ heard' = [heard EXCEPT ![u] = heard[u] \cup (feed[u].of \X {Head(q)})]
            BY <1>4 DEF Recv
        <2>2. q \in Seq(Sockets)
            BY <1>0 DEF FeedType
        <2>3. /\ Head(q) \in Sockets /\ Tail(q) \in Seq(Sockets) /\ Len(q) > 0
              /\ Len(q) \in Nat /\ Len(Tail(q)) = Len(q) - 1
            BY <2>1, <2>2, TailFacts
        <2>4. feed[u].of \subseteq NspNames
            BY <1>0, <2>3 DEF FeedOK
        <2>5. heard' \in [Subscribers -> SUBSET (NspNames \X Sockets)]
            BY <1>0, <2>1, <2>3, <2>4
        <2>6. /\ [feed[u] EXCEPT !.queue = Tail(q)] \in FeedType
              /\ FeedOK([feed[u] EXCEPT !.queue = Tail(q)])
            <3>1. Len(q) <= EventCap /\ \E n \in NspNames : feed[u].of = {n}
                BY <1>0, <2>3 DEF FeedOK
            <3>2. Len(Tail(q)) <= EventCap
                BY <2>3, <3>1, NamespaceAssumption
            <3> HIDE DEF q
            <3>3. /\ [feed[u] EXCEPT !.queue = Tail(q)] \in FeedType
                  /\ [feed[u] EXCEPT !.queue = Tail(q)].queue = Tail(q)
                  /\ [feed[u] EXCEPT !.queue = Tail(q)].of = feed[u].of
                BY <1>0, <2>3 DEF FeedType
            <3> QED
                BY <3>1, <3>2, <3>3 DEF FeedOK
        <2> QED
            BY <1>0, <1>1, <2>1, <2>5, <2>6 DEF FeedInv, TypeInv
    <1> QED
        BY <1>1, <1>2, <1>3, <1>4 DEF TypeInv

\* A step of an emit keeps the types.
LEMMA TypeEmit ==
    ASSUME TypeInv, NEW e \in Emitters,
           \/ \E r \in Rooms : To(e, r) \/ AddRoom(e, r)
           \/ EmptyEventName(e) \/ EmitWithFlags(e) \/ ReturnOk(e)
           \/ \E n \in NspNames : Visit(e, n) \/ BroadcastError(e, n)
    PROVE  TypeInv'
    <1>0. emit \in [Emitters -> EmitType] /\ Targets(e) \subseteq NspNames /\ emit[e] \in EmitType
        BY TargetsType DEF TypeInv
    <1>1. UNCHANGED <<nsp_members, storage, nsp_ids, progress, feed, heard>>
        BY DEF To, AddRoom, EmptyEventName, EmitWithFlags, ReturnOk, Visit, BroadcastError
    <1>2. ASSUME NEW r \in Rooms, To(e, r) \/ AddRoom(e, r)
          PROVE  emit' \in [Emitters -> EmitType]
        BY <1>0, <1>2 DEF To, AddRoom, EmitType
    <1>3. CASE EmptyEventName(e) \/ ReturnOk(e)
        <2>1. emit' \in [Emitters -> EmitType]
            BY <1>0, <1>3 DEF EmptyEventName, ReturnOk, EmitType
        <2> QED
            BY <1>1, <2>1 DEF TypeInv, FeedInv
    <1>4. CASE EmitWithFlags(e)
        <2> DEFINE now == Audience(storage, Targets(e), emit[e].rooms)
        <2>1. now \subseteq NspNames \X Sockets
            BY <1>0, AudienceType
        <2>2. emit' = [emit EXCEPT ![e].at = "broadcast", ![e].start = Targets(e),
                                   ![e].always = now, ![e].ever = now]
            BY <1>4 DEF EmitWithFlags
        <2> HIDE DEF now
        <2>3. emit' \in [Emitters -> EmitType]
            BY <1>0, <2>1, <2>2 DEF EmitType
        <2> QED
            BY <1>1, <2>3 DEF TypeInv, FeedInv
    <1>5. ASSUME NEW n \in NspNames, Visit(e, n) \/ BroadcastError(e, n)
          PROVE  emit' \in [Emitters -> EmitType]
        <2>1. MakePacketForEvent(n, InRooms(storage[n], BroadcastRooms(e))) \subseteq NspNames \X Sockets
            BY DEF MakePacketForEvent, InRooms
        <2> QED
            BY <1>0, <1>5, <2>1 DEF Visit, BroadcastError, EmitType
    <1> QED
        BY <1>1, <1>2, <1>3, <1>4, <1>5 DEF TypeInv, FeedInv

\* TypeInv is inductive by itself.
LEMMA TypeNext == TypeInv /\ [NspNext]_nspVars => TypeInv'
    <1> SUFFICES ASSUME TypeInv, [NspNext]_nspVars PROVE TypeInv'
        OBVIOUS
    <1>1. ASSUME NEW n \in NspNames, AddMember(n)
          PROVE  TypeInv'
        <2>1. nsp_members' \subseteq NspNames /\ UNCHANGED <<storage, nsp_ids, progress, feed, heard>>
            BY <1>1 DEF AddMember, TypeInv
        <2>2. emit' \in [Emitters -> EmitType]
            <3>1. emit' = Watch(storage, nsp_members')
                BY <1>1 DEF AddMember
            <3> QED
                BY <2>1, <3>1, WatchType DEF TypeInv
        <2> QED
            BY <2>1, <2>2 DEF TypeInv, FeedInv
    <1>2. CASE UNCHANGED nspVars
        BY <1>2 DEF nspVars, TypeInv, FeedInv
    <1> QED
        BY <1>1, <1>2, TypeCall, TypeFeed, TypeEmit DEF NspNext

\* Nothing has happened.
LEMMA TypeInit == NspInit => TypeInv
    <1> SUFFICES ASSUME NspInit PROVE TypeInv
        OBVIOUS
    <1>1. progress \in [Calls -> Nat] /\ \A c \in Calls : progress[c] <= Len(Steps[c.op])
        BY StepsAre, CallFacts DEF NspInit
    <1>2. NoFeed \in FeedType /\ FeedOK(NoFeed)
        BY NamespaceAssumption DEF NoFeed, FeedType, FeedOK
    <1>3. emit \in [Emitters -> EmitType]
        <2>1. \A x \in NspNames \cup {Dynamic} : NewEmit(x) \in EmitType
            BY DEF NewEmit, EmitType
        <2> QED
            BY <2>1 DEF NspInit
    <1>4. feed \in [Subscribers -> FeedType] /\ FeedInv
        BY <1>2 DEF NspInit, FeedInv
    <1> QED
        BY <1>1, <1>3, <1>4 DEF NspInit, TypeInv

\* The types, and the capacity of the event channels (namespace.rs:97, 213).
THEOREM TypeCorrect == NspSpec => []NspTypeOK
    <1>1. TypeInv => NspTypeOK
        BY DEF TypeInv, NspTypeOK, FeedInv, FeedOK, FeedType, EmitType
    <1> QED
        BY <1>1, TypeInit, TypeNext, PTL DEF NspSpec

-----------------------------------------------------------------------------
(* A socket that was announced is reachable *)

\* `add_socket` has put the socket into its room, and into `socket_ids`.
JoinInv ==
    \A j \in Calls : IsJoin(j) /\ ~Removing(j.nsp, j.socket) =>
        /\ progress[j] >= 1 => <<j.socket, j.socket>> \in storage[j.nsp]
        /\ progress[j] >= 2 => j.socket \in nsp_ids[j.nsp]

\* An announcement is that of a socket that has joined or is about to.
Joined(n, s) == \E j \in Calls : IsJoin(j) /\ j.nsp = n /\ j.socket = s /\ progress[j] >= 2

AnnounceInv ==
    \A u \in Subscribers :
        /\ \A n \in NspNames, s \in Sockets : <<n, s>> \in heard[u] => Joined(n, s)
        /\ \A i \in 1..Len(feed[u].queue) : \A n \in feed[u].of : Joined(n, feed[u].queue[i])

ReachInv == JoinInv /\ AnnounceInv

\* Calls go on, so a socket that is being removed stays so and one that has
\* joined has joined.
LEMMA Forward ==
    ASSUME TypeInv, TypeInv', \A c \in Calls : progress[c] <= progress'[c]
    PROVE  /\ \A n, s : Removing(n, s) => Removing(n, s)'
           /\ \A n, s : Joined(n, s) => Joined(n, s)'
    <1>1. progress \in [Calls -> Nat] /\ progress' \in [Calls -> Nat]
        BY DEF TypeInv
    <1>2. \A c \in Calls : (Began(c) => Began(c)') /\ (progress[c] >= 2 => progress'[c] >= 2)
        BY <1>1 DEF Began
    <1> QED
        BY <1>2 DEF Removing, Joined

\* A step that leaves the storage, the ids and the calls alone.
LEMMA JoinFrame ==
    ASSUME JoinInv, UNCHANGED <<storage, nsp_ids, progress>>
    PROVE  JoinInv'
    BY DEF JoinInv, Removing, Began

\* A step that leaves the subscriptions alone.
LEMMA AnnounceFrame ==
    ASSUME TypeInv, TypeInv', AnnounceInv, UNCHANGED <<feed, heard>>,
           \A c \in Calls : progress[c] <= progress'[c]
    PROVE  AnnounceInv'
    BY Forward DEF AnnounceInv

\* Each step of a call keeps JoinInv: the room and the id are taken away only
\* by a call that counts as removing the socket.
LEMMA JoinCall ==
    ASSUME TypeInv, TypeInv', JoinInv, NEW c \in Calls,
           AddAll(c) \/ InsertId(c) \/ SendEvent(c) \/ RemoveId(c) \/ Del(c)
    PROVE  JoinInv'
    <1> USE CallFacts
    <1>0. /\ storage \in [NspNames -> SUBSET (Sockets \X Rooms)] /\ progress \in [Calls -> Nat]
          /\ nsp_ids \in [NspNames -> SUBSET Sockets]
        BY DEF TypeInv
    <1>1. PICK step : Step(c, step)
        BY DEF AddAll, InsertId, SendEvent, RemoveId, Del
    <1>2. \A d \in Calls : progress[d] <= progress'[d]
        BY <1>1, PcStep
    <1> SUFFICES ASSUME NEW j \in Calls, IsJoin(j), ~Removing(j.nsp, j.socket)'
                 PROVE  /\ progress'[j] >= 1 => <<j.socket, j.socket>> \in storage'[j.nsp]
                        /\ progress'[j] >= 2 => j.socket \in nsp_ids'[j.nsp]
        BY DEF JoinInv, IsJoin
    <1>3. ~Removing(j.nsp, j.socket)
        BY <1>2, Forward
    <1>4. /\ progress[j] >= 1 => <<j.socket, j.socket>> \in storage[j.nsp]
          /\ progress[j] >= 2 => j.socket \in nsp_ids[j.nsp]
        BY <1>3 DEF JoinInv
    <1>5. j # c => progress'[j] = progress[j]
        BY <1>0, <1>1, StepFacts
    <1>6. CASE AddAll(c)
        <2>1. /\ UNCHANGED nsp_ids /\ c.op = "add" /\ progress[c] = 0 /\ progress'[c] = 1
              /\ storage' = [storage EXCEPT ![c.nsp] = storage[c.nsp] \cup {<<c.socket, c.room>>}]
            BY <1>0, <1>6, StepFacts DEF AddAll
        <2> QED
            BY <1>0, <1>4, <1>5, <2>1 DEF IsJoin
    <1>7. CASE InsertId(c)
        <2>1. /\ UNCHANGED storage /\ c.op = "add" /\ progress[c] = 1 /\ progress'[c] = 2
              /\ nsp_ids' = [nsp_ids EXCEPT ![c.nsp] = nsp_ids[c.nsp] \cup {c.socket}]
            BY <1>0, <1>7, StepFacts DEF InsertId
        <2> QED
            BY <1>0, <1>4, <1>5, <2>1 DEF IsJoin
    <1>8. CASE SendEvent(c)
        <2>1. UNCHANGED <<storage, nsp_ids>> /\ progress[c] = 2
            BY <1>8, StepFacts DEF SendEvent
        <2> QED
            BY <1>4, <1>5, <2>1
    <1>9. CASE RemoveId(c)
        <2>1. /\ UNCHANGED storage /\ c.op = "remove" /\ progress'[c] > 0
              /\ nsp_ids' = [nsp_ids EXCEPT ![c.nsp] = nsp_ids[c.nsp] \ {c.socket}]
            BY <1>9, StepFacts, PcStep DEF RemoveId
        <2>2. ~(c.nsp = j.nsp /\ c.socket = j.socket) /\ c # j
            BY <2>1 DEF Removing, Began, IsJoin
        <2> QED
            BY <1>0, <1>4, <1>5, <2>1, <2>2
    <1>10. CASE Del(c)
        <2>1. /\ UNCHANGED nsp_ids /\ c.op \in {"remove", "leave"} /\ progress'[c] > 0
              /\ storage' = [storage EXCEPT ![c.nsp] = storage[c.nsp] \ {<<c.socket, c.room>>}]
            BY <1>10, StepFacts, PcStep DEF Del
        <2>2. ~(c.nsp = j.nsp /\ c.socket = j.socket /\ c.room = j.socket) /\ c # j
            BY <2>1 DEF Removing, Began, IsJoin
        <2> QED
            BY <1>0, <1>4, <1>5, <2>1, <2>2
    <1> QED
        BY <1>6, <1>7, <1>8, <1>9, <1>10

\* The announcement comes after the other steps of `add_socket_to_room`, and
\* that of a further room after `add_socket`.
LEMMA AnnounceSend ==
    ASSUME TypeInv, TypeInv', AnnounceInv, NEW c \in Calls, SendEvent(c)
    PROVE  AnnounceInv'
    <1>1. /\ c.op = "add" /\ progress[c] = 2 /\ UNCHANGED heard /\ (IsJoin(c) \/ Known(c))
          /\ \A d \in Calls : progress[d] <= progress'[d]
        BY StepFacts, PcStep DEF SendEvent
    <1>2. Joined(c.nsp, c.socket)
        <2>1. CASE IsJoin(c)
            BY <1>1, <2>1 DEF Joined
        <2>2. CASE Known(c)
            BY <1>1, <2>2, StepsAre DEF Joined, Known, Done, IsJoin
        <2> QED
            BY <1>1, <2>1, <2>2
    <1>3. \A n, s : Joined(n, s) => Joined(n, s)'
        BY <1>1, Forward
    <1>4. ASSUME NEW u \in Subscribers, NEW i \in 1..Len(feed'[u].queue), NEW n \in feed'[u].of
          PROVE  Joined(n, feed[u].queue[i])'
        <2>0. /\ feed[u] \in FeedType /\ FeedOK(feed[u]) /\ c.socket \in Sockets
            BY CallFacts DEF TypeInv, FeedInv
        <2>1. CASE c.nsp \notin feed[u].of
            BY <1>3, <1>4, <2>1 DEF SendEvent, AnnounceInv
        <2>2. CASE c.nsp \in feed[u].of
            <3>1. feed'[u] = Push(feed[u], c.socket)
                BY <2>2 DEF SendEvent
            <3>2. /\ feed'[u].of = feed[u].of
                  /\ \/ feed'[u].queue[i] = c.socket
                     \/ \E k \in 1..Len(feed[u].queue) : feed[u].queue[k] = feed'[u].queue[i]
                BY <1>4, <2>0, <3>1, PushFacts DEF FeedOK
            <3>3. n = c.nsp
                BY <1>4, <2>0, <2>2, <3>2 DEF FeedOK
            <3>4. Joined(n, feed'[u].queue[i])
                BY <1>2, <1>4, <3>2, <3>3 DEF AnnounceInv
            <3> QED
                BY <1>3, <3>4
        <2> QED
            BY <2>1, <2>2
    <1> QED
        BY <1>1, <1>3, <1>4 DEF AnnounceInv

\* What is received was in the queue.
LEMMA AnnounceFeed ==
    ASSUME TypeInv, AnnounceInv, NEW u \in Subscribers,
           Recv(u) \/ \E x \in NspNames \cup {Dynamic} : SubscribeTo(u, x)
    PROVE  AnnounceInv'
    <1>0. /\ feed \in [Subscribers -> FeedType] /\ feed[u] \in FeedType
          /\ FeedOK(feed[u]) /\ heard \in [Subscribers -> SUBSET (NspNames \X Sockets)]
        BY DEF TypeInv, FeedInv
    <1>1. \A n, s : Joined(n, s)' <=> Joined(n, s)
        BY DEF Joined, Recv, SubscribeTo
    <1>2. ASSUME NEW x, SubscribeTo(u, x)
          PROVE  AnnounceInv'
        <2>1. /\ feed' = [feed EXCEPT ![u] = [feed[u] EXCEPT !.of = {x}]] /\ UNCHANGED heard
              /\ feed[u].of = {}
            BY <1>2 DEF SubscribeTo
        <2>2. /\ feed'[u].queue = feed[u].queue /\ Len(feed[u].queue) \in Nat
              /\ ~(Len(feed[u].queue) > 0)
            BY <1>0, <2>1 DEF FeedOK, FeedType
        <2>3. \A v \in Subscribers : v # u => feed'[v] = feed[v]
            BY <1>0, <2>1
        <2> QED
            BY <1>1, <2>1, <2>2, <2>3 DEF AnnounceInv
    <1>3. CASE Recv(u) /\ feed[u].lagged
        <2>1. feed' = [feed EXCEPT ![u] = [feed[u] EXCEPT !.lagged = FALSE]] /\ UNCHANGED heard
            BY <1>3 DEF Recv
        <2>2. \A v \in Subscribers : feed'[v].queue = feed[v].queue /\ feed'[v].of = feed[v].of
            BY <1>0, <2>1 DEF FeedType
        <2> QED
            BY <1>1, <2>1, <2>2 DEF AnnounceInv
    <1>4. CASE Recv(u) /\ ~feed[u].lagged
        <2> DEFINE q == feed[u].queue
        <2>1. /\ q # <<>> /\ feed' = [feed EXCEPT ![u] = [feed[u] EXCEPT !.queue = Tail(q)]]
              /\ heard' = [heard EXCEPT ![u] = heard[u] \cup (feed[u].of \X {Head(q)})]
            BY <1>4 DEF Recv
        <2>2. q \in Seq(Sockets)
            BY <1>0 DEF FeedType
        <2>3. /\ Head(q) = q[1] /\ 1 \in 1..Len(q)
              /\ \A i \in 1..Len(Tail(q)) : Tail(q)[i] = q[i + 1] /\ i + 1 \in 1..Len(q)
            BY <2>1, <2>2, TailFacts
        <2>4. \A v \in Subscribers : v # u => feed'[v] = feed[v] /\ heard'[v] = heard[v]
            BY <1>0, <2>1
        <2>5. feed'[u].queue = Tail(q) /\ feed'[u].of = feed[u].of
            BY <1>0, <2>1 DEF FeedType
        <2>6. \A i \in 1..Len(q) : \A n \in feed[u].of : Joined(n, q[i])
            BY DEF AnnounceInv
        <2>7. heard'[u] = heard[u] \cup (feed[u].of \X {Head(q)})
            BY <1>0, <2>1
        <2> HIDE DEF q
        <2>8. \A n \in NspNames, s \in Sockets : <<n, s>> \in heard'[u] => Joined(n, s)
            BY <2>3, <2>6, <2>7 DEF AnnounceInv
        <2>9. \A i \in 1..Len(Tail(q)) : \A n \in feed[u].of : Joined(n, Tail(q)[i])
            BY <2>3, <2>6
        <2> QED
            BY <1>1, <2>4, <2>5, <2>8, <2>9 DEF AnnounceInv
    <1> QED
        BY <1>2, <1>3, <1>4

\* ReachInv is inductive relative to TypeInv.
LEMMA ReachNext == TypeInv /\ ReachInv /\ [NspNext]_nspVars => ReachInv'
    <1> SUFFICES ASSUME TypeInv, ReachInv, [NspNext]_nspVars PROVE ReachInv'
        OBVIOUS
    <1>0. TypeInv' /\ JoinInv /\ AnnounceInv /\ progress \in [Calls -> Nat]
        BY TypeNext DEF ReachInv, TypeInv
    <1>1. ASSUME NEW c \in Calls, AddAll(c) \/ InsertId(c) \/ RemoveId(c) \/ Del(c)
          PROVE  ReachInv'
        <2>1. UNCHANGED <<feed, heard>> /\ \A d \in Calls : progress[d] <= progress'[d]
            BY <1>1, PcStep DEF AddAll, InsertId, RemoveId, Del
        <2> QED
            BY <1>0, <1>1, <2>1, JoinCall, AnnounceFrame DEF ReachInv
    <1>2. ASSUME NEW c \in Calls, SendEvent(c)
          PROVE  ReachInv'
        BY <1>0, <1>2, JoinCall, AnnounceSend DEF ReachInv
    <1>3. ASSUME NEW u \in Subscribers, Recv(u) \/ \E x \in NspNames \cup {Dynamic} : SubscribeTo(u, x)
          PROVE  ReachInv'
        <2>1. UNCHANGED <<storage, nsp_ids, progress>>
            BY <1>3 DEF Recv, SubscribeTo
        <2> QED
            BY <1>0, <1>3, <2>1, JoinFrame, AnnounceFeed DEF ReachInv
    <1>4. CASE UNCHANGED <<storage, nsp_ids, progress, feed, heard>>
        <2>1. \A d \in Calls : progress[d] <= progress'[d]
            BY <1>0, <1>4
        <2> QED
            BY <1>0, <1>4, <2>1, JoinFrame, AnnounceFrame DEF ReachInv
    <1> QED
        BY <1>1, <1>2, <1>3, <1>4
        DEF NspNext, AddMember, To, AddRoom, EmptyEventName, EmitWithFlags, ReturnOk,
            Visit, BroadcastError, nspVars

\* Whatever calls run at once, a socket that an application was told of is in
\* its own room and in `socket_ids` until it is removed (namespace.rs:118-138).
THEOREM AnnouncedReachable == NspSpec => []AnnouncedIsReachable
    <1>1. NspInit => ReachInv
        BY DEF NspInit, ReachInv, JoinInv, AnnounceInv, NoFeed
    <1>2. TypeInv /\ ReachInv => AnnouncedIsReachable
        <2> SUFFICES ASSUME TypeInv, ReachInv, NEW u \in Subscribers, NEW n \in NspNames,
                            NEW s \in Sockets, ~Removing(n, s),
                            \/ <<n, s>> \in heard[u]
                            \/ /\ n \in feed[u].of
                               /\ \E i \in DOMAIN feed[u].queue : feed[u].queue[i] = s
                     PROVE  <<s, s>> \in storage[n] /\ s \in nsp_ids[n]
            BY DEF AnnouncedIsReachable
        <2>1. feed[u].queue \in Seq(Sockets) /\ progress \in [Calls -> Nat]
            BY DEF TypeInv, FeedType
        <2>2. Joined(n, s)
            BY <2>1 DEF ReachInv, AnnounceInv
        <2>3. PICK j \in Calls : IsJoin(j) /\ j.nsp = n /\ j.socket = s /\ progress[j] >= 2
            BY <2>2 DEF Joined
        <2>4. progress[j] >= 1
            BY <2>1, <2>3
        <2> QED
            BY <2>3, <2>4 DEF ReachInv, JoinInv
    <1> QED
        BY <1>1, <1>2, TypeInit, TypeNext, ReachNext, PTL DEF NspSpec

-----------------------------------------------------------------------------
(* Emits reach their audience, and nobody else *)

\* What is known of an emit m when the storage is st and the members of the
\* dynamic namespace are ms.  An emit under way has reached whoever was in the
\* audience all the time in the namespaces it has visited.
EmitOK(m, st, ms) ==
    /\ m.at \in {"ready", "empty_name"} => m.got = {} /\ m.visited = {}
    /\ m.got \subseteq m.ever
    /\ m.at = "broadcast" =>
        /\ m.always \subseteq Now(m, st, ms) /\ Now(m, st, ms) \subseteq m.ever
        /\ m.always \subseteq m.start \X Sockets
        /\ \A n \in m.visited, s \in Sockets : <<n, s>> \in m.always => <<n, s>> \in m.got
    /\ m.at = "ok" => m.always \subseteq m.got

EmitInv == \A e \in Emitters : EmitOK(emit[e], storage, nsp_members)

\* The storage or the members change: Watch updates the history.
LEMMA EmitWatch ==
    ASSUME TypeInv, EmitInv, emit' = Watch(storage', nsp_members')
    PROVE  EmitInv'
    <1> SUFFICES ASSUME NEW e \in Emitters PROVE EmitOK(emit'[e], storage', nsp_members')
        BY DEF EmitInv
    <1> DEFINE m == emit[e]
               now == Now(m, storage', nsp_members')
    <1>1. m \in EmitType /\ EmitOK(m, storage, nsp_members)
        BY DEF TypeInv, EmitInv
    <1>2. CASE m.at = "broadcast"
        <2>1. emit'[e] = [m EXCEPT !.always = m.always \cap now, !.ever = m.ever \cup now]
            BY <1>2 DEF Watch, Now
        <2>2. Now(emit'[e], storage', nsp_members') = now
            BY <1>1, <2>1 DEF Now, EmitType
        <2> HIDE DEF now
        <2>3. /\ emit'[e].always = m.always \cap now /\ emit'[e].ever = m.ever \cup now
              /\ emit'[e].at = "broadcast" /\ emit'[e].got = m.got /\ emit'[e].start = m.start
              /\ emit'[e].visited = m.visited
            BY <1>1, <1>2, <2>1 DEF EmitType
        <2>4. /\ m.got \subseteq m.ever /\ m.always \subseteq m.start \X Sockets
              /\ \A n \in m.visited, s \in Sockets : <<n, s>> \in m.always => <<n, s>> \in m.got
            BY <1>1, <1>2 DEF EmitOK
        <2> QED
            BY <2>2, <2>3, <2>4 DEF EmitOK
    <1>3. CASE m.at # "broadcast"
        <2>1. emit'[e] = m
            BY <1>3 DEF Watch
        <2> QED
            BY <1>1, <1>3, <2>1 DEF EmitOK
    <1> QED
        BY <1>2, <1>3

\* A step of one emit.
LEMMA EmitFrame ==
    ASSUME TypeInv, EmitInv, UNCHANGED <<storage, nsp_members>>, NEW e \in Emitters, NEW m,
           emit' = [emit EXCEPT ![e] = m], EmitOK(m, storage, nsp_members)
    PROVE  EmitInv'
    BY DEF EmitInv, TypeInv

\* The steps of emits keep EmitInv.
LEMMA EmitSteps ==
    ASSUME TypeInv, EmitInv, NEW e \in Emitters,
           \/ \E r \in Rooms : To(e, r) \/ AddRoom(e, r)
           \/ EmptyEventName(e) \/ EmitWithFlags(e) \/ ReturnOk(e)
           \/ \E n \in NspNames : Visit(e, n) \/ BroadcastError(e, n)
    PROVE  EmitInv'
    <1> DEFINE m == emit[e]
               now == Now(m, storage, nsp_members)
    <1>0. m \in EmitType /\ EmitOK(m, storage, nsp_members) /\ now = Audience(storage, Targets(e), m.rooms)
        BY DEF TypeInv, EmitInv, Now, Targets
    <1>1. UNCHANGED <<storage, nsp_members>>
        BY DEF To, AddRoom, EmptyEventName, EmitWithFlags, ReturnOk, Visit, BroadcastError
    <1>2. ASSUME NEW r \in Rooms, To(e, r) \/ AddRoom(e, r)
          PROVE  EmitInv'
        <2>1. m.at = "ready" /\ \E rs : emit' = [emit EXCEPT ![e] = [m EXCEPT !.rooms = rs]]
            BY <1>2 DEF To, AddRoom
        <2>2. PICK rs : emit' = [emit EXCEPT ![e] = [m EXCEPT !.rooms = rs]]
            BY <2>1
        <2>3. EmitOK([m EXCEPT !.rooms = rs], storage, nsp_members)
            BY <1>0, <2>1 DEF EmitOK, EmitType
        <2> QED
            BY <1>1, <2>2, <2>3, EmitFrame
    <1>3. CASE EmptyEventName(e)
        <2>1. m.at = "ready" /\ emit' = [emit EXCEPT ![e] = [m EXCEPT !.at = "empty_name"]]
            BY <1>3 DEF EmptyEventName
        <2>2. EmitOK([m EXCEPT !.at = "empty_name"], storage, nsp_members)
            BY <1>0, <2>1 DEF EmitOK, EmitType
        <2> QED
            BY <1>1, <2>1, <2>2, EmitFrame
    <1>4. CASE EmitWithFlags(e)
        <2> DEFINE w == [m EXCEPT !.at = "broadcast", !.start = Targets(e), !.always = now, !.ever = now]
        <2>1. m.at = "ready" /\ emit' = [emit EXCEPT ![e] = w]
            BY <1>0, <1>4 DEF EmitWithFlags
        <2>2. /\ w.at = "broadcast" /\ w.start = Targets(e) /\ w.always = now /\ w.ever = now
              /\ w.got = m.got /\ w.visited = m.visited /\ Now(w, storage, nsp_members) = now
            BY <1>0 DEF EmitType, Now
        <2>3. now \subseteq Targets(e) \X Sockets
            BY <1>0, AudienceType
        <2>4. m.got = {} /\ m.visited = {}
            BY <1>0, <2>1 DEF EmitOK
        <2> HIDE DEF now, w
        <2>5. EmitOK(w, storage, nsp_members)
            BY <2>2, <2>3, <2>4 DEF EmitOK
        <2> QED
            BY <1>1, <2>1, <2>5, EmitFrame
    <1>5. CASE ReturnOk(e)
        <2> DEFINE w == [m EXCEPT !.at = "ok"]
        <2>1. m.at = "broadcast" /\ m.start \subseteq m.visited /\ emit' = [emit EXCEPT ![e] = w]
            BY <1>5 DEF ReturnOk
        <2>2. w.at = "ok" /\ w.got = m.got /\ w.ever = m.ever /\ w.always = m.always
            BY <1>0 DEF EmitType
        <2>3. m.always \subseteq m.got
            BY <1>0, <2>1 DEF EmitOK
        <2> HIDE DEF w
        <2>4. EmitOK(w, storage, nsp_members)
            BY <1>0, <2>2, <2>3 DEF EmitOK
        <2> QED
            BY <1>1, <2>1, <2>4, EmitFrame
    <1>6. ASSUME NEW n \in NspNames, BroadcastError(e, n)
          PROVE  EmitInv'
        <2>1. emit' = [emit EXCEPT ![e] = [m EXCEPT !.at = "failed"]]
            BY <1>6 DEF BroadcastError
        <2>2. EmitOK([m EXCEPT !.at = "failed"], storage, nsp_members)
            BY <1>0 DEF EmitOK, EmitType
        <2> QED
            BY <1>1, <2>1, <2>2, EmitFrame
    <1>7. ASSUME NEW n \in NspNames, Visit(e, n)
          PROVE  EmitInv'
        <2> DEFINE sockets == InRooms(storage[n], m.rooms)
                   w == [m EXCEPT !.visited = m.visited \cup {n},
                                  !.got = m.got \cup MakePacketForEvent(n, sockets)]
        <2>1. m.at = "broadcast" /\ n \in Targets(e) /\ emit' = [emit EXCEPT ![e] = w]
            BY <1>7 DEF Visit, BroadcastRooms
        <2>2. /\ w.at = "broadcast" /\ w.visited = m.visited \cup {n} /\ w.start = m.start
              /\ w.got = m.got \cup MakePacketForEvent(n, sockets)
              /\ w.always = m.always /\ w.ever = m.ever /\ Now(w, storage, nsp_members) = now
            BY <1>0, <2>1 DEF EmitType, Now
        <2>3. /\ m.got \subseteq m.ever /\ m.always \subseteq now /\ now \subseteq m.ever
              /\ m.always \subseteq m.start \X Sockets
              /\ \A k \in m.visited, s \in Sockets : <<k, s>> \in m.always => <<k, s>> \in m.got
            BY <1>0, <2>1 DEF EmitOK
        <2>4. \A s : <<n, s>> \in now <=> s \in sockets
            BY <1>0, <2>1, AudienceIs
        <2> HIDE DEF now, w, sockets
        <2>5. MakePacketForEvent(n, sockets) \subseteq m.ever
            BY <2>3, <2>4 DEF MakePacketForEvent
        <2>6. \A s \in Sockets : <<n, s>> \in m.always => <<n, s>> \in MakePacketForEvent(n, sockets)
            BY <2>3, <2>4 DEF MakePacketForEvent
        <2>7. EmitOK(w, storage, nsp_members)
            BY <2>2, <2>3, <2>5, <2>6 DEF EmitOK
        <2> QED
            BY <1>1, <2>1, <2>7, EmitFrame
    <1> QED
        BY <1>2, <1>3, <1>4, <1>5, <1>6, <1>7

\* EmitInv is inductive relative to TypeInv.
LEMMA EmitNext == TypeInv /\ EmitInv /\ [NspNext]_nspVars => EmitInv'
    <1> SUFFICES ASSUME TypeInv, EmitInv, [NspNext]_nspVars PROVE EmitInv'
        OBVIOUS
    <1>1. ASSUME NEW c \in Calls, AddAll(c) \/ Del(c)
          PROVE  EmitInv'
        <2>1. emit' = Watch(storage', nsp_members')
            BY <1>1 DEF AddAll, Del
        <2> QED
            BY <2>1, EmitWatch
    <1>2. ASSUME NEW n \in NspNames, AddMember(n)
          PROVE  EmitInv'
        <2>1. emit' = Watch(storage', nsp_members')
            BY <1>2 DEF AddMember
        <2> QED
            BY <2>1, EmitWatch
    <1>3. CASE UNCHANGED <<storage, nsp_members, emit>>
        BY <1>3 DEF EmitInv
    <1> QED
        BY <1>1, <1>2, <1>3, EmitSteps DEF NspNext, InsertId, SendEvent, RemoveId, SubscribeTo, Recv, nspVars

\* No emit has begun.
LEMMA EmitInit == NspInit => EmitInv
    BY DEF NspInit, NewEmit, EmitInv, EmitOK

\* An emit that returns Ok has reached whoever was in its rooms all the time,
\* whatever sockets and members come and go (namespace.rs:181-195, 272-289).
THEOREM OkReaches == NspSpec => []OkReachesAudience
    <1>1. EmitInv => OkReachesAudience
        BY DEF EmitInv, EmitOK, OkReachesAudience
    <1> QED
        BY <1>1, TypeInit, TypeNext, EmitInit, EmitNext, PTL DEF NspSpec

\* No emit reaches anybody who was in none of its rooms during the call
\* (namespace.rs:340-353).
THEOREM NobodyElse == NspSpec => []OnlyAudience
    <1>1. EmitInv => OnlyAudience
        BY DEF EmitInv, EmitOK, OnlyAudience
    <1> QED
        BY <1>1, TypeInit, TypeNext, EmitInit, EmitNext, PTL DEF NspSpec
=============================================================================
