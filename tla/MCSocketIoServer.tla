--------------------------- MODULE MCSocketIoServer ---------------------------
(***************************************************************************)
(* The workloads TLC runs.  Connecting: the namespace is made by a dynamic *)
(* one or by `of`, beside three events of two clients.  Messaging: a       *)
(* client connects and sends a header followed by headers, attachments and *)
(* a close in any order.  Rest: the events that are handled in one step.   *)
(***************************************************************************)
EXTENDS SocketIoServer

MCMatchers == {Names, {}}

Of == [kind |-> "of", nsp |-> "/a"]
MakeDynamic(m) == [kind |-> "dynamic", matches |-> m]
Connect(c) == [kind |-> "connect", conn |-> c, nsp |-> "/a"]
Close(c) == [kind |-> "close", conn |-> c]
Event(k) == [kind |-> k, conn |-> "c1"]
Headers == [kind : {"header"}, conn : {"c1"}, nsp : {"/a"}, attachments : Attachments]
Packet == [kind |-> "packet", conn |-> "c1", nsp |-> "/a"]

MCWorkloads ==
    LET connecting == {<<MakeDynamic(Names), a, Connect("c1"), x, Close("c1")>> :
            a \in {Of, MakeDynamic(Names), MakeDynamic({})},
            x \in {Connect("c1"), Connect("c2")}}
        messaging == {<<Of, Connect("c1"), x, y, z>> :
            x \in Headers, y \in Headers \cup {Event("binary"), Close("c1")},
            z \in {Event("binary"), Close("c1")}}
        rest == {<<Event("connection"), Event("bad"), Event("empty"), Event("error"),
                   Packet>>}
    IN  {w \in connecting \cup messaging \cup rest : Orderly(w)}
===============================================================================
