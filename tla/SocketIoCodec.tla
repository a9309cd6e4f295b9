----------------------------- MODULE SocketIoCodec -----------------------------
(***************************************************************************)
(* The encoder and decoder of socket_io_parser over every packet: the data *)
(* of a packet is put together one leaf after the other, and each packet   *)
(* is encoded and decoded.                                                 *)
(***************************************************************************)
EXTENDS SocketIoParser

CONSTANTS
    Leaves,      \* leaves of the data of packets
    Ids,         \* ids of packets
    Namespaces,  \* namespaces of packets
    MaxLeaves    \* bound: leaves in a packet

\* No object in the data looks like a placeholder.
ASSUME DataAssumption ==
    /\ Leaves \subseteq [kind : {"String", "Null", "Binary", "Array", "Object"}, n : Nat]
    /\ Ids \subseteq Nat
    /\ Namespaces \subseteq Seq(NameTokens)
    /\ MaxLeaves \in Nat

VARIABLE packet

Options(S) == {<<>>} \cup {<<x>> : x \in S}

\* Data without leaves, or with the only one it can have.
Fresh ==
    {Null, Data("String", <<StringLeaf>>), Data("Array", <<>>), Data("Object", <<>>)}

PacketInit ==
    packet \in {Packet(t, id, nsp, v) : t \in ProtoTypes, id \in Options(Ids),
                                       nsp \in Namespaces, v \in Fresh}

AddLeaf ==
    /\ packet.data.shape \in {"Array", "Object"}
    /\ Len(packet.data.leaves) < MaxLeaves
    /\ \E leaf \in Leaves :
           packet' = [packet EXCEPT !.data.leaves = Append(@, leaf)]

\* The data starts afresh.
AnotherPacket == \E v \in Fresh : packet' = [packet EXCEPT !.data = v]

PacketNext == AddLeaf \/ AnotherPacket

PacketSpec == PacketInit /\ [][PacketNext]_packet

(***************************************************************************)
(* Properties.                                                             *)
(***************************************************************************)
\* encoder.rs and decoder.rs: attachments put back by their placeholders
\* give the data they were taken from, with objects become arrays.
AttachmentsRestored ==
    LET v == packet.data
        header == HeaderData(v)
    IN  Reconstruct(header, Deconstruct(v).attachments)
        = Data(header.shape, [i \in DOMAIN v.leaves |-> AsArray(v.leaves[i])])

\* A namespace that starts with a slash and has no comma in it.
Separable(nsp) == Starts(nsp, "slash") /\ \A i \in DOMAIN nsp : nsp[i].token # "comma"

\* encoder.rs and decoder.rs: the decoder gives back an encoded packet
\* exactly when it has no id, no object and no attachment, its namespace
\* starts with a slash and has no comma in it, and its data suits its type.
\* No binary packet is among them: its type runs into the count.
ProtoRoundTrip ==
    LET decoded == DecodeProtoPacket(EncodePacket(packet))
    IN  (decoded.status = "plain" /\ decoded.packet = packet)
        <=> /\ packet.id = <<>>
            /\ packet.type \notin BinaryTypes
            /\ Separable(packet.nsp)
            /\ packet.data.shape # "Object"
            /\ \A i \in 1 .. Len(packet.data.leaves) :
                   packet.data.leaves[i].kind \notin {"Binary", "Object"}
            /\ IsPayloadValid(packet.type, packet.data)
=============================================================================
