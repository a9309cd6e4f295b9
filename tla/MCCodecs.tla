------------------------------- MODULE MCCodecs -------------------------------
(***************************************************************************)
(* EngineCodec, SocketIoCodec or RustValues, one of them in a behaviour.   *)
(***************************************************************************)
EXTENDS EngineCodec, SocketIoCodec

CONSTANTS Scalars, MaxDepth

VARIABLES part, value, depth

V == INSTANCE RustValues

\* Payloads and packets at the edges: no data, leading digits, lengths of one
\* to three digits; leaves of every kind, two of them attachments;
\* namespaces with and without a slash in front, a comma and digits.
MCTexts == {<<>>, <<Letter>>, <<Colon, 1>>, <<4, Letter>>,
            [i \in 1 .. 9 |-> LetterB], [i \in 1 .. 99 |-> Letter]}
MCBinaries == {<<>>, <<0>>, <<212>>, <<255, 48>>, [i \in 1 .. 24 |-> 1]}
MCLeaves == {StringLeaf, NullLeaf, Leaf("Binary", 7), Leaf("Binary", 8),
             Leaf("Array", 0), Leaf("Object", 0)}
MCNames == {Root, <<Slash, NameChar>>, <<NameChar>>, <<Slash, NameChar, Comma>>,
            <<Digit(2), Slash, NameChar>>, <<Slash, Digit(1), Dash>>}

\* Scalars of every kind, some with the same text as keys.
MCScalars == [k : {"int"}, v : {1}] \cup [k : {"str"}, v : {"1", "a"}]
             \cup [k : {"bytes"}, v : {7, 8}] \cup [k : {"unit_variant"}, v : {"a"}]
             \cup [k : {"bool"}, v : {TRUE}] \cup [k : {"float"}, v : {"finite", "NaN"}]
             \cup [k : {"none"}] \cup [k : {"char"}, v : {"1"}]

\* What the parts that do not run hold.
Idle == [packet |-> Packet("Event", <<>>, Root, Null), value |-> [k |-> "none"]]

MCInit ==
    /\ part \in {"engine", "socketio", "rust"}
    /\ Init
    /\ IF part = "socketio" THEN PacketInit ELSE packet = Idle.packet
    /\ IF part = "rust" THEN V!Init ELSE value = Idle.value /\ depth = 0

MCNext ==
    /\ UNCHANGED part
    /\ \/ part = "engine" /\ Next /\ UNCHANGED <<packet, value, depth>>
       \/ part = "socketio" /\ PacketNext /\ UNCHANGED <<payload, value, depth>>
       \/ part = "rust" /\ V!Next /\ UNCHANGED <<payload, packet>>

MCSpec == MCInit /\ [][MCNext]_<<part, payload, packet, value, depth>>


\* ser.rs and encoder.rs: bytes become the attachments (RustValues).
BytesBecomeAttachments == V!BytesBecomeAttachments

\* ser.rs: of entries with one key the last value stays (RustValues).
LastValueWins == V!LastValueWins
=============================================================================
