------------------------------ MODULE EngineCodec ------------------------------
(***************************************************************************)
(* The codecs of engine_io_parser over every payload: a payload is put     *)
(* together one packet after the other, and each is encoded and decoded.   *)
(***************************************************************************)
EXTENDS EngineParser

CONSTANTS
    Types,      \* packet types
    Texts,      \* data of text packets
    Binaries,   \* data of binary packets
    MaxPackets  \* bound: packets in a payload

\* Texts are characters and binary data bytes, and the encoded length of a
\* packet is a usize and a u32: no packet has 4 GiB.
ASSUME CodecAssumption ==
    /\ Types \subseteq PacketTypes
    /\ MaxPackets \in Nat
    /\ \A d \in Texts : /\ d \in Seq(Digits \cup {Colon, LetterB, Letter})
                        /\ Len(d) + 1 <= MaxUsize /\ Len(d) + 1 <= MaxU32
    /\ \A d \in Binaries : /\ d \in Seq(0 .. 255)
                           /\ 4 * Len(d) + 2 <= MaxUsize /\ Len(d) + 1 <= MaxU32

VARIABLE payload

EnginePackets ==
    {Text(t, d) : t \in Types, d \in Texts}
    \cup {Binary(t, d) : t \in Types, d \in Binaries}
    \cup {Empty(t) : t \in Types}

Init == payload = <<>>

AddPacket ==
    /\ Len(payload) < MaxPackets
    /\ \E p \in EnginePackets : payload' = Append(payload, p)

\* The next payload starts afresh.
Restart == payload' = <<>>

Next == AddPacket \/ Restart

Spec == Init /\ [][Next]_payload

(***************************************************************************)
(* Properties.                                                             *)
(***************************************************************************)
StartsWithDigit(s) == s # <<>> /\ s[1] \in Digits

\* The characters after the type of a packet.
Chars(p) == IF p.kind = "Binary" THEN Base64Encode(p.data) ELSE p.data

\* A payload without its packets of kind Empty.
Kept(ps) == FlattenSeq([i \in 1 .. Len(ps) |-> IF ps[i].kind = "Empty" THEN <<>> ELSE <<ps[i]>>])

\* string.rs: a payload decodes to the packets it was made of, without the
\* ones of kind Empty, exactly when no packet's text or base64 starts with
\* a digit and only the last has no characters at all: the parser takes all
\* the digits it finds for the packet type, those of the data and those of
\* the next packet's length included.
StringPayloadRoundTrip ==
    LET decoded == StringDecodePayload(StringSerializePayload(payload))
        kept == Kept(payload)
    IN  (decoded.status = "ok" /\ decoded.items = kept)
        <=> \A i \in 1 .. Len(kept) :
                /\ ~StartsWithDigit(Chars(kept[i]))
                /\ Chars(kept[i]) = <<>> => i = Len(kept)

\* A packet with text taken as its bytes.
AsBytes(p) == IF p.kind = "Text" THEN Binary(p.type, Bytes(p.data)) ELSE p
Contents(ps) == [i \in 1 .. Len(ps) |-> AsBytes(ps[i])]

\* binary.rs: a payload decodes to packets of the same types and contents,
\* be they text or bytes, exactly when every packet has data and no text
\* starts with a digit: lengths of one, two and three digits, separators
\* among the data and packets of both kinds next to each other do not matter.
BinaryPayloadRoundTrip ==
    LET decoded == BinaryDecodePayload(BinarySerializePayload(payload))
    IN  (decoded.status = "ok" /\ Contents(decoded.items) = Contents(payload))
        <=> \A i \in 1 .. Len(payload) :
                /\ payload[i].kind # "Empty"
                /\ payload[i].kind = "Text" => ~StartsWithDigit(payload[i].data)

\* "If a packet in a payload has string data, it's parsed as a UTF-8 string"
\* (packet.rs:62, binary.rs:41-43): of a payload that decodes to what it was
\* made of, text comes back as text.
TextStaysText ==
    LET decoded == BinaryDecodePayload(BinarySerializePayload(payload))
    IN  decoded.status = "ok" /\ Contents(decoded.items) = Contents(payload) =>
            \A i \in 1 .. Len(payload) : decoded.items[i].kind = payload[i].kind

\* decoder.rs: a packet that is a websocket message of its own comes back
\* from the string form exactly when it is text that starts with no digit,
\* and from the binary form exactly when it is binary.
PacketRoundTrip ==
    Len(payload) = 1 =>
        LET p == payload[1]
            text == StringDecodePacket(StringSerializePacket(p))
            binary == BinaryDecodePacket(BinarySerializePacket(p))
        IN  /\ (text.status = "ok" /\ text.value = p) <=> (p.kind = "Text" /\ ~StartsWithDigit(p.data))
            /\ (binary.status = "ok" /\ binary.value = p) <=> p.kind = "Binary"
=============================================================================
