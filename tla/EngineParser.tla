----------------------------- MODULE EngineParser -----------------------------
(***************************************************************************)
(* The encoders and decoders of engine_io_parser (string.rs, binary.rs,    *)
(* decoder.rs, packet.rs).                                                 *)
(*                                                                         *)
(* A character of a string is a number: 0 to 9 are the digits, the others  *)
(* have a name.  A byte is its value.  A packet has a type, the kind of    *)
(* its data and the data: characters for Text, bytes for Binary.  A parser *)
(* of nom returns Ok with the rest of the input, an Error, after which     *)
(* another alternative is tried or a repetition ends, or a Failure, which  *)
(* ends the whole parse.                                                   *)
(***************************************************************************)
EXTENDS Decimals, SequencesExt

CONSTANTS
    MaxUsize,  \* the largest usize
    MaxU32     \* the largest u32

ASSUME MaxAssumption == MaxUsize \in Nat /\ MaxU32 \in Nat

Colon   == 10
LetterB == 11
Letter  == 12   \* any other character

PacketTypes == 0 .. 6

Text(t, data)   == [type |-> t, kind |-> "Text", data |-> data]
Binary(t, data) == [type |-> t, kind |-> "Binary", data |-> data]
Empty(t)        == [type |-> t, kind |-> "Empty", data |-> <<>>]

Ok(rest, value) == [status |-> "ok", rest |-> rest, value |-> value]
Error           == [status |-> "error"]
Failure         == [status |-> "failure"]
\* `x - 1` of a usize 0, or a u32 that is too large: a panic in a debug build.
Underflow       == [status |-> "panic"]
Overflow        == [status |-> "panic"]

Take(n, s) == IF Len(s) < n THEN Error ELSE Ok(SubSeq(s, n + 1, Len(s)), SubSeq(s, 1, n))

\* The elements of s before the first that is not in set (digit1, take_till1).
Leading(set, s) == SelectInSeq(s, LAMBDA x : x \notin set) - 1
TakeWhile1(set, s) ==
    LET n == IF \E i \in DOMAIN s : s[i] \notin set THEN Leading(set, s) ELSE Len(s)
    IN  IF n = 0 THEN Error ELSE Take(n, s)

\* fold_many0: items until an Error; a Failure is passed on.  No packet of a
\* payload is shorter than three elements.
Folded(state, r) ==
    CASE r.status = "ok" -> [status |-> "running", rest |-> r.rest,
                             items |-> Append(state.items, r.value)]
      [] r.status = "error" -> [state EXCEPT !.status = "ok"]
      [] OTHER -> [state EXCEPT !.status = r.status]

FoldMany0(parse(_), input) ==
    LET limit == Len(input) \div 3 + 1
        states[i \in 0 .. limit] ==
            IF i = 0 THEN [status |-> "running", rest |-> input, items |-> <<>>]
            ELSE LET state == states[i - 1]
                 IN  IF state.status = "running" THEN Folded(state, parse(state.rest)) ELSE state
    IN  states[limit]

-----------------------------------------------------------------------------
(* string.rs *)

\* take_u8 and take_usize: all the digits there are.
TakeNumber(max, s) ==
    LET r == TakeWhile1(Digits, s)
    IN  IF r.status # "ok" THEN r
        ELSE IF Value(r.value) > max THEN Failure ELSE Ok(r.rest, Value(r.value))

TakeU8(s) == TakeNumber(255, s)
TakeUsize(s) == TakeNumber(MaxUsize, s)

\* base64: four characters for a chunk of three bytes, which one number
\* stands for here.  A chunk from 208 up is one whose first character is a
\* digit.
Chunk(c) == <<IF c \in 208 .. 247 THEN (c - 208) \div 4 ELSE Letter, c + 100, c + 101, c + 102>>
Base64Encode(data) ==
    [i \in 1 .. 4 * Len(data) |-> Chunk(data[(i + 3) \div 4])[((i - 1) % 4) + 1]]
Base64Decode(s) ==
    LET n == Len(s) \div 4
        chunk(i) == SubSeq(s, 4 * i - 3, 4 * i)
        data == [i \in 1 .. n |-> chunk(i)[2] - 100]
    IN  IF Len(s) = 4 * n /\ \A i \in 1 .. n : data[i] \in 0 .. 255 /\ chunk(i) = Chunk(data[i])
        THEN Ok(<<>>, data) ELSE Failure

StringSerializePacket(p) ==
    <<p.type>> \o (IF p.kind = "Binary" THEN Base64Encode(p.data) ELSE p.data)

\* Faulty: the length leaves the letter out.
StringSerializePayloadShort(ps) ==
    LET one(p) == LET s == StringSerializePacket(p) IN
            CASE p.kind = "Binary" -> Decimal[Len(s)] \o <<Colon, LetterB>> \o s
              [] p.kind = "Text"   -> Decimal[Len(s)] \o <<Colon>> \o s
              [] OTHER -> <<>>
    IN  FlattenSeq([i \in 1 .. Len(ps) |-> one(ps[i])])

\* The letter b before base64 counts; a packet without data is left out.
StringSerializePayload(ps) ==
    LET one(p) == LET s == StringSerializePacket(p) IN
            CASE p.kind = "Binary" -> Decimal[Len(s) + 1] \o <<Colon, LetterB>> \o s
              [] p.kind = "Text"   -> Decimal[Len(s)] \o <<Colon>> \o s
              [] OTHER -> <<>>
    IN  FlattenSeq([i \in 1 .. Len(ps) |-> one(ps[i])])

\* The type, then n characters of data.
ParsePlaintext(n, s) ==
    LET t == TakeU8(s)
        d == Take(n, t.rest)
    IN  IF t.status # "ok" THEN t
        ELSE IF d.status # "ok" THEN d
        ELSE IF t.value \notin PacketTypes THEN Error
        ELSE Ok(d.rest, Text(t.value, d.value))

ParseBase64(n, s) ==
    LET t == TakeU8(Tail(s))
        d == Take(n - 1, t.rest)
        b == Base64Decode(d.value)
    IN  IF s = <<>> \/ Head(s) # LetterB THEN Error
        ELSE IF n = 0 THEN Underflow
        ELSE IF t.status # "ok" THEN t
        ELSE IF d.status # "ok" THEN d
        ELSE IF t.value \notin PacketTypes THEN Error
        ELSE IF b.status # "ok" THEN b
        ELSE Ok(d.rest, Binary(t.value, b.value))

\* The length, a colon, and one of the two forms, the plain one first.
ParseStringPacketInPayload(s) ==
    LET len == TakeUsize(s)
        plain == ParsePlaintext(len.value - 1, Tail(len.rest))
    IN  IF len.status # "ok" THEN len
        ELSE IF len.rest = <<>> \/ Head(len.rest) # Colon THEN Error
        ELSE IF len.value = 0 THEN Underflow
        ELSE IF plain.status # "error" THEN plain
        ELSE ParseBase64(len.value - 1, Tail(len.rest))

\* decode_payload gives what was parsed, whatever is left of the input.
StringDecodePayload(s) == FoldMany0(ParseStringPacketInPayload, s)

\* decode_packet: all that follows the type is data.
StringDecodePacket(s) ==
    LET t == TakeU8(s) IN IF t.status # "ok" THEN t ELSE ParsePlaintext(Len(t.rest), s)

-----------------------------------------------------------------------------
(* binary.rs *)

Separator == 255
AsciiZero == 48
AsciiDigits == AsciiZero .. AsciiZero + 9

\* as_bytes(): the letters stand for other ASCII characters.
Bytes(text) == [i \in 1 .. Len(text) |->
    IF text[i] \in Digits THEN AsciiZero + text[i] ELSE 80 + text[i]]

\* Faulty: the digits are written from the most significant one.
EncodePacketLengthBig(n) == Decimal[n]

\* The decimal digits, the least significant first, one in each byte.
EncodePacketLength(n) == Reverse(Decimal[n])

\* Byte i counts 10^(i - 1) times, in a u32, which holds no larger power of
\* ten than the one with as many digits as MaxU32.
ParsePacketLength(s) ==
    LET r == TakeWhile1(0 .. 254, s)
        sum == Value(Reverse(r.value))
    IN  IF r.status # "ok" THEN r
        ELSE IF Len(r.value) > Len(Decimal[MaxU32]) \/ sum > MaxU32 THEN Overflow
        ELSE Ok(r.rest, sum)

\* Text and Empty have the type as an ASCII digit.
BinarySerializePacket(p) ==
    CASE p.kind = "Text"   -> <<AsciiZero + p.type>> \o Bytes(p.data)
      [] p.kind = "Binary" -> <<p.type>> \o p.data
      [] OTHER             -> <<AsciiZero + p.type>>

BinarySerializePayload(ps) ==
    LET length(p) == EncodePacketLength(Len(p.data) + 1)
        one(p) == LET s == BinarySerializePacket(p) IN
            CASE p.kind = "Text"   -> <<0>> \o length(p) \o <<Separator>> \o s
              [] p.kind = "Binary" -> <<1>> \o length(p) \o <<Separator>> \o s
              [] OTHER             -> <<1, AsciiZero, Separator>> \o s
    IN  FlattenSeq([i \in 1 .. Len(ps) |-> one(ps[i])])

ParseBinaryDataPacket(n, s) ==
    LET d == Take(n, Tail(s))
    IN  IF s = <<>> THEN Error
        ELSE IF d.status # "ok" THEN d
        ELSE IF Head(s) \notin PacketTypes THEN Error
        ELSE Ok(d.rest, Binary(Head(s), d.value))

\* All the ASCII digits are taken and the first is the type.  The text is
\* checked to be UTF-8 and returned as Binary.
ParseStringDataPacket(n, s) ==
    LET t == TakeWhile1(AsciiDigits, s)
        d == Take(n, t.rest)
    IN  IF t.status # "ok" THEN t
        ELSE IF d.status # "ok" THEN d
        ELSE IF t.value[1] - AsciiZero \notin PacketTypes THEN Error
        ELSE IF \E i \in 1 .. n : d.value[i] > 127 THEN Failure
        ELSE Ok(d.rest, Binary(t.value[1] - AsciiZero, d.value))

ParseBinaryPacketInPayload(s) ==
    LET len == ParsePacketLength(Tail(s))
        after == Tail(len.rest)
    IN  IF s = <<>> THEN Error
        ELSE IF Head(s) \notin {0, 1} THEN Failure
        ELSE IF len.status # "ok" THEN len
        ELSE IF len.rest = <<>> THEN Error
        ELSE IF len.value = 0 THEN Underflow
        ELSE IF Head(s) = 0 THEN ParseStringDataPacket(len.value - 1, after)
        ELSE ParseBinaryDataPacket(len.value - 1, after)

BinaryDecodePayload(s) == FoldMany0(ParseBinaryPacketInPayload, s)

\* Faulty: the type is expected as an ASCII digit.
BinaryDecodePacketAscii(s) == ParseStringDataPacket(Len(s) - 1, s)

BinaryDecodePacket(s) == ParseBinaryDataPacket(Len(s) - 1, s)
=============================================================================
