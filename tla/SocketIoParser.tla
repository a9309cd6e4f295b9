---------------------------- MODULE SocketIoParser ----------------------------
(***************************************************************************)
(* The default encoder and decoder of socket_io_parser (encoder.rs,        *)
(* decoder.rs, packet.rs).                                                 *)
(*                                                                         *)
(* An encoded packet is a sequence of tokens: single characters, and the   *)
(* JSON text, which is one token.  A namespace is the characters of its    *)
(* name.  The data of a packet is the shape of its outermost value and its *)
(* leaves in the order in which they are visited, with a mark where a      *)
(* nested array or object begins.                                          *)
(***************************************************************************)
EXTENDS Decimals, SequencesExt

ProtoTypes == {"Connect", "Disconnect", "Event", "Ack", "ConnectError",
                "BinaryEvent", "BinaryAck"}
BinaryTypes == {"BinaryEvent", "BinaryAck"}

Code == [Connect |-> 0, Disconnect |-> 1, Event |-> 2, Ack |-> 3, ConnectError |-> 4,
         BinaryEvent |-> 5, BinaryAck |-> 6]

\* Leaves: a string, null, the attachment n, the object that stands for
\* attachment n in JSON, or the mark of a nested array or object.
Leaf(kind, n) == [kind |-> kind, n |-> n]
StringLeaf == Leaf("String", 0)
NullLeaf == Leaf("Null", 0)

Data(shape, leaves) == [shape |-> shape, leaves |-> leaves]
Null == Data("Null", <<>>)

\* An Option: a sequence of at most one value.
Packet(type, id, nsp, data) == [type |-> type, id |-> id, nsp |-> nsp, data |-> data]

Digit(d) == [token |-> "digit", digit |-> d]
Dash == [token |-> "dash"]
Slash == [token |-> "slash"]
Comma == [token |-> "comma"]
NameChar == [token |-> "name"]  \* any character with no meaning of its own
NameTokens == {Digit(d) : d \in Digits} \cup {Dash, Slash, Comma, NameChar}
Json(v) == [token |-> "json", json |-> v]

\* The namespace "/".
Root == <<Slash>>

\* to_string() of a number.
Number(n) == [i \in 1 .. Len(Decimal[n]) |-> Digit(Decimal[n][i])]

-----------------------------------------------------------------------------
(* encoder.rs *)

\* The values of an object are collected into an array.
AsArray(leaf) == IF leaf.kind = "Object" THEN Leaf("Array", leaf.n) ELSE leaf

\* Faulty: the attachment is pushed before it is counted.
ReplaceFromOne(done, leaf) ==
    IF leaf.kind = "Binary"
    THEN [json |-> Append(done.json, Leaf("Placeholder", Len(done.attachments) + 1)),
          attachments |-> Append(done.attachments, leaf.n)]
    ELSE [done EXCEPT !.json = Append(@, AsArray(leaf))]

\* An attachment is counted and replaced by its index.
Replace(done, leaf) ==
    IF leaf.kind = "Binary"
    THEN [json |-> Append(done.json, Leaf("Placeholder", Len(done.attachments))),
          attachments |-> Append(done.attachments, leaf.n)]
    ELSE [done EXCEPT !.json = Append(@, AsArray(leaf))]

\* The attachments in the order of the leaves.
Deconstruct(v) ==
    LET done[i \in 0 .. Len(v.leaves)] ==
            IF i = 0 THEN [json |-> <<>>, attachments |-> <<>>]
            ELSE Replace(done[i - 1], v.leaves[i])
    IN  done[Len(v.leaves)]

\* What goes into the JSON text.
HeaderData(v) ==
    Data(IF v.shape = "Object" THEN "Array" ELSE v.shape, Deconstruct(v).json)

\* Faulty: the namespace is left out.
EncodePacketNoNamespace(p) ==
    LET count == Len(Deconstruct(p.data).attachments)
    IN  <<Digit(Code[p.type])>>
        \o (IF p.type \in BinaryTypes THEN Append(Number(count), Dash) ELSE <<>>)
        \o (IF p.id # <<>> THEN Number(p.id[1]) ELSE <<>>)
        \o (IF HeaderData(p.data) # Null THEN <<Json(HeaderData(p.data))>> ELSE <<>>)

EncodePacket(p) ==
    LET count == Len(Deconstruct(p.data).attachments)
    IN  <<Digit(Code[p.type])>>
        \o (IF p.type \in BinaryTypes THEN Append(Number(count), Dash) ELSE <<>>)
        \o (IF p.nsp # Root THEN Append(p.nsp, Comma) ELSE <<>>)
        \o (IF p.id # <<>> THEN Number(p.id[1]) ELSE <<>>)
        \o (IF HeaderData(p.data) # Null THEN <<Json(HeaderData(p.data))>> ELSE <<>>)

-----------------------------------------------------------------------------
(* decoder.rs *)

Failed == [status |-> "failed"]
Parsed(rest, value) == [status |-> "ok", rest |-> rest, value |-> value]

Starts(s, token) == s # <<>> /\ Head(s).token = token

\* digit1: all the digits there are.
LeadingDigits(s) ==
    LET n == SelectInSeq(s, LAMBDA x : x.token # "digit")
    IN  IF n = 0 THEN Len(s) ELSE n - 1
DigitsOf(s) == [i \in 1 .. LeadingDigits(s) |-> s[i].digit]
AfterDigits(s) == SubSeq(s, LeadingDigits(s) + 1, Len(s))

\* take_u8 parses what it took as one number.
TakeCode(s) ==
    LET v == Value(DigitsOf(s))
    IN  IF LeadingDigits(s) = 0 \/ v > 255 THEN Failed ELSE Parsed(AfterDigits(s), v)

\* digits_to_u32: the last digit has weight ten.
DigitsToU32(digits) == 10 * Value(digits)

\* Digits and a dash, as in the attachment count and the id.
TakeCount(s) ==
    IF LeadingDigits(s) = 0 \/ ~Starts(AfterDigits(s), "dash") THEN Failed
    ELSE Parsed(Tail(AfterDigits(s)), DigitsToU32(DigitsOf(s)))

\* take_till1 goes up to the first comma, which is dropped; without one there
\* is nothing left to drop.
ParseNamespace(s) ==
    LET comma == SelectInSeq(s, LAMBDA x : x.token = "comma")
    IN  IF ~Starts(s, "slash") THEN Parsed(s, Root)
        ELSE IF comma = 0 THEN Failed
        ELSE Parsed(SubSeq(s, comma + 1, Len(s)), SubSeq(s, 1, comma - 1))

ParseId(s) ==
    IF LeadingDigits(s) = 0 THEN Parsed(s, <<>>)
    ELSE LET r == TakeCount(s)
         IN  IF r.status = "ok" THEN Parsed(r.rest, <<r.value>>) ELSE r

\* What is not exactly one JSON value is taken for null.
ParseJson(s) == IF Len(s) = 1 /\ Starts(s, "json") THEN Head(s).json ELSE Null

IsPayloadValid(type, v) ==
    CASE type = "Connect"      -> v.shape = "Object"
      [] type = "Disconnect"   -> v.shape = "Null"
      [] type = "ConnectError" -> v.shape \in {"String", "Object"}
      [] type \in {"Event", "BinaryEvent"} ->
            v.shape = "Array" /\ v.leaves # <<>> /\ v.leaves[1].kind = "String"
      [] OTHER -> v.shape = "Array"

\* Each attachment is handed out once; an index without one becomes null.
PutBack(attachments, done, leaf) ==
    IF leaf.kind # "Placeholder" THEN [done EXCEPT !.leaves = Append(@, leaf)]
    ELSE IF leaf.n \in done.left
    THEN [leaves |-> Append(done.leaves, Leaf("Binary", attachments[leaf.n + 1])),
          left |-> done.left \ {leaf.n}]
    ELSE [done EXCEPT !.leaves = Append(@, NullLeaf)]

Reconstruct(v, attachments) ==
    LET done[i \in 0 .. Len(v.leaves)] ==
            IF i = 0 THEN [leaves |-> <<>>, left |-> 0 .. Len(attachments) - 1]
            ELSE PutBack(attachments, done[i - 1], v.leaves[i])
    IN  Data(v.shape, done[Len(v.leaves)].leaves)

\* parse_proto_packet: a Plain packet, or a Multipart header with the count
\* of the attachments to wait for.
DecodeProtoPacket(s) ==
    LET code  == TakeCode(s)
        type  == CHOOSE t \in ProtoTypes : Code[t] = code.value
        count == IF type \in BinaryTypes THEN TakeCount(code.rest) ELSE Parsed(code.rest, 0)
        nsp   == ParseNamespace(count.rest)
        id    == ParseId(nsp.rest)
        data  == ParseJson(id.rest)
    IN  IF code.status # "ok" THEN Failed
        ELSE IF code.value \notin 0 .. 6 THEN Failed
        ELSE IF count.status # "ok" THEN Failed
        ELSE IF nsp.status # "ok" THEN Failed
        ELSE IF id.status # "ok" THEN Failed
        ELSE IF ~IsPayloadValid(type, data) THEN Failed
        ELSE [status |-> IF count.value > 0 THEN "multipart" ELSE "plain",
              packet |-> Packet(type, id.value, nsp.value, data), count |-> count.value]
=============================================================================
