------------------------------- MODULE RustValues -------------------------------
(***************************************************************************)
(* The serializer of socket_io_parser over every Rust value: a value is    *)
(* nested in others, from the inside out, and each is converted.           *)
(***************************************************************************)
EXTENDS Serializer

P == INSTANCE SocketIoParser

CONSTANTS
    Scalars,  \* Rust values without parts
    MaxDepth  \* bound: levels of nesting around a scalar

VARIABLES value, depth

\* The Rust values with t as a part: alone, beside the scalar x, or as a
\* value, a key or both in a map.
Wrapped(t, x) ==
    LET entries == {<<<<k, t>>>> : k \in Scalars \cup {[k |-> "newtype_struct", of |-> x]}}
                   \cup {<<<<x, t>>, <<k, x>>>> : k \in Scalars} \cup {<<<<t, x>>>>}
        fields == <<<<[k |-> "str", v |-> "a"], t>>, <<[k |-> "str", v |-> "b"], x>>>>
    IN  [k : {"some", "newtype_struct"}, of : {t}]
        \cup [k : {"newtype_variant"}, name : {"V"}, of : {t}]
        \cup [k : {"seq", "tuple", "tuple_struct"}, items : {<<x, t>>, <<t, x>>}]
        \cup [k : {"tuple_variant"}, name : {"V"}, items : {<<>>, <<t, x>>}]
        \cup [k : {"map"}, entries : entries]
        \cup [k : {"struct"}, entries : {fields}]
        \cup [k : {"struct_variant"}, name : {"V"}, entries : {fields}]

Init == value \in Scalars /\ depth = 0

Nest ==
    /\ depth < MaxDepth
    /\ \E x \in Scalars : value' \in Wrapped(value, x)
    /\ depth' = depth + 1

\* The next value starts afresh.
Restart == value' \in Scalars /\ depth' = 0

Next == Nest \/ Restart

Spec == Init /\ [][Next]_<<value, depth>>

(***************************************************************************)
(* Properties.                                                             *)
(***************************************************************************)
\* A Rust value and all the values in it.
RECURSIVE Parts(_)
Parts(t) ==
    {t} \cup (IF "of" \in DOMAIN t THEN Parts(t.of) ELSE {})
        \cup (IF "items" \in DOMAIN t THEN UNION {Parts(x) : x \in ToSet(t.items)} ELSE {})
        \cup (IF "entries" \in DOMAIN t THEN UNION {Parts(e[2]) : e \in ToSet(t.entries)} ELSE {})

Maps(t) == {p \in Parts(t) : p.k = "map"}

\* What is left of a key when its newtype structs are taken off.
RECURSIVE Bare(_)
Bare(key) == IF key.k = "newtype_struct" THEN Bare(key.of) ELSE key

\* The keys of all the maps in a Rust value, with their newtype structs taken
\* off.
Keys(t) == UNION {{Bare(e[1]) : e \in ToSet(m.entries)} : m \in Maps(t)}


\* The scalars of a Rust value and the leaves of a packet's data, in order.
RECURSIVE ScalarsOf(_)
ScalarsOf(t) ==
    CASE "of" \in DOMAIN t -> ScalarsOf(t.of)
      [] "items" \in DOMAIN t -> FlattenSeq([i \in DOMAIN t.items |-> ScalarsOf(t.items[i])])
      [] "entries" \in DOMAIN t -> FlattenSeq([i \in DOMAIN t.entries |-> ScalarsOf(t.entries[i][2])])
      [] OTHER -> <<t>>

RECURSIVE LeavesOf(_)
LeavesOf(v) ==
    CASE v.kind = "Array" -> FlattenSeq([i \in DOMAIN v.items |-> LeavesOf(v.items[i])])
      [] v.kind = "Object" -> FlattenSeq([i \in DOMAIN v.entries |-> LeavesOf(v.entries[i][2])])
      [] OTHER -> <<v>>

Collides(m) ==
    \E i, j \in DOMAIN m.entries :
        i # j /\ KeyToString(m.entries[i][1]) = KeyToString(m.entries[j][1])

\* ser.rs and encoder.rs: unless two keys of a map have the same text (1 and
\* "1"), every scalar of a Rust value becomes one leaf of the packet's data,
\* in order, and the bytes among them, and nothing else, become the
\* attachments that follow the packet, in that order.
BytesBecomeAttachments ==
    LET v == ToValue(value)
        scalars == ScalarsOf(value)
        leaves == [i \in DOMAIN LeavesOf(v) |->
                      IF LeavesOf(v)[i].kind = "Binary" THEN P!Leaf("Binary", LeavesOf(v)[i].v)
                      ELSE P!NullLeaf]
        bytes == SelectSeq(scalars, LAMBDA t : t.k = "bytes")
    IN  v.kind # "Error" /\ (\A m \in Maps(value) : ~Collides(m)) =>
            /\ Len(leaves) = Len(scalars)
            /\ P!Deconstruct(P!Data(v.kind, leaves)).attachments
               = [i \in DOMAIN bytes |-> bytes[i].v]

\* Equal packet values; TLC compares no number with a string.
Same(v, w) == v.kind = w.kind /\ v = w

\* ser.rs: the keys of an object are distinct; of entries whose keys have the
\* same text the object has the last value.
LastValueWins ==
    value.k = "map" /\ ToValue(value).kind # "Error" =>
        LET given == value.entries
            kept == ToValue(value).entries
            text(e) == KeyToString(e[1]).v
        IN  /\ \A i, j \in DOMAIN kept : kept[i][1] = kept[j][1] => i = j
            /\ \A i \in DOMAIN given :
                   (\A j \in (i + 1) .. Len(given) : text(given[j]) # text(given[i]))
                   => \E n \in DOMAIN kept : /\ kept[n][1] = text(given[i])
                                            /\ Same(kept[n][2], ToValue(given[i][2]))
=============================================================================
