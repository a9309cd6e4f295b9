------------------------------ MODULE Serializer ------------------------------
(***************************************************************************)
(* to_value of socket_io_parser (ser.rs, lib.rs): how a value of a Rust    *)
(* type becomes a PacketDataValue.  A Rust value is what serde shows a     *)
(* Serializer: a record with the method that is called, k, and its         *)
(* argument: a scalar v, a nested value of, a sequence items, or a         *)
(* sequence entries of pairs of a key and a value.  Variants have a name.  *)
(***************************************************************************)
EXTENDS Integers, Sequences, SequencesExt, TLC

Failed == [kind |-> "Error"]
Null == [kind |-> "Null"]
Leaf(kind, v) == [kind |-> kind, v |-> v]
Array(items) == [kind |-> "Array", items |-> items]
Object(entries) == [kind |-> "Object", entries |-> entries]

IsError(r) == r.kind = "Error"

-----------------------------------------------------------------------------
(* The parts of MapKeySerializer *)

\* The methods of MapKeySerializer that return a string; all the others,
\* serialize_bool, _f64, _bytes, _unit, _none, _some and the compound ones,
\* return an error.
KeyMethods == {"str", "char", "unit_variant", "int", "newtype_struct"}

\* Faulty: booleans are keys as well.
RECURSIVE KeyToStringBool(_)
KeyToStringBool(key) ==
    CASE key.k = "newtype_struct" -> KeyToStringBool(key.of)
      [] key.k \notin KeyMethods \cup {"bool"} -> Failed
      [] key.k \in {"int", "bool"} -> Leaf("String", ToString(key.v))
      [] OTHER -> Leaf("String", key.v)

\* A number becomes its decimal text.
RECURSIVE KeyToString(_)
KeyToString(key) ==
    CASE key.k = "newtype_struct" -> KeyToString(key.of)
      [] key.k \notin KeyMethods -> Failed
      [] key.k = "int" -> Leaf("String", ToString(key.v))
      [] OTHER -> Leaf("String", key.v)

\* Faulty: the first value of a key stays.
InsertFirst(entries, key, value) ==
    IF \E i \in DOMAIN entries : entries[i][1] = key THEN entries
    ELSE Append(entries, <<key, value>>)

\* IndexMap::insert: a key that is there keeps its place and gets the new value.
Insert(entries, key, value) ==
    IF \E i \in DOMAIN entries : entries[i][1] = key
    THEN [i \in DOMAIN entries |->
             IF entries[i][1] = key THEN <<key, value>> ELSE entries[i]]
    ELSE Append(entries, <<key, value>>)

-----------------------------------------------------------------------------
(* The parts of Serializer *)

\* Faulty: bytes are written as an array of numbers, as serde_json does.
ScalarBytesArray(t) ==
    CASE t.k = "bool"                         -> Leaf("Bool", t.v)
      [] t.k = "int"                          -> Leaf("Number", t.v)
      [] t.k = "float"                        -> IF t.v = "finite" THEN Leaf("Number", 0) ELSE Null
      [] t.k \in {"char", "str"}              -> Leaf("String", t.v)
      [] t.k = "unit_variant"                 -> Leaf("String", t.v)
      [] t.k = "bytes"                        -> Array(<<Leaf("Number", t.v)>>)
      [] OTHER                                -> Null

\* Integers of all widths are numbers; a float that is not finite is null.
Scalar(t) ==
    CASE t.k = "bool"                         -> Leaf("Bool", t.v)
      [] t.k = "int"                          -> Leaf("Number", t.v)
      [] t.k = "float"                        -> IF t.v = "finite" THEN Leaf("Number", 0) ELSE Null
      [] t.k \in {"char", "str"}              -> Leaf("String", t.v)
      [] t.k = "unit_variant"                 -> Leaf("String", t.v)
      [] t.k = "bytes"                        -> Leaf("Binary", t.v)
      [] OTHER                                -> Null    \* unit, unit_struct, none

\* SerializeVec and SerializeTupleVariant push one element after the other;
\* the first error is the result.
Push(acc, value) ==
    IF IsError(acc) THEN acc
    ELSE IF IsError(value) THEN Failed
    ELSE Array(Append(acc.items, value))

\* SerializeMap: the key, then the value, then the insertion.
PutEntry(acc, key, value) ==
    IF IsError(acc) THEN acc
    ELSE IF IsError(key) \/ IsError(value) THEN Failed
    ELSE Object(Insert(acc.entries, key.v, value))

\* A variant with data is an object with one key, its name.
Variant(name, value) ==
    IF IsError(value) THEN Failed ELSE Object(<<<<name, value>>>>)

RECURSIVE ToValue(_)
ToValue(t) ==
    LET elements == FoldLeft(LAMBDA acc, x : Push(acc, ToValue(x)), Array(<<>>), t.items)
        object == FoldLeft(LAMBDA acc, e : PutEntry(acc, KeyToString(e[1]), ToValue(e[2])),
                           Object(<<>>), t.entries)
    IN  CASE t.k \in {"some", "newtype_struct"}        -> ToValue(t.of)
          [] t.k \in {"seq", "tuple", "tuple_struct"}  -> elements
          [] t.k \in {"map", "struct"}                 -> object
          [] t.k = "newtype_variant"                   -> Variant(t.name, ToValue(t.of))
          [] t.k = "tuple_variant"                     -> Variant(t.name, elements)
          [] t.k = "struct_variant"                    -> Variant(t.name, object)
          [] OTHER                                     -> Scalar(t)
=============================================================================
