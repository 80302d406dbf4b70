------------------------------ MODULE Bencoded ------------------------------
(***************************************************************************)
(* A decoded bencode value as internal/bencode hands it to its callers: an *)
(* int64, a string, a []interface{} or a map[string]interface{}, tagged    *)
(* with its Go type so that a type assertion v.(T) can be modelled; the    *)
(* payload sits in the field named after the type.  A dictionary is a      *)
(* function from its keys to values.                                       *)
(***************************************************************************)
EXTENDS Sequences

IntVal(n) == [type |-> "int", int |-> n]
StrVal(s) == [type |-> "string", string |-> s]
ListVal(s) == [type |-> "list", list |-> s]
DictVal(f) == [type |-> "dict", dict |-> f]

\* The Go value held by v.
Val(v) == v[v.type]

\* _, ok := d[key].(T)
Has(d, key, type) == key \in DOMAIN d /\ d[key].type = type

\* The values of a []interface{} that pass the assertion to T, in order.
ItemsOf(list, type) ==
    LET kept == SelectSeq(list, LAMBDA v : v.type = type)
    IN [i \in DOMAIN kept |-> Val(kept[i])]
=============================================================================
