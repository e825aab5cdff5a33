------------------------------ MODULE Dictionary ------------------------------
(***************************************************************************)
(* What the components that use HashmapC.nc rely on: a map from keys to     *)
(* values, and a list of its keys, each of them once, in the order they     *)
(* came.  It has no room for every key, so that an insert may change        *)
(* nothing; what is in it stays as it is until the next insert or remove    *)
(* of the same key.                                                         *)
(***************************************************************************)
EXTENDS Naturals, Sequences

CONSTANTS Key, Value

VARIABLES
  dict,         \* the values of the keys that are present
  listed        \* the keys that are present

Init == dict = [k \in {} |-> k] /\ listed = <<>>

Insert(k, v) ==
  /\ dict' = [l \in DOMAIN dict \cup {k} |-> IF l = k THEN v ELSE dict[l]]
  /\ listed' = IF k \in DOMAIN dict THEN listed ELSE Append(listed, k)

Remove(k) ==
  /\ k \in DOMAIN dict
  /\ dict' = [l \in DOMAIN dict \ {k} |-> dict[l]]
  /\ \E m \in 1 .. Len(listed) :
       /\ listed[m] = k
       /\ listed' = SubSeq(listed, 1, m - 1) \o SubSeq(listed, m + 1, Len(listed))

Next == \E k \in Key : Remove(k) \/ \E v \in Value : Insert(k, v)

Spec == Init /\ [][Next]_<<dict, listed>>
=============================================================================
