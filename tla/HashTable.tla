------------------------------ MODULE HashTable ------------------------------
(***************************************************************************)
(* HashmapC.nc: a map in an array of Size entries, by open addressing.  A   *)
(* key is looked for along its probes, and removed without leaving a mark.  *)
(*                                                                         *)
(* That is a map only for some ways to use it.  RoutingTable never removes  *)
(* a key; SocketTable inserts one only when it is absent, as long as no     *)
(* user dials a peer he is connected with; NeighborTable removes keys and   *)
(* gives others that are present a new value.                               *)
(***************************************************************************)
EXTENDS Naturals, Sequences

CONSTANTS
  Key,          \* keys that are used
  Value,
  NoValue,      \* the value of an entry that was never written
  Size,         \* HASH_MAX_SIZE
  Use           \* which of the tables it is

EmptyKey == 0

ASSUME KeyAssumption == Key \subseteq Nat \ {EmptyKey}
ASSUME SizeAssumption == Size \in Nat \ {0}
ASSUME UseAssumption == Use \in {"RoutingTable", "SocketTable", "NeighborTable"}

Slot == 0 .. Size - 1           \* the places of map
Probe == 0 .. Size - 1          \* the tries of a loop

VARIABLES
  map,          \* map: key and value of every entry
  keys          \* keys[0 .. numofVals - 1]

vars == <<map, keys>>

\* the entry of the i-th try for k
Hash(k, i) == ((k % 13) + i * (1 + (k % 11))) % Size

Init ==
  /\ map = [j \in Slot |-> [key |-> EmptyKey, value |-> NoValue]]
  /\ keys = <<>>

\* i is the first try for k that finds one of the keys in want
FirstTry(k, want, i) ==
  /\ i \in Probe /\ map[Hash(k, i)].key \in want
  /\ \A h \in 0 .. i - 1 : map[Hash(k, h)].key \notin want

\* Hashmap.contains; the variant takes a free entry for the end of the search
Contains_Stops(k) == \E i \in Probe : FirstTry(k, {EmptyKey, k}, i)
                                      /\ map[Hash(k, i)].key = k
Contains(k) == \E i \in Probe : map[Hash(k, i)].key = k

\* Hashmap.insert writes k to the first entry on its way that is free or has
\* the key, and adds it to the list when the entry was free
Insert(k, v) ==
  /\ Use = "SocketTable" => ~Contains(k)
  /\ \E i \in Probe :
       LET j == Hash(k, i)
       IN  /\ FirstTry(k, {EmptyKey, k}, i)
           /\ map' = [map EXCEPT ![j] = [key |-> k, value |-> v]]
           /\ keys' = IF map[j].key = EmptyKey THEN Append(keys, k) ELSE keys

\* Hashmap.insert that finds no such entry returns and tells nobody
InsertLost(k, v) ==
  /\ Use = "SocketTable" => ~Contains(k)
  /\ \A i \in Probe : map[Hash(k, i)].key \notin {EmptyKey, k}
  /\ UNCHANGED vars

\* Hashmap.remove frees the first entry that has the key, and leaves its value;
\* removeFromKeyList takes out the first place of the key
Remove(k) ==
  /\ Use # "RoutingTable"
  /\ \E i \in Probe :
       /\ FirstTry(k, {k}, i)
       /\ map' = [map EXCEPT ![Hash(k, i)].key = EmptyKey]
  /\ \E m \in 1 .. Len(keys) :
       /\ keys[m] = k /\ \A h \in 1 .. m - 1 : keys[h] # k
       /\ keys' = SubSeq(keys, 1, m - 1) \o SubSeq(keys, m + 1, Len(keys))

\* Hashmap.remove of a key that is not found
RemoveAbsent(k) ==
  /\ Use # "RoutingTable"
  /\ ~Contains(k)
  /\ UNCHANGED vars

Next ==
  \E k \in Key : \/ \E v \in Value : Insert(k, v) \/ InsertLost(k, v)
                 \/ Remove(k) \/ RemoveAbsent(k)

Spec == Init /\ [][Next]_vars

-----------------------------------------------------------------------------
(* Properties                                                              *)

\* The types of the variables.
TypeOK ==
  /\ map \in [Slot -> [key : Key \cup {EmptyKey}, value : Value \cup {NoValue}]]
  /\ keys \in Seq(Key)

\* Hashmap.get of a key that is present
Get(k) ==
  LET i == CHOOSE h \in Probe : FirstTry(k, {k}, h)
  IN  map[Hash(k, i)].value

\* what contains and get tell of the table
Contents == [k \in {l \in Key : Contains(l)} |-> Get(k)]

\* To contains, get and getKeys the table is a map, however the keys collide:
\* an insert and a remove change what they tell of their key and of no other,
\* and the list has the keys that contains finds, each of them once.  It holds
\* for RoutingTable and SocketTable.  A key that does not fit is lost: the map
\* is then as it was.
Abstract == INSTANCE Dictionary WITH dict <- Contents, listed <- keys
IsDictionary == Abstract!Spec
=============================================================================
