--------------------------- MODULE HashTable_proofs ---------------------------
(***************************************************************************)
(* HashTable is a map (Dictionary) for the ways RoutingTable and            *)
(* SocketTable are used, whatever its size, its keys and their collisions.  *)
(***************************************************************************)
EXTENDS HashTable, WellFoundedInduction, SequenceTheorems, TLAPS

Entry == [key : Key \cup {EmptyKey}, value : Value \cup {NoValue}]

\* An entry lies where its key is looked for.
OnItsWay ==
  \A j \in Slot : map[j].key # EmptyKey =>
    \E i \in Probe : Hash(map[j].key, i) = j

\* No key is in the map twice.
Unique ==
  \A j, l \in Slot : map[j].key = map[l].key /\ map[j].key # EmptyKey => j = l

\* In a table nothing is removed from there is no free entry before a key.
NoGap ==
  Use = "RoutingTable" =>
    \A k \in Key : Contains(k) =>
      \E i \in Probe : /\ map[Hash(k, i)].key = k
                       /\ \A h \in 0 .. i - 1 : map[Hash(k, h)].key # EmptyKey

Inv == TypeOK /\ OnItsWay /\ Unique /\ NoGap

-----------------------------------------------------------------------------

\* A try is a place of the table.
LEMMA HashIsSlot ==
  ASSUME NEW k \in Key, NEW i \in Nat
  PROVE  Hash(k, i) \in Slot
<1>1. k \in Nat /\ Size \in Nat \ {0}
  BY KeyAssumption, SizeAssumption
<1>2. (k % 13) \in Nat /\ 1 + (k % 11) \in Nat
  BY <1>1
<1>3. i * (1 + (k % 11)) \in Nat
  BY <1>2
<1>4. (k % 13) + i * (1 + (k % 11)) \in Nat
  BY <1>2, <1>3
<1> QED
  BY <1>1, <1>4 DEF Hash, Slot

\* A key is found if and only if it has a place, and get returns the value that
\* is there.
Places ==
  /\ DOMAIN Contents \subseteq Key
  /\ Contents = [k \in DOMAIN Contents |-> Contents[k]]
  /\ \A k \in DOMAIN Contents : \E j \in Slot : map[j].key = k
  /\ \A k \in Key, j \in Slot :
       map[j].key = k => k \in DOMAIN Contents /\ Contents[k] = map[j].value

\* So it is in every table of the invariant.
LEMMA Found == Inv => Places
<1> SUFFICES ASSUME Inv PROVE Places
  OBVIOUS
<1>1. ASSUME NEW k \in Key
      PROVE  k # EmptyKey /\ \A i \in Probe : i \in Nat /\ Hash(k, i) \in Slot
  BY KeyAssumption, SizeAssumption, HashIsSlot DEF Probe
<1>2. DOMAIN Contents = {k \in Key : Contains(k)}
  BY DEF Contents
<1>3. ASSUME NEW k \in DOMAIN Contents PROVE \E j \in Slot : map[j].key = k
  BY <1>1, <1>2 DEF Contains
<1>4. ASSUME NEW k \in Key, NEW j \in Slot, map[j].key = k
      PROVE  k \in DOMAIN Contents /\ Contents[k] = map[j].value
  <2>1. Contains(k)
    BY <1>1, <1>4 DEF Inv, OnItsWay, Contains
  <2> DEFINE tries == {i \in Probe : map[Hash(k, i)].key = k}
  <2>2. tries \in SUBSET Nat /\ tries # {}
    BY <1>1, <2>1 DEF Contains
  <2>3. PICK i \in tries : \A h \in tries : i <= h
    <3> DEFINE less == OpToRel(<, Nat)
    <3>1. \A m, n \in Nat : <<m, n>> \notin less => n <= m
      BY DEF OpToRel
    <3> HIDE DEF tries, less
    <3>2. \E n \in tries : \A m \in tries : <<m, n>> \notin less
      BY <2>2, NatLessThanWellFounded, WFMin DEF less
    <3> QED
      BY <2>2, <3>1, <3>2
  <2>4. \A h \in 0 .. i - 1 : h \in Probe /\ h \notin tries
    BY <1>1, <2>3, SizeAssumption DEF Probe
  <2>5. FirstTry(k, {k}, i)
    BY <2>3, <2>4 DEF FirstTry
  <2> DEFINE first == CHOOSE h \in Probe : FirstTry(k, {k}, h)
  <2>6. first \in Probe /\ FirstTry(k, {k}, first)
    BY <2>3, <2>5
  <2>7. Hash(k, first) \in Slot /\ map[Hash(k, first)].key = k
    BY <1>1, <2>6 DEF FirstTry
  <2>8. Hash(k, first) = j
    BY <1>1, <1>4, <2>7 DEF Inv, Unique
  <2>9. Get(k) = map[j].value
    BY <2>8 DEF Get
  <2> QED
    BY <2>1, <2>9 DEF Contents
<1>5. Contents = [k \in DOMAIN Contents |-> Contents[k]]
  BY DEF Contents
<1> QED
  BY <1>2, <1>3, <1>4, <1>5 DEF Places

\* An insert that takes a free entry has no entry of its key anywhere.
LEMMA NewKeyIsAbsent ==
  ASSUME Inv, Use # "NeighborTable", NEW k \in Key, NEW i \in Probe,
         Use = "SocketTable" => ~Contains(k),
         FirstTry(k, {EmptyKey, k}, i), map[Hash(k, i)].key = EmptyKey
  PROVE  ~Contains(k)
<1>1. CASE Use = "SocketTable"
  BY <1>1
<1>2. CASE Use = "RoutingTable"
  <2> SUFFICES ASSUME Contains(k) PROVE FALSE
    OBVIOUS
  <2>1. PICK l \in Probe :
          /\ map[Hash(k, l)].key = k
          /\ \A h \in 0 .. l - 1 : map[Hash(k, h)].key # EmptyKey
    BY <1>2 DEF Inv, NoGap
  <2>2. k # EmptyKey /\ i \in Nat /\ l \in Nat
    BY KeyAssumption, SizeAssumption DEF Probe
  <2>3. ~(l < i)
    BY <2>1, <2>2 DEF FirstTry
  <2>4. ~(i < l)
    BY <2>1, <2>2
  <2> QED
    BY <2>1, <2>2, <2>3, <2>4
<1> QED
  BY <1>1, <1>2, UseAssumption

\* The table begins empty.
LEMMA InitInv == Init => Inv
<1> SUFFICES ASSUME Init PROVE Inv
  OBVIOUS
<1>1. TypeOK /\ \A j \in Slot : map[j].key = EmptyKey
  BY DEF Init, TypeOK
<1>3. ASSUME NEW k \in Key PROVE ~Contains(k)
  <2>1. k # EmptyKey /\ \A i \in Probe : Hash(k, i) \in Slot
    BY KeyAssumption, SizeAssumption, HashIsSlot DEF Probe
  <2> QED
    BY <1>1, <2>1 DEF Contains
<1> QED
  BY <1>1, <1>3 DEF Inv, OnItsWay, Unique, NoGap

\* An insert that finds an entry leaves every other key where it is.
LEMMA InsertInv ==
  ASSUME Inv, Use # "NeighborTable", NEW k \in Key, NEW v \in Value, Insert(k, v)
  PROVE  Inv'
<1>1. PICK i \in Probe :
        /\ FirstTry(k, {EmptyKey, k}, i)
        /\ map' = [map EXCEPT ![Hash(k, i)] = [key |-> k, value |-> v]]
        /\ keys' = IF map[Hash(k, i)].key = EmptyKey THEN Append(keys, k) ELSE keys
  BY DEF Insert
<1> DEFINE j == Hash(k, i)
<1>2. k # EmptyKey /\ j \in Slot /\ i \in Nat
  BY KeyAssumption, SizeAssumption, HashIsSlot DEF Probe
<1>3. map[j].key \in {EmptyKey, k}
  BY <1>1 DEF FirstTry
<1>4. map \in [Slot -> Entry] /\ keys \in Seq(Key)
  BY DEF Inv, TypeOK, Entry
<1>5. /\ map' \in [Slot -> Entry] /\ map'[j].key = k /\ map'[j].value = v
      /\ \A l \in Slot \ {j} : map'[l] = map[l]
  BY <1>1, <1>2, <1>4 DEF Entry
<1>6. ASSUME NEW l \in Slot, map[l].key = k PROVE l = j
  <2>1. Contains(k)
    BY <1>6, Found DEF Places, Contents
  <2>2. map[j].key # EmptyKey
    BY <1>1, <2>1, NewKeyIsAbsent DEF Insert
  <2> QED
    BY <1>2, <1>3, <1>6, <2>2 DEF Inv, Unique
<1>7. TypeOK'
  BY <1>1, <1>4, <1>5 DEF TypeOK, Entry
<1>8. OnItsWay'
  BY <1>2, <1>5 DEF Inv, OnItsWay
<1>9. Unique'
  BY <1>2, <1>5, <1>6 DEF Inv, Unique
<1>10. NoGap'
  <2> SUFFICES ASSUME Use = "RoutingTable", NEW l \in Key, Contains(l)'
      PROVE  \E q \in Probe :
               /\ map'[Hash(l, q)].key = l
               /\ \A h \in 0 .. q - 1 : map'[Hash(l, h)].key # EmptyKey
    BY DEF NoGap, Hash, Contains
  <2>0. l # EmptyKey /\ \A h \in Nat : Hash(l, h) \in Slot
    BY KeyAssumption, HashIsSlot
  <2>1. CASE l = k
    <3>1. \A h \in 0 .. i - 1 : map'[Hash(l, h)].key # EmptyKey
      BY <1>1, <1>2, <1>5, <2>0, <2>1 DEF FirstTry
    <3> QED
      BY <1>5, <2>1, <3>1
  <2>2. CASE l # k
    <3>1. PICK p \in Probe : map'[Hash(l, p)].key = l
      BY DEF Contains, Hash
    <3>2. Hash(l, p) \in Slot \ {j}
      BY <1>5, <2>0, <2>2, <3>1, SizeAssumption DEF Probe
    <3>3. Contains(l)
      BY <1>5, <3>1, <3>2 DEF Contains
    <3>4. PICK q \in Probe :
            /\ map[Hash(l, q)].key = l
            /\ \A h \in 0 .. q - 1 : map[Hash(l, h)].key # EmptyKey
      BY <3>3 DEF Inv, NoGap
    <3>5. Hash(l, q) \in Slot \ {j}
      BY <1>3, <2>0, <2>2, <3>4, SizeAssumption DEF Probe
    <3>6. ASSUME NEW h \in 0 .. q - 1 PROVE map'[Hash(l, h)].key # EmptyKey
      <4>1. h \in Nat /\ Hash(l, h) \in Slot
        BY <2>0, SizeAssumption DEF Probe
      <4> QED
        BY <1>2, <1>5, <3>4, <4>1
    <3> QED
      BY <1>5, <3>4, <3>5, <3>6
  <2> QED
    BY <2>1, <2>2
<1> QED
  BY <1>7, <1>8, <1>9, <1>10 DEF Inv

\* A remove frees the one entry of its key.
LEMMA RemoveInv ==
  ASSUME Inv, NEW k \in Key, Remove(k)
  PROVE  Inv'
<1>1. PICK i \in Probe : /\ FirstTry(k, {k}, i)
                         /\ map' = [map EXCEPT ![Hash(k, i)].key = EmptyKey]
  BY DEF Remove
<1>2. PICK m \in 1 .. Len(keys) :
        keys' = SubSeq(keys, 1, m - 1) \o SubSeq(keys, m + 1, Len(keys))
  BY DEF Remove
<1> DEFINE j == Hash(k, i)
<1>3. j \in Slot
  BY SizeAssumption, HashIsSlot DEF Probe
<1>4. map \in [Slot -> Entry] /\ keys \in Seq(Key)
  BY DEF Inv, TypeOK, Entry
<1>5. /\ map' \in [Slot -> Entry] /\ map'[j].key = EmptyKey
      /\ \A l \in Slot \ {j} : map'[l] = map[l]
  BY <1>1, <1>3, <1>4 DEF Entry
<1>6. keys' \in Seq(Key)
  <2>1. SubSeq(keys, 1, m - 1) \in Seq(Key)
    BY <1>4, SubSeqProperties
  <2>2. SubSeq(keys, m + 1, Len(keys)) \in Seq(Key)
    BY <1>4, SubSeqProperties
  <2> QED
    BY <1>2, <2>1, <2>2, ConcatProperties
<1>7. TypeOK'
  BY <1>5, <1>6 DEF TypeOK, Entry
<1>8. OnItsWay'
  BY <1>3, <1>5 DEF Inv, OnItsWay
<1>9. Unique'
  BY <1>3, <1>5 DEF Inv, Unique
<1>10. NoGap'
  BY DEF Remove, NoGap
<1> QED
  BY <1>7, <1>8, <1>9, <1>10 DEF Inv

\* Every step keeps the invariant.
LEMMA StepInv ==
  ASSUME Inv, Use # "NeighborTable", [Next]_vars
  PROVE  Inv'
<1>1. CASE UNCHANGED vars
  BY <1>1 DEF vars, Inv, TypeOK, OnItsWay, Unique, NoGap, Contains, Hash
<1>2. CASE Next
  <2>1. ASSUME NEW k \in Key, NEW v \in Value, Insert(k, v) PROVE Inv'
    BY <2>1, InsertInv
  <2>2. ASSUME NEW k \in Key, Remove(k) PROVE Inv'
    BY <2>2, RemoveInv
  <2>3. ASSUME NEW k \in Key, NEW v \in Value, InsertLost(k, v) \/ RemoveAbsent(k)
        PROVE  Inv'
    BY <1>1, <2>3 DEF InsertLost, RemoveAbsent
  <2>4. ASSUME NEW k \in Key, RemoveAbsent(k) PROVE Inv'
    BY <1>1, <2>4 DEF RemoveAbsent
  <2> QED
    BY <1>2, <2>1, <2>2, <2>3, <2>4 DEF Next
<1> QED
  BY <1>1, <1>2

-----------------------------------------------------------------------------
(* The refinement                                                          *)

\* After a step, too, a key is found where it lies.
LEMMA FoundNext == Inv' => Places'
  BY Found, PTL

\* An insert is one of the map.
LEMMA InsertOfMap ==
  ASSUME Inv, Use # "NeighborTable", NEW k \in Key, NEW v \in Value, Insert(k, v)
  PROVE  Abstract!Insert(k, v)
<1>1. PICK i \in Probe :
        /\ FirstTry(k, {EmptyKey, k}, i)
        /\ map' = [map EXCEPT ![Hash(k, i)] = [key |-> k, value |-> v]]
        /\ keys' = IF map[Hash(k, i)].key = EmptyKey THEN Append(keys, k) ELSE keys
  BY DEF Insert
<1> DEFINE j == Hash(k, i)
<1>2. j \in Slot /\ \A l \in Key : l # EmptyKey
  BY KeyAssumption, SizeAssumption, HashIsSlot DEF Probe
<1>3. map[j].key \in {EmptyKey, k}
  BY <1>1 DEF FirstTry
<1>4. map \in [Slot -> Entry]
  BY DEF Inv, TypeOK, Entry
<1>5. /\ map'[j].key = k /\ map'[j].value = v
      /\ \A l \in Slot \ {j} : map'[l] = map[l]
  BY <1>1, <1>2, <1>4 DEF Entry
<1>6. Places /\ Places'
  BY InsertInv, Found, FoundNext
<1>7. DOMAIN Contents' = DOMAIN Contents \cup {k}
  <2>1. ASSUME NEW l \in DOMAIN Contents' PROVE l \in DOMAIN Contents \cup {k}
    BY <1>2, <1>3, <1>5, <1>6 DEF Places
  <2>2. k \in DOMAIN Contents'
    BY <1>2, <1>5, <1>6 DEF Places
  <2>3. ASSUME NEW l \in DOMAIN Contents, l # k PROVE l \in DOMAIN Contents'
    BY <1>2, <1>3, <1>5, <1>6, <2>3 DEF Places
  <2> QED
    BY <2>1, <2>2, <2>3
<1>8. Contents'[k] = v
  BY <1>2, <1>5, <1>6 DEF Places
<1>9. ASSUME NEW l \in DOMAIN Contents, l # k PROVE Contents'[l] = Contents[l]
  <2>1. PICK p \in Slot : map[p].key = l
    BY <1>6 DEF Places
  <2>2. l \in Key /\ p # j
    BY <1>2, <1>3, <1>6, <1>9, <2>1 DEF Places
  <2>3. Contents[l] = map[p].value
    BY <1>6, <2>1, <2>2 DEF Places
  <2>4. Contents'[l] = map'[p].value
    BY <1>5, <1>6, <2>1, <2>2 DEF Places
  <2> QED
    BY <1>5, <2>2, <2>3, <2>4
<1>10. Contents' = [l \in DOMAIN Contents \cup {k} |->
                      IF l = k THEN v ELSE Contents[l]]
  <2>1. Contents' = [l \in DOMAIN Contents' |-> Contents'[l]]
    BY <1>6 DEF Places
  <2> QED
    BY <1>7, <1>8, <1>9, <2>1
<1>11. keys' = IF k \in DOMAIN Contents THEN keys ELSE Append(keys, k)
  <2>1. k \in DOMAIN Contents <=> Contains(k)
    BY DEF Contents
  <2>2. CASE map[j].key = EmptyKey
    BY <1>1, <2>1, <2>2, NewKeyIsAbsent DEF Insert
  <2>3. CASE map[j].key = k
    BY <1>1, <1>2, <1>6, <2>3 DEF Places
  <2> QED
    BY <1>3, <2>2, <2>3
<1> QED
  BY <1>10, <1>11 DEF Abstract!Insert

\* A remove of a key that is there is one of the map.
LEMMA RemoveOfMap ==
  ASSUME Inv, NEW k \in Key, Remove(k)
  PROVE  Abstract!Remove(k)
<1>1. PICK i \in Probe : /\ FirstTry(k, {k}, i)
                         /\ map' = [map EXCEPT ![Hash(k, i)].key = EmptyKey]
  BY DEF Remove
<1> DEFINE j == Hash(k, i)
<1>2. j \in Slot /\ map[j].key = k /\ \A l \in Key : l # EmptyKey
  BY <1>1, KeyAssumption, SizeAssumption, HashIsSlot DEF Probe, FirstTry
<1>3. map \in [Slot -> Entry]
  BY DEF Inv, TypeOK, Entry
<1>4. map'[j].key = EmptyKey /\ \A l \in Slot \ {j} : map'[l] = map[l]
  BY <1>1, <1>2, <1>3 DEF Entry
<1>5. Places /\ Places'
  BY RemoveInv, Found, FoundNext
<1>6. k \in DOMAIN Contents
  BY <1>2, <1>5 DEF Places
<1>7. DOMAIN Contents' = DOMAIN Contents \ {k}
  <2>1. \A p \in Slot : map'[p].key # k
    BY <1>2, <1>4 DEF Inv, Unique
  <2>2. ASSUME NEW l \in DOMAIN Contents' PROVE l \in DOMAIN Contents \ {k}
    BY <1>2, <1>4, <1>5, <2>1 DEF Places
  <2>3. ASSUME NEW l \in DOMAIN Contents, l # k PROVE l \in DOMAIN Contents'
    BY <1>2, <1>4, <1>5, <2>3 DEF Places
  <2> QED
    BY <2>2, <2>3
<1>8. ASSUME NEW l \in DOMAIN Contents, l # k PROVE Contents'[l] = Contents[l]
  <2>1. PICK p \in Slot : map[p].key = l
    BY <1>5 DEF Places
  <2>2. l \in Key /\ p # j
    BY <1>2, <1>5, <1>8, <2>1 DEF Places
  <2>3. Contents[l] = map[p].value
    BY <1>5, <2>1, <2>2 DEF Places
  <2>4. Contents'[l] = map'[p].value
    BY <1>4, <1>5, <2>1, <2>2 DEF Places
  <2> QED
    BY <1>4, <2>2, <2>3, <2>4
<1>9. Contents' = [l \in DOMAIN Contents \ {k} |-> Contents[l]]
  <2>1. Contents' = [l \in DOMAIN Contents' |-> Contents'[l]]
    BY <1>5 DEF Places
  <2> QED
    BY <1>7, <1>8, <2>1
<1>10. \E m \in 1 .. Len(keys) :
         /\ keys[m] = k
         /\ keys' = SubSeq(keys, 1, m - 1) \o SubSeq(keys, m + 1, Len(keys))
  BY DEF Remove
<1> QED
  BY <1>6, <1>9, <1>10 DEF Abstract!Remove

\* Every step is one of the map, or leaves it alone.
LEMMA StepOfMap ==
  ASSUME Inv, Use # "NeighborTable", [Next]_vars
  PROVE  [Abstract!Next]_<<Contents, keys>>
<1>1. CASE UNCHANGED vars
  BY <1>1 DEF vars, Contents, Contains, Get, FirstTry, Hash
<1>2. CASE Next
  <2>1. ASSUME NEW k \in Key, NEW v \in Value, Insert(k, v)
        PROVE  Abstract!Next
    BY <2>1, InsertOfMap DEF Abstract!Next
  <2>2. ASSUME NEW k \in Key, Remove(k) PROVE Abstract!Next
    BY <2>2, RemoveOfMap DEF Abstract!Next
  <2>3. ASSUME NEW k \in Key, NEW v \in Value, InsertLost(k, v)
        PROVE  UNCHANGED vars
    BY <2>3 DEF InsertLost
  <2>4. ASSUME NEW k \in Key, RemoveAbsent(k) PROVE UNCHANGED vars
    BY <2>4 DEF RemoveAbsent
  <2> QED
    BY <1>1, <1>2, <2>1, <2>2, <2>3, <2>4 DEF Next
<1> QED
  BY <1>1, <1>2

\* An empty table is an empty map.
LEMMA InitOfMap == Init => Abstract!Init
<1> SUFFICES ASSUME Init PROVE Abstract!Init
  OBVIOUS
<1>1. Places /\ \A j \in Slot : map[j].key = EmptyKey
  BY InitInv, Found DEF Init
<1>2. DOMAIN Contents = {}
  <2>1. ASSUME NEW k \in DOMAIN Contents PROVE FALSE
    BY <1>1, KeyAssumption DEF Places
  <2> QED
    BY <2>1
<1>3. Contents = [k \in {} |-> k]
  <2>1. Contents = [k \in DOMAIN Contents |-> Contents[k]]
    BY <1>1 DEF Places
  <2> QED
    BY <1>2, <2>1
<1> QED
  BY <1>3 DEF Init, Abstract!Init

-----------------------------------------------------------------------------
(* The theorems                                                            *)

\* The entries of map and keys keep their types, and no entry is written
\* outside of them, in every table that is used as the first two are.
THEOREM TypeCorrect ==
  ASSUME Use # "NeighborTable"
  PROVE  Spec => []TypeOK
<1>1. Inv /\ [Next]_vars => Inv'
  BY StepInv
<1>2. Inv => TypeOK
  BY DEF Inv
<1> QED
  BY <1>1, <1>2, InitInv, PTL DEF Spec

\* RoutingTable and SocketTable are maps with a list of their keys: whatever
\* keys collide, are removed and come again, contains and get tell of a key what
\* the last insert or remove of it left.
THEOREM TablesAreDictionaries ==
  ASSUME Use # "NeighborTable"
  PROVE  Spec => IsDictionary
<1>1. Inv /\ [Next]_vars => Inv'
  BY StepInv
<1>2. Inv /\ [Next]_vars => [Abstract!Next]_<<Contents, keys>>
  BY StepOfMap
<1> QED
  BY <1>1, <1>2, InitInv, InitOfMap, PTL DEF Spec, IsDictionary, Abstract!Spec
=============================================================================
