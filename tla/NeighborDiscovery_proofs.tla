----------------------- MODULE NeighborDiscovery_proofs -----------------------
(***************************************************************************)
(* Theorems about NeighborDiscovery for any neighbours and any delays:       *)
(* types, that the row of the graph follows the table but for what the other *)
(* ends advertise, that a neighbour is dropped only after a silence, and     *)
(* that its cost is sound until then.                                       *)
(***************************************************************************)
EXTENDS NeighborDiscovery, FiniteSetTheorems, WellFoundedInduction, TLAPS

-----------------------------------------------------------------------------
(* Ages and averages                                                       *)

\* There is an oldest packet among those on their way.
LEMMA OldestIsOne ==
  ASSUME NEW ages \in SUBSET Age, ages # {}
  PROVE  Oldest(ages) \in ages
<1> DEFINE D == {MaxLate - a : a \in ages}
<1>1. MaxLate \in Nat /\ \A a \in ages : a \in 1 .. MaxLate
  BY RoundsAssumption DEF Age
<1>2. D \in SUBSET Nat /\ D # {}
  BY <1>1
<1>3. PICK d \in D : \A e \in D : d <= e
  <2> DEFINE less == OpToRel(<, Nat)
  <2>1. \A m, n \in Nat : <<m, n>> \notin less => n <= m
    BY DEF OpToRel
  <2> HIDE DEF D, less
  <2>2. \E n \in D : \A m \in D : <<m, n>> \notin less
    BY <1>2, NatLessThanWellFounded, WFMin DEF less
  <2> QED
    BY <1>2, <2>1, <2>2
<1>4. PICK a \in ages : d = MaxLate - a
  BY <1>3
<1>5. ASSUME NEW b \in ages PROVE b <= a
  <2>1. MaxLate - b \in D
    BY <1>5
  <2>2. d <= MaxLate - b
    <3> HIDE DEF D
    <3> QED
      BY <1>3, <2>1
  <2> QED
    BY <1>1, <1>4, <2>2
<1> QED
  BY <1>5 DEF Oldest

\* Ages of packets that are not MaxLate rounds old, a round later.
LEMMA OlderType ==
  ASSUME NEW ages \in SUBSET Age, MaxLate \notin ages
  PROVE  Older(ages) \in SUBSET Age
BY RoundsAssumption DEF Older, Age

\* A part of a thousand times w.
LEMMA Part ==
  ASSUME NEW w \in Nat, NEW q \in 0 .. 1000
  PROVE  w * q \in Nat /\ w * q <= w * 1000
<1>1. PICK r \in Nat : q + r = 1000
  BY 1000 - q \in Nat /\ q + (1000 - q) = 1000
<1>2. w * 1000 = w * q + w * r
  BY <1>1
<1>3. w * q \in Nat /\ w * r \in Nat
  BY <1>1
<1> QED
  BY <1>2, <1>3

\* The average of a quality and a sample is a quality.
LEMMA EwmaType ==
  ASSUME NEW sample \in {0, 1}, NEW old \in 0 .. Full
  PROVE  Ewma(sample, old) \in 0 .. Full
<1> DEFINE w == 1000 - Alpha
           m == w * old
<1>1. Alpha \in 1 .. 1000
  BY QualityAssumption DEF Full
<1>2. w \in Nat /\ w <= 999 /\ Alpha + w = 1000 /\ old \in 0 .. 1000
  BY <1>1 DEF Full
<1>3. Ewma(sample, old) = Alpha * sample + m \div 1000
  BY DEF Ewma
<1>4. m \in Nat /\ m <= w * 1000
  <2> HIDE DEF w
  <2> QED
    BY <1>2, Part
<1>5. m \div 1000 \in Nat /\ m \div 1000 <= w
  <2> HIDE DEF m, w
  <2> QED
    BY <1>2, <1>4
<1>6. Alpha * sample \in {0, Alpha}
  BY <1>1
<1>7. Alpha * sample + m \div 1000 \in 0 .. 1000
  <2> DEFINE d == m \div 1000
             p == Alpha * sample
  <2>1. p \in {0, Alpha} /\ d \in Nat /\ d <= w
    BY <1>5, <1>6
  <2>2. p + d \in 0 .. 1000
    <3> HIDE DEF d, p, w
    <3> QED
      BY <1>1, <1>2, <2>1
  <2> QED
    BY <2>2
<1> QED
  BY <1>3, <1>7 DEF Full

-----------------------------------------------------------------------------
(* The types, and what is known between the timer and discover             *)

\* After updateTable the last known answers are young enough to grow older.
FreshTable ==
  task = "discover" => \A n \in DOMAIN table : table[n].age < DropValue - 1

\* Between the timer and discover no packet is MaxLate rounds old.
FreshAir ==
  task # "discoverTimer" =>
    \A n \in Neighbor : MaxLate \notin pings[n] \cup replies[n]

IInv == TypeOK /\ FreshTable /\ FreshAir

\* The inductive invariant holds at the start.
LEMMA InitInv == Init => IInv
<1> SUFFICES ASSUME Init PROVE IInv
  OBVIOUS
<1>1. DOMAIN table = {}
  BY DEF Init
<1>2. 0 \in 0 .. DropValue
  BY RoundsAssumption
<1>3. TypeOK
  BY <1>1, <1>2 DEF Init, TypeOK
<1>4. FreshTable /\ FreshAir
  BY <1>1 DEF Init, FreshTable, FreshAir
<1> QED
  BY <1>3, <1>4 DEF IInv

\* The timer fires when nothing is MaxLate rounds old.
LEMMA TimerInv == IInv /\ DiscoverTimerFired => IInv'
BY DEF IInv, TypeOK, FreshTable, FreshAir, DiscoverTimerFired, airVars, routingVars

\* initShare inserts links to known neighbours.
LEMMA InitShareInv == IInv /\ InitShare => IInv'
BY DEF IInv, TypeOK, FreshTable, FreshAir, InitShare, airVars

\* What updateTable keeps is younger than what it drops.
LEMMA UpdateInv == IInv /\ UpdateTable => IInv'
<1> SUFFICES ASSUME IInv, UpdateTable PROVE IInv'
  OBVIOUS
<1> DEFINE dropped == {n \in DOMAIN table : Expired(n)}
           kept == DOMAIN table \ dropped
           inactive == {n \in kept : Inactive(n)}
           falling == {n \in kept : Falls(n)} \ inactive
<1>1. /\ table' = [n \in kept |-> Refreshed(n)]
      /\ advertised' = Advertise(dropped \cup inactive, falling)
      /\ task = "updateTable" /\ task' = "discover"
      /\ UNCHANGED <<airVars, init>>
  BY DEF UpdateTable
<1>2. DOMAIN table' = kept /\ kept \subseteq DOMAIN table
  BY <1>1
<1>3. \A n \in kept : /\ table'[n] \in Info
                      /\ table'[n].age < DropValue - 1
  <2> TAKE n \in kept
  <2>1. table[n] \in Info
    BY DEF IInv, TypeOK
  <2>2. table[n].age < DropValue - 1
    BY <2>1, RoundsAssumption DEF Expired, Info
  <2>3. Decayed(n) \in 0 .. Full
    BY <2>1, EwmaType DEF Decayed, Info
  <2>4. Refreshed(n) \in Info /\ Refreshed(n).age = table[n].age
    BY <2>1, <2>3 DEF Refreshed, Info, Falls
  <2> QED
    BY <1>1, <2>2, <2>4
<1>4. TypeOK' /\ FreshTable'
  <2> HIDE DEF kept
  <2>1. advertised' \subseteq Neighbor
    <3>1. advertised \subseteq Neighbor /\ falling \subseteq DOMAIN table
          /\ DOMAIN table \subseteq Neighbor
      BY <1>2 DEF IInv, TypeOK
    <3> QED
      BY <1>1, <3>1 DEF Advertise
  <2> QED
    BY <1>1, <1>2, <1>3, <2>1 DEF IInv, TypeOK, FreshTable, airVars
<1>5. FreshAir'
  BY <1>1 DEF IInv, FreshAir, airVars
<1> QED
  BY <1>4, <1>5 DEF IInv

\* A round later everything is a round older.
LEMMA DiscoverInv == IInv /\ Discover => IInv'
<1> SUFFICES ASSUME IInv, Discover PROVE IInv'
  OBVIOUS
<1>1. \A n \in DOMAIN table : [table[n] EXCEPT !.age = @ + 1] \in Info
  BY RoundsAssumption DEF IInv, TypeOK, FreshTable, Discover, Info
<1>2. \A n \in Neighbor : /\ {1} \cup Older(pings[n]) \in SUBSET Age
                          /\ Older(replies[n]) \in SUBSET Age
  <2> TAKE n \in Neighbor
  <2>1. /\ pings[n] \in SUBSET Age /\ replies[n] \in SUBSET Age
        /\ MaxLate \notin pings[n] /\ MaxLate \notin replies[n]
    BY DEF IInv, TypeOK, FreshAir, Discover
  <2>2. 1 \in Age
    BY RoundsAssumption DEF Age
  <2> QED
    BY <2>1, <2>2, OlderType
<1>3. TypeOK'
  BY <1>1, <1>2 DEF IInv, TypeOK, Discover, routingVars
<1>4. FreshTable' /\ FreshAir'
  BY DEF IInv, FreshTable, FreshAir, Discover, routingVars
<1> QED
  BY <1>3, <1>4 DEF IInv

\* The neighbour answers the oldest ping.
LEMMA ReplyInv == ASSUME NEW n \in Neighbor PROVE IInv /\ Reply(n) => IInv'
<1> SUFFICES ASSUME IInv, Reply(n) PROVE IInv'
  OBVIOUS
<1> DEFINE a == Oldest(pings[n])
<1>1. a \in pings[n] /\ a \in Age
  BY OldestIsOne DEF IInv, TypeOK, Reply
<1> HIDE DEF a
<1>2. /\ pings' = [pings EXCEPT ![n] = @ \ {a}]
      /\ replies' = [replies EXCEPT ![n] = @ \cup {a}]
      /\ UNCHANGED <<table, task, unheard, routingVars>>
  BY DEF Reply, a
<1> QED
  BY <1>1, <1>2 DEF IInv, TypeOK, FreshTable, FreshAir, routingVars

\* A packet that is lost is on its way no more.
LEMMA LoseInv == ASSUME NEW n \in Neighbor PROVE IInv /\ Lose(n) => IInv'
<1> SUFFICES ASSUME IInv, Lose(n) PROVE IInv'
  OBVIOUS
<1>1. /\ \A m \in Neighbor : pings'[m] \subseteq pings[m]
                             /\ replies'[m] \subseteq replies[m]
      /\ pings' \in [Neighbor -> SUBSET Age]
      /\ replies' \in [Neighbor -> SUBSET Age]
  BY DEF IInv, TypeOK, Lose
<1>2. unheard' \in [Neighbor -> 0 .. DropValue]
  BY RoundsAssumption DEF IInv, TypeOK, Lose
<1> QED
  BY <1>1, <1>2 DEF IInv, TypeOK, FreshTable, FreshAir, Lose,
                    routingVars

\* An answer enters the table as a neighbour's, or renews the entry.
LEMMA GotReplyInv == ASSUME NEW n \in Neighbor PROVE IInv /\ GotReply(n) => IInv'
<1> SUFFICES ASSUME IInv, GotReply(n) PROVE IInv'
  OBVIOUS
<1> DEFINE a == Oldest(replies[n])
<1>1. a \in replies[n] /\ a \in Age
  BY OldestIsOne DEF IInv, TypeOK, GotReply
<1> HIDE DEF a
<1>2. a \in 1 .. MaxLate /\ MaxLate < DropValue - 1
  BY <1>1, RoundsAssumption DEF Age
<1>3. /\ replies' = [replies EXCEPT ![n] = @ \ {a}]
      /\ unheard' = [unheard EXCEPT ![n] = 0]
      /\ UNCHANGED <<task, pings, init>>
  BY DEF GotReply, a
<1>4. \/ UNCHANGED <<table, advertised>>
      \/ \E info \in Info : /\ table' = Put(n, info)
                            /\ info.age < DropValue - 1
                            /\ advertised' \subseteq advertised \cup {n}
                            /\ ~init => advertised' = advertised
  <2>1. CASE n \notin DOMAIN table
    <3> DEFINE info == [age |-> a, quality |-> Full, degraded |-> FALSE]
    <3>1. info \in Info
      BY <1>2, RoundsAssumption DEF Info, Full
    <3>2. table' = Put(n, info) /\ advertised' = advertised
      BY <2>1 DEF GotReply, a
    <3>3. info.age < DropValue - 1
      BY <1>2, RoundsAssumption
    <3> HIDE DEF info
    <3> QED
      BY <3>1, <3>2, <3>3
  <2>2. CASE n \in DOMAIN table /\ table[n].age > a
    <3>1. table[n] \in Info
      BY <2>2 DEF IInv, TypeOK
    <3>2. Ewma(1, table[n].quality) \in 0 .. Full
      BY <3>1, EwmaType DEF Info
    <3>3. Answered(n, a) \in Info /\ Answered(n, a).age < DropValue - 1
      BY <1>2, <3>1, <3>2, RoundsAssumption DEF Answered, Info
    <3>4. table' = Put(n, Answered(n, a))
          /\ advertised' = Advertise({}, {m \in {n} : Improves(m, a)})
      <4>1. ~(table[n].age <= a)
        BY <1>2, <2>2, <3>1 DEF Info
      <4> QED
        BY <2>2, <4>1 DEF GotReply, a
    <3>5. /\ advertised' \subseteq advertised \cup {n}
          /\ ~init => advertised' = advertised
      BY <3>4 DEF Advertise
    <3> QED
      BY <3>3, <3>4, <3>5
  <2>3. CASE n \in DOMAIN table /\ ~(table[n].age > a)
    BY <2>3 DEF GotReply, a
  <2> QED
    BY <2>1, <2>2, <2>3
<1>5. TypeOK'
  <2>1. replies' \in [Neighbor -> SUBSET Age]
        /\ unheard' \in [Neighbor -> 0 .. DropValue]
    BY <1>3, RoundsAssumption DEF IInv, TypeOK
  <2>2. CASE UNCHANGED <<table, advertised>>
    BY <1>3, <2>1, <2>2 DEF IInv, TypeOK
  <2>3. CASE \E info \in Info : table' = Put(n, info)
                                /\ advertised' \subseteq advertised \cup {n}
    BY <1>3, <2>1, <2>3 DEF IInv, TypeOK, Put
  <2> QED
    BY <1>4, <2>2, <2>3
<1>6. FreshTable'
  BY <1>3, <1>4 DEF IInv, FreshTable, Put
<1>7. FreshAir'
  BY <1>3 DEF IInv, TypeOK, FreshAir
<1> QED
  BY <1>5, <1>6, <1>7 DEF IInv

\* An advertisement of a neighbour changes one link of the row.
LEMMA GotLSAInv == ASSUME NEW n \in Neighbor PROVE IInv /\ GotLSA(n) => IInv'
BY DEF IInv, TypeOK, FreshTable, FreshAir, GotLSA, airVars

\* Every step keeps the inductive invariant.
LEMMA NextInv == IInv /\ [Next]_vars => IInv'
<1> SUFFICES ASSUME IInv, [Next]_vars PROVE IInv'
  OBVIOUS
<1>1. CASE UNCHANGED vars
  BY <1>1 DEF IInv, TypeOK, FreshTable, FreshAir, vars, airVars, routingVars
<1>2. CASE \E n \in Neighbor : Reply(n) \/ GotReply(n) \/ Lose(n) \/ GotLSA(n)
  BY <1>2, ReplyInv, GotReplyInv, LoseInv, GotLSAInv
<1> QED
  BY <1>1, <1>2, TimerInv, UpdateInv, DiscoverInv, InitShareInv DEF Next

\* The table, the packets and the graph keep their types, for any neighbours,
\* thresholds and delays: an age never passes drop_value, a quality never 1000.
THEOREM TypeCorrect == Spec => []TypeOK
<1>1. IInv => TypeOK
  BY DEF IInv
<1> QED
  BY <1>1, InitInv, NextInv, PTL DEF Spec

-----------------------------------------------------------------------------
(* The row of the graph follows the table                                  *)

\* The quotient by a thousand.
LEMMA Quotient ==
  ASSUME NEW m \in Nat
  PROVE  /\ m \div 1000 \in Nat
         /\ \A p \in Nat : 1000 * (p + 1) <= m => m \div 1000 > p
OBVIOUS

\* A larger quality decays to no less.
LEMMA ProductGrows ==
  ASSUME NEW w \in Nat, NEW g \in Nat, NEW q \in Nat, g <= q
  PROVE  w * g \in Nat /\ w * q \in Nat /\ w * g <= w * q
<1>1. PICK r \in Nat : q = g + r
  BY q - g \in Nat /\ q = g + (q - g)
<1>2. w * q = w * g + w * r
  BY <1>1
<1>3. w * g \in Nat /\ w * r \in Nat
  BY <1>1
<1> QED
  BY <1>2, <1>3

\* The weights and thresholds are naturals.
LEMMA WeightsAreNat ==
  /\ Alpha \in Nat /\ 1000 - Alpha \in Nat
  /\ Good \in Nat /\ Poor \in Nat /\ Poor < Good
<1>1. Alpha \in 1 .. 1000 /\ Good \in 1 .. 1000 /\ Poor \in 1 .. 1000
  BY QualityAssumption DEF Full
<1> QED
  BY <1>1, QualityAssumption

\* When one lost answer cannot take a quality from good to poor, no link is
\* found inactive.
LEMMA NeverInactive ==
  ASSUME 1000 * (Poor + 1) <= (1000 - Alpha) * Good,
         TypeOK, NEW n \in DOMAIN table
  PROVE  ~Inactive(n)
<1> SUFFICES ASSUME Inactive(n) PROVE FALSE
  OBVIOUS
<1> DEFINE w == 1000 - Alpha
           q == table[n].quality
           m == w * q
<1>1. Alpha \in Nat /\ w \in Nat /\ Good \in Nat /\ Poor \in Nat /\ Poor < Good
  BY WeightsAreNat
<1>2. q \in Nat
  <2>1. table[n] \in Info
    BY DEF TypeOK
  <2> QED
    BY <2>1 DEF Info, Full
<1>3. q > Good /\ Decayed(n) < Good /\ Decayed(n) <= Poor
  BY DEF Inactive, Falls
<1>4. Decayed(n) = Alpha * 0 + m \div 1000
  <2>1. Decayed(n) # q
    <3> HIDE DEF q
    <3> QED
      BY <1>1, <1>2, <1>3
  <2> QED
    BY <2>1 DEF Decayed, Ewma
<1>5. m \in Nat /\ w * Good \in Nat /\ w * Good <= m
  <2> HIDE DEF w, q
  <2> QED
    BY <1>1, <1>2, <1>3, ProductGrows
<1>6. 1000 * (Poor + 1) <= m
  <2> DEFINE g == w * Good
  <2>1. 1000 * (Poor + 1) <= g /\ g \in Nat /\ g <= m
    BY <1>5
  <2> HIDE DEF g, m
  <2> QED
    BY <1>1, <1>5, <2>1
<1>7. m \div 1000 \in Nat /\ m \div 1000 > Poor
  <2> HIDE DEF m
  <2> QED
    BY <1>1, <1>5, <1>6, Quotient
<1>8. Alpha * 0 = 0
  BY <1>1
<1> HIDE DEF m
<1> QED
  BY <1>1, <1>3, <1>4, <1>7, <1>8

\* With thresholds as those of the code, for any neighbours, delays, losses and
\* advertisements: a neighbour that is dropped after initShare leaves the row of
\* the graph in the same step, and the node itself never takes the link of one
\* that stays known out of it, nor puts that of an unknown one in.
THEOREM RowFollows ==
  ASSUME 1000 * (Poor + 1) <= (1000 - Alpha) * Good
  PROVE  Spec => RowFollowsTable
<1> DEFINE Follows(n) ==
      /\ init /\ n \in DOMAIN table \ DOMAIN table' => n \notin advertised'
      /\ n \in advertised' \ advertised => n \in DOMAIN table' \/ GotLSA(n)
      /\ n \in advertised \ advertised' => n \notin DOMAIN table' \/ GotLSA(n)
<1>1. ASSUME IInv, [Next]_vars, NEW n \in Neighbor PROVE Follows(n)
  <2>1. CASE UNCHANGED <<table, advertised>>
    BY <2>1
  <2>2. CASE UpdateTable
    <3> DEFINE dropped == {m \in DOMAIN table : Expired(m)}
               kept == DOMAIN table \ dropped
               inactive == {m \in kept : Inactive(m)}
               falling == {m \in kept : Falls(m)} \ inactive
    <3>1. inactive = {}
      BY <1>1, NeverInactive DEF IInv
    <3>2. DOMAIN table' = kept
      BY <2>2 DEF UpdateTable
    <3>3. advertised' = Advertise(dropped \cup inactive, falling)
      BY <2>2 DEF UpdateTable
    <3>4. falling \subseteq kept
      OBVIOUS
    <3> HIDE DEF inactive, falling, dropped
    <3> QED
      BY <3>1, <3>2, <3>3, <3>4 DEF Advertise
  <2>3. CASE Discover
    BY <2>3 DEF Discover, routingVars
  <2>4. CASE InitShare
    BY <2>4 DEF InitShare
  <2>5. ASSUME NEW m \in Neighbor, GotReply(m) PROVE Follows(n)
    <3>1. DOMAIN table \subseteq DOMAIN table'
      BY <2>5 DEF GotReply, Put
    <3>2. /\ advertised \subseteq advertised'
          /\ advertised' \subseteq advertised \cup {m}
      BY <2>5 DEF GotReply, Advertise
    <3>3. m \in DOMAIN table' \/ advertised' = advertised
      BY <2>5 DEF GotReply, Put
    <3> QED
      BY <3>1, <3>2, <3>3
  <2>6. ASSUME NEW m \in Neighbor, GotLSA(m) PROVE Follows(n)
    <3>1. CASE m = n
      BY <2>6, <3>1 DEF GotLSA
    <3>2. CASE m # n
      BY <2>6, <3>2 DEF GotLSA
    <3> QED
      BY <3>1, <3>2
  <2> QED
    BY <1>1, <2>1, <2>2, <2>3, <2>4, <2>5, <2>6
       DEF Next, DiscoverTimerFired, Reply, Lose, vars, routingVars
<1>2. Spec => []IInv
  BY InitInv, NextInv, PTL DEF Spec
<1> DEFINE AllFollow == \A n \in Neighbor : Follows(n)
<1>3. IInv /\ [Next]_vars => [AllFollow]_vars
  BY <1>1
<1> HIDE DEF AllFollow
<1>4. Spec => [][AllFollow]_vars
  BY <1>2, <1>3, PTL DEF Spec
<1> QED
  BY <1>4 DEF RowFollowsTable, AllFollow

-----------------------------------------------------------------------------
(* A neighbour is dropped only after a silence                             *)

\* The number of packets to n and from n that are on their way.
OnTheWay(n) == Cardinality(pings[n]) + Cardinality(replies[n])

\* A round in which n is not heard leaves a ping on its way or lost, and an
\* answer leaves the entry no older than the answer can be late.
SilenceCounted ==
  \A n \in Neighbor :
    /\ pings[n] \cap replies[n] = {}
    /\ n \in DOMAIN table => table[n].age <= MaxLate + unheard[n] + OnTheWay(n)

\* The packets on their way are finitely many.
LEMMA AgesAreFinite ==
  ASSUME NEW ages \in SUBSET Age
  PROVE  IsFiniteSet(ages) /\ Cardinality(ages) \in Nat
<1>1. IsFiniteSet(Age)
  BY RoundsAssumption, FS_Interval DEF Age
<1> QED
  BY <1>1, FS_Subset, FS_CardinalityType

\* None of them is lost by growing older.
LEMMA OlderAreAsMany ==
  ASSUME NEW ages \in SUBSET Age, MaxLate \notin ages
  PROVE  Cardinality(Older(ages)) = Cardinality(ages)
<1> DEFINE f == [a \in ages |-> a + 1]
<1>1. ages \in SUBSET Nat
  BY DEF Age
<1>2. f \in Surjection(ages, Older(ages))
  BY DEF Surjection, Older
<1>3. f \in Injection(ages, Older(ages))
  BY <1>1 DEF Injection, IsInjective, Older
<1> HIDE DEF f
<1> QED
  BY <1>2, <1>3, AgesAreFinite, FS_Surjection

\* Nothing is on its way, and nothing known, at the start.
LEMMA InitSilence == Init => SilenceCounted
BY DEF Init, SilenceCounted

\* Packets that grow older stay as many, and the new ping is one more.
LEMMA DiscoverSilence == IInv /\ SilenceCounted /\ Discover => SilenceCounted'
<1> SUFFICES ASSUME IInv, SilenceCounted, Discover, NEW n \in Neighbor
             PROVE  /\ pings'[n] \cap replies'[n] = {}
                    /\ n \in DOMAIN table' =>
                         table'[n].age <= MaxLate + unheard'[n] + OnTheWay(n)'
  BY DEF SilenceCounted
<1>1. /\ pings[n] \in SUBSET Age /\ replies[n] \in SUBSET Age
      /\ MaxLate \notin pings[n] /\ MaxLate \notin replies[n]
      /\ unheard[n] \in Nat
  BY RoundsAssumption DEF IInv, TypeOK, FreshAir, Discover
<1>2. /\ pings'[n] = {1} \cup Older(pings[n]) /\ replies'[n] = Older(replies[n])
      /\ unheard'[n] = unheard[n]
  BY DEF Discover, IInv, TypeOK
<1>3. 1 \notin Older(pings[n]) /\ 1 \notin Older(replies[n])
  BY <1>1 DEF Older, Age
<1>4. pings'[n] \cap replies'[n] = {}
  <2>1. Older(pings[n]) \cap Older(replies[n]) = {}
    BY <1>1 DEF SilenceCounted, Older, Age
  <2> QED
    BY <1>2, <1>3, <2>1
<1>5. Cardinality(pings'[n]) = Cardinality(pings[n]) + 1
  <2>1. /\ Older(pings[n]) \in SUBSET Age
        /\ Cardinality(Older(pings[n])) = Cardinality(pings[n])
    BY <1>1, OlderType, OlderAreAsMany
  <2>2. pings'[n] = Older(pings[n]) \cup {1}
    BY <1>2
  <2> QED
    BY <1>3, <2>1, <2>2, AgesAreFinite, FS_AddElement
<1>6. Cardinality(replies'[n]) = Cardinality(replies[n])
  BY <1>1, <1>2, OlderAreAsMany
<1>7. Cardinality(pings[n]) \in Nat /\ Cardinality(replies[n]) \in Nat
  BY <1>1, AgesAreFinite
<1>8. ASSUME n \in DOMAIN table'
      PROVE  table'[n].age <= MaxLate + unheard'[n] + OnTheWay(n)'
  <2>1. n \in DOMAIN table /\ table[n] \in Info
    BY <1>8 DEF Discover, IInv, TypeOK
  <2>2. table'[n].age = table[n].age + 1 /\ table[n].age \in Nat
    BY <2>1, RoundsAssumption DEF Discover, Info
  <2>3. table[n].age <= MaxLate + unheard[n] + OnTheWay(n)
    BY <2>1 DEF SilenceCounted
  <2> QED
    BY <1>1, <1>2, <1>5, <1>6, <1>7, <2>2, <2>3, RoundsAssumption DEF OnTheWay
<1> QED
  BY <1>4, <1>8

\* A ping that is answered comes back as a reply.
LEMMA ReplySilence ==
  ASSUME NEW k \in Neighbor
  PROVE  IInv /\ SilenceCounted /\ Reply(k) => SilenceCounted'
<1> SUFFICES ASSUME IInv, SilenceCounted, Reply(k), NEW n \in Neighbor
             PROVE  /\ pings'[n] \cap replies'[n] = {}
                    /\ OnTheWay(n)' = OnTheWay(n)
  BY DEF SilenceCounted, Reply
<1> DEFINE a == Oldest(pings[k])
<1>1. pings[n] \in SUBSET Age /\ replies[n] \in SUBSET Age
  BY DEF IInv, TypeOK
<1>2. a \in pings[k]
  BY OldestIsOne DEF IInv, TypeOK, Reply
<1> HIDE DEF a
<1>3. /\ pings' = [pings EXCEPT ![k] = @ \ {a}]
      /\ replies' = [replies EXCEPT ![k] = @ \cup {a}]
  BY DEF Reply, a
<1>4. CASE n # k
  <2>1. pings'[n] = pings[n] /\ replies'[n] = replies[n]
    BY <1>3, <1>4 DEF IInv, TypeOK
  <2> QED
    BY <2>1 DEF SilenceCounted, OnTheWay
<1>5. CASE n = k
  <2>1. pings'[n] = pings[n] \ {a} /\ replies'[n] = replies[n] \cup {a}
    BY <1>3, <1>5 DEF IInv, TypeOK
  <2>2. pings[n] \cap replies[n] = {} /\ a \in pings[n] /\ a \notin replies[n]
    BY <1>2, <1>5 DEF SilenceCounted
  <2>3. /\ IsFiniteSet(pings[n]) /\ IsFiniteSet(replies[n])
        /\ Cardinality(pings[n]) \in Nat /\ Cardinality(replies[n]) \in Nat
    BY <1>1, AgesAreFinite
  <2>4. Cardinality(pings'[n]) = Cardinality(pings[n]) - 1
    BY <2>1, <2>2, <2>3, FS_RemoveElement
  <2>5. Cardinality(replies'[n]) = Cardinality(replies[n]) + 1
    BY <2>1, <2>2, <2>3, FS_AddElement
  <2> QED
    BY <2>1, <2>2, <2>3, <2>4, <2>5 DEF OnTheWay
<1> QED
  BY <1>4, <1>5

\* A packet that is lost counts as unheard, or the silence is as long as any.
LEMMA LoseSilence ==
  ASSUME NEW k \in Neighbor
  PROVE  IInv /\ SilenceCounted /\ Lose(k) => SilenceCounted'
<1> SUFFICES ASSUME IInv, SilenceCounted, Lose(k), NEW n \in Neighbor
             PROVE  /\ pings'[n] \cap replies'[n] = {}
                    /\ n \in DOMAIN table =>
                         table[n].age <= MaxLate + unheard'[n] + OnTheWay(n)'
  BY DEF SilenceCounted, Lose
<1>1. /\ pings[n] \in SUBSET Age /\ replies[n] \in SUBSET Age
      /\ unheard[n] \in Nat
  BY RoundsAssumption DEF IInv, TypeOK
<1>2. CASE n # k
  <2>1. /\ pings'[n] = pings[n] /\ replies'[n] = replies[n]
        /\ unheard'[n] = unheard[n]
    BY <1>2 DEF IInv, TypeOK, Lose
  <2> QED
    BY <2>1 DEF SilenceCounted, OnTheWay
<1>3. CASE n = k
  <2>1. \/ \E a \in pings[n] : /\ pings'[n] = pings[n] \ {a}
                               /\ replies'[n] = replies[n]
        \/ \E a \in replies[n] : /\ replies'[n] = replies[n] \ {a}
                                 /\ pings'[n] = pings[n]
    BY <1>3 DEF IInv, TypeOK, Lose
  <2>2. pings'[n] \cap replies'[n] = {}
    BY <2>1 DEF SilenceCounted
  <2>3. /\ OnTheWay(n)' = OnTheWay(n) - 1
        /\ OnTheWay(n) \in Nat /\ OnTheWay(n)' \in Nat
    <3>1. /\ Cardinality(pings[n]) \in Nat /\ Cardinality(replies[n]) \in Nat
          /\ IsFiniteSet(pings[n]) /\ IsFiniteSet(replies[n])
      BY <1>1, AgesAreFinite
    <3>2. pings'[n] \in SUBSET Age /\ replies'[n] \in SUBSET Age
      BY <1>1, <2>1
    <3>3. Cardinality(pings'[n]) \in Nat /\ Cardinality(replies'[n]) \in Nat
      BY <3>2, AgesAreFinite
    <3>4. Cardinality(pings'[n]) + Cardinality(replies'[n])
            = Cardinality(pings[n]) + Cardinality(replies[n]) - 1
      <4>1. CASE /\ replies'[n] = replies[n]
                 /\ \E a \in pings[n] : pings'[n] = pings[n] \ {a}
        <5>1. Cardinality(pings'[n]) = Cardinality(pings[n]) - 1
          BY <3>1, <4>1, FS_RemoveElement
        <5> QED
          BY <3>1, <4>1, <5>1
      <4>2. CASE /\ pings'[n] = pings[n]
                 /\ \E a \in replies[n] : replies'[n] = replies[n] \ {a}
        <5>1. Cardinality(replies'[n]) = Cardinality(replies[n]) - 1
          BY <3>1, <4>2, FS_RemoveElement
        <5> QED
          BY <3>1, <4>2, <5>1
      <4> QED
        BY <2>1, <4>1, <4>2
    <3> QED
      BY <3>1, <3>3, <3>4 DEF OnTheWay
  <2>4. unheard'[n] = IF unheard[n] < DropValue THEN unheard[n] + 1
                                                ELSE unheard[n]
    BY <1>3 DEF IInv, TypeOK, Lose
  <2>5. ASSUME n \in DOMAIN table
        PROVE  table[n].age <= MaxLate + unheard'[n] + OnTheWay(n)'
    <3>1. table[n] \in Info
      BY <2>5 DEF IInv, TypeOK
    <3>2. table[n].age \in Nat /\ table[n].age <= DropValue - 1
      BY <3>1, RoundsAssumption DEF Info
    <3>3. table[n].age <= MaxLate + unheard[n] + OnTheWay(n)
      BY <2>5 DEF SilenceCounted
    <3> HIDE DEF OnTheWay
    <3> QED
      BY <1>1, <2>3, <2>4, <3>2, <3>3, RoundsAssumption
  <2> QED
    BY <2>2, <2>5
<1> QED
  BY <1>2, <1>3

\* An answer is no older than it can be late, and so is then the entry.
LEMMA GotReplySilence ==
  ASSUME NEW k \in Neighbor
  PROVE  IInv /\ SilenceCounted /\ GotReply(k) => SilenceCounted'
<1> SUFFICES ASSUME IInv, SilenceCounted, GotReply(k), NEW n \in Neighbor
             PROVE  /\ pings'[n] \cap replies'[n] = {}
                    /\ n \in DOMAIN table' =>
                         table'[n].age <= MaxLate + unheard'[n] + OnTheWay(n)'
  BY DEF SilenceCounted
<1> DEFINE a == Oldest(replies[k])
<1>1. a \in replies[k] /\ a \in 1 .. MaxLate
  BY OldestIsOne DEF IInv, TypeOK, GotReply, Age
<1> HIDE DEF a
<1>2. /\ pings'[n] = pings[n] /\ replies'[n] \subseteq replies[n]
      /\ n # k => /\ replies'[n] = replies[n] /\ unheard'[n] = unheard[n]
      /\ n = k => unheard'[n] = 0
  BY DEF GotReply, IInv, TypeOK
<1>3. pings'[n] \cap replies'[n] = {}
  BY <1>2 DEF SilenceCounted
<1>4. CASE n # k
  <2>1. n \in DOMAIN table' => n \in DOMAIN table /\ table'[n] = table[n]
    BY <1>4 DEF GotReply, Put
  <2> QED
    BY <1>2, <1>3, <1>4, <2>1 DEF SilenceCounted, OnTheWay
<1>5. CASE n = k
  <2>1. table'[n].age <= a
    <3>1. CASE n \notin DOMAIN table
      <4>1. table' = Put(n, [age |-> a, quality |-> Full, degraded |-> FALSE])
        BY <1>5, <3>1 DEF GotReply, a
      <4>2. table'[n].age = a
        BY <4>1 DEF Put
      <4> QED
        BY <1>1, <4>2, RoundsAssumption
    <3>2. CASE n \in DOMAIN table
      <4>1. table[n].age \in Nat
        BY <3>2, RoundsAssumption DEF IInv, TypeOK, Info
      <4>2. CASE table[n].age > a
        <5>1. ~(table[n].age <= a)
          BY <1>1, <4>1, <4>2, RoundsAssumption
        <5>2. table' = Put(n, Answered(n, a))
          BY <1>5, <3>2, <5>1 DEF GotReply, a
        <5>3. table'[n].age = a
          BY <5>2 DEF Put, Answered
        <5> QED
          BY <1>1, <5>3, RoundsAssumption
      <4>3. CASE table[n].age <= a
        <5>1. ~(table[n].age > a)
          BY <1>1, <4>1, <4>3, RoundsAssumption
        <5>2. table' = table
          BY <1>5, <3>2, <5>1 DEF GotReply, a
        <5> QED
          BY <4>3, <5>2
      <4> QED
        BY <1>1, <4>1, <4>2, <4>3, RoundsAssumption
    <3> QED
      BY <3>1, <3>2
  <2>2. ASSUME n \in DOMAIN table'
        PROVE  table'[n].age <= MaxLate + unheard'[n] + OnTheWay(n)'
    <3>1. table'[n].age \in Nat
      <4>1. table'[n] \in Info
        BY <2>2, NextInv DEF IInv, TypeOK, Next
      <4> QED
        BY <4>1, RoundsAssumption DEF Info
    <3>2. pings'[n] \in SUBSET Age /\ replies'[n] \in SUBSET Age
      BY <1>2 DEF IInv, TypeOK
    <3>3. Cardinality(pings'[n]) \in Nat /\ Cardinality(replies'[n]) \in Nat
      BY <3>2, AgesAreFinite
    <3> QED
      BY <1>1, <1>2, <1>5, <2>1, <3>1, <3>3, RoundsAssumption DEF OnTheWay
  <2> QED
    BY <1>3, <2>2
<1> QED
  BY <1>4, <1>5

\* What is kept by updateTable keeps its age.
LEMMA UpdateSilence == IInv /\ SilenceCounted /\ UpdateTable => SilenceCounted'
<1> SUFFICES ASSUME IInv, SilenceCounted, UpdateTable, NEW n \in Neighbor
             PROVE  /\ pings'[n] \cap replies'[n] = {}
                    /\ n \in DOMAIN table' =>
                         table'[n].age <= MaxLate + unheard'[n] + OnTheWay(n)'
  BY DEF SilenceCounted
<1>1. UNCHANGED <<pings, replies, unheard>>
  BY DEF UpdateTable, airVars
<1>2. n \in DOMAIN table' =>
        /\ n \in DOMAIN table /\ table'[n] = Refreshed(n)
  BY DEF UpdateTable
<1>3. n \in DOMAIN table => Refreshed(n).age = table[n].age
  BY DEF Refreshed, IInv, TypeOK, Info
<1> QED
  BY <1>1, <1>2, <1>3 DEF SilenceCounted, OnTheWay

\* Every step keeps the count.
LEMMA NextSilence == IInv /\ SilenceCounted /\ [Next]_vars => SilenceCounted'
<1> SUFFICES ASSUME IInv, SilenceCounted, [Next]_vars PROVE SilenceCounted'
  OBVIOUS
<1>1. CASE UNCHANGED <<table, airVars>>
  BY <1>1 DEF SilenceCounted, OnTheWay, airVars
<1>2. CASE \E n \in Neighbor : Reply(n) \/ GotReply(n) \/ Lose(n)
  BY <1>2, ReplySilence, GotReplySilence, LoseSilence
<1> QED
  BY <1>1, <1>2, UpdateSilence, DiscoverSilence
     DEF Next, DiscoverTimerFired, InitShare, GotLSA, vars

\* For any thresholds and delays: a neighbour is dropped only after a silence of
\* drop_value - 1 rounds, less those by which an answer can be late.
THEOREM DropsTheSilent == Spec => DroppedOnlyWhenSilent
<1> DEFINE Silent ==
      \A n \in DOMAIN table :
        n \notin DOMAIN table' =>
          unheard[n] + Cardinality(pings[n]) + Cardinality(replies[n])
            >= DropValue - 1 - MaxLate
<1>1. ASSUME IInv, SilenceCounted, [Next]_vars PROVE Silent
  <2> SUFFICES ASSUME NEW n \in DOMAIN table, n \notin DOMAIN table'
               PROVE  unheard[n] + Cardinality(pings[n])
                        + Cardinality(replies[n]) >= DropValue - 1 - MaxLate
    OBVIOUS
  <2>1. UpdateTable
    BY <1>1 DEF Next, DiscoverTimerFired, Discover, InitShare, Reply, GotReply,
                Lose, GotLSA, Put, vars
  <2>2. table[n].age >= DropValue - 1
    BY <2>1 DEF UpdateTable, Expired
  <2>3. /\ n \in Neighbor /\ table[n] \in Info /\ unheard[n] \in Nat
        /\ pings[n] \in SUBSET Age /\ replies[n] \in SUBSET Age
    BY <1>1, RoundsAssumption DEF IInv, TypeOK
  <2>4. Cardinality(pings[n]) \in Nat /\ Cardinality(replies[n]) \in Nat
    BY <2>3, AgesAreFinite
  <2>5. table[n].age <= MaxLate + unheard[n] + OnTheWay(n)
    BY <1>1, <2>3 DEF SilenceCounted
  <2>6. table[n].age \in Nat
    BY <2>3, RoundsAssumption DEF Info
  <2> QED
    BY <2>2, <2>3, <2>4, <2>5, <2>6, RoundsAssumption DEF OnTheWay
<1>2. Spec => [](IInv /\ SilenceCounted)
  BY InitInv, NextInv, InitSilence, NextSilence, PTL DEF Spec
<1>3. IInv /\ SilenceCounted /\ [Next]_vars => [Silent]_vars
  BY <1>1
<1> HIDE DEF Silent
<1>4. Spec => [][Silent]_vars
  BY <1>2, <1>3, PTL DEF Spec
<1> QED
  BY <1>4 DEF DroppedOnlyWhenSilent, Silent
-----------------------------------------------------------------------------
(* The quality divides, and its cost is small                              *)

\* f[k] bounds from below a quality that has not been renewed for k rounds: it
\* is Alpha at most when an answer comes, and decays no faster than the average.
Floor(f) ==
  /\ f \in [0 .. DropValue - 3 -> 4 .. Alpha]
  /\ \A k \in 0 .. DropValue - 4 : f[k + 1] <= Ewma(0, f[k])

\* A neighbour is dropped before its quality has decayed to less than 4.
DroppedInTime == \E f \in [0 .. DropValue - 3 -> 4 .. Alpha] : Floor(f)

\* The rounds in which the quality of n has decayed since its last answer: not
\* in the one of the ping that was answered, nor in one whose updateTable is to
\* come.
Decays(n) ==
  IF task = "discover" THEN table[n].age - 1
  ELSE IF table[n].age > 1 THEN table[n].age - 2 ELSE 0

AboveFloor(f) == \A n \in DOMAIN table : f[Decays(n)] <= table[n].quality

\* A quality decays to no less than a smaller one, and never grows by decaying.
LEMMA DecayGrows ==
  ASSUME NEW g \in 0 .. Full, NEW q \in 0 .. Full, g <= q
  PROVE  /\ Ewma(0, g) \in Nat /\ Ewma(0, q) \in Nat
         /\ Ewma(0, g) <= Ewma(0, q)
         /\ Ewma(0, g) <= g
<1> DEFINE w == 1000 - Alpha
           a == w * g
           b == w * q
<1>1. /\ Alpha \in Nat /\ w \in Nat /\ g \in Nat /\ q \in Nat /\ w <= 1000
  BY WeightsAreNat DEF Full
<1>2. a \in Nat /\ b \in Nat /\ a <= b
  <2> HIDE DEF w
  <2> QED
    BY <1>1, ProductGrows
<1>3. a <= 1000 * g
  <2>1. g * w <= g * 1000
    <3> HIDE DEF w
    <3> QED
      BY <1>1, ProductGrows
  <2> QED
    BY <1>1, <2>1
<1>4. Ewma(0, g) = a \div 1000 /\ Ewma(0, q) = b \div 1000
  BY <1>1 DEF Ewma
<1>5. a \div 1000 \in Nat /\ b \div 1000 \in Nat
      /\ a \div 1000 <= b \div 1000 /\ a \div 1000 <= g
  <2> HIDE DEF a, b
  <2> QED
    BY <1>1, <1>2, <1>3
<1> QED
  BY <1>4, <1>5

\* An answer takes any quality to Alpha at least.
LEMMA AnswerRaises ==
  ASSUME NEW q \in 0 .. Full
  PROVE  Alpha <= Ewma(1, q)
<1> DEFINE m == (1000 - Alpha) * q
<1>1. m \in Nat /\ Alpha \in Nat
  BY WeightsAreNat, ProductGrows DEF Full
<1>2. m \div 1000 \in Nat
  <2> HIDE DEF m
  <2> QED
    BY <1>1, Quotient
<1> HIDE DEF m
<1>3. Ewma(1, q) = Alpha * 1 + m \div 1000
  BY DEF Ewma, m
<1> QED
  BY <1>1, <1>2, <1>3

\* The number of decays is within the floor, and the floor within the quality.
LEMMA FloorIsDefined ==
  ASSUME NEW f, Floor(f), IInv, NEW n \in DOMAIN table
  PROVE  Decays(n) \in 0 .. DropValue - 3 /\ f[Decays(n)] \in 4 .. Alpha
<1>1. /\ table[n] \in Info
      /\ task = "discover" => table[n].age < DropValue - 1
  BY DEF IInv, TypeOK, FreshTable
<1>2. Decays(n) \in 0 .. DropValue - 3
  BY <1>1, RoundsAssumption DEF Decays, Info
<1> QED
  BY <1>2 DEF Floor

\* A decay takes a quality from above its floor to above the next.
LEMMA UpdateFloor ==
  ASSUME NEW f, Floor(f)
  PROVE  IInv /\ AboveFloor(f) /\ UpdateTable => AboveFloor(f)'
<1> SUFFICES ASSUME IInv, AboveFloor(f), UpdateTable, NEW n \in DOMAIN table'
             PROVE  f[Decays(n)'] <= table'[n].quality
  BY DEF AboveFloor
<1>1. /\ n \in DOMAIN table /\ table'[n] = Refreshed(n)
      /\ task = "updateTable" /\ task' = "discover" /\ ~Expired(n)
  BY DEF UpdateTable
<1> DEFINE d == Decays(n)
           q == table[n].quality
           g == table[n].age
<1>2. table[n] \in Info /\ q \in 0 .. Full /\ g \in 1 .. DropValue - 2
  BY <1>1, RoundsAssumption DEF IInv, TypeOK, Info, Expired
<1>3. d \in 0 .. DropValue - 3 /\ f[d] \in 4 .. Alpha /\ f[d] <= q
  BY <1>1, FloorIsDefined DEF AboveFloor
<1>4. Refreshed(n).age = g /\ Refreshed(n).quality \in {q, Decayed(n)}
  BY <1>2 DEF Refreshed, Info
<1>5. Decays(n)' = g - 1
  BY <1>1, <1>4 DEF Decays
<1>6. CASE g = 1
  <2>1. d = 0 /\ Decays(n)' = 0 /\ Decayed(n) = q
    BY <1>1, <1>5, <1>6 DEF Decays, Decayed
  <2> QED
    BY <1>1, <1>3, <1>4, <2>1
<1>7. CASE g > 1
  <2>1. d = g - 2 /\ d \in 0 .. DropValue - 4 /\ Decays(n)' = d + 1
    BY <1>1, <1>2, <1>5, <1>7, RoundsAssumption DEF Decays
  <2>2. Decayed(n) = Ewma(0, q)
    BY <1>7 DEF Decayed
  <2>3. f[d + 1] <= Ewma(0, f[d]) /\ f[d + 1] \in 4 .. Alpha
    <3> HIDE DEF d
    <3> QED
      BY <2>1, RoundsAssumption DEF Floor
  <2>4. Alpha \in 1 .. 1000
    BY QualityAssumption DEF Full
  <2> HIDE DEF d, q
  <2>5. f[d] \in 0 .. Full /\ f[d + 1] \in Nat
    <3> DEFINE y == f[d]
    <3>1. y \in 4 .. Alpha
      BY <1>3
    <3>2. y \in 0 .. 1000
      <4> HIDE DEF y
      <4> QED
        BY <2>4, <3>1
    <3> QED
      BY <2>3, <2>4, <3>2 DEF Full
  <2>6. /\ Ewma(0, f[d]) \in Nat /\ Ewma(0, q) \in Nat
        /\ Ewma(0, f[d]) <= Ewma(0, q) /\ Ewma(0, f[d]) <= f[d]
    BY <1>2, <1>3, <2>5, DecayGrows
  <2>7. f[d + 1] <= q /\ f[d + 1] <= Ewma(0, q)
    <3> DEFINE x == f[d + 1]
               y == f[d]
               u == Ewma(0, y)
               v == Ewma(0, q)
    <3>1. x \in Nat /\ u \in Nat /\ v \in Nat /\ x <= u /\ u <= y /\ u <= v
      BY <2>3, <2>5, <2>6
    <3>2. y \in Nat /\ q \in Nat /\ y <= q
      BY <1>2, <1>3, <2>5 DEF Full
    <3> HIDE DEF x, y, u, v
    <3>3. x <= q /\ x <= v
      BY <3>1, <3>2
    <3> QED
      BY <3>3 DEF x, v
  <2> QED
    BY <1>1, <1>4, <2>1, <2>2, <2>7
<1> QED
  BY <1>2, <1>6, <1>7

\* A round later an entry has decayed as often as it is old.
LEMMA DiscoverFloor ==
  ASSUME NEW f, Floor(f)
  PROVE  IInv /\ AboveFloor(f) /\ Discover => AboveFloor(f)'
<1> SUFFICES ASSUME IInv, AboveFloor(f), Discover, NEW n \in DOMAIN table'
             PROVE  f[Decays(n)'] <= table'[n].quality
  BY DEF AboveFloor
<1>1. /\ n \in DOMAIN table /\ table[n] \in Info
      /\ table' = [m \in DOMAIN table |-> [table[m] EXCEPT !.age = @ + 1]]
      /\ task = "discover" /\ task' = "discoverTimer"
  BY DEF Discover, IInv, TypeOK
<1>2. /\ table'[n].age = table[n].age + 1 /\ table[n].age \in Nat \ {0}
      /\ table'[n].quality = table[n].quality
  BY <1>1, RoundsAssumption DEF Info
<1>3. Decays(n)' = Decays(n)
  BY <1>1, <1>2 DEF Decays
<1> QED
  BY <1>1, <1>2, <1>3 DEF AboveFloor

\* What an answer stores is above any floor.
LEMMA GotReplyFloor ==
  ASSUME NEW f, Floor(f), NEW k \in Neighbor
  PROVE  IInv /\ AboveFloor(f) /\ GotReply(k) => AboveFloor(f)'
<1> SUFFICES ASSUME IInv, AboveFloor(f), GotReply(k), NEW n \in DOMAIN table'
             PROVE  f[Decays(n)'] <= table'[n].quality
  BY DEF AboveFloor
<1>1. IInv' /\ task' = task
  BY NextInv DEF Next, GotReply
<1>2. f[Decays(n)'] \in 4 .. Alpha
  <2>1. /\ table'[n] \in Info
        /\ task' = "discover" => table'[n].age < DropValue - 1
    BY <1>1 DEF IInv, TypeOK, FreshTable
  <2>2. Decays(n)' \in 0 .. DropValue - 3
    BY <2>1, RoundsAssumption DEF Decays, Info
  <2> QED
    BY <2>2 DEF Floor
<1>3. Alpha \in 1 .. 1000
  BY QualityAssumption DEF Full
<1>4. \/ n \in DOMAIN table /\ table'[n] = table[n]
      \/ table'[n].quality = Full
      \/ n \in DOMAIN table /\ table'[n].quality = Ewma(1, table[n].quality)
  BY DEF GotReply, Put, Answered
<1>5. CASE n \in DOMAIN table /\ table'[n] = table[n]
  BY <1>1, <1>5 DEF AboveFloor, Decays
<1>6. CASE table'[n].quality = Full
  BY <1>2, <1>3, <1>6 DEF Full
<1>7. CASE n \in DOMAIN table /\ table'[n].quality = Ewma(1, table[n].quality)
  <2>1. table[n].quality \in 0 .. Full
    BY <1>7 DEF IInv, TypeOK, Info
  <2>2. /\ Ewma(1, table[n].quality) \in 0 .. Full
        /\ Alpha <= Ewma(1, table[n].quality)
    BY <2>1, EwmaType, AnswerRaises
  <2> DEFINE x == f[Decays(n)']
             y == table'[n].quality
  <2>3. x \in 4 .. Alpha /\ y \in 0 .. 1000 /\ Alpha <= y
    BY <1>2, <1>7, <2>2 DEF Full
  <2> HIDE DEF x, y
  <2>4. x <= y
    BY <1>3, <2>3
  <2> QED
    BY <2>4 DEF x, y
<1> QED
  BY <1>4, <1>5, <1>6, <1>7

\* Every step keeps the qualities above their floors.
LEMMA NextFloor ==
  ASSUME NEW f, Floor(f)
  PROVE  IInv /\ AboveFloor(f) /\ [Next]_vars => AboveFloor(f)'
<1> SUFFICES ASSUME IInv, AboveFloor(f), [Next]_vars PROVE AboveFloor(f)'
  OBVIOUS
<1>1. CASE UNCHANGED <<table, task>>
  BY <1>1 DEF AboveFloor, Decays
<1>2. CASE DiscoverTimerFired
  BY <1>2 DEF AboveFloor, Decays, DiscoverTimerFired
<1>3. CASE \E n \in Neighbor : GotReply(n)
  BY <1>3, GotReplyFloor
<1> QED
  BY <1>1, <1>2, <1>3, UpdateFloor, DiscoverFloor
     DEF Next, InitShare, Reply, Lose, GotLSA, vars

\* A quality of 4 makes a cost that 25 links do not add up to INFINITE.
LEMMA FourIsEnough ==
  ASSUME NEW q \in Nat, 4 <= q
  PROVE  q > 0 /\ 25 * (X \div q) < 65535
<1>1. X \div q \in Nat /\ q * (X \div q) <= 10000
  BY DEF X
<1> DEFINE c == X \div q
<1>2. c \in Nat /\ q * c <= 10000
  BY <1>1
<1> HIDE DEF c
<1>3. c * 4 <= c * q
  BY <1>2, ProductGrows
<1>4. c * 4 <= 10000
  BY <1>2, <1>3
<1> QED
  BY <1>2, <1>4 DEF c

\* getLinkCost never divides by 0 and its costs never add up to INFINITE, when
\* the weight and drop_value let no quality fall below 4 before the neighbour
\* is dropped: how the code's constants make their choice of alpha and
\* drop_value depend on each other.
THEOREM CostsSound ==
  ASSUME DroppedInTime
  PROVE  Spec => []CostsAreSound
<1>1. PICK f : Floor(f)
  BY DEF DroppedInTime
<1>2. IInv /\ AboveFloor(f) => CostsAreSound
  <2> SUFFICES ASSUME IInv, AboveFloor(f), NEW n \in DOMAIN table
               PROVE  /\ table[n].quality > 0
                      /\ 25 * (X \div table[n].quality) < 65535
    BY DEF CostsAreSound
  <2>1. f[Decays(n)] \in 4 .. Alpha /\ f[Decays(n)] <= table[n].quality
    BY <1>1, FloorIsDefined DEF AboveFloor
  <2>2. table[n].quality \in Nat /\ Alpha \in Nat
    BY WeightsAreNat DEF IInv, TypeOK, Info, Full
  <2>3. 4 <= table[n].quality
    BY <2>1, <2>2
  <2> QED
    BY <2>2, <2>3, FourIsEnough
<1>3. Init => AboveFloor(f)
  BY DEF Init, AboveFloor
<1>4. IInv /\ AboveFloor(f) /\ [Next]_vars => AboveFloor(f)'
  BY <1>1, NextFloor
<1> QED
  BY <1>2, <1>3, <1>4, InitInv, NextInv, PTL DEF Spec

\* With the alpha and the drop_value of NeighborDiscoveryP.nc the qualities of
\* an unanswered neighbour stay at 51 or more, for any thresholds and delays.
THEOREM CodeCosts ==
  ASSUME Alpha = 100, DropValue = 9
  PROVE  Spec => []CostsAreSound
<1> DEFINE f == [k \in 0 .. 6 |-> CASE k = 0 -> 100 [] k = 1 -> 90
                                    [] k = 2 -> 81  [] k = 3 -> 72
                                    [] k = 4 -> 64  [] k = 5 -> 57
                                    [] OTHER -> 51]
<1>1. f \in [0 .. DropValue - 3 -> 4 .. Alpha]
  OBVIOUS
<1>2. \A k \in 0 .. DropValue - 4 : f[k + 1] <= Ewma(0, f[k])
  <2>1. \A q \in Nat : Ewma(0, q) = (900 * q) \div 1000
    BY DEF Ewma
  <2> QED
    BY <2>1
<1>3. DroppedInTime
  BY <1>1, <1>2 DEF DroppedInTime, Floor
<1> QED
  BY <1>3, CostsSound
=============================================================================
