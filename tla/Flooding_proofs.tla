--------------------------- MODULE Flooding_proofs ---------------------------
(* Proofs about Flooding for every network and every bound.  The inductive   *)
(* invariant has two parts: Always, whatever is lost, and WhenIntact, which  *)
(* describes the links of a network that lost nothing.                       *)
EXTENDS Flooding, SequenceTheorems, TLAPS

-----------------------------------------------------------------------------
(* Sequences and links                                                     *)

\* RemoveAt gives the same elements in the same order, without the i-th.
LEMMA RemoveAtElements ==
  ASSUME NEW T, NEW q \in Seq(T), NEW i \in DOMAIN q
  PROVE  /\ RemoveAt(q, i) \in Seq(T)
         /\ Len(RemoveAt(q, i)) = Len(q) - 1
         /\ \A j \in 1 .. Len(q) - 1 :
              RemoveAt(q, i)[j] = IF j < i THEN q[j] ELSE q[j + 1]
<1> DEFINE before == SubSeq(q, 1, i - 1)
           after == SubSeq(q, i + 1, Len(q))
<1>1. /\ before \in Seq(T) /\ Len(before) = i - 1
      /\ \A j \in 1 .. i - 1 : before[j] = q[j]
  BY SubSeqProperties
<1>2. /\ after \in Seq(T) /\ Len(after) = Len(q) - i
      /\ \A j \in 1 .. Len(q) - i : after[j] = q[i + j]
  BY SubSeqProperties
<1>3. RemoveAt(q, i) = before \o after
  BY DEF RemoveAt
<1>4. i \in 1 .. Len(q) /\ Len(q) \in Nat
  OBVIOUS
<1> HIDE DEF before, after
<1>5. /\ before \o after \in Seq(T)
      /\ Len(before \o after) = Len(before) + Len(after)
      /\ \A j \in 1 .. Len(before) + Len(after) :
           (before \o after)[j] = IF j <= Len(before) THEN before[j]
                                  ELSE after[j - Len(before)]
  BY <1>1, <1>2, ConcatProperties
<1>6. ASSUME NEW j \in 1 .. Len(q) - 1
      PROVE  (before \o after)[j] = IF j < i THEN q[j] ELSE q[j + 1]
  <2>1. CASE j < i
    <3>1. /\ j \in 1 .. i - 1 /\ j <= Len(before)
          /\ j \in 1 .. Len(before) + Len(after)
      BY <1>1, <1>2, <1>4, <2>1
    <3>2. (before \o after)[j] = before[j]
      BY <1>5, <3>1
    <3> QED
      BY <1>1, <2>1, <3>1, <3>2
  <2>2. CASE ~(j < i)
    <3>1. j - (i - 1) \in 1 .. Len(q) - i /\ i + (j - (i - 1)) = j + 1
      BY <1>4, <2>2
    <3>2. after[j - (i - 1)] = q[j + 1]
      BY <1>2, <3>1
    <3>3. /\ j \in 1 .. Len(before) + Len(after)
          /\ ~(j <= Len(before)) /\ j - Len(before) = j - (i - 1)
      BY <1>1, <1>2, <1>4, <2>2
    <3>4. (before \o after)[j] = after[j - (i - 1)]
      BY <1>5, <3>3
    <3> QED
      BY <2>2, <3>2, <3>4
  <2> QED
    BY <2>1, <2>2
<1>7. Len(before) + Len(after) = Len(q) - 1
  BY <1>1, <1>2, <1>4
<1> QED
  BY <1>3, <1>5, <1>6, <1>7

\* Sending appends to the links from the sender to dests only.
LEMMA SentLinks ==
  ASSUME NEW ch \in Channels, NEW n \in Node,
         NEW dests, NEW pkt \in Packet
  PROVE  /\ Sent(ch, n, dests, pkt) \in Channels
         /\ \A u, v \in Node :
              Sent(ch, n, dests, pkt)[u][v] =
                IF u = n /\ v \in dests THEN Append(ch[u][v], pkt) ELSE ch[u][v]
BY DEF Sent, Channels

\* A packet that is sent is carried, and what was carried before still is.
LEMMA CarriesAppend ==
  ASSUME NEW q \in Seq(Packet), NEW pkt \in Packet, NEW s, NEW k
  PROVE  Carries(Append(q, pkt), s, k)
           <=> Carries(q, s, k) \/ (pkt.src = s /\ pkt.seq = k)
<1>1. /\ Len(Append(q, pkt)) = Len(q) + 1
      /\ Append(q, pkt) \in Seq(Packet)
      /\ Append(q, pkt)[Len(q) + 1] = pkt
      /\ \A i \in 1 .. Len(q) : Append(q, pkt)[i] = q[i]
  OBVIOUS
<1>2. /\ DOMAIN Append(q, pkt) = 1 .. Len(q) + 1
      /\ DOMAIN q = 1 .. Len(q)
      /\ Len(q) \in Nat
  BY <1>1
<1> QED
  BY <1>1, <1>2 DEF Carries

\* Taking the head of a link leaves the other packets on it.
LEMMA CarriesTail ==
  ASSUME NEW q \in Seq(Packet), q # <<>>, NEW s, NEW k,
         Carries(q, s, k), ~(Head(q).src = s /\ Head(q).seq = k)
  PROVE  Carries(Tail(q), s, k)
<1>1. PICK i \in DOMAIN q : q[i].src = s /\ q[i].seq = k
  BY DEF Carries
<1>2. i # 1 /\ i \in 2 .. Len(q)
  BY <1>1
<1>3. i - 1 \in DOMAIN Tail(q) /\ Tail(q)[i - 1] = q[i]
  BY <1>2
<1> QED
  BY <1>1, <1>3 DEF Carries

-----------------------------------------------------------------------------
(* The order of a link                                                     *)

\* What a link keeps of its order when its head is taken.
LEMMA OrderTail ==
  ASSUME NEW q \in Seq(Packet), q # <<>>, NEW t \in [Node -> Nat],
         Below(q, t), Ascending(q)
  PROVE  Below(Tail(q), t) /\ Ascending(Tail(q))
<1>1. /\ Tail(q) \in Seq(Packet) /\ Len(Tail(q)) = Len(q) - 1
      /\ \A i \in 1 .. Len(q) - 1 : Tail(q)[i] = q[i + 1]
  OBVIOUS
<1>2. \A i \in DOMAIN Tail(q) : i + 1 \in DOMAIN q /\ Tail(q)[i] = q[i + 1]
  BY <1>1
<1>3. \A i, j \in DOMAIN Tail(q) : i < j => i + 1 < j + 1
  BY <1>1
<1> QED
  BY <1>2, <1>3 DEF Below, Ascending

\* What a link keeps of its order when one packet is lost.
LEMMA OrderRemoveAt ==
  ASSUME NEW q \in Seq(Packet), NEW k \in DOMAIN q, NEW t \in [Node -> Nat],
         Below(q, t), Ascending(q)
  PROVE  Below(RemoveAt(q, k), t) /\ Ascending(RemoveAt(q, k))
<1> DEFINE place(j) == IF j < k THEN j ELSE j + 1
<1>1. /\ DOMAIN RemoveAt(q, k) = 1 .. Len(q) - 1
      /\ \A j \in 1 .. Len(q) - 1 : /\ place(j) \in DOMAIN q
                                    /\ RemoveAt(q, k)[j] = q[place(j)]
  BY RemoveAtElements
<1>2. \A i, j \in 1 .. Len(q) - 1 : i < j => place(i) < place(j)
  OBVIOUS
<1> HIDE DEF place
<1> QED
  BY <1>1, <1>2 DEF Below, Ascending

\* A table that grows stays ahead of the link.
LEMMA BelowLater ==
  ASSUME NEW q \in Seq(Packet), NEW t \in [Node -> Nat], Below(q, t),
         NEW s \in Node, NEW k \in Nat, t[s] <= k
  PROVE  Below(q, [t EXCEPT ![s] = k])
<1>1. \A i \in DOMAIN q : q[i] \in Packet
  OBVIOUS
<1>2. \A i \in DOMAIN q : q[i].src \in Node /\ q[i].seq \in Nat
  BY <1>1 DEF Packet
<1> QED
  BY <1>2 DEF Below

\* A link stays in order when a new number of its source is sent on it.
LEMMA OrderAppend ==
  ASSUME NEW q \in Seq(Packet), NEW pkt \in Packet, NEW t \in [Node -> Nat],
         Below(q, t), Ascending(q), t[pkt.src] < pkt.seq
  PROVE  /\ Below(Append(q, pkt), [t EXCEPT ![pkt.src] = pkt.seq])
         /\ Ascending(Append(q, pkt))
<1> DEFINE r == Append(q, pkt)
<1>1. /\ DOMAIN r = 1 .. Len(q) + 1 /\ DOMAIN q = 1 .. Len(q)
      /\ Len(q) \in Nat
      /\ r[Len(q) + 1] = pkt
      /\ \A i \in 1 .. Len(q) : r[i] = q[i] /\ q[i] \in Packet
  OBVIOUS
<1>2. pkt.src \in Node /\ pkt.seq \in Nat
  BY DEF Packet
<1>3. \A i \in 1 .. Len(q) : q[i].src \in Node /\ q[i].seq \in Nat
  BY <1>1 DEF Packet
<1> HIDE DEF r
<1>4. Below(r, [t EXCEPT ![pkt.src] = pkt.seq])
  <2> DEFINE later == [t EXCEPT ![pkt.src] = pkt.seq]
  <2>1. \A s \in Node : later[s] = IF s = pkt.src THEN pkt.seq ELSE t[s]
    BY <1>2
  <2> HIDE DEF later
  <2>2. ASSUME NEW i \in 1 .. Len(q) PROVE r[i].seq <= later[r[i].src]
    <3>1. r[i] = q[i] /\ q[i].seq <= t[q[i].src]
      BY <1>1 DEF Below
    <3>2. q[i].src \in Node /\ q[i].seq \in Nat /\ t[q[i].src] \in Nat
      BY <1>3
    <3>3. CASE q[i].src = pkt.src
      BY <1>2, <2>1, <3>1, <3>2, <3>3
    <3>4. CASE q[i].src # pkt.src
      BY <2>1, <3>1, <3>2, <3>4
    <3> QED
      BY <3>3, <3>4
  <2>3. r[Len(q) + 1].seq <= later[r[Len(q) + 1].src]
    BY <1>1, <1>2, <2>1
  <2> QED
    BY <1>1, <2>2, <2>3 DEF Below, later
<1>5. \A i \in 1 .. Len(q) : q[i].src = pkt.src => q[i].seq < pkt.seq
  <2> SUFFICES ASSUME NEW i \in 1 .. Len(q), q[i].src = pkt.src
               PROVE  q[i].seq < pkt.seq
    OBVIOUS
  <2>1. q[i].seq <= t[pkt.src]
    BY <1>1 DEF Below
  <2>2. t[pkt.src] \in Nat /\ q[i].seq \in Nat
    BY <1>2, <1>3
  <2> QED
    BY <1>2, <2>1, <2>2
<1>6. \A i, j \in 1 .. Len(q) + 1 : i < j => i \in 1 .. Len(q)
  BY <1>1
<1>7. Ascending(r)
  BY <1>1, <1>5, <1>6 DEF Ascending
<1> QED
  BY <1>4, <1>7 DEF r

-----------------------------------------------------------------------------
(* Types                                                                   *)

\* The types of the entries of the tables.
LEMMA Entries ==
  ASSUME TypeOK
  PROVE  /\ \A v \in Node : seqTable[v] \in [Node -> Nat]
         /\ \A v, s \in Node : seqTable[v][s] \in Nat
         /\ \A v, s \in Node : got[v][s] \in Seq(Nat)
         /\ \A v, s \in Node : \A i \in DOMAIN got[v][s] : got[v][s][i] \in Nat
         /\ \A u, v \in Node : chan[u][v] \in Seq(Packet)
         /\ \A v \in Node : localSeq[v] \in Nat
<1>1. \A v, s \in Node : got[v][s] \in Seq(Nat)
  BY DEF TypeOK
<1>2. \A v, s \in Node : \A i \in DOMAIN got[v][s] : got[v][s][i] \in Nat
  BY <1>1
<1> QED
  BY <1>1, <1>2 DEF TypeOK, Channels

\* gotFloodPkt at v takes pkt from its link with u.
Takes(u, v, pkt, taken) ==
  /\ chan[u][v] # <<>>
  /\ pkt = Head(chan[u][v])
  /\ taken = [chan EXCEPT ![u][v] = Tail(@)]
  /\ UNCHANGED <<localSeq, neighbors, lost, changes>>

\* gotFloodPkt returns at its duplicate check.
Ignores(v, pkt, taken) ==
  /\ pkt.seq <= seqTable[v][pkt.src]
  /\ chan' = taken
  /\ UNCHANGED <<seqTable, got>>

\* gotFloodPkt signals the advertisement and forwards it.
Accepts(u, v, pkt, taken) ==
  /\ seqTable[v][pkt.src] < pkt.seq
  /\ seqTable' = [seqTable EXCEPT ![v][pkt.src] = pkt.seq]
  /\ got' = [got EXCEPT ![v][pkt.src] = Append(@, pkt.seq)]
  /\ chan' = Sent(taken, v, neighbors[v] \ {u}, pkt)

\* A step of gotFloodPkt is one or the other.
LEMMA GotFloodPktCases ==
  ASSUME TypeOK, NEW u \in Node, NEW v \in Node, GotFloodPkt(u, v)
  PROVE  \E pkt \in Packet, taken \in Channels :
           /\ Takes(u, v, pkt, taken)
           /\ Ignores(v, pkt, taken) \/ Accepts(u, v, pkt, taken)
<1> DEFINE head == Head(chan[u][v])
           rest == [chan EXCEPT ![u][v] = Tail(@)]
<1>1. chan[u][v] \in Seq(Packet) /\ chan[u][v] # <<>>
  <2>1. chan[u][v] \in Seq(Packet)
    BY Entries
  <2> QED
    BY <2>1 DEF GotFloodPkt
<1>2. head \in Packet /\ Tail(chan[u][v]) \in Seq(Packet)
  BY <1>1
<1>3. rest \in Channels
  BY <1>2 DEF TypeOK, Channels
<1>4. head.src \in Node /\ head.seq \in Nat /\ seqTable[v][head.src] \in Nat
  <2> HIDE DEF head
  <2>1. head.src \in Node /\ head.seq \in Nat
    BY <1>2 DEF Packet
  <2> QED
    BY <2>1, Entries
<1>5. Takes(u, v, head, rest)
  BY <1>1 DEF Takes, GotFloodPkt
<1>6. CASE IsOld(v, head)
  <2>1. Ignores(v, head, rest)
    BY <1>4, <1>6 DEF Ignores, GotFloodPkt, IsOld
  <2> QED
    BY <1>2, <1>3, <1>5, <2>1
<1>7. CASE ~IsOld(v, head)
  <2>1. seqTable[v][head.src] < head.seq
    BY <1>4, <1>7 DEF IsOld
  <2>2. Accepts(u, v, head, rest)
    BY <1>7, <2>1 DEF Accepts, GotFloodPkt, Others
  <2> QED
    BY <1>2, <1>3, <1>5, <2>2
<1> QED
  BY <1>6, <1>7

\* The tables after an accepted packet, entry by entry.
NewEntries(v, pkt) ==
  /\ pkt.src \in Node /\ pkt.seq \in Nat
  /\ seqTable' \in [Node -> [Node -> Nat]]
  /\ got' \in [Node -> [Node -> Seq(Nat)]]
  /\ \A w, s \in Node : seqTable'[w][s] = IF w = v /\ s = pkt.src
                                          THEN pkt.seq ELSE seqTable[w][s]
  /\ \A w, s \in Node : got'[w][s] = IF w = v /\ s = pkt.src
                                     THEN Append(got[w][s], pkt.seq)
                                     ELSE got[w][s]

\* The links after an accepted packet.
NewLinks(u, v, pkt, taken) ==
  /\ chan' \in Channels
  /\ \A x, w \in Node : taken[x][w] = IF x = u /\ w = v THEN Tail(chan[x][w])
                                                        ELSE chan[x][w]
  /\ \A x, w \in Node :
       chan'[x][w] = IF x = v /\ w \in neighbors[v] \ {u}
                     THEN Append(taken[x][w], pkt) ELSE taken[x][w]

\* What Accepts does to tables and links.
LEMMA AcceptsPointwise ==
  ASSUME TypeOK, NEW u \in Node, NEW v \in Node,
         NEW pkt \in Packet, NEW taken \in Channels,
         Takes(u, v, pkt, taken), Accepts(u, v, pkt, taken)
  PROVE  NewEntries(v, pkt) /\ NewLinks(u, v, pkt, taken)
<1>1. pkt.src \in Node /\ pkt.seq \in Nat
  BY DEF Packet
<1>2. /\ seqTable' \in [Node -> [Node -> Nat]]
      /\ \A w, s \in Node :
           seqTable'[w][s] = IF w = v /\ s = pkt.src
                             THEN pkt.seq ELSE seqTable[w][s]
  <2>1. seqTable' = [seqTable EXCEPT ![v][pkt.src] = pkt.seq]
    BY DEF Accepts
  <2> QED
    BY <1>1, <2>1 DEF TypeOK
<1>3. /\ got' \in [Node -> [Node -> Seq(Nat)]]
      /\ \A w, s \in Node :
           got'[w][s] = IF w = v /\ s = pkt.src
                        THEN Append(got[w][s], pkt.seq) ELSE got[w][s]
  <2>1. got' = [got EXCEPT ![v][pkt.src] = Append(@, pkt.seq)]
    BY DEF Accepts
  <2>2. Append(got[v][pkt.src], pkt.seq) \in Seq(Nat)
    BY <1>1 DEF TypeOK
  <2> QED
    BY <1>1, <2>1, <2>2 DEF TypeOK
<1>4. chan' = Sent(taken, v, neighbors[v] \ {u}, pkt)
  BY DEF Accepts
<1>5. taken = [chan EXCEPT ![u][v] = Tail(@)]
  BY DEF Takes
<1>6. \A x, w \in Node : taken[x][w] = IF x = u /\ w = v
                                       THEN Tail(chan[x][w]) ELSE chan[x][w]
  BY <1>5 DEF TypeOK, Channels
<1>7. /\ chan' \in Channels
      /\ \A x, w \in Node :
           chan'[x][w] = IF x = v /\ w \in neighbors[v] \ {u}
                         THEN Append(taken[x][w], pkt) ELSE taken[x][w]
  BY <1>4, SentLinks
<1> QED
  BY <1>1, <1>2, <1>3, <1>6, <1>7 DEF NewEntries, NewLinks

\* The state after a flood, likewise.
LEMMA FloodPointwise ==
  ASSUME TypeOK, NEW n \in Node, Flood(n)
  PROVE  LET pkt == [src |-> n, seq |-> localSeq[n]] IN
         /\ pkt \in Packet /\ localSeq[n] \in Nat
         /\ localSeq' = [localSeq EXCEPT ![n] = localSeq[n] + 1]
         /\ seqTable' = [seqTable EXCEPT ![n][n] = localSeq[n]]
         /\ UNCHANGED <<neighbors, got, lost, changes>>
         /\ chan' \in Channels
         /\ \A x, w \in Node :
              chan'[x][w] = IF x = n /\ w \in neighbors[n]
                            THEN Append(chan[x][w], pkt) ELSE chan[x][w]
<1> DEFINE pkt == [src |-> n, seq |-> localSeq[n]]
<1>1. pkt \in Packet /\ localSeq[n] \in Nat /\ chan \in Channels
  BY DEF Packet, TypeOK
<1>2. chan' = Sent(chan, n, neighbors[n], pkt)
  BY DEF Flood
<1>3. /\ localSeq' = [localSeq EXCEPT ![n] = localSeq[n] + 1]
      /\ seqTable' = [seqTable EXCEPT ![n][n] = localSeq[n]]
      /\ UNCHANGED <<neighbors, got, lost, changes>>
  BY DEF Flood
<1> HIDE DEF pkt
<1>4. /\ chan' \in Channels
      /\ \A x, w \in Node :
           chan'[x][w] = IF x = n /\ w \in neighbors[n]
                         THEN Append(chan[x][w], pkt) ELSE chan[x][w]
  BY <1>1, <1>2, SentLinks
<1> QED
  BY <1>1, <1>3, <1>4 DEF pkt

\* The initial state is well typed.
LEMMA InitTypeOK == Init => TypeOK
BY NeighborsAssumption DEF Init, TypeOK, Channels

\* Every step keeps the types.
LEMMA NextTypeOK == TypeOK /\ [Next]_vars => TypeOK'
<1> SUFFICES ASSUME TypeOK, [Next]_vars PROVE TypeOK'
  OBVIOUS
<1>1. ASSUME NEW n \in Node, Flood(n) PROVE TypeOK'
  <2>1. /\ chan' \in Channels /\ localSeq[n] \in Nat
        /\ localSeq' = [localSeq EXCEPT ![n] = localSeq[n] + 1]
        /\ seqTable' = [seqTable EXCEPT ![n][n] = localSeq[n]]
        /\ UNCHANGED <<neighbors, got, lost, changes>>
    BY <1>1, FloodPointwise
  <2> QED
    BY <2>1 DEF TypeOK
<1>2. ASSUME NEW u \in Node, NEW v \in Node, GotFloodPkt(u, v) PROVE TypeOK'
  <2>1. PICK pkt \in Packet, taken \in Channels :
          /\ Takes(u, v, pkt, taken)
          /\ Ignores(v, pkt, taken) \/ Accepts(u, v, pkt, taken)
    BY <1>2, GotFloodPktCases
  <2>2. CASE Ignores(v, pkt, taken)
    BY <2>1, <2>2 DEF Ignores, Takes, TypeOK
  <2>3. CASE Accepts(u, v, pkt, taken)
    BY <2>1, <2>3, AcceptsPointwise DEF Takes, TypeOK, NewEntries, NewLinks
  <2> QED
    BY <2>1, <2>2, <2>3
<1>3. ASSUME NEW u \in Node, NEW v \in Node, Lose(u, v) PROVE TypeOK'
  <2>1. PICK i \in DOMAIN chan[u][v] :
          chan' = [chan EXCEPT ![u][v] = RemoveAt(@, i)]
    BY <1>3 DEF Lose
  <2>2. RemoveAt(chan[u][v], i) \in Seq(Packet)
    BY RemoveAtElements DEF TypeOK, Channels
  <2>3. chan' \in Channels
    BY <2>1, <2>2 DEF TypeOK, Channels
  <2>4. lost' \in Nat /\ UNCHANGED <<localSeq, seqTable, neighbors, got, changes>>
    BY <1>3 DEF Lose, TypeOK
  <2> QED
    BY <2>3, <2>4 DEF TypeOK
<1>4. ASSUME NEW n \in Node, NEW other \in Node, NeighborChange(n, other)
      PROVE  TypeOK'
  BY <1>4 DEF NeighborChange, TypeOK
<1>5. CASE UNCHANGED vars
  BY <1>5 DEF vars, TypeOK
<1> QED
  BY <1>1, <1>2, <1>3, <1>4, <1>5 DEF Next

\* FloodingP keeps the types of its tables, and a node never becomes its own
\* neighbour.
THEOREM TypeCorrect == Spec => []TypeOK
BY InitTypeOK, NextTypeOK, PTL DEF Spec

-----------------------------------------------------------------------------
(* What holds whatever is lost                                             *)

\* The part of the invariant that needs no intact link.
Always == AtMostOnce /\ SourceIsAhead /\ FloodsDieOut

\* It holds at the start.
LEMMA InitAlways == Init => Always
BY DEF Init, Always, AtMostOnce, SourceIsAhead, FloodsDieOut, Below, Ascending

\* A flood keeps it: the source numbers it past everything it sent before.
LEMMA FloodAlways ==
  ASSUME TypeOK, Always, NEW n \in Node, Flood(n)
  PROVE  Always'
<1> DEFINE pkt == [src |-> n, seq |-> localSeq[n]]
<1>1. /\ pkt \in Packet /\ localSeq[n] \in Nat
      /\ localSeq' = [localSeq EXCEPT ![n] = localSeq[n] + 1]
      /\ seqTable' = [seqTable EXCEPT ![n][n] = localSeq[n]]
      /\ UNCHANGED <<neighbors, got, lost, changes>>
      /\ chan' \in Channels
      /\ \A x, w \in Node :
           chan'[x][w] = IF x = n /\ w \in neighbors[n]
                         THEN Append(chan[x][w], pkt) ELSE chan[x][w]
  BY FloodPointwise
<1>2. localSeq[n] = seqTable[n][n] + 1 /\ seqTable[n][n] \in Nat
  BY Entries DEF Always, SourceIsAhead
<1>3. \A w, s \in Node :
        seqTable'[w][s] = IF w = n /\ s = n THEN localSeq[n] ELSE seqTable[w][s]
  BY <1>1 DEF TypeOK
<1>4. AtMostOnce'
  <2>1. \A w, s \in Node : /\ seqTable'[w][s] \in Nat
                           /\ seqTable[w][s] <= seqTable'[w][s]
    BY <1>1, <1>2, <1>3, Entries
  <2>2. got' = got
    BY <1>1
  <2> SUFFICES ASSUME NEW w \in Node, NEW s \in Node
      PROVE  /\ \A i, j \in DOMAIN got[w][s] :
                  i < j => got[w][s][i] < got[w][s][j]
             /\ \A i \in DOMAIN got[w][s] : got[w][s][i] <= seqTable'[w][s]
    BY <2>2 DEF AtMostOnce
  <2>3. /\ \A i, j \in DOMAIN got[w][s] : i < j => got[w][s][i] < got[w][s][j]
        /\ \A i \in DOMAIN got[w][s] : got[w][s][i] <= seqTable[w][s]
    BY DEF Always, AtMostOnce
  <2>4. ASSUME NEW i \in DOMAIN got[w][s] PROVE got[w][s][i] <= seqTable'[w][s]
    <3>1. got[w][s][i] \in Nat /\ seqTable[w][s] \in Nat
      BY Entries
    <3> QED
      BY <2>1, <2>3, <3>1
  <2> QED
    BY <2>3, <2>4
<1>5. SourceIsAhead'
  <2>1. \A s \in Node : localSeq'[s] = IF s = n THEN localSeq[n] + 1
                                                 ELSE localSeq[s]
    BY <1>1 DEF TypeOK
  <2>2. got' = got
    BY <1>1
  <2> QED
    BY <1>1, <1>2, <1>3, <2>1, <2>2, Entries DEF Always, SourceIsAhead
<1>6. FloodsDieOut'
  <2> SUFFICES ASSUME NEW x \in Node, NEW w \in Node
               PROVE  (Below(chan[x][w], seqTable[x]) /\ Ascending(chan[x][w]))'
    BY DEF FloodsDieOut
  <2>1. /\ chan[x][w] \in Seq(Packet) /\ seqTable[x] \in [Node -> Nat]
        /\ Below(chan[x][w], seqTable[x]) /\ Ascending(chan[x][w])
    BY DEF TypeOK, Channels, Always, FloodsDieOut
  <2>2. CASE x # n
    <3>1. seqTable'[x] = seqTable[x] /\ chan'[x][w] = chan[x][w]
      BY <1>1, <2>2 DEF TypeOK
    <3> QED
      BY <2>1, <3>1
  <2>3. CASE x = n
    <3>1. seqTable'[n] = [seqTable[n] EXCEPT ![n] = localSeq[n]]
      BY <1>1 DEF TypeOK
    <3>2. pkt.src = n /\ pkt.seq = localSeq[n] /\ seqTable[n][n] < localSeq[n]
      BY <1>2
    <3> HIDE DEF pkt
    <3>3. CASE w \in neighbors[n]
      <4>1. /\ Below(Append(chan[n][w], pkt),
                     [seqTable[n] EXCEPT ![pkt.src] = pkt.seq])
            /\ Ascending(Append(chan[n][w], pkt))
        BY <1>1, <2>1, <2>3, <3>2, OrderAppend
      <4> QED
        BY <1>1, <2>3, <3>1, <3>2, <3>3, <4>1
    <3>4. CASE w \notin neighbors[n]
      <4>1. Below(chan[n][w], [seqTable[n] EXCEPT ![n] = localSeq[n]])
        <5>1. seqTable[n][n] <= localSeq[n]
          BY <1>1, <1>2
        <5> QED
          BY <1>1, <2>1, <2>3, <5>1, BelowLater
      <4> QED
        BY <1>1, <2>1, <2>3, <3>1, <3>4, <4>1
    <3> QED
      BY <3>3, <3>4
  <2> QED
    BY <2>2, <2>3
<1> QED
  BY <1>4, <1>5, <1>6 DEF Always

\* A packet that is ignored leaves everything but its link.
LEMMA IgnoresAlways ==
  ASSUME TypeOK, Always, NEW u \in Node, NEW v \in Node,
         NEW pkt \in Packet, NEW taken \in Channels,
         Takes(u, v, pkt, taken), Ignores(v, pkt, taken)
  PROVE  Always'
<1>1. UNCHANGED <<localSeq, seqTable, got>>
  BY DEF Takes, Ignores
<1>2. AtMostOnce' /\ SourceIsAhead'
  BY <1>1 DEF Always, AtMostOnce, SourceIsAhead
<1>3. FloodsDieOut'
  <2> SUFFICES ASSUME NEW x \in Node, NEW w \in Node
               PROVE  (Below(chan[x][w], seqTable[x]) /\ Ascending(chan[x][w]))'
    BY DEF FloodsDieOut
  <2>1. /\ Below(chan[x][w], seqTable[x]) /\ Ascending(chan[x][w])
        /\ chan[x][w] \in Seq(Packet) /\ seqTable[x] \in [Node -> Nat]
    BY Entries DEF Always, FloodsDieOut
  <2>2. chan'[x][w] = IF x = u /\ w = v THEN Tail(chan[x][w]) ELSE chan[x][w]
    BY DEF Takes, Ignores, TypeOK, Channels
  <2>3. chan[u][v] # <<>>
    BY DEF Takes
  <2> QED
    BY <1>1, <2>1, <2>2, <2>3, OrderTail
<1> QED
  BY <1>2, <1>3 DEF Always

\* A packet that is accepted raises one number of v, which the node before it
\* and the source have reached already; v is not the source.
LEMMA AcceptsAlways ==
  ASSUME TypeOK, Always, NEW u \in Node, NEW v \in Node,
         NEW pkt \in Packet, NEW taken \in Channels,
         Takes(u, v, pkt, taken), Accepts(u, v, pkt, taken)
  PROVE  Always' /\ pkt.src # v /\ pkt.seq <= seqTable[u][pkt.src]
<1>1. NewEntries(v, pkt) /\ NewLinks(u, v, pkt, taken)
  BY AcceptsPointwise
<1>2. pkt.src \in Node /\ pkt.seq \in Nat
  BY <1>1 DEF NewEntries
<1>3. seqTable[v][pkt.src] < pkt.seq /\ UNCHANGED localSeq
  BY DEF Accepts, Takes
<1>4. pkt.seq <= seqTable[u][pkt.src]
  <2>1. 1 \in DOMAIN chan[u][v] /\ chan[u][v][1] = pkt
    BY Entries DEF Takes
  <2> QED
    BY <2>1 DEF Always, FloodsDieOut, Below
<1>5. pkt.seq <= seqTable[pkt.src][pkt.src] /\ pkt.src # v
  <2>1. seqTable[u][pkt.src] <= seqTable[pkt.src][pkt.src]
    BY <1>2 DEF Always, SourceIsAhead
  <2>2. /\ seqTable[u][pkt.src] \in Nat /\ seqTable[v][pkt.src] \in Nat
        /\ seqTable[pkt.src][pkt.src] \in Nat
    BY <1>2, Entries
  <2> QED
    BY <1>2, <1>3, <1>4, <2>1, <2>2
<1>6. AtMostOnce'
  <2> SUFFICES ASSUME NEW w \in Node, NEW s \in Node
      PROVE  /\ \A i, j \in DOMAIN got'[w][s] :
                  i < j => got'[w][s][i] < got'[w][s][j]
             /\ \A i \in DOMAIN got'[w][s] : got'[w][s][i] <= seqTable'[w][s]
    BY DEF AtMostOnce
  <2>1. /\ \A i, j \in DOMAIN got[w][s] : i < j => got[w][s][i] < got[w][s][j]
        /\ \A i \in DOMAIN got[w][s] : got[w][s][i] <= seqTable[w][s]
        /\ got[w][s] \in Seq(Nat) /\ seqTable[w][s] \in Nat
    BY Entries DEF Always, AtMostOnce
  <2>2. CASE w = v /\ s = pkt.src
    <3> DEFINE g == got[w][s]
    <3>1. /\ got'[w][s] = Append(g, pkt.seq) /\ seqTable'[w][s] = pkt.seq
          /\ seqTable[w][s] < pkt.seq
      BY <1>1, <1>3, <2>2 DEF NewEntries
    <3>2. /\ DOMAIN Append(g, pkt.seq) = 1 .. Len(g) + 1
          /\ Len(g) \in Nat /\ DOMAIN g = 1 .. Len(g)
          /\ Append(g, pkt.seq)[Len(g) + 1] = pkt.seq
          /\ \A i \in 1 .. Len(g) : Append(g, pkt.seq)[i] = g[i]
      BY <1>2, <2>1
    <3>3. \A i \in 1 .. Len(g) : g[i] \in Nat /\ g[i] < pkt.seq
      <4> SUFFICES ASSUME NEW i \in 1 .. Len(g)
                   PROVE  g[i] \in Nat /\ g[i] < pkt.seq
        OBVIOUS
      <4>1. g[i] <= seqTable[w][s] /\ g[i] \in Nat
        BY <2>1, <3>2
      <4>2. seqTable[w][s] \in Nat /\ seqTable[w][s] < pkt.seq
        BY <2>1, <3>1
      <4> HIDE DEF g
      <4> QED
        BY <1>2, <4>1, <4>2
    <3> HIDE DEF g
    <3>4. \A i, j \in 1 .. Len(g) + 1 :
            i < j => Append(g, pkt.seq)[i] < Append(g, pkt.seq)[j]
      <4>1. \A i, j \in 1 .. Len(g) : i < j => g[i] < g[j]
        BY <2>1, <3>2 DEF g
      <4>2. \A i, j \in 1 .. Len(g) + 1 : i < j => i \in 1 .. Len(g)
        BY <3>2
      <4> QED
        BY <3>2, <3>3, <4>1, <4>2
    <3>5. \A i \in 1 .. Len(g) + 1 : Append(g, pkt.seq)[i] <= pkt.seq
      BY <1>2, <3>2, <3>3
    <3> QED
      BY <3>1, <3>2, <3>4, <3>5
  <2>3. CASE ~(w = v /\ s = pkt.src)
    <3>1. got'[w][s] = got[w][s] /\ seqTable'[w][s] = seqTable[w][s]
      BY <1>1, <2>3 DEF NewEntries
    <3> QED
      BY <2>1, <3>1
  <2> QED
    BY <2>2, <2>3
<1>7. SourceIsAhead'
  <2>1. \A s \in Node : seqTable'[s][s] = seqTable[s][s] /\ got'[s][s] = got[s][s]
    BY <1>1, <1>5 DEF NewEntries
  <2>2. \A w, s \in Node : seqTable'[w][s] <= seqTable[s][s]
    <3>1. \A w, s \in Node : seqTable[w][s] <= seqTable[s][s]
      BY DEF Always, SourceIsAhead
    <3>2. \A w, s \in Node : seqTable'[w][s] = IF w = v /\ s = pkt.src
                                               THEN pkt.seq ELSE seqTable[w][s]
      BY <1>1 DEF NewEntries
    <3> SUFFICES ASSUME NEW w \in Node, NEW s \in Node
                 PROVE  seqTable'[w][s] <= seqTable[s][s]
      OBVIOUS
    <3>3. CASE w = v /\ s = pkt.src
      BY <1>5, <3>2, <3>3
    <3>4. CASE ~(w = v /\ s = pkt.src)
      BY <3>1, <3>2, <3>4
    <3> QED
      BY <3>3, <3>4
  <2> QED
    BY <1>3, <2>1, <2>2 DEF Always, SourceIsAhead
<1>8. FloodsDieOut'
  <2> SUFFICES ASSUME NEW x \in Node, NEW w \in Node
               PROVE  (Below(chan[x][w], seqTable[x]) /\ Ascending(chan[x][w]))'
    BY DEF FloodsDieOut
  <2>1. /\ Below(chan[x][w], seqTable[x]) /\ Ascending(chan[x][w])
        /\ chan[x][w] \in Seq(Packet) /\ seqTable[x] \in [Node -> Nat]
    BY Entries DEF Always, FloodsDieOut
  <2>2. taken[x][w] \in Seq(Packet)
    BY DEF Channels
  <2>3. Below(taken[x][w], seqTable[x]) /\ Ascending(taken[x][w])
    <3>1. chan[u][v] # <<>>
      BY DEF Takes
    <3> QED
      BY <1>1, <2>1, <3>1, OrderTail DEF NewLinks
  <2>4. CASE x # v
    <3>1. seqTable'[x] = seqTable[x] /\ chan'[x][w] = taken[x][w]
      <4>1. seqTable' = [seqTable EXCEPT ![v][pkt.src] = pkt.seq]
        BY DEF Accepts
      <4> QED
        BY <1>1, <2>4, <4>1 DEF NewLinks, TypeOK
    <3> QED
      BY <2>3, <3>1
  <2>5. CASE x = v
    <3>1. seqTable'[v] = [seqTable[v] EXCEPT ![pkt.src] = pkt.seq]
      <4>1. seqTable' = [seqTable EXCEPT ![v][pkt.src] = pkt.seq]
        BY DEF Accepts
      <4> QED
        BY <4>1 DEF TypeOK
    <3>2. /\ Below(taken[v][w], [seqTable[v] EXCEPT ![pkt.src] = pkt.seq])
          /\ Ascending(taken[v][w])
      <4>1. seqTable[v][pkt.src] <= pkt.seq
        BY <1>2, <1>3, Entries
      <4> QED
        BY <1>2, <2>1, <2>2, <2>3, <2>5, <4>1, BelowLater
    <3>3. /\ Below(Append(taken[v][w], pkt),
                   [seqTable[v] EXCEPT ![pkt.src] = pkt.seq])
          /\ Ascending(Append(taken[v][w], pkt))
      BY <1>3, <2>1, <2>2, <2>3, <2>5, OrderAppend
    <3> QED
      BY <1>1, <2>5, <3>1, <3>2, <3>3 DEF NewLinks
  <2> QED
    BY <2>4, <2>5
<1> QED
  BY <1>4, <1>5, <1>6, <1>7, <1>8 DEF Always

\* Every step keeps it.
LEMMA NextAlways == TypeOK /\ Always /\ [Next]_vars => Always'
<1> SUFFICES ASSUME TypeOK, Always, [Next]_vars PROVE Always'
  OBVIOUS
<1>1. ASSUME NEW n \in Node, Flood(n) PROVE Always'
  BY <1>1, FloodAlways
<1>2. ASSUME NEW u \in Node, NEW v \in Node, GotFloodPkt(u, v) PROVE Always'
  <2>1. PICK pkt \in Packet, taken \in Channels :
          /\ Takes(u, v, pkt, taken)
          /\ Ignores(v, pkt, taken) \/ Accepts(u, v, pkt, taken)
    BY <1>2, GotFloodPktCases
  <2> QED
    BY <2>1, IgnoresAlways, AcceptsAlways
<1>3. ASSUME NEW u \in Node, NEW v \in Node, Lose(u, v) PROVE Always'
  <2>1. UNCHANGED <<localSeq, seqTable, got>>
    BY <1>3 DEF Lose
  <2>2. AtMostOnce' /\ SourceIsAhead'
    BY <2>1 DEF Always, AtMostOnce, SourceIsAhead
  <2>3. PICK i \in DOMAIN chan[u][v] :
          chan' = [chan EXCEPT ![u][v] = RemoveAt(@, i)]
    BY <1>3 DEF Lose
  <2>4. FloodsDieOut'
    <3> SUFFICES ASSUME NEW x \in Node, NEW w \in Node
                 PROVE  (Below(chan[x][w], seqTable[x])
                           /\ Ascending(chan[x][w]))'
      BY DEF FloodsDieOut
    <3>1. /\ Below(chan[x][w], seqTable[x]) /\ Ascending(chan[x][w])
          /\ chan[x][w] \in Seq(Packet) /\ seqTable[x] \in [Node -> Nat]
      BY Entries DEF Always, FloodsDieOut
    <3>2. chan'[x][w] = IF x = u /\ w = v THEN RemoveAt(chan[x][w], i)
                                          ELSE chan[x][w]
      BY <2>3 DEF TypeOK, Channels
    <3> QED
      BY <2>1, <3>1, <3>2, OrderRemoveAt
  <2> QED
    BY <2>2, <2>4 DEF Always
<1>4. ASSUME NEW n \in Node, NEW other \in Node, NeighborChange(n, other)
      PROVE  Always'
  BY <1>4 DEF NeighborChange, Always, AtMostOnce, SourceIsAhead, FloodsDieOut
<1>5. CASE UNCHANGED vars
  BY <1>5 DEF vars, Always, AtMostOnce, SourceIsAhead, FloodsDieOut
<1> QED
  BY <1>1, <1>2, <1>3, <1>4, <1>5 DEF Next

\* It holds in every reachable state.
LEMMA AlwaysHolds == Spec => []Always
BY InitTypeOK, NextTypeOK, InitAlways, NextAlways, PTL DEF Spec

\* Whatever is lost, an advertisement is signalled at most once and never
\* after a later one: gotFloodPkt's check of seq_table suffices.
THEOREM SignalledAtMostOnce == Spec => []AtMostOnce
<1>1. Always => AtMostOnce
  BY DEF Always
<1> QED
  BY <1>1, AlwaysHolds, PTL

\* Whatever is lost, no node is ahead of the source and no node takes its own
\* flood for a new one.
THEOREM SourceStaysAhead == Spec => []SourceIsAhead
<1>1. Always => SourceIsAhead
  BY DEF Always
<1> QED
  BY <1>1, AlwaysHolds, PTL

\* Whatever is lost, a flood crosses each link at most once: forwarding ends
\* without the TTL.
THEOREM FloodingEnds == Spec => []FloodsDieOut
<1>1. Always => FloodsDieOut
  BY DEF Always
<1> QED
  BY <1>1, AlwaysHolds, PTL

-----------------------------------------------------------------------------
(* What holds on intact links                                              *)

\* Packets are only on links to neighbours.
LinksFollowNeighbors ==
  Intact => \A u, v \in Node : chan[u][v] # <<>> => v \in neighbors[u]

\* The part of the invariant that describes intact links.
WhenIntact == LinksFollowNeighbors /\ NobodyForgotten /\ NoSkip

\* It holds at the start.
LEMMA InitWhenIntact == Init => WhenIntact
BY DEF Init, WhenIntact, LinksFollowNeighbors, NobodyForgotten, NoSkip

\* A flood puts its number on the links to all neighbours.
LEMMA FloodWhenIntact ==
  ASSUME TypeOK, Always, WhenIntact, NEW n \in Node, Flood(n)
  PROVE  WhenIntact'
<1> SUFFICES ASSUME Intact' PROVE WhenIntact'
  BY DEF WhenIntact, LinksFollowNeighbors, NobodyForgotten, NoSkip
<1> DEFINE pkt == [src |-> n, seq |-> localSeq[n]]
<1>1. /\ pkt \in Packet /\ localSeq[n] \in Nat
      /\ localSeq' = [localSeq EXCEPT ![n] = localSeq[n] + 1]
      /\ seqTable' = [seqTable EXCEPT ![n][n] = localSeq[n]]
      /\ UNCHANGED <<neighbors, got, lost, changes>>
      /\ chan' \in Channels
      /\ \A x, w \in Node :
           chan'[x][w] = IF x = n /\ w \in neighbors[n]
                         THEN Append(chan[x][w], pkt) ELSE chan[x][w]
  BY FloodPointwise
<1>2. localSeq[n] = seqTable[n][n] + 1 /\ seqTable[n][n] \in Nat
  BY Entries DEF Always, SourceIsAhead
<1>3. \A w, s \in Node :
        seqTable'[w][s] = IF w = n /\ s = n THEN localSeq[n] ELSE seqTable[w][s]
  BY <1>1 DEF TypeOK
<1>4. Intact
  BY <1>1 DEF Intact
<1>5. pkt.src = n /\ pkt.seq = localSeq[n]
  OBVIOUS
<1> HIDE DEF pkt
<1>6. LinksFollowNeighbors'
  BY <1>1, <1>4 DEF WhenIntact, LinksFollowNeighbors
<1>7. NobodyForgotten'
  <2> SUFFICES ASSUME NEW u \in Node, NEW v \in Node, NEW s \in Node,
                      NEW k \in 1 .. seqTable'[u][s],
                      v \in neighbors[u], seqTable'[v][s] < k
               PROVE  Carries(chan'[u][v], s, k)
    BY <1>1 DEF NobodyForgotten
  <2>1. /\ seqTable[u][s] \in Nat /\ seqTable[v][s] \in Nat
        /\ seqTable[v][s] <= seqTable'[v][s] /\ k \in Nat /\ 1 <= k
        /\ seqTable'[v][s] \in Nat /\ seqTable'[u][s] \in Nat
        /\ k <= seqTable'[u][s]
    BY <1>1, <1>2, <1>3, Entries
  <2>2. seqTable[v][s] < k
    BY <2>1
  <2>3. CASE k <= seqTable[u][s]
    <3>1. Carries(chan[u][v], s, k)
      BY <1>4, <2>1, <2>2, <2>3 DEF WhenIntact, NobodyForgotten
    <3>2. Carries(Append(chan[u][v], pkt), s, k)
      <4>1. chan[u][v] \in Seq(Packet)
        BY Entries
      <4> QED
        BY <1>1, <3>1, <4>1, CarriesAppend
    <3> QED
      BY <1>1, <3>1, <3>2
  <2>4. CASE ~(k <= seqTable[u][s])
    <3>1. u = n /\ s = n /\ k = localSeq[n]
      BY <1>2, <1>3, <2>1, <2>4
    <3> QED
      BY <1>1, <1>5, <3>1, CarriesAppend, Entries
  <2> QED
    BY <2>3, <2>4
<1>8. NoSkip'
  BY <1>1, <1>3, <1>4 DEF WhenIntact, NoSkip
<1> QED
  BY <1>6, <1>7, <1>8 DEF WhenIntact

\* A packet that is ignored carries what v knows already.
LEMMA IgnoresWhenIntact ==
  ASSUME TypeOK, Always, WhenIntact, NEW u \in Node, NEW v \in Node,
         NEW pkt \in Packet, NEW taken \in Channels,
         Takes(u, v, pkt, taken), Ignores(v, pkt, taken)
  PROVE  WhenIntact'
<1> SUFFICES ASSUME Intact' PROVE WhenIntact'
  BY DEF WhenIntact, LinksFollowNeighbors, NobodyForgotten, NoSkip
<1>1. UNCHANGED <<localSeq, seqTable, got, neighbors, lost, changes>> /\ Intact
  BY DEF Takes, Ignores, Intact
<1>2. \A x, w \in Node : chan'[x][w] = IF x = u /\ w = v THEN Tail(chan[x][w])
                                                         ELSE chan[x][w]
  BY DEF Takes, Ignores, TypeOK, Channels
<1>3. chan[u][v] # <<>> /\ Head(chan[u][v]) = pkt
  BY DEF Takes
<1>4. LinksFollowNeighbors'
  BY <1>1, <1>2, <1>3 DEF WhenIntact, LinksFollowNeighbors
<1>5. NobodyForgotten'
  <2> SUFFICES ASSUME NEW x \in Node, NEW w \in Node, NEW s \in Node,
                      NEW k \in 1 .. seqTable[x][s],
                      w \in neighbors[x], seqTable[w][s] < k
               PROVE  Carries(chan'[x][w], s, k)
    BY <1>1 DEF NobodyForgotten
  <2>1. Carries(chan[x][w], s, k)
    BY <1>1 DEF WhenIntact, NobodyForgotten
  <2>2. CASE x = u /\ w = v
    <3>1. ~(pkt.src = s /\ pkt.seq = k)
      <4>1. pkt.seq <= seqTable[v][pkt.src] /\ seqTable[v][s] \in Nat
        BY Entries DEF Ignores
      <4>2. k \in Nat
        BY Entries
      <4> QED
        BY <2>2, <4>1, <4>2
    <3> QED
      BY <1>2, <1>3, <2>1, <2>2, <3>1, CarriesTail, Entries
  <2>3. CASE ~(x = u /\ w = v)
    BY <1>2, <2>1, <2>3
  <2> QED
    BY <2>2, <2>3
<1>6. NoSkip'
  BY <1>1 DEF WhenIntact, NoSkip
<1> QED
  BY <1>4, <1>5, <1>6 DEF WhenIntact

\* A packet that is accepted carries the next number: an earlier one that v
\* lacks would be on the link, behind this one and so out of order.
LEMMA AcceptedIsNext ==
  ASSUME TypeOK, Always, WhenIntact, Intact, NEW u \in Node, NEW v \in Node,
         NEW pkt \in Packet, NEW taken \in Channels,
         Takes(u, v, pkt, taken), Accepts(u, v, pkt, taken)
  PROVE  pkt.seq = seqTable[v][pkt.src] + 1
<1> DEFINE s == pkt.src
           k == pkt.seq - 1
           q == chan[u][v]
<1>1. /\ s \in Node /\ pkt.seq \in Nat
      /\ seqTable[v][s] \in Nat /\ seqTable[v][s] < pkt.seq
      /\ seqTable[u][s] \in Nat /\ pkt.seq <= seqTable[u][s]
  BY AcceptsAlways, Entries DEF Packet, Accepts
<1>2. /\ q \in Seq(Packet) /\ q # <<>> /\ q[1] = pkt /\ 1 \in DOMAIN q
  BY Entries DEF Takes
<1>3. SUFFICES ASSUME seqTable[v][s] < k PROVE FALSE
  BY <1>1
<1>4. k \in 1 .. seqTable[u][s] /\ k < pkt.seq
  BY <1>1, <1>3
<1>5. v \in neighbors[u]
  BY <1>2 DEF WhenIntact, LinksFollowNeighbors
<1>6. Carries(q, s, k)
  BY <1>1, <1>3, <1>4, <1>5 DEF WhenIntact, NobodyForgotten
<1>7. PICK i \in DOMAIN q : q[i].src = s /\ q[i].seq = k
  BY <1>6 DEF Carries
<1>8. 1 < i
  BY <1>2, <1>4, <1>7
<1>9. Ascending(q)
  BY DEF Always, FloodsDieOut
<1>10. pkt.seq < k
  BY <1>2, <1>7, <1>8, <1>9 DEF Ascending
<1> QED
  BY <1>1, <1>4, <1>10

\* A packet that is accepted is passed on to all that may lack it: the node
\* that sent it knows it.
LEMMA AcceptsWhenIntact ==
  ASSUME TypeOK, Always, WhenIntact, NEW u \in Node, NEW v \in Node,
         NEW pkt \in Packet, NEW taken \in Channels,
         Takes(u, v, pkt, taken), Accepts(u, v, pkt, taken)
  PROVE  WhenIntact'
<1> SUFFICES ASSUME Intact' PROVE WhenIntact'
  BY DEF WhenIntact, LinksFollowNeighbors, NobodyForgotten, NoSkip
<1>1. UNCHANGED <<localSeq, neighbors, lost, changes>> /\ Intact
  BY DEF Takes, Intact
<1>2. NewEntries(v, pkt) /\ NewLinks(u, v, pkt, taken)
  BY AcceptsPointwise
<1>3. pkt.src # v /\ pkt.seq <= seqTable[u][pkt.src]
  BY AcceptsAlways
<1>4. pkt.seq = seqTable[v][pkt.src] + 1
  BY <1>1, AcceptedIsNext
<1>5. pkt.src \in Node /\ pkt.seq \in Nat
  BY <1>2 DEF NewEntries
<1>6. chan[u][v] # <<>> /\ Head(chan[u][v]) = pkt
  BY DEF Takes
<1>7. v \in neighbors[u] /\ u # v
  BY <1>1, <1>6 DEF WhenIntact, LinksFollowNeighbors, TypeOK
<1>8. \A x, w \in Node : taken[x][w] \in Seq(Packet)
  BY DEF Channels
<1>9. LinksFollowNeighbors'
  <2> SUFFICES ASSUME NEW x \in Node, NEW w \in Node, chan'[x][w] # <<>>
               PROVE  w \in neighbors[x]
    BY <1>1 DEF LinksFollowNeighbors
  <2>1. CASE x = v /\ w \in neighbors[v] \ {u}
    BY <2>1
  <2>2. CASE ~(x = v /\ w \in neighbors[v] \ {u})
    <3>1. taken[x][w] # <<>>
      BY <1>2, <2>2 DEF NewLinks
    <3>2. chan[x][w] # <<>>
      BY <1>2, <1>6, <3>1 DEF NewLinks
    <3> QED
      BY <1>1, <3>2 DEF WhenIntact, LinksFollowNeighbors
  <2> QED
    BY <2>1, <2>2
<1>10. NobodyForgotten'
  <2> SUFFICES ASSUME NEW x \in Node, NEW w \in Node, NEW s \in Node,
                      NEW k \in 1 .. seqTable'[x][s],
                      w \in neighbors[x], seqTable'[w][s] < k
               PROVE  Carries(chan'[x][w], s, k)
    BY <1>1 DEF NobodyForgotten
  <2>1. /\ \A y \in Node : seqTable'[y][s] = IF y = v /\ s = pkt.src
                                             THEN pkt.seq ELSE seqTable[y][s]
        /\ \A y \in Node : seqTable[y][s] \in Nat
    <3>1. \A y \in Node : seqTable[y][s] \in Nat
      BY Entries
    <3> QED
      BY <1>2, <3>1 DEF NewEntries
  <2>2. /\ k \in Nat /\ 1 <= k /\ k <= seqTable'[x][s]
        /\ seqTable[w][s] < k
    BY <1>4, <1>5, <2>1
  <2>3. CASE k <= seqTable[x][s]
    <3>1. Carries(chan[x][w], s, k)
      BY <1>1, <2>1, <2>2, <2>3 DEF WhenIntact, NobodyForgotten
    <3>2. Carries(taken[x][w], s, k)
      <4>1. CASE x = u /\ w = v
        <5>1. ~(pkt.src = s /\ pkt.seq = k)
          BY <1>5, <2>1, <2>2, <4>1
        <5>2. Carries(Tail(chan[u][v]), s, k)
          BY <1>6, <3>1, <4>1, <5>1, CarriesTail, Entries
        <5> QED
          BY <1>2, <4>1, <5>2 DEF NewLinks
      <4>2. CASE ~(x = u /\ w = v)
        BY <1>2, <3>1, <4>2 DEF NewLinks
      <4> QED
        BY <4>1, <4>2
    <3>3. Carries(Append(taken[x][w], pkt), s, k)
      BY <1>8, <3>2, CarriesAppend
    <3> QED
      BY <1>2, <3>2, <3>3 DEF NewLinks
  <2>4. CASE ~(k <= seqTable[x][s])
    <3>1. x = v /\ s = pkt.src /\ k = pkt.seq
      BY <1>4, <1>5, <2>1, <2>2, <2>4
    <3>2. w # u
      BY <1>3, <1>5, <1>7, <2>1, <2>2, <3>1
    <3>3. Carries(Append(taken[x][w], pkt), s, k)
      BY <1>8, <3>1, CarriesAppend
    <3> QED
      BY <1>2, <3>1, <3>2, <3>3 DEF NewLinks
  <2> QED
    BY <2>3, <2>4
<1>11. NoSkip'
  <2> SUFFICES ASSUME NEW w \in Node, NEW s \in Node, w # s
               PROVE  /\ Len(got'[w][s]) = seqTable'[w][s]
                      /\ \A i \in DOMAIN got'[w][s] : got'[w][s][i] = i
    BY DEF NoSkip
  <2>1. /\ Len(got[w][s]) = seqTable[w][s]
        /\ \A i \in DOMAIN got[w][s] : got[w][s][i] = i
        /\ got[w][s] \in Seq(Nat)
    BY <1>1, Entries DEF WhenIntact, NoSkip
  <2>2. CASE w = v /\ s = pkt.src
    <3>1. got'[w][s] = Append(got[w][s], pkt.seq) /\ seqTable'[w][s] = pkt.seq
      BY <1>2, <2>2 DEF NewEntries
    <3>2. pkt.seq = Len(got[w][s]) + 1
      BY <1>4, <2>1, <2>2
    <3> QED
      BY <1>5, <2>1, <3>1, <3>2
  <2>3. CASE ~(w = v /\ s = pkt.src)
    BY <1>2, <2>1, <2>3 DEF NewEntries
  <2> QED
    BY <2>2, <2>3
<1> QED
  BY <1>9, <1>10, <1>11 DEF WhenIntact

\* Every step keeps it: a loss or a change of neighbours ends what it claims.
LEMMA NextWhenIntact ==
  TypeOK /\ Always /\ WhenIntact /\ [Next]_vars => WhenIntact'
<1> SUFFICES ASSUME TypeOK, Always, WhenIntact, [Next]_vars PROVE WhenIntact'
  OBVIOUS
<1>1. ASSUME NEW n \in Node, Flood(n) PROVE WhenIntact'
  BY <1>1, FloodWhenIntact
<1>2. ASSUME NEW u \in Node, NEW v \in Node, GotFloodPkt(u, v)
      PROVE  WhenIntact'
  <2>1. PICK pkt \in Packet, taken \in Channels :
          /\ Takes(u, v, pkt, taken)
          /\ Ignores(v, pkt, taken) \/ Accepts(u, v, pkt, taken)
    BY <1>2, GotFloodPktCases
  <2> QED
    BY <2>1, IgnoresWhenIntact, AcceptsWhenIntact
<1>3. ASSUME NEW u \in Node, NEW v \in Node, Lose(u, v) PROVE WhenIntact'
  <2>1. ~Intact'
    BY <1>3 DEF Lose, Intact, TypeOK
  <2> QED
    BY <2>1 DEF WhenIntact, LinksFollowNeighbors, NobodyForgotten, NoSkip
<1>4. ASSUME NEW n \in Node, NEW other \in Node, NeighborChange(n, other)
      PROVE  WhenIntact'
  <2>1. ~Intact'
    BY <1>4 DEF NeighborChange, Intact, TypeOK
  <2> QED
    BY <2>1 DEF WhenIntact, LinksFollowNeighbors, NobodyForgotten, NoSkip
<1>5. CASE UNCHANGED vars
  BY <1>5 DEF vars, WhenIntact, LinksFollowNeighbors, NobodyForgotten, NoSkip,
              Intact
<1> QED
  BY <1>1, <1>2, <1>3, <1>4, <1>5 DEF Next

\* It holds in every reachable state.
LEMMA WhenIntactHolds == Spec => []WhenIntact
BY InitTypeOK, NextTypeOK, InitAlways, NextAlways, InitWhenIntact,
   NextWhenIntact, PTL DEF Spec

\* On intact links whatever a node knows and its neighbour lacks is on the
\* link between them.
THEOREM FloodingForgetsNobody == Spec => []NobodyForgotten
<1>1. WhenIntact => NobodyForgotten
  BY DEF WhenIntact
<1> QED
  BY <1>1, WhenIntactHolds, PTL

\* On intact links every node signals the advertisements of every source in
\* order and without a gap.
THEOREM FloodingSkipsNothing == Spec => []NoSkip
<1>1. WhenIntact => NoSkip
  BY DEF WhenIntact
<1> QED
  BY <1>1, WhenIntactHolds, PTL
=============================================================================
