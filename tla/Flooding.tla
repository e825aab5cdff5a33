------------------------------ MODULE Flooding ------------------------------
(***************************************************************************)
(* FloodingP.nc: every node numbers its link state advertisements and hands *)
(* them to its neighbours; a node that sees a number for the first time     *)
(* signals it to LinkStateRouting and passes it on.                         *)
(*                                                                          *)
(* Packets travel on links, in order per link (SimpleSendP.nc queues them). *)
(* One may be lost, by a full send pool or by the radio; neighbours may     *)
(* come and go (NeighborDiscoveryP.nc).  Abstracted: the advertisement that *)
(* is carried, flooding_table (filled and consumed inside one handler) and  *)
(* the TTL, which the code decrements and never stops at.                   *)
(***************************************************************************)
EXTENDS Integers, Sequences, SequencesExt

CONSTANTS
  Node,         \* the nodes
  Neighbors,    \* their neighbours when the flooding starts
  MaxSeq,       \* floods each node originates in a behaviour
  MaxLoss,      \* packets that are lost
  MaxChange     \* changes of a set of neighbours

ASSUME NeighborsAssumption ==
  /\ Neighbors \in [Node -> SUBSET Node]
  /\ \A n \in Node : n \notin Neighbors[n]
ASSUME BoundAssumption == /\ MaxSeq \in [Node -> Nat]
                          /\ MaxLoss \in Nat /\ MaxChange \in Nat

Packet == [src : Node, seq : Nat]
Channels == [Node -> [Node -> Seq(Packet)]]

VARIABLES
  localSeq,     \* local_seq: the number of the next flood of the node
  seqTable,     \* seq_table: the last number seen of each source, 0 for none
  neighbors,    \* NeighborDiscovery.neighbors
  chan,         \* chan[u][v]: packets on their way from u to v
  got,          \* numbers signalled by gotLSA, per node and source
  lost, changes

vars == <<localSeq, seqTable, neighbors, chan, got, lost, changes>>

Init ==
  /\ localSeq = [n \in Node |-> 1]
  /\ seqTable = [n \in Node |-> [s \in Node |-> 0]]
  /\ neighbors = Neighbors
  /\ chan = [u \in Node |-> [v \in Node |-> <<>>]]
  /\ got = [n \in Node |-> [s \in Node |-> <<>>]]
  /\ lost = 0
  /\ changes = 0

\* send: one copy to each neighbour of dests
Sent(ch, n, dests, pkt) ==
  [ch EXCEPT ![n] = [v \in Node |-> IF v \in dests THEN Append(@[v], pkt)
                                                   ELSE @[v]]]

\* Flooding.flood
Flood(n) ==
  /\ localSeq[n] <= MaxSeq[n]
  /\ seqTable' = [seqTable EXCEPT ![n][n] = localSeq[n]]
  /\ chan' = Sent(chan, n, neighbors[n], [src |-> n, seq |-> localSeq[n]])
  /\ localSeq' = [localSeq EXCEPT ![n] = @ + 1]
  /\ UNCHANGED <<neighbors, got, lost, changes>>

\* the duplicate check at the head of gotFloodPkt; the variants forward a
\* number once more, or take any number that differs from the last
IsOld_Strict(v, pkt) == seqTable[v][pkt.src] > pkt.seq
IsOld_Same(v, pkt) == seqTable[v][pkt.src] = pkt.seq
IsOld(v, pkt) == seqTable[v][pkt.src] >= pkt.seq

\* whom forward sends to; the variant sends to nobody
Others_None(v, from) == {}
Others(v, from) == neighbors[v] \ {from}

\* gotFloodPkt at v of the next packet from u
GotFloodPkt(u, v) ==
  /\ chan[u][v] # <<>>
  /\ LET pkt == Head(chan[u][v])
         taken == [chan EXCEPT ![u][v] = Tail(@)]
     IN  IF IsOld(v, pkt)
         THEN /\ chan' = taken
              /\ UNCHANGED <<seqTable, got>>
         ELSE /\ seqTable' = [seqTable EXCEPT ![v][pkt.src] = pkt.seq]
              /\ got' = [got EXCEPT ![v][pkt.src] = Append(@, pkt.seq)]
              /\ chan' = Sent(taken, v, Others(v, u), pkt)
  /\ UNCHANGED <<localSeq, neighbors, lost, changes>>

\* the send pool or the radio drops a packet of a link
Lose(u, v) ==
  /\ lost < MaxLoss
  /\ \E i \in DOMAIN chan[u][v] :
       chan' = [chan EXCEPT ![u][v] = RemoveAt(@, i)]
  /\ lost' = lost + 1
  /\ UNCHANGED <<localSeq, seqTable, neighbors, got, changes>>

\* NeighborDiscovery drops or finds a neighbour
NeighborChange(n, other) ==
  /\ n # other
  /\ changes < MaxChange
  /\ neighbors' = [neighbors EXCEPT
       ![n] = IF other \in @ THEN @ \ {other} ELSE @ \cup {other}]
  /\ changes' = changes + 1
  /\ UNCHANGED <<localSeq, seqTable, chan, got, lost>>

Next ==
  \/ \E n \in Node : Flood(n)
  \/ \E u, v \in Node : GotFloodPkt(u, v) \/ Lose(u, v) \/ NeighborChange(u, v)

Spec == Init /\ [][Next]_vars

\* packets in flight arrive or are lost
FairSpec == Spec /\ \A u, v \in Node : WF_vars(GotFloodPkt(u, v))

-----------------------------------------------------------------------------
(* Properties                                                              *)

\* The types of the variables; a node is no neighbour of its own.
TypeOK ==
  /\ localSeq \in [Node -> Nat]
  /\ seqTable \in [Node -> [Node -> Nat]]
  /\ neighbors \in [Node -> SUBSET Node]
  /\ \A n \in Node : n \notin neighbors[n]
  /\ chan \in Channels
  /\ got \in [Node -> [Node -> Seq(Nat)]]
  /\ lost \in Nat
  /\ changes \in Nat

\* An advertisement is signalled at most once and never after a later one of
\* the same source, whatever is lost: numbers only grow, and seq_table is at
\* or behind none of them.
AtMostOnce ==
  \A v, s \in Node :
    /\ \A i, j \in DOMAIN got[v][s] : i < j => got[v][s][i] < got[v][s][j]
    /\ \A i \in DOMAIN got[v][s] : got[v][s][i] <= seqTable[v][s]

\* No node knows a number that its source did not use, and a node never takes
\* its own flood for a new one when it comes back.
SourceIsAhead ==
  \A v, s \in Node : /\ seqTable[v][s] <= seqTable[s][s]
                     /\ got[s][s] = <<>>
                     /\ localSeq[s] = seqTable[s][s] + 1

\* No packet of q has a number beyond those of t.
Below(q, t) == \A i \in DOMAIN q : q[i].seq <= t[q[i].src]

\* The packets of one source are in the order of their numbers.
Ascending(q) ==
  \A i, j \in DOMAIN q : i < j /\ q[i].src = q[j].src => q[i].seq < q[j].seq

\* A flood crosses a link at most once and behind the earlier floods of its
\* source: it dies out although no TTL stops it, whatever is lost and however
\* the neighbours change.
FloodsDieOut ==
  \A u, v \in Node : Below(chan[u][v], seqTable[u]) /\ Ascending(chan[u][v])

\* Nothing was lost and no neighbour came or went.
Intact == lost = 0 /\ changes = 0

\* A packet with this source and number is in q.
Carries(q, s, k) == \E i \in DOMAIN q : q[i].src = s /\ q[i].seq = k

\* On intact links, what a node knows and its neighbour does not is on the
\* link between them: not returning a flood to where it came from, and not
\* forwarding a number again, forgets nobody.
NobodyForgotten ==
  Intact => \A u, v, s \in Node : \A k \in 1 .. seqTable[u][s] :
              v \in neighbors[u] /\ seqTable[v][s] < k
                => Carries(chan[u][v], s, k)

\* On intact links no advertisement is skipped, although the check would let a
\* later number overtake and silence an earlier one: each node signals
\* 1, 2, 3, ... of every source, up to its seq_table.
NoSkip ==
  Intact => \A v, s \in Node : v # s =>
              /\ Len(got[v][s]) = seqTable[v][s]
              /\ \A i \in DOMAIN got[v][s] : got[v][s][i] = i

\* Every node that the intact links connect to the source gets its last flood.
EveryoneHears ==
  \A v, s \in Node : seqTable[v][s] < seqTable[s][s]
                     ~> seqTable[v][s] = seqTable[s][s] \/ ~Intact
=============================================================================
