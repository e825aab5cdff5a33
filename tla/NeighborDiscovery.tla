-------------------------- MODULE NeighborDiscovery --------------------------
(***************************************************************************)
(* NeighborDiscoveryP.nc: a node pings whoever hears it once a round, and   *)
(* keeps for every neighbour that answers the number of the last ping it    *)
(* answered and a moving average of the answers.  What it signals changes   *)
(* the node's own row of the graph of LinkStateRoutingP.nc; so do the       *)
(* advertisements of the neighbours, as a link is kept in both directions.  *)
(*                                                                         *)
(* Only the distance of a sequence number from local_seq matters, so that   *)
(* the model keeps distances: a ping, a reply and an entry of the table     *)
(* grow older by one when discover increments local_seq.  Fewer than 2^16   *)
(* rounds (a month) are assumed: the code compares the numbers as ints.     *)
(* The answering node keeps no state.                                       *)
(***************************************************************************)
EXTENDS Integers, FiniteSets

CONSTANTS
  Neighbor,     \* the nodes that may hear this one
  Alpha,        \* alpha, of 1000
  Good, Poor,   \* good_quality, poor_quality
  Margin,       \* what the quality must pass good_quality by to have improved
  FewLost,      \* accepted_consecutive_lost
  DropValue,    \* drop_value
  MaxLate       \* rounds after which a packet has arrived or is lost

Full == 1000    \* the quality of a link that has lost nothing
X == 10000      \* x: path cost = x / link_quality

ASSUME QualityAssumption ==
  /\ {Alpha, Poor, Good, Margin} \subseteq 1 .. Full
  /\ Poor < Good /\ Good + Margin <= Full
ASSUME RoundsAssumption ==
  /\ FewLost \in Nat /\ DropValue \in Nat /\ MaxLate \in Nat
  /\ 0 < MaxLate /\ MaxLate < DropValue - 1

\* neighborInfo_t, with local_seq - last_seq for last_seq
Info == [age : 1 .. DropValue - 1, quality : 0 .. Full, degraded : BOOLEAN]

VARIABLES
  table,        \* NeighborTable: a function on the known neighbours
  task,         \* the next task, or the timer that posts them both
  pings,        \* ages of the pings on their way to a neighbour
  replies,      \* ages of the replies on their way back
  init,         \* init of LinkStateRoutingP: advertisements have begun
  advertised,   \* the neighbours that its own row of the graph has a link to
  unheard       \* history: pings in a row that were lost on one of the ways

airVars == <<pings, replies, unheard>>
routingVars == <<init, advertised>>
vars == <<table, task, airVars, routingVars>>

Age == 1 .. MaxLate
Oldest(ages) == CHOOSE a \in ages : \A b \in ages : b <= a
Older(ages) == {a + 1 : a \in ages}

Put(n, info) ==
  [m \in DOMAIN table \cup {n} |-> IF m = n THEN info ELSE table[m]]

Init ==
  /\ table = [n \in {} |-> 0]
  /\ task = "discoverTimer"
  /\ pings = [n \in Neighbor |-> {}]
  /\ replies = [n \in Neighbor |-> {}]
  /\ unheard = [n \in Neighbor |-> 0]
  /\ init = FALSE
  /\ advertised = {}

\* discoverTimer.fired: post updateTable, post discover.  By then no packet is
\* MaxLate rounds old: it has arrived or is lost.
DiscoverTimerFired ==
  /\ task = "discoverTimer"
  /\ \A n \in Neighbor : MaxLate \notin pings[n] \cup replies[n]
  /\ task' = "updateTable"
  /\ UNCHANGED <<table, airVars, routingVars>>

\* the moving average; the variant has the weights the other way round
Ewma_Swapped(sample, old) == (1000 - Alpha) * sample + (Alpha * old) \div 1000
Ewma(sample, old) == Alpha * sample + ((1000 - Alpha) * old) \div 1000

\* updateTable drops the neighbour; the variants are a round early and late
Expired_Early(n) == table[n].age >= DropValue - 2
Expired_Late(n) == table[n].age >= DropValue
Expired(n) == table[n].age >= DropValue - 1

\* the quality after a round, lower when the last ping was not answered
Decayed(n) ==
  IF table[n].age > 1 THEN Ewma(0, table[n].quality) ELSE table[n].quality

\* the quality has just ceased to be good
Falls(n) == /\ table[n].quality > Good /\ Decayed(n) < Good
            /\ ~table[n].degraded

\* in a single step to a poor one, after several lost answers
Inactive(n) == Falls(n) /\ Decayed(n) <= Poor /\ table[n].age >= FewLost + 1

\* a link that falls is advertised again, one that is inactive is not saved
Refreshed(n) ==
  IF Inactive(n) THEN table[n]
  ELSE [table[n] EXCEPT !.quality = Decayed(n), !.degraded = @ \/ Falls(n)]

\* neighborChange of LinkStateRoutingP for the links that are gone and those
\* whose cost is new; the variant does not tell it who was dropped
Advertise_NoDrop(gone, changed) ==
  IF init THEN advertised \cup changed ELSE advertised
Advertise(gone, changed) ==
  IF init THEN (advertised \ gone) \cup changed ELSE advertised

UpdateTable ==
  /\ task = "updateTable"
  /\ LET known == DOMAIN table
         dropped == {n \in known : Expired(n)}
         kept == known \ dropped
         inactive == {n \in kept : Inactive(n)}
         falling == {n \in kept : Falls(n)} \ inactive
     IN  /\ table' = [n \in kept |-> Refreshed(n)]
         /\ advertised' = Advertise(dropped \cup inactive, falling)
  /\ task' = "discover"
  /\ UNCHANGED <<airVars, init>>

\* discover: the next ping, and the timer
Discover ==
  /\ task = "discover"
  /\ pings' = [n \in Neighbor |-> {1} \cup Older(pings[n])]
  /\ replies' = [n \in Neighbor |-> Older(replies[n])]
  /\ table' = [n \in DOMAIN table |-> [table[n] EXCEPT !.age = @ + 1]]
  /\ task' = "discoverTimer"
  /\ UNCHANGED <<unheard, routingVars>>

\* gotNDPkt of the neighbour, PROTOCOL_PING
Reply(n) ==
  /\ pings[n] # {}
  /\ LET a == Oldest(pings[n])
     IN  /\ pings' = [pings EXCEPT ![n] = @ \ {a}]
         /\ replies' = [replies EXCEPT ![n] = @ \cup {a}]
  /\ UNCHANGED <<table, task, unheard, routingVars>>

\* the quality has improved in a step between answers to successive pings
Improves(n, a) ==
  /\ table[n].degraded /\ table[n].age = a + 1
  /\ table[n].quality < Good + Margin
  /\ Ewma(1, table[n].quality) > Good + Margin

\* what updateLink stores; the variant keeps the number of the first answer
Answered_FirstSeq(n, a) ==
  [table[n] EXCEPT !.quality = Ewma(1, @),
                   !.degraded = @ /\ ~Improves(n, a)]
Answered(n, a) ==
  [age |-> a, quality |-> Ewma(1, table[n].quality),
   degraded |-> table[n].degraded /\ ~Improves(n, a)]

\* gotNDPkt, PROTOCOL_PINGREPLY: updateLink.  A new neighbour is signalled to
\* nobody, an answer that is not newer than the last one changes nothing.
GotReply(n) ==
  /\ replies[n] # {}
  /\ LET a == Oldest(replies[n])
     IN  /\ replies' = [replies EXCEPT ![n] = @ \ {a}]
         /\ \/ /\ n \notin DOMAIN table
               /\ table' = Put(n, [age |-> a, quality |-> Full,
                                  degraded |-> FALSE])
               /\ UNCHANGED advertised
            \/ /\ n \in DOMAIN table /\ table[n].age > a
               /\ table' = Put(n, Answered(n, a))
               /\ advertised' = Advertise({}, {m \in {n} : Improves(m, a)})
            \/ /\ n \in DOMAIN table /\ table[n].age <= a
               /\ UNCHANGED <<table, advertised>>
  /\ unheard' = [unheard EXCEPT ![n] = 0]
  /\ UNCHANGED <<task, pings, init>>

\* the radio loses a ping or a reply.  The history stops at DropValue.
Lose(n) ==
  /\ \/ /\ \E a \in pings[n] : pings' = [pings EXCEPT ![n] = @ \ {a}]
        /\ UNCHANGED replies
     \/ /\ \E a \in replies[n] : replies' = [replies EXCEPT ![n] = @ \ {a}]
        /\ UNCHANGED pings
  /\ unheard' = [unheard EXCEPT ![n] = IF @ < DropValue THEN @ + 1 ELSE @]
  /\ UNCHANGED <<table, task, routingVars>>

\* ShareTimer.fired of LinkStateRoutingP, once: initShare, which only inserts
InitShare ==
  /\ ~init
  /\ init' = TRUE
  /\ advertised' = advertised \cup DOMAIN table
  /\ UNCHANGED <<table, task, airVars>>

\* gotLSA of LinkStateRoutingP, for an advertisement of n that has its link to
\* this node: insert and removeEdge write the row of either end.  It comes over
\* any nodes and at any time, before initShare too.
GotLSA(n) ==
  /\ \/ advertised' = advertised \cup {n}     \* INIT, LNIK_QUALITY_CHANGE
     \/ advertised' = advertised \ {n}        \* INACTIVE, NEIGHBOR_DROP
  /\ UNCHANGED <<table, task, airVars, init>>

Next ==
  \/ DiscoverTimerFired \/ UpdateTable \/ Discover \/ InitShare
  \/ \E n \in Neighbor : Reply(n) \/ GotReply(n) \/ Lose(n) \/ GotLSA(n)

Spec == Init /\ [][Next]_vars

\* Timers expire, posted tasks run, and a packet arrives or is lost.  Nothing
\* is assumed of what the neighbours advertise.
FairSpec ==
  /\ Spec
  /\ WF_vars(DiscoverTimerFired) /\ WF_vars(UpdateTable) /\ WF_vars(Discover)
  /\ WF_vars(InitShare)
  /\ \A n \in Neighbor : WF_vars(Reply(n) \/ GotReply(n) \/ Lose(n))

-----------------------------------------------------------------------------
(* Properties                                                              *)

\* The types of the variables.
TypeOK ==
  /\ DOMAIN table \subseteq Neighbor
  /\ \A n \in DOMAIN table : table[n] \in Info
  /\ task \in {"discoverTimer", "updateTable", "discover"}
  /\ pings \in [Neighbor -> SUBSET Age] /\ replies \in [Neighbor -> SUBSET Age]
  /\ unheard \in [Neighbor -> 0 .. DropValue]
  /\ init \in BOOLEAN /\ advertised \subseteq Neighbor

\* updateTable drops a neighbour only when DropValue - 2 pings in a row, 7 with
\* the drop_value of the code, have found no answer, those included that are
\* still on their way (fewer if an answer comes late, after those of later pings
\* were lost): a link that loses less in a row never goes, however often it does
\* and however poor it is.
DroppedOnlyWhenSilent ==
  [][\A n \in DOMAIN table :
       n \notin DOMAIN table' =>
         unheard[n] + Cardinality(pings[n]) + Cardinality(replies[n])
           >= DropValue - 1 - MaxLate]_vars

\* NeighborDiscoveryP.nc:40 and 42: a link whose quality is below poor_quality is
\* dropped when it has lost more than accepted_consecutive_lost in a row.  The
\* code keeps it: the branch is taken for a fall in a single step only, and its
\* call of remove is commented out.
PoorIsDropped ==
  task = "discover" =>
    \A n \in DOMAIN table : ~(table[n].quality < Poor /\ unheard[n] > FewLost)

\* NeighborDiscoveryP.nc:43: a neighbour is dropped with more than drop_value
\* packets lost.  The pings last_seq + 1 .. local_seq - 1 have no answer when the
\* code drops it, which are drop_value - 2.
DroppedAfterDropValue ==
  [][\A n \in DOMAIN table :
       n \notin DOMAIN table' => table[n].age - 1 > DropValue]_vars

\* The node's own steps keep its row of the graph behind the table: a neighbour
\* that is dropped once advertisements have begun leaves the row in that step,
\* no link to an unknown neighbour enters it, and none to a neighbour that stays
\* known leaves it (INACTIVE is never signalled with the thresholds of the code).
\* Whatever else changes a link of the row is an advertisement of its other end.
RowFollowsTable ==
  [][\A n \in Neighbor :
       /\ init /\ n \in DOMAIN table \ DOMAIN table' => n \notin advertised'
       /\ n \in advertised' \ advertised => n \in DOMAIN table' \/ GotLSA(n)
       /\ n \in advertised \ advertised' => n \notin DOMAIN table' \/ GotLSA(n)]_vars

\* What the row would be if it was made from the table alone.  The code has it
\* otherwise: an advertisement of the other end changes the row and not the
\* table, a neighbour found after initShare is signalled to nobody, and one that
\* is dropped before initShare leaves the link that it advertised itself.
RowIsTable == init => advertised = DOMAIN table

\* getLinkCost divides by a quality that is never 0, and routing may add the
\* costs of a path of 25 nodes without reaching INFINITE.
CostsAreSound ==
  \A n \in DOMAIN table : /\ table[n].quality > 0
                          /\ 25 * (X \div table[n].quality) < 65535

\* A neighbour that answers no more leaves the table for good, and the row of
\* the graph whenever it was in the table after initShare.  The row may get the
\* link back: from an advertisement of the neighbour, who may still hear pings.
SilentIsForgotten ==
  \A n \in Neighbor :
    <>[][~GotReply(n)]_vars =>
      /\ <>[](n \notin DOMAIN table)
      /\ init /\ n \in DOMAIN table ~> n \notin advertised

\* A ping to n or its answer is lost, or takes longer than a round.
Missing(n) ==
  \/ Lose(n)
  \/ DiscoverTimerFired /\ pings[n] \cup replies[n] # {}

\* A neighbour whose answers are missed no more is known with a good quality.
ReliableIsGood ==
  \A n \in Neighbor :
    <>[][~Missing(n)]_vars =>
      <>[](n \in DOMAIN table /\ table[n].quality > Good + Margin)

\* A link whose quality is not good any more is marked and was signalled.
ModerateIsSignalled ==
  \A n \in DOMAIN table : table[n].quality < Good => table[n].degraded
=============================================================================
