---------------------------- MODULE Routing_proofs ----------------------------
(***************************************************************************)
(* Theorems about Routing, for any number of nodes, any costs and any       *)
(* changes: types, that no advertisement is missed (NewsIsDue), and that    *)
(* the task finds a table whose costs balance (RoutesBalance), by the       *)
(* invariant of its loop.  From balance follow that they are those of       *)
(* shortest walks (RoutesAreShortest) and that next hops lead there         *)
(* (NextHopsLead).                                                          *)
(***************************************************************************)
EXTENDS Routing, WellFoundedInduction, FiniteSets, FiniteSetTheorems, TLAPS

\* The least number of a set; proofs by the least counterexample rest on it.
LEMMA LeastNat ==
  ASSUME NEW S \in SUBSET Nat, S # {}
  PROVE  \E n \in S : \A m \in S : n <= m
<1> DEFINE less == {p \in Nat \X Nat : p[1] < p[2]}
<1>1. IsWellFoundedOn(less, Nat)
  BY NatLessThanWellFounded DEF OpToRel
<1>2. \E n \in S : \A m \in S : ~(<<m, n>> \in less)
  <2> HIDE DEF less
  <2> QED
    BY <1>1, WFMin
<1>3. ASSUME NEW n \in S, NEW m \in S, ~(<<m, n>> \in less) PROVE n <= m
  <2>1. n \in Nat /\ m \in Nat
    OBVIOUS
  <2>2. ~(m < n)
    BY <1>3, <2>1
  <2> QED
    BY <2>1, <2>2
<1> QED
  <2> HIDE DEF less
  <2> QED
    BY <1>2, <1>3

\* Nearest picks a node that is not discovered at the least finite distance,
\* or the last one when there is none.
LEMMA NearestIsNearest ==
  ASSUME TypeOK, NEW dist \in [Node -> 0 .. Infinite]
  PROVE  LET reached == {v \in Node : ~discovered[v] /\ dist[v] # Infinite}
         IN  /\ Nearest(dist) \in Node
             /\ reached = {} => Nearest(dist) = lowest
             /\ reached # {} => /\ Nearest(dist) \in reached
                               /\ \A v \in reached : dist[Nearest(dist)] <= dist[v]
<1> DEFINE reached == {v \in Node : ~discovered[v] /\ dist[v] # Infinite}
           IsFirst(v) ==
             \A w \in reached : \/ dist[v] < dist[w]
                                \/ dist[v] = dist[w] /\ v <= w
<1>1. CASE reached = {}
  <2>1. Nearest(dist) = lowest
    BY <1>1 DEF Nearest
  <2> QED
    BY <2>1, <1>1 DEF TypeOK
<1>2. CASE reached # {}
  <2> DEFINE D == {dist[v] : v \in reached}
  <2>1. D \in SUBSET Nat /\ D # {}
    BY <1>2, CostAssumption
  <2>2. PICK d \in D : \A e \in D : d <= e
    <3> HIDE DEF D
    <3> QED
      BY <2>1, LeastNat
  <2> DEFINE V == {v \in reached : dist[v] = d}
  <2>3. V \in SUBSET Nat /\ V # {}
    BY <2>2, SelfAssumption DEF Node
  <2>4. PICK n \in V : \A m \in V : n <= m
    <3> HIDE DEF V
    <3> QED
      BY <2>3, LeastNat
  <2>5. \A v \in reached : dist[v] \in Nat /\ d <= dist[v] /\ d \in Nat
    BY <2>1, <2>2
  <2>6. n \in reached /\ IsFirst(n)
    BY <2>4, <2>5
  <2>7. Nearest(dist) = CHOOSE v \in reached : IsFirst(v)
    BY <1>2 DEF Nearest
  <2>8. Nearest(dist) \in reached /\ IsFirst(Nearest(dist))
    <3> HIDE DEF reached, IsFirst
    <3> QED
      BY <2>6, <2>7
  <2>9. \A v \in reached : dist[Nearest(dist)] <= dist[v]
    BY <2>8, <2>5
  <2> QED
    BY <2>8, <2>9, <1>2
<1> QED
  BY <1>1, <1>2

-----------------------------------------------------------------------------
(* The invariant                                                           *)

Discovered == {v \in Node : discovered[v]}

\* No link from u makes a route shorter.
Settled(u) ==
  \A v \in Node : graph[u][v] # NoEdge => distance[v] <= distance[u] + graph[u][v]

\* The route to v is that to u and a link.
Extends(v, u) ==
  /\ discovered[u] /\ graph[u][v] # NoEdge
  /\ distance[v] = distance[u] + graph[u][v]
  /\ updatedBy[v] = FirstHop(u, v)

\* The loop discovers nodes in the order of their distances; all but the last
\* are settled.  Either every round has discovered one, or none is left.
LoopInv ==
  task = "running" =>
    /\ read = graph
    /\ discovered[Self] /\ distance[Self] = 0 /\ discovered[lowest]
    /\ \A v \in Node : discovered[v] =>
         /\ distance[v] # Infinite
         /\ table[v] = [hop |-> updatedBy[v], cost |-> distance[v]]
    /\ \A v \in Node :
         distance[v] # Infinite => distance[v] <= MaxCost * (N - counter)
    /\ \A u, v \in Node : discovered[u] =>
         /\ distance[u] <= distance[lowest]
         /\ ~discovered[v] => distance[u] <= distance[v]
    /\ \A u \in Node : discovered[u] => u = lowest \/ Settled(u)
    /\ \A v \in Node \ {Self} :
         distance[v] # Infinite => \E u \in Node : Extends(v, u)
    /\ \/ Cardinality(Discovered) + counter = N + 1
       \/ /\ Settled(lowest)
          /\ \A v \in Node : ~discovered[v] => distance[v] = Infinite

\* Before the first table the timer of onBoot runs, or the task is due.
BootTimer == task = "idle" /\ ~hasTabel => timer

IInv == TypeOK /\ LoopInv /\ RoutesBalance /\ NewsIsDue /\ BootTimer

\* The distances of the nodes discovered leave room below Infinite.
LEMMA Arithmetic ==
  ASSUME NEW c \in 1 .. N
  PROVE  /\ MaxCost * (N - c) \in Nat
         /\ MaxCost * (N - (c - 1)) = MaxCost * (N - c) + MaxCost
         /\ MaxCost * (N - c) + MaxCost < Infinite
<1> DEFINE r == N - c
<1>1. r \in Nat /\ r + 1 <= N /\ N \in Nat /\ N - (c - 1) = r + 1
  BY SelfAssumption
<1>2. /\ MaxCost * r \in Nat
      /\ MaxCost * (r + 1) = MaxCost * r + MaxCost
      /\ MaxCost * (r + 1) <= N * MaxCost
  <2> HIDE DEF r
  <2>1. PICK q \in Nat : N = r + 1 + q
    <3>1. N - (r + 1) \in Nat /\ N = r + 1 + (N - (r + 1))
      BY <1>1
    <3> QED
      BY <3>1
  <2>2. MaxCost \in Nat
    BY CostAssumption
  <2>3. N * MaxCost = MaxCost * (r + 1) + MaxCost * q /\ MaxCost * q \in Nat
        /\ MaxCost * (r + 1) \in Nat
    BY <1>1, <2>1, <2>2
  <2> QED
    BY <1>1, <2>2, <2>3
<1> QED
  BY <1>1, <1>2, CostAssumption

\* What a round does to the distances.
LEMMA Relaxation ==
  ASSUME TypeOK, LoopInv, task = "running", counter > 0
  PROVE  /\ Relaxed \in [Node -> 0 .. Infinite]
         /\ RelaxedBy \in [Node -> Node \cup {0}]
         /\ \A v \in Node : Relaxed[v] <= distance[v]
         /\ \A v \in Node : discovered[v] => /\ Relaxed[v] = distance[v]
                                             /\ RelaxedBy[v] = updatedBy[v]
         /\ \A v \in Fringe(lowest) :
              /\ distance[lowest] < Through(lowest, v)
              /\ Relaxed[v] <= Through(lowest, v)
              /\ Through(lowest, v) <= MaxCost * (N - counter) + MaxCost
              /\ Through(lowest, v) \in Nat /\ Through(lowest, v) < Infinite
         /\ \A v \in Node :
              \/ /\ v \in Fringe(lowest) /\ Relaxed[v] = Through(lowest, v)
                 /\ RelaxedBy[v] = FirstHop(lowest, v)
              \/ Relaxed[v] = distance[v] /\ RelaxedBy[v] = updatedBy[v]
<1>1. \A v \in Node : distance[v] \in Nat /\ distance[v] <= Infinite
  BY CostAssumption DEF TypeOK
<1>2. lowest \in Node /\ discovered[lowest] /\ distance[lowest] # Infinite
  BY DEF TypeOK, LoopInv
<1>3. counter \in 1 .. N
  BY DEF TypeOK
<1>4. distance[lowest] <= MaxCost * (N - counter)
  BY <1>2 DEF LoopInv
<1>5. ASSUME NEW v \in Fringe(lowest)
      PROVE  /\ v \in Node /\ ~discovered[v]
             /\ Through(lowest, v) \in Nat
             /\ distance[lowest] < Through(lowest, v)
             /\ Through(lowest, v) <= MaxCost * (N - counter) + MaxCost
             /\ Through(lowest, v) < Infinite
  <2>1. v \in Node /\ ~discovered[v] /\ graph[lowest][v] # NoEdge
    BY DEF Fringe
  <2>2. graph[lowest][v] \in Cost
    BY <1>2, <2>1 DEF TypeOK
  <2>3. graph[lowest][v] \in Nat /\ 0 < graph[lowest][v]
        /\ graph[lowest][v] <= MaxCost
    BY <2>2, CostAssumption DEF Cost
  <2> QED
    BY <1>1, <1>2, <1>3, <1>4, <2>1, <2>3, Arithmetic, CostAssumption DEF Through
<1>6. \A v \in Nearer : v \in Fringe(lowest)
  BY DEF Nearer
<1>7. \A v \in Nearer : Through(lowest, v) <= distance[v]
  BY <1>1, <1>5 DEF Nearer, Improves
<1>8. \A v \in Fringe(lowest) \ Nearer : distance[v] <= Through(lowest, v)
  BY <1>1, <1>5 DEF Nearer, Improves
<1>9. ASSUME NEW v \in Node
      PROVE  Relaxed[v] = IF v \in Nearer THEN Through(lowest, v) ELSE distance[v]
  BY DEF Relaxed
<1>10. ASSUME NEW v \in Node
       PROVE  RelaxedBy[v] = IF v \in Nearer THEN FirstHop(lowest, v) ELSE updatedBy[v]
  BY DEF RelaxedBy
<1>11. Relaxed \in [Node -> 0 .. Infinite]
  <2>1. \A v \in Node : Relaxed[v] \in 0 .. Infinite
    BY <1>1, <1>5, <1>6, <1>9, CostAssumption
  <2> QED
    BY <2>1 DEF Relaxed
<1>12. RelaxedBy \in [Node -> Node \cup {0}]
  <2>1. \A v \in Node : RelaxedBy[v] \in Node \cup {0}
    BY <1>2, <1>10 DEF FirstHop, TypeOK
  <2> QED
    BY <2>1 DEF RelaxedBy
<1> QED
  BY <1>1, <1>5, <1>6, <1>7, <1>8, <1>9, <1>10, <1>11, <1>12

\* A changed graph keeps its type and its symmetry.
LEMMA EdgeTypes ==
  ASSUME TypeOK, NEW i \in Node, NEW j \in Node, i # j,
         NEW c \in Cost \cup {NoEdge},
         graph' = [graph EXCEPT ![i][j] = c, ![j][i] = c]
  PROVE  /\ graph' \in [Node -> [Node -> Cost \cup {NoEdge}]]
         /\ \A u, v \in Node : graph'[u][v] = graph'[v][u] /\ graph'[u][u] = NoEdge
<1>1. graph \in [Node -> [Node -> Cost \cup {NoEdge}]]
  BY DEF TypeOK
<1>2. graph' \in [Node -> [Node -> Cost \cup {NoEdge}]]
  BY <1>1
<1>3. \A u, v \in Node :
        graph'[u][v] = IF (u = i /\ v = j) \/ (u = j /\ v = i) THEN c
                       ELSE graph[u][v]
  BY <1>1
<1>4. \A u, v \in Node : graph[u][v] = graph[v][u] /\ graph[u][u] = NoEdge
  BY DEF TypeOK
<1>5. ASSUME NEW u \in Node, NEW v \in Node
      PROVE  graph'[u][v] = graph'[v][u] /\ graph'[u][u] = NoEdge
  <2>1. /\ graph'[u][v] = IF (u = i /\ v = j) \/ (u = j /\ v = i) THEN c
                          ELSE graph[u][v]
        /\ graph'[v][u] = IF (v = i /\ u = j) \/ (v = j /\ u = i) THEN c
                          ELSE graph[v][u]
    BY <1>3
  <2>2. graph'[u][u] = IF (u = i /\ u = j) \/ (u = j /\ u = i) THEN c
                       ELSE graph[u][u]
    BY <1>3
  <2> QED
    BY <2>1, <2>2, <1>4
<1> QED
  BY <1>2, <1>5

\* The initial state satisfies the invariant.
LEMMA InitIInv == Init => IInv
<1> SUFFICES ASSUME Init PROVE IInv
  OBVIOUS
<1>1. graph \in [Node -> [Node -> Cost \cup {NoEdge}]]
      /\ \A i, j \in Node : graph[i][j] = graph[j][i] /\ graph[i][i] = NoEdge
  <2>1. PICK links \in [Link -> Cost \cup {NoEdge}] :
          graph = [i \in Node |-> [j \in Node |->
                     IF i = j THEN NoEdge ELSE links[{i, j}]]]
    BY DEF Init, Graphs
  <2>2. \A i, j \in Node : i # j => {i, j} \in Link /\ {i, j} = {j, i}
    BY DEF Link
  <2>3. \A i, j \in Node : i # j => links[{i, j}] \in Cost \cup {NoEdge}
    BY <2>2
  <2> QED
    BY <2>1, <2>2, <2>3
<1>2. Infinite \in 0 .. Infinite /\ 0 \in 0 .. Infinite /\ 0 \in 0 .. N
      /\ 0 \in 0 .. MaxChange
  BY CostAssumption, SelfAssumption, ChangeAssumption
<1>3. TypeOK
  BY <1>1, <1>2, SelfAssumption DEF Init, TypeOK, Route
<1> QED
  BY <1>3 DEF Init, IInv, LoopInv, RoutesBalance, NewsIsDue, BootTimer, KnowsOthers

\* A change of the graph comes while the task does not run.
LEMMA EdgeChangeIInv ==
  ASSUME IInv, NEW i \in Node, NEW j \in Node, NEW c \in Cost \cup {NoEdge},
         GotLSA(i, j, c) \/ (i = Self /\ NeighborChange(j, c))
  PROVE  IInv'
<1>1. EdgeChange(i, j, c)
  BY DEF GotLSA, NeighborChange
<1>2. UNCHANGED <<task, taskVars, table, hasTabel, read>>
  BY DEF GotLSA, NeighborChange
<1>3. timer' \in BOOLEAN
  BY DEF GotLSA, NeighborChange, DetermineRunDijstra, IInv, TypeOK
<1>4. changes' \in 0 .. MaxChange
  BY <1>1, ChangeAssumption DEF EdgeChange, IInv, TypeOK
<1>5. TypeOK'
  BY <1>1, <1>2, <1>3, <1>4, EdgeTypes DEF EdgeChange, IInv, TypeOK, taskVars
<1>6. LoopInv'
  BY <1>1, <1>2 DEF EdgeChange, LoopInv
<1>7. RoutesBalance'
  BY <1>2 DEF IInv, RoutesBalance
<1>8. BootTimer' /\ NewsIsDue'
  <2>1. CASE GotLSA(i, j, c)
    BY <2>1, <1>1, <1>2
       DEF GotLSA, DetermineRunDijstra, IInv, BootTimer, NewsIsDue, EdgeChange, TypeOK
  <2>2. CASE i = Self /\ NeighborChange(j, c)
    <3>1. graph \in [Node -> [Node -> Cost \cup {NoEdge}]]
      BY DEF IInv, TypeOK
    <3>2. \A u, v \in Node \ {Self} : graph'[u][v] = graph[u][v]
      BY <1>1, <2>2, <3>1 DEF EdgeChange
    <3> QED
      BY <1>2, <2>2, <3>2
         DEF NeighborChange, IInv, BootTimer, NewsIsDue, KnowsOthers
  <2> QED
    BY <2>1, <2>2
<1> QED
  BY <1>5, <1>6, <1>7, <1>8 DEF IInv

\* The timer fires while the task does not run, and posts it.
LEMMA TimerIInv ==
  ASSUME IInv, DijstraTimerFired
  PROVE  IInv'
<1> USE DEF DijstraTimerFired
<1>1. TypeOK'
  BY DEF IInv, TypeOK, taskVars
<1>2. LoopInv'
  BY DEF LoopInv
<1>3. RoutesBalance'
  BY DEF IInv, RoutesBalance
<1>4. NewsIsDue' /\ BootTimer'
  BY DEF NewsIsDue, BootTimer
<1> QED
  BY <1>1, <1>2, <1>3, <1>4 DEF IInv

\* The loop begins with the node itself at distance 0.
LEMMA StartIInv ==
  ASSUME IInv, Start
  PROVE  IInv'
<1> USE DEF Start
<1>0. TypeOK /\ N \in Nat /\ Self \in Node /\ Infinite \in Nat /\ 0 < Infinite
      /\ MaxCost \in Nat
  BY SelfAssumption, CostAssumption, Arithmetic DEF IInv, Node
<1>1. TypeOK'
  <2>1. [hop |-> Self, cost |-> 0] \in Route
    BY <1>0 DEF Route
  <2>2. table' \in [Node -> Route]
    BY <1>0, <2>1 DEF TypeOK
  <2>3. distance' \in [Node -> 0 .. Infinite]
    BY <1>0
  <2> QED
    BY <1>0, <2>2, <2>3 DEF TypeOK
<1>2. LoopInv'
  <2>1. Discovered' = {Self}
    BY <1>0 DEF Discovered
  <2>2. Cardinality(Discovered') = 1
    BY <2>1, FS_Singleton
  <2>3. Cardinality(Discovered') + counter' = N + 1
    BY <1>0, <2>2
  <2>4. \A v \in Node : distance'[v] # Infinite => v = Self
    BY <1>0
  <2>5. \A v \in Node : /\ distance'[v] \in Nat /\ distance'[v] <= Infinite
                        /\ distance'[v] # Infinite => distance'[v] <= MaxCost * (N - counter')
    BY <1>0
  <2>6. \A v \in Node : discovered'[v] => v = Self
    BY <1>0
  <2>7. /\ discovered'[Self] /\ distance'[Self] = 0 /\ updatedBy'[Self] = Self
        /\ table'[Self] = [hop |-> Self, cost |-> 0] /\ lowest' = Self
    BY <1>0 DEF TypeOK
  <2>8. \A u, v \in Node : discovered'[u] =>
         /\ distance'[u] <= distance'[lowest']
         /\ ~discovered'[v] => distance'[u] <= distance'[v]
    <3>1. \A u \in Node : discovered'[u] => distance'[u] = 0
      BY <2>6, <2>7
    <3>2. distance'[lowest'] = 0
      BY <2>7
    <3> HIDE DEF Start
    <3> QED
      BY <2>5, <3>1, <3>2
  <2> QED
    BY <1>0, <2>3, <2>4, <2>5, <2>6, <2>7, <2>8 DEF LoopInv, Discovered
<1>3. RoutesBalance'
  BY DEF RoutesBalance
<1>4. NewsIsDue' /\ BootTimer'
  BY DEF NewsIsDue, BootTimer, KnowsOthers
<1> QED
  BY <1>1, <1>2, <1>3, <1>4 DEF IInv

\* A round discovers a node, or has found that none is left.
LEMMA RoundIInv ==
  ASSUME IInv, Round
  PROVE  IInv'
<1> DEFINE next == Nearest(Relaxed)
           reached == {v \in Node : ~discovered[v] /\ Relaxed[v] # Infinite}
<1>0. TypeOK /\ LoopInv /\ task = "running" /\ counter > 0 /\ counter \in 1 .. N
  BY DEF IInv, Round, TypeOK
<1>1. /\ lowest' = next
      /\ discovered' = [discovered EXCEPT ![next] = TRUE]
      /\ table' = [table EXCEPT
           ![next] = [hop |-> RelaxedBy[next], cost |-> Relaxed[next]]]
      /\ distance' = Relaxed /\ updatedBy' = RelaxedBy
      /\ counter' = counter - 1
      /\ UNCHANGED <<graph, timer, task, hasTabel, read, changes>>
  BY DEF Round
<1>2. /\ Relaxed \in [Node -> 0 .. Infinite]
      /\ RelaxedBy \in [Node -> Node \cup {0}]
      /\ \A v \in Node : Relaxed[v] <= distance[v]
      /\ \A v \in Node : discovered[v] => /\ Relaxed[v] = distance[v]
                                          /\ RelaxedBy[v] = updatedBy[v]
      /\ \A v \in Fringe(lowest) :
           /\ distance[lowest] < Through(lowest, v)
           /\ Relaxed[v] <= Through(lowest, v)
           /\ Through(lowest, v) <= MaxCost * (N - counter) + MaxCost
           /\ Through(lowest, v) \in Nat /\ Through(lowest, v) < Infinite
      /\ \A v \in Node :
           \/ /\ v \in Fringe(lowest) /\ Relaxed[v] = Through(lowest, v)
              /\ RelaxedBy[v] = FirstHop(lowest, v)
           \/ Relaxed[v] = distance[v] /\ RelaxedBy[v] = updatedBy[v]
  BY <1>0, Relaxation
<1>3. /\ next \in Node
      /\ reached = {} => next = lowest
      /\ reached # {} => next \in reached /\ \A v \in reached : Relaxed[next] <= Relaxed[v]
  BY <1>0, <1>2, NearestIsNearest
<1> HIDE DEF next, reached
<1>4. lowest \in Node /\ discovered[lowest] /\ distance[lowest] # Infinite
      /\ Self \in Node /\ discovered[Self] /\ distance[Self] = 0
  BY <1>0, SelfAssumption DEF TypeOK, LoopInv
<1>5. /\ \A v \in Node : /\ distance[v] \in Nat /\ distance[v] <= Infinite
                         /\ Relaxed[v] \in Nat /\ Relaxed[v] <= Infinite
      /\ Infinite \in Nat
  BY <1>0, <1>2, CostAssumption DEF TypeOK
<1>6. next = lowest \/ (~discovered[next] /\ Relaxed[next] # Infinite)
  BY <1>3 DEF reached
<1>7. \A v \in Node : discovered'[v] = (v = next \/ discovered[v])
  BY <1>0, <1>1, <1>3 DEF TypeOK
<1>8. TypeOK'
  <2>1. [hop |-> RelaxedBy[next], cost |-> Relaxed[next]] \in Route
    BY <1>2, <1>3 DEF Route
  <2>2. table' \in [Node -> Route]
    BY <1>0, <1>1, <1>3, <2>1 DEF TypeOK
  <2>3. discovered' \in [Node -> BOOLEAN]
    BY <1>0, <1>1, <1>3 DEF TypeOK
  <2>4. counter' \in 0 .. N
    BY <1>0, <1>1, SelfAssumption
  <2> QED
    BY <1>0, <1>1, <1>2, <1>3, <2>2, <2>3, <2>4 DEF TypeOK
<1>9. Relaxed[next] # Infinite /\ (next = lowest => Relaxed[next] = distance[lowest])
  BY <1>2, <1>4, <1>6
<1>10. \A v \in Node : discovered'[v] =>
         /\ distance'[v] # Infinite
         /\ table'[v] = [hop |-> updatedBy'[v], cost |-> distance'[v]]
  <2> SUFFICES ASSUME NEW v \in Node, discovered'[v]
               PROVE  /\ Relaxed[v] # Infinite
                      /\ table'[v] = [hop |-> RelaxedBy[v], cost |-> Relaxed[v]]
    BY <1>1
  <2>1. CASE v = next
    BY <2>1, <1>0, <1>1, <1>9 DEF TypeOK
  <2>2. CASE v # next
    <3>1. discovered[v] /\ table'[v] = table[v]
      BY <2>2, <1>0, <1>1, <1>7 DEF TypeOK
    <3>2. distance[v] # Infinite
          /\ table[v] = [hop |-> updatedBy[v], cost |-> distance[v]]
      BY <1>0, <3>1 DEF LoopInv
    <3> QED
      BY <3>1, <3>2, <1>2
  <2> QED
    BY <2>1, <2>2
<1>11. \A v \in Node :
         distance'[v] # Infinite => distance'[v] <= MaxCost * (N - counter')
  <2> SUFFICES ASSUME NEW v \in Node, Relaxed[v] # Infinite
               PROVE  Relaxed[v] <= MaxCost * (N - (counter - 1))
    BY <1>1
  <2>1. /\ MaxCost * (N - counter) \in Nat /\ MaxCost \in Nat
        /\ MaxCost * (N - (counter - 1)) = MaxCost * (N - counter) + MaxCost
    BY <1>0, Arithmetic, CostAssumption
  <2>2. CASE v \in Fringe(lowest) /\ Relaxed[v] = Through(lowest, v)
    BY <2>1, <2>2, <1>2
  <2>3. CASE Relaxed[v] = distance[v]
    <3>1. distance[v] <= MaxCost * (N - counter)
      BY <2>3, <1>0 DEF LoopInv
    <3> QED
      BY <2>1, <2>3, <3>1, <1>5
  <2> QED
    BY <2>2, <2>3, <1>2
\* what is discovered is no farther than what is not, and next is in between
<1>12. ASSUME NEW u \in Node, discovered[u], NEW v \in Node, ~discovered[v]
       PROVE  Relaxed[u] <= Relaxed[v]
  <2>1. distance[u] <= distance[lowest] /\ distance[u] <= distance[v]
        /\ Relaxed[u] = distance[u]
    BY <1>0, <1>2, <1>12 DEF LoopInv
  <2>2. CASE v \in Fringe(lowest) /\ Relaxed[v] = Through(lowest, v)
    <3>1. distance[lowest] < Relaxed[v]
      BY <2>2, <1>2
    <3> QED
      BY <2>1, <3>1, <1>4, <1>5
  <2>3. CASE Relaxed[v] = distance[v]
    BY <2>1, <2>3
  <2> QED
    BY <2>2, <2>3, <1>2
<1>13. \A u \in Node : discovered[u] => Relaxed[u] <= Relaxed[next]
  <2>1. CASE next = lowest
    BY <2>1, <1>0, <1>2, <1>4 DEF LoopInv
  <2>2. CASE ~discovered[next]
    BY <2>2, <1>3, <1>12
  <2> QED
    BY <2>1, <2>2, <1>6
<1>14. \A v \in Node : ~discovered[v] => Relaxed[next] <= Relaxed[v]
  <2> SUFFICES ASSUME NEW v \in Node, ~discovered[v] PROVE Relaxed[next] <= Relaxed[v]
    OBVIOUS
  <2>1. CASE next = lowest
    BY <2>1, <1>4, <1>12
  <2>2. CASE next # lowest /\ Relaxed[v] = Infinite
    BY <2>2, <1>3, <1>5
  <2>3. CASE next # lowest /\ Relaxed[v] # Infinite
    BY <2>3, <1>3 DEF reached
  <2> QED
    BY <2>1, <2>2, <2>3
<1>15. \A u, v \in Node : discovered'[u] =>
         /\ distance'[u] <= distance'[lowest']
         /\ ~discovered'[v] => distance'[u] <= distance'[v]
  <2> SUFFICES ASSUME NEW u \in Node, NEW v \in Node, u = next \/ discovered[u]
               PROVE  /\ Relaxed[u] <= Relaxed[next]
                      /\ ~discovered[v] => Relaxed[u] <= Relaxed[v]
    BY <1>1, <1>7
  <2>1. Relaxed[next] <= Relaxed[next]
    BY <1>3, <1>5
  <2> QED
    BY <2>1, <1>12, <1>13, <1>14
\* all that was discovered before the round is settled
<1>16. ASSUME NEW u \in Node, discovered[u], NEW v \in Node, graph[u][v] # NoEdge
       PROVE  Relaxed[v] <= Relaxed[u] + graph[u][v]
  <2>1. graph[u][v] \in Nat
    BY <1>0, CostAssumption DEF TypeOK, Cost, NoEdge
  <2>2. Relaxed[u] = distance[u] /\ Relaxed[v] <= distance[v]
    BY <1>2, <1>16
  <2>3. CASE u # lowest
    <3>1. distance[v] <= distance[u] + graph[u][v]
      BY <2>3, <1>0, <1>16 DEF LoopInv, Settled
    <3> QED
      BY <2>1, <2>2, <3>1, <1>5
  <2>4. CASE u = lowest /\ discovered[v]
    <3>1. distance[v] <= distance[lowest]
      BY <2>4, <1>0 DEF LoopInv
    <3> QED
      BY <2>1, <2>2, <2>4, <3>1, <1>5
  <2>5. CASE u = lowest /\ ~discovered[v]
    <3>1. v \in Fringe(lowest)
      BY <2>5, <1>16 DEF Fringe
    <3>2. Relaxed[v] <= Through(lowest, v)
      BY <3>1, <1>2
    <3> QED
      BY <2>2, <2>5, <3>2 DEF Through
  <2> QED
    BY <2>3, <2>4, <2>5
<1>17. \A u \in Node : discovered'[u] => u = lowest' \/ Settled(u)'
  BY <1>1, <1>7, <1>16 DEF Settled
<1>18. \A v \in Node \ {Self} :
         distance'[v] # Infinite => \E u \in Node : Extends(v, u)'
  <2> SUFFICES ASSUME NEW v \in Node \ {Self}, Relaxed[v] # Infinite
               PROVE  \E u \in Node : Extends(v, u)'
    BY <1>1
  <2>1. CASE /\ v \in Fringe(lowest) /\ Relaxed[v] = Through(lowest, v)
             /\ RelaxedBy[v] = FirstHop(lowest, v)
    <3>1. PICK u \in Node : u = lowest
      BY <1>4
    <3>2. graph[u][v] # NoEdge
      BY <2>1, <3>1 DEF Fringe
    <3>3. discovered'[u] /\ Relaxed[u] = distance[u] /\ RelaxedBy[u] = updatedBy[u]
      BY <3>1, <1>2, <1>4, <1>7
    <3>4. Extends(v, u)'
      BY <2>1, <3>1, <3>2, <3>3, <1>1 DEF Extends, Through, FirstHop
    <3> QED
      BY <3>4
  <2>2. CASE Relaxed[v] = distance[v] /\ RelaxedBy[v] = updatedBy[v]
    <3>1. PICK u \in Node : Extends(v, u)
      BY <2>2, <1>0 DEF LoopInv
    <3>2. discovered'[u] /\ Relaxed[u] = distance[u] /\ RelaxedBy[u] = updatedBy[u]
      BY <3>1, <1>2, <1>7 DEF Extends
    <3>3. Extends(v, u)'
      BY <2>2, <3>1, <3>2, <1>1 DEF Extends, FirstHop
    <3> QED
      BY <3>3
  <2> QED
    BY <2>1, <2>2, <1>2
\* a round that discovers no node has found that none is left
<1>19. ASSUME next = lowest
       PROVE  Settled(lowest)' /\ \A v \in Node : ~discovered'[v] => distance'[v] = Infinite
  <2>1. reached = {}
    BY <1>3, <1>4, <1>19 DEF reached
  <2>2. Settled(lowest)'
    BY <1>1, <1>4, <1>16, <1>19 DEF Settled
  <2>3. \A v \in Node : ~discovered'[v] => distance'[v] = Infinite
    BY <2>1, <1>1, <1>7 DEF reached
  <2> QED
    BY <2>2, <2>3
<1>20. ASSUME next # lowest
       PROVE  Cardinality(Discovered') + counter' = N + 1
  <2>1. ~discovered[next] /\ Relaxed[next] # Infinite
    BY <1>6, <1>20
  <2>2. IsFiniteSet(Discovered) /\ Cardinality(Discovered) \in Nat
    <3>1. IsFiniteSet(Node)
      BY SelfAssumption, FS_Interval DEF Node
    <3>2. Discovered \in SUBSET Node
      BY DEF Discovered
    <3>3. IsFiniteSet(Discovered)
      BY <3>1, <3>2, FS_Subset
    <3> QED
      BY <3>3, FS_CardinalityType
  <2>3. Discovered' = Discovered \cup {next} /\ next \notin Discovered
    BY <2>1, <1>3, <1>7 DEF Discovered
  <2>4. Cardinality(Discovered') = Cardinality(Discovered) + 1
    BY <2>2, <2>3, FS_AddElement
  <2>5. ASSUME Settled(lowest), \A v \in Node : ~discovered[v] => distance[v] = Infinite
        PROVE  FALSE
    <3>1. distance[next] = Infinite
      BY <2>1, <2>5, <1>3
    <3>2. next \in Fringe(lowest)
      BY <2>1, <3>1, <1>2, <1>3
    <3>3. distance[next] <= Through(lowest, next) /\ Through(lowest, next) < Infinite
          /\ Through(lowest, next) \in Nat
      BY <2>5, <3>2, <1>2 DEF Settled, Fringe, Through
    <3> QED
      BY <3>1, <3>3, <1>5, <1>3
  <2>6. Cardinality(Discovered) + counter = N + 1
    BY <2>5, <1>0 DEF LoopInv
  <2> QED
    BY <2>2, <2>4, <2>6, <1>0, <1>1, SelfAssumption
<1>21. LoopInv'
  <2>1. read' = graph' /\ discovered'[Self] /\ distance'[Self] = 0
        /\ discovered'[lowest']
    BY <1>0, <1>1, <1>2, <1>3, <1>4, <1>7 DEF LoopInv
  <2>2. \/ Cardinality(Discovered') + counter' = N + 1
        \/ Settled(lowest)' /\ \A v \in Node : ~discovered'[v] => distance'[v] = Infinite
    BY <1>19, <1>20
  <2> QED
    BY <2>1, <2>2, <1>10, <1>11, <1>15, <1>17, <1>18 DEF LoopInv
<1>22. RoutesBalance' /\ NewsIsDue' /\ BootTimer'
  BY <1>0, <1>1 DEF IInv, RoutesBalance, NewsIsDue, BootTimer, KnowsOthers
<1> QED
  BY <1>8, <1>21, <1>22 DEF IInv

\* When the rounds are over there is no node left to discover, and what is in
\* the table balances.
LEMMA FinishIInv ==
  ASSUME IInv, Finish
  PROVE  IInv'
<1>0. TypeOK /\ LoopInv /\ task = "running" /\ counter = 0
      /\ N \in Nat /\ Self \in Node /\ Infinite \in Nat
  BY SelfAssumption, CostAssumption DEF IInv, Finish
<1>1. /\ table' = [n \in Node |-> IF discovered[n] THEN table[n] ELSE Unreached(n)]
      /\ hasTabel' = TRUE /\ task' = "idle"
      /\ UNCHANGED <<graph, timer, taskVars, read, changes>>
  BY DEF Finish
<1>2. TypeOK'
  <2>1. \A n \in Node : Unreached(n) \in Route
    BY <1>0 DEF Unreached, Route
  <2>2. table' \in [Node -> Route]
    BY <2>1, <1>0, <1>1 DEF TypeOK
  <2> QED
    BY <2>2, <1>0, <1>1 DEF TypeOK, taskVars
<1>3. Settled(lowest) /\ \A v \in Node : ~discovered[v] => distance[v] = Infinite
  <2>1. IsFiniteSet(Node) /\ Cardinality(Node) = N
    BY <1>0, FS_Interval DEF Node
  <2>2. Discovered \in SUBSET Node
    BY DEF Discovered
  <2>3. IsFiniteSet(Discovered) /\ Cardinality(Discovered) <= N
    BY <2>1, <2>2, FS_Subset
  <2>4. Cardinality(Discovered) \in Nat
    BY <2>3, FS_CardinalityType
  <2>5. Cardinality(Discovered) + counter # N + 1
    BY <2>3, <2>4, <1>0
  <2> QED
    BY <2>5, <1>0 DEF LoopInv
<1>4. read' = graph
  BY <1>0, <1>1 DEF LoopInv
<1>5. ASSUME NEW v \in Node
      PROVE  /\ table'[v].cost = distance[v]
             /\ distance[v] # Infinite => discovered[v] /\ table'[v].hop = updatedBy[v]
  <2>1. CASE discovered[v]
    <3>1. table'[v] = table[v]
      BY <2>1, <1>1
    <3>2. table[v] = [hop |-> updatedBy[v], cost |-> distance[v]]
      BY <2>1, <1>0 DEF LoopInv
    <3> QED
      BY <2>1, <3>1, <3>2
  <2>2. CASE ~discovered[v]
    BY <2>2, <1>1, <1>3 DEF Unreached
  <2> QED
    BY <2>1, <2>2
<1>6. \A v \in Node : distance[v] \in Nat /\ distance[v] <= Infinite
  BY <1>0 DEF TypeOK
<1>7. table'[Self].cost = 0
  BY <1>0, <1>5 DEF LoopInv
<1>8. ASSUME NEW u \in Node, NEW v \in Node, graph[u][v] # NoEdge
      PROVE  distance[v] <= distance[u] + graph[u][v]
  <2>1. graph[u][v] \in Nat
    BY <1>0, CostAssumption DEF TypeOK, Cost, NoEdge
  <2>2. CASE discovered[u]
    <3>1. Settled(u)
      BY <2>2, <1>0, <1>3 DEF LoopInv
    <3> QED
      BY <3>1, <1>8 DEF Settled
  <2>3. CASE ~discovered[u]
    BY <2>1, <2>3, <1>0, <1>3, <1>6
  <2> QED
    BY <2>2, <2>3
<1>9. ASSUME NEW v \in Node \ {Self}, distance[v] # Infinite
      PROVE  \E u \in Node :
               /\ graph[u][v] # NoEdge /\ distance[v] = distance[u] + graph[u][v]
               /\ table'[v].hop = IF u = Self THEN v ELSE table'[u].hop
  <2>1. PICK u \in Node : Extends(v, u)
    BY <1>9, <1>0 DEF LoopInv
  <2>2. distance[u] # Infinite
    BY <2>1, <1>0 DEF LoopInv, Extends
  <2>3. table'[v].hop = updatedBy[v] /\ table'[u].hop = updatedBy[u]
    BY <2>2, <1>5, <1>9
  <2> QED
    BY <2>1, <2>3 DEF Extends, FirstHop
<1>10. RoutesBalance'
  <2>1. \A u, v \in Node :
          read'[u][v] # NoEdge => table'[v].cost <= table'[u].cost + read'[u][v]
    BY <1>4, <1>5, <1>8
  <2>2. \A v \in Node \ {Self} :
          table'[v].cost # Infinite =>
            \E u \in Node : /\ read'[u][v] # NoEdge
                            /\ table'[v].cost = table'[u].cost + read'[u][v]
                            /\ table'[v].hop = IF u = Self THEN v ELSE table'[u].hop
    BY <1>4, <1>5, <1>9
  <2> QED
    BY <2>1, <2>2, <1>7 DEF RoutesBalance
<1>11. LoopInv' /\ BootTimer'
  BY <1>1 DEF LoopInv, BootTimer
<1>12. NewsIsDue'
  BY <1>0, <1>1 DEF LoopInv, NewsIsDue, KnowsOthers
<1> QED
  BY <1>2, <1>10, <1>11, <1>12 DEF IInv

-----------------------------------------------------------------------------
(* The reference: walks of fewer than N links                              *)

\* The walks that are those of W, or one link longer.
Further(W) ==
  W \cup {<<e[2], e[1][2] + read[e[1][1]][e[2]]>> :
            e \in {f \in W \X Node : read[f[1][1]][f[2]] # NoEdge}}

\* f has the walks from a of up to k links for every k below n.
IsWalks(a, n, f) ==
  f = [k \in 0 .. n |-> IF k = 0 THEN {<<a, 0>>} ELSE Further(f[k - 1])]

\* There is such an f: a least n without one would have one from n - 1.
LEMMA WalksExist ==
  ASSUME NEW a
  PROVE  \A n \in Nat : \E f : IsWalks(a, n, f)
<1> DEFINE Without == {n \in Nat : ~\E f : IsWalks(a, n, f)}
<1> SUFFICES ASSUME Without # {} PROVE FALSE
  OBVIOUS
<1>1. PICK n \in Without : \A m \in Without : n <= m
  <2>1. Without \in SUBSET Nat
    OBVIOUS
  <2> HIDE DEF Without
  <2> QED
    BY <2>1, LeastNat
<1>2. n \in Nat /\ ~\E f : IsWalks(a, n, f)
  OBVIOUS
<1>3. CASE n = 0
  <2> DEFINE f == [k \in 0 .. 0 |-> {<<a, 0>>}]
  <2>1. f = [k \in 0 .. 0 |-> IF k = 0 THEN {<<a, 0>>} ELSE Further(f[k - 1])]
    <3>1. \A k \in 0 .. 0 : k = 0
      OBVIOUS
    <3> QED
      BY <3>1
  <2>2. IsWalks(a, 0, f)
    BY <2>1 DEF IsWalks
  <2> HIDE DEF f
  <2> QED
    BY <1>2, <1>3, <2>2
<1>4. CASE n # 0
  <2>1. n - 1 \in Nat /\ ~(n <= n - 1)
    BY <1>2, <1>4
  <2>2. PICK f : IsWalks(a, n - 1, f)
    <3>1. n - 1 \notin Without
      BY <1>1, <2>1
    <3> QED
      BY <2>1, <3>1
  <2> DEFINE g == [k \in 0 .. n |-> IF k = n THEN Further(f[n - 1]) ELSE f[k]]
  <2>3. ASSUME NEW k \in 0 .. n
        PROVE  g[k] = IF k = 0 THEN {<<a, 0>>} ELSE Further(g[k - 1])
    <3>1. CASE k = n
      <4>1. n - 1 \in 0 .. n /\ n - 1 # n
        BY <1>2, <2>1
      <4>2. g[n - 1] = f[n - 1]
        BY <4>1
      <4>3. g[k] = Further(f[n - 1])
        BY <3>1
      <4> HIDE DEF g
      <4> QED
        BY <1>4, <3>1, <4>2, <4>3
    <3>2. CASE k # n
      <4>1. k \in 0 .. n - 1 /\ g[k] = f[k]
        BY <1>2, <3>2
      <4>2. f[k] = IF k = 0 THEN {<<a, 0>>} ELSE Further(f[k - 1])
        BY <2>2, <4>1 DEF IsWalks
      <4>3. k # 0 => k - 1 \in 0 .. n /\ k - 1 # n
        BY <1>2, <3>2
      <4>4. k # 0 => g[k - 1] = f[k - 1]
        BY <4>3
      <4> HIDE DEF g
      <4> QED
        BY <4>1, <4>2, <4>4
    <3> QED
      BY <3>1, <3>2
  <2>4. g = [k \in 0 .. n |-> g[k]]
    OBVIOUS
  <2> HIDE DEF g
  <2>5. IsWalks(a, n, g)
    BY <2>3, <2>4 DEF IsWalks
  <2> QED
    BY <1>2, <2>5
<1> QED
  BY <1>3, <1>4

\* The walks from a of up to k links, for every k below N.
UpTo(a) == CHOOSE f : IsWalks(a, N - 1, f)

\* Walks is the last value of that function.
LEMMA WalksUnfold ==
  ASSUME NEW a
  PROVE  /\ Walks(a) = UpTo(a)[N - 1]
         /\ UpTo(a)[0] = {<<a, 0>>}
         /\ \A k \in 0 .. N - 2 : UpTo(a)[k + 1] = Further(UpTo(a)[k])
<1>1. N - 1 \in Nat
  BY SelfAssumption DEF Node
<1>2. IsWalks(a, N - 1, UpTo(a))
  <2>1. \E g : IsWalks(a, N - 1, g)
    BY <1>1, WalksExist
  <2> QED
    BY <2>1 DEF UpTo
<1>3. Walks(a) = UpTo(a)[N - 1]
  BY DEF Walks, UpTo, IsWalks, Further
<1>4. \A k \in 0 .. N - 1 :
        UpTo(a)[k] = IF k = 0 THEN {<<a, 0>>} ELSE Further(UpTo(a)[k - 1])
  BY <1>2 DEF IsWalks
<1>5. UpTo(a)[0] = {<<a, 0>>}
  BY <1>1, <1>4
<1>6. ASSUME NEW k \in 0 .. N - 2 PROVE UpTo(a)[k + 1] = Further(UpTo(a)[k])
  <2>1. k + 1 \in 0 .. N - 1 /\ k + 1 # 0 /\ (k + 1) - 1 = k
    BY <1>1, SelfAssumption
  <2>2. UpTo(a)[k + 1] = Further(UpTo(a)[(k + 1) - 1])
    BY <1>4, <2>1
  <2> QED
    BY <2>1, <2>2
<1> QED
  BY <1>3, <1>5, <1>6

\* Walks of up to i links are walks of up to j links.
LEMMA WalksGrow ==
  ASSUME NEW a, NEW i \in 0 .. N - 1, NEW j \in 0 .. N - 1, i <= j
  PROVE  UpTo(a)[i] \subseteq UpTo(a)[j]
<1> DEFINE Bad == {m \in Nat : /\ m \in i .. N - 1
                               /\ ~(UpTo(a)[i] \subseteq UpTo(a)[m])}
<1> SUFFICES ASSUME Bad # {} PROVE FALSE
  <2>1. j \in Nat /\ j \in i .. N - 1
    OBVIOUS
  <2> QED
    BY <2>1
<1>1. PICK n \in Bad : \A m \in Bad : n <= m
  <2>1. Bad \in SUBSET Nat
    OBVIOUS
  <2> HIDE DEF Bad
  <2> QED
    BY <2>1, LeastNat
<1>2. n \in Nat /\ n \in i .. N - 1 /\ ~(UpTo(a)[i] \subseteq UpTo(a)[n]) /\ N \in Nat
  BY SelfAssumption
<1>3. n # i
  BY <1>2
<1>4. n - 1 \in Nat /\ n - 1 \in i .. N - 1 /\ n - 1 \in 0 .. N - 2
      /\ ~(n <= n - 1) /\ (n - 1) + 1 = n
  BY <1>2, <1>3
<1>5. UpTo(a)[i] \subseteq UpTo(a)[n - 1]
  <2>1. n - 1 \notin Bad
    BY <1>1, <1>4
  <2> QED
    BY <1>4, <2>1
<1>6. UpTo(a)[(n - 1) + 1] = Further(UpTo(a)[n - 1])
  BY <1>4, WalksUnfold
<1>7. UpTo(a)[n] = Further(UpTo(a)[n - 1])
  BY <1>4, <1>6
<1> QED
  BY <1>2, <1>5, <1>7 DEF Further

\* The costs of the table.
TableCost(v) == table[v].cost

\* What the reference needs of the types.
LEMMA CostTypes ==
  ASSUME TypeOK
  PROVE  /\ N \in Nat \ {0} /\ Self \in Node /\ Infinite \in Nat
         /\ \A v \in Node : TableCost(v) \in Nat /\ TableCost(v) <= Infinite
         /\ \A u, v \in Node : /\ read[u][v] \in Nat
                               /\ read[u][v] # NoEdge => read[u][v] > 0
<1>1. \A v \in Node : table[v] \in Route
  BY DEF TypeOK
<1>2. \A u, v \in Node : read[u][v] \in Cost \cup {NoEdge}
  BY DEF TypeOK
<1>3. N \in Nat \ {0} /\ Self \in Node /\ Infinite \in Nat
  BY SelfAssumption, CostAssumption DEF Node
<1>4. \A v \in Node : TableCost(v) \in Nat /\ TableCost(v) <= Infinite
  BY <1>1, <1>3 DEF Route, TableCost
<1> QED
  BY <1>2, <1>3, <1>4, CostAssumption DEF Cost, NoEdge

\* One link more.
LEMMA FurtherLink ==
  ASSUME NEW W, NEW u \in Node, NEW x, <<u, x>> \in W, NEW v \in Node,
         read[u][v] # NoEdge
  PROVE  <<v, x + read[u][v]>> \in Further(W)
<1> DEFINE e == <<<<u, x>>, v>>
<1>1. e \in {f \in W \X Node : read[f[1][1]][f[2]] # NoEdge}
  OBVIOUS
<1>2. e[2] = v /\ e[1][2] = x /\ e[1][1] = u
  OBVIOUS
<1> HIDE DEF e
<1>3. <<e[2], e[1][2] + read[e[1][1]][e[2]]>> \in Further(W)
  BY <1>1 DEF Further
<1> QED
  BY <1>2, <1>3

\* A walk is one of fewer links, or one of those and a link.
LEMMA FurtherCases ==
  ASSUME NEW W, NEW w \in Further(W)
  PROVE  \/ w \in W
         \/ \E x \in W : \E v \in Node :
              read[x[1]][v] # NoEdge /\ w = <<v, x[2] + read[x[1]][v]>>
<1>1. CASE w \in W
  BY <1>1
<1>2. CASE w \notin W
  <2>1. PICK e \in {f \in W \X Node : read[f[1][1]][f[2]] # NoEdge} :
          w = <<e[2], e[1][2] + read[e[1][1]][e[2]]>>
    BY <1>2 DEF Further
  <2>2. e[1] \in W /\ e[2] \in Node /\ read[e[1][1]][e[2]] # NoEdge
    BY <2>1
  <2> QED
    BY <2>1, <2>2
<1> QED
  BY <1>1, <1>2

\* There is a table that the task is not at work on.
HasRoutes == TypeOK /\ RoutesBalance /\ hasTabel /\ task # "running"

\* A walk from a to a node costs at least what the costs differ by.
NotCheaper(a, w) ==
  /\ w[1] \in Node /\ w[2] \in Nat
  /\ TableCost(w[1]) <= TableCost(a) + w[2]

\* No link is longer than the costs differ by, and so no walk is.
LEMMA NoWalkIsCheaper ==
  ASSUME HasRoutes, NEW a \in Node
  PROVE  \A w \in Walks(a) : NotCheaper(a, w)
<1> DEFINE Bad == {k \in Nat : /\ k \in 0 .. N - 1
                               /\ \E w \in UpTo(a)[k] : ~NotCheaper(a, w)}
<1>1. /\ N \in Nat \ {0}
      /\ \A v \in Node : TableCost(v) \in Nat
      /\ \A u, v \in Node : read[u][v] \in Nat
  BY CostTypes DEF HasRoutes
<1> SUFFICES ASSUME Bad # {} PROVE FALSE
  <2>1. N - 1 \in Nat /\ N - 1 \in 0 .. N - 1
    BY <1>1
  <2>2. SUFFICES ASSUME NEW w \in Walks(a), ~NotCheaper(a, w)
                 PROVE  N - 1 \in Bad
    OBVIOUS
  <2> QED
    BY <2>1, <2>2, WalksUnfold
<1>2. PICK n \in Bad : \A m \in Bad : n <= m
  <2>1. Bad \in SUBSET Nat
    OBVIOUS
  <2> HIDE DEF Bad
  <2> QED
    BY <2>1, LeastNat
<1>3. PICK w \in UpTo(a)[n] : ~NotCheaper(a, w)
  BY <1>2
<1>4. n \in Nat /\ n \in 0 .. N - 1
  BY <1>2
<1>5. CASE n = 0
  <2>1. w = <<a, 0>>
    BY <1>3, <1>5, WalksUnfold
  <2>2. w[1] = a /\ w[2] = 0
    BY <2>1
  <2> QED
    BY <1>1, <1>3, <2>2 DEF NotCheaper
<1>6. CASE n # 0
  <2>1. n - 1 \in Nat /\ n - 1 \in 0 .. N - 1 /\ n - 1 \in 0 .. N - 2
        /\ ~(n <= n - 1) /\ (n - 1) + 1 = n
    BY <1>1, <1>4, <1>6
  <2>2. \A x \in UpTo(a)[n - 1] : NotCheaper(a, x)
    <3>1. n - 1 \notin Bad
      BY <1>2, <2>1
    <3> QED
      BY <2>1, <3>1
  <2>3. w \in Further(UpTo(a)[n - 1])
    <3>1. UpTo(a)[(n - 1) + 1] = Further(UpTo(a)[n - 1])
      BY <2>1, WalksUnfold
    <3> QED
      BY <1>3, <2>1, <3>1
  <2>4. PICK x \in UpTo(a)[n - 1] : \E v \in Node :
          read[x[1]][v] # NoEdge /\ w = <<v, x[2] + read[x[1]][v]>>
    BY <1>3, <2>2, <2>3, FurtherCases
  <2>5. PICK v \in Node :
          read[x[1]][v] # NoEdge /\ w = <<v, x[2] + read[x[1]][v]>>
    BY <2>4
  <2>6. x[1] \in Node /\ x[2] \in Nat
        /\ TableCost(x[1]) <= TableCost(a) + x[2]
    BY <2>2 DEF NotCheaper
  <2>7. TableCost(v) <= TableCost(x[1]) + read[x[1]][v]
    BY <2>5, <2>6 DEF HasRoutes, RoutesBalance, TableCost
  <2>8. w[1] = v /\ w[2] = x[2] + read[x[1]][v]
    BY <2>5
  <2>9. read[x[1]][v] \in Nat /\ TableCost(v) \in Nat /\ TableCost(a) \in Nat
        /\ TableCost(x[1]) \in Nat
    BY <1>1, <2>6
  <2>10. NotCheaper(a, w)
    <3> DEFINE r == read[x[1]][v]
    <3>1. w[2] \in Nat /\ TableCost(v) <= TableCost(a) + w[2]
      BY <2>6, <2>7, <2>8, <2>9
    <3> QED
      BY <2>8, <3>1 DEF NotCheaper
  <2> QED
    BY <1>3, <2>10
<1> QED
  BY <1>5, <1>6

\* The nodes that are nearer than v, one of them at most for each link of the
\* route to v.
Below(v) == {u \in Node : TableCost(u) < TableCost(v)}
Links(v) == Cardinality(Below(v))

\* A node that is nearer than v has fewer nodes that are nearer.
LEMMA LinksGrow ==
  ASSUME HasRoutes, NEW v \in Node
  PROVE  /\ Links(v) \in 0 .. N - 1
         /\ \A u \in Node :
              TableCost(u) < TableCost(v) => Links(u) + 1 <= Links(v)
<1>1. N \in Nat \ {0} /\ \A u \in Node : TableCost(u) \in Nat
  BY CostTypes DEF HasRoutes
<1>2. IsFiniteSet(Node) /\ Cardinality(Node) = N
  BY <1>1, FS_Interval DEF Node
<1>3. ASSUME NEW X \in SUBSET Node, NEW y \in Node, y \notin X,
             NEW Y \in SUBSET Node, X \cup {y} \subseteq Y
      PROVE  /\ Cardinality(X) \in Nat /\ Cardinality(Y) \in Nat
             /\ Cardinality(X) + 1 <= Cardinality(Y)
  <2>1. IsFiniteSet(X) /\ IsFiniteSet(Y)
    BY <1>2, FS_Subset
  <2>2. Cardinality(X \cup {y}) = Cardinality(X) + 1
    BY <1>3, <2>1, FS_AddElement
  <2>3. Cardinality(X \cup {y}) <= Cardinality(Y)
    BY <1>3, <2>1, FS_Subset
  <2> QED
    BY <2>1, <2>2, <2>3, FS_CardinalityType
<1>4. Links(v) \in 0 .. N - 1
  <2>1. v \notin Below(v) /\ Below(v) \in SUBSET Node
    BY <1>1 DEF Below
  <2>2. Cardinality(Below(v)) \in Nat /\ Cardinality(Below(v)) + 1 <= N
    <3>1. /\ Cardinality(Below(v)) \in Nat
          /\ Cardinality(Below(v)) + 1 <= Cardinality(Node)
      BY <1>3, <2>1
    <3> QED
      BY <1>2, <3>1
  <2> QED
    BY <1>1, <2>2 DEF Links
<1>5. ASSUME NEW u \in Node, TableCost(u) < TableCost(v)
      PROVE  Links(u) + 1 <= Links(v)
  <2>1. /\ Below(u) \in SUBSET Node /\ Below(v) \in SUBSET Node
        /\ u \notin Below(u) /\ Below(u) \cup {u} \subseteq Below(v)
    BY <1>1, <1>5 DEF Below
  <2> QED
    BY <1>3, <2>1 DEF Links
<1> QED
  BY <1>4, <1>5

\* The node before v on its route.
LEMMA Before ==
  ASSUME HasRoutes, NEW v \in Node \ {Self}, TableCost(v) # Infinite
  PROVE  \E u \in Node :
           /\ read[u][v] # NoEdge
           /\ TableCost(v) = TableCost(u) + read[u][v]
           /\ table[v].hop = IF u = Self THEN v ELSE table[u].hop
           /\ TableCost(u) < TableCost(v) /\ TableCost(u) # Infinite
           /\ Links(u) \in Nat /\ Links(u) + 1 <= Links(v)
           /\ Links(v) \in 0 .. N - 1
<1>1. PICK u \in Node :
        /\ read[u][v] # NoEdge
        /\ TableCost(v) = TableCost(u) + read[u][v]
        /\ table[v].hop = IF u = Self THEN v ELSE table[u].hop
  BY DEF HasRoutes, RoutesBalance, TableCost
<1>2. /\ TableCost(u) \in Nat /\ TableCost(v) \in Nat
      /\ read[u][v] \in Nat /\ read[u][v] > 0
      /\ TableCost(v) <= Infinite /\ Infinite \in Nat
  BY <1>1, CostTypes DEF HasRoutes
<1>3. TableCost(u) < TableCost(v) /\ TableCost(u) # Infinite
  BY <1>1, <1>2
<1>4. Links(v) \in 0 .. N - 1 /\ Links(u) + 1 <= Links(v)
      /\ Links(u) \in 0 .. N - 1
  BY <1>3, LinksGrow
<1> QED
  BY <1>1, <1>3, <1>4

\* Induction over the costs: a property of nodes that holds for Self, and for
\* every node if it does for those that are nearer, holds for all.
LEMMA NearestBad ==
  ASSUME HasRoutes, NEW V \in SUBSET Node, V # {}
  PROVE  \E v \in V : \A u \in V : ~(TableCost(u) < TableCost(v))
<1> DEFINE C == {TableCost(v) : v \in V}
<1>1. \A v \in V : TableCost(v) \in Nat
  BY CostTypes DEF HasRoutes
<1>2. C \in SUBSET Nat /\ C # {}
  BY <1>1
<1>3. PICK c \in C : \A d \in C : c <= d
  <2> HIDE DEF C
  <2> QED
    BY <1>2, LeastNat
<1>4. PICK v \in V : c = TableCost(v)
  BY <1>3
<1> QED
  BY <1>1, <1>3, <1>4

\* Every route of the table is a walk of as many links as nodes are nearer, or
\* fewer.
LEMMA RouteIsWalk ==
  ASSUME HasRoutes, NEW v \in Node, TableCost(v) # Infinite
  PROVE  <<v, TableCost(v)>> \in UpTo(Self)[Links(v)]
<1> DEFINE Bad == {w \in Node : /\ TableCost(w) # Infinite
                                /\ <<w, TableCost(w)>> \notin UpTo(Self)[Links(w)]}
<1> SUFFICES ASSUME Bad # {} PROVE FALSE
  OBVIOUS
<1>1. PICK w \in Bad : \A u \in Bad : ~(TableCost(u) < TableCost(w))
  <2>1. Bad \in SUBSET Node
    OBVIOUS
  <2> HIDE DEF Bad
  <2> QED
    BY <2>1, NearestBad
<1>2. N \in Nat \ {0} /\ Links(w) \in 0 .. N - 1
  BY CostTypes, LinksGrow DEF HasRoutes
<1>3. CASE w = Self
  <2>1. TableCost(Self) = 0
    BY DEF HasRoutes, RoutesBalance, TableCost
  <2>2. <<Self, 0>> \in UpTo(Self)[0] /\ 0 \in 0 .. N - 1 /\ 0 <= Links(w)
    BY <1>2, WalksUnfold
  <2>3. UpTo(Self)[0] \subseteq UpTo(Self)[Links(w)]
    BY <1>2, <2>2, WalksGrow
  <2> QED
    BY <1>3, <2>1, <2>2, <2>3
<1>4. CASE w # Self
  <2>1. PICK u \in Node :
          /\ read[u][w] # NoEdge
          /\ TableCost(w) = TableCost(u) + read[u][w]
          /\ TableCost(u) < TableCost(w) /\ TableCost(u) # Infinite
          /\ Links(u) \in Nat /\ Links(u) + 1 <= Links(w)
    BY <1>4, Before
  <2>2. <<u, TableCost(u)>> \in UpTo(Self)[Links(u)]
    BY <1>1, <2>1
  <2>3. <<w, TableCost(w)>> \in Further(UpTo(Self)[Links(u)])
    BY <2>1, <2>2, FurtherLink
  <2>4. Links(u) \in 0 .. N - 2 /\ Links(u) + 1 \in 0 .. N - 1
    BY <1>2, <2>1
  <2>5. /\ UpTo(Self)[Links(u) + 1] = Further(UpTo(Self)[Links(u)])
        /\ UpTo(Self)[Links(u) + 1] \subseteq UpTo(Self)[Links(w)]
    BY <1>2, <2>1, <2>4, WalksUnfold, WalksGrow
  <2> QED
    BY <2>3, <2>5
<1> QED
  BY <1>3, <1>4

\* The next hop of a route is a neighbour, and the route is its link and a
\* walk from there.
Leads(v) ==
  LET hop == table[v].hop
  IN  /\ hop \in Node /\ read[Self][hop] # NoEdge
      /\ read[Self][hop] <= TableCost(v)
      /\ <<v, TableCost(v) - read[Self][hop]>> \in UpTo(hop)[Links(v) - 1]

\* Every route leads by its next hop.
LEMMA RouteLeads ==
  ASSUME HasRoutes, NEW v \in Node \ {Self}, TableCost(v) # Infinite
  PROVE  Leads(v)
<1> DEFINE Bad == {w \in Node : w # Self /\ TableCost(w) # Infinite /\ ~Leads(w)}
<1> SUFFICES ASSUME Bad # {} PROVE FALSE
  OBVIOUS
<1>1. PICK w \in Bad : \A u \in Bad : ~(TableCost(u) < TableCost(w))
  <2>1. Bad \in SUBSET Node
    OBVIOUS
  <2> HIDE DEF Bad
  <2> QED
    BY <2>1, NearestBad
<1>2. PICK u \in Node :
        /\ read[u][w] # NoEdge
        /\ TableCost(w) = TableCost(u) + read[u][w]
        /\ table[w].hop = IF u = Self THEN w ELSE table[u].hop
        /\ TableCost(u) < TableCost(w) /\ TableCost(u) # Infinite
        /\ Links(u) \in Nat /\ Links(u) + 1 <= Links(w)
        /\ Links(w) \in 0 .. N - 1
  BY <1>1, Before
<1>3. N \in Nat \ {0} /\ w \in Node
      /\ TableCost(u) \in Nat /\ TableCost(w) \in Nat /\ read[u][w] \in Nat
  BY <1>2, CostTypes DEF HasRoutes
<1> DEFINE hop == table[w].hop
<1>4. CASE u = Self
  <2>1. hop = w /\ TableCost(u) = 0
    BY <1>2, <1>4 DEF HasRoutes, RoutesBalance, TableCost
  <2>2. TableCost(w) = read[Self][w]
    BY <1>2, <1>3, <1>4, <2>1
  <2>3. <<w, 0>> \in UpTo(w)[0] /\ 0 \in 0 .. N - 1
        /\ Links(w) - 1 \in 0 .. N - 1 /\ 0 <= Links(w) - 1
    BY <1>2, <1>3, WalksUnfold
  <2>4. UpTo(w)[0] \subseteq UpTo(w)[Links(w) - 1]
    BY <2>3, WalksGrow
  <2>5. TableCost(w) - read[Self][w] = 0 /\ read[Self][w] <= TableCost(w)
    BY <1>3, <2>2
  <2>6. <<w, TableCost(w) - read[Self][w]>> \in UpTo(w)[Links(w) - 1]
    BY <2>3, <2>4, <2>5
  <2>7. Leads(w)
    BY <1>2, <1>3, <1>4, <2>1, <2>5, <2>6 DEF Leads
  <2> QED
    BY <1>1, <2>7
<1>5. CASE u # Self
  <2>1. Leads(u) /\ hop = table[u].hop
    BY <1>1, <1>2, <1>5
  <2> HIDE DEF hop
  <2> DEFINE r == read[Self][hop]
  <2>2. /\ hop \in Node /\ r # NoEdge /\ r <= TableCost(u)
        /\ <<u, TableCost(u) - r>> \in UpTo(hop)[Links(u) - 1]
    BY <2>1 DEF Leads
  <2>3. r \in Nat
    BY <2>2, CostTypes, SelfAssumption DEF HasRoutes
  <2> HIDE DEF r
  <2>4. Links(u) # 0
    <3>1. TableCost(Self) < TableCost(u)
      <4>1. TableCost(Self) = 0
        BY DEF HasRoutes, RoutesBalance, TableCost
      <4>2. \E t \in Node : TableCost(t) < TableCost(u) /\ TableCost(t) \in Nat
        <5>1. PICK t \in Node : TableCost(t) < TableCost(u)
          BY <1>2, <1>5, Before
        <5> QED
          BY <5>1, CostTypes DEF HasRoutes
      <4> QED
        BY <1>3, <4>1, <4>2
    <3>2. Links(Self) + 1 <= Links(u) /\ Links(Self) \in 0 .. N - 1
      BY <3>1, LinksGrow, SelfAssumption
    <3> QED
      BY <1>2, <1>3, <3>2
  <2>5. /\ Links(u) - 1 \in 0 .. N - 2 /\ (Links(u) - 1) + 1 = Links(u)
        /\ Links(u) \in 0 .. N - 1 /\ Links(w) - 1 \in 0 .. N - 1
        /\ Links(u) <= Links(w) - 1
    BY <1>2, <1>3, <2>4
  <2>6. <<w, TableCost(u) - r + read[u][w]>>
          \in Further(UpTo(hop)[Links(u) - 1])
    BY <1>2, <1>3, <2>2, FurtherLink
  <2>7. Further(UpTo(hop)[Links(u) - 1]) = UpTo(hop)[Links(u)]
    <3>1. UpTo(hop)[(Links(u) - 1) + 1] = Further(UpTo(hop)[Links(u) - 1])
      BY <2>5, WalksUnfold
    <3> QED
      BY <2>5, <3>1
  <2>8. UpTo(hop)[Links(u)] \subseteq UpTo(hop)[Links(w) - 1]
    BY <2>5, WalksGrow
  <2>9. TableCost(u) - r + read[u][w] = TableCost(w) - r /\ r <= TableCost(w)
    BY <1>2, <1>3, <2>2, <2>3
  <2>10. <<w, TableCost(w) - r>> \in UpTo(hop)[Links(w) - 1]
    BY <2>6, <2>7, <2>8, <2>9
  <2>11. Leads(w)
    BY <2>2, <2>9, <2>10 DEF Leads, hop, r
  <2> QED
    BY <1>1, <2>11
<1> QED
  BY <1>4, <1>5

\* The least cost of the walks from a to v.
LEMMA DistIs ==
  ASSUME NEW a, NEW v \in Node, NEW m \in Nat, m <= Infinite,
         m = Infinite \/ <<v, m>> \in Walks(a),
         \A w \in Walks(a) : w[1] = v => w[2] \in Nat /\ m <= w[2]
  PROVE  Dist(a)[v] = m
<1> DEFINE costs == {Infinite} \cup {w[2] : w \in {x \in Walks(a) : x[1] = v}}
<1>1. Dist(a)[v] = CHOOSE d \in costs : \A e \in costs : d <= e
  BY DEF Dist
<1>2. m \in costs
  <2>1. CASE m = Infinite
    BY <2>1
  <2>2. CASE <<v, m>> \in Walks(a)
    <3> DEFINE x == <<v, m>>
    <3>1. x \in Walks(a) /\ x[1] = v /\ x[2] = m
      BY <2>2
    <3> HIDE DEF x
    <3> QED
      BY <3>1
  <2> QED
    BY <2>1, <2>2
<1>3. \A e \in costs : e \in Nat /\ m <= e
  BY CostAssumption
<1> HIDE DEF costs
<1>4. \A d \in costs : (\A e \in costs : d <= e) => d = m
  BY <1>2, <1>3
<1> QED
  BY <1>1, <1>2, <1>3, <1>4

\* A table with balanced costs has the costs of shortest walks.
LEMMA CostsAreDistances ==
  ASSUME HasRoutes
  PROVE  \A v \in Node : Dist(Self)[v] = TableCost(v)
<1> SUFFICES ASSUME NEW v \in Node PROVE Dist(Self)[v] = TableCost(v)
  OBVIOUS
<1>1. TableCost(v) \in Nat /\ TableCost(v) <= Infinite /\ Self \in Node
      /\ N \in Nat \ {0}
  BY CostTypes DEF HasRoutes
<1>2. ASSUME NEW w \in Walks(Self), w[1] = v
      PROVE  w[2] \in Nat /\ TableCost(v) <= w[2]
  <2>1. NotCheaper(Self, w)
    BY <1>1, NoWalkIsCheaper
  <2>2. TableCost(Self) = 0
    BY DEF HasRoutes, RoutesBalance, TableCost
  <2>3. w[2] \in Nat /\ TableCost(v) <= 0 + w[2]
    BY <1>2, <2>1, <2>2 DEF NotCheaper
  <2> QED
    BY <2>3
<1>3. ASSUME TableCost(v) # Infinite
      PROVE  <<v, TableCost(v)>> \in Walks(Self)
  <2>1. <<v, TableCost(v)>> \in UpTo(Self)[Links(v)]
    BY <1>3, RouteIsWalk
  <2>2. Links(v) \in 0 .. N - 1 /\ N - 1 \in 0 .. N - 1 /\ Links(v) <= N - 1
    BY <1>1, LinksGrow
  <2>3. UpTo(Self)[Links(v)] \subseteq UpTo(Self)[N - 1]
    BY <2>2, WalksGrow
  <2> QED
    BY <2>1, <2>3, WalksUnfold
<1> QED
  BY <1>1, <1>2, <1>3, DistIs

\* The same for the next hop of a route: what is left of the cost is the
\* distance from there.
LEMMA HopDistance ==
  ASSUME HasRoutes, NEW v \in Node \ {Self}, TableCost(v) # Infinite
  PROVE  LET hop == table[v].hop
         IN  /\ hop \in Node /\ read[Self][hop] # NoEdge
             /\ read[Self][hop] + Dist(hop)[v] = TableCost(v)
<1> DEFINE hop == table[v].hop
           m == TableCost(v) - read[Self][hop]
<1>1. /\ hop \in Node /\ read[Self][hop] # NoEdge
      /\ read[Self][hop] <= TableCost(v)
      /\ <<v, m>> \in UpTo(hop)[Links(v) - 1]
  BY RouteLeads DEF Leads
<1> HIDE DEF hop
<1>2. /\ TableCost(v) \in Nat /\ TableCost(v) <= Infinite /\ Self \in Node
      /\ N \in Nat \ {0} /\ read[Self][hop] \in Nat /\ Infinite \in Nat
      /\ TableCost(hop) \in Nat
  BY <1>1, CostTypes DEF HasRoutes
<1>3. m \in Nat /\ m <= Infinite /\ read[Self][hop] + m = TableCost(v)
  BY <1>1, <1>2
<1>4. <<v, m>> \in Walks(hop)
  <2>1. PICK u \in Node : Links(u) \in Nat /\ Links(u) + 1 <= Links(v)
    BY Before
  <2>2. /\ Links(v) - 1 \in 0 .. N - 1 /\ N - 1 \in 0 .. N - 1
        /\ Links(v) - 1 <= N - 1
    <3>1. Links(v) \in 0 .. N - 1
      BY LinksGrow
    <3> QED
      BY <1>2, <2>1, <3>1
  <2>3. UpTo(hop)[Links(v) - 1] \subseteq UpTo(hop)[N - 1]
    BY <2>2, WalksGrow
  <2> QED
    BY <1>1, <2>3, WalksUnfold
<1>5. TableCost(hop) <= read[Self][hop]
  <2>1. TableCost(Self) = 0
    BY DEF HasRoutes, RoutesBalance, TableCost
  <2>2. TableCost(hop) <= TableCost(Self) + read[Self][hop]
    BY <1>1, <1>2 DEF HasRoutes, RoutesBalance, TableCost
  <2> QED
    BY <1>2, <2>1, <2>2
<1>6. ASSUME NEW w \in Walks(hop), w[1] = v
      PROVE  w[2] \in Nat /\ m <= w[2]
  <2>1. NotCheaper(hop, w)
    BY <1>1, NoWalkIsCheaper
  <2>2. w[2] \in Nat /\ TableCost(v) <= TableCost(hop) + w[2]
    BY <1>6, <2>1 DEF NotCheaper
  <2> QED
    BY <1>2, <1>5, <2>2
<1> HIDE DEF m
<1>7. Dist(hop)[v] = m
  BY <1>3, <1>4, <1>6, DistIs
<1> QED
  BY <1>1, <1>3, <1>7 DEF hop

-----------------------------------------------------------------------------
(* The theorems                                                            *)

\* The invariant holds for ever.
THEOREM Invariance == Spec => []IInv
<1>1. IInv /\ [Next]_vars => IInv'
  <2> SUFFICES ASSUME IInv, [Next]_vars PROVE IInv'
    OBVIOUS
  <2>1. ASSUME NEW i \in Node, NEW j \in Node, NEW c \in Cost \cup {NoEdge},
               GotLSA(i, j, c)
        PROVE  IInv'
    BY <2>1, EdgeChangeIInv
  <2>2. ASSUME NEW j \in Node, NEW c \in Cost \cup {NoEdge}, NeighborChange(j, c)
        PROVE  IInv'
    BY <2>2, SelfAssumption, EdgeChangeIInv
  <2>3. CASE DijstraTimerFired
    BY <2>3, TimerIInv
  <2>4. CASE Start
    BY <2>4, StartIInv
  <2>5. CASE Round
    BY <2>5, RoundIInv
  <2>6. CASE Finish
    BY <2>6, FinishIInv
  <2>7. CASE UNCHANGED vars
    <3>1. TypeOK'
      BY <2>7 DEF IInv, TypeOK, vars, taskVars
    <3>2. RoutesBalance' /\ NewsIsDue' /\ BootTimer'
      BY <2>7 DEF IInv, RoutesBalance, NewsIsDue, BootTimer, KnowsOthers, vars, taskVars
    <3>3. LoopInv'
      <4>1. Discovered' = Discovered
        BY <2>7 DEF Discovered, vars, taskVars
      <4> QED
        BY <2>7, <4>1 DEF IInv, LoopInv, Settled, Extends, FirstHop, vars, taskVars
    <3> QED
      BY <3>1, <3>2, <3>3 DEF IInv
  <2> QED
    BY <2>1, <2>2, <2>3, <2>4, <2>5, <2>6, <2>7 DEF Next
<1> QED
  BY <1>1, InitIInv, PTL DEF Spec

\* The variables of LinkStateRoutingP keep their types: no distance reaches
\* INFINITE (CostAssumption), and the loop leaves no array.
THEOREM TypeCorrect == Spec => []TypeOK
<1>1. IInv => TypeOK
  BY DEF IInv
<1> QED
  BY <1>1, Invariance, PTL

\* Whenever there is a table its costs balance, and its next hops are those of
\* the routes they extend, for every graph and every series of changes.
THEOREM TablesBalance == Spec => []RoutesBalance
<1>1. IInv => RoutesBalance
  BY DEF IInv
<1> QED
  BY <1>1, Invariance, PTL

\* No advertisement of another node is missed: it is in the table, or the task
\* is due.
THEOREM NothingMissed == Spec => []NewsIsDue
<1>1. IInv => NewsIsDue
  BY DEF IInv
<1> QED
  BY <1>1, Invariance, PTL

\* The costs of every table are those of the shortest walks in the graph that
\* the task read, INFINITE where there is none: for any number of nodes, any
\* costs and any series of changes.
THEOREM TablesAreShortest == Spec => []RoutesAreShortest
<1>1. IInv => RoutesAreShortest
  <2> SUFFICES ASSUME IInv, hasTabel, task # "running"
               PROVE  [v \in Node |-> table[v].cost] = Dist(Self)
    BY DEF RoutesAreShortest
  <2>1. HasRoutes
    BY DEF IInv, HasRoutes
  <2>2. \A v \in Node : Dist(Self)[v] = table[v].cost
    BY <2>1, CostsAreDistances DEF TableCost
  <2>3. Dist(Self) = [v \in Node |-> Dist(Self)[v]]
    BY DEF Dist
  <2> QED
    BY <2>2, <2>3
<1> QED
  BY <1>1, Invariance, PTL

\* The next hop of every route is a neighbour from which the rest of the way is
\* as much shorter as its link costs: what each node hands on comes nearer,
\* whatever ties the nodes break differently.
THEOREM HopsLead == Spec => []NextHopsLead
<1>1. IInv => NextHopsLead
  <2> DEFINE dist == [n \in Node |-> Dist(n)]
  <2> SUFFICES ASSUME IInv, hasTabel, task # "running",
                      NEW v \in Node \ {Self}, table[v].cost # Infinite
               PROVE  LET hop == table[v].hop
                      IN  /\ hop \in Node /\ read[Self][hop] # NoEdge
                          /\ read[Self][hop] + dist[hop][v] = dist[Self][v]
    BY DEF NextHopsLead
  <2>1. HasRoutes
    BY DEF IInv, HasRoutes
  <2>2. TableCost(v) # Infinite /\ Self \in Node
    BY SelfAssumption DEF TableCost
  <2>3. LET hop == table[v].hop
        IN  /\ hop \in Node /\ read[Self][hop] # NoEdge
            /\ read[Self][hop] + Dist(hop)[v] = TableCost(v)
    BY <2>1, <2>2, HopDistance
  <2>4. Dist(Self)[v] = TableCost(v)
    BY <2>1, CostsAreDistances
  <2> QED
    BY <2>2, <2>3, <2>4
<1> QED
  BY <1>1, Invariance, PTL
=============================================================================
