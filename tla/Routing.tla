------------------------------- MODULE Routing -------------------------------
(***************************************************************************)
(* LinkStateRoutingP.nc of one node, on a graph that every node has         *)
(* advertised: the changes of the graph (GraphP.nc) by its neighbours and   *)
(* by the advertisements of others, DijstraTimer, and the task DijstraTask, *)
(* round by round, with the table it fills.                                 *)
(*                                                                         *)
(* The task is one TinyOS task: no event comes while it runs, but events    *)
(* come between the firing of the timer and the task.  Nodes are numbered   *)
(* from 1 and each has sent its advertisement, so that num_nodes is N; the  *)
(* code indexes its arrays by node on that condition.                       *)
(***************************************************************************)
EXTENDS Naturals

CONSTANTS
  N,            \* number of nodes, num_nodes
  Self,         \* TOS_NODE_ID
  MaxCost,      \* the highest cost of a link
  Infinite,     \* INFINITE (65535): a cost no path has
  MaxChange     \* changes of the graph in a behaviour

Node == 1 .. N
Cost == 1 .. MaxCost
NoEdge == 0     \* 0 or 65535 in the adjacency matrix: both mean no edge

ASSUME SelfAssumption == N \in Nat /\ Self \in Node
ASSUME CostAssumption == /\ MaxCost \in Nat /\ Infinite \in Nat
                         /\ N * MaxCost < Infinite
ASSUME ChangeAssumption == MaxChange \in Nat

Link == {l \in SUBSET Node : \E i, j \in Node : i # j /\ l = {i, j}}
Graphs == {[i \in Node |-> [j \in Node |->
              IF i = j THEN NoEdge ELSE links[{i, j}]]] :
             links \in [Link -> Cost \cup {NoEdge}]}
Route == [hop : Node \cup {0}, cost : 0 .. Infinite]

VARIABLES
  graph,        \* adjacency_matrix
  timer,        \* DijstraTimer runs
  task,         \* DijstraTask is not posted ("idle"), posted, or running
  counter, lowest, distance, updatedBy, discovered,     \* of the task
  table,        \* RoutingTable
  hasTabel,
  read,         \* history: the graph the task read when it last ran
  changes

taskVars == <<counter, lowest, distance, updatedBy, discovered>>
vars == <<graph, timer, task, taskVars, table, hasTabel, read, changes>>

\* the advertisements are in, and the timer of onBoot runs
Init ==
  /\ graph \in Graphs
  /\ timer = TRUE /\ task = "idle"
  /\ counter = 0 /\ lowest = Self
  /\ distance = [n \in Node |-> Infinite]
  /\ updatedBy = [n \in Node |-> 0]
  /\ discovered = [n \in Node |-> FALSE]
  /\ table = [n \in Node |-> [hop |-> 0, cost |-> 0]]   \* not filled yet
  /\ hasTabel = FALSE
  /\ read = graph
  /\ changes = 0

\* Graph.insert or Graph.removeEdge: both directions
EdgeChange(i, j, c) ==
  /\ task # "running" /\ changes < MaxChange
  /\ i # j
  /\ graph' = [graph EXCEPT ![i][j] = c, ![j][i] = c]
  /\ changes' = changes + 1

\* determineRunDijstra: once there is a table the timer starts, again if it
\* runs.  The variant only stops the one that runs.
DetermineRunDijstra_Stops == timer' = IF hasTabel THEN ~timer ELSE timer
DetermineRunDijstra == timer' = (timer \/ hasTabel)

\* gotLSA of node i, with a new cost of a link of i or its end.  An INIT with
\* several links comes before there is a table.
GotLSA(i, j, c) ==
  /\ i # Self
  /\ EdgeChange(i, j, c)
  /\ DetermineRunDijstra
  /\ UNCHANGED <<task, taskVars, table, hasTabel, read>>

\* neighborChange, for a link of the node itself: it is advertised, and the
\* timer is left as it is
NeighborChange(j, c) ==
  /\ EdgeChange(Self, j, c)
  /\ UNCHANGED <<timer, task, taskVars, table, hasTabel, read>>

\* DijstraTimer.fired
DijstraTimerFired ==
  /\ timer /\ task # "running"
  /\ timer' = FALSE
  /\ task' = "posted"
  /\ UNCHANGED <<graph, taskVars, table, hasTabel, read, changes>>

\* the task up to its loop.  Arrays of the task start unset; updatedBy is read
\* only where distance was lowered, and 0 stands for the unset value.
Start ==
  /\ task = "posted"
  /\ task' = "running"
  /\ counter' = N
  /\ lowest' = Self
  /\ distance' = [n \in Node |-> IF n = Self THEN 0 ELSE Infinite]
  /\ updatedBy' = [n \in Node |-> IF n = Self THEN Self ELSE 0]
  /\ discovered' = [n \in Node |-> n = Self]
  /\ table' = [table EXCEPT ![Self] = [hop |-> Self, cost |-> 0]]
  /\ read' = graph
  /\ UNCHANGED <<graph, timer, hasTabel, changes>>

\* the neighbours of u that the loop still looks at
Fringe(u) == {v \in Node : graph[u][v] # NoEdge /\ ~discovered[v]}

\* the path to v through u
Through(u, v) == distance[u] + graph[u][v]

\* whether v is now reached through u: it is nearer, or as near and the old
\* first hop has an index (its number less one) not below that of u
Improves(u, v) ==
  \/ Through(u, v) < distance[v]
  \/ Through(u, v) = distance[v] /\ updatedBy[v] >= u

\* the first hop to v through u; the variant takes the node before v
FirstHop_Last(u, v) == u
FirstHop(u, v) == IF u = Self THEN v ELSE updatedBy[u]

\* the undiscovered node at the least finite distance, the first one of them;
\* when none is left, the last one again.  The variant takes the first one
\* that was reached.
Nearest_First(dist) ==
  LET reached == {v \in Node : ~discovered[v] /\ dist[v] # Infinite}
  IN  IF reached = {} THEN lowest
      ELSE CHOOSE v \in reached : \A w \in reached : v <= w
Nearest(dist) ==
  LET reached == {v \in Node : ~discovered[v] /\ dist[v] # Infinite}
  IN  IF reached = {} THEN lowest
      ELSE CHOOSE v \in reached :
             \A w \in reached : \/ dist[v] < dist[w]
                                \/ dist[v] = dist[w] /\ v <= w

\* the distances and first hops when the neighbours of the last node discovered
\* have been looked at
Nearer == {v \in Fringe(lowest) : Improves(lowest, v)}
Relaxed ==
  [v \in Node |-> IF v \in Nearer THEN Through(lowest, v) ELSE distance[v]]
RelaxedBy ==
  [v \in Node |-> IF v \in Nearer THEN FirstHop(lowest, v) ELSE updatedBy[v]]

\* a round of the loop: relax, and discover the next node
Round ==
  /\ task = "running" /\ counter > 0
  /\ LET next == Nearest(Relaxed)
     IN  /\ lowest' = next
         /\ discovered' = [discovered EXCEPT ![next] = TRUE]
         /\ table' = [table EXCEPT
              ![next] = [hop |-> RelaxedBy[next], cost |-> Relaxed[next]]]
  /\ distance' = Relaxed
  /\ updatedBy' = RelaxedBy
  /\ counter' = counter - 1
  /\ UNCHANGED <<graph, timer, task, hasTabel, read, changes>>

\* what stays unreachable loses the route it may have had; the variant keeps it
Unreached_Kept(n) == table[n]
Unreached(n) == [hop |-> 0, cost |-> Infinite]

\* the loop behind the rounds, and the end of the task
Finish ==
  /\ task = "running" /\ counter = 0
  /\ table' = [n \in Node |-> IF discovered[n] THEN table[n] ELSE Unreached(n)]
  /\ hasTabel' = TRUE
  /\ task' = "idle"
  /\ UNCHANGED <<graph, timer, taskVars, read, changes>>

Next ==
  \/ \E i, j \in Node : \E c \in Cost \cup {NoEdge} : GotLSA(i, j, c)
  \/ \E j \in Node : \E c \in Cost \cup {NoEdge} : NeighborChange(j, c)
  \/ DijstraTimerFired
  \/ Start
  \/ Round
  \/ Finish

Spec == Init /\ [][Next]_vars

\* Timers expire, and a posted task runs to its end.
FairSpec ==
  /\ Spec
  /\ WF_vars(DijstraTimerFired)
  /\ WF_vars(Start) /\ WF_vars(Round) /\ WF_vars(Finish)

-----------------------------------------------------------------------------
(* Properties                                                              *)

\* The types of the variables.
TypeOK ==
  /\ graph \in [Node -> [Node -> Cost \cup {NoEdge}]]
  /\ \A i, j \in Node : graph[i][j] = graph[j][i] /\ graph[i][i] = NoEdge
  /\ timer \in BOOLEAN /\ task \in {"idle", "posted", "running"}
  /\ counter \in 0 .. N /\ lowest \in Node
  /\ distance \in [Node -> 0 .. Infinite]
  /\ updatedBy \in [Node -> Node \cup {0}]
  /\ discovered \in [Node -> BOOLEAN]
  /\ table \in [Node -> Route]
  /\ hasTabel \in BOOLEAN
  /\ read \in [Node -> [Node -> Cost \cup {NoEdge}]]
  /\ changes \in 0 .. MaxChange

\* The ends and costs of the walks from u of fewer than N links, in the graph
\* the task read, and the least cost to every node: the reference the task is
\* compared with.
Walks(u) ==
  LET upTo[k \in 0 .. N - 1] ==
        IF k = 0 THEN {<<u, 0>>}
        ELSE upTo[k - 1] \cup
             {<<e[2], e[1][2] + read[e[1][1]][e[2]]>> :
                e \in {f \in upTo[k - 1] \X Node : read[f[1][1]][f[2]] # NoEdge}}
  IN  upTo[N - 1]
Dist(u) ==
  LET walks == Walks(u)
      costs(v) == {Infinite} \cup {w[2] : w \in {x \in walks : x[1] = v}}
  IN  [v \in Node |-> CHOOSE d \in costs(v) : \A e \in costs(v) : d <= e]

\* Once there is a table it has the least cost to every node in the graph that
\* was read last, and no route which that graph had lost since an earlier run.
RoutesAreShortest ==
  hasTabel /\ task # "running" =>
    [v \in Node |-> table[v].cost] = Dist(Self)

\* The costs of the table balance: no link of the graph that was read would
\* make a route shorter, and every route is that of another node and a link
\* from there, by the same next hop.  Only the least costs balance.
RoutesBalance ==
  hasTabel /\ task # "running" =>
    /\ table[Self].cost = 0
    /\ \A u, v \in Node :
         read[u][v] # NoEdge => table[v].cost <= table[u].cost + read[u][v]
    /\ \A v \in Node \ {Self} :
         table[v].cost # Infinite =>
           \E u \in Node :
             /\ read[u][v] # NoEdge
             /\ table[v].cost = table[u].cost + read[u][v]
             /\ table[v].hop = IF u = Self THEN v ELSE table[u].hop

\* The next hop is a neighbour that lies on a shortest path: handed on by
\* nodes with the same graph, a packet comes nearer at every hop and never
\* goes in a circle, whatever ties the nodes break differently.
NextHopsLead ==
  hasTabel /\ task # "running" =>
    LET dist == [n \in Node |-> Dist(n)]
    IN  \A v \in {w \in Node \ {Self} : table[w].cost # Infinite} :
          LET hop == table[v].hop
          IN  /\ hop \in Node /\ read[Self][hop] # NoEdge
              /\ read[Self][hop] + dist[hop][v] = dist[Self][v]

\* the links of other nodes are those the table was made from
KnowsOthers ==
  \A i, j \in Node \ {Self} : read[i][j] = graph[i][j]

\* What others have advertised is in the table, or the task is due that will
\* read it: an advertisement between the firing of the timer and the task, or
\* before the first table, is not missed.
NewsIsDue == KnowsOthers \/ timer \/ task = "posted"

\* The table comes to agree with what others advertise, and stays so.
TableSettles == <>[](hasTabel /\ task = "idle" /\ KnowsOthers)

\* "if there is a change in the Graph", as LinkStateRoutingP.nc:46 has it: the
\* same of every link.  A change of the node's own links starts no timer.
EveryChangeIsDue == graph = read \/ timer \/ task = "posted"
=============================================================================
