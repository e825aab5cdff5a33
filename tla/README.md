# A verification project for the TinyOS network stack of CSE 160

The repository is a network stack in nesC for TinyOS motes, run in the TOSSIM
simulator: neighbour discovery, flooding of link state advertisements, shortest
path routing, IP with fragmentation, a transport protocol in the manner of TCP,
and a chat application with one server.  This directory models it in TLA+, checks
the models with TLC and proves theorems about some of them with TLAPS.

`PROJECT.json` lists the components, the runs, the source lines that every
definition models, the hazards of the code and the properties aimed at them, the
disagreements between code and documentation, and the theorems.

## The system

Every node runs the same components.  TinyOS runs an event handler or a task to
its end before it starts another, `post` of a task that is pending has no effect,
and `startOneShot` restarts a timer.  So the interleavings that matter are those of
whole handlers, tasks and timers of all nodes, and of the packets between them.

| component | state | operations | used by | correct when |
|---|---|---|---|---|
| `SimpleSendP` | pool and queue of 20 buffers, `busy`, the message `pkt`, a timer, a task | `send`, `sendTimer.fired`, `sendBufferTask`, `sendDone` | everything above | a bounded FIFO that never stalls; the message is not overwritten while the radio sends it |
| `NeighborDiscoveryP` | a table of sequence numbers and link qualities, a timer | `updateTable`, `discover`, `gotNDPkt` | Flooding, routing | the table follows the links, and each change is signalled |
| `FloodingP` | `local_seq`, `seq_table`, `flooding_table` | `flood`, `gotFloodPkt` | routing | each advertisement is signalled once, in order, everywhere; floods die out |
| `LinkStateRoutingP`, `GraphP` | the graph, the routing table, two timers | `initShare`, `gotLSA`, `neighborChange`, `DijstraTask` | IP | graphs agree; routes are shortest and have no loops |
| `IPP` | sequence number, fragments that wait for others, a timer | `send`, `gotIpPkt`, `pendingTask` | Transport | a packet arrives whole, or not |
| `TransportP` | ten sockets, the queue of free descriptors, the table of peers, queues and timers that all sockets share | `initServer`, `initClientAndConnect`, `write`, `read`, `close`, `gotTCP`, four timers, two tasks | the application | connections open, deliver what was written in order, and close at both ends; no descriptor is lost |
| `AppP` | the socket of a client, the users of the server | `connectDone`, `accepted`, `closeConnect`, `hasData`, chat commands | the user | the server knows whom it is connected to |
| `HashmapC`, `ListC` | arrays | insert, remove, push, pop | all | behave as a map and a bounded list |
| `Node`, `CommandHandlerP`, `PacketHandlerP` | none | dispatch | | |

What is hard in it: timers and queues shared by all sockets; retries that race
the answers they replace; packets lost at a full pool or in the air; sequence
numbers of both ends that must stay in step; descriptors that are reused while
peers and the application still remember them; a ring buffer with 8-bit indices;
floods that overtake and meet each other.  `PROJECT.json` lists each hazard at its
line.

## The modules

| module | models | checked by | proofs |
|---|---|---|---|
| `TransportSession` | connections: `TransportP` without long data, and the part of `AppP` that shares its state | `session_single`, `session_two_clients`, `session_backlog` | `TransportSession_proofs` |
| `TcpStream` | the data of one connection: the ring buffer, segments, go-back-N, `update`, `receiveDATA` | `stream`, `stream_laps`, `stream_backlog` | `TcpStream_proofs` |
| `Flooding` | `FloodingP` | `flooding` | `Flooding_proofs` |
| `PacketQueue`, `SimpleSend` | the abstract queue, and `SimpleSendP`, which implements it | `simple_send` | `SimpleSend_proofs` |
| `Routing` | `LinkStateRoutingP` and `GraphP` of one node: changes of the graph, the timer, `DijstraTask`, the routing table | `routing` | `Routing_proofs` |
| `NeighborDiscovery` | `NeighborDiscoveryP`, and what `initShare`, `neighborChange` and `gotLSA` of `LinkStateRoutingP` do to the node's own row of the graph | `neighbor_discovery` | `NeighborDiscovery_proofs` |
| `IP` | `IPP`: numbers, fragments, and the buffers of one destination | `ip` | `IP_proofs` |
| `Dictionary`, `HashTable` | the abstract map, and `HashmapC`, which implements it for two of its three users | `hash` | `HashTable_proofs` |

Each `MC*` module extends its specification for TLC and each `MC*.cfg` is a run.
An operator with a suffix (`Forget_ServerKeeps`, `IsOld_Strict`) is the operator
before the underscore with a plausible mistake; no behaviour uses it.  Each one
is used in place of the right one to see that a property notices.

### TransportSession

A socket is a record with the fields of `socket_store_t` that the control depends
on, and `socketInUse` and `reSend`, which the code keeps in arrays of their own.
`fdQueue`, `socketTable`, `reSendQueue`, `closeQueue`, `receiveQueue` and the timers
are those of `TransportP`; `localFd` and `users` are those of `AppP`.  Each handler
is one action, and `receiveACK` and `receiveFIN` are split by the case of their
`switch`.  Signals to the application run inside the handler, as in nesC:
`connectDone` and the `write` it makes are part of `ReceiveSYNACK`, `accepted` of
`AckOfSYN`, `closeConnect` of `CloseTask` and `AckOfLastFIN`.

A node has a queue of packets to every other: the path of IP between two nodes
keeps the order (`SimpleSend` is a FIFO on every hop, routes do not change), and
a packet that finds it full is gone, as with a full pool.  `Lose` drops any packet
at the head.  Ports, windows and round trip times are left out: no guard reads
them.  The hello of the application is a number of positions of the ring that fits
in one segment, and what a client writes stays on the first lap of its ring: a line
that passes the end makes the type `WRAP`, for which `write`, `sendData` and `update` have
branches of their own.  `FirstLap` is that bound, a guard of `ReceiveSYNACK`; with draws of
up to 101 every first line meets it, and in the runs every line.  `TcpStream` has the wrap.  `get` of an absent key returns the first entry of the map, which
is 0 unless a key hashes there; the model returns 0.

The properties:

- `FdAccounting`: every descriptor is free, listening or owned by exactly one peer.
- `UsersMatchSockets`: the application of the server and the transport agree on
  who is connected and by which descriptor, through every reuse.
- `SequenceAgreement`: the counters that gate DATA and FIN agree at both ends.
- `TeardownOrder`, `CloseNeverUndone`: the two ends close in order, and no late or
  repeated packet takes a closing socket back.
- `RetransmissionArmed`, `TimersHaveWork`: what waits for an answer is in the queue
  and its timer runs; no timer or task finds an empty queue.
- `ListenerStays`: no connection takes the socket of the listener; `session_backlog` shows
  that one does.
- `Connects`, `HelloAcknowledged`, `Closes`: liveness, under `FairSpec`.

### TcpStream

One direction of one established connection.  A byte is the number of its place in
what the user wrote, so that what was read can be compared with what was written.
`B` is the size of the ring and a `uint8_t` has `2 * B` values, the proportion of 128
and 256.  `Segments` and `Payload` compute what `sendData` and `reSendData` put on the
network, including the copy that runs past the end of the buffer.  `WindowAgreement`
says that `lastAck` never passes what the receiver has, and that the next segment of
the window bears the number the receiver waits for; `RemainTracksWindow` that the
counter `remain` is 0 exactly when all that was sent is acknowledged.

### Flooding

`seq_table` and `local_seq` are as in the code; `got` records what `gotLSA` was
signalled.  `flooding_table` is filled and used up in one handler and so is no state
of the model.  The TTL is decremented and stops nothing in the code (the test on
it comes behind the test for old numbers), so it is left out, and `FloodsDieOut` says
that the duplicate check is enough.  A link keeps the order of its packets and loses
any of them; neighbours come and go.

### SimpleSend and PacketQueue

`PacketQueue` is what the other components are promised.  `SimpleSend` has the pool,
the buffers, the message the radio reads, the timer and the task; `IsPacketQueue` is
the refinement with the contents of the queued buffers for `waiting`.  The pool
being empty is the queue being full.

### Routing

The state is that of `LinkStateRoutingP` at one node, `Self`, whose number lies between
others so that ties fall both ways: the graph, `DijstraTimer`, whether `DijstraTask` is
posted, the arrays of the task, `RoutingTable` and `hasTabel`.  `GotLSA` is a change that
another node advertised, `NeighborChange` one of a link of the node itself.
`DijstraTask` is one task, and the model takes a step for each round of its loop so
that the loop can have an invariant; the graph does not change while it runs.

- `RoutesBalance`: no link would shorten a route, and every route is another one and a
  link.  This is the property that can be proved, and only the least costs have it.
- `RoutesAreShortest`: the same against a reference, `Dist`, the least cost over all walks.
- `NextHopsLead`: each hop lies on a shortest path, and every link costs something, so
  that forwarding has no loops among nodes that have the same graph.
- `TableSettles`: what others advertise comes to be in the table, whenever it arrives:
  before the first table, while the timer runs, or between its firing and the task.

`EveryChangeIsDue` is `TableSettles`' invariant for every link, as the comment at
`LinkStateRoutingP.nc:46` has it.  It does not hold: `neighborChange` (line 273) changes the
graph and starts no timer, so that a node keeps routing over a link of its own that
is gone until somebody else advertises something.

### NeighborDiscovery

Numbers of pings are kept as distances from `local_seq`, so that the state is finite
without a bound on rounds.  `DiscoverTimerFired`, `UpdateTable` and `Discover` are the timer
and its two tasks, in the order they are posted; `Reply` and `GotReply` are `gotNDPkt`;
`Ewma` is the integer arithmetic of the code, with its rounding.  `advertised` is the node's
own row of the graph.  Three things write it: `InitShare`, `Advertise` (what `neighborChange`
does with a signal) and `GotLSA`, an advertisement of the neighbour itself.  `insert` and
`removeEdge` write both directions of a link, so that a neighbour's drop takes the link
from this node's row while the neighbour stays in the table, and its `INIT` or
`LNIK_QUALITY_CHANGE` puts it back after this node dropped it.  Advertisements come over
other nodes, so that `GotLSA` may happen at any time.

- `DroppedOnlyWhenSilent`: a neighbour goes only after as many pings in a row without
  an answer as the code says, 7, less the rounds by which the last answer can be late.
- `RowFollowsTable`: the node's own steps keep the row behind the table.  A neighbour that is
  dropped after `initShare` leaves the row in the same step, and no step but an
  advertisement of the other end adds a link to an unknown neighbour or takes the link of
  one that stays known: the branch that signals INACTIVE and keeps the entry cannot be
  reached with the thresholds of the code.
- `CostsAreSound`: `getLinkCost` never divides by 0, and the costs of a path stay below
  `INFINITE`.
- `SilentIsForgotten`, `ReliableIsGood`: liveness.  A neighbour that answers no more leaves the
  table for good, and whenever it is in the table after `initShare` the row loses its link
  at some time later.  The row may get the link back from the neighbour's advertisements.

Row and table may differ for ever: `RowIsTable` states that they do not, and TLC finds
it violated (a neighbour found after `initShare` is signalled to nobody, one dropped before
`initShare` may have advertised the link, and `gotLSA` does not look at the table).  No text
promises it, so it is not among the findings.

The comments on the thresholds say when a neighbour is dropped and signalled, and the code
does otherwise.  Three properties state them; no run lists these, and TLC finds each one
violated by `Spec` when it is put into `MCNeighborDiscovery.cfg`:

- `PoorIsDropped`.  `NeighborDiscoveryP.nc:40` says "(link quality < poor_quality) is poor
  connection (will be dropped and signaled)", and line 42 "more than
  accepted_consecutive_lost and bellow poor_quality will result a neighbor drop".  The code
  looks at `poor_quality` only when the quality falls from good to poor in one round, which
  the average cannot do, and the call of `remove` there is commented out.
- `DroppedAfterDropValue`.  Line 43 says "with more than "drop_value" packets lost will cause a
  drop in neighbor in the table", and `drop_value` is 9.  The test is
  `local_seq - info.last_seq >= drop_value - 1`, and `local_seq` is the number of a ping that is
  still to be sent: the code drops after 7 unanswered pings, one of which may still be
  on its way.
- `ModerateIsSignalled`.  Line 39 says that a link between the two qualities "will be
  signaled".  A quality that falls to `good_quality`, 715, exactly is neither above nor
  below it, and the next step, to 643, is no fall from above.  The link then keeps its old cost.

### IP

A packet is its source and its place among the packets of that source; the number it
carries comes round after `MaxSeq`.  A fragment keeps the packet it belongs to, so that
what `gotTCP` is signalled can be compared with what was sent.  `Lose` and `Overtake`
stand for the nodes in between: full pools, lost frames, and routes that change between
two fragments.  `SendElsewhere` takes a number without a packet for this destination.

- `WholeUnlessContested`: what is signalled is one packet, whole, with its source and
  length, unless packets of one number were being put together at once (`contested`).
  The destination has one buffer for a number, whoever the source is, so that this
  condition cannot be dropped.
- `PendingIsWatched`: what waits has an entry in `TimeoutQueue`, although firings and
  packets that are complete take entries in another order than they were made.

Packets have at most two fragments, as all that `Transport` sends.  With three, the
second of a new packet can complete it by the `expected_length` of an old one.

### HashTable and Dictionary

`Dictionary` is a map with a list of its keys.  `HashTable` has the entries and the double
hashing of `HashmapC`, and `Use` says how its user calls it: `RoutingTable` is never removed
from, `SocketTable` inserts only keys that are absent, `NeighborTable` does as it likes.
`IsDictionary` is the refinement: what `contains`, `get` and `getKeys` tell changes as a map
would.  It holds for the first two.  For `NeighborTable` TLC finds a key that is inserted
a second time in front of itself, after an entry on its way was freed; a later removal
then brings the old value back.

The map is allowed to lose a key that does not fit, as the code does.  That happens
before the table is full: `RoutingTable` has 30 entries, the second hash may share a factor with
30, and the tries of a key then reach as few as three of them.  In the 23 nodes of
`topo/tuna-melt.topo` with links of equal cost, node 9 finds no entry for node 16.

## The runs

| run | instance | shows |
|---|---|---|
| `session_single` | one client and one server, 3 descriptors, 2 losses, 2 early retransmissions, 2 connections one after the other | all safety and liveness of a connection, and of its successor |
| `session_two_clients` | two clients, 3 descriptors, one loss | the application of the server knows its sockets |
| `session_backlog` | two clients, 2 descriptors | finding: the listener is lost |
| `stream` | ring of 16, segments of 3, lines of 2 and 7, 2 losses, 1 early retransmission | delivery in order on the first lap |
| `stream_laps` | as above, but the ring wraps | finding: old bytes are sent again |
| `stream_backlog` | no loss, a line written before the last is acknowledged | finding: it is never sent |
| `flooding` | triangle with a fourth node, 2 floods, 1 loss, 1 change | once, in order, everywhere |
| `simple_send` | 3 buffers, 6 packets, 2 refusals | refinement and progress |
| `routing` | all graphs of 4 nodes, 2 costs, 2 changes at any time | shortest routes, next hops, and a table that keeps up |
| `neighbor_discovery` | one neighbour, the constants of the code, answers up to 2 rounds late, any losses, any advertisements of the neighbour | the table and the costs follow what is heard, the node's row of the graph follows the table |
| `ip` | two sources, 3 packets of 1 or 2 fragments, 2 numbers, 2 losses, 1 overtaking | whole or not at all |
| `hash` | 6 entries, 5 keys that collide, used as `SocketTable` | refinement of the map |

The three runs that fail do so on purpose: the property is what a comment or a
report of the code says, the counterexample is what the code does.  `findings` quotes
the lines.

### Why the bounds are enough

- *Losses and early timers.*  Two losses lose a packet and the retransmission of it,
  or two different packets of one exchange; two early timers put two copies of one
  packet on the way.  A loss in `Lose` happens at any point of any exchange.
- *Connections.*  `MaxDials = 2` makes a descriptor and a peer come back, which is
  where stale entries of queues and tables would matter.  With three descriptors the
  order of the free list changes; with two the list runs empty.
- *The ring.*  16 positions and segments of 3 give lines of one and three segments
  with a short one at the end; `Start` leaves room for all of them before the end of the
  ring in `stream`, and none in `stream_laps`.  The proofs cover all other sizes of the first lap.
  In the sessions a client draws 5 and its lines have 2 bytes, far from the end of the ring.
- *Flooding.*  The triangle has two ways to every node, so that copies meet, and the
  fourth node is reached over a bridge only.  The proofs cover all other networks.
- *SimpleSend.*  Six packets fill and empty three buffers twice.
- *Routing.*  Four nodes have paths of three links that are cheaper than one, equal
  paths with different first hops, and nodes out of reach.  Two changes come before,
  between and after two runs of the task.  The proofs cover all other sizes.
- *NeighborDiscovery.*  No event is counted: every history of one neighbour is explored.
  Neighbours do not touch each other's entries.  `MaxLate = 2` lets an answer come after
  that of the next ping.
- *IP.*  With two numbers and three packets a number comes back while fragments of its
  first packet are still about; two losses leave two packets incomplete.  The proofs
  cover all other bounds.
- *HashTable.*  Two keys share their first try and all others, four share three entries
  of six, so that keys collide at once, later, and do not fit.
- *Symmetry* is not used: descriptors and nodes are compared by number in the code.

`CHECK_DEADLOCK FALSE` is in every configuration because the counted resources (dials,
losses, packets) run out and the system is then idle, as the real one is.

### The user

`PatientUser` gives a command when the last one has settled, as `TestSim.py` does with
`runTime(20)` between commands.  The liveness of a connection is claimed for this user.
With `PatientUser = FALSE` TLC finds that `close` sends its FIN while the hello is not
acknowledged, although it reports "all data are transmitted and received"
(`TransportP.nc:233`), and with two clients that `UsersMatchSockets` fails.

### Fairness

- Delivery is weakly fair: a packet at the head of a link arrives or is lost, and
  losses are bounded.  A link that loses everything for ever promises nothing.
- Tasks are weakly fair: the TinyOS scheduler runs every posted task.
- Timers that handlers restart are strongly fair, since restarts may disable the
  expiry of a timer again and again; each restart puts off the expiry by a bounded time.
- `NeighborDiscovery`: the timer, its tasks and `ShareTimer` are weakly fair, and a packet
  arrives or is lost.  `ReliableIsGood` and `SilentIsForgotten` have their own conditions:
  that losses, or answers, end.  Nothing is assumed of what the neighbours advertise.
- `Routing`: the timer expires and the task runs to its end.
- Nothing is assumed of the user, and no loss is owed.
- Two assumptions on time stand for the ratio of delays.  `Patiently`: the timers of
  2 RTT fire while packets are under way at most `MaxEarly` times.  `LongTimeWait`: the
  30 RTT of TIME_WAIT outlast the retransmissions of a FIN every 2 RTT.
  `session_two_clients` is without the latter.

### What does not hold with two clients

`session_two_clients` checks only what holds.  `RetransmissionArmed`, `TeardownOrder` and
`CloseNeverUndone` fail there, and TLC finds it when they are put into the configuration.
All sockets of a node share `ReSendQueue` and `ReSendTimer`, and `ReSendTimer.fired` starts
the timer again only when the entry at the head is still wanted.  In nine steps: the
server sends SYN+ACK to both clients, the first client answers, the timer fires on the
entry of the first, drops it, and the entry of the second waits with no timer.  An
entry left over in this way is sent when another packet starts the timer; if its
socket waits for something else by then, a SYN+ACK reaches a client in FIN_WAIT_1, and
`receiveSYNACK`, which does not look at the state, makes it ESTABLISHED again.  No text in
the repository promises the contrary, so this is not among the findings.

## The proofs

TLAPS proves these for every value of the constants that the named assumptions
admit (any number of nodes, any network, any finite pool, any bounds):

- `Flooding_proofs`: `TypeCorrect`, `SignalledAtMostOnce`, `SourceStaysAhead`, `FloodingEnds`,
  `FloodingForgetsNobody`, `FloodingSkipsNothing`.  Assumptions: the neighbours are sets
  of nodes without the node itself, the bounds are numbers.  The invariant has two
  parts.  `Always` (`AtMostOnce`, `SourceIsAhead`, `FloodsDieOut`) holds whatever is lost:
  that a number is signalled once follows from `seq_table`, that no source is overtaken
  needs that packets carry no number beyond the table of their sender, and that needs
  the order of the numbers on a link.  `WhenIntact` adds, while nothing was lost or
  changed, that links go to neighbours only, that what a node knows and its neighbour
  does not is on the link between them, and from it that the first new number on a link
  is the successor of the last one known: nothing is skipped.
- `SimpleSend_proofs`: `TypeCorrect`, `PoolIsAccounted`, `MessageStaysStable`, `SenderNeverSleeps`,
  `ImplementsPacketQueue`.  The invariant adds that queued buffers hold packets.  The
  refinement needs that two places of the queue never hold one buffer (a later `send`
  would change a packet that waits) and that a free buffer leaves room in the queue,
  by the cardinality of the pool.

- `TcpStream_proofs`: `TypeCorrect`, `Delivery`, `Agreement`, `RemainCorrect`.  Hypothesis:
  `FirstLap`, that what is written ends before the end of the ring; the sizes are numbers.
  Beyond the first lap `Delivery` is false, as `stream_laps` shows.  Any packet may be lost,
  the queues of the receiver may overflow, and the timer may fire too early.  Positions are
  counted in bytes from `Start` on: `A` bytes are acknowledged, `T` are sent, and segment
  `p + i` of the window ends behind `EndIn(A, T, i)`, where `p` is the number of the last one
  acknowledged.  The invariant says that a segment on its way or in a queue is old or
  carries exactly the bytes of its place in the window (`SoundSegment`); that the receiver
  took the first `k` of them (`Took`); and that an acknowledgement is old or of one of those
  `k`, with the position it ends at (`SoundAck`).  `nextExpected` and the number of segments in
  flight follow (`ReceiverInWindow`), `remain` counts the others (`RemainTracksWindow`), and
  the ring holds what was written and is not acknowledged (`BufferHolds`).  What makes go-back-N
  work is that the window of a retransmission starts at `lastAck` and cuts the bytes at the
  same places as before (`EndInSlides`): the last segment may be short, and nothing new is
  sent before all is acknowledged.
- `TransportSession_proofs`: `TypeCorrect`, which holds for any nodes and users; and for one
  client and one server `FdsAccounted`, `UsersMatch`, `TeardownInOrder`, `AlwaysArmed`, `TimersWork`,
  `ClosingHolds`, `ListenerHolds`, `SequencesAgree`.  Hypothesis of these: `OnePair`, one client and one server
  with a descriptor besides the listener's, a patient user and a long TIME_WAIT, as in
  `session_single`; losses, early timers, dials, descriptors and all capacities are any.
  `OnePair` cannot be dropped: `session_backlog` and "What does not hold with two clients"
  show what happens when sockets share queues and descriptors.  The invariant,
  `Connection`, is by the states of both ends.  A connection goes through ten pairs of them
  (`Phases`); in each one `UpAllowed` and `DownAllowed` say which packets may be under way,
  and no SYN is behind another packet (`SynsFirst`), so that the ACK which ends the
  handshake is the last that a SYN can precede.  An entry of `ReSendQueue` is alone and belongs
  to the phase (`CliQueue`, `SrvQueue`); `CloseTimer` or `closeTask` is under way in TIME_WAIT only
  (`Closing`), data while the client is established (`Data`); and the free list holds every
  other descriptor once (`Descriptors`).  That every step leads from a phase to a phase,
  with what it allows, is one lemma for each action; that the state of each socket
  follows `Diagram`, which has no way back, is the same again (`NextFollows`).
  `SequencesAgree` needs besides the numbers that packets carry, the invariant `Numbers`.  A
  segment that is under way or queued is the line of this connection or was taken before
  (`Sound`): an old one stays harmless because the server's counter only goes up, also when
  its socket is given back and used again (`Used`, `TakenUpTo`).  While the line is not
  acknowledged the server waits for it or took it (`Waits`, `Took`), and an ACK under way to the
  client answers the line or acknowledges only the ISN it dialled with (`OfHello`), so that
  `update` takes nothing else for the answer.  All of this is about clients that stay on the first
  lap of their ring (`FirstLap`, a guard in the specification): what the code does with the
  type `WRAP` is not in the model.  There the lines which repeated SYN+ACKs make the client
  write cannot exceed 127 bytes, so that `remain` does not wrap to 0 and look like an
  empty buffer.
- `Routing_proofs`: `TypeCorrect`, `TablesBalance`, `TablesAreShortest`, `HopsLead`, `NothingMissed`.
  Assumptions: costs are positive and no path of all nodes reaches `Infinite`.  The
  invariant of the loop (`LoopInv`) says that discovered nodes have settled costs which
  balance among themselves and are not above those of the others, and that distances of
  the others come from a discovered one.  That a table which balances is the one with
  the least costs is `TablesAreShortest`, by the reference `Dist`: no walk is cheaper than a cost
  that balances (`NoWalkIsCheaper`), by the least number of links of a counterexample, and the route is itself a walk,
  of no more links than there are nodes nearer than its end (`RouteIsWalk`).  `NewsIsDue`, with
  `BootTimer`, is the safety part of `TableSettles`.
- `HashTable_proofs`: `TypeCorrect`, `TablesAreDictionaries`.  Assumption: `Use` is not
  `"NeighborTable"`.  The invariant: an entry lies where its key is looked for (`OnItsWay`),
  no key is there twice (`Unique`), and where nothing is removed no free entry precedes a
  key (`NoGap`), which is why an insert finds the key that is present.
- `IP_proofs`: `TypeCorrect`, `ArrivesWhole`, `WatchedWithRoom`.  Assumption: packets have a length,
  of at most two fragments.  The invariant describes what is under way: fragments fit the packets
  that were sent and none is twice on paths and queue (`PathsSound`, `QueueSound`);
  `has_pending` agrees with what is open; packets that share a buffer are contested; and
  the buffer of one that is not holds one of its fragments while the other may come
  (`OpenSound`).  So the next fragment completes it.  `WatchedWithRoom` assumes that
  `TimeoutQueue` has room whenever `pendingTask` runs; without it an entry is lost and its packet
  waits until another of its number comes.  The code has 20 entries, and those of packets that
  are complete stay until a firing, so that a long series of packets can fill it.
- `NeighborDiscovery_proofs`: `TypeCorrect`, `RowFollows`, `DropsTheSilent`, `CostsSound`, `CodeCosts`.
  Assumptions: the thresholds are parts of 1000, and a packet is late by less than
  `drop_value - 1` rounds.  Types need that `updateTable` runs before `discover` (`FreshTable`) and the timer after
  late packets are gone (`FreshAir`).  `RowFollows` is for any advertisements of the neighbours and
  needs that `1000 * (Poor + 1) <= (1000 - Alpha) * Good` (401000 and 643500 in the code), which
  rules the signal INACTIVE out.  `DropsTheSilent` rests on
  `SilenceCounted`: an entry is no older than the pings since the last answer that are on
  their way or lost, and the rounds by which that answer was late.  `CostsSound` rests on
  `AboveFloor`: an answer makes a quality `Alpha` at least, it decays once a round, and the age
  of the entry bounds the rounds.  Its hypothesis, `DroppedInTime`, is that there are numbers
  of 4 and more which fall no slower than the average for as long as an entry lives;
  with the constants of the code (`CodeCosts`) they are 100, 90, 81, 72, 64, 57 and 51.

Some of these theorems are about properties that no run lists, because TLC said the
same for every instance and the theorem says more: the types of `Flooding`, `SimpleSend`,
`Routing` and `HashTable`, `SourceIsAhead`, `SenderStaysAwake` and `NewsIsDue`.

Only model-checked: all liveness (fairness and ENABLED are beyond the prover),
`UsersMatchSockets` with two clients, and `PendingIsWatched` without the hypothesis of
`WatchedWithRoom` (the packets of the run do not fill the queue).  Induction over data is out of the prover's reach, too; where a proof needs
it, as for `Dist` or the number of segments in a window, it takes a least counterexample
(`LeastNat` in `Routing_proofs`).

## What is not modelled

- The chat of `AppP`: greeting with `GreetTimer`, broadcast, whisper and the list of users.
  It writes to several sockets of the server at once, and what happens then is in the
  shared `ReSendDataTimer` and in lines that `TcpStream` would have to share between
  sockets; only connections, which share state with the transport, are modelled.
- In the sessions: a client whose lines pass the end of its ring (`FirstLap`).
- The graphs of several nodes side by side.  `insert` writes both directions of a link, so
  that graphs differ while advertisements are on their way, and nodes that differ may
  forward in a circle; `NextHopsLead` is about nodes whose graphs are the same.
- A graph that lacks the advertisement of a node: `num_nodes` is then smaller than
  the numbers that index the arrays of the task, and what is read there is undefined.
- In the stream: a line that ends exactly at the end of the ring (`sendData` then copies a
  negative span), a backlog of more than a ring, 8-bit numbers that wrap at 255
  segments, and more than one sending socket at a node.
- Sequence numbers of neighbour discovery and flooding that wrap (16 bits: weeks of
  simulated time).
- `List` beyond what its users call.  Sockets that a user dials to a peer he is connected
  with.
- Arithmetic is that of the simulator, where an `int` has 32 bits.  On a mote with 16
  bits the product in `ewma` would overflow.
- Never: dispatch without state (`Node`, `CommandHandlerP`, `PacketHandlerP`), the Python
  drivers of TOSSIM, generated code, topologies and noise traces.

The modules are composed by what they promise, not as one specification: `Flooding` and
`Routing` take changes of neighbours as nondeterministic, `NeighborDiscovery` takes what
routing does with its signals and with a neighbour's advertisements from the code,
`TransportSession` and `TcpStream` take IP as a lossy link in order, and all but `HashTable`
take `Hashmap` as a map.

The map covers nearly half of the lines of the hand-written `.nc` and `.h` files that are
neither blank nor comment.  The largest file of the tree, `simbuild/micaz/app.c`, is what the
nesC compiler made of them.

## Plan

1. Done: connections, the stream, flooding, sending, routing, neighbour discovery, IP and
   the hash table, and the proofs above.
2. `Chat`: on an abstract transport, with several sending sockets at the server, which
   adds the shared `ReSendDataTimer`.
3. `LinkState`: advertisements over an abstract flooding into one graph per node, composed
   with `Routing`; the abstract flooding shown to be implemented by `Flooding`.
4. Proofs: `UsersMatchSockets` for several clients of one server, as far as sockets that
   share queues and descriptors allow.
