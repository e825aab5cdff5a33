---------------------------------- MODULE IP ----------------------------------
(***************************************************************************)
(* IPP.nc: packets that are sent in fragments of FragSize, and put together *)
(* by their destination, from several sources.                              *)
(*                                                                         *)
(* A source numbers its packets 1 .. MaxSeq, for all destinations together. *)
(* The destination keeps one buffer for a number, whoever the source is,    *)
(* but remembers by source and number whether it waits for fragments.  One  *)
(* timer serves all that it waits for.                                      *)
(*                                                                         *)
(* A packet is the pair of its source and its place among the packets that  *)
(* the source sent; the number is what it carries.                          *)
(***************************************************************************)
EXTENDS Naturals, Sequences, FiniteSets

CONSTANTS
  Source,       \* nodes that send to the one that is modelled
  NoPacket,     \* what lies in a buffer that nothing was put in
  MaxSeq,       \* MAX_NUM_PENDING - 1
  FragSize,     \* fragment_size
  Lengths,      \* lengths of packets
  PendingCap,   \* size of PendingQueue
  TimeoutCap,   \* size of TimeoutQueue
  MaxSend, MaxLoss, MaxOvertake     \* bounds on events

ASSUME SizeAssumption ==
  /\ MaxSeq \in Nat \ {0} /\ FragSize \in Nat \ {0} /\ Lengths \subseteq Nat
  /\ \A l \in Lengths : 0 < l /\ l <= 2 * FragSize   \* all that Transport sends
ASSUME CapAssumption == PendingCap \in Nat \ {0} /\ TimeoutCap \in Nat \ {0}
ASSUME BoundAssumption ==
  /\ MaxSend \in Nat /\ MaxLoss \in Nat /\ MaxOvertake \in Nat

Seqs == 1 .. MaxSeq
Packet == Source \X (1 .. MaxSend)
Offset == 0 .. 1
Fragment == [packet : Packet, seq : Seqs, flag : {"whole", "more", "last"},
             offset : Offset, len : 0 .. FragSize]
\* pendingPayload_t, with the packet whose fragment lies at an offset
Pending == [src : Source \cup {NoPacket}, current : Nat, expected : Nat,
            payload : [Offset -> Packet \cup {NoPacket}]]

VARIABLES
  localSeq,     \* local_seq of each source
  sent,         \* history: the lengths of the packets of a source
  path,         \* fragments on their way from a source
  pendingQueue, posted,     \* PendingQueue, and whether pendingTask is posted
  pendingArr,   \* pending_arr
  hasPending,   \* has_pending, as a set of pairs
  timeoutQueue, pendingTimer,
  got,          \* history: what IP.gotTCP was signalled last
  open,         \* history: packets with a fragment in a buffer
  contested,    \* history: packets that were open together, of one number
  sends, losses, overtakes

senderVars == <<localSeq, sent>>
buffers == <<pendingArr, hasPending, timeoutQueue, pendingTimer, open,
             contested>>
bounds == <<sends, losses, overtakes>>
vars == <<senderVars, path, pendingQueue, posted, buffers, got, bounds>>

PushBack(queue, x, cap) == IF Len(queue) < cap THEN Append(queue, x) ELSE queue
EmptyPending == [src |-> NoPacket, current |-> 0, expected |-> 0,
                 payload |-> [o \in Offset |-> NoPacket]]

Init ==
  /\ localSeq = [s \in Source |-> 1]
  /\ sent = [s \in Source |-> <<>>]
  /\ path = [s \in Source |-> <<>>]
  /\ pendingQueue = <<>> /\ posted = FALSE
  /\ pendingArr = [q \in Seqs |-> EmptyPending]
  /\ hasPending = {}
  /\ timeoutQueue = <<>> /\ pendingTimer = FALSE
  /\ got = EmptyPending
  /\ open = {} /\ contested = {}
  /\ sends = 0 /\ losses = 0 /\ overtakes = 0

\* the number after q; the variant goes one too far
AfterSeq_TooFar(q) == IF q > MaxSeq THEN 1 ELSE q + 1
AfterSeq(q) == IF q + 1 > MaxSeq THEN 1 ELSE q + 1

\* the fragments of a packet: full ones, and what remains
Fragments(p, q, length) ==
  LET full == length \div FragSize
      rest == length % FragSize
      n == IF rest = 0 /\ full > 0 THEN full ELSE full + 1
  IN  [i \in 1 .. n |->
         [packet |-> p, seq |-> q,
          flag |-> IF n = 1 THEN "whole" ELSE IF i = n THEN "last" ELSE "more",
          offset |-> i - 1,
          len |-> IF i <= full THEN FragSize ELSE rest]]

\* IP.send to the modelled node
Send(s, length) ==
  /\ sends < MaxSend
  /\ sends' = sends + 1
  /\ sent' = [sent EXCEPT ![s] = Append(@, length)]
  /\ localSeq' = [localSeq EXCEPT ![s] = AfterSeq(@)]
  /\ path' = [path EXCEPT ![s] =
       @ \o Fragments(<<s, Len(sent[s]) + 1>>, localSeq[s], length)]
  /\ UNCHANGED <<pendingQueue, posted, buffers, got, losses, overtakes>>

\* IP.send to another node: it takes a number, too
SendElsewhere(s) ==
  /\ sends < MaxSend
  /\ sends' = sends + 1
  /\ sent' = [sent EXCEPT ![s] = Append(@, 0)]
  /\ localSeq' = [localSeq EXCEPT ![s] = AfterSeq(@)]
  /\ UNCHANGED <<path, pendingQueue, posted, buffers, got, losses, overtakes>>

\* a fragment is lost: a full pool, the radio, or forward without a route
Lose(s) ==
  /\ path[s] # <<>> /\ losses < MaxLoss
  /\ path' = [path EXCEPT ![s] = Tail(@)]
  /\ losses' = losses + 1
  /\ UNCHANGED <<senderVars, pendingQueue, posted, buffers, got, sends, overtakes>>

\* nodes forward to the next hop of the moment: after a change of routes a
\* fragment may overtake the one before
Overtake(s) ==
  /\ Len(path[s]) > 1 /\ overtakes < MaxOvertake
  /\ path' = [path EXCEPT ![s] =
       <<@[2], @[1]>> \o SubSeq(@, 3, Len(@))]
  /\ overtakes' = overtakes + 1
  /\ UNCHANGED <<senderVars, pendingQueue, posted, buffers, got, sends, losses>>

\* gotIpPkt, check_payload.  Posting a task that is posted has no effect.
GotIpPkt(s) ==
  /\ path[s] # <<>>
  /\ path' = [path EXCEPT ![s] = Tail(@)]
  /\ LET f == Head(path[s])
     IN  IF f.flag = "whole"
         THEN /\ got' = [src |-> s, current |-> f.len, expected |-> f.len,
                         payload |-> [EmptyPending.payload EXCEPT
                                        ![0] = f.packet]]
              /\ UNCHANGED <<pendingQueue, posted>>
         ELSE /\ pendingQueue' = PushBack(pendingQueue, f, PendingCap)
              /\ posted' = TRUE
              /\ UNCHANGED got
  /\ UNCHANGED <<senderVars, buffers, bounds>>

\* offset * 4 + len of the last fragment; the variant has the len alone
Length_OfLast(f) == f.len
Length(f) == f.offset * FragSize + f.len

\* the buffer of its number after a fragment
Stored(f, src, current) ==
  LET buffer == pendingArr[f.seq]
  IN  [src |-> src, current |-> current,
       expected |-> IF f.flag = "last" THEN Length(f) ELSE buffer.expected,
       payload |-> [buffer.payload EXCEPT ![f.offset] = f.packet]]

\* the history of what is open and contested, with a fragment
Open(f) == [packet |-> f.packet, seq |-> f.seq]
Contested(f) ==
  LET rivals == {o \in open : o.seq = f.seq /\ o.packet # f.packet}
  IN  contested \cup {o.packet : o \in rivals}
                \cup (IF rivals = {} THEN {} ELSE {f.packet})
Others(s, q) == {o \in open : o.seq # q \/ o.packet[1] # s}

\* what PendingTimer will look at after a new packet; the variant adds it only
\* when the timer does not run yet
Watched_Once(s, q) ==
  IF pendingTimer THEN timeoutQueue
  ELSE PushBack(timeoutQueue, <<s, q>>, TimeoutCap)
Watched(s, q) == PushBack(timeoutQueue, <<s, q>>, TimeoutCap)

\* pendingTask, for the first fragment of a packet that arrives
PendingTaskFirst ==
  /\ posted
  /\ LET f == Head(pendingQueue)
         s == f.packet[1]
     IN  /\ <<s, f.seq>> \notin hasPending
         /\ hasPending' = hasPending \cup {<<s, f.seq>>}
         /\ pendingArr' = [pendingArr EXCEPT ![f.seq] = Stored(f, s, f.len)]
         /\ timeoutQueue' = Watched(s, f.seq)
         /\ open' = open \cup {Open(f)}
         /\ contested' = Contested(f)
  /\ pendingTimer' = TRUE
  /\ pendingQueue' = Tail(pendingQueue)
  /\ posted' = FALSE
  /\ UNCHANGED <<senderVars, path, got, bounds>>

\* pendingTask, for a later fragment; the packet may be complete with it
IsComplete(buffer) == buffer.current >= buffer.expected

PendingTaskNext ==
  /\ posted
  /\ LET f == Head(pendingQueue)
         s == f.packet[1]
         old == pendingArr[f.seq]
         buffer == Stored(f, old.src, old.current + f.len)
     IN  /\ <<s, f.seq>> \in hasPending
         /\ pendingArr' = [pendingArr EXCEPT ![f.seq] = buffer]
         /\ contested' = Contested(f)
         /\ IF IsComplete(buffer)
            THEN /\ hasPending' = hasPending \ {<<s, f.seq>>}
                 /\ open' = Others(s, f.seq)
                 /\ got' = buffer
            ELSE /\ open' = open \cup {Open(f)}
                 /\ UNCHANGED <<hasPending, got>>
  /\ pendingQueue' = Tail(pendingQueue)
  /\ posted' = FALSE
  /\ UNCHANGED <<senderVars, path, timeoutQueue, pendingTimer, bounds>>

\* PendingTimer.fired: the oldest entry, which may be of a packet that is long
\* complete.  dropped is set here and never read.
PendingTimerFired ==
  /\ pendingTimer
  /\ pendingTimer' = FALSE
  /\ timeoutQueue' = Tail(timeoutQueue)
  /\ LET e == Head(timeoutQueue)
     IN  /\ hasPending' = hasPending \ {e}
         /\ open' = Others(e[1], e[2])
  /\ UNCHANGED <<senderVars, path, pendingQueue, posted, pendingArr, got,
                 contested, bounds>>

Next ==
  \/ \E s \in Source : \/ \E l \in Lengths : Send(s, l)
                        \/ SendElsewhere(s)
                        \/ Lose(s) \/ Overtake(s) \/ GotIpPkt(s)
  \/ PendingTaskFirst \/ PendingTaskNext \/ PendingTimerFired

Spec == Init /\ [][Next]_vars

-----------------------------------------------------------------------------
(* Properties                                                              *)

\* The types of the variables.
TypeOK ==
  /\ localSeq \in [Source -> Seqs]
  /\ sent \in [Source -> Seq(Lengths \cup {0})]
  /\ path \in [Source -> Seq(Fragment)]
  /\ pendingQueue \in Seq(Fragment) /\ Len(pendingQueue) <= PendingCap
  /\ posted \in BOOLEAN /\ (posted => pendingQueue # <<>>)
  /\ pendingArr \in [Seqs -> Pending] /\ got \in Pending
  /\ hasPending \subseteq Source \X Seqs
  /\ timeoutQueue \in Seq(Source \X Seqs) /\ Len(timeoutQueue) <= TimeoutCap
  /\ pendingTimer \in BOOLEAN /\ (pendingTimer => timeoutQueue # <<>>)
  /\ open \subseteq [packet : Packet, seq : Seqs] /\ contested \subseteq Packet
  /\ sends \in 0 .. MaxSend /\ losses \in 0 .. MaxLoss
  /\ overtakes \in 0 .. MaxOvertake

\* the packets whose fragments got covers
Parts == {got.payload[o] : o \in {i \in Offset : i * FragSize < got.expected}}

\* What gotTCP is signalled is a packet that was sent, whole, with its length
\* and its source, whatever was lost, reordered or given up before: unless
\* two packets of one number were being put together at the same time, which
\* two sources cannot exclude, nor one that has lost a fragment.
WholeUnlessContested ==
  got # EmptyPending =>
    \/ \E o \in Offset : got.payload[o] \in contested
    \/ \E p \in Packet : /\ Parts = {p}
                          /\ got.src = p[1]
                          /\ got.expected = sent[p[1]][p[2]]

\* Whatever waits for a fragment has an entry in TimeoutQueue, although entries
\* of complete packets are in between and a firing may take away the entry of
\* an earlier packet of the same number.  When the timer comes to it depends
\* on later packets: one firing takes one entry, and only a packet that begins
\* starts the timer.  The queue has room for all that begins before it fires.
PendingIsWatched ==
  \A e \in hasPending : \E i \in 1 .. Len(timeoutQueue) : timeoutQueue[i] = e
=============================================================================
