-------------------------- MODULE SimpleSend_proofs --------------------------
(* Proofs about SimpleSend for every pool and every bound: its invariants,   *)
(* and that it implements PacketQueue.                                       *)
EXTENDS SimpleSend, FiniteSetTheorems, TLAPS

\* What waits in the queue was accepted.
QueuedArePackets == \A i \in DOMAIN queue : content[queue[i]] \in Packet

\* The inductive invariant.
IInv == /\ TypeOK /\ PoolAccounting /\ QueuedArePackets
        /\ MessageIsStable /\ SenderStaysAwake

-----------------------------------------------------------------------------
(* Sequences                                                               *)

\* The elements of a sequence after one is appended.
LEMMA AppendElements ==
  ASSUME NEW T, NEW q \in Seq(T), NEW x \in T
  PROVE  /\ Append(q, x) \in Seq(T)
         /\ Append(q, x) \in [1 .. Len(q) + 1 -> T]
         /\ DOMAIN Append(q, x) = 1 .. Len(q) + 1
         /\ Len(Append(q, x)) = Len(q) + 1
         /\ Append(q, x)[Len(q) + 1] = x
         /\ \A i \in 1 .. Len(q) : Append(q, x)[i] = q[i]
<1>1. /\ Append(q, x) \in Seq(T) /\ Len(Append(q, x)) = Len(q) + 1
      /\ Append(q, x)[Len(q) + 1] = x
      /\ \A i \in 1 .. Len(q) : Append(q, x)[i] = q[i]
  OBVIOUS
<1>2. \A r \in Seq(T) : r \in [1 .. Len(r) -> T]
  OBVIOUS
<1> QED
  BY <1>1, <1>2

\* The elements of a sequence after the first is taken.
LEMMA TailElements ==
  ASSUME NEW T, NEW q \in Seq(T), q # <<>>
  PROVE  /\ Tail(q) \in Seq(T) /\ Head(q) \in T /\ Head(q) = q[1]
         /\ Tail(q) \in [1 .. Len(q) - 1 -> T]
         /\ DOMAIN Tail(q) = 1 .. Len(q) - 1
         /\ Len(q) \in Nat /\ 1 <= Len(q) /\ DOMAIN q = 1 .. Len(q)
         /\ \A i \in 1 .. Len(q) - 1 : Tail(q)[i] = q[i + 1]
<1>1. /\ Tail(q) \in Seq(T) /\ Len(Tail(q)) = Len(q) - 1
      /\ Len(q) \in Nat /\ 1 <= Len(q) /\ DOMAIN q = 1 .. Len(q)
      /\ Head(q) \in T /\ Head(q) = q[1]
      /\ \A i \in 1 .. Len(q) - 1 : Tail(q)[i] = q[i + 1]
  OBVIOUS
<1>2. \A r \in Seq(T) : r \in [1 .. Len(r) -> T]
  OBVIOUS
<1> QED
  BY <1>1, <1>2

-----------------------------------------------------------------------------
(* The invariant                                                           *)

\* The initial state satisfies it.
LEMMA InitIInv == Init => IInv
<1> SUFFICES ASSUME Init PROVE IInv
  OBVIOUS
<1>1. TypeOK
  <2>1. busy \in BOOLEAN /\ sendTimer \in BOOLEAN /\ posted \in BOOLEAN
    BY DEF Init
  <2>2. /\ content \in [Buffer -> 0 .. MaxSends] /\ pkt \in 0 .. MaxSends
        /\ accepted \in 0 .. MaxSends /\ fails \in 0 .. MaxFail
    BY BoundAssumption DEF Init
  <2>3. queue \in Seq(Buffer) /\ air \in Seq(Packet) /\ free \subseteq Buffer
    BY DEF Init
  <2> QED
    BY <2>1, <2>2, <2>3 DEF TypeOK
<1>2. PoolAccounting
  BY DEF Init, PoolAccounting
<1>3. QueuedArePackets /\ MessageIsStable /\ SenderStaysAwake
  BY DEF Init, QueuedArePackets, MessageIsStable, SenderStaysAwake
<1> QED
  BY <1>1, <1>2, <1>3 DEF IInv

\* SimpleSend.send moves one buffer from the pool to the end of the queue.
LEMMA SendIInv ==
  ASSUME IInv, NEW b \in Buffer, Send(b)
  PROVE  IInv'
<1> USE DEF IInv
<1>1. /\ queue \in Seq(Buffer) /\ Len(queue) \in Nat
      /\ queue' = Append(queue, b)
      /\ free' = free \ {b} /\ b \in free
  BY DEF TypeOK, Send
<1>2. /\ queue' \in Seq(Buffer)
      /\ DOMAIN queue' = 1 .. Len(queue) + 1 /\ DOMAIN queue = 1 .. Len(queue)
      /\ queue'[Len(queue) + 1] = b
      /\ \A i \in 1 .. Len(queue) : queue'[i] = queue[i]
  BY <1>1, AppendElements
<1>3. TypeOK'
  <2>1. accepted + 1 \in 0 .. MaxSends
    BY BoundAssumption DEF TypeOK, Send
  <2> QED
    BY <1>2, <2>1 DEF TypeOK, Send
<1>4. PoolAccounting'
  <2>1. \A i \in 1 .. Len(queue) : queue[i] # b
    BY <1>1, <1>2 DEF PoolAccounting
  <2>2. ASSUME NEW c \in Buffer
        PROVE  c \in free' <=> \A i \in DOMAIN queue' : queue'[i] # c
    <3>1. c \in free <=> \A i \in 1 .. Len(queue) : queue[i] # c
      BY <1>2 DEF PoolAccounting
    <3>2. CASE c = b
      BY <1>1, <1>2, <3>2
    <3>3. CASE c # b
      <4>1. (\A i \in 1 .. Len(queue) + 1 : queue'[i] # c)
              <=> (\A i \in 1 .. Len(queue) : queue[i] # c)
        BY <1>1, <1>2, <3>3
      <4> QED
        BY <1>1, <1>2, <3>1, <3>3, <4>1
    <3> QED
      BY <3>2, <3>3
  <2>3. \A i, j \in 1 .. Len(queue) + 1 : queue'[i] = queue'[j] => i = j
    <3>1. \A i, j \in 1 .. Len(queue) : queue[i] = queue[j] => i = j
      BY <1>2 DEF PoolAccounting
    <3> QED
      BY <1>1, <1>2, <2>1, <3>1
  <2> QED
    BY <1>2, <2>2, <2>3 DEF PoolAccounting
<1>5. MessageIsStable' /\ SenderStaysAwake'
  BY DEF Send, MessageIsStable, SenderStaysAwake
<1>6. QueuedArePackets'
  <2>1. content' = [content EXCEPT ![b] = accepted + 1] /\ accepted + 1 \in Packet
    BY BoundAssumption DEF Send, TypeOK, Packet
  <2>2. \A i \in 1 .. Len(queue) : /\ content[queue[i]] \in Packet
                                   /\ queue[i] \in Buffer
    BY <1>1, <1>2 DEF QueuedArePackets
  <2>3. \A c \in Buffer : content'[c] = IF c = b THEN accepted + 1 ELSE content[c]
    BY <2>1 DEF TypeOK
  <2> SUFFICES ASSUME NEW i \in 1 .. Len(queue) + 1
               PROVE  content'[queue'[i]] \in Packet
    BY <1>2 DEF QueuedArePackets, Packet
  <2>4. CASE i \in 1 .. Len(queue)
    BY <1>2, <2>1, <2>2, <2>3, <2>4
  <2>5. CASE i = Len(queue) + 1
    BY <1>2, <2>1, <2>3, <2>5
  <2> QED
    BY <1>1, <2>4, <2>5
<1> QED
  BY <1>3, <1>4, <1>5, <1>6

\* sendBufferTask, when the radio takes the packet, puts its buffer back.
LEMMA TransmitIInv ==
  ASSUME IInv, SendBufferTask, Transmit
  PROVE  IInv'
<1> USE DEF IInv
<1> DEFINE b == Head(queue)
<1>1. /\ queue \in Seq(Buffer) /\ queue # <<>>
      /\ queue' = Tail(queue) /\ free' = free \cup {b}
  BY DEF TypeOK, Transmit, MaySend, Put
<1>2. /\ queue' \in Seq(Buffer) /\ b \in Buffer /\ b = queue[1]
      /\ DOMAIN queue' = 1 .. Len(queue) - 1 /\ DOMAIN queue = 1 .. Len(queue)
      /\ Len(queue) \in Nat /\ 1 <= Len(queue)
      /\ \A i \in 1 .. Len(queue) - 1 : queue'[i] = queue[i + 1]
  BY <1>1, TailElements
<1> HIDE DEF b
<1>3. /\ air' = Append(air, content[b]) /\ pkt' = content[b]
      /\ busy' = TRUE /\ posted' = FALSE
      /\ sendTimer' = (sendTimer \/ queue' # <<>>)
      /\ UNCHANGED <<content, accepted, fails>>
  BY DEF Transmit, SendBufferTask, Again, b
<1>4. content[b] \in Packet
  BY <1>2 DEF QueuedArePackets
<1>5. TypeOK'
  <2>1. busy' \in BOOLEAN /\ sendTimer' \in BOOLEAN /\ posted' \in BOOLEAN
    BY <1>3 DEF TypeOK
  <2>2. air' \in Seq(Packet)
    BY <1>3, <1>4 DEF TypeOK
  <2>3. free' \subseteq Buffer /\ content[b] \in 0 .. MaxSends
    BY <1>1, <1>2, <1>4 DEF TypeOK, Packet
  <2> QED
    BY <1>2, <1>3, <2>1, <2>2, <2>3 DEF TypeOK
<1>6. PoolAccounting'
  <2>1. \A i, j \in 1 .. Len(queue) : queue[i] = queue[j] => i = j
    BY <1>2 DEF PoolAccounting
  <2>2. ASSUME NEW c \in Buffer
        PROVE  c \in free' <=> \A i \in DOMAIN queue' : queue'[i] # c
    <3>1. c \in free <=> \A i \in 1 .. Len(queue) : queue[i] # c
      BY <1>2 DEF PoolAccounting
    <3>2. CASE c = b
      <4>1. \A i \in 1 .. Len(queue) - 1 : queue'[i] # c
        <5> TAKE i \in 1 .. Len(queue) - 1
        <5>1. i + 1 \in 1 .. Len(queue) /\ 1 \in 1 .. Len(queue) /\ i + 1 # 1
          BY <1>2
        <5> QED
          BY <1>2, <2>1, <3>2, <5>1
      <4> QED
        BY <1>1, <1>2, <3>2, <4>1
    <3>3. CASE c # b
      <4>1. ASSUME NEW j \in 1 .. Len(queue), j # 1
            PROVE  j - 1 \in 1 .. Len(queue) - 1 /\ queue[j] = queue'[j - 1]
        BY <1>2, <4>1
      <4>2. (\A i \in 1 .. Len(queue) - 1 : queue'[i] # c)
              <=> (\A i \in 1 .. Len(queue) : queue[i] # c)
        BY <1>2, <3>3, <4>1
      <4> QED
        BY <1>1, <1>2, <3>1, <3>3, <4>2
    <3> QED
      BY <3>2, <3>3
  <2>3. \A i, j \in 1 .. Len(queue) - 1 : queue'[i] = queue'[j] => i = j
    BY <1>2, <2>1
  <2> QED
    BY <1>2, <2>2, <2>3 DEF PoolAccounting
<1>7. QueuedArePackets'
  <2>1. \A i \in 1 .. Len(queue) - 1 : content[queue[i + 1]] \in Packet
    BY <1>2 DEF QueuedArePackets
  <2> QED
    BY <1>2, <1>3, <2>1 DEF QueuedArePackets, Packet
<1>8. MessageIsStable'
  BY <1>3, <1>4 DEF MessageIsStable, TypeOK
<1>9. SenderStaysAwake'
  BY <1>3 DEF SenderStaysAwake
<1> QED
  BY <1>5, <1>6, <1>7, <1>8, <1>9

\* Every step keeps the invariant.
LEMMA NextIInv == IInv /\ [Next]_vars => IInv'
<1> SUFFICES ASSUME IInv, [Next]_vars PROVE IInv'
  OBVIOUS
<1>1. ASSUME NEW b \in Buffer, Send(b) PROVE IInv'
  BY <1>1, SendIInv
<1>2. CASE SendTimerFired
  BY <1>2 DEF SendTimerFired, IInv, TypeOK, PoolAccounting, QueuedArePackets,
              Packet, MessageIsStable, SenderStaysAwake
<1>3. CASE SendBufferTask
  <2>1. CASE Transmit
    BY <1>3, <2>1, TransmitIInv
  <2>2. CASE Refused
    <3>1. /\ UNCHANGED <<free, queue, content, busy, air, accepted>>
          /\ queue # <<>> /\ busy = FALSE /\ pkt' = content[Head(queue)]
          /\ fails < MaxFail /\ fails' = fails + 1
          /\ posted' = FALSE /\ sendTimer' = TRUE
      BY <1>3, <2>2 DEF Refused, SendBufferTask, MaySend, Again, IInv, TypeOK
    <3>2. pkt' \in 0 .. MaxSends
      BY <3>1, TailElements DEF IInv, TypeOK
    <3>3. TypeOK'
      <4>1. busy' \in BOOLEAN /\ sendTimer' \in BOOLEAN /\ posted' \in BOOLEAN
        BY <3>1
      <4>2. fails' \in 0 .. MaxFail
        BY <3>1, BoundAssumption DEF IInv, TypeOK
      <4> QED
        BY <3>1, <3>2, <4>1, <4>2 DEF IInv, TypeOK, Packet
    <3> QED
      BY <3>1, <3>3 DEF IInv, PoolAccounting, QueuedArePackets, Packet,
                        MessageIsStable, SenderStaysAwake
  <2>3. CASE NothingToSend
    BY <1>3, <2>3 DEF NothingToSend, SendBufferTask, Again, IInv, TypeOK,
         PoolAccounting, QueuedArePackets, Packet, MessageIsStable,
         SenderStaysAwake
  <2> QED
    BY <1>3, <2>1, <2>2, <2>3 DEF SendBufferTask
<1>4. CASE SendDone
  BY <1>4 DEF SendDone, IInv, TypeOK, PoolAccounting, QueuedArePackets, Packet,
              MessageIsStable, SenderStaysAwake
<1>5. CASE UNCHANGED vars
  BY <1>5 DEF vars, IInv, TypeOK, PoolAccounting, QueuedArePackets, Packet,
              MessageIsStable, SenderStaysAwake
<1> QED
  BY <1>1, <1>2, <1>3, <1>4, <1>5 DEF Next

\* It holds in every reachable state.
LEMMA IInvHolds == Spec => []IInv
BY InitIInv, NextIInv, PTL DEF Spec

\* SimpleSendP keeps the types of its pool, queue, message and flags.
THEOREM TypeCorrect == Spec => []TypeOK
<1>1. IInv => TypeOK
  BY DEF IInv
<1> QED
  BY <1>1, IInvHolds, PTL

\* No buffer leaks and none is given out twice, for every pool.
THEOREM PoolIsAccounted == Spec => []PoolAccounting
<1>1. IInv => PoolAccounting
  BY DEF IInv
<1> QED
  BY <1>1, IInvHolds, PTL

\* The message is never overwritten while the radio sends it.
THEOREM MessageStaysStable == Spec => []MessageIsStable
<1>1. IInv => MessageIsStable
  BY DEF IInv
<1> QED
  BY <1>1, IInvHolds, PTL

\* The sender never sleeps on a queue that is not empty.
THEOREM SenderNeverSleeps == Spec => []SenderStaysAwake
<1>1. IInv => SenderStaysAwake
  BY DEF IInv
<1> QED
  BY <1>1, IInvHolds, PTL

-----------------------------------------------------------------------------
(* The refinement                                                          *)

\* What the queue holds, as a sequence of packets.
Waiting == [i \in DOMAIN queue |-> content[queue[i]]]

\* It is a sequence of packets as long as the queue.
LEMMA WaitingType ==
  ASSUME IInv
  PROVE  /\ Waiting \in Seq(Packet) /\ Len(Waiting) = Len(queue)
         /\ DOMAIN Waiting = 1 .. Len(queue) /\ Len(queue) \in Nat
         /\ \A i \in 1 .. Len(queue) : Waiting[i] = content[queue[i]]
<1>1. queue \in Seq(Buffer) /\ DOMAIN queue = 1 .. Len(queue) /\ Len(queue) \in Nat
  BY DEF IInv, TypeOK
<1>2. \A i \in 1 .. Len(queue) : content[queue[i]] \in Packet
  BY <1>1 DEF IInv, QueuedArePackets
<1> QED
  BY <1>1, <1>2 DEF Waiting

\* While a buffer is free, fewer packets wait than there are buffers.
LEMMA RoomWhileFree ==
  ASSUME IInv, NEW b \in free
  PROVE  Len(queue) < Cardinality(Buffer)
<1>1. /\ queue \in Seq(Buffer) /\ DOMAIN queue = 1 .. Len(queue)
      /\ Len(queue) \in Nat /\ b \in Buffer
  BY DEF IInv, TypeOK
<1>2. \A i \in 1 .. Len(queue) : queue[i] \in Buffer \ {b}
  BY <1>1 DEF IInv, PoolAccounting
<1>3. \A i, j \in 1 .. Len(queue) : queue[i] = queue[j] => i = j
  BY <1>1 DEF IInv, PoolAccounting
<1>4. queue \in [1 .. Len(queue) -> Buffer \ {b}]
  BY <1>1, <1>2
<1>5. queue \in Injection(1 .. Len(queue), Buffer \ {b})
  BY <1>3, <1>4 DEF Injection, IsInjective
<1>6. /\ IsFiniteSet(Buffer \ {b})
      /\ Cardinality(Buffer \ {b}) = Cardinality(Buffer) - 1
      /\ Cardinality(Buffer) \in Nat
  BY <1>1, BufferAssumption, FS_RemoveElement, FS_CardinalityType
<1>7. Cardinality(1 .. Len(queue)) = Len(queue)
  <2>1. 1 \in Int /\ Len(queue) \in Int
    BY <1>1
  <2>2. Cardinality(1 .. Len(queue)) = IF 1 > Len(queue) THEN 0 ELSE Len(queue) - 1 + 1
    BY <2>1, FS_Interval
  <2> QED
    BY <1>1, <2>2
<1>8. Cardinality(1 .. Len(queue)) <= Cardinality(Buffer \ {b})
  BY <1>5, <1>6, FS_Injection
<1> QED
  BY <1>1, <1>6, <1>7, <1>8

\* SimpleSend.send is Accept of the next packet.
LEMMA SendAccepts ==
  ASSUME IInv, NEW b \in Buffer, Send(b)
  PROVE  \E p \in Packet : /\ Len(Waiting) < Cardinality(Buffer)
                           /\ Waiting' = Append(Waiting, p)
                           /\ air' = air
<1> DEFINE p == accepted + 1
<1>1. p \in Packet /\ accepted' = p /\ air' = air
  BY BoundAssumption DEF IInv, TypeOK, Packet, Send
<1>2. /\ queue' = Append(queue, b) /\ b \in free
      /\ content' = [content EXCEPT ![b] = p]
  BY DEF Send
<1> HIDE DEF p
<1>3. /\ queue \in Seq(Buffer) /\ DOMAIN queue = 1 .. Len(queue)
      /\ Len(queue) \in Nat
  BY DEF IInv, TypeOK
<1>4. /\ DOMAIN queue' = 1 .. Len(queue) + 1 /\ queue'[Len(queue) + 1] = b
      /\ \A i \in 1 .. Len(queue) : queue'[i] = queue[i]
  BY <1>2, <1>3, AppendElements
<1>5. \A i \in 1 .. Len(queue) : queue[i] # b /\ queue[i] \in Buffer
  BY <1>2, <1>3 DEF IInv, PoolAccounting
<1>6. \A c \in Buffer : content'[c] = IF c = b THEN p ELSE content[c]
  BY <1>2 DEF IInv, TypeOK
<1>7. /\ Waiting' = [i \in 1 .. Len(queue) + 1 |-> content'[queue'[i]]]
      /\ \A i \in 1 .. Len(queue) : content'[queue'[i]] = Waiting[i]
      /\ content'[queue'[Len(queue) + 1]] = p
  BY <1>3, <1>4, <1>5, <1>6 DEF Waiting
<1>8. Waiting' = Append(Waiting, p)
  <2>1. /\ Append(Waiting, p) \in Seq(Packet)
        /\ Append(Waiting, p) \in [1 .. Len(queue) + 1 -> Packet]
        /\ Append(Waiting, p)[Len(queue) + 1] = p
        /\ \A i \in 1 .. Len(queue) : Append(Waiting, p)[i] = Waiting[i]
    BY <1>1, WaitingType, AppendElements
  <2>2. \A i \in 1 .. Len(queue) + 1 : Waiting'[i] = Append(Waiting, p)[i]
    <3> TAKE i \in 1 .. Len(queue) + 1
    <3>1. i \in 1 .. Len(queue) \/ i = Len(queue) + 1
      BY <1>3
    <3> QED
      BY <1>7, <2>1, <3>1
  <2>3. Append(Waiting, p)
          = [i \in 1 .. Len(queue) + 1 |-> Append(Waiting, p)[i]]
    BY <2>1
  <2> QED
    BY <1>7, <2>2, <2>3
<1>9. Len(Waiting) < Cardinality(Buffer)
  BY <1>2, RoomWhileFree, WaitingType
<1> QED
  BY <1>1, <1>8, <1>9

\* sendBufferTask, when the radio takes the packet, is Transmit.
LEMMA TaskTransmits ==
  ASSUME IInv, SendBufferTask, Transmit
  PROVE  /\ Waiting # <<>>
         /\ Waiting' = Tail(Waiting)
         /\ air' = Append(air, Head(Waiting))
<1>1. /\ queue \in Seq(Buffer) /\ queue # <<>> /\ queue' = Tail(queue)
      /\ content' = content /\ air' = Append(air, content[Head(queue)])
  BY DEF IInv, TypeOK, Transmit, MaySend, SendBufferTask
<1>2. /\ DOMAIN queue' = 1 .. Len(queue) - 1 /\ Head(queue) = queue[1]
      /\ Len(queue) \in Nat /\ 1 <= Len(queue)
      /\ \A i \in 1 .. Len(queue) - 1 : queue'[i] = queue[i + 1]
  BY <1>1, TailElements
<1>3. /\ Waiting \in Seq(Packet) /\ Len(Waiting) = Len(queue)
      /\ \A i \in 1 .. Len(queue) : Waiting[i] = content[queue[i]]
  BY WaitingType
<1>4. Waiting # <<>>
  BY <1>2, <1>3
<1>5. /\ Head(Waiting) = Waiting[1]
      /\ Tail(Waiting) \in [1 .. Len(queue) - 1 -> Packet]
      /\ \A i \in 1 .. Len(queue) - 1 : Tail(Waiting)[i] = Waiting[i + 1]
  BY <1>3, <1>4, TailElements
<1>6. Waiting' = [i \in 1 .. Len(queue) - 1 |-> content[queue[i + 1]]]
  BY <1>1, <1>2 DEF Waiting
<1>7. Tail(Waiting) = [i \in 1 .. Len(queue) - 1 |-> Tail(Waiting)[i]]
  BY <1>5
<1>8. \A i \in 1 .. Len(queue) - 1 : content[queue[i + 1]] = Tail(Waiting)[i]
  BY <1>2, <1>3, <1>5
<1>9. Waiting' = Tail(Waiting)
  BY <1>6, <1>7, <1>8
<1>10. Head(Waiting) = content[Head(queue)]
  BY <1>2, <1>3, <1>5
<1> QED
  BY <1>1, <1>4, <1>9, <1>10

\* For every pool and every bound, SimpleSend is a queue of as many packets as
\* there are buffers: each step of its code is a step of the queue, or none.
THEOREM ImplementsPacketQueue == Spec => IsPacketQueue
<1>1. Init => Queue!Init
  BY DEF Init, Queue!Init
<1>2. IInv /\ [Next]_vars => [Queue!Next]_Queue!vars
  <2> SUFFICES ASSUME IInv, [Next]_vars PROVE [Queue!Next]_Queue!vars
    OBVIOUS
  <2>1. ASSUME NEW b \in Buffer, Send(b) PROVE Queue!Next
    BY <2>1, SendAccepts DEF Waiting, Queue!Next, Queue!Accept
  <2>2. CASE SendBufferTask /\ Transmit
    BY <2>2, TaskTransmits DEF Waiting, Queue!Next, Queue!Transmit
  <2>3. ASSUME UNCHANGED <<queue, content, air>> PROVE UNCHANGED Queue!vars
    BY <2>3 DEF Queue!vars
  <2> QED
    BY <2>1, <2>2, <2>3
       DEF Next, vars, SendTimerFired, SendBufferTask, Refused, NothingToSend,
           SendDone
<1> QED
  BY <1>1, <1>2, IInvHolds, PTL DEF Spec, IsPacketQueue, Queue!Spec
=============================================================================
