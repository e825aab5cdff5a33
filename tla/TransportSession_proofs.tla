--------------------- MODULE TransportSession_proofs ---------------------
(***************************************************************************)
(* Theorems about TransportSession.  The types are correct for all values  *)
(* of the constants.  For one client and one server, OnePair, the          *)
(* connection goes through ten pairs of states, Phases; the invariant      *)
(* Connection says what may be on its way, queued and running in each of   *)
(* them, for any losses, early timers, capacities and repeated dials; the  *)
(* invariant Numbers adds the counters of both ends and of the packets.    *)
(* Spec stays on the first lap of the client's ring (FirstLap).            *)
(***************************************************************************)
EXTENDS TransportSession, FiniteSetTheorems, SequenceTheorems, TLAPS

-----------------------------------------------------------------------------
(* The operators of the module                                             *)

\* The sizes are numbers, and descriptor 0 is one.
LEMMA Sizes ==
  /\ MaxSockets \in Nat \ {0} /\ MaxSockets <= 255 /\ 0 \in Fd /\ Fd \subseteq Byte
  /\ NullFd \notin Fd
  /\ ReSendCap \in Nat \ {0} /\ ReceiveCap \in Nat \ {0} /\ ChanCap \in Nat \ {0}
  /\ MaxLoss \in Nat /\ MaxEarly \in Nat /\ MaxBacklog \in Nat /\ MaxDials \in Nat
  /\ HelloLen \in Nat /\ RandSeq \subseteq Pos /\ Pos \subseteq Byte
BY SizeAssumption, SeqAssumption DEF Fd, NullFd, Pos, Byte

\* A uint8_t, and a position of a buffer.
LEMMA ByteType ==
  /\ \A x \in Int : U8(x) \in Byte /\ x % 128 \in Pos
  /\ Byte \subseteq Int
BY DEF U8, Byte, Pos

\* The packets the code makes are packets.
LEMMA PktType ==
  ASSUME NEW flag \in {"SYN", "ACK", "FIN", "DATA"}, NEW seq \in Int, NEW ack \in Int
  PROVE  Pkt(flag, seq, ack) \in Packet /\ Pkt(flag, seq, ack).flag = flag
BY ByteType DEF Pkt, Packet

\* The head of a sequence is one of its elements, the tail has the others.
LEMMA HeadTail ==
  ASSUME NEW S, NEW q \in Seq(S), q # <<>>
  PROVE  /\ Head(q) \in S /\ Tail(q) \in Seq(S)
         /\ Len(q) \in Nat /\ Len(q) >= 1 /\ Head(q) = q[1]
         /\ Len(Tail(q)) = Len(q) - 1
         /\ \A i \in 1 .. Len(q) - 1 : Tail(q)[i] = q[i + 1]
<1>1. Len(q) \in Nat \ {0}
  BY EmptySeq
<1> QED
  BY <1>1, HeadTailProperties

\* A send puts a part of the packets, from the first on, behind those that are
\* under way.
Longer(q, pkts) ==
  LET all == q \o pkts
  IN  SubSeq(all, 1, IF Len(all) < ChanCap THEN Len(all) ELSE ChanCap)

\* What is appended to a link, up to its capacity.
LEMMA LongerIs ==
  ASSUME NEW S, NEW q \in Seq(S), NEW r \in Seq(S)
  PROVE  LET t == Longer(q, r)
         IN  /\ t \in Seq(S) /\ Len(t) \in Nat /\ Len(q) \in Nat
             /\ \A i \in 1 .. Len(t) :
                  /\ i <= Len(q) => i \in 1 .. Len(q) /\ t[i] = q[i]
                  /\ i > Len(q) => i - Len(q) \in 1 .. Len(r) /\ t[i] = r[i - Len(q)]
<1> DEFINE all == q \o r
           n == IF Len(all) < ChanCap THEN Len(all) ELSE ChanCap
           t == Longer(q, r)
<1>1. /\ all \in Seq(S) /\ Len(all) = Len(q) + Len(r)
      /\ \A i \in 1 .. Len(q) + Len(r) :
           all[i] = IF i <= Len(q) THEN q[i] ELSE r[i - Len(q)]
  BY ConcatProperties
<1>2. Len(q) \in Nat /\ Len(r) \in Nat /\ ChanCap \in Nat
  BY Sizes
<1>3. n \in Nat /\ n <= Len(all) /\ t = SubSeq(all, 1, n)
  BY <1>1, <1>2 DEF Longer
<1>4. \A i \in 1 .. n : all[i] \in S
  BY <1>1, <1>2, <1>3, ElementOfSeq
<1> HIDE DEF n, all, t
<1>5. /\ t \in Seq(S) /\ Len(t) = n
      /\ \A i \in 1 .. n : t[i] = all[i]
  <2>1. /\ SubSeq(all, 1, n) \in Seq(S)
        /\ Len(SubSeq(all, 1, n)) = IF 1 <= n THEN n - 1 + 1 ELSE 0
        /\ \A i \in 1 .. (n - 1 + 1) : SubSeq(all, 1, n)[i] = all[1 + i - 1]
    BY <1>3, <1>4, SubSeqProperties
  <2>2. n - 1 + 1 = n /\ \A i \in 1 .. n : (1 + i) - 1 = i
    BY <1>3
  <2> QED
    BY <1>3, <2>1, <2>2
<1>6. /\ t \in Seq(S) /\ Len(t) \in Nat /\ Len(q) \in Nat
      /\ \A i \in 1 .. Len(t) :
           /\ i <= Len(q) => i \in 1 .. Len(q) /\ t[i] = q[i]
           /\ i > Len(q) => i - Len(q) \in 1 .. Len(r) /\ t[i] = r[i - Len(q)]
  BY <1>1, <1>2, <1>3, <1>5
<1> QED
  BY <1>6 DEF t

\* pushback.
LEMMA PushBackIs ==
  ASSUME NEW S, NEW q \in Seq(S), NEW cap \in Nat, NEW x \in S
  PROVE  /\ PushBack(q, cap, x) \in Seq(S)
         /\ q = <<>> /\ cap # 0 => PushBack(q, cap, x) = <<x>>
         /\ PushBack(q, cap, x) = <<>> => cap = 0
<1>1. Append(q, x) \in Seq(S)
  OBVIOUS
<1>2. ASSUME q = <<>>, cap # 0 PROVE PushBack(q, cap, x) = <<x>>
  BY <1>2 DEF PushBack
<1>3. Len(q) = 0 <=> q = <<>>
  BY EmptySeq
<1>4. Append(q, x) # <<>>
  BY AppendProperties
<1> QED
  BY <1>1, <1>2, <1>3, <1>4 DEF PushBack

\* popback: the last element, which leaves the sequence; 0 of an empty one.
LEMMA PopBackType ==
  ASSUME NEW q \in Seq(Fd)
  PROVE  PopBack(q) \in Fd /\ AllButLast(q) \in Seq(Fd)
<1>1. Len(q) \in Nat /\ (q # <<>> => Len(q) \in Nat \ {0})
  BY EmptySeq
<1>2. PopBack(q) \in Fd
  BY <1>1, Sizes DEF PopBack
<1>3. AllButLast(q) \in Seq(Fd)
  <2>1. \A i \in 1 .. Len(q) - 1 : q[i] \in Fd
    BY <1>1
  <2> QED
    BY <1>1, <2>1, SubSeqProperties DEF AllButLast
<1> QED
  BY <1>2, <1>3

\* The sequence on a link after a send on it, and on the others.
LEMMA SendIs ==
  ASSUME NEW channels \in [Link -> Seq(Packet)], NEW n, NEW to,
         NEW pkts \in Seq(Packet)
  PROVE  Send(channels, n, to, pkts) \in [Link -> Seq(Packet)]
<1> DEFINE part == Longer(channels[<<n, to>>], pkts)
<1>1. Send(channels, n, to, pkts) = [channels EXCEPT ![<<n, to>>] = part]
  BY DEF Send, Longer
<1>2. ASSUME <<n, to>> \in Link PROVE part \in Seq(Packet)
  <2>1. channels[<<n, to>>] \in Seq(Packet)
    BY <1>2
  <2> QED
    BY <2>1, LongerIs
<1> HIDE DEF part
<1> QED
  BY <1>1, <1>2

\* Sending changes one link.
LEMMA SendOn ==
  ASSUME NEW channels \in [Link -> Seq(Packet)], NEW n \in Node, NEW to \in Node,
         NEW pkts \in Seq(Packet)
  PROVE  Send(channels, n, to, pkts)[<<n, to>>] = Longer(channels[<<n, to>>], pkts)
<1>1. <<n, to>> \in Link
  BY DEF Link
<1> QED
  BY <1>1 DEF Send, Longer

\* A link that is not sent on stays.
LEMMA SendNotOn ==
  ASSUME NEW channels \in [Link -> Seq(Packet)], NEW n, NEW to,
         NEW pkts \in Seq(Packet), NEW l \in Link, l # <<n, to>>
  PROVE  Send(channels, n, to, pkts)[l] = channels[l]
BY DEF Send

-----------------------------------------------------------------------------
(* Types                                                                   *)

\* A socket that was ever connected knows its peer, and so does every socket
\* of the table.
Connected ==
  \A n \in Node :
    /\ \A fd \in Fd : sock[n][fd].state \notin {"CLOSED", "LISTEN"}
                      => sock[n][fd].dest \in Node
    /\ \A p \in Node : socketTable[n][p] # NullFd
                       => sock[n][socketTable[n][p]].dest \in Node

\* A socket that is changed in place.
Put(n, fd, s) == [sock EXCEPT ![n][fd] = s]

\* The invariant after a step that changes a socket, and nothing of the table.
LEMMA PutSocket ==
  ASSUME TypeOK, Connected, NEW n \in Node, NEW fd \in Fd, NEW s \in Socket,
         sock' = Put(n, fd, s), UNCHANGED socketTable,
         \/ s.dest \in Node
         \/ s.state \in {"CLOSED", "LISTEN"} /\ s.dest = sock[n][fd].dest
  PROVE  sock' \in [Node -> [Fd -> Socket]] /\ Connected'
<1>1. sock \in [Node -> [Fd -> Socket]]
  BY DEF TypeOK
<1>2. /\ sock' \in [Node -> [Fd -> Socket]]
      /\ \A m \in Node, e \in Fd :
           sock'[m][e] = IF m = n /\ e = fd THEN s ELSE sock[m][e]
  BY <1>1 DEF Put
<1>3. \A m \in Node : \A p \in Node : socketTable[m][p] # NullFd => socketTable[m][p] \in Fd
  BY DEF TypeOK
<1>4. ASSUME NEW m \in Node
      PROVE  /\ \A e \in Fd : sock'[m][e].state \notin {"CLOSED", "LISTEN"}
                              => sock'[m][e].dest \in Node
             /\ \A p \in Node : socketTable'[m][p] # NullFd
                                => sock'[m][socketTable'[m][p]].dest \in Node
  BY <1>2, <1>3 DEF Connected
<1> QED
  BY <1>2, <1>4 DEF Connected

\* The fields of a socket.
LEMMA SocketFields ==
  ASSUME NEW s \in Socket
  PROVE  /\ s.state \in State /\ s.dest \in Node \cup {NoNode}
         /\ s.inUse \in BOOLEAN /\ s.reSend \in BOOLEAN /\ s.isResend \in BOOLEAN
         /\ s.ISN \in Byte /\ s.pendingSeq \in Byte /\ s.nextExpected \in Byte
         /\ s.lastSent \in Byte /\ s.lastAck \in Byte /\ s.lastWritten \in Pos
         /\ s.remain \in Byte
         /\ s.ISN \in Int /\ s.pendingSeq \in Int /\ s.lastSent \in Int /\ s.remain \in Int
BY DEF Socket, Byte

\* The fields that a step changes.
LEMMA SocketChange ==
  ASSUME NEW s \in Socket
  PROVE  /\ \A st \in State, b, c \in BOOLEAN :
              /\ [s EXCEPT !.inUse = b, !.state = st] \in Socket
              /\ [s EXCEPT !.state = st, !.reSend = b] \in Socket
              /\ [s EXCEPT !.reSend = b, !.state = st, !.inUse = c] \in Socket
              /\ [s EXCEPT !.state = st] \in Socket
              /\ [s EXCEPT !.isResend = b] \in Socket
              /\ \A m \in Byte :
                   /\ [s EXCEPT !.state = st, !.lastSent = m, !.reSend = b] \in Socket
                   /\ [s EXCEPT !.state = st, !.pendingSeq = m, !.reSend = b] \in Socket
         /\ "LISTEN" \in State /\ "CLOSED" \in State /\ "SYN_SENT" \in State
         /\ "SYN_RCVD" \in State /\ "ESTABLISHED" \in State
         /\ "FIN_WAIT_1" \in State /\ "FIN_WAIT_2" \in State
         /\ "TIME_WAIT" \in State /\ "LAST_ACK" \in State
<1>1. /\ "LISTEN" \in State /\ "CLOSED" \in State /\ "SYN_SENT" \in State
      /\ "SYN_RCVD" \in State /\ "ESTABLISHED" \in State
      /\ "FIN_WAIT_1" \in State /\ "FIN_WAIT_2" \in State
      /\ "TIME_WAIT" \in State /\ "LAST_ACK" \in State
  BY DEF State
<1>2. ASSUME NEW st \in State, NEW b \in BOOLEAN, NEW c \in BOOLEAN
      PROVE  /\ [s EXCEPT !.inUse = b, !.state = st] \in Socket
             /\ [s EXCEPT !.state = st, !.reSend = b] \in Socket
             /\ [s EXCEPT !.reSend = b, !.state = st, !.inUse = c] \in Socket
             /\ [s EXCEPT !.state = st] \in Socket
             /\ [s EXCEPT !.isResend = b] \in Socket
             /\ \A m \in Byte :
                  /\ [s EXCEPT !.state = st, !.lastSent = m, !.reSend = b] \in Socket
                  /\ [s EXCEPT !.state = st, !.pendingSeq = m, !.reSend = b] \in Socket
  BY DEF Socket
<1> QED
  BY <1>1, <1>2

\* Arming the retransmission of a packet.
LEMMA ArmType ==
  ASSUME TypeOK, NEW n \in Node, NEW fd \in Fd, NEW to \in Node,
         NEW pkt \in Packet, Arm(n, fd, to, pkt)
  PROVE  /\ reSendQueue' \in [Node -> Seq(ReSendEntry)]
         /\ reSendTimer' \in [Node -> BOOLEAN]
         /\ \A m \in Node : m # n => /\ reSendQueue'[m] = reSendQueue[m]
                                     /\ reSendTimer'[m] = reSendTimer[m]
         /\ reSendTimer'[n] /\ reSendQueue'[n] # <<>>
         /\ reSendQueue[n] = <<>> => reSendQueue'[n] = <<[fd |-> fd, dest |-> to, pkt |-> pkt]>>
<1> DEFINE entry == [fd |-> fd, dest |-> to, pkt |-> pkt]
<1>1. reSendQueue \in [Node -> Seq(ReSendEntry)] /\ reSendTimer \in [Node -> BOOLEAN]
  BY DEF TypeOK
<1>2. /\ reSendQueue' = [reSendQueue EXCEPT ![n] = PushBack(@, ReSendCap, entry)]
      /\ reSendTimer' = [reSendTimer EXCEPT ![n] = TRUE]
  BY DEF Arm
<1>3. entry \in ReSendEntry
  BY DEF ReSendEntry
<1> HIDE DEF entry
<1>4. /\ PushBack(reSendQueue[n], ReSendCap, entry) \in Seq(ReSendEntry)
      /\ PushBack(reSendQueue[n], ReSendCap, entry) # <<>>
      /\ reSendQueue[n] = <<>> => PushBack(reSendQueue[n], ReSendCap, entry) = <<entry>>
  <2>1. reSendQueue[n] \in Seq(ReSendEntry) /\ ReSendCap \in Nat /\ ReSendCap # 0
    BY <1>1, Sizes
  <2> QED
    BY <1>3, <2>1, PushBackIs
<1>5. /\ reSendTimer' \in [Node -> BOOLEAN] /\ reSendTimer'[n]
      /\ \A m \in Node : m # n => reSendTimer'[m] = reSendTimer[m]
  BY <1>1, <1>2, Zenon
<1> QED
  BY <1>1, <1>2, <1>4, <1>5 DEF entry

\* A packet that leaves a link.
LEMMA ConsumedIs ==
  ASSUME NEW l \in Link, net \in [Link -> Seq(Packet)], net[l] # <<>>
  PROVE  /\ Consumed(l) \in [Link -> Seq(Packet)]
         /\ \A k \in Link : Consumed(l)[k] = IF k = l THEN Tail(net[l]) ELSE net[k]
         /\ Head(net[l]) \in Packet
<1>1. Head(net[l]) \in Packet /\ Tail(net[l]) \in Seq(Packet)
  BY HeadTail
<1> QED
  BY <1>1 DEF Consumed

\* A packet that arrives.
LEMMA ArrivesIs ==
  ASSUME TypeOK, NEW from \in Node, NEW n \in Node, net[<<from, n>>] # <<>>
  PROVE  /\ <<from, n>> \in Link /\ Head(net[<<from, n>>]) \in Packet
         /\ Head(net[<<from, n>>]).seq \in Int /\ Head(net[<<from, n>>]).ack \in Byte
         /\ Head(net[<<from, n>>]).seq \in Byte /\ Head(net[<<from, n>>]).ack \in Int
         /\ Consumed(<<from, n>>) \in [Link -> Seq(Packet)]
         /\ Lookup(n, from) \in Fd
<1>1. <<from, n>> \in Link /\ net \in [Link -> Seq(Packet)]
  BY DEF Link, TypeOK
<1>2. Head(net[<<from, n>>]) \in Packet /\ Consumed(<<from, n>>) \in [Link -> Seq(Packet)]
  BY <1>1, ConsumedIs
<1>3. Lookup(n, from) \in Fd
  BY Sizes DEF Lookup, TypeOK
<1>4. Byte \subseteq Int /\ \A p \in Packet : p.seq \in Byte /\ p.ack \in Byte
  BY DEF Packet, Byte
<1> QED
  BY <1>1, <1>2, <1>3, <1>4

\* One packet to send, or two.
LEMMA PktSeq ==
  ASSUME NEW p \in Packet
  PROVE  <<>> \in Seq(Packet) /\ <<p>> \in Seq(Packet)
         /\ \A q \in Packet : <<p, q>> \in Seq(Packet)
OBVIOUS

\* The user's commands keep the types.
LEMMA TypesInitServer ==
  ASSUME TypeOK, Connected, NEW n \in Node, InitServer(n)
  PROVE  TypeOK' /\ Connected'
<1> DEFINE fd == PopBack(fdQueue[n])
           s == [sock[n][fd] EXCEPT !.inUse = TRUE, !.state = "LISTEN"]
<1>1. /\ sock' = [sock EXCEPT ![n][fd].inUse = TRUE, ![n][fd].state = "LISTEN"]
      /\ globalFd' = [globalFd EXCEPT ![n] = fd]
      /\ fdQueue' = [fdQueue EXCEPT ![n] = AllButLast(@)]
      /\ UNCHANGED <<socketTable, reSendVars, dataTimer, closeVars, receiveVars,
                     appVars, net, lost, early>>
      /\ sock[n][fd].state = "CLOSED" \/ fd \notin Fd
  BY DEF InitServer
<1>2. fdQueue[n] \in Seq(Fd) /\ sock \in [Node -> [Fd -> Socket]]
  BY DEF TypeOK
<1>3. fd \in Fd /\ AllButLast(fdQueue[n]) \in Seq(Fd)
  BY <1>2, PopBackType
<1> HIDE DEF fd
<1>4. s \in Socket /\ s.state = "LISTEN" /\ s.dest = sock[n][fd].dest
  <2>1. sock[n][fd] \in Socket
    BY <1>2, <1>3
  <2>2. s \in Socket
    BY <2>1, SocketChange
  <2> QED
    BY <2>1, <2>2 DEF Socket
<1>5. sock' = Put(n, fd, s)
  BY <1>1, <1>2, <1>3 DEF Put
<1> HIDE DEF s
<1>6. sock' \in [Node -> [Fd -> Socket]] /\ Connected'
  BY <1>1, <1>3, <1>4, <1>5, PutSocket
<1>7. globalFd' \in [Node -> Fd] /\ fdQueue' \in [Node -> Seq(Fd)]
  BY <1>1, <1>3 DEF TypeOK
<1> QED
  BY <1>1, <1>6, <1>7 DEF TypeOK, reSendVars, closeVars, receiveVars, appVars

\* A dial keeps the types.
LEMMA TypesDial ==
  ASSUME TypeOK, Connected, NEW n \in Node, NEW server \in Servers, Dial(n, server)
  PROVE  TypeOK' /\ Connected'
<1> DEFINE fd == PopBack(fdQueue[n])
           S(r) == [sock[n][fd] EXCEPT !.inUse = TRUE, !.state = "SYN_SENT",
                                       !.dest = server, !.ISN = r, !.lastSent = r,
                                       !.lastAck = r, !.lastWritten = r,
                                       !.reSend = TRUE]
<1>1. PICK r \in RandSeq :
        /\ sock' = [sock EXCEPT ![n][fd] = S(r)]
        /\ Arm(n, fd, server, Pkt("SYN", r, 0))
        /\ net' = Send(net, n, server, <<Pkt("SYN", r, 0)>>)
  BY DEF Dial
<1>2. /\ socketTable' = [socketTable EXCEPT ![n][server] = fd]
      /\ fdQueue' = [fdQueue EXCEPT ![n] = AllButLast(@)]
      /\ dialed' = [dialed EXCEPT ![n] = @ + 1]
      /\ UNCHANGED <<globalFd, dataTimer, closeVars, receiveVars, localFd, users,
                     lost, early>>
  BY DEF Dial
<1>3. fdQueue[n] \in Seq(Fd) /\ sock \in [Node -> [Fd -> Socket]] /\ server \in Node
      /\ net \in [Link -> Seq(Packet)]
  BY NodeAssumption DEF TypeOK
<1>4. fd \in Fd /\ AllButLast(fdQueue[n]) \in Seq(Fd) /\ fd # NullFd
  BY <1>3, PopBackType, Sizes
<1>5. r \in Byte /\ r \in Pos /\ r \in Int
  BY Sizes DEF Byte
<1> DEFINE pkt == Pkt("SYN", r, 0)
<1>6. pkt \in Packet
  BY <1>5, PktType
<1> HIDE DEF fd, pkt
<1>7. S(r) \in Socket /\ S(r).dest = server
  <2>1. sock[n][fd] \in Socket /\ "SYN_SENT" \in State
    BY <1>3, <1>4 DEF State
  <2> QED
    BY <1>3, <1>5, <2>1 DEF Socket
<1> DEFINE s == S(r)
<1>8. sock' = [sock EXCEPT ![n][fd] = s] /\ s \in Socket /\ s.dest = server
  BY <1>1, <1>7
<1> HIDE DEF s, S
<1>9. sock' \in [Node -> [Fd -> Socket]]
      /\ \A m \in Node, e \in Fd :
           sock'[m][e] = IF m = n /\ e = fd THEN s ELSE sock[m][e]
  BY <1>3, <1>4, <1>8
<1>10. /\ socketTable' \in [Node -> [Node -> Fd \cup {NullFd}]]
       /\ \A m, p \in Node :
            socketTable'[m][p] = IF m = n /\ p = server THEN fd ELSE socketTable[m][p]
  BY <1>2, <1>3, <1>4 DEF TypeOK
<1>11. Connected'
  <2>1. \A m, p \in Node : socketTable[m][p] # NullFd => socketTable[m][p] \in Fd
    BY DEF TypeOK
  <2>2. ASSUME NEW m \in Node, NEW e \in Fd, sock'[m][e].state \notin {"CLOSED", "LISTEN"}
        PROVE  sock'[m][e].dest \in Node
    BY <1>3, <1>8, <1>9, <2>2 DEF Connected
  <2>3. ASSUME NEW m \in Node, NEW p \in Node, socketTable'[m][p] # NullFd
        PROVE  sock'[m][socketTable'[m][p]].dest \in Node
    <3>1. CASE m = n /\ p = server
      BY <1>3, <1>4, <1>8, <1>9, <1>10, <3>1
    <3>2. CASE ~(m = n /\ p = server)
      <4>1. socketTable'[m][p] = socketTable[m][p] /\ socketTable[m][p] \in Fd
            /\ sock[m][socketTable[m][p]].dest \in Node
        BY <1>10, <2>1, <2>3, <3>2 DEF Connected
      <4> QED
        BY <1>3, <1>8, <1>9, <4>1
    <3> QED
      BY <3>1, <3>2
  <2> QED
    BY <2>2, <2>3 DEF Connected
<1>12. net' \in [Link -> Seq(Packet)]
  <2>1. <<pkt>> \in Seq(Packet)
    BY <1>6
  <2> QED
    BY <1>1, <1>3, <2>1, SendIs DEF pkt
<1>13. reSendQueue' \in [Node -> Seq(ReSendEntry)] /\ reSendTimer' \in [Node -> BOOLEAN]
  BY <1>1, <1>3, <1>4, <1>6, ArmType DEF pkt
<1>14. fdQueue' \in [Node -> Seq(Fd)] /\ dialed' \in [Node -> Nat]
  BY <1>2, <1>4 DEF TypeOK
<1> QED
  BY <1>2, <1>9, <1>10, <1>11, <1>12, <1>13, <1>14
     DEF TypeOK, closeVars, receiveVars

\* So does a close.
LEMMA TypesClose ==
  ASSUME TypeOK, Connected, NEW n \in Node, Close(n)
  PROVE  TypeOK' /\ Connected'
<1> DEFINE fd == localFd[n]
           peer == sock[n][fd].dest
           seq == U8(sock[n][fd].lastSent + 1)
           fin == Pkt("FIN", seq, sock[n][fd].pendingSeq + 1)
           s == [sock[n][fd] EXCEPT !.state = "FIN_WAIT_1", !.lastSent = seq,
                                    !.reSend = TRUE]
<1>1. /\ fd # NullFd
      /\ sock[n][fd].state \in {"ESTABLISHED", "FIN_WAIT_1"}
      /\ sock' = [sock EXCEPT ![n][fd].state = "FIN_WAIT_1",
                              ![n][fd].lastSent = seq,
                              ![n][fd].reSend = TRUE]
      /\ Arm(n, fd, peer, fin)
      /\ net' = Send(net, n, peer, <<fin>>)
      /\ UNCHANGED <<fdVars, dataTimer, closeVars, receiveVars, appVars, lost,
                     early>>
  BY DEF Close
<1>2. /\ sock \in [Node -> [Fd -> Socket]] /\ fd \in Fd /\ sock[n][fd] \in Socket
      /\ net \in [Link -> Seq(Packet)]
  BY <1>1 DEF TypeOK
<1>3. peer \in Node /\ seq \in Byte /\ seq \in Int
  <2>1. peer \in Node
    BY <1>1, <1>2 DEF Connected
  <2>2. sock[n][fd].lastSent \in Int
    BY <1>2, SocketFields
  <2>3. seq \in Byte
    BY <2>2, ByteType
  <2> QED
    BY <2>1, <2>3, ByteType
<1>4. fin \in Packet
  BY <1>2, <1>3, SocketFields, PktType
<1>5. sock' = Put(n, fd, s)
  BY <1>1, <1>2 DEF Put
<1>6. s \in Socket /\ s.dest = peer
  <2>1. s \in Socket
    BY <1>2, <1>3, SocketChange
  <2> QED
    BY <1>2, <2>1 DEF Socket
<1> HIDE DEF fd, peer, seq, fin, s
<1>7. sock' \in [Node -> [Fd -> Socket]] /\ Connected'
  <2>1. UNCHANGED socketTable
    BY <1>1 DEF fdVars
  <2> QED
    BY <1>2, <1>3, <1>5, <1>6, <2>1, PutSocket
<1>8. net' \in [Link -> Seq(Packet)]
  BY <1>1, <1>2, <1>4, PktSeq, SendIs
<1>9. reSendQueue' \in [Node -> Seq(ReSendEntry)] /\ reSendTimer' \in [Node -> BOOLEAN]
  BY <1>1, <1>2, <1>3, <1>4, ArmType
<1> QED
  BY <1>1, <1>7, <1>8, <1>9
     DEF TypeOK, fdVars, closeVars, receiveVars, appVars

\* So does a handler that returns without effect, and one that only answers.
LEMMA TypesIgnored ==
  ASSUME TypeOK, Connected, NEW from \in Node, NEW n \in Node,
         net[<<from, n>>] # <<>>,
         \/ Ignored(from, n)
         \/ \E p \in Packet : Answered(from, n, <<p>>)
  PROVE  TypeOK' /\ Connected'
<1>1. /\ net' \in [Link -> Seq(Packet)]
      /\ UNCHANGED <<sock, fdVars, reSendVars, dataTimer, closeVars, receiveVars,
                     appVars, lost, early>>
  <2>1. Consumed(<<from, n>>) \in [Link -> Seq(Packet)]
    BY ArrivesIs
  <2>2. CASE Ignored(from, n)
    BY <2>1, <2>2 DEF Ignored
  <2>3. ASSUME NEW p \in Packet, Answered(from, n, <<p>>)
        PROVE  /\ net' \in [Link -> Seq(Packet)]
               /\ UNCHANGED <<sock, fdVars, reSendVars, dataTimer, closeVars,
                              receiveVars, appVars, lost, early>>
    <3>1. /\ net' = Send(Consumed(<<from, n>>), n, from, <<p>>)
          /\ UNCHANGED <<sock, fdVars, reSendVars, dataTimer, closeVars,
                         receiveVars, appVars, lost, early>>
      BY <2>3 DEF Answered
    <3> QED
      BY <2>1, <3>1, PktSeq, SendIs
  <2> QED
    BY <2>2, <2>3
<1>2. Connected'
  BY <1>1 DEF Connected, fdVars
<1> QED
  BY <1>1, <1>2
     DEF TypeOK, fdVars, reSendVars, closeVars, receiveVars, appVars

\* So does a SYN.
LEMMA TypesReceiveSYN ==
  ASSUME TypeOK, Connected, NEW from \in Node, NEW n \in Node, ReceiveSYN(from, n)
  PROVE  TypeOK' /\ Connected'
<1>1. net[<<from, n>>] # <<>>
  BY DEF ReceiveSYN, Arrives
<1>2. CASE sock[n][globalFd[n]].state # "LISTEN"
  <2>1. Ignored(from, n)
    BY <1>2 DEF ReceiveSYN
  <2> QED
    BY <1>1, <2>1, TypesIgnored
<1>3. CASE sock[n][globalFd[n]].state = "LISTEN"
  <2> DEFINE pkt == Head(net[<<from, n>>])
             known == socketTable[n][from] # NullFd
             fd == IF known THEN socketTable[n][from] ELSE PopBack(fdQueue[n])
             reply == Pkt("SYN", sock[n][fd].ISN, pkt.seq + 1)
             s == [sock[n][fd] EXCEPT !.state = "SYN_RCVD", !.dest = from,
                                      !.nextExpected = U8(pkt.seq + 1),
                                      !.reSend = TRUE]
  <2>1. /\ sock' = [sock EXCEPT ![n][fd] = s]
        /\ socketTable' = [socketTable EXCEPT ![n][from] = fd]
        /\ fdQueue' = [fdQueue EXCEPT ![n] = IF known \/ @ = <<>> THEN @
                                                                  ELSE AllButLast(@)]
        /\ IF sock[n][fd].reSend THEN UNCHANGED reSendVars
                                 ELSE Arm(n, fd, from, reply)
        /\ net' = Send(Consumed(<<from, n>>), n, from, <<reply>>)
        /\ UNCHANGED <<globalFd, dataTimer, closeVars, receiveVars,
                       appVars, lost, early>>
    BY <1>3 DEF ReceiveSYN
  <2>2. /\ fdQueue[n] \in Seq(Fd) /\ sock \in [Node -> [Fd -> Socket]]
        /\ fdQueue \in [Node -> Seq(Fd)]
        /\ socketTable \in [Node -> [Node -> Fd \cup {NullFd}]]
    BY DEF TypeOK
  <2>3. fd \in Fd /\ AllButLast(fdQueue[n]) \in Seq(Fd) /\ fd # NullFd
    BY <2>2, PopBackType, Sizes
  <2>4. sock[n][fd] \in Socket /\ pkt.seq + 1 \in Int
    <3>1. pkt.seq \in Int
      BY <1>1, ArrivesIs
    <3> HIDE DEF pkt
    <3> QED
      BY <2>2, <2>3, <3>1
  <2>5. reply \in Packet
    BY <2>4, SocketFields, PktType
  <2>6. s \in Socket /\ s.dest = from
    <3>1. U8(pkt.seq + 1) \in Byte /\ "SYN_RCVD" \in State
      BY <2>4, ByteType DEF State
    <3> QED
      BY <2>4, <3>1 DEF Socket
  <2>7. fdQueue' \in [Node -> Seq(Fd)]
    BY <2>1, <2>2, <2>3
  <2> HIDE DEF fd, reply, s, known
  <2>8. sock' \in [Node -> [Fd -> Socket]]
        /\ \A m \in Node, e \in Fd :
             sock'[m][e] = IF m = n /\ e = fd THEN s ELSE sock[m][e]
    BY <2>1, <2>2, <2>3, <2>6
  <2>9. /\ socketTable' \in [Node -> [Node -> Fd \cup {NullFd}]]
        /\ \A m, p \in Node :
             socketTable'[m][p] = IF m = n /\ p = from THEN fd ELSE socketTable[m][p]
    BY <2>1, <2>2, <2>3
  <2>10. Connected'
    <3>1. \A m, p \in Node : socketTable[m][p] # NullFd => socketTable[m][p] \in Fd
      BY DEF TypeOK
    <3>2. ASSUME NEW m \in Node, NEW e \in Fd, sock'[m][e].state \notin {"CLOSED", "LISTEN"}
          PROVE  sock'[m][e].dest \in Node
      BY <2>6, <2>8, <3>2 DEF Connected
    <3>3. ASSUME NEW m \in Node, NEW p \in Node, socketTable'[m][p] # NullFd
          PROVE  sock'[m][socketTable'[m][p]].dest \in Node
      <4>1. CASE m = n /\ p = from
        BY <2>3, <2>6, <2>8, <2>9, <4>1
      <4>2. CASE ~(m = n /\ p = from)
        <5>1. socketTable'[m][p] = socketTable[m][p] /\ socketTable[m][p] \in Fd
              /\ sock[m][socketTable[m][p]].dest \in Node
          BY <2>9, <3>1, <3>3, <4>2 DEF Connected
        <5> QED
          BY <2>6, <2>8, <5>1
      <4> QED
        BY <4>1, <4>2
    <3> QED
      BY <3>2, <3>3 DEF Connected
  <2>11. net' \in [Link -> Seq(Packet)]
    BY <1>1, <2>1, <2>5, ArrivesIs, PktSeq, SendIs
  <2>12. reSendQueue' \in [Node -> Seq(ReSendEntry)] /\ reSendTimer' \in [Node -> BOOLEAN]
    <3>1. CASE sock[n][fd].reSend
      BY <2>1, <3>1 DEF TypeOK, reSendVars
    <3>2. CASE ~sock[n][fd].reSend
      BY <2>1, <2>3, <2>5, <3>2, ArmType
    <3> QED
      BY <3>1, <3>2
  <2> QED
    BY <2>1, <2>7, <2>8, <2>9, <2>10, <2>11, <2>12
       DEF TypeOK, closeVars, receiveVars, appVars
<1> QED
  BY <1>2, <1>3

\* The line that connectDone writes.
LEMMA WriteType ==
  ASSUME NEW s \in Socket
  PROVE  /\ AfterWrite(s) \in Socket /\ AfterWrite(s).dest = s.dest
         /\ AfterWrite(s).state = s.state /\ AfterWrite(s).inUse = s.inUse
         /\ AfterWrite(s).reSend = s.reSend
         /\ AfterWrite(s).isResend = IF s.remain = 0 THEN TRUE ELSE s.isResend
         /\ DataPkt(AfterWrite(s)) \in Packet /\ DataPkt(AfterWrite(s)).flag = "DATA"
<1> DEFINE written == (s.lastWritten + HelloLen) % 128
           first == [s EXCEPT !.lastWritten = written, !.remain = HelloLen,
                              !.lastSent = written, !.isResend = TRUE]
           next == [s EXCEPT !.lastWritten = written, !.remain = U8(s.remain + HelloLen)]
<1>1. /\ written \in Pos /\ written \in Byte /\ HelloLen \in Byte
      /\ U8(s.remain + HelloLen) \in Byte
  <2>1. s.lastWritten \in Int /\ s.remain \in Int /\ HelloLen \in Int
    BY SocketFields, Sizes DEF Pos
  <2>2. s.lastWritten + HelloLen \in Int /\ s.remain + HelloLen \in Int
    BY <2>1
  <2>3. HelloLen \in Byte
    BY SeqAssumption DEF Byte
  <2> QED
    BY <2>2, <2>3, ByteType, Sizes
<1>2. AfterWrite(s) = IF s.remain = 0 THEN first ELSE next
  BY DEF AfterWrite
<1> HIDE DEF written
<1>3. first \in Socket /\ next \in Socket
  BY <1>1 DEF Socket
<1>4. /\ first.dest = s.dest /\ first.state = s.state /\ first.inUse = s.inUse
      /\ first.reSend = s.reSend /\ first.isResend = TRUE
      /\ next.dest = s.dest /\ next.state = s.state /\ next.inUse = s.inUse
      /\ next.reSend = s.reSend /\ next.isResend = s.isResend
  BY DEF Socket
<1> HIDE DEF first, next
<1>5. \A t \in Socket : DataPkt(t) \in Packet /\ DataPkt(t).flag = "DATA"
  BY SocketFields, PktType DEF DataPkt
<1> QED
  BY <1>2, <1>3, <1>4, <1>5

\* So does a SYN+ACK, and the line the client writes then.
LEMMA TypesReceiveSYNACK ==
  ASSUME TypeOK, Connected, NEW from \in Node, NEW n \in Node, ReceiveSYNACK(from, n)
  PROVE  TypeOK' /\ Connected'
<1>1. net[<<from, n>>] # <<>>
  BY DEF ReceiveSYNACK, Arrives
<1>2. CASE socketTable[n][from] = NullFd
  <2>1. Ignored(from, n)
    BY <1>2 DEF ReceiveSYNACK
  <2> QED
    BY <1>1, <2>1, TypesIgnored
<1>3. CASE socketTable[n][from] # NullFd
  <2> DEFINE pkt == Head(net[<<from, n>>])
             fd == socketTable[n][from]
             open == [sock[n][fd] EXCEPT !.state = "ESTABLISHED",
                                         !.pendingSeq = U8(pkt.seq + 1),
                                         !.reSend = FALSE]
             written == AfterWrite(open)
             transmits == open.remain = 0
             ack == Pkt("ACK", pkt.ack, pkt.seq + 1)
  <2>1. /\ sock' = [sock EXCEPT ![n][fd] = written]
        /\ localFd' = [localFd EXCEPT ![n] = fd]
        /\ dataTimer' = [dataTimer EXCEPT ![n] = @ \/ transmits]
        /\ net' = Send(Consumed(<<from, n>>), n, from,
                       IF transmits THEN <<ack, DataPkt(written)>> ELSE <<ack>>)
        /\ UNCHANGED <<fdVars, reSendVars, closeVars, receiveVars,
                       users, dialed, lost, early>>
    BY <1>3 DEF ReceiveSYNACK
  <2>2. /\ sock \in [Node -> [Fd -> Socket]] /\ fd \in Fd /\ sock[n][fd] \in Socket
        /\ pkt.seq + 1 \in Int /\ pkt.ack \in Int
    <3>1. pkt.seq \in Int /\ pkt.ack \in Int
      BY <1>1, ArrivesIs
    <3>2. sock \in [Node -> [Fd -> Socket]] /\ fd \in Fd
      BY <1>3 DEF TypeOK
    <3> HIDE DEF pkt, fd
    <3> QED
      BY <3>1, <3>2
  <2>3. open \in Socket /\ open.dest = sock[n][fd].dest
    <3>1. U8(pkt.seq + 1) \in Byte /\ "ESTABLISHED" \in State
      BY <2>2, ByteType DEF State
    <3>2. open \in Socket
      BY <2>2, <3>1, SocketChange
    <3> QED
      BY <2>2, <3>2 DEF Socket
  <2>4. ack \in Packet
    BY <2>2, PktType
  <2>5. sock[n][fd].dest \in Node
    BY <1>3 DEF Connected
  <2> HIDE DEF open, ack
  <2>6. written \in Socket /\ written.dest \in Node /\ DataPkt(written) \in Packet
    BY <2>3, <2>5, WriteType
  <2> HIDE DEF written, fd
  <2>7. sock' \in [Node -> [Fd -> Socket]] /\ Connected'
    <3>1. sock' = Put(n, fd, written) /\ UNCHANGED socketTable
      BY <2>1 DEF Put, fdVars
    <3> QED
      BY <2>2, <2>6, <3>1, PutSocket
  <2>8. net' \in [Link -> Seq(Packet)]
    <3> DEFINE pkts == IF transmits THEN <<ack, DataPkt(written)>> ELSE <<ack>>
    <3>1. pkts \in Seq(Packet)
      BY <2>4, <2>6
    <3>2. net' = Send(Consumed(<<from, n>>), n, from, pkts)
      BY <2>1
    <3> HIDE DEF pkts
    <3> QED
      BY <1>1, <3>1, <3>2, ArrivesIs, SendIs
  <2>9. localFd' \in [Node -> Fd \cup {NullFd}]
    BY <2>1, <2>2 DEF TypeOK
  <2>10. dataTimer' \in [Node -> BOOLEAN]
    <3>1. dataTimer \in [Node -> BOOLEAN]
      BY DEF TypeOK
    <3> QED
      BY <2>1, <3>1, Zenon
  <2> QED
    BY <2>1, <2>7, <2>8, <2>9, <2>10
       DEF TypeOK, fdVars, reSendVars, closeVars, receiveVars
<1> QED
  BY <1>2, <1>3

\* So does the ACK that ends the handshake.
LEMMA TypesAckOfSYN ==
  ASSUME TypeOK, Connected, NEW from \in Node, NEW n \in Node, AckOfSYN(from, n)
  PROVE  TypeOK' /\ Connected'
<1> DEFINE pkt == Head(net[<<from, n>>])
           fd == Lookup(n, from)
           S(r) == [sock[n][fd] EXCEPT
                      !.ISN = U8(sock[n][fd].ISN + 1), !.state = "ESTABLISHED",
                      !.reSend = FALSE, !.pendingSeq = U8(pkt.seq - 1),
                      !.lastWritten = r, !.lastSent = r, !.lastAck = r]
<1>1. net[<<from, n>>] # <<>>
  BY DEF AckOfSYN, Arrives
<1>2. CASE pkt.ack # sock[n][fd].ISN + 1
  <2>1. Ignored(from, n)
    BY <1>2 DEF AckOfSYN
  <2> QED
    BY <1>1, <2>1, TypesIgnored
<1>3. CASE pkt.ack = sock[n][fd].ISN + 1
  <2>1. PICK r \in RandSeq : sock' = [sock EXCEPT ![n][fd] = S(r)]
    BY <1>3 DEF AckOfSYN
  <2>2. /\ sock[n][fd].state = "SYN_RCVD"
        /\ users' = [users EXCEPT ![n][from] = [accept |-> TRUE, fd |-> fd]]
        /\ net' = Consumed(<<from, n>>)
        /\ UNCHANGED <<fdVars, reSendVars, dataTimer, closeVars,
                       receiveVars, localFd, dialed, lost, early>>
    BY <1>3 DEF AckOfSYN
  <2>3. /\ sock \in [Node -> [Fd -> Socket]] /\ fd \in Fd /\ pkt.seq \in Int
        /\ net' \in [Link -> Seq(Packet)]
    BY <1>1, <2>2, ArrivesIs DEF TypeOK
  <2> HIDE DEF fd, pkt
  <2>4. sock[n][fd] \in Socket
    BY <2>3
  <2>5. sock[n][fd].dest \in Node
    BY <2>2, <2>3 DEF Connected
  <2>6. S(r) \in Socket /\ S(r).dest = sock[n][fd].dest
    <3>1. U8(sock[n][fd].ISN + 1) \in Byte /\ U8(pkt.seq - 1) \in Byte
      <4>1. sock[n][fd].ISN + 1 \in Int /\ pkt.seq - 1 \in Int
        BY <2>3, <2>4, SocketFields
      <4> QED
        BY <4>1, ByteType
    <3>2. r \in Byte /\ r \in Pos /\ "ESTABLISHED" \in State
      BY Sizes DEF State
    <3> QED
      BY <2>4, <3>1, <3>2 DEF Socket
  <2> DEFINE s == S(r)
  <2>7. sock' = [sock EXCEPT ![n][fd] = s] /\ s \in Socket /\ s.dest \in Node
    BY <2>1, <2>5, <2>6
  <2> HIDE DEF s, S
  <2>8. sock' \in [Node -> [Fd -> Socket]] /\ Connected'
    <3>1. sock' = Put(n, fd, s) /\ UNCHANGED socketTable
      BY <2>2, <2>7 DEF Put, fdVars
    <3> QED
      BY <2>3, <2>7, <3>1, PutSocket
  <2>9. users' \in [Node -> [Node -> User]]
    BY <2>2, <2>3 DEF TypeOK, User
  <2> QED
    BY <2>2, <2>3, <2>8, <2>9
       DEF TypeOK, fdVars, reSendVars, closeVars, receiveVars
<1> QED
  BY <1>2, <1>3

\* What update() makes of a socket.
LEMMA UpdateType ==
  ASSUME NEW s \in Socket, NEW pkt \in Packet
  PROVE  /\ AfterUpdate(s, pkt) \in Socket /\ AfterUpdate(s, pkt).dest = s.dest
         /\ AfterUpdate(s, pkt).state = s.state
         /\ AfterUpdate(s, pkt).inUse = s.inUse
         /\ AfterUpdate(s, pkt).reSend = s.reSend
         /\ AfterUpdate(s, pkt).isResend = s.isResend
<1>1. pkt.seq \in Byte /\ pkt.ack \in Byte
  BY DEF Packet
<1>2. Acked(pkt) \in Byte
  <2>1. pkt.ack - 1 \in Int /\ 255 \in Byte
    BY <1>1 DEF Byte
  <2>2. (pkt.ack - 1) % 128 \in Byte
    BY <2>1, ByteType, Sizes
  <2> QED
    BY <2>1, <2>2 DEF Acked
<1>3. Unacked(s, pkt) \in Byte
  <2>1. s.lastSent \in Int /\ s.remain \in Byte /\ Acked(pkt) \in Int
    BY <1>2, SocketFields, ByteType
  <2>2. s.lastSent - Acked(pkt) \in Int
    BY <2>1
  <2>3. (s.lastSent - Acked(pkt)) % 128 \in Byte
    BY <2>2, ByteType, Sizes
  <2> QED
    BY <2>1, <2>3 DEF Unacked
<1> DEFINE t == [s EXCEPT !.lastAck = Acked(pkt), !.pendingSeq = pkt.seq,
                          !.remain = Unacked(s, pkt)]
<1>4. AfterUpdate(s, pkt) = IF IsNews(s, pkt) THEN t ELSE s
  BY DEF AfterUpdate
<1>5. /\ t \in Socket /\ t.dest = s.dest /\ t.state = s.state
      /\ t.inUse = s.inUse /\ t.reSend = s.reSend /\ t.isResend = s.isResend
  BY <1>1, <1>2, <1>3 DEF Socket
<1> HIDE DEF t
<1> QED
  BY <1>4, <1>5

\* So does an ACK in FIN_WAIT_1 or ESTABLISHED.
LEMMA TypesAckOfFINorData ==
  ASSUME TypeOK, Connected, NEW from \in Node, NEW n \in Node,
         AckOfFINorData(from, n)
  PROVE  TypeOK' /\ Connected'
<1> DEFINE pkt == Head(net[<<from, n>>])
           fd == Lookup(n, from)
           s == sock[n][fd]
           t == IF s.state = "ESTABLISHED" THEN AfterUpdate(s, pkt)
                ELSE IF AcksFin(s, pkt)
                     THEN [s EXCEPT !.state = "FIN_WAIT_2", !.reSend = FALSE]
                     ELSE s
<1>1. /\ net[<<from, n>>] # <<>>
      /\ s.state \in {"FIN_WAIT_1", "ESTABLISHED"}
      /\ sock' = [sock EXCEPT ![n][fd] = t]
      /\ net' = Consumed(<<from, n>>)
      /\ UNCHANGED <<fdVars, reSendVars, dataTimer, closeVars, receiveVars,
                     appVars, lost, early>>
  BY DEF AckOfFINorData, Arrives
<1>2. /\ sock \in [Node -> [Fd -> Socket]] /\ fd \in Fd /\ pkt \in Packet
      /\ net' \in [Link -> Seq(Packet)]
  BY <1>1, ArrivesIs DEF TypeOK
<1> HIDE DEF fd, pkt
<1>3. s \in Socket /\ s.dest \in Node
  BY <1>1, <1>2 DEF Connected
<1> HIDE DEF s
<1>4. t \in Socket /\ t.dest = s.dest
  <2>1. /\ AfterUpdate(s, pkt) \in Socket /\ AfterUpdate(s, pkt).dest = s.dest
    BY <1>2, <1>3, UpdateType
  <2> DEFINE u == [s EXCEPT !.state = "FIN_WAIT_2", !.reSend = FALSE]
  <2>2. u \in Socket
    BY <1>3, SocketChange
  <2>3. u.dest = s.dest
    BY <1>3 DEF Socket
  <2> HIDE DEF u
  <2>4. t = IF s.state = "ESTABLISHED" THEN AfterUpdate(s, pkt)
            ELSE IF AcksFin(s, pkt) THEN u ELSE s
    BY DEF u
  <2> HIDE DEF t
  <2> QED
    BY <1>3, <2>1, <2>2, <2>3, <2>4
<1> HIDE DEF t
<1>5. sock' \in [Node -> [Fd -> Socket]] /\ Connected'
  <2>1. sock' = Put(n, fd, t) /\ UNCHANGED socketTable
    BY <1>1 DEF Put, fdVars
  <2> QED
    BY <1>2, <1>3, <1>4, <2>1, PutSocket
<1> QED
  BY <1>1, <1>2, <1>5
     DEF TypeOK, fdVars, reSendVars, closeVars, receiveVars, appVars

\* The application forgets a connection.
LEMMA ForgetType ==
  ASSUME TypeOK, NEW n \in Node, NEW fd \in Fd, Forget(n, fd)
  PROVE  /\ localFd' \in [Node -> Fd \cup {NullFd}]
         /\ users' \in [Node -> [Node -> User]]
<1>1. /\ localFd \in [Node -> Fd \cup {NullFd}]
      /\ users \in [Node -> [Node -> User]]
  BY DEF TypeOK
<1>2. CASE n \notin Servers
  BY <1>1, <1>2 DEF Forget
<1>3. CASE n \in Servers
  <2> DEFINE known == [peer \in Node |-> IF users[n][peer].fd = fd
                                         THEN [accept |-> FALSE, fd |-> NullFd]
                                         ELSE users[n][peer]]
  <2>1. users' = [users EXCEPT ![n] = known] /\ localFd' = localFd
    BY <1>3 DEF Forget
  <2>2. known \in [Node -> User]
    BY <1>1 DEF User
  <2> HIDE DEF known
  <2> QED
    BY <1>1, <2>1, <2>2
<1> QED
  BY <1>2, <1>3

\* A connection that leaves the socket table.
LEMMA RemoveConnected ==
  ASSUME TypeOK, Connected, NEW n \in Node, NEW fd \in Fd, NEW s \in Socket,
         s.state = "CLOSED", s.dest = sock[n][fd].dest,
         NEW peer, sock' = Put(n, fd, s),
         socketTable' = [socketTable EXCEPT ![n][peer] = NullFd]
  PROVE  /\ sock' \in [Node -> [Fd -> Socket]] /\ Connected'
         /\ socketTable' \in [Node -> [Node -> Fd \cup {NullFd}]]
<1>1. /\ sock \in [Node -> [Fd -> Socket]]
      /\ socketTable \in [Node -> [Node -> Fd \cup {NullFd}]]
  BY DEF TypeOK
<1>2. /\ sock' \in [Node -> [Fd -> Socket]]
      /\ \A m \in Node, e \in Fd :
           sock'[m][e] = IF m = n /\ e = fd THEN s ELSE sock[m][e]
  BY <1>1 DEF Put
<1>3. /\ socketTable' \in [Node -> [Node -> Fd \cup {NullFd}]]
      /\ \A m, p \in Node : socketTable'[m][p] # NullFd
                            => socketTable'[m][p] = socketTable[m][p]
  BY <1>1
<1>4. ASSUME NEW m \in Node, NEW e \in Fd, sock'[m][e].state \notin {"CLOSED", "LISTEN"}
      PROVE  sock'[m][e].dest \in Node
  BY <1>2, <1>4 DEF Connected
<1>5. ASSUME NEW m \in Node, NEW p \in Node, socketTable'[m][p] # NullFd
      PROVE  sock'[m][socketTable'[m][p]].dest \in Node
  <2>1. /\ socketTable'[m][p] = socketTable[m][p] /\ socketTable[m][p] \in Fd
        /\ sock[m][socketTable[m][p]].dest \in Node
    BY <1>1, <1>3, <1>5 DEF Connected
  <2> QED
    BY <1>2, <2>1
<1> QED
  BY <1>2, <1>3, <1>4, <1>5 DEF Connected

\* So does the ACK that frees the server's socket.
LEMMA TypesAckOfLastFIN ==
  ASSUME TypeOK, Connected, NEW from \in Node, NEW n \in Node,
         AckOfLastFIN(from, n)
  PROVE  TypeOK' /\ Connected'
<1> DEFINE pkt == Head(net[<<from, n>>])
           fd == Lookup(n, from)
           s == [sock[n][fd] EXCEPT !.reSend = FALSE, !.state = "CLOSED",
                                    !.inUse = FALSE]
<1>1. net[<<from, n>>] # <<>>
  BY DEF AckOfLastFIN, Arrives
<1>2. CASE pkt.ack # sock[n][fd].ISN + 1
  <2>1. Ignored(from, n)
    BY <1>2 DEF AckOfLastFIN
  <2> QED
    BY <1>1, <2>1, TypesIgnored
<1>3. CASE pkt.ack = sock[n][fd].ISN + 1
  <2>1. /\ sock[n][fd].state = "LAST_ACK"
        /\ sock' = [sock EXCEPT ![n][fd] = s]
        /\ socketTable' = [socketTable EXCEPT ![n][from] = NullFd]
        /\ fdQueue' = [fdQueue EXCEPT ![n] = Append(@, fd)]
        /\ Forget(n, fd)
        /\ net' = Consumed(<<from, n>>)
        /\ UNCHANGED <<globalFd, reSendVars, dataTimer, closeVars,
                       receiveVars, dialed, lost, early>>
    BY <1>3 DEF AckOfLastFIN
  <2>2. /\ sock \in [Node -> [Fd -> Socket]] /\ fd \in Fd
        /\ net' \in [Link -> Seq(Packet)] /\ fdQueue \in [Node -> Seq(Fd)]
    BY <1>1, <2>1, ArrivesIs DEF TypeOK
  <2> HIDE DEF fd, pkt
  <2>3. s \in Socket /\ s.state = "CLOSED" /\ s.dest = sock[n][fd].dest
    <3>1. sock[n][fd] \in Socket
      BY <2>2
    <3>2. s \in Socket
      BY <3>1, SocketChange
    <3> QED
      BY <3>1, <3>2 DEF Socket
  <2> HIDE DEF s
  <2>4. /\ sock' \in [Node -> [Fd -> Socket]] /\ Connected'
        /\ socketTable' \in [Node -> [Node -> Fd \cup {NullFd}]]
    <3>1. /\ sock' = Put(n, fd, s) /\ fd \in Fd
          /\ socketTable' = [socketTable EXCEPT ![n][from] = NullFd]
      BY <2>1, <2>2 DEF Put
    <3> QED
      BY <2>3, <3>1, RemoveConnected
  <2>5. localFd' \in [Node -> Fd \cup {NullFd}] /\ users' \in [Node -> [Node -> User]]
    BY <2>1, <2>2, ForgetType
  <2>6. fdQueue' \in [Node -> Seq(Fd)]
    BY <2>1, <2>2
  <2> QED
    BY <2>1, <2>2, <2>4, <2>5, <2>6
       DEF TypeOK, reSendVars, closeVars, receiveVars
<1> QED
  BY <1>2, <1>3

\* So does the FIN of a client.
LEMMA TypesFinOfClient ==
  ASSUME TypeOK, Connected, NEW from \in Node, NEW n \in Node,
         FinOfClient(from, n)
  PROVE  TypeOK' /\ Connected'
<1> DEFINE pkt == Head(net[<<from, n>>])
           fd == Lookup(n, from)
           s == sock[n][fd]
           t == AfterFin(s)
           fin == Pkt("FIN", s.ISN, pkt.seq + 1)
           ack == Pkt("ACK", s.ISN, pkt.seq + 1)
<1>1. net[<<from, n>>] # <<>> /\ s.state = "ESTABLISHED"
  BY DEF FinOfClient, Arrives
<1>2. CASE pkt.ack # s.ISN + 1
  <2>1. Ignored(from, n)
    BY <1>2 DEF FinOfClient
  <2> QED
    BY <1>1, <2>1, TypesIgnored
<1>3. CASE pkt.ack = s.ISN + 1
  <2>1. /\ sock' = [sock EXCEPT ![n][fd] = t]
        /\ Arm(n, fd, s.dest, fin)
        /\ net' = Send(Consumed(<<from, n>>), n, s.dest, <<ack, fin>>)
        /\ UNCHANGED <<fdVars, dataTimer, closeVars, receiveVars,
                       appVars, lost, early>>
    BY <1>3 DEF FinOfClient
  <2>2. /\ sock \in [Node -> [Fd -> Socket]] /\ fd \in Fd /\ pkt.seq \in Int
        /\ Consumed(<<from, n>>) \in [Link -> Seq(Packet)]
    BY <1>1, ArrivesIs DEF TypeOK
  <2> HIDE DEF fd, pkt
  <2>3. s \in Socket /\ s.dest \in Node
    BY <1>1, <2>2 DEF Connected
  <2>4. t \in Socket /\ t.dest = s.dest
    <3>1. t \in Socket
      BY <2>3, SocketChange DEF AfterFin
    <3> QED
      BY <2>3, <3>1 DEF AfterFin, Socket
  <2>5. fin \in Packet /\ ack \in Packet
    <3>1. s.ISN \in Int /\ pkt.seq + 1 \in Int
      BY <2>2, <2>3, SocketFields
    <3> QED
      BY <3>1, PktType
  <2> HIDE DEF t, s, fin, ack
  <2>6. sock' \in [Node -> [Fd -> Socket]] /\ Connected'
    <3>1. sock' = Put(n, fd, t) /\ UNCHANGED socketTable
      BY <2>1 DEF Put, fdVars
    <3> QED
      BY <2>2, <2>3, <2>4, <3>1, PutSocket
  <2>7. net' \in [Link -> Seq(Packet)]
    <3>1. <<ack, fin>> \in Seq(Packet)
      BY <2>5
    <3> QED
      BY <2>1, <2>2, <3>1, SendIs
  <2>8. reSendQueue' \in [Node -> Seq(ReSendEntry)] /\ reSendTimer' \in [Node -> BOOLEAN]
    BY <2>1, <2>2, <2>3, <2>5, ArmType
  <2> QED
    BY <2>1, <2>6, <2>7, <2>8
       DEF TypeOK, fdVars, closeVars, receiveVars, appVars
<1> QED
  BY <1>2, <1>3

\* So does a FIN that is repeated.
LEMMA TypesFinAgain ==
  ASSUME TypeOK, Connected, NEW from \in Node, NEW n \in Node, FinAgain(from, n)
  PROVE  TypeOK' /\ Connected'
<1> DEFINE pkt == Head(net[<<from, n>>])
           s == sock[n][Lookup(n, from)]
           ack == Pkt("ACK", s.ISN, pkt.seq + 1)
<1>1. net[<<from, n>>] # <<>>
  BY DEF FinAgain, Arrives
<1>2. Ignored(from, n) \/ Answered(from, n, <<ack>>)
  BY DEF FinAgain
<1>3. sock \in [Node -> [Fd -> Socket]] /\ Lookup(n, from) \in Fd /\ pkt.seq \in Int
  BY <1>1, ArrivesIs DEF TypeOK
<1>4. ack \in Packet
  <2>1. s \in Socket
    BY <1>3
  <2>2. s.ISN \in Int /\ pkt.seq + 1 \in Int
    <3> HIDE DEF pkt, s
    <3> QED
      BY <1>3, <2>1, SocketFields
  <2> QED
    BY <2>2, PktType
<1> QED
  BY <1>1, <1>2, <1>4, TypesIgnored

\* So does the FIN of a server.
LEMMA TypesFinOfServer ==
  ASSUME TypeOK, Connected, NEW from \in Node, NEW n \in Node,
         FinOfServer(from, n)
  PROVE  TypeOK' /\ Connected'
<1> DEFINE pkt == Head(net[<<from, n>>])
           fd == Lookup(n, from)
           s == sock[n][fd]
           t == [s EXCEPT !.state = "TIME_WAIT"]
           ack == Pkt("ACK", s.ISN, pkt.seq + 1)
<1>1. net[<<from, n>>] # <<>> /\ s.state \in {"FIN_WAIT_2", "TIME_WAIT"}
  BY DEF FinOfServer, Arrives
<1>2. CASE pkt.ack # s.lastSent + 1
  <2>1. Ignored(from, n)
    BY <1>2 DEF FinOfServer
  <2> QED
    BY <1>1, <2>1, TypesIgnored
<1>3. CASE pkt.ack = s.lastSent + 1
  <2>1. /\ sock' = [sock EXCEPT ![n][fd].state = "TIME_WAIT"]
        /\ IF s.state = "FIN_WAIT_2"
           THEN /\ closeQueue' = [closeQueue EXCEPT
                     ![n] = PushBack(@, MaxSockets, fd)]
                /\ closeTimer' = [closeTimer EXCEPT ![n] = TRUE]
           ELSE UNCHANGED <<closeQueue, closeTimer>>
        /\ net' = Send(Consumed(<<from, n>>), n, s.dest, <<ack>>)
        /\ UNCHANGED <<fdVars, reSendVars, dataTimer, closePosted,
                       receiveVars, appVars, lost, early>>
    BY <1>3 DEF FinOfServer
  <2>2. /\ sock \in [Node -> [Fd -> Socket]] /\ fd \in Fd /\ pkt.seq \in Int
        /\ Consumed(<<from, n>>) \in [Link -> Seq(Packet)]
    BY <1>1, ArrivesIs DEF TypeOK
  <2> HIDE DEF fd, pkt
  <2>3. s \in Socket /\ s.dest \in Node
    BY <1>1, <2>2 DEF Connected
  <2>4. t \in Socket /\ t.dest = s.dest
    <3>1. t \in Socket
      BY <2>3, SocketChange
    <3> QED
      BY <2>3, <3>1 DEF Socket
  <2>5. ack \in Packet
    <3>1. s.ISN \in Int /\ pkt.seq + 1 \in Int
      BY <2>2, <2>3, SocketFields
    <3> QED
      BY <3>1, PktType
  <2>6. sock' \in [Node -> [Fd -> Socket]] /\ Connected'
    <3>1. sock' = Put(n, fd, t) /\ UNCHANGED socketTable
      BY <2>1 DEF Put, fdVars
    <3> HIDE DEF t, s
    <3> QED
      BY <2>2, <2>3, <2>4, <3>1, PutSocket
  <2> HIDE DEF t, s, ack
  <2>7. net' \in [Link -> Seq(Packet)]
    BY <2>1, <2>2, <2>5, PktSeq, SendIs
  <2>8. closeQueue' \in [Node -> Seq(Fd)] /\ closeTimer' \in [Node -> BOOLEAN]
    <3>1. closeQueue \in [Node -> Seq(Fd)] /\ closeTimer \in [Node -> BOOLEAN]
      BY DEF TypeOK
    <3>2. CASE s.state = "FIN_WAIT_2"
      <4>1. PushBack(closeQueue[n], MaxSockets, fd) \in Seq(Fd)
        BY <2>2, <3>1, PushBackIs, Sizes
      <4>2. closeTimer' \in [Node -> BOOLEAN]
        BY <2>1, <3>1, <3>2, Zenon
      <4> QED
        BY <2>1, <3>1, <3>2, <4>1, <4>2
    <3>3. CASE s.state # "FIN_WAIT_2"
      BY <2>1, <3>1, <3>3
    <3> QED
      BY <3>2, <3>3
  <2> QED
    BY <2>1, <2>6, <2>7, <2>8
       DEF TypeOK, fdVars, reSendVars, receiveVars, appVars
<1> QED
  BY <1>2, <1>3

\* So does a segment that is queued.
LEMMA TypesQueueDATA ==
  ASSUME TypeOK, Connected, NEW from \in Node, NEW n \in Node, QueueDATA(from, n)
  PROVE  TypeOK' /\ Connected'
<1> DEFINE r == [from |-> from, pkt |-> Head(net[<<from, n>>])]
<1>1. /\ net[<<from, n>>] # <<>>
      /\ receiveQueue' = [receiveQueue EXCEPT ![n] = PushBack(@, ReceiveCap, r)]
      /\ receivePosted' = [receivePosted EXCEPT ![n] = TRUE]
      /\ net' = Consumed(<<from, n>>)
      /\ UNCHANGED <<sock, fdVars, reSendVars, dataTimer, closeVars, appVars, lost,
                     early>>
  BY DEF QueueDATA, Arrives
<1>2. r \in Received /\ net' \in [Link -> Seq(Packet)]
  BY <1>1, ArrivesIs DEF Received
<1> HIDE DEF r
<1>3. receiveQueue' \in [Node -> Seq(Received)]
  <2>1. receiveQueue \in [Node -> Seq(Received)]
    BY DEF TypeOK
  <2>2. PushBack(receiveQueue[n], ReceiveCap, r) \in Seq(Received)
    BY <1>2, <2>1, PushBackIs, Sizes
  <2> QED
    BY <1>1, <2>1, <2>2
<1>4. receivePosted' \in [Node -> BOOLEAN]
  <2>1. receivePosted \in [Node -> BOOLEAN]
    BY DEF TypeOK
  <2> QED
    BY <1>1, <2>1, Zenon
<1>5. Connected'
  BY <1>1 DEF Connected, fdVars
<1> QED
  BY <1>1, <1>2, <1>3, <1>4, <1>5
     DEF TypeOK, fdVars, reSendVars, closeVars, appVars

\* Tasks and timers keep the types.
LEMMA TypesReceiveDATA ==
  ASSUME TypeOK, Connected, NEW n \in Node, ReceiveDATA(n)
  PROVE  TypeOK' /\ Connected'
<1> DEFINE r == Head(receiveQueue[n])
           fd == Lookup(n, r.from)
           s == sock[n][fd]
           taken == [s EXCEPT !.ISN = U8(s.ISN + 1),
                              !.nextExpected = (r.pkt.seq + 1) % 128]
           next == IF r.pkt.ack = s.ISN + 1 THEN taken ELSE s
           ack == Pkt("ACK", next.ISN, next.nextExpected)
<1>1. /\ receiveQueue[n] # <<>>
      /\ IF s.state # "ESTABLISHED"
         THEN UNCHANGED <<sock, net>>
         ELSE /\ sock' = [sock EXCEPT ![n][fd] = next]
              /\ net' = Send(net, n, r.from, <<ack>>)
      /\ receiveQueue' = [receiveQueue EXCEPT ![n] = Tail(@)]
      /\ receivePosted' = [receivePosted EXCEPT ![n] = FALSE]
      /\ UNCHANGED <<fdVars, reSendVars, dataTimer, closeVars, appVars, lost, early>>
  BY DEF ReceiveDATA
<1>2. /\ receiveQueue \in [Node -> Seq(Received)]
      /\ receivePosted \in [Node -> BOOLEAN]
      /\ sock \in [Node -> [Fd -> Socket]] /\ net \in [Link -> Seq(Packet)]
  BY DEF TypeOK
<1>3. r \in Received /\ Tail(receiveQueue[n]) \in Seq(Received)
  BY <1>1, <1>2, HeadTail
<1>4. receivePosted' \in [Node -> BOOLEAN]
  BY <1>1, <1>2, Zenon
<1>5. receiveQueue' \in [Node -> Seq(Received)]
  BY <1>1, <1>2, <1>3
<1> HIDE DEF r
<1>6. r.from \in Node /\ r.pkt \in Packet /\ r.pkt.seq \in Byte
  BY <1>3 DEF Received, Packet
<1>7. fd \in Fd
  BY <1>6, Sizes DEF Lookup, TypeOK
<1> HIDE DEF fd
<1>8. s \in Socket
  BY <1>2, <1>7
<1> HIDE DEF s
<1>9. next \in Socket /\ next.dest = s.dest
  <2>1. s.ISN + 1 \in Int /\ r.pkt.seq + 1 \in Int
    BY <1>6, <1>8, SocketFields, ByteType
  <2>2. U8(s.ISN + 1) \in Byte /\ (r.pkt.seq + 1) % 128 \in Byte
    BY <2>1, ByteType, Sizes
  <2>3. taken \in Socket /\ taken.dest = s.dest
    <3> DEFINE u == U8(s.ISN + 1)
               m == (r.pkt.seq + 1) % 128
    <3>1. u \in Byte /\ m \in Byte
      BY <2>2
    <3> HIDE DEF u, m
    <3>2. [s EXCEPT !.ISN = u, !.nextExpected = m] \in Socket
          /\ [s EXCEPT !.ISN = u, !.nextExpected = m].dest = s.dest
      BY <1>8, <3>1 DEF Socket
    <3> QED
      BY <3>2 DEF u, m
  <2> HIDE DEF taken
  <2> QED
    BY <1>8, <2>3
<1> HIDE DEF next
<1>10. ack \in Packet
  <2>1. next.ISN \in Int /\ next.nextExpected \in Byte
    BY <1>9, SocketFields
  <2> QED
    BY <2>1, ByteType, PktType
<1> HIDE DEF ack
<1>11. net' \in [Link -> Seq(Packet)]
  <2>1. Send(net, n, r.from, <<ack>>) \in [Link -> Seq(Packet)]
    BY <1>2, <1>10, PktSeq, SendIs
  <2> QED
    BY <1>1, <1>2, <2>1
<1>12. sock' \in [Node -> [Fd -> Socket]] /\ Connected'
  <2>1. UNCHANGED socketTable
    BY <1>1 DEF fdVars
  <2>2. CASE s.state # "ESTABLISHED"
    BY <1>1, <1>2, <2>1, <2>2 DEF Connected
  <2>3. CASE s.state = "ESTABLISHED"
    <3>1. sock' = Put(n, fd, next)
      BY <1>1, <2>3 DEF Put
    <3>2. s.dest \in Node
      BY <1>7, <2>3 DEF Connected, s
    <3> QED
      BY <1>7, <1>9, <2>1, <3>1, <3>2, PutSocket
  <2> QED
    BY <2>2, <2>3
<1> QED
  BY <1>1, <1>4, <1>5, <1>11, <1>12
     DEF TypeOK, fdVars, reSendVars, closeVars, appVars

\* Patience is counted.
LEMMA EarlyType ==
  ASSUME TypeOK, NEW n, NEW peer, Patiently(n, peer)
  PROVE  early' \in Nat
BY DEF Patiently, TypeOK

\* So does ReSendTimer.
LEMMA TypesReSendTimerFired ==
  ASSUME TypeOK, Connected, NEW n \in Node, ReSendTimerFired(n)
  PROVE  TypeOK' /\ Connected'
<1> DEFINE q == reSendQueue[n]
           entry == Head(q)
<1>1. /\ q # <<>>
      /\ UNCHANGED <<sock, fdVars, dataTimer, closeVars, receiveVars, appVars, lost>>
  BY DEF ReSendTimerFired
<1>2. /\ reSendQueue \in [Node -> Seq(ReSendEntry)] /\ reSendTimer \in [Node -> BOOLEAN]
      /\ net \in [Link -> Seq(Packet)] /\ early \in Nat
  BY DEF TypeOK
<1>3. entry \in ReSendEntry /\ Tail(q) \in Seq(ReSendEntry)
  BY <1>1, <1>2, HeadTail
<1>4. /\ net' \in [Link -> Seq(Packet)] /\ early' \in Nat
      /\ reSendQueue' \in [Node -> Seq(ReSendEntry)]
      /\ reSendTimer' \in [Node -> BOOLEAN]
  <2>1. CASE sock[n][entry.fd].reSend
    <3>1. /\ Patiently(n, entry.dest)
          /\ reSendQueue' = [reSendQueue EXCEPT ![n] = Append(Tail(q), entry)]
          /\ net' = Send(net, n, entry.dest, <<entry.pkt>>)
          /\ UNCHANGED reSendTimer
      BY <2>1 DEF ReSendTimerFired
    <3>2. entry.pkt \in Packet
      BY <1>3 DEF ReSendEntry
    <3> HIDE DEF entry
    <3>3. Append(Tail(q), entry) \in Seq(ReSendEntry)
      BY <1>3
    <3> HIDE DEF q
    <3>4. net' \in [Link -> Seq(Packet)]
      BY <1>2, <3>1, <3>2, PktSeq, SendIs
    <3>5. early' \in Nat
      BY <3>1, EarlyType
    <3> QED
      BY <1>2, <3>1, <3>3, <3>4, <3>5
  <2>2. CASE ~sock[n][entry.fd].reSend
    <3>1. /\ reSendQueue' = [reSendQueue EXCEPT ![n] = Tail(q)]
          /\ reSendTimer' = [reSendTimer EXCEPT ![n] = FALSE]
          /\ UNCHANGED <<net, early>>
      BY <2>2 DEF ReSendTimerFired, Dropped
    <3>2. reSendTimer' \in [Node -> BOOLEAN]
      BY <1>2, <3>1, Zenon
    <3> QED
      BY <1>2, <1>3, <3>1, <3>2
  <2> QED
    BY <2>1, <2>2
<1>5. Connected'
  BY <1>1 DEF Connected, fdVars
<1> QED
  BY <1>1, <1>4, <1>5
     DEF TypeOK, fdVars, closeVars, receiveVars, appVars

\* So does ReSendDataTimer.
LEMMA TypesDataTimerFired ==
  ASSUME TypeOK, Connected, NEW n \in Node, DataTimerFired(n)
  PROVE  TypeOK' /\ Connected'
<1>1. PICK fd \in Fd :
        /\ sock[n][fd].isResend
        /\ IF sock[n][fd].remain = 0 /\ sock[n][fd].state = "ESTABLISHED"
           THEN /\ sock' = [sock EXCEPT ![n][fd].isResend = FALSE]
                /\ dataTimer' = [dataTimer EXCEPT ![n] = FALSE]
                /\ UNCHANGED <<net, early>>
           ELSE /\ Patiently(n, sock[n][fd].dest)
                /\ net' = Send(net, n, sock[n][fd].dest, <<DataPkt(sock[n][fd])>>)
                /\ UNCHANGED <<sock, dataTimer>>
  BY DEF DataTimerFired
<1>2. UNCHANGED <<fdVars, reSendVars, closeVars, receiveVars, appVars, lost>>
  BY DEF DataTimerFired
<1>3. /\ sock \in [Node -> [Fd -> Socket]] /\ dataTimer \in [Node -> BOOLEAN]
      /\ net \in [Link -> Seq(Packet)] /\ early \in Nat
  BY DEF TypeOK
<1> DEFINE s == sock[n][fd]
           t == [s EXCEPT !.isResend = FALSE]
<1>4. CASE s.remain = 0 /\ s.state = "ESTABLISHED"
  <2>1. /\ sock' = [sock EXCEPT ![n][fd].isResend = FALSE]
        /\ dataTimer' = [dataTimer EXCEPT ![n] = FALSE]
        /\ UNCHANGED <<net, early>>
    BY <1>1, <1>4
  <2>2. s \in Socket /\ s.dest \in Node
    BY <1>3, <1>4 DEF Connected
  <2>3. t \in Socket /\ t.dest = s.dest
    <3>1. t \in Socket
      BY <2>2, SocketChange
    <3> QED
      BY <2>2, <3>1 DEF Socket
  <2>4. sock' \in [Node -> [Fd -> Socket]] /\ Connected'
    <3>1. sock' = Put(n, fd, t) /\ UNCHANGED socketTable
      BY <1>2, <2>1 DEF Put, fdVars
    <3> HIDE DEF t, s
    <3> QED
      BY <2>2, <2>3, <3>1, PutSocket
  <2>5. dataTimer' \in [Node -> BOOLEAN]
    BY <1>3, <2>1, Zenon
  <2> QED
    BY <1>2, <1>3, <2>1, <2>4, <2>5
       DEF TypeOK, fdVars, reSendVars, closeVars, receiveVars, appVars
<1>5. CASE ~(s.remain = 0 /\ s.state = "ESTABLISHED")
  <2>1. /\ Patiently(n, s.dest)
        /\ net' = Send(net, n, s.dest, <<DataPkt(s)>>)
        /\ UNCHANGED <<sock, dataTimer>>
    BY <1>1, <1>5
  <2>2. s \in Socket
    BY <1>3
  <2> HIDE DEF s
  <2>3. DataPkt(s) \in Packet
    BY <2>2, SocketFields, PktType DEF DataPkt
  <2>4. net' \in [Link -> Seq(Packet)]
    BY <1>3, <2>1, <2>3, PktSeq, SendIs
  <2>5. early' \in Nat
    BY <2>1, EarlyType
  <2>6. Connected'
    BY <1>2, <2>1 DEF Connected, fdVars
  <2> QED
    BY <1>2, <2>1, <2>4, <2>5, <2>6
       DEF TypeOK, fdVars, reSendVars, closeVars, receiveVars, appVars
<1> QED
  BY <1>4, <1>5

\* So does CloseTimer.
LEMMA TypesCloseTimerFired ==
  ASSUME TypeOK, Connected, NEW n \in Node, CloseTimerFired(n)
  PROVE  TypeOK' /\ Connected'
<1>1. /\ closeTimer' = [closeTimer EXCEPT ![n] = FALSE]
      /\ closePosted' = [closePosted EXCEPT ![n] = TRUE]
      /\ UNCHANGED <<sock, fdVars, reSendVars, dataTimer, closeQueue, receiveVars,
                     appVars, net, lost, early>>
  BY DEF CloseTimerFired
<1>2. closeTimer' \in [Node -> BOOLEAN] /\ closePosted' \in [Node -> BOOLEAN]
  <2>1. closeTimer \in [Node -> BOOLEAN] /\ closePosted \in [Node -> BOOLEAN]
    BY DEF TypeOK
  <2> QED
    BY <1>1, <2>1, Zenon
<1>3. Connected'
  BY <1>1 DEF Connected, fdVars
<1> QED
  BY <1>1, <1>2, <1>3 DEF TypeOK, fdVars, reSendVars, receiveVars, appVars

\* So does the task that it posts.
LEMMA TypesCloseTask ==
  ASSUME TypeOK, Connected, NEW n \in Node, CloseTask(n)
  PROVE  TypeOK' /\ Connected'
<1> DEFINE fd == Head(closeQueue[n])
           peer == sock[n][fd].dest
           s == [sock[n][fd] EXCEPT !.state = "CLOSED", !.inUse = FALSE]
<1>1. /\ closeQueue[n] # <<>>
      /\ sock' = [sock EXCEPT ![n][fd].state = "CLOSED",
                              ![n][fd].inUse = FALSE]
      /\ fdQueue' = [fdQueue EXCEPT ![n] = Append(@, fd)]
      /\ socketTable' = [socketTable EXCEPT ![n][peer] = NullFd]
      /\ Forget(n, fd)
      /\ closeQueue' = [closeQueue EXCEPT ![n] = Tail(@)]
      /\ closePosted' = [closePosted EXCEPT ![n] = FALSE]
      /\ UNCHANGED <<globalFd, reSendVars, dataTimer, closeTimer, receiveVars,
                     dialed, net, lost, early>>
  BY DEF CloseTask
<1>2. /\ sock \in [Node -> [Fd -> Socket]] /\ closeQueue \in [Node -> Seq(Fd)]
      /\ fdQueue \in [Node -> Seq(Fd)] /\ closePosted \in [Node -> BOOLEAN]
  BY DEF TypeOK
<1>3. fd \in Fd /\ Tail(closeQueue[n]) \in Seq(Fd)
  BY <1>1, <1>2, HeadTail
<1> HIDE DEF fd
<1>4. sock[n][fd] \in Socket
  BY <1>2, <1>3
<1>5. s \in Socket /\ s.state = "CLOSED" /\ s.dest = peer
  <2>1. s = [sock[n][fd] EXCEPT !.inUse = FALSE, !.state = "CLOSED"]
    BY <1>4 DEF Socket
  <2>2. s \in Socket
    BY <1>4, <2>1, SocketChange
  <2> QED
    BY <1>4, <2>2 DEF Socket
<1>6. sock' = Put(n, fd, s)
  BY <1>1, <1>2, <1>3 DEF Put
<1> HIDE DEF s
<1>7. /\ sock' \in [Node -> [Fd -> Socket]] /\ Connected'
      /\ socketTable' \in [Node -> [Node -> Fd \cup {NullFd}]]
  <2>1. s.dest = sock[n][fd].dest
        /\ socketTable' = [socketTable EXCEPT ![n][peer] = NullFd]
    BY <1>1, <1>5
  <2> HIDE DEF peer
  <2> QED
    BY <1>3, <1>5, <1>6, <2>1, RemoveConnected
<1>8. localFd' \in [Node -> Fd \cup {NullFd}] /\ users' \in [Node -> [Node -> User]]
  BY <1>1, <1>3, ForgetType
<1>9. /\ fdQueue' \in [Node -> Seq(Fd)] /\ closeQueue' \in [Node -> Seq(Fd)]
  BY <1>1, <1>2, <1>3
<1>10. closePosted' \in [Node -> BOOLEAN]
  BY <1>1, <1>2, Zenon
<1> QED
  BY <1>1, <1>7, <1>8, <1>9, <1>10 DEF TypeOK, reSendVars, receiveVars

\* So does a loss.
LEMMA TypesLose ==
  ASSUME TypeOK, Connected, NEW l \in Link, Lose(l)
  PROVE  TypeOK' /\ Connected'
<1>1. /\ net[l] # <<>> /\ net' = Consumed(l) /\ lost' = lost + 1
      /\ UNCHANGED <<sock, fdVars, reSendVars, dataTimer, closeVars, receiveVars,
                     appVars, early>>
  BY DEF Lose
<1>2. net' \in [Link -> Seq(Packet)] /\ lost' \in Nat
  <2>1. net \in [Link -> Seq(Packet)] /\ lost \in Nat
    BY DEF TypeOK
  <2>2. net' \in [Link -> Seq(Packet)]
    BY <1>1, <2>1, ConsumedIs
  <2> QED
    BY <1>1, <2>1, <2>2
<1>3. Connected'
  BY <1>1 DEF Connected, fdVars
<1> QED
  BY <1>1, <1>2, <1>3
     DEF TypeOK, fdVars, reSendVars, closeVars, receiveVars, appVars

\* The initial state.
LEMMA TypesInit == Init => TypeOK /\ Connected
<1> SUFFICES ASSUME Init PROVE TypeOK /\ Connected
  OBVIOUS
<1>1. EmptySocket \in Socket
  BY DEF EmptySocket, Socket, State, Byte, Pos
<1>2. sock \in [Node -> [Fd -> Socket]]
  BY <1>1 DEF Init
<1>3. fdQueue \in [Node -> Seq(Fd)]
  <2> DEFINE all == [i \in 1 .. MaxSockets |-> MaxSockets - i]
  <2>1. all \in Seq(Fd)
    <3>1. MaxSockets \in Nat
      BY Sizes
    <3>2. \A i \in 1 .. MaxSockets : MaxSockets - i \in Fd
      BY <3>1 DEF Fd
    <3> QED
      BY <3>1, <3>2, IsASeq
  <2>2. fdQueue = [n \in Node |-> all]
    BY DEF Init
  <2> HIDE DEF all
  <2> QED
    BY <2>1, <2>2
<1>4. socketTable \in [Node -> [Node -> Fd \cup {NullFd}]] /\ globalFd \in [Node -> Fd]
  BY Sizes DEF Init
<1>5. /\ reSendTimer \in [Node -> BOOLEAN] /\ dataTimer \in [Node -> BOOLEAN]
      /\ closeTimer \in [Node -> BOOLEAN] /\ closePosted \in [Node -> BOOLEAN]
      /\ receivePosted \in [Node -> BOOLEAN]
  BY DEF Init
<1>6. /\ reSendQueue \in [Node -> Seq(ReSendEntry)] /\ closeQueue \in [Node -> Seq(Fd)]
      /\ receiveQueue \in [Node -> Seq(Received)] /\ net \in [Link -> Seq(Packet)]
  <2>1. \A S : <<>> \in Seq(S)
    OBVIOUS
  <2> QED
    BY <2>1 DEF Init
<1>7. /\ localFd \in [Node -> Fd \cup {NullFd}] /\ users \in [Node -> [Node -> User]]
      /\ dialed \in [Node -> Nat] /\ lost \in Nat /\ early \in Nat
  BY Sizes DEF Init, User
<1>8. Connected
  BY <1>1 DEF Init, Connected, EmptySocket
<1> QED
  BY <1>2, <1>3, <1>4, <1>5, <1>6, <1>7, <1>8 DEF TypeOK

\* The types of the variables, for any nodes, sizes, losses and users.
THEOREM TypeCorrect == Spec => [](TypeOK /\ Connected)
<1>1. Init => TypeOK /\ Connected
  BY TypesInit
<1>2. ASSUME TypeOK, Connected, [Next]_vars PROVE TypeOK' /\ Connected'
  <2>1. ASSUME NEW n \in Node, UserCommand(n) PROVE TypeOK' /\ Connected'
    BY <1>2, <2>1, TypesInitServer, TypesDial, TypesClose DEF UserCommand
  <2>2. ASSUME NEW n \in Node, Scheduled(n) PROVE TypeOK' /\ Connected'
    BY <1>2, <2>2, TypesReceiveDATA, TypesReSendTimerFired, TypesDataTimerFired,
       TypesCloseTimerFired, TypesCloseTask DEF Scheduled
  <2>3. ASSUME NEW from \in Node, NEW n \in Node, Deliver(from, n)
        PROVE  TypeOK' /\ Connected'
    <3>1. CASE AckIgnored(from, n) \/ FinIgnored(from, n)
      <4>1. net[<<from, n>>] # <<>> /\ Ignored(from, n)
        BY <3>1 DEF AckIgnored, FinIgnored, Arrives
      <4> QED
        BY <1>2, <4>1, TypesIgnored
    <3>2. CASE ~(AckIgnored(from, n) \/ FinIgnored(from, n))
      BY <1>2, <2>3, <3>2, TypesReceiveSYN, TypesReceiveSYNACK, TypesAckOfSYN,
         TypesAckOfFINorData, TypesAckOfLastFIN, TypesFinOfClient, TypesFinAgain,
         TypesFinOfServer, TypesQueueDATA DEF Deliver
    <3> QED
      BY <3>1, <3>2
  <2>4. ASSUME NEW l \in Link, Deliver(l[1], l[2]) \/ Lose(l)
        PROVE  TypeOK' /\ Connected'
    <3>1. l[1] \in Node /\ l[2] \in Node
      BY DEF Link
    <3> QED
      BY <1>2, <2>3, <2>4, <3>1, TypesLose
  <2>5. CASE UNCHANGED vars
    BY <1>2, <2>5 DEF vars, fdVars, reSendVars, closeVars, receiveVars, appVars,
       TypeOK, Connected
  <2> QED
    BY <1>2, <2>1, <2>2, <2>4, <2>5 DEF Next
<1> QED
  BY <1>1, <1>2, PTL DEF Spec

-----------------------------------------------------------------------------
(* One client and one server                                               *)

\* The client and the server.
Cli == CHOOSE c \in Node : c \notin Servers
Srv == CHOOSE s \in Node : s \in Servers

\* They are all there is, the server has a descriptor besides the listener's,
\* the user is patient and TIME_WAIT long.
OnePair ==
  /\ \E c, s \in Node : c # s /\ Node = {c, s} /\ Servers = {s}
  /\ MaxSockets >= 2
  /\ PatientUser /\ LongTimeWait

\* What is on its way, the sockets of the connection, and their states.
Up == net[<<Cli, Srv>>]
Down == net[<<Srv, Cli>>]
CFd == socketTable[Cli][Srv]
SFd == socketTable[Srv][Cli]
CState == IF CFd = NullFd THEN "none" ELSE sock[Cli][CFd].state
SState == IF SFd = NullFd THEN "none" ELSE sock[Srv][SFd].state

\* The phases of a connection, in the order they follow each other.
Phases ==
  {<<"none", "none">>,
   <<"SYN_SENT", "none">>, <<"SYN_SENT", "SYN_RCVD">>,
   <<"ESTABLISHED", "SYN_RCVD">>, <<"ESTABLISHED", "ESTABLISHED">>,
   <<"FIN_WAIT_1", "ESTABLISHED">>, <<"FIN_WAIT_1", "LAST_ACK">>,
   <<"FIN_WAIT_2", "LAST_ACK">>, <<"TIME_WAIT", "LAST_ACK">>,
   <<"TIME_WAIT", "none">>}

InPhase == <<CState, SState>> \in Phases

\* What may be on its way to the server and to the client, in the states c of
\* the client and s of the server.
UpAllowed(c, s) ==
  CASE c = "SYN_SENT" -> {"SYN"}
    [] c = "ESTABLISHED" ->
         IF s = "SYN_RCVD" THEN {"SYN", "ACK", "DATA"} ELSE {"ACK", "DATA"}
    [] c \in {"FIN_WAIT_1", "FIN_WAIT_2"} -> {"FIN"}
    [] OTHER -> {"FIN", "ACK"}
DownAllowed(c, s) ==
  IF c = "SYN_SENT" THEN IF s = "none" THEN {} ELSE {"SYN"}
  ELSE IF c = "ESTABLISHED" THEN {"SYN", "ACK"}
  ELSE IF s = "ESTABLISHED" THEN {} ELSE {"ACK", "FIN"}

UpPackets(c, s) == {p \in Packet : /\ p.flag \in UpAllowed(c, s)
                                   /\ p.flag = "SYN" => p.ack = 0}
DownPackets(c, s) == {p \in Packet : p.flag \in DownAllowed(c, s)}

SynsFirst(q) ==
  \A i, j \in 1 .. Len(q) : i < j /\ q[j].flag = "SYN" => q[i].flag = "SYN"

InFlight ==
  /\ Up \in Seq(UpPackets(CState, SState)) /\ SynsFirst(Up)
  /\ Down \in Seq(DownPackets(CState, SState))
  /\ \A n \in Node : net[<<n, n>>] = <<>>

\* The sockets that are not of the connection, and the ends of those that are.
Quiet ==
  /\ \A fd \in Fd : fd # CFd =>
       /\ sock[Cli][fd].state = "CLOSED" /\ ~sock[Cli][fd].inUse
       /\ ~sock[Cli][fd].reSend /\ ~sock[Cli][fd].isResend
  /\ \A fd \in Fd : fd # SFd =>
       /\ sock[Srv][fd].state \in {"CLOSED", "LISTEN"}
       /\ sock[Srv][fd].state = "LISTEN" => fd = globalFd[Srv]
       /\ sock[Srv][fd].state = "CLOSED" => ~sock[Srv][fd].inUse
       /\ ~sock[Srv][fd].reSend
  /\ \A fd \in Fd : ~sock[Srv][fd].isResend
Ends ==
  /\ CFd # NullFd => sock[Cli][CFd].dest = Srv
  /\ SFd # NullFd => sock[Srv][SFd].dest = Cli
  /\ \A n \in Node : socketTable[n][n] = NullFd

\* The free descriptors are all the others, each of them once.
Listed(q) == {q[i] : i \in 1 .. Len(q)}
Unique(q) == \A i, j \in 1 .. Len(q) : q[i] = q[j] => i = j
Descriptors ==
  /\ \A n \in Node : Unique(fdQueue[n])
  /\ Listed(fdQueue[Cli]) = Fd \ {CFd}
  /\ Listed(fdQueue[Srv]) =
       {fd \in Fd : fd # SFd /\ sock[Srv][fd].state # "LISTEN"}

\* What ReSendQueue may hold of a connection in a state: an entry at most, and
\* the timer runs when it has one.
CliEntries(fd, state) ==
  {e \in ReSendEntry :
     /\ e.dest = Srv /\ (fd # NullFd => e.fd = fd)
     /\ state \in {"SYN_SENT", "ESTABLISHED"} => e.pkt.flag = "SYN" /\ e.pkt.ack = 0
     /\ state \in {"FIN_WAIT_1", "FIN_WAIT_2", "TIME_WAIT"} => e.pkt.flag = "FIN"}
SrvEntries(fd, state) ==
  {e \in ReSendEntry :
     /\ e.dest = Cli /\ (fd # NullFd => e.fd = fd)
     /\ state \in {"SYN_RCVD", "ESTABLISHED"} => e.pkt.flag = "SYN"
     /\ state = "LAST_ACK" => e.pkt.flag = "FIN"}
AtMostOne(q, entries) == q = <<>> \/ \E e \in entries : q = <<e>>

CliQueue ==
  /\ AtMostOne(reSendQueue[Cli], CliEntries(CFd, CState))
  /\ reSendTimer[Cli] <=> reSendQueue[Cli] # <<>>
  /\ CFd # NullFd =>
       (sock[Cli][CFd].reSend <=> CState \in {"SYN_SENT", "FIN_WAIT_1"})
  /\ CState \in {"SYN_SENT", "FIN_WAIT_1"} => reSendQueue[Cli] # <<>>
SrvQueue ==
  /\ AtMostOne(reSendQueue[Srv], SrvEntries(SFd, SState))
  /\ reSendTimer[Srv] <=> reSendQueue[Srv] # <<>>
  /\ SFd # NullFd =>
       (sock[Srv][SFd].reSend <=> SState \in {"SYN_RCVD", "LAST_ACK"})
  /\ SState \in {"SYN_RCVD", "LAST_ACK"} => reSendQueue[Srv] # <<>>
  /\ <<CState, SState>> \in {<<"SYN_SENT", "none">>,
                             <<"FIN_WAIT_1", "ESTABLISHED">>}
       => reSendQueue[Srv] = <<>>

\* CloseTimer or closeTask is under way in TIME_WAIT only.
Closing ==
  /\ closeQueue[Cli] = IF CState = "TIME_WAIT" THEN <<CFd>> ELSE <<>>
  /\ CState = "TIME_WAIT" <=> closeTimer[Cli] \/ closePosted[Cli]
  /\ ~(closeTimer[Cli] /\ closePosted[Cli])
  /\ closePosted[Cli] => SState = "none"
  /\ closeQueue[Srv] = <<>> /\ ~closeTimer[Srv] /\ ~closePosted[Srv]

\* Data is on its way or kept while the client is connected.
Data ==
  /\ receivePosted[Srv] =>
       receiveQueue[Srv] # <<>> /\ CState = "ESTABLISHED"
  /\ receiveQueue[Srv] \in Seq({r \in Received : r.from = Cli})
  /\ ~receivePosted[Cli]
  /\ ~dataTimer[Srv]
  /\ dataTimer[Cli] <=> CFd # NullFd /\ sock[Cli][CFd].isResend
  /\ dataTimer[Cli] => CState = "ESTABLISHED"

App ==
  /\ localFd[Cli] \in {NullFd, CFd} /\ localFd[Srv] = NullFd
  /\ users[Srv][Cli].accept => SFd # NullFd /\ users[Srv][Cli].fd = SFd
  /\ SFd # NullFd =>
       (users[Srv][Cli].accept <=> SState \in {"ESTABLISHED", "LAST_ACK"})

Connection ==
  /\ InPhase /\ InFlight /\ Quiet /\ Ends /\ Descriptors
  /\ CliQueue /\ SrvQueue /\ Closing /\ Data /\ App

\* The two nodes.
LEMMA TheNodes ==
  ASSUME OnePair
  PROVE  /\ Cli \in Node /\ Srv \in Node /\ Cli # Srv
         /\ Node = {Cli, Srv} /\ Servers = {Srv} /\ Cli \notin Servers
         /\ \A n \in Node : n = Cli \/ n = Srv
         /\ <<Cli, Srv>> \in Link /\ <<Srv, Cli>> \in Link
         /\ \A l \in Link : l[1] \in Node /\ l[2] \in Node /\ l = <<l[1], l[2]>>
<1>1. PICK c \in Node, s \in Node : c # s /\ Node = {c, s} /\ Servers = {s}
  BY DEF OnePair
<1>2. Cli \in Node /\ Cli \notin Servers
  <2>1. \E x \in Node : x \notin Servers
    BY <1>1
  <2> QED
    BY <2>1 DEF Cli
<1>3. Srv \in Node /\ Srv \in Servers
  <2>1. \E x \in Node : x \in Servers
    BY <1>1
  <2> QED
    BY <2>1 DEF Srv
<1>4. Cli = c /\ Srv = s
  BY <1>1, <1>2, <1>3
<1> QED
  BY <1>1, <1>4 DEF Link

\* The phases one by one.
LEMMA PhaseCases ==
  ASSUME NEW c, NEW s
  PROVE  <<c, s>> \in Phases <=>
           \/ c = "none" /\ s = "none"
           \/ c = "SYN_SENT" /\ s = "none"
           \/ c = "SYN_SENT" /\ s = "SYN_RCVD"
           \/ c = "ESTABLISHED" /\ s = "SYN_RCVD"
           \/ c = "ESTABLISHED" /\ s = "ESTABLISHED"
           \/ c = "FIN_WAIT_1" /\ s = "ESTABLISHED"
           \/ c = "FIN_WAIT_1" /\ s = "LAST_ACK"
           \/ c = "FIN_WAIT_2" /\ s = "LAST_ACK"
           \/ c = "TIME_WAIT" /\ s = "LAST_ACK"
           \/ c = "TIME_WAIT" /\ s = "none"
BY DEF Phases

\* What may be under way, phase by phase.
LEMMA AllowedCases ==
  /\ \A s : UpAllowed("SYN_SENT", s) = {"SYN"}
  /\ UpAllowed("ESTABLISHED", "SYN_RCVD") = {"SYN", "ACK", "DATA"}
  /\ UpAllowed("ESTABLISHED", "ESTABLISHED") = {"ACK", "DATA"}
  /\ \A s : /\ UpAllowed("FIN_WAIT_1", s) = {"FIN"}
            /\ UpAllowed("FIN_WAIT_2", s) = {"FIN"}
            /\ UpAllowed("TIME_WAIT", s) = {"FIN", "ACK"}
            /\ UpAllowed("none", s) = {"FIN", "ACK"}
  /\ DownAllowed("SYN_SENT", "none") = {}
  /\ DownAllowed("SYN_SENT", "SYN_RCVD") = {"SYN"}
  /\ \A s : DownAllowed("ESTABLISHED", s) = {"SYN", "ACK"}
  /\ DownAllowed("FIN_WAIT_1", "ESTABLISHED") = {}
  /\ DownAllowed("FIN_WAIT_1", "LAST_ACK") = {"ACK", "FIN"}
  /\ DownAllowed("FIN_WAIT_2", "LAST_ACK") = {"ACK", "FIN"}
  /\ DownAllowed("TIME_WAIT", "LAST_ACK") = {"ACK", "FIN"}
  /\ DownAllowed("TIME_WAIT", "none") = {"ACK", "FIN"}
  /\ DownAllowed("none", "none") = {"ACK", "FIN"}
BY DEF UpAllowed, DownAllowed

\* The sockets of the connection.
LEMMA View ==
  ASSUME OnePair, TypeOK
  PROVE  /\ CFd \in Fd \cup {NullFd} /\ SFd \in Fd \cup {NullFd}
         /\ (CFd = NullFd <=> CState = "none") /\ (SFd = NullFd <=> SState = "none")
         /\ CFd # NullFd => /\ CFd \in Fd /\ CState = sock[Cli][CFd].state
                            /\ Lookup(Cli, Srv) = CFd /\ sock[Cli][CFd] \in Socket
         /\ SFd # NullFd => /\ SFd \in Fd /\ SState = sock[Srv][SFd].state
                            /\ Lookup(Srv, Cli) = SFd /\ sock[Srv][SFd] \in Socket
         /\ CFd = NullFd => Lookup(Cli, Srv) = 0
         /\ SFd = NullFd => Lookup(Srv, Cli) = 0
         /\ CState \in State \cup {"none"} /\ SState \in State \cup {"none"}
<1>1. Cli \in Node /\ Srv \in Node
  BY TheNodes
<1>2. CFd \in Fd \cup {NullFd} /\ SFd \in Fd \cup {NullFd}
  BY <1>1 DEF TypeOK, CFd, SFd
<1>3. \A n \in Node, fd \in Fd : sock[n][fd] \in Socket
  BY DEF TypeOK
<1>4. \A t \in Socket : t.state \in State /\ t.state # "none"
  BY DEF Socket, State
<1> QED
  BY <1>1, <1>2, <1>3, <1>4 DEF CState, SState, Lookup, CFd, SFd

\* What a delivery finds at the server, and at the client.
LEMMA Found ==
  ASSUME OnePair, TypeOK, Connection
  PROVE  /\ SState # "none" => sock[Srv][Lookup(Srv, Cli)].state = SState
         /\ SState = "none" => sock[Srv][Lookup(Srv, Cli)].state \in {"CLOSED", "LISTEN"}
         /\ CState # "none" => sock[Cli][Lookup(Cli, Srv)].state = CState
         /\ CState = "none" => sock[Cli][Lookup(Cli, Srv)].state = "CLOSED"
<1>1. Quiet /\ 0 \in Fd /\ NullFd \notin Fd
  BY Sizes DEF Connection
<1> QED
  BY <1>1, View DEF Quiet

\* SYN come first and stay first: what follows are SYN again, or no more.
LEMMA SynsStayFirst ==
  ASSUME NEW q \in Seq(Packet), SynsFirst(q), NEW pkts \in Seq(Packet),
         \/ \A i \in 1 .. Len(pkts) : pkts[i].flag # "SYN"
         \/ /\ \A i \in 1 .. Len(q) : q[i].flag = "SYN"
            /\ \A i \in 1 .. Len(pkts) : pkts[i].flag = "SYN"
  PROVE  SynsFirst(Longer(q, pkts))
<1> DEFINE t == Longer(q, pkts)
<1>1. /\ Len(t) \in Nat /\ Len(q) \in Nat
      /\ \A i \in 1 .. Len(t) : /\ i <= Len(q) => i \in 1 .. Len(q) /\ t[i] = q[i]
                                /\ i > Len(q) => /\ i - Len(q) \in 1 .. Len(pkts)
                                                 /\ t[i] = pkts[i - Len(q)]
  BY LongerIs
<1> HIDE DEF t
<1>2. ASSUME NEW i \in 1 .. Len(t), NEW j \in 1 .. Len(t), i < j, t[j].flag = "SYN"
      PROVE  t[i].flag = "SYN"
  <2>1. CASE j <= Len(q)
    <3>1. i <= Len(q)
      BY <1>1, <1>2, <2>1
    <3>2. i \in 1 .. Len(q) /\ j \in 1 .. Len(q) /\ t[i] = q[i] /\ t[j] = q[j]
      BY <1>1, <2>1, <3>1
    <3> QED
      BY <1>2, <3>2 DEF SynsFirst
  <2>2. CASE j > Len(q)
    <3>1. j - Len(q) \in 1 .. Len(pkts) /\ t[j] = pkts[j - Len(q)]
      BY <1>1, <2>2
    <3>2. /\ \A k \in 1 .. Len(q) : q[k].flag = "SYN"
          /\ \A k \in 1 .. Len(pkts) : pkts[k].flag = "SYN"
      BY <1>2, <3>1
    <3>3. i <= Len(q) \/ i > Len(q)
      BY <1>1
    <3> QED
      BY <1>1, <3>2, <3>3
  <2> QED
    BY <1>1, <2>1, <2>2
<1>3. SynsFirst(t)
  BY <1>2 DEF SynsFirst
<1> QED
  BY <1>3 DEF t

\* Behind a packet that is not a SYN there is none.
LEMMA SynsTail ==
  ASSUME NEW q \in Seq(Packet), SynsFirst(q), q # <<>>
  PROVE  /\ SynsFirst(Tail(q))
         /\ Head(q).flag # "SYN" => \A i \in 1 .. Len(Tail(q)) : Tail(q)[i].flag # "SYN"
<1>1. /\ Len(q) \in Nat /\ Len(q) >= 1 /\ Head(q) = q[1]
      /\ Len(Tail(q)) = Len(q) - 1
      /\ \A i \in 1 .. Len(q) - 1 : Tail(q)[i] = q[i + 1]
  BY HeadTail
<1>2. \A i, j \in 1 .. Len(Tail(q)) :
        i < j /\ Tail(q)[j].flag = "SYN" => Tail(q)[i].flag = "SYN"
  <2> SUFFICES ASSUME NEW i \in 1 .. Len(Tail(q)), NEW j \in 1 .. Len(Tail(q)),
                      i < j, Tail(q)[j].flag = "SYN"
               PROVE  Tail(q)[i].flag = "SYN"
    OBVIOUS
  <2>1. /\ i + 1 \in 1 .. Len(q) /\ j + 1 \in 1 .. Len(q) /\ i + 1 < j + 1
        /\ Tail(q)[i] = q[i + 1] /\ Tail(q)[j] = q[j + 1]
    BY <1>1
  <2> QED
    BY <2>1 DEF SynsFirst
<1>3. ASSUME Head(q).flag # "SYN", NEW i \in 1 .. Len(Tail(q))
      PROVE  Tail(q)[i].flag # "SYN"
  <2>1. 1 \in 1 .. Len(q) /\ i + 1 \in 1 .. Len(q) /\ 1 < i + 1
        /\ Tail(q)[i] = q[i + 1]
    BY <1>1
  <2> QED
    BY <1>1, <1>3, <2>1 DEF SynsFirst
<1> QED
  BY <1>2, <1>3 DEF SynsFirst

\* A sequence of packets that may also be fewer.
LEMMA SeqFilter ==
  ASSUME NEW S, NEW T, NEW q \in Seq(S), \A i \in 1 .. Len(q) : q[i] \in T
  PROVE  q \in Seq(T)
OBVIOUS

\* What a step does to the links of two nodes.
LEMMA NetAfter ==
  ASSUME OnePair, TypeOK, NEW a \in Node, NEW b \in Node, a # b,
         \A n \in Node : net[<<n, n>>] = <<>>, NEW pkts \in Seq(Packet)
  PROVE  /\ net' = Consumed(<<a, b>>) /\ net[<<a, b>>] # <<>> =>
              /\ net'[<<a, b>>] = Tail(net[<<a, b>>])
              /\ net'[<<b, a>>] = net[<<b, a>>]
              /\ \A n \in Node : net'[<<n, n>>] = <<>>
         /\ net' = Send(Consumed(<<a, b>>), b, a, pkts) /\ net[<<a, b>>] # <<>> =>
              /\ net'[<<a, b>>] = Tail(net[<<a, b>>])
              /\ net'[<<b, a>>] = Longer(net[<<b, a>>], pkts)
              /\ \A n \in Node : net'[<<n, n>>] = <<>>
         /\ net' = Send(net, a, b, pkts) =>
              /\ net'[<<a, b>>] = Longer(net[<<a, b>>], pkts)
              /\ net'[<<b, a>>] = net[<<b, a>>]
              /\ \A n \in Node : net'[<<n, n>>] = <<>>
<1>1. /\ net \in [Link -> Seq(Packet)]
      /\ <<a, b>> \in Link /\ <<b, a>> \in Link /\ <<a, b>> # <<b, a>>
      /\ \A n \in Node : <<n, n>> \in Link /\ <<n, n>> # <<a, b>> /\ <<n, n>> # <<b, a>>
  BY DEF TypeOK, Link
<1>2. ASSUME net[<<a, b>>] # <<>>
      PROVE  /\ Consumed(<<a, b>>) \in [Link -> Seq(Packet)]
             /\ \A k \in Link : Consumed(<<a, b>>)[k] =
                                  IF k = <<a, b>> THEN Tail(net[<<a, b>>]) ELSE net[k]
  BY <1>1, <1>2, ConsumedIs
<1>3. ASSUME net[<<a, b>>] # <<>>, net' = Send(Consumed(<<a, b>>), b, a, pkts)
      PROVE  /\ \A l \in Link : l # <<b, a>> => net'[l] = Consumed(<<a, b>>)[l]
             /\ net'[<<b, a>>] = Longer(Consumed(<<a, b>>)[<<b, a>>], pkts)
  <2>1. Consumed(<<a, b>>) \in [Link -> Seq(Packet)]
    BY <1>2, <1>3
  <2> DEFINE taken == Consumed(<<a, b>>)
  <2>2. taken \in [Link -> Seq(Packet)] /\ net' = Send(taken, b, a, pkts)
    BY <1>3, <2>1
  <2> HIDE DEF taken
  <2>3. \A l \in Link : l # <<b, a>> => Send(taken, b, a, pkts)[l] = taken[l]
    BY <2>2, SendNotOn
  <2>4. Send(taken, b, a, pkts)[<<b, a>>] = Longer(taken[<<b, a>>], pkts)
    BY <2>2, SendOn
  <2> QED
    BY <2>2, <2>3, <2>4 DEF taken
<1>4. ASSUME net' = Send(net, a, b, pkts)
      PROVE  /\ \A l \in Link : l # <<a, b>> => net'[l] = net[l]
             /\ net'[<<a, b>>] = Longer(net[<<a, b>>], pkts)
  <2>1. /\ \A l \in Link : l # <<a, b>> => Send(net, a, b, pkts)[l] = net[l]
        /\ Send(net, a, b, pkts)[<<a, b>>] = Longer(net[<<a, b>>], pkts)
    BY <1>1, SendNotOn, SendOn
  <2> QED
    BY <1>4, <2>1
<1> QED
  BY <1>1, <1>2, <1>3, <1>4

-----------------------------------------------------------------------------
(* What is in flight after a step, in the states c and s that it leads to  *)

\* The packets that a state allows are still packets when it allows more.
LEMMA MoreAllowed ==
  ASSUME NEW c, NEW s, NEW d, NEW t
  PROVE  /\ UpAllowed(c, s) \subseteq UpAllowed(d, t) => UpPackets(c, s) \subseteq UpPackets(d, t)
         /\ DownAllowed(c, s) \subseteq DownAllowed(d, t)
              => DownPackets(c, s) \subseteq DownPackets(d, t)
         /\ UpPackets(c, s) \subseteq Packet /\ DownPackets(c, s) \subseteq Packet
BY DEF UpPackets, DownPackets

\* What is on its way to the server may stay there when more is allowed.
LEMMA UpStays ==
  ASSUME InFlight, NEW c, NEW s, UpAllowed(CState, SState) \subseteq UpAllowed(c, s)
  PROVE  Up \in Seq(UpPackets(c, s))
BY MoreAllowed, SeqMonotonic DEF InFlight

\* And what is on its way to the client.
LEMMA DownStays ==
  ASSUME InFlight, NEW c, NEW s, DownAllowed(CState, SState) \subseteq DownAllowed(c, s)
  PROVE  Down \in Seq(DownPackets(c, s))
BY MoreAllowed, SeqMonotonic DEF InFlight

\* What follows the head; behind anything but a SYN there is no SYN.
LEMMA UpTail ==
  ASSUME InFlight, Up # <<>>, NEW c, NEW s,
         \/ UpAllowed(CState, SState) \subseteq UpAllowed(c, s)
         \/ /\ Head(Up).flag # "SYN"
            /\ UpAllowed(CState, SState) \ {"SYN"} \subseteq UpAllowed(c, s)
  PROVE  /\ Tail(Up) \in Seq(UpPackets(c, s))
         /\ Head(Up) \in UpPackets(CState, SState)
<1>1. Up \in Seq(UpPackets(CState, SState)) /\ SynsFirst(Up)
  BY DEF InFlight
<1>2. /\ Tail(Up) \in Seq(UpPackets(CState, SState))
      /\ Head(Up) \in UpPackets(CState, SState)
  BY <1>1, HeadTail
<1>3. CASE UpAllowed(CState, SState) \subseteq UpAllowed(c, s)
  BY <1>2, <1>3, MoreAllowed, SeqMonotonic
<1>4. CASE /\ Head(Up).flag # "SYN"
           /\ UpAllowed(CState, SState) \ {"SYN"} \subseteq UpAllowed(c, s)
  <2>1. Up \in Seq(Packet)
    BY <1>1, MoreAllowed, SeqMonotonic
  <2>2. \A i \in 1 .. Len(Tail(Up)) : Tail(Up)[i].flag # "SYN"
    BY <1>1, <1>4, <2>1, SynsTail
  <2>3. \A i \in 1 .. Len(Tail(Up)) : Tail(Up)[i] \in UpPackets(c, s)
    <3> SUFFICES ASSUME NEW i \in 1 .. Len(Tail(Up)) PROVE Tail(Up)[i] \in UpPackets(c, s)
      OBVIOUS
    <3>1. Tail(Up)[i] \in UpPackets(CState, SState)
      BY <1>2, ElementOfSeq
    <3> QED
      BY <1>4, <2>2, <3>1 DEF UpPackets
  <2> QED
    BY <1>2, <2>3, SeqFilter
<1> QED
  BY <1>2, <1>3, <1>4

\* What follows the head, on the way to the client.
LEMMA DownTail ==
  ASSUME InFlight, Down # <<>>, NEW c, NEW s,
         DownAllowed(CState, SState) \subseteq DownAllowed(c, s)
  PROVE  /\ Tail(Down) \in Seq(DownPackets(c, s))
         /\ Head(Down) \in DownPackets(CState, SState)
<1>1. Down \in Seq(DownPackets(CState, SState))
  BY DEF InFlight
<1>2. /\ Tail(Down) \in Seq(DownPackets(CState, SState))
      /\ Head(Down) \in DownPackets(CState, SState)
  BY <1>1, HeadTail
<1> QED
  <2>1. DownPackets(CState, SState) \subseteq DownPackets(c, s)
    BY MoreAllowed
  <2> QED
    BY <1>2, <2>1, SeqMonotonic

\* A packet leaves for good, at either end.
LEMMA TakenBySrv ==
  ASSUME OnePair, TypeOK, InFlight, Up # <<>>, NEW c, NEW s, CState' = c, SState' = s,
         net' = Consumed(<<Cli, Srv>>),
         Tail(Up) \in Seq(UpPackets(c, s)), Down \in Seq(DownPackets(c, s))
  PROVE  InFlight'
<1>1. Cli \in Node /\ Srv \in Node /\ Cli # Srv /\ <<>> \in Seq(Packet)
  BY TheNodes
<1>2. /\ Up' = Tail(Up) /\ Down' = Down /\ \A n \in Node : net'[<<n, n>>] = <<>>
  BY <1>1, NetAfter DEF InFlight, Up, Down
<1>3. SynsFirst(Tail(Up))
  <2>1. Up \in Seq(Packet)
    BY MoreAllowed, SeqMonotonic DEF InFlight
  <2> QED
    BY <2>1, SynsTail DEF InFlight
<1> QED
  BY <1>2, <1>3 DEF InFlight, SynsFirst

\* The client takes a packet and does not answer.
LEMMA TakenByCli ==
  ASSUME OnePair, TypeOK, InFlight, Down # <<>>, NEW c, NEW s, CState' = c, SState' = s,
         net' = Consumed(<<Srv, Cli>>),
         Up \in Seq(UpPackets(c, s)), Tail(Down) \in Seq(DownPackets(c, s))
  PROVE  InFlight'
<1>1. Cli \in Node /\ Srv \in Node /\ Cli # Srv /\ <<>> \in Seq(Packet)
  BY TheNodes
<1>2. /\ Up' = Up /\ Down' = Tail(Down) /\ \A n \in Node : net'[<<n, n>>] = <<>>
  BY <1>1, NetAfter DEF InFlight, Up, Down
<1> QED
  BY <1>2 DEF InFlight, SynsFirst

\* A packet is answered, at either end.
LEMMA AnsweredBySrv ==
  ASSUME OnePair, TypeOK, InFlight, Up # <<>>, NEW c, NEW s, CState' = c, SState' = s,
         NEW pkts \in Seq(DownPackets(c, s)),
         net' = Send(Consumed(<<Cli, Srv>>), Srv, Cli, pkts),
         Tail(Up) \in Seq(UpPackets(c, s)), Down \in Seq(DownPackets(c, s))
  PROVE  InFlight'
<1>1. Cli \in Node /\ Srv \in Node /\ Cli # Srv /\ pkts \in Seq(Packet)
  BY TheNodes, MoreAllowed, SeqMonotonic
<1>2. /\ Up' = Tail(Up) /\ Down' = Longer(Down, pkts)
      /\ \A n \in Node : net'[<<n, n>>] = <<>>
  BY <1>1, NetAfter DEF InFlight, Up, Down
<1>3. SynsFirst(Tail(Up))
  <2>1. Up \in Seq(Packet)
    BY MoreAllowed, SeqMonotonic DEF InFlight
  <2> QED
    BY <2>1, SynsTail DEF InFlight
<1>4. Longer(Down, pkts) \in Seq(DownPackets(c, s))
  BY LongerIs
<1> QED
  BY <1>2, <1>3, <1>4 DEF InFlight, SynsFirst

\* The client takes a packet and answers; it never answers with a SYN.
LEMMA AnsweredByCli ==
  ASSUME OnePair, TypeOK, InFlight, Down # <<>>, NEW c, NEW s, CState' = c, SState' = s,
         NEW pkts \in Seq(UpPackets(c, s)),
         \A i \in 1 .. Len(pkts) : pkts[i].flag # "SYN",
         net' = Send(Consumed(<<Srv, Cli>>), Cli, Srv, pkts),
         Up \in Seq(UpPackets(c, s)), Tail(Down) \in Seq(DownPackets(c, s))
  PROVE  InFlight'
<1>1. /\ Cli \in Node /\ Srv \in Node /\ Cli # Srv
      /\ pkts \in Seq(Packet) /\ Up \in Seq(Packet)
  BY TheNodes, MoreAllowed, SeqMonotonic
<1>2. /\ Up' = Longer(Up, pkts) /\ Down' = Tail(Down)
      /\ \A n \in Node : net'[<<n, n>>] = <<>>
  BY <1>1, NetAfter DEF InFlight, Up, Down
<1>3. SynsFirst(Longer(Up, pkts)) /\ Longer(Up, pkts) \in Seq(UpPackets(c, s))
  BY <1>1, SynsStayFirst, LongerIs DEF InFlight
<1> QED
  BY <1>2, <1>3 DEF InFlight, SynsFirst

\* Packets are sent, at either end.
LEMMA SentByCli ==
  ASSUME OnePair, TypeOK, InFlight, NEW c, NEW s, CState' = c, SState' = s,
         NEW pkts \in Seq(UpPackets(c, s)),
         \/ \A i \in 1 .. Len(pkts) : pkts[i].flag # "SYN"
         \/ /\ \A i \in 1 .. Len(Up) : Up[i].flag = "SYN"
            /\ \A i \in 1 .. Len(pkts) : pkts[i].flag = "SYN",
         net' = Send(net, Cli, Srv, pkts),
         Up \in Seq(UpPackets(c, s)), Down \in Seq(DownPackets(c, s))
  PROVE  InFlight'
<1>1. /\ Cli \in Node /\ Srv \in Node /\ Cli # Srv
      /\ pkts \in Seq(Packet) /\ Up \in Seq(Packet)
  BY TheNodes, MoreAllowed, SeqMonotonic
<1>2. /\ Up' = Longer(Up, pkts) /\ Down' = Down
      /\ \A n \in Node : net'[<<n, n>>] = <<>>
  BY <1>1, NetAfter DEF InFlight, Up, Down
<1>3. SynsFirst(Longer(Up, pkts)) /\ Longer(Up, pkts) \in Seq(UpPackets(c, s))
  BY <1>1, SynsStayFirst, LongerIs DEF InFlight
<1> QED
  BY <1>2, <1>3 DEF InFlight, SynsFirst

\* The server sends without a packet to answer.
LEMMA SentBySrv ==
  ASSUME OnePair, TypeOK, InFlight, NEW c, NEW s, CState' = c, SState' = s,
         NEW pkts \in Seq(DownPackets(c, s)),
         net' = Send(net, Srv, Cli, pkts),
         Up \in Seq(UpPackets(c, s)), Down \in Seq(DownPackets(c, s))
  PROVE  InFlight'
<1>1. Cli \in Node /\ Srv \in Node /\ Cli # Srv /\ pkts \in Seq(Packet)
  BY TheNodes, MoreAllowed, SeqMonotonic
<1>2. /\ Up' = Up /\ Down' = Longer(Down, pkts)
      /\ \A n \in Node : net'[<<n, n>>] = <<>>
  BY <1>1, NetAfter DEF InFlight, Up, Down
<1>3. Longer(Down, pkts) \in Seq(DownPackets(c, s))
  BY LongerIs
<1> QED
  BY <1>2, <1>3 DEF InFlight, SynsFirst

-----------------------------------------------------------------------------
(* The sockets after a step                                                *)

\* A step that changes no socket and no entry of the table.
LEMMA SameSockets ==
  ASSUME Connection, UNCHANGED <<sock, fdVars>>
  PROVE  /\ CFd' = CFd /\ SFd' = SFd /\ CState' = CState /\ SState' = SState
         /\ InPhase' /\ Quiet' /\ Ends' /\ Descriptors'
<1>1. UNCHANGED <<sock, fdQueue, socketTable, globalFd>>
  BY DEF fdVars
<1>2. CFd' = CFd /\ SFd' = SFd
  BY <1>1 DEF CFd, SFd
<1>3. CState' = CState /\ SState' = SState
  BY <1>1, <1>2 DEF CState, SState
<1> QED
  BY <1>1, <1>2, <1>3 DEF Connection, InPhase, Quiet, Ends, Descriptors

\* A step that changes the socket of the client, or of the server.
LEMMA ClientMoves ==
  ASSUME OnePair, TypeOK, Connection, CFd # NullFd, NEW t \in Socket,
         sock' = Put(Cli, CFd, t), UNCHANGED fdVars,
         t.dest = sock[Cli][CFd].dest
  PROVE  /\ CFd' = CFd /\ SFd' = SFd /\ CState' = t.state /\ SState' = SState
         /\ sock'[Cli][CFd] = t /\ sock'[Srv] = sock[Srv]
         /\ Quiet' /\ Ends' /\ Descriptors'
<1>1. UNCHANGED <<fdQueue, socketTable, globalFd>>
  BY DEF fdVars
<1>2. Cli \in Node /\ Srv \in Node /\ Cli # Srv /\ CFd \in Fd
      /\ sock \in [Node -> [Fd -> Socket]]
  BY TheNodes, View DEF TypeOK
<1>3. CFd' = CFd /\ SFd' = SFd
  BY <1>1 DEF CFd, SFd
<1>4. /\ sock'[Srv] = sock[Srv]
      /\ \A fd \in Fd : sock'[Cli][fd] = IF fd = CFd THEN t ELSE sock[Cli][fd]
  BY <1>2 DEF Put
<1>5. CState' = t.state /\ SState' = SState
  BY <1>2, <1>3, <1>4 DEF CState, SState
<1>6. Quiet'
  BY <1>1, <1>3, <1>4 DEF Connection, Quiet
<1>7. Ends'
  BY <1>1, <1>2, <1>3, <1>4 DEF Connection, Ends
<1>8. Descriptors'
  BY <1>1, <1>3, <1>4 DEF Connection, Descriptors
<1> QED
  BY <1>2, <1>3, <1>4, <1>5, <1>6, <1>7, <1>8

\* The server's socket of the connection changes and keeps its peer.
LEMMA ServerMoves ==
  ASSUME OnePair, TypeOK, Connection, SFd # NullFd, NEW t \in Socket,
         sock' = Put(Srv, SFd, t), UNCHANGED fdVars,
         t.dest = sock[Srv][SFd].dest, t.isResend = sock[Srv][SFd].isResend
  PROVE  /\ CFd' = CFd /\ SFd' = SFd /\ CState' = CState /\ SState' = t.state
         /\ sock'[Srv][SFd] = t /\ sock'[Cli] = sock[Cli]
         /\ Quiet' /\ Ends' /\ Descriptors'
<1>1. UNCHANGED <<fdQueue, socketTable, globalFd>>
  BY DEF fdVars
<1>2. Cli \in Node /\ Srv \in Node /\ Cli # Srv /\ SFd \in Fd
      /\ sock \in [Node -> [Fd -> Socket]]
  BY TheNodes, View DEF TypeOK
<1>3. CFd' = CFd /\ SFd' = SFd
  BY <1>1 DEF CFd, SFd
<1>4. /\ sock'[Cli] = sock[Cli]
      /\ \A fd \in Fd : sock'[Srv][fd] = IF fd = SFd THEN t ELSE sock[Srv][fd]
  BY <1>2 DEF Put
<1>5. CState' = CState /\ SState' = t.state
  BY <1>2, <1>3, <1>4 DEF CState, SState
<1>6. Quiet'
  BY <1>1, <1>2, <1>3, <1>4 DEF Connection, Quiet
<1>7. Ends'
  BY <1>1, <1>2, <1>3, <1>4 DEF Connection, Ends
<1>8. Descriptors'
  <2>1. Listed(fdQueue'[Srv]) =
          {fd \in Fd : fd # SFd' /\ sock'[Srv][fd].state # "LISTEN"}
    BY <1>1, <1>3, <1>4 DEF Connection, Descriptors
  <2> QED
    BY <1>1, <1>3, <2>1 DEF Connection, Descriptors
<1> QED
  BY <1>2, <1>3, <1>4, <1>5, <1>6, <1>7, <1>8

\* Only packets move.
LEMMA OnlyPackets ==
  ASSUME OnePair, TypeOK, Connection, InFlight',
         UNCHANGED <<sock, fdVars, reSendVars, dataTimer, closeVars, receiveVars, appVars>>
  PROVE  Connection'
<1>1. /\ CFd' = CFd /\ SFd' = SFd /\ CState' = CState /\ SState' = SState
      /\ InPhase' /\ Quiet' /\ Ends' /\ Descriptors'
  BY SameSockets
<1>2. CliQueue' /\ SrvQueue'
  BY <1>1 DEF Connection, CliQueue, SrvQueue, reSendVars
<1>3. Closing' /\ Data' /\ App'
  BY <1>1 DEF Connection, Closing, Data, App, closeVars, receiveVars, appVars
<1> QED
  BY <1>1, <1>2, <1>3 DEF Connection

-----------------------------------------------------------------------------
(* Free descriptors                                                        *)

\* Taking the last descriptor of the queue.
LEMMA TakeLast ==
  ASSUME NEW q \in Seq(Fd), Unique(q), Listed(q) # {}
  PROVE  /\ PopBack(q) \in Listed(q) /\ q # <<>>
         /\ Unique(AllButLast(q)) /\ Listed(AllButLast(q)) = Listed(q) \ {PopBack(q)}
<1>1. Len(q) \in Nat /\ (q = <<>> => Len(q) = 0)
  BY EmptySeq
<1>2. Len(q) >= 1 /\ q # <<>> /\ Len(q) \in 1 .. Len(q)
  BY <1>1 DEF Listed
<1> DEFINE t == AllButLast(q)
<1>3. /\ Len(t) = Len(q) - 1
      /\ \A i \in 1 .. Len(q) - 1 : i \in 1 .. Len(q) /\ t[i] = q[i]
  <2>1. \A i \in 1 .. Len(q) - 1 : q[i] \in Fd
    BY <1>2
  <2>2. /\ Len(t) = IF 1 <= Len(q) - 1 THEN Len(q) - 1 - 1 + 1 ELSE 0
        /\ \A i \in 1 .. Len(q) - 1 - 1 + 1 : t[i] = q[1 + i - 1]
    BY <1>1, <2>1, SubSeqProperties DEF AllButLast
  <2> HIDE DEF t
  <2>3. Len(t) = Len(q) - 1
    <3>1. Len(q) \in Nat /\ Len(q) >= 1
      BY <1>1, <1>2
    <3>2. Len(t) = IF 1 <= Len(q) - 1 THEN Len(q) - 1 - 1 + 1 ELSE 0
      BY <2>2
    <3> DEFINE m == Len(q)
    <3>3. m \in Nat /\ m >= 1 /\ Len(t) = IF 1 <= m - 1 THEN m - 1 - 1 + 1 ELSE 0
      BY <3>1, <3>2
    <3> HIDE DEF m
    <3>4. CASE 1 <= m - 1
      <4>1. Len(t) = m - 1 - 1 + 1
        BY <3>3, <3>4
      <4>2. m - 1 - 1 + 1 = m - 1
        BY <3>3
      <4> QED
        BY <4>1, <4>2 DEF m
    <3>5. CASE ~(1 <= m - 1)
      <4>1. Len(t) = 0 /\ m - 1 = 0
        BY <3>3, <3>5
      <4> QED
        BY <4>1 DEF m
    <3> QED
      BY <3>4, <3>5
  <2>4. ASSUME NEW i \in 1 .. Len(q) - 1 PROVE i \in 1 .. Len(q) /\ t[i] = q[i]
    <3>1. i \in 1 .. Len(q) - 1 - 1 + 1 /\ i \in 1 .. Len(q) /\ 1 + i - 1 = i
      BY <1>1, <1>2
    <3>2. t[i] = q[1 + i - 1]
      BY <2>2, <3>1
    <3> QED
      BY <3>1, <3>2
  <2> QED
    BY <2>3, <2>4
<1> HIDE DEF t
<1>4. PopBack(q) = q[Len(q)]
  BY <1>2 DEF PopBack
<1>5. Unique(t)
  BY <1>1, <1>2, <1>3 DEF Unique
<1>6. \A x : x \in Listed(t) <=> x \in Listed(q) /\ x # q[Len(q)]
  <2>1. ASSUME NEW x, x \in Listed(t) PROVE x \in Listed(q) /\ x # q[Len(q)]
    <3>1. PICK i \in 1 .. Len(t) : x = t[i]
      BY <2>1 DEF Listed
    <3>2. i \in 1 .. Len(q) /\ x = q[i] /\ i # Len(q)
      BY <1>1, <1>2, <1>3, <3>1
    <3> QED
      BY <1>2, <3>2 DEF Listed, Unique
  <2>2. ASSUME NEW x, x \in Listed(q), x # q[Len(q)] PROVE x \in Listed(t)
    <3>1. PICK i \in 1 .. Len(q) : x = q[i]
      BY <2>2 DEF Listed
    <3>2. i \in 1 .. Len(t) /\ x = t[i]
      BY <1>1, <1>2, <1>3, <2>2, <3>1
    <3> QED
      BY <3>2 DEF Listed
  <2> QED
    BY <2>1, <2>2
<1> QED
  BY <1>2, <1>4, <1>5, <1>6 DEF t, Listed

\* Returning a descriptor.
LEMMA GiveBack ==
  ASSUME NEW q \in Seq(Fd), NEW fd \in Fd, Unique(q), fd \notin Listed(q)
  PROVE  Unique(Append(q, fd)) /\ Listed(Append(q, fd)) = Listed(q) \cup {fd}
<1> DEFINE t == Append(q, fd)
<1>1. /\ Len(q) \in Nat /\ Len(t) = Len(q) + 1 /\ t[Len(q) + 1] = fd
      /\ \A i \in 1 .. Len(q) : t[i] = q[i]
  BY AppendProperties
<1> HIDE DEF t
<1>2. \A i \in 1 .. Len(t) : i \in 1 .. Len(q) \/ i = Len(q) + 1
  BY <1>1
<1>3. Unique(t)
  <2> SUFFICES ASSUME NEW i \in 1 .. Len(t), NEW j \in 1 .. Len(t), t[i] = t[j]
               PROVE  i = j
    BY DEF Unique
  <2>1. CASE i \in 1 .. Len(q) /\ j \in 1 .. Len(q)
    BY <1>1, <2>1 DEF Unique
  <2>2. CASE i \in 1 .. Len(q) /\ j = Len(q) + 1
    BY <1>1, <2>2 DEF Listed
  <2>3. CASE i = Len(q) + 1 /\ j \in 1 .. Len(q)
    BY <1>1, <2>3 DEF Listed
  <2> QED
    BY <1>2, <2>1, <2>2, <2>3
<1>4. Listed(t) = Listed(q) \cup {fd}
  <2>1. ASSUME NEW x, x \in Listed(t) PROVE x \in Listed(q) \cup {fd}
    BY <1>1, <1>2, <2>1 DEF Listed
  <2>2. ASSUME NEW x, x \in Listed(q) \cup {fd} PROVE x \in Listed(t)
    <3>1. \A i \in 1 .. Len(q) : i \in 1 .. Len(t)
      BY <1>1
    <3>2. Len(q) + 1 \in 1 .. Len(t)
      BY <1>1
    <3> QED
      BY <1>1, <2>2, <3>1, <3>2 DEF Listed
  <2> QED
    BY <2>1, <2>2
<1> QED
  BY <1>3, <1>4 DEF t

-----------------------------------------------------------------------------
(* Steps that only move packets                                            *)

\* A packet that is dropped, by the server, by the client or by the radio.
LEMMA DroppedUp ==
  ASSUME OnePair, TypeOK, Connection, Up # <<>>, net' = Consumed(<<Cli, Srv>>),
         UNCHANGED <<sock, fdVars, reSendVars, dataTimer, closeVars, receiveVars, appVars>>
  PROVE  Connection'
<1>1. CState' = CState /\ SState' = SState /\ InFlight
  BY SameSockets DEF Connection
<1>2. /\ Tail(Up) \in Seq(UpPackets(CState, SState))
      /\ Down \in Seq(DownPackets(CState, SState))
  BY <1>1, UpTail DEF InFlight
<1>3. InFlight'
  BY <1>1, <1>2, TakenBySrv
<1> QED
  BY <1>3, OnlyPackets

\* A packet to the client is taken without effect.
LEMMA DroppedDown ==
  ASSUME OnePair, TypeOK, Connection, Down # <<>>, net' = Consumed(<<Srv, Cli>>),
         UNCHANGED <<sock, fdVars, reSendVars, dataTimer, closeVars, receiveVars, appVars>>
  PROVE  Connection'
<1>1. CState' = CState /\ SState' = SState /\ InFlight
  BY SameSockets DEF Connection
<1>2. /\ Tail(Down) \in Seq(DownPackets(CState, SState))
      /\ Up \in Seq(UpPackets(CState, SState))
  BY <1>1, DownTail DEF InFlight
<1>3. InFlight'
  BY <1>1, <1>2, TakenByCli
<1> QED
  BY <1>3, OnlyPackets

\* A handler that returns at once keeps the invariant.
LEMMA IgnoredStep ==
  ASSUME OnePair, TypeOK, Connection
  PROVE  /\ Up # <<>> /\ Ignored(Cli, Srv) => Connection'
         /\ Down # <<>> /\ Ignored(Srv, Cli) => Connection'
BY DroppedUp, DroppedDown DEF Ignored

\* What the head of a link tells of the phase.
LEMMA HeadUp ==
  ASSUME OnePair, TypeOK, Connection, NEW flag, Arrives(Cli, Srv, flag)
  PROVE  /\ Up # <<>> /\ Head(Up).flag = flag
         /\ flag \in UpAllowed(CState, SState)
         /\ flag = "SYN" => Head(Up).ack = 0
         /\ flag = "SYN" => /\ CState \in {"SYN_SENT", "ESTABLISHED"}
                            /\ SState \in {"none", "SYN_RCVD"}
                            /\ SState = "none" => CState = "SYN_SENT"
         /\ flag = "ACK" => \/ CState = "ESTABLISHED" /\ SState \in {"SYN_RCVD", "ESTABLISHED"}
                            \/ CState = "TIME_WAIT" /\ SState \in {"LAST_ACK", "none"}
                            \/ CState = "none" /\ SState = "none"
         /\ flag = "DATA" => CState = "ESTABLISHED"
         /\ flag = "FIN" => CState \in {"FIN_WAIT_1", "FIN_WAIT_2", "TIME_WAIT", "none"}
<1>1. Up # <<>> /\ Head(Up).flag = flag
  BY DEF Arrives, Up
<1>2. InFlight /\ <<CState, SState>> \in Phases
  BY DEF Connection, InPhase
<1>3. Head(Up) \in UpPackets(CState, SState)
  BY <1>1, <1>2, UpTail
<1>4. flag \in UpAllowed(CState, SState) /\ (flag = "SYN" => Head(Up).ack = 0)
  BY <1>1, <1>3 DEF UpPackets
<1> QED
  BY <1>1, <1>2, <1>4, PhaseCases, AllowedCases

\* And the head of the link to the client.
LEMMA HeadDown ==
  ASSUME OnePair, TypeOK, Connection, NEW flag, Arrives(Srv, Cli, flag)
  PROVE  /\ Down # <<>> /\ Head(Down).flag = flag
         /\ flag \in DownAllowed(CState, SState)
         /\ flag = "SYN" => \/ CState = "SYN_SENT" /\ SState = "SYN_RCVD"
                            \/ CState = "ESTABLISHED" /\ SState \in {"SYN_RCVD", "ESTABLISHED"}
         /\ flag = "ACK" /\ CState = "FIN_WAIT_1" => SState = "LAST_ACK"
         /\ flag # "DATA"
         /\ flag = "FIN" => CState \in {"FIN_WAIT_1", "FIN_WAIT_2", "TIME_WAIT", "none"}
<1>1. Down # <<>> /\ Head(Down).flag = flag
  BY DEF Arrives, Down
<1>2. InFlight /\ <<CState, SState>> \in Phases
  BY DEF Connection, InPhase
<1>3. Head(Down) \in DownPackets(CState, SState)
  BY <1>1, <1>2, DownTail
<1>4. flag \in DownAllowed(CState, SState)
  BY <1>1, <1>3 DEF DownPackets
<1> QED
  BY <1>1, <1>2, <1>4, PhaseCases, AllowedCases

\* The repeated FIN of the client is answered.
LEMMA StepFinAgain ==
  ASSUME OnePair, TypeOK, Connection
  PROVE  /\ FinAgain(Cli, Srv) => Connection'
         /\ ~FinAgain(Srv, Cli)
<1> DEFINE pkt == Head(net[<<Cli, Srv>>])
           s == sock[Srv][Lookup(Srv, Cli)]
           reply == Pkt("ACK", s.ISN, pkt.seq + 1)
<1>1. ASSUME FinAgain(Cli, Srv) PROVE Connection'
  <2>1. /\ Arrives(Cli, Srv, "FIN") /\ s.state = "LAST_ACK"
        /\ Ignored(Cli, Srv) \/ Answered(Cli, Srv, <<reply>>)
    BY <1>1 DEF FinAgain
  <2>2. Up # <<>> /\ CState \in {"FIN_WAIT_1", "FIN_WAIT_2", "TIME_WAIT", "none"}
    BY <2>1, HeadUp
  <2>3. SState = "LAST_ACK" /\ InFlight
    BY <2>1, Found, View DEF Connection, InPhase, State
  <2>4. CASE Answered(Cli, Srv, <<reply>>)
    <3>1. CState' = CState /\ SState' = SState
      BY <2>4, SameSockets DEF Answered
    <3>2. reply \in Packet /\ reply.flag = "ACK"
      <4>1. Srv \in Node /\ Cli \in Node
        BY TheNodes
      <4>2. pkt.seq \in Int /\ Lookup(Srv, Cli) \in Fd
        BY <2>2, <4>1, ArrivesIs DEF Up
      <4>3. s \in Socket
        BY <4>1, <4>2 DEF TypeOK
      <4>4. s.ISN \in Int /\ pkt.seq + 1 \in Int
        BY <4>2, <4>3, SocketFields
      <4> HIDE DEF s, pkt
      <4> QED
        BY <4>4, PktType
    <3> HIDE DEF reply
    <3>3. reply \in DownPackets(CState, SState)
      <4>1. "ACK" \in DownAllowed(CState, SState)
        BY <2>2, <2>3, PhaseCases, AllowedCases DEF Connection, InPhase
      <4> QED
        BY <3>2, <4>1 DEF DownPackets
    <3>4. <<reply>> \in Seq(DownPackets(CState, SState))
      BY <3>3
    <3>5. /\ Tail(Up) \in Seq(UpPackets(CState, SState))
          /\ Down \in Seq(DownPackets(CState, SState))
      BY <2>2, <2>3, UpTail DEF InFlight
    <3>6. InFlight'
      BY <2>2, <2>3, <2>4, <3>1, <3>4, <3>5, AnsweredBySrv DEF Answered
    <3> QED
      BY <2>4, <3>6, OnlyPackets DEF Answered
  <2> QED
    BY <2>1, <2>2, <2>4, IgnoredStep
<1>2. ~FinAgain(Srv, Cli)
  <2>1. sock[Cli][Lookup(Cli, Srv)].state # "LAST_ACK"
    BY Found, View, PhaseCases DEF Connection, InPhase
  <2> QED
    BY <2>1 DEF FinAgain
<1> QED
  BY <1>1, <1>2

\* What a handler ignores in the state of the socket.
LEMMA StepIgnored ==
  ASSUME OnePair, TypeOK, Connection
  PROVE  /\ AckIgnored(Cli, Srv) \/ FinIgnored(Cli, Srv) => Connection'
         /\ AckIgnored(Srv, Cli) \/ FinIgnored(Srv, Cli) => Connection'
<1>1. ASSUME AckIgnored(Cli, Srv) \/ FinIgnored(Cli, Srv) PROVE Connection'
  <2>1. Ignored(Cli, Srv) /\ Up # <<>>
    BY <1>1 DEF AckIgnored, FinIgnored, Arrives, Up
  <2> QED
    BY <2>1, IgnoredStep
<1>2. ASSUME AckIgnored(Srv, Cli) \/ FinIgnored(Srv, Cli) PROVE Connection'
  <2>1. Ignored(Srv, Cli) /\ Down # <<>>
    BY <1>2 DEF AckIgnored, FinIgnored, Arrives, Down
  <2> QED
    BY <2>1, IgnoredStep
<1> QED
  BY <1>1, <1>2

\* The radio loses a packet.
LEMMA StepLose ==
  ASSUME OnePair, TypeOK, Connection, NEW l \in Link, Lose(l)
  PROVE  Connection'
<1>1. /\ net[l] # <<>> /\ net' = Consumed(l)
      /\ UNCHANGED <<sock, fdVars, reSendVars, dataTimer, closeVars, receiveVars, appVars>>
  BY DEF Lose
<1>2. l = <<Cli, Srv>> \/ l = <<Srv, Cli>> \/ \E n \in Node : l = <<n, n>>
  BY TheNodes
<1>3. ~ \E n \in Node : l = <<n, n>>
  BY <1>1 DEF Connection, InFlight
<1> QED
  BY <1>1, <1>2, <1>3, DroppedUp, DroppedDown DEF Up, Down

-----------------------------------------------------------------------------
(* The handlers that change a socket                                       *)

\* A packet of the head of a link, and an answer made of it.
LEMMA ReplyTo ==
  ASSUME OnePair, TypeOK, NEW from \in Node, NEW n \in Node, net[<<from, n>>] # <<>>,
         NEW fd \in Fd, NEW flag \in {"SYN", "ACK", "FIN", "DATA"}
  PROVE  /\ LET p == Pkt(flag, sock[n][fd].ISN, Head(net[<<from, n>>]).seq + 1)
            IN  p \in Packet /\ p.flag = flag
         /\ sock[n][fd] \in Socket
<1>1. Head(net[<<from, n>>]).seq \in Int
  BY ArrivesIs
<1>2. sock[n][fd] \in Socket
  BY DEF TypeOK
<1>3. sock[n][fd].ISN \in Int /\ Head(net[<<from, n>>]).seq + 1 \in Int
  BY <1>1, <1>2, SocketFields
<1> QED
  BY <1>2, <1>3, PktType

\* The socket after a SYN.
LEMMA SynSocket ==
  ASSUME NEW s \in Socket
  PROVE  \A peer \in Node, m \in Byte :
           LET t == [s EXCEPT !.state = "SYN_RCVD", !.dest = peer, !.nextExpected = m,
                              !.reSend = TRUE]
           IN  /\ t \in Socket /\ t.state = "SYN_RCVD" /\ t.dest = peer
               /\ t.isResend = s.isResend /\ t.reSend = TRUE
<1>1. "SYN_RCVD" \in State
  BY DEF State
<1> QED
  BY <1>1 DEF Socket

\* A SYN of a client that the server knows is answered again.
LEMMA SynAgain ==
  ASSUME OnePair, TypeOK, Connection, ReceiveSYN(Cli, Srv), SFd # NullFd,
         sock[Srv][globalFd[Srv]].state = "LISTEN"
  PROVE  Connection'
<1> DEFINE pkt == Head(net[<<Cli, Srv>>])
           s == sock[Srv][SFd]
           reply == Pkt("SYN", s.ISN, pkt.seq + 1)
           t == [s EXCEPT !.state = "SYN_RCVD", !.dest = Cli,
                          !.nextExpected = U8(pkt.seq + 1), !.reSend = TRUE]
<1>1. Cli \in Node /\ Srv \in Node /\ SFd \in Fd /\ SFd = socketTable[Srv][Cli]
  BY TheNodes, View DEF SFd
<1>2. /\ Arrives(Cli, Srv, "SYN")
      /\ sock' = [sock EXCEPT ![Srv][SFd] = t]
      /\ socketTable' = [socketTable EXCEPT ![Srv][Cli] = SFd]
      /\ fdQueue' = [fdQueue EXCEPT ![Srv] = fdQueue[Srv]]
      /\ s.reSend => UNCHANGED reSendVars
      /\ net' = Send(Consumed(<<Cli, Srv>>), Srv, Cli, <<reply>>)
      /\ UNCHANGED <<globalFd, dataTimer, closeVars, receiveVars, appVars>>
  BY <1>1 DEF ReceiveSYN
<1>3. /\ Up # <<>> /\ SState = "SYN_RCVD" /\ CState \in {"SYN_SENT", "ESTABLISHED"}
      /\ InFlight /\ Ends /\ SrvQueue
  BY <1>2, HeadUp, View DEF Connection
<1>4. UNCHANGED fdVars
  <2>1. /\ fdQueue \in [Node -> Seq(Fd)]
        /\ socketTable \in [Node -> [Node -> Fd \cup {NullFd}]]
    BY DEF TypeOK
  <2>2. fdQueue' = fdQueue
    BY <1>2, <2>1
  <2>3. socketTable' = socketTable
    BY <1>1, <1>2, <2>1
  <2> QED
    BY <1>2, <2>2, <2>3 DEF fdVars
<1>5. /\ reply \in Packet /\ reply.flag = "SYN" /\ s \in Socket /\ pkt.seq \in Int
  BY <1>1, <1>3, ReplyTo, ArrivesIs DEF Up
<1>6. /\ t \in Socket /\ t.state = "SYN_RCVD" /\ t.dest = s.dest
      /\ t.isResend = s.isResend /\ t.reSend = TRUE
  <2>1. s.dest = Cli /\ U8(pkt.seq + 1) \in Byte
    BY <1>1, <1>3, <1>5, ByteType, Sizes DEF Ends
  <2>2. /\ t \in Socket /\ t.state = "SYN_RCVD" /\ t.dest = Cli
        /\ t.isResend = s.isResend /\ t.reSend = TRUE
    <3>1. s \in Socket /\ U8(pkt.seq + 1) \in Byte
      BY <1>5, <2>1
    <3> HIDE DEF s, pkt
    <3> QED
      BY <1>1, <3>1, SynSocket
  <2> QED
    BY <2>1, <2>2
<1> HIDE DEF t, reply, pkt
<1>7. s.reSend
  BY <1>1, <1>3, Sizes DEF SrvQueue
<1>8. /\ CFd' = CFd /\ SFd' = SFd /\ CState' = CState /\ SState' = SState
      /\ sock'[Srv][SFd] = t /\ sock'[Cli] = sock[Cli]
      /\ Quiet' /\ Ends' /\ Descriptors'
  <2>1. sock' = Put(Srv, SFd, t)
    BY <1>2 DEF Put
  <2> QED
    BY <1>3, <1>4, <1>6, <2>1, ServerMoves
<1>9. InPhase'
  BY <1>8 DEF Connection, InPhase
<1>10. InFlight'
  <2>1. "SYN" \in DownAllowed(CState, SState)
    BY <1>3, AllowedCases
  <2>2. <<reply>> \in Seq(DownPackets(CState, SState))
    BY <1>5, <2>1 DEF DownPackets
  <2>3. /\ Tail(Up) \in Seq(UpPackets(CState, SState))
        /\ Down \in Seq(DownPackets(CState, SState))
    BY <1>3, UpTail DEF InFlight
  <2> QED
    BY <1>2, <1>3, <1>8, <2>2, <2>3, AnsweredBySrv
<1>11. CliQueue' /\ SrvQueue'
  <2>1. UNCHANGED <<reSendQueue, reSendTimer>>
    BY <1>2, <1>7 DEF reSendVars
  <2>2. CliQueue'
    BY <1>8, <2>1 DEF Connection, CliQueue
  <2>3. SrvQueue'
    BY <1>3, <1>6, <1>8, <2>1 DEF SrvQueue
  <2> QED
    BY <2>2, <2>3
<1>12. Closing' /\ Data' /\ App'
  BY <1>2, <1>8 DEF Connection, Closing, Data, App, closeVars, receiveVars, appVars
<1> QED
  BY <1>8, <1>9, <1>10, <1>11, <1>12 DEF Connection
\* A SYN of a client that the server does not know takes a free descriptor.
LEMMA SynFirst ==
  ASSUME OnePair, TypeOK, Connection, ReceiveSYN(Cli, Srv), SFd = NullFd,
         sock[Srv][globalFd[Srv]].state = "LISTEN"
  PROVE  Connection'
<1> DEFINE pkt == Head(net[<<Cli, Srv>>])
           fd == PopBack(fdQueue[Srv])
           s == sock[Srv][fd]
           reply == Pkt("SYN", s.ISN, pkt.seq + 1)
           t == [s EXCEPT !.state = "SYN_RCVD", !.dest = Cli,
                          !.nextExpected = U8(pkt.seq + 1), !.reSend = TRUE]
           entry == [fd |-> fd, dest |-> Cli, pkt |-> reply]
<1>1. /\ Cli \in Node /\ Srv \in Node /\ Cli # Srv /\ socketTable[Srv][Cli] = NullFd
      /\ fdQueue \in [Node -> Seq(Fd)] /\ sock \in [Node -> [Fd -> Socket]]
      /\ socketTable \in [Node -> [Node -> Fd \cup {NullFd}]]
  BY TheNodes DEF SFd, TypeOK
<1>2. /\ Arrives(Cli, Srv, "SYN")
      /\ sock' = [sock EXCEPT ![Srv][fd] = t]
      /\ socketTable' = [socketTable EXCEPT ![Srv][Cli] = fd]
      /\ fdQueue' = [fdQueue EXCEPT ![Srv] =
           IF fdQueue[Srv] = <<>> THEN fdQueue[Srv] ELSE AllButLast(fdQueue[Srv])]
      /\ ~s.reSend => Arm(Srv, fd, Cli, reply)
      /\ net' = Send(Consumed(<<Cli, Srv>>), Srv, Cli, <<reply>>)
      /\ UNCHANGED <<globalFd, dataTimer, closeVars, receiveVars, appVars>>
  BY <1>1 DEF ReceiveSYN
<1>3. /\ Up # <<>> /\ SState = "none" /\ CState = "SYN_SENT"
      /\ InFlight /\ Ends /\ SrvQueue /\ Quiet /\ Descriptors /\ App
  BY <1>2, HeadUp, View DEF Connection
<1>4. /\ fd \in Fd /\ fd # NullFd /\ s.state # "LISTEN" /\ ~s.reSend /\ s \in Socket
      /\ fdQueue[Srv] # <<>>
      /\ Unique(AllButLast(fdQueue[Srv]))
      /\ Listed(AllButLast(fdQueue[Srv])) = Listed(fdQueue[Srv]) \ {fd}
  <2>1. /\ fdQueue[Srv] \in Seq(Fd) /\ Unique(fdQueue[Srv])
        /\ Listed(fdQueue[Srv]) = {e \in Fd : e # SFd /\ sock[Srv][e].state # "LISTEN"}
    BY <1>1, <1>3 DEF Descriptors
  <2>2. \E e \in Fd : e # globalFd[Srv]
    <3>1. 0 \in Fd /\ 1 \in Fd
      BY Sizes DEF Fd, OnePair
    <3> QED
      BY <3>1
  <2>3. Listed(fdQueue[Srv]) # {}
    BY <1>3, <2>1, <2>2, Sizes DEF Quiet
  <2> HIDE DEF fd
  <2>4. /\ fd \in Listed(fdQueue[Srv]) /\ fdQueue[Srv] # <<>>
        /\ Unique(AllButLast(fdQueue[Srv]))
        /\ Listed(AllButLast(fdQueue[Srv])) = Listed(fdQueue[Srv]) \ {fd}
    BY <2>1, <2>3, TakeLast DEF fd
  <2>5. fd \in Fd /\ fd # SFd /\ sock[Srv][fd].state # "LISTEN" /\ fd # NullFd
    BY <2>1, <2>4, Sizes
  <2> QED
    BY <1>1, <1>3, <2>4, <2>5 DEF Quiet
<1> HIDE DEF fd
<1>5. /\ reply \in Packet /\ reply.flag = "SYN" /\ pkt.seq \in Int
  BY <1>1, <1>3, <1>4, ReplyTo, ArrivesIs DEF Up
<1>6. /\ t \in Socket /\ t.state = "SYN_RCVD" /\ t.dest = Cli
      /\ t.isResend = s.isResend /\ t.reSend = TRUE
  <2>1. U8(pkt.seq + 1) \in Byte
    BY <1>5, ByteType
  <2> HIDE DEF s, pkt
  <2> QED
    BY <1>1, <1>4, <2>1, SynSocket
<1> HIDE DEF t, reply, pkt, s
<1>7. /\ sock'[Cli] = sock[Cli]
      /\ \A e \in Fd : sock'[Srv][e] = IF e = fd THEN t ELSE sock[Srv][e]
  BY <1>1, <1>2, <1>4, <1>6
<1>8. /\ CFd' = CFd /\ SFd' = fd
      /\ \A n \in Node : socketTable'[n][n] = socketTable[n][n]
  BY <1>1, <1>2, <1>4 DEF CFd, SFd
<1>9. CState' = CState /\ SState' = "SYN_RCVD"
  BY <1>3, <1>4, <1>6, <1>7, <1>8 DEF CState, SState
<1>10. InPhase'
  BY <1>3, <1>9, PhaseCases DEF InPhase
<1>11. InFlight'
  <2>1. /\ UpAllowed(CState, SState) \subseteq UpAllowed(CState, "SYN_RCVD")
        /\ DownAllowed(CState, SState) \subseteq DownAllowed(CState, "SYN_RCVD")
        /\ "SYN" \in DownAllowed(CState, "SYN_RCVD")
    BY <1>3, AllowedCases
  <2>2. <<reply>> \in Seq(DownPackets(CState, "SYN_RCVD"))
    BY <1>5, <2>1 DEF DownPackets
  <2>3. /\ Tail(Up) \in Seq(UpPackets(CState, "SYN_RCVD"))
        /\ Down \in Seq(DownPackets(CState, "SYN_RCVD"))
    BY <1>3, <2>1, UpTail, DownStays
  <2> QED
    BY <1>2, <1>3, <1>9, <2>2, <2>3, AnsweredBySrv
<1>12. Quiet'
  <2>1. UNCHANGED globalFd
    BY <1>2
  <2>2. \A e \in Fd : ~sock[Srv][e].isResend
    BY <1>3 DEF Quiet
  <2>3. \A e \in Fd : ~sock'[Srv][e].isResend
    BY <1>4, <1>6, <1>7, <2>2 DEF s
  <2>4. \A e \in Fd : e # SFd
    BY <1>3, Sizes, View
  <2> QED
    BY <1>3, <1>7, <1>8, <2>1, <2>3, <2>4 DEF Quiet
<1>13. Ends'
  BY <1>3, <1>4, <1>6, <1>7, <1>8 DEF Ends
<1>14. Descriptors'
  <2>1. fdQueue'[Srv] = AllButLast(fdQueue[Srv]) /\ fdQueue'[Cli] = fdQueue[Cli]
    BY <1>1, <1>2, <1>4
  <2>2. \A n \in Node : Unique(fdQueue'[n])
    BY <1>3, <1>4, <2>1, TheNodes DEF Descriptors
  <2>3. Listed(fdQueue'[Cli]) = Fd \ {CFd'}
    BY <1>3, <1>8, <2>1 DEF Descriptors
  <2>4. Listed(fdQueue'[Srv]) = {e \in Fd : e # SFd' /\ sock'[Srv][e].state # "LISTEN"}
    <3>1. Listed(fdQueue[Srv]) = {e \in Fd : e # SFd /\ sock[Srv][e].state # "LISTEN"}
      BY <1>3 DEF Descriptors
    <3>2. \A e \in Fd : e # SFd
      BY <1>3, Sizes, View
    <3> QED
      BY <1>4, <1>6, <1>7, <1>8, <2>1, <3>1, <3>2
  <2> QED
    BY <2>2, <2>3, <2>4 DEF Descriptors
<1>15. CliQueue' /\ SrvQueue'
  <2>1. Arm(Srv, fd, Cli, reply) /\ reSendQueue[Srv] = <<>>
    BY <1>2, <1>3, <1>4 DEF SrvQueue
  <2>2. /\ reSendQueue'[Cli] = reSendQueue[Cli] /\ reSendTimer'[Cli] = reSendTimer[Cli]
        /\ reSendTimer'[Srv] /\ reSendQueue'[Srv] = <<entry>> /\ reSendQueue'[Srv] # <<>>
    BY <1>1, <1>4, <1>5, <2>1, ArmType
  <2>3. entry \in SrvEntries(SFd', SState')
    <3>1. entry \in ReSendEntry
      BY <1>1, <1>4, <1>5 DEF ReSendEntry
    <3> QED
      BY <1>5, <1>8, <1>9, <3>1 DEF SrvEntries
  <2> HIDE DEF entry
  <2>4. CliQueue'
    BY <1>7, <1>8, <1>9, <2>2 DEF Connection, CliQueue
  <2>5. SrvQueue'
    <3>1. AtMostOne(reSendQueue'[Srv], SrvEntries(SFd', SState'))
      BY <2>2, <2>3 DEF AtMostOne
    <3> QED
      BY <1>3, <1>4, <1>6, <1>7, <1>8, <1>9, <2>2, <3>1 DEF SrvQueue
  <2> QED
    BY <2>4, <2>5
<1>16. Closing' /\ Data'
  <2>1. closePosted[Cli] \in BOOLEAN /\ ~closePosted[Cli]
    BY <1>1, <1>3 DEF Connection, Closing, TypeOK
  <2> QED
    BY <1>2, <1>3, <1>7, <1>8, <1>9, <2>1 DEF Connection, Closing, Data, closeVars, receiveVars
<1>17. App'
  BY <1>2, <1>3, <1>8, <1>9 DEF App, appVars
<1> QED
  BY <1>10, <1>11, <1>12, <1>13, <1>14, <1>15, <1>16, <1>17 DEF Connection

\* receiveSYN: a client has no listener and ignores it.
LEMMA StepReceiveSYN ==
  ASSUME OnePair, TypeOK, Connection
  PROVE  /\ ReceiveSYN(Cli, Srv) => Connection'
         /\ ReceiveSYN(Srv, Cli) => Connection'
<1>1. ASSUME ReceiveSYN(Cli, Srv) PROVE Connection'
  <2>1. CASE sock[Srv][globalFd[Srv]].state # "LISTEN"
    <3>1. Ignored(Cli, Srv) /\ Up # <<>>
      BY <1>1, <2>1 DEF ReceiveSYN, Arrives, Up
    <3> QED
      BY <3>1, IgnoredStep
  <2> QED
    BY <1>1, <2>1, SynAgain, SynFirst
<1>2. ASSUME ReceiveSYN(Srv, Cli) PROVE Connection'
  <2>1. sock[Cli][globalFd[Cli]].state # "LISTEN"
    <3>1. globalFd[Cli] \in Fd /\ Quiet /\ <<CState, SState>> \in Phases
      BY TheNodes DEF TypeOK, Connection, InPhase
    <3>2. CState # "LISTEN"
      BY <3>1, PhaseCases
    <3>3. CASE globalFd[Cli] = CFd
      BY <3>1, <3>2, <3>3, View, Sizes
    <3>4. CASE globalFd[Cli] # CFd
      BY <3>1, <3>4 DEF Quiet
    <3> QED
      BY <3>3, <3>4
  <2>2. Ignored(Srv, Cli) /\ Down # <<>>
    BY <1>2, <2>1 DEF ReceiveSYN, Arrives, Down
  <2> QED
    BY <2>2, IgnoredStep
<1> QED
  BY <1>1, <1>2

\* The first state of a client, and what it may hold in its queue.
LEMMA EntriesStay ==
  ASSUME NEW q, NEW fd, NEW c, NEW d
  PROVE  /\ c = d \/ <<c, d>> \in {<<"SYN_SENT", "ESTABLISHED">>, <<"FIN_WAIT_1", "FIN_WAIT_2">>,
                                   <<"FIN_WAIT_2", "TIME_WAIT">>}
              => (AtMostOne(q, CliEntries(fd, c)) => AtMostOne(q, CliEntries(fd, d)))
         /\ c = d \/ <<c, d>> = <<"SYN_RCVD", "ESTABLISHED">>
              => (AtMostOne(q, SrvEntries(fd, c)) => AtMostOne(q, SrvEntries(fd, d)))
<1>1. ASSUME c = d \/ <<c, d>> \in {<<"SYN_SENT", "ESTABLISHED">>, <<"FIN_WAIT_1", "FIN_WAIT_2">>,
                                    <<"FIN_WAIT_2", "TIME_WAIT">>}
      PROVE  CliEntries(fd, c) \subseteq CliEntries(fd, d)
  BY <1>1 DEF CliEntries
<1>2. ASSUME c = d \/ <<c, d>> = <<"SYN_RCVD", "ESTABLISHED">>
      PROVE  SrvEntries(fd, c) \subseteq SrvEntries(fd, d)
  BY <1>2 DEF SrvEntries
<1> QED
  BY <1>1, <1>2 DEF AtMostOne

\* receiveSYNACK of a client that waits for it, or that has it already.
LEMMA StepReceiveSYNACK ==
  ASSUME OnePair, TypeOK, Connection
  PROVE  /\ ~ReceiveSYNACK(Cli, Srv)
         /\ ReceiveSYNACK(Srv, Cli) => Connection'
<1>1. ~ReceiveSYNACK(Cli, Srv)
  BY HeadUp DEF ReceiveSYNACK, Up
<1>2. ASSUME ReceiveSYNACK(Srv, Cli) PROVE Connection'
  <2> DEFINE pkt == Head(net[<<Srv, Cli>>])
             s == sock[Cli][CFd]
             open == [s EXCEPT !.state = "ESTABLISHED", !.pendingSeq = U8(pkt.seq + 1),
                               !.reSend = FALSE]
             written == AfterWrite(open)
             transmits == open.remain = 0
             ack == Pkt("ACK", pkt.ack, pkt.seq + 1)
             pkts == IF transmits THEN <<ack, DataPkt(written)>> ELSE <<ack>>
  <2>1. Arrives(Srv, Cli, "SYN")
    BY <1>2 DEF ReceiveSYNACK
  <2>2. /\ Down # <<>> /\ <<CState, SState>> \in Phases
        /\ \/ CState = "SYN_SENT" /\ SState = "SYN_RCVD"
           \/ CState = "ESTABLISHED" /\ SState \in {"SYN_RCVD", "ESTABLISHED"}
    BY <2>1, HeadDown DEF Connection, InPhase
  <2>3. CFd \in Fd /\ CFd # NullFd /\ CFd = socketTable[Cli][Srv]
        /\ Cli \in Node /\ Srv \in Node /\ Cli # Srv
    BY <2>2, View, TheNodes DEF CFd
  <2>4. /\ sock' = [sock EXCEPT ![Cli][CFd] = written]
        /\ localFd' = [localFd EXCEPT ![Cli] = CFd]
        /\ dataTimer' = [dataTimer EXCEPT ![Cli] = dataTimer[Cli] \/ transmits]
        /\ net' = Send(Consumed(<<Srv, Cli>>), Cli, Srv, pkts)
        /\ UNCHANGED <<fdVars, reSendVars, closeVars, receiveVars, users, dialed>>
    BY <1>2, <2>3 DEF ReceiveSYNACK
  <2>5. s \in Socket /\ pkt.seq + 1 \in Int /\ pkt.ack \in Int
    <3>1. pkt.seq \in Int /\ pkt.ack \in Int
      BY <2>2, <2>3, ArrivesIs DEF Down
    <3>2. s \in Socket
      BY <2>3 DEF TypeOK
    <3> HIDE DEF pkt, s
    <3> QED
      BY <3>1, <3>2
  <2>6. /\ open \in Socket /\ open.dest = s.dest /\ open.state = "ESTABLISHED"
        /\ open.reSend = FALSE /\ open.isResend = s.isResend
    <3>1. U8(pkt.seq + 1) \in Byte /\ "ESTABLISHED" \in State
      BY <2>5, ByteType DEF State
    <3> HIDE DEF s, pkt
    <3>2. open \in Socket
      BY <2>5, <3>1, SocketChange
    <3> QED
      BY <2>5, <3>2 DEF Socket
  <2>7. ack \in Packet /\ ack.flag = "ACK"
    BY <2>5, PktType
  <2> HIDE DEF open, ack
  <2>8. /\ written \in Socket /\ written.dest = s.dest /\ written.state = "ESTABLISHED"
        /\ written.reSend = FALSE
        /\ written.isResend = IF transmits THEN TRUE ELSE s.isResend
        /\ DataPkt(written) \in Packet /\ DataPkt(written).flag = "DATA"
    BY <2>6, WriteType
  <2> HIDE DEF written, s, pkt
  <2>9. /\ CFd' = CFd /\ SFd' = SFd /\ CState' = "ESTABLISHED" /\ SState' = SState
        /\ sock'[Cli][CFd] = written /\ sock'[Srv] = sock[Srv]
        /\ Quiet' /\ Ends' /\ Descriptors'
    <3>1. sock' = Put(Cli, CFd, written) /\ UNCHANGED fdVars
      BY <2>4 DEF Put
    <3> QED
      BY <2>3, <2>8, <3>1, ClientMoves DEF s
  <2>10. InPhase'
    BY <2>2, <2>9, PhaseCases DEF InPhase
  <2>11. InFlight'
    <3>1. /\ UpAllowed(CState, SState) \subseteq UpAllowed("ESTABLISHED", SState)
          /\ DownAllowed(CState, SState) \subseteq DownAllowed("ESTABLISHED", SState)
          /\ {"ACK", "DATA"} \subseteq UpAllowed("ESTABLISHED", SState)
      BY <2>2, AllowedCases
    <3>2. /\ ack \in UpPackets("ESTABLISHED", SState)
          /\ DataPkt(written) \in UpPackets("ESTABLISHED", SState)
      BY <2>7, <2>8, <3>1 DEF UpPackets
    <3>3. /\ pkts \in Seq(UpPackets("ESTABLISHED", SState))
          /\ \A i \in 1 .. Len(pkts) : pkts[i].flag # "SYN"
      <4> HIDE DEF transmits
      <4>1. CASE transmits
        BY <2>7, <2>8, <3>2, <4>1
      <4>2. CASE ~transmits
        BY <2>7, <2>8, <3>2, <4>2
      <4> QED
        BY <4>1, <4>2
    <3> HIDE DEF pkts
    <3>4. InFlight
      BY DEF Connection
    <3>5. /\ Tail(Down) \in Seq(DownPackets("ESTABLISHED", SState))
          /\ Up \in Seq(UpPackets("ESTABLISHED", SState))
      BY <2>2, <3>1, <3>4, DownTail, UpStays
    <3> QED
      BY <2>2, <2>4, <2>9, <3>3, <3>4, <3>5, AnsweredByCli
  <2>12. CliQueue' /\ SrvQueue'
    <3>1. UNCHANGED <<reSendQueue, reSendTimer>> /\ CliQueue /\ SrvQueue
      BY <2>4 DEF reSendVars, Connection
    <3>2. AtMostOne(reSendQueue[Cli], CliEntries(CFd, "ESTABLISHED"))
      BY <2>2, <3>1, EntriesStay DEF CliQueue
    <3>3. CliQueue'
      BY <2>2, <2>8, <2>9, <3>1, <3>2 DEF CliQueue
    <3>4. SrvQueue'
      BY <2>2, <2>9, <3>1 DEF SrvQueue
    <3> QED
      BY <3>3, <3>4
  <2>13. Closing'
    BY <2>2, <2>4, <2>9 DEF Connection, Closing, closeVars
  <2>14. Data'
    <3>1. UNCHANGED <<receiveQueue, receivePosted>> /\ Data
      BY <2>4 DEF receiveVars, Connection
    <3>2. dataTimer'[Srv] = dataTimer[Srv]
      BY <2>3, <2>4
    <3>3. dataTimer'[Cli] = (dataTimer[Cli] \/ transmits)
      <4>1. dataTimer \in [Node -> BOOLEAN]
        BY DEF TypeOK
      <4> QED
        BY <2>3, <2>4, <4>1, Zenon
    <3>4. dataTimer'[Cli] <=> written.isResend
      <4>1. s.isResend \in BOOLEAN
        BY <2>5, SocketFields
      <4> HIDE DEF transmits
      <4> QED
        BY <2>3, <2>8, <3>1, <3>3, <4>1 DEF Data, s
    <3> QED
      BY <2>2, <2>3, <2>9, <3>1, <3>2, <3>4 DEF Data
  <2>15. App'
    <3>1. localFd'[Cli] = CFd /\ localFd'[Srv] = localFd[Srv]
      BY <2>3, <2>4 DEF TypeOK
    <3> QED
      BY <2>4, <2>9, <3>1 DEF Connection, App
  <2> QED
    BY <2>9, <2>10, <2>11, <2>12, <2>13, <2>14, <2>15 DEF Connection
<1> QED
  BY <1>1, <1>2

\* receiveACK of a server that waits for it.
LEMMA StepAckOfSYN ==
  ASSUME OnePair, TypeOK, Connection
  PROVE  /\ AckOfSYN(Cli, Srv) => Connection'
         /\ ~AckOfSYN(Srv, Cli)
<1>1. ~AckOfSYN(Srv, Cli)
  <2>1. sock[Cli][Lookup(Cli, Srv)].state # "SYN_RCVD"
    BY Found, View, PhaseCases DEF Connection, InPhase
  <2> QED
    BY <2>1 DEF AckOfSYN
<1>2. ASSUME AckOfSYN(Cli, Srv) PROVE Connection'
  <2> DEFINE pkt == Head(net[<<Cli, Srv>>])
             s == sock[Srv][SFd]
  <2>1. Arrives(Cli, Srv, "ACK") /\ sock[Srv][Lookup(Srv, Cli)].state = "SYN_RCVD"
    BY <1>2 DEF AckOfSYN
  <2>2. /\ Up # <<>> /\ Head(Up).flag = "ACK"
        /\ CState = "ESTABLISHED" /\ SState = "SYN_RCVD"
    BY <2>1, HeadUp, Found, View, PhaseCases DEF Connection, InPhase
  <2>3. SFd \in Fd /\ SFd # NullFd /\ SFd = Lookup(Srv, Cli)
        /\ Cli \in Node /\ Srv \in Node /\ Cli # Srv /\ InFlight
    BY <2>2, View, TheNodes DEF Connection
  <2>4. CASE Ignored(Cli, Srv)
    BY <2>2, <2>4, IgnoredStep
  <2>5. CASE ~Ignored(Cli, Srv)
    <3>1. PICK r \in RandSeq :
            sock' = [sock EXCEPT ![Srv][SFd] =
                      [s EXCEPT !.ISN = U8(s.ISN + 1), !.state = "ESTABLISHED",
                                !.reSend = FALSE, !.pendingSeq = U8(pkt.seq - 1),
                                !.lastWritten = r, !.lastSent = r, !.lastAck = r]]
      BY <1>2, <2>3, <2>5 DEF AckOfSYN
    <3>2. /\ users' = [users EXCEPT ![Srv][Cli] = [accept |-> TRUE, fd |-> SFd]]
          /\ net' = Consumed(<<Cli, Srv>>)
          /\ UNCHANGED <<fdVars, reSendVars, dataTimer, closeVars, receiveVars, localFd>>
      BY <1>2, <2>3, <2>5 DEF AckOfSYN
    <3> DEFINE t == [s EXCEPT !.ISN = U8(s.ISN + 1), !.state = "ESTABLISHED",
                              !.reSend = FALSE, !.pendingSeq = U8(pkt.seq - 1),
                              !.lastWritten = r, !.lastSent = r, !.lastAck = r]
    <3>3. s \in Socket /\ U8(s.ISN + 1) \in Byte /\ U8(pkt.seq - 1) \in Byte
      <4>1. pkt.seq \in Int
        BY <2>2, <2>3, ArrivesIs DEF Up
      <4>2. s \in Socket
        BY <2>3 DEF TypeOK
      <4> HIDE DEF s, pkt
      <4>3. s.ISN + 1 \in Int /\ pkt.seq - 1 \in Int
        BY <4>1, <4>2, SocketFields
      <4> QED
        BY <4>2, <4>3, ByteType
    <3> HIDE DEF s, pkt
    <3>4. /\ t \in Socket /\ t.state = "ESTABLISHED" /\ t.dest = s.dest
          /\ t.isResend = s.isResend /\ t.reSend = FALSE
      <4>1. r \in Pos /\ r \in Byte /\ "ESTABLISHED" \in State
        BY Sizes DEF State
      <4> QED
        BY <3>3, <4>1 DEF Socket
    <3>5. sock' = Put(Srv, SFd, t)
      BY <3>1 DEF Put
    <3> HIDE DEF t
    <3>6. /\ CFd' = CFd /\ SFd' = SFd /\ CState' = CState /\ SState' = "ESTABLISHED"
          /\ sock'[Srv][SFd] = t /\ sock'[Cli] = sock[Cli]
          /\ Quiet' /\ Ends' /\ Descriptors'
      BY <2>3, <3>2, <3>4, <3>5, ServerMoves DEF s
    <3>7. InPhase'
      BY <2>2, <3>6, PhaseCases DEF InPhase
    <3>8. InFlight'
      <4>1. /\ UpAllowed(CState, SState) \ {"SYN"} \subseteq UpAllowed(CState, "ESTABLISHED")
            /\ DownAllowed(CState, SState) \subseteq DownAllowed(CState, "ESTABLISHED")
        BY <2>2, AllowedCases
      <4>2. Head(Up).flag # "SYN"
        BY <2>2
      <4>3. /\ Tail(Up) \in Seq(UpPackets(CState, "ESTABLISHED"))
            /\ Down \in Seq(DownPackets(CState, "ESTABLISHED"))
        BY <2>2, <2>3, <4>1, <4>2, UpTail, DownStays
      <4> QED
        BY <2>2, <2>3, <3>2, <3>6, <4>3, TakenBySrv
    <3>9. CliQueue' /\ SrvQueue'
      <4>1. UNCHANGED <<reSendQueue, reSendTimer>> /\ CliQueue /\ SrvQueue
        BY <3>2 DEF reSendVars, Connection
      <4>2. CliQueue'
        BY <3>6, <4>1 DEF CliQueue
      <4>3. AtMostOne(reSendQueue[Srv], SrvEntries(SFd, "ESTABLISHED"))
        BY <2>2, <4>1, EntriesStay DEF SrvQueue
      <4>4. SrvQueue'
        BY <2>2, <3>4, <3>6, <4>1, <4>3 DEF SrvQueue
      <4> QED
        BY <4>2, <4>4
    <3>10. Closing' /\ Data'
      <4>1. ~closePosted[Cli]
        BY <2>2, <2>3 DEF Connection, Closing, TypeOK
      <4> QED
        BY <3>2, <3>6, <4>1 DEF Connection, Closing, Data, closeVars, receiveVars
    <3>11. App'
      <4>1. users'[Srv][Cli] = [accept |-> TRUE, fd |-> SFd]
        BY <2>3, <3>2 DEF TypeOK
      <4> QED
        BY <2>3, <3>2, <3>6, <4>1 DEF Connection, App
    <3> QED
      BY <3>6, <3>7, <3>8, <3>9, <3>10, <3>11 DEF Connection
  <2> QED
    BY <2>4, <2>5
<1> QED
  BY <1>1, <1>2

\* receiveACK of DATA at the server's side does nothing but update a socket.
LEMMA AckOfDataAtServer ==
  ASSUME OnePair, TypeOK, Connection, AckOfFINorData(Cli, Srv)
  PROVE  Connection'
<1> DEFINE pkt == Head(net[<<Cli, Srv>>])
           s == sock[Srv][SFd]
           t == AfterUpdate(s, pkt)
<1>1. /\ Arrives(Cli, Srv, "ACK")
      /\ sock[Srv][Lookup(Srv, Cli)].state \in {"FIN_WAIT_1", "ESTABLISHED"}
  BY DEF AckOfFINorData
<1>2. Up # <<>> /\ CState = "ESTABLISHED" /\ SState = "ESTABLISHED"
  BY <1>1, HeadUp, Found, View, PhaseCases DEF Connection, InPhase
<1>3. SFd \in Fd /\ SFd # NullFd /\ SFd = Lookup(Srv, Cli) /\ s.state = "ESTABLISHED"
      /\ Cli \in Node /\ Srv \in Node /\ Cli # Srv /\ InFlight
  BY <1>2, View, TheNodes DEF Connection
<1>4. /\ sock' = [sock EXCEPT ![Srv][SFd] = t]
      /\ net' = Consumed(<<Cli, Srv>>)
      /\ UNCHANGED <<fdVars, reSendVars, dataTimer, closeVars, receiveVars, appVars>>
  BY <1>3 DEF AckOfFINorData
<1>5. s \in Socket /\ pkt \in Packet
  <2>1. s \in Socket
    BY <1>3 DEF TypeOK
  <2>2. pkt \in Packet
    BY <1>2, <1>3, ArrivesIs DEF Up
  <2> QED
    BY <2>1, <2>2
<1> HIDE DEF s, pkt
<1>6. /\ t \in Socket /\ t.state = "ESTABLISHED" /\ t.dest = s.dest
      /\ t.isResend = s.isResend /\ t.reSend = s.reSend
  BY <1>3, <1>5, UpdateType
<1>7. sock' = Put(Srv, SFd, t)
  BY <1>4 DEF Put
<1> HIDE DEF t
<1>8. /\ CFd' = CFd /\ SFd' = SFd /\ CState' = CState /\ SState' = SState
      /\ sock'[Srv][SFd] = t /\ sock'[Cli] = sock[Cli]
      /\ Quiet' /\ Ends' /\ Descriptors'
  BY <1>2, <1>3, <1>4, <1>6, <1>7, ServerMoves DEF s
<1>9. InPhase'
  BY <1>8 DEF Connection, InPhase
<1>10. InFlight'
  <2>1. /\ Tail(Up) \in Seq(UpPackets(CState, SState))
        /\ Down \in Seq(DownPackets(CState, SState))
    BY <1>2, <1>3, UpTail DEF InFlight
  <2> QED
    BY <1>2, <1>3, <1>4, <1>8, <2>1, TakenBySrv
<1>11. CliQueue' /\ SrvQueue'
  <2>1. UNCHANGED <<reSendQueue, reSendTimer>>
    BY <1>4 DEF reSendVars
  <2> QED
    BY <1>6, <1>8, <2>1 DEF Connection, CliQueue, SrvQueue, s
<1>12. Closing' /\ Data' /\ App'
  BY <1>4, <1>8 DEF Connection, Closing, Data, App, closeVars, receiveVars, appVars
<1> QED
  BY <1>8, <1>9, <1>10, <1>11, <1>12 DEF Connection

\* receiveACK of a client, of its data or of its FIN.
LEMMA AckAtClient ==
  ASSUME OnePair, TypeOK, Connection, AckOfFINorData(Srv, Cli)
  PROVE  Connection'
<1> DEFINE pkt == Head(net[<<Srv, Cli>>])
           s == sock[Cli][CFd]
           t == IF s.state = "ESTABLISHED" THEN AfterUpdate(s, pkt)
                ELSE IF AcksFin(s, pkt)
                     THEN [s EXCEPT !.state = "FIN_WAIT_2", !.reSend = FALSE]
                     ELSE s
<1>1. /\ Arrives(Srv, Cli, "ACK")
      /\ sock[Cli][Lookup(Cli, Srv)].state \in {"FIN_WAIT_1", "ESTABLISHED"}
  BY DEF AckOfFINorData
<1>2. /\ Down # <<>>
      /\ \/ CState = "ESTABLISHED"
         \/ CState = "FIN_WAIT_1" /\ SState = "LAST_ACK"
  BY <1>1, HeadDown, Found, View, PhaseCases DEF Connection, InPhase
<1>3. CFd \in Fd /\ CFd # NullFd /\ CFd = Lookup(Cli, Srv) /\ s.state = CState
      /\ Cli \in Node /\ Srv \in Node /\ Cli # Srv /\ InFlight
  BY <1>2, View, TheNodes DEF Connection
<1>4. /\ sock' = [sock EXCEPT ![Cli][CFd] = t]
      /\ net' = Consumed(<<Srv, Cli>>)
      /\ UNCHANGED <<fdVars, reSendVars, dataTimer, closeVars, receiveVars, appVars>>
  BY <1>3 DEF AckOfFINorData
<1>5. s \in Socket /\ pkt \in Packet
  <2>1. s \in Socket
    BY <1>3 DEF TypeOK
  <2>2. pkt \in Packet
    BY <1>2, <1>3, ArrivesIs DEF Down
  <2> QED
    BY <2>1, <2>2
<1> HIDE DEF s, pkt
<1>6. /\ t \in Socket /\ t.dest = s.dest /\ t.isResend = s.isResend
      /\ \/ t.state = CState /\ t.reSend = s.reSend
         \/ CState = "FIN_WAIT_1" /\ t.state = "FIN_WAIT_2" /\ t.reSend = FALSE
  <2>1. CASE CState = "ESTABLISHED"
    <3>1. t = AfterUpdate(s, pkt)
      BY <1>3, <2>1
    <3> QED
      BY <1>3, <1>5, <2>1, <3>1, UpdateType
  <2>2. CASE CState = "FIN_WAIT_1"
    <3>1. [s EXCEPT !.state = "FIN_WAIT_2", !.reSend = FALSE] \in Socket
      BY <1>5, SocketChange
    <3>2. t = s \/ t = [s EXCEPT !.state = "FIN_WAIT_2", !.reSend = FALSE]
      BY <1>3, <2>2
    <3> QED
      BY <1>3, <1>5, <2>2, <3>1, <3>2 DEF Socket
  <2> QED
    BY <1>2, <2>1, <2>2
<1>7. sock' = Put(Cli, CFd, t)
  BY <1>4 DEF Put
<1> HIDE DEF t
<1>8. /\ CFd' = CFd /\ SFd' = SFd /\ CState' = t.state /\ SState' = SState
      /\ sock'[Cli][CFd] = t /\ sock'[Srv] = sock[Srv]
      /\ Quiet' /\ Ends' /\ Descriptors'
  BY <1>3, <1>4, <1>6, <1>7, ClientMoves DEF s
<1>9. InPhase'
  BY <1>2, <1>6, <1>8, PhaseCases DEF Connection, InPhase
<1>10. InFlight'
  <2>1. /\ UpAllowed(CState, SState) \subseteq UpAllowed(t.state, SState)
        /\ DownAllowed(CState, SState) \subseteq DownAllowed(t.state, SState)
    BY <1>2, <1>6, AllowedCases
  <2>2. /\ Tail(Down) \in Seq(DownPackets(t.state, SState))
        /\ Up \in Seq(UpPackets(t.state, SState))
    BY <1>2, <1>3, <2>1, DownTail, UpStays
  <2> QED
    BY <1>2, <1>3, <1>4, <1>8, <2>2, TakenByCli
<1>11. CliQueue' /\ SrvQueue'
  <2>1. UNCHANGED <<reSendQueue, reSendTimer>> /\ CliQueue /\ SrvQueue
    BY <1>4 DEF reSendVars, Connection
  <2>2. AtMostOne(reSendQueue[Cli], CliEntries(CFd, t.state))
    BY <1>6, <2>1, EntriesStay DEF CliQueue
  <2>3. CliQueue'
    BY <1>3, <1>6, <1>8, <2>1, <2>2 DEF CliQueue, s
  <2>4. SrvQueue'
    BY <1>2, <1>6, <1>8, <2>1 DEF SrvQueue
  <2> QED
    BY <2>3, <2>4
<1>12. Closing' /\ Data' /\ App'
  <2>1. CState # "TIME_WAIT" /\ t.state # "TIME_WAIT"
    BY <1>2, <1>6
  <2>2. Closing'
    BY <1>4, <1>8, <2>1 DEF Connection, Closing, closeVars
  <2>3. Data'
    BY <1>3, <1>4, <1>6, <1>8 DEF Connection, Data, receiveVars, s
  <2>4. App'
    BY <1>4, <1>8 DEF Connection, App, appVars
  <2> QED
    BY <2>2, <2>3, <2>4
<1> QED
  BY <1>8, <1>9, <1>10, <1>11, <1>12 DEF Connection

\* receiveACK of a server that waits for the last one: its socket is free.
LEMMA StepAckOfLastFIN ==
  ASSUME OnePair, TypeOK, Connection
  PROVE  /\ AckOfLastFIN(Cli, Srv) => Connection'
         /\ ~AckOfLastFIN(Srv, Cli)
<1>1. ~AckOfLastFIN(Srv, Cli)
  <2>1. sock[Cli][Lookup(Cli, Srv)].state # "LAST_ACK"
    BY Found, View, PhaseCases DEF Connection, InPhase
  <2> QED
    BY <2>1 DEF AckOfLastFIN
<1>2. ASSUME AckOfLastFIN(Cli, Srv) PROVE Connection'
  <2> DEFINE s == sock[Srv][SFd]
             t == [s EXCEPT !.reSend = FALSE, !.state = "CLOSED", !.inUse = FALSE]
  <2>1. Arrives(Cli, Srv, "ACK") /\ sock[Srv][Lookup(Srv, Cli)].state = "LAST_ACK"
    BY <1>2 DEF AckOfLastFIN
  <2>2. Up # <<>> /\ CState = "TIME_WAIT" /\ SState = "LAST_ACK"
    BY <2>1, HeadUp, Found, View, PhaseCases DEF Connection, InPhase
  <2>3. /\ SFd \in Fd /\ SFd # NullFd /\ SFd = Lookup(Srv, Cli)
        /\ Cli \in Node /\ Srv \in Node /\ Cli # Srv /\ Srv \in Servers
        /\ InFlight /\ Quiet /\ Ends /\ Descriptors /\ CliQueue /\ SrvQueue
        /\ Closing /\ Data /\ App
    BY <2>2, View, TheNodes DEF Connection
  <2>4. CASE Ignored(Cli, Srv)
    BY <2>2, <2>4, IgnoredStep
  <2>5. CASE ~Ignored(Cli, Srv)
    <3>1. /\ sock' = [sock EXCEPT ![Srv][SFd] = t]
          /\ socketTable' = [socketTable EXCEPT ![Srv][Cli] = NullFd]
          /\ fdQueue' = [fdQueue EXCEPT ![Srv] = Append(fdQueue[Srv], SFd)]
          /\ Forget(Srv, SFd)
          /\ net' = Consumed(<<Cli, Srv>>)
          /\ UNCHANGED <<globalFd, reSendVars, dataTimer, closeVars, receiveVars>>
      BY <1>2, <2>3, <2>5 DEF AckOfLastFIN
    <3>2. /\ fdQueue \in [Node -> Seq(Fd)] /\ sock \in [Node -> [Fd -> Socket]]
          /\ socketTable \in [Node -> [Node -> Fd \cup {NullFd}]]
          /\ users \in [Node -> [Node -> User]]
      BY DEF TypeOK
    <3>3. s \in Socket
      BY <2>3, <3>2
    <3> HIDE DEF s
    <3>4. /\ t \in Socket /\ t.state = "CLOSED" /\ t.inUse = FALSE
          /\ t.isResend = s.isResend /\ t.reSend = FALSE
      <4>1. t \in Socket
        BY <3>3, SocketChange
      <4> QED
        BY <3>3, <4>1 DEF Socket
    <3> HIDE DEF t
    <3>5. /\ sock'[Cli] = sock[Cli]
          /\ \A e \in Fd : sock'[Srv][e] = IF e = SFd THEN t ELSE sock[Srv][e]
      BY <2>3, <3>1, <3>2, <3>4
    <3>6. /\ CFd' = CFd /\ SFd' = NullFd
          /\ \A n \in Node : socketTable'[n][n] = socketTable[n][n]
      BY <2>3, <3>1, <3>2 DEF CFd, SFd
    <3>7. CState' = CState /\ SState' = "none"
      BY <3>5, <3>6 DEF CState, SState
    <3>8. InPhase'
      BY <2>2, <3>7, PhaseCases DEF InPhase
    <3>9. InFlight'
      <4>1. /\ UpAllowed(CState, SState) \subseteq UpAllowed(CState, "none")
            /\ DownAllowed(CState, SState) \subseteq DownAllowed(CState, "none")
        BY <2>2, AllowedCases
      <4>2. /\ Tail(Up) \in Seq(UpPackets(CState, "none"))
            /\ Down \in Seq(DownPackets(CState, "none"))
        BY <2>2, <2>3, <4>1, UpTail, DownStays
      <4> QED
        BY <2>2, <2>3, <3>1, <3>7, <4>2, TakenBySrv
    <3>10. Quiet'
      <4>1. UNCHANGED globalFd
        BY <3>1
      <4>2. \A e \in Fd : ~sock'[Srv][e].isResend
        BY <2>3, <3>4, <3>5 DEF Quiet, s
      <4> QED
        BY <2>3, <3>4, <3>5, <3>6, <4>1, <4>2 DEF Quiet
    <3>11. Ends'
      BY <2>3, <3>5, <3>6 DEF Ends
    <3>12. Descriptors'
      <4>1. fdQueue'[Srv] = Append(fdQueue[Srv], SFd) /\ fdQueue'[Cli] = fdQueue[Cli]
        BY <2>3, <3>1, <3>2
      <4>2. /\ fdQueue[Srv] \in Seq(Fd) /\ Unique(fdQueue[Srv])
            /\ Listed(fdQueue[Srv]) = {e \in Fd : e # SFd /\ sock[Srv][e].state # "LISTEN"}
        BY <2>3, <3>2 DEF Descriptors
      <4>3. SFd \notin Listed(fdQueue[Srv])
        BY <4>2
      <4>4. Unique(fdQueue'[Srv]) /\ Listed(fdQueue'[Srv]) = Listed(fdQueue[Srv]) \cup {SFd}
        BY <2>3, <4>1, <4>2, <4>3, GiveBack
      <4>5. Listed(fdQueue'[Srv]) = {e \in Fd : e # SFd' /\ sock'[Srv][e].state # "LISTEN"}
        BY <2>3, <3>4, <3>5, <3>6, <4>2, <4>4, Sizes
      <4>6. \A n \in Node : Unique(fdQueue'[n])
        BY <2>3, <4>1, <4>4, TheNodes DEF Descriptors
      <4>7. Listed(fdQueue'[Cli]) = Fd \ {CFd'}
        BY <2>3, <3>6, <4>1 DEF Descriptors
      <4> QED
        BY <4>5, <4>6, <4>7 DEF Descriptors
    <3>13. CliQueue' /\ SrvQueue'
      <4>1. UNCHANGED <<reSendQueue, reSendTimer>>
        BY <3>1 DEF reSendVars
      <4>2. CliQueue'
        BY <2>3, <3>5, <3>6, <3>7, <4>1 DEF CliQueue
      <4>3. SrvEntries(SFd, SState) \subseteq SrvEntries(NullFd, "none")
        BY DEF SrvEntries
      <4>4. AtMostOne(reSendQueue'[Srv], SrvEntries(SFd', SState'))
        BY <2>3, <3>6, <3>7, <4>1, <4>3 DEF SrvQueue, AtMostOne
      <4>5. SrvQueue'
        BY <2>2, <2>3, <3>6, <3>7, <4>1, <4>4 DEF SrvQueue
      <4> QED
        BY <4>2, <4>5
    <3>14. Closing' /\ Data'
      BY <2>3, <3>1, <3>5, <3>6, <3>7 DEF Closing, Data, closeVars, receiveVars
    <3>15. App'
      <4>1. /\ users[Srv][Cli].fd = SFd /\ UNCHANGED localFd
            /\ users' = [users EXCEPT ![Srv] =
                 [peer \in Node |-> IF users[Srv][peer].fd = SFd
                                    THEN [accept |-> FALSE, fd |-> NullFd]
                                    ELSE users[Srv][peer]]]
        BY <2>2, <2>3, <3>1 DEF Forget, App
      <4>2. users'[Srv][Cli] = [accept |-> FALSE, fd |-> NullFd]
        BY <2>3, <3>2, <4>1
      <4> QED
        BY <2>3, <3>6, <4>1, <4>2 DEF App
    <3> QED
      BY <3>8, <3>9, <3>10, <3>11, <3>12, <3>13, <3>14, <3>15 DEF Connection
  <2> QED
    BY <2>4, <2>5
<1> QED
  BY <1>1, <1>2

\* receiveFIN of a server that is connected.
LEMMA StepFinOfClient ==
  ASSUME OnePair, TypeOK, Connection
  PROVE  /\ FinOfClient(Cli, Srv) => Connection'
         /\ ~FinOfClient(Srv, Cli)
<1>1. ~FinOfClient(Srv, Cli)
  <2>1. ASSUME FinOfClient(Srv, Cli) PROVE FALSE
    <3>1. /\ Arrives(Srv, Cli, "FIN")
          /\ sock[Cli][Lookup(Cli, Srv)].state = "ESTABLISHED"
      BY <2>1 DEF FinOfClient
    <3>2. CState = "ESTABLISHED"
      BY <3>1, Found, View
    <3> QED
      BY <3>1, <3>2, HeadDown
  <2> QED
    BY <2>1
<1>2. ASSUME FinOfClient(Cli, Srv) PROVE Connection'
  <2> DEFINE pkt == Head(net[<<Cli, Srv>>])
             s == sock[Srv][SFd]
             t == AfterFin(s)
             ack == Pkt("ACK", s.ISN, pkt.seq + 1)
             fin == Pkt("FIN", s.ISN, pkt.seq + 1)
             entry == [fd |-> SFd, dest |-> Cli, pkt |-> fin]
  <2>1. Arrives(Cli, Srv, "FIN") /\ sock[Srv][Lookup(Srv, Cli)].state = "ESTABLISHED"
    BY <1>2 DEF FinOfClient
  <2>2. Up # <<>> /\ CState = "FIN_WAIT_1" /\ SState = "ESTABLISHED"
    BY <2>1, HeadUp, Found, View, PhaseCases DEF Connection, InPhase
  <2>3. /\ SFd \in Fd /\ SFd # NullFd /\ SFd = Lookup(Srv, Cli) /\ s.dest = Cli
        /\ Cli \in Node /\ Srv \in Node /\ Cli # Srv
        /\ InFlight /\ CliQueue /\ SrvQueue
    BY <2>2, View, TheNodes DEF Connection, Ends
  <2>4. CASE Ignored(Cli, Srv)
    BY <2>2, <2>4, IgnoredStep
  <2>5. CASE ~Ignored(Cli, Srv)
    <3>1. /\ sock' = [sock EXCEPT ![Srv][SFd] = t]
          /\ Arm(Srv, SFd, Cli, fin)
          /\ net' = Send(Consumed(<<Cli, Srv>>), Srv, Cli, <<ack, fin>>)
          /\ UNCHANGED <<fdVars, dataTimer, closeVars, receiveVars, appVars>>
      BY <1>2, <2>3, <2>5 DEF FinOfClient
    <3>2. /\ s \in Socket /\ ack \in Packet /\ ack.flag = "ACK"
          /\ fin \in Packet /\ fin.flag = "FIN"
      BY <2>2, <2>3, ReplyTo DEF Up
    <3> HIDE DEF s, pkt, ack, fin
    <3>3. /\ t \in Socket /\ t.state = "LAST_ACK" /\ t.dest = s.dest
          /\ t.isResend = s.isResend /\ t.reSend = TRUE
      <4>1. t \in Socket
        BY <3>2, SocketChange DEF AfterFin
      <4> QED
        BY <3>2, <4>1 DEF Socket, AfterFin
    <3>4. sock' = Put(Srv, SFd, t)
      BY <3>1 DEF Put
    <3> HIDE DEF t
    <3>5. /\ CFd' = CFd /\ SFd' = SFd /\ CState' = CState /\ SState' = "LAST_ACK"
          /\ sock'[Srv][SFd] = t /\ sock'[Cli] = sock[Cli]
          /\ Quiet' /\ Ends' /\ Descriptors'
      BY <2>3, <3>1, <3>3, <3>4, ServerMoves DEF s
    <3>6. InPhase'
      BY <2>2, <3>5, PhaseCases DEF InPhase
    <3>7. InFlight'
      <4>1. /\ UpAllowed(CState, SState) \subseteq UpAllowed(CState, "LAST_ACK")
            /\ DownAllowed(CState, SState) \subseteq DownAllowed(CState, "LAST_ACK")
            /\ {"ACK", "FIN"} \subseteq DownAllowed(CState, "LAST_ACK")
        BY <2>2, AllowedCases
      <4>2. <<ack, fin>> \in Seq(DownPackets(CState, "LAST_ACK"))
        <5>1. ack \in DownPackets(CState, "LAST_ACK") /\ fin \in DownPackets(CState, "LAST_ACK")
          BY <3>2, <4>1 DEF DownPackets
        <5> QED
          BY <5>1
      <4>3. /\ Tail(Up) \in Seq(UpPackets(CState, "LAST_ACK"))
            /\ Down \in Seq(DownPackets(CState, "LAST_ACK"))
        BY <2>2, <2>3, <4>1, UpTail, DownStays
      <4> QED
        BY <2>2, <2>3, <3>1, <3>5, <4>2, <4>3, AnsweredBySrv
    <3>8. CliQueue' /\ SrvQueue'
      <4>1. reSendQueue[Srv] = <<>>
        BY <2>2, <2>3 DEF SrvQueue
      <4>2. /\ reSendQueue'[Cli] = reSendQueue[Cli] /\ reSendTimer'[Cli] = reSendTimer[Cli]
            /\ reSendTimer'[Srv] /\ reSendQueue'[Srv] = <<entry>> /\ reSendQueue'[Srv] # <<>>
        BY <2>3, <3>1, <3>2, <4>1, ArmType
      <4>3. entry \in SrvEntries(SFd', SState')
        <5>1. entry \in ReSendEntry
          BY <2>3, <3>2 DEF ReSendEntry
        <5> QED
          BY <3>2, <3>5, <5>1 DEF SrvEntries
      <4> HIDE DEF entry
      <4>4. CliQueue'
        BY <2>3, <3>5, <4>2 DEF CliQueue
      <4>5. AtMostOne(reSendQueue'[Srv], SrvEntries(SFd', SState'))
        BY <4>2, <4>3 DEF AtMostOne
      <4>6. SrvQueue'
        BY <3>3, <3>5, <4>2, <4>5 DEF SrvQueue
      <4> QED
        BY <4>4, <4>6
    <3>9. Closing' /\ Data' /\ App'
      <4>1. ~closePosted[Cli]
        BY <2>2, <2>3 DEF Connection, Closing, TypeOK
      <4>2. Closing' /\ Data'
        BY <3>1, <3>5, <4>1 DEF Connection, Closing, Data, closeVars, receiveVars
      <4>3. App'
        BY <2>2, <3>1, <3>5 DEF Connection, App, appVars
      <4> QED
        BY <4>2, <4>3
    <3> QED
      BY <3>5, <3>6, <3>7, <3>8, <3>9 DEF Connection
  <2> QED
    BY <2>4, <2>5
<1> QED
  BY <1>1, <1>2

\* receiveFIN of a client whose FIN is acknowledged.
LEMMA StepFinOfServer ==
  ASSUME OnePair, TypeOK, Connection
  PROVE  /\ ~FinOfServer(Cli, Srv)
         /\ FinOfServer(Srv, Cli) => Connection'
<1>1. ~FinOfServer(Cli, Srv)
  <2>1. sock[Srv][Lookup(Srv, Cli)].state \notin {"FIN_WAIT_2", "TIME_WAIT"}
    BY Found, View, PhaseCases DEF Connection, InPhase
  <2> QED
    BY <2>1 DEF FinOfServer
<1>2. ASSUME FinOfServer(Srv, Cli) PROVE Connection'
  <2> DEFINE pkt == Head(net[<<Srv, Cli>>])
             s == sock[Cli][CFd]
             t == [s EXCEPT !.state = "TIME_WAIT"]
             ack == Pkt("ACK", s.ISN, pkt.seq + 1)
  <2>1. /\ Arrives(Srv, Cli, "FIN")
        /\ sock[Cli][Lookup(Cli, Srv)].state \in {"FIN_WAIT_2", "TIME_WAIT"}
    BY <1>2 DEF FinOfServer
  <2>2. /\ Down # <<>>
        /\ \/ CState = "FIN_WAIT_2" /\ SState = "LAST_ACK"
           \/ CState = "TIME_WAIT" /\ SState \in {"LAST_ACK", "none"}
    BY <2>1, HeadDown, Found, View, PhaseCases DEF Connection, InPhase
  <2>3. /\ CFd \in Fd /\ CFd # NullFd /\ CFd = Lookup(Cli, Srv) /\ s.dest = Srv
        /\ s.state = CState /\ Cli \in Node /\ Srv \in Node /\ Cli # Srv
        /\ InFlight /\ CliQueue /\ SrvQueue /\ Closing
    BY <2>2, View, TheNodes DEF Connection, Ends
  <2>4. CASE Ignored(Srv, Cli)
    BY <2>2, <2>4, IgnoredStep
  <2>5. CASE ~Ignored(Srv, Cli)
    <3>1. /\ sock' = [sock EXCEPT ![Cli][CFd].state = "TIME_WAIT"]
          /\ IF CState = "FIN_WAIT_2"
             THEN /\ closeQueue' = [closeQueue EXCEPT
                       ![Cli] = PushBack(closeQueue[Cli], MaxSockets, CFd)]
                  /\ closeTimer' = [closeTimer EXCEPT ![Cli] = TRUE]
             ELSE UNCHANGED <<closeQueue, closeTimer>>
          /\ net' = Send(Consumed(<<Srv, Cli>>), Cli, Srv, <<ack>>)
          /\ UNCHANGED <<fdVars, reSendVars, dataTimer, closePosted, receiveVars, appVars>>
      BY <1>2, <2>3, <2>5 DEF FinOfServer
    <3>2. s \in Socket /\ ack \in Packet /\ ack.flag = "ACK"
      BY <2>2, <2>3, ReplyTo DEF Down
    <3>3. sock' = Put(Cli, CFd, t)
      BY <3>1 DEF Put
    <3> HIDE DEF s, pkt, ack
    <3>4. /\ t \in Socket /\ t.state = "TIME_WAIT" /\ t.dest = s.dest
          /\ t.isResend = s.isResend /\ t.reSend = s.reSend
      <4>1. t \in Socket
        BY <3>2, SocketChange
      <4> QED
        BY <3>2, <4>1 DEF Socket
    <3> HIDE DEF t
    <3>5. /\ CFd' = CFd /\ SFd' = SFd /\ CState' = "TIME_WAIT" /\ SState' = SState
          /\ sock'[Cli][CFd] = t /\ sock'[Srv] = sock[Srv]
          /\ Quiet' /\ Ends' /\ Descriptors'
      BY <2>3, <3>1, <3>3, <3>4, ClientMoves DEF s
    <3>6. InPhase'
      BY <2>2, <3>5, PhaseCases DEF InPhase
    <3>7. InFlight'
      <4>1. /\ UpAllowed(CState, SState) \subseteq UpAllowed("TIME_WAIT", SState)
            /\ DownAllowed(CState, SState) \subseteq DownAllowed("TIME_WAIT", SState)
            /\ "ACK" \in UpAllowed("TIME_WAIT", SState)
        BY <2>2, AllowedCases
      <4>2. /\ <<ack>> \in Seq(UpPackets("TIME_WAIT", SState))
            /\ \A i \in 1 .. Len(<<ack>>) : <<ack>>[i].flag # "SYN"
        <5>1. ack \in UpPackets("TIME_WAIT", SState)
          BY <3>2, <4>1 DEF UpPackets
        <5> QED
          BY <3>2, <5>1
      <4>3. /\ Tail(Down) \in Seq(DownPackets("TIME_WAIT", SState))
            /\ Up \in Seq(UpPackets("TIME_WAIT", SState))
        BY <2>2, <2>3, <4>1, DownTail, UpStays
      <4> QED
        BY <2>2, <2>3, <3>1, <3>5, <4>2, <4>3, AnsweredByCli
    <3>8. CliQueue' /\ SrvQueue'
      <4>1. UNCHANGED <<reSendQueue, reSendTimer>>
        BY <3>1 DEF reSendVars
      <4>2. AtMostOne(reSendQueue[Cli], CliEntries(CFd, "TIME_WAIT"))
        BY <2>2, <2>3, EntriesStay DEF CliQueue
      <4>3. CliQueue'
        BY <2>2, <2>3, <3>4, <3>5, <4>1, <4>2 DEF CliQueue, s
      <4>4. SrvQueue'
        BY <2>2, <2>3, <3>5, <4>1 DEF SrvQueue
      <4> QED
        BY <4>3, <4>4
    <3>9. Closing'
      <4>1. CASE CState = "TIME_WAIT"
        <5>1. UNCHANGED <<closeQueue, closeTimer, closePosted>>
          BY <3>1, <4>1
        <5> QED
          BY <2>3, <3>5, <4>1, <5>1 DEF Closing
      <4>2. CASE CState = "FIN_WAIT_2"
        <5>1. /\ closeQueue \in [Node -> Seq(Fd)] /\ closeQueue[Cli] = <<>>
              /\ closeTimer \in [Node -> BOOLEAN] /\ ~closePosted[Cli]
          BY <2>3, <4>2 DEF Closing, TypeOK
        <5>2. PushBack(closeQueue[Cli], MaxSockets, CFd) = <<CFd>>
          BY <2>3, <5>1, Sizes, PushBackIs
        <5>3. /\ closeQueue'[Cli] = <<CFd>> /\ closeQueue'[Srv] = closeQueue[Srv]
              /\ closeTimer'[Cli] = TRUE /\ closeTimer'[Srv] = closeTimer[Srv]
              /\ UNCHANGED closePosted
          BY <2>3, <3>1, <4>2, <5>1, <5>2
        <5> QED
          BY <2>3, <3>5, <5>1, <5>3 DEF Closing
      <4> QED
        BY <2>2, <4>1, <4>2
    <3>10. Data' /\ App'
      <4>1. Data'
        BY <2>2, <2>3, <3>1, <3>4, <3>5 DEF Connection, Data, receiveVars, s
      <4>2. App'
        BY <3>1, <3>5 DEF Connection, App, appVars
      <4> QED
        BY <4>1, <4>2
    <3> QED
      BY <3>5, <3>6, <3>7, <3>8, <3>9, <3>10 DEF Connection
  <2> QED
    BY <2>4, <2>5
<1> QED
  BY <1>1, <1>2

\* DATA is queued by the server, and never sent to a client.
LEMMA StepQueueDATA ==
  ASSUME OnePair, TypeOK, Connection
  PROVE  /\ QueueDATA(Cli, Srv) => Connection'
         /\ ~QueueDATA(Srv, Cli)
<1>1. ~QueueDATA(Srv, Cli)
  BY HeadDown DEF QueueDATA
<1>2. ASSUME QueueDATA(Cli, Srv) PROVE Connection'
  <2> DEFINE r == [from |-> Cli, pkt |-> Head(net[<<Cli, Srv>>])]
             q == PushBack(receiveQueue[Srv], ReceiveCap, r)
  <2>1. /\ Arrives(Cli, Srv, "DATA")
        /\ receiveQueue' = [receiveQueue EXCEPT ![Srv] = q]
        /\ receivePosted' = [receivePosted EXCEPT ![Srv] = TRUE]
        /\ net' = Consumed(<<Cli, Srv>>)
        /\ UNCHANGED <<sock, fdVars, reSendVars, dataTimer, closeVars, appVars>>
    BY <1>2 DEF QueueDATA
  <2>2. /\ Up # <<>> /\ CState = "ESTABLISHED" /\ InFlight /\ Data
        /\ Cli \in Node /\ Srv \in Node /\ Cli # Srv
    BY <2>1, HeadUp, TheNodes DEF Connection
  <2>3. /\ CFd' = CFd /\ SFd' = SFd /\ CState' = CState /\ SState' = SState
        /\ InPhase' /\ Quiet' /\ Ends' /\ Descriptors'
    BY <2>1, SameSockets
  <2>4. InFlight'
    <3>1. /\ Tail(Up) \in Seq(UpPackets(CState, SState))
          /\ Down \in Seq(DownPackets(CState, SState))
      BY <2>2, UpTail DEF InFlight
    <3> QED
      BY <2>1, <2>2, <2>3, <3>1, TakenBySrv
  <2>5. CliQueue' /\ SrvQueue' /\ Closing' /\ App'
    <3>1. UNCHANGED <<reSendQueue, reSendTimer>>
      BY <2>1 DEF reSendVars
    <3>2. CliQueue' /\ SrvQueue'
      BY <2>1, <2>3, <3>1 DEF Connection, CliQueue, SrvQueue
    <3>3. Closing' /\ App'
      BY <2>1, <2>3 DEF Connection, Closing, App, closeVars, appVars
    <3> QED
      BY <3>2, <3>3
  <2>6. Data'
    <3>1. r \in {x \in Received : x.from = Cli}
      <4>1. Head(net[<<Cli, Srv>>]) \in Packet
        BY <2>2, ArrivesIs DEF Up
      <4> QED
        BY <2>2, <4>1 DEF Received
    <3> HIDE DEF r
    <3>2. q \in Seq({x \in Received : x.from = Cli}) /\ q # <<>>
      <4>1. receiveQueue[Srv] \in Seq({x \in Received : x.from = Cli})
        BY <2>2 DEF Data
      <4> QED
        BY <3>1, <4>1, Sizes, PushBackIs
    <3> HIDE DEF q
    <3>3. receiveQueue'[Srv] = q /\ receivePosted'[Cli] = receivePosted[Cli]
      BY <2>1, <2>2 DEF TypeOK
    <3>4. Cli # Srv /\ UNCHANGED <<dataTimer, sock>>
      BY <2>1, <2>2
    <3> QED
      BY <2>2, <2>3, <3>2, <3>3, <3>4 DEF Data
  <2> QED
    BY <2>3, <2>4, <2>5, <2>6 DEF Connection
<1> QED
  BY <1>1, <1>2

\* A packet that arrives.
LEMMA StepDeliver ==
  ASSUME OnePair, TypeOK, Connection, NEW l \in Link, Deliver(l[1], l[2])
  PROVE  Connection'
<1>1. net[<<l[1], l[2]>>] # <<>>
  BY DEF Deliver, ReceiveSYN, ReceiveSYNACK, AckOfSYN, AckOfFINorData, AckOfLastFIN,
         AckIgnored, FinOfClient, FinAgain, FinOfServer, FinIgnored, QueueDATA, Arrives
<1>2. \/ l[1] = Cli /\ l[2] = Srv
      \/ l[1] = Srv /\ l[2] = Cli
      \/ l[1] = l[2] /\ l[1] \in Node
  BY TheNodes
<1>3. ~(l[1] = l[2] /\ l[1] \in Node)
  BY <1>1 DEF Connection, InFlight
<1>4. CASE l[1] = Cli /\ l[2] = Srv
  <2>1. Deliver(Cli, Srv)
    BY <1>4
  <2> QED
    BY <2>1, StepReceiveSYN, StepReceiveSYNACK, StepAckOfSYN, AckOfDataAtServer,
       StepAckOfLastFIN, StepIgnored, StepFinOfClient, StepFinAgain, StepFinOfServer,
       StepQueueDATA DEF Deliver
<1>5. CASE l[1] = Srv /\ l[2] = Cli
  <2>1. Deliver(Srv, Cli)
    BY <1>5
  <2> QED
    BY <2>1, StepReceiveSYN, StepReceiveSYNACK, StepAckOfSYN, AckAtClient,
       StepAckOfLastFIN, StepIgnored, StepFinOfClient, StepFinAgain, StepFinOfServer,
       StepQueueDATA DEF Deliver
<1> QED
  BY <1>2, <1>3, <1>4, <1>5

-----------------------------------------------------------------------------
(* The commands of the user                                                *)

\* initServer: the listener takes a descriptor.
LEMMA StepInitServer ==
  ASSUME OnePair, TypeOK, Connection, NEW n \in Node, InitServer(n)
  PROVE  Connection'
<1> DEFINE fd == PopBack(fdQueue[Srv])
           s == sock[Srv][fd]
           t == [s EXCEPT !.inUse = TRUE, !.state = "LISTEN"]
<1>1. /\ n = Srv /\ Cli \in Node /\ Srv \in Node /\ Cli # Srv
      /\ InFlight /\ Quiet /\ Ends /\ Descriptors /\ CliQueue /\ SrvQueue /\ App
  BY TheNodes DEF InitServer, Connection
<1>2. /\ sock' = [sock EXCEPT ![Srv][fd].inUse = TRUE, ![Srv][fd].state = "LISTEN"]
      /\ globalFd' = [globalFd EXCEPT ![Srv] = fd]
      /\ fdQueue' = [fdQueue EXCEPT ![Srv] = AllButLast(fdQueue[Srv])]
      /\ fdQueue[Srv] # <<>>
      /\ \A e \in Fd : sock[Srv][e].state = "CLOSED"
      /\ UNCHANGED <<socketTable, reSendVars, dataTimer, closeVars, receiveVars,
                     appVars, net>>
  BY <1>1 DEF InitServer
<1>3. /\ fdQueue \in [Node -> Seq(Fd)] /\ sock \in [Node -> [Fd -> Socket]]
      /\ globalFd \in [Node -> Fd]
  BY DEF TypeOK
<1>4. SFd = NullFd /\ SState = "none"
  BY <1>2, View, PhaseCases DEF Connection, InPhase
<1>5. /\ fd \in Fd /\ Unique(AllButLast(fdQueue[Srv]))
      /\ Listed(AllButLast(fdQueue[Srv])) = Listed(fdQueue[Srv]) \ {fd}
  <2>1. fdQueue[Srv] \in Seq(Fd) /\ Unique(fdQueue[Srv]) /\ fdQueue[Srv] # <<>>
    BY <1>1, <1>2, <1>3 DEF Descriptors
  <2>2. Listed(fdQueue[Srv]) # {}
    <3>1. Len(fdQueue[Srv]) \in Nat \ {0}
      BY <2>1, EmptySeq
    <3>2. 1 \in 1 .. Len(fdQueue[Srv])
      BY <3>1
    <3> QED
      BY <3>2 DEF Listed
  <2> QED
    BY <2>1, <2>2, TakeLast, PopBackType
<1> HIDE DEF fd
<1>6. s \in Socket /\ t \in Socket /\ t.state = "LISTEN" /\ t.reSend = s.reSend
      /\ t.isResend = s.isResend
  <2>1. s \in Socket
    BY <1>1, <1>3, <1>5
  <2> HIDE DEF s
  <2>2. t \in Socket
    BY <2>1, SocketChange
  <2> QED
    BY <2>1, <2>2 DEF Socket
<1>7. sock' = [sock EXCEPT ![Srv][fd] = t]
  BY <1>1, <1>2, <1>3, <1>5
<1> HIDE DEF t
<1>8. /\ sock'[Cli] = sock[Cli]
      /\ \A e \in Fd : sock'[Srv][e] = IF e = fd THEN t ELSE sock[Srv][e]
  BY <1>1, <1>3, <1>5, <1>6, <1>7
<1>9. /\ CFd' = CFd /\ SFd' = SFd /\ CState' = CState /\ SState' = SState
  <2>1. CFd' = CFd /\ SFd' = SFd
    BY <1>2 DEF CFd, SFd
  <2> QED
    BY <1>4, <1>8, <2>1 DEF CState, SState
<1>10. InPhase' /\ InFlight'
  BY <1>2, <1>9 DEF Connection, InPhase, InFlight, Up, Down
<1>11. Quiet'
  <2>1. globalFd'[Srv] = fd
    BY <1>1, <1>2, <1>3
  <2>2. \A e \in Fd : e # SFd
    BY <1>4, Sizes
  <2>3. ~s.reSend /\ ~s.isResend
    BY <1>1, <1>5, <2>2 DEF Quiet
  <2>4. \A e \in Fd : ~sock'[Srv][e].isResend
    BY <1>1, <1>6, <1>8, <2>3 DEF Quiet
  <2>5. \A e \in Fd : /\ sock'[Srv][e].state \in {"CLOSED", "LISTEN"}
                      /\ sock'[Srv][e].state = "LISTEN" => e = fd
                      /\ sock'[Srv][e].state = "CLOSED" => ~sock'[Srv][e].inUse
                      /\ ~sock'[Srv][e].reSend
    <3> HIDE DEF s
    <3> SUFFICES ASSUME NEW e \in Fd
                 PROVE  /\ sock'[Srv][e].state \in {"CLOSED", "LISTEN"}
                        /\ sock'[Srv][e].state = "LISTEN" => e = fd
                        /\ sock'[Srv][e].state = "CLOSED" => ~sock'[Srv][e].inUse
                        /\ ~sock'[Srv][e].reSend
      OBVIOUS
    <3>1. CASE e = fd
      BY <1>6, <1>8, <2>3, <3>1
    <3>2. CASE e # fd
      <4>1. sock'[Srv][e] = sock[Srv][e] /\ sock[Srv][e].state = "CLOSED"
        BY <1>2, <1>8, <3>2
      <4>2. ~sock[Srv][e].inUse /\ ~sock[Srv][e].reSend
        BY <1>1, <2>2, <4>1 DEF Quiet
      <4> QED
        BY <4>1, <4>2
    <3> QED
      BY <3>1, <3>2
  <2> QED
    BY <1>1, <1>8, <1>9, <2>1, <2>4, <2>5 DEF Quiet
<1>12. Ends'
  BY <1>1, <1>2, <1>4, <1>8, <1>9 DEF Ends
<1>13. Descriptors'
  <2>1. fdQueue'[Srv] = AllButLast(fdQueue[Srv]) /\ fdQueue'[Cli] = fdQueue[Cli]
    BY <1>1, <1>2, <1>3
  <2>2. \A m \in Node : Unique(fdQueue'[m])
    BY <1>1, <1>5, <2>1, TheNodes DEF Descriptors
  <2>3. Listed(fdQueue'[Cli]) = Fd \ {CFd'}
    BY <1>1, <1>9, <2>1 DEF Descriptors
  <2>4. Listed(fdQueue'[Srv]) = {e \in Fd : e # SFd' /\ sock'[Srv][e].state # "LISTEN"}
    <3>1. Listed(fdQueue[Srv]) = {e \in Fd : e # SFd /\ sock[Srv][e].state # "LISTEN"}
      BY <1>1 DEF Descriptors
    <3>2. Listed(fdQueue'[Srv]) = Listed(fdQueue[Srv]) \ {fd}
      BY <1>5, <2>1
    <3>3. SFd' = SFd /\ SFd = NullFd
      BY <1>4, <1>9
    <3>4. \A e \in Fd : /\ sock[Srv][e].state # "LISTEN"
                       /\ sock'[Srv][e].state # "LISTEN" <=> e # fd
      BY <1>2, <1>6, <1>8
    <3> QED
      <4>1. \A e : e \in Listed(fdQueue'[Srv])
                  <=> e \in Fd /\ e # SFd' /\ sock'[Srv][e].state # "LISTEN"
        BY <3>1, <3>2, <3>3, <3>4
      <4> QED
        BY <4>1
  <2> QED
    BY <2>2, <2>3, <2>4 DEF Descriptors
<1>14. CliQueue' /\ SrvQueue'
  <2>1. UNCHANGED <<reSendQueue, reSendTimer>>
    BY <1>2 DEF reSendVars
  <2>2. CliQueue'
    BY <1>1, <1>8, <1>9, <2>1 DEF CliQueue
  <2>3. SrvQueue'
    BY <1>1, <1>4, <1>9, <2>1 DEF SrvQueue
  <2> QED
    BY <2>2, <2>3
<1>15. Closing' /\ Data' /\ App'
  BY <1>2, <1>8, <1>9 DEF Connection, Closing, Data, App, closeVars, receiveVars, appVars
<1> QED
  BY <1>10, <1>11, <1>12, <1>13, <1>14, <1>15 DEF Connection

\* initClientAndConnect: nothing is left of an earlier connection.
LEMMA StepDial ==
  ASSUME OnePair, TypeOK, Connection, NEW n \in Node, NEW server \in Servers,
         Dial(n, server)
  PROVE  Connection'
<1> DEFINE fd == PopBack(fdQueue[Cli])
           s == sock[Cli][fd]
<1>1. /\ n = Cli /\ server = Srv /\ Cli \in Node /\ Srv \in Node /\ Cli # Srv
      /\ InFlight /\ Quiet /\ Ends /\ Descriptors /\ CliQueue /\ SrvQueue
      /\ Closing /\ Data /\ App
  BY TheNodes DEF Dial, Connection
<1>2. /\ socketTable[Cli][Srv] = NullFd /\ socketTable[Srv][Cli] = NullFd
      /\ Settled(Cli, Srv) /\ fdQueue[Cli] # <<>>
      /\ socketTable' = [socketTable EXCEPT ![Cli][Srv] = fd]
      /\ fdQueue' = [fdQueue EXCEPT ![Cli] = AllButLast(fdQueue[Cli])]
      /\ UNCHANGED <<globalFd, dataTimer, closeVars, receiveVars, localFd, users>>
  BY <1>1 DEF Dial, OnePair
<1>3. PICK r \in RandSeq :
        /\ sock' = [sock EXCEPT ![Cli][fd] =
             [s EXCEPT !.inUse = TRUE, !.state = "SYN_SENT",
                       !.dest = Srv, !.ISN = r, !.lastSent = r,
                       !.lastAck = r, !.lastWritten = r, !.reSend = TRUE]]
        /\ Arm(Cli, fd, Srv, Pkt("SYN", r, 0))
        /\ net' = Send(net, Cli, Srv, <<Pkt("SYN", r, 0)>>)
  BY <1>1 DEF Dial
<1> DEFINE t == [s EXCEPT !.inUse = TRUE, !.state = "SYN_SENT",
                          !.dest = Srv, !.ISN = r, !.lastSent = r,
                          !.lastAck = r, !.lastWritten = r, !.reSend = TRUE]
           syn == Pkt("SYN", r, 0)
           entry == [fd |-> fd, dest |-> Srv, pkt |-> syn]
<1>4. /\ fdQueue \in [Node -> Seq(Fd)] /\ sock \in [Node -> [Fd -> Socket]]
      /\ socketTable \in [Node -> [Node -> Fd \cup {NullFd}]]
  BY DEF TypeOK
<1>5. CFd = NullFd /\ CState = "none" /\ SFd = NullFd /\ SState = "none"
  BY <1>2 DEF CFd, SFd, CState, SState
<1>6. /\ fd \in Fd /\ fd # NullFd /\ Unique(AllButLast(fdQueue[Cli]))
      /\ Listed(AllButLast(fdQueue[Cli])) = Listed(fdQueue[Cli]) \ {fd}
  <2>1. fdQueue[Cli] \in Seq(Fd) /\ Unique(fdQueue[Cli]) /\ fdQueue[Cli] # <<>>
    BY <1>1, <1>2, <1>4 DEF Descriptors
  <2>2. Listed(fdQueue[Cli]) # {}
    <3>1. Len(fdQueue[Cli]) \in Nat \ {0}
      BY <2>1, EmptySeq
    <3>2. 1 \in 1 .. Len(fdQueue[Cli])
      BY <3>1
    <3> QED
      BY <3>2 DEF Listed
  <2> QED
    BY <2>1, <2>2, TakeLast, PopBackType, Sizes
<1> HIDE DEF fd
<1>7. s \in Socket /\ ~s.isResend
  BY <1>1, <1>4, <1>5, <1>6 DEF Quiet
<1> HIDE DEF s
<1>8. /\ t \in Socket /\ t.state = "SYN_SENT" /\ t.dest = Srv
      /\ t.isResend = s.isResend /\ t.reSend = TRUE
  <2>1. r \in Pos /\ r \in Byte /\ "SYN_SENT" \in State
    BY Sizes DEF State
  <2> QED
    BY <1>1, <1>7, <2>1 DEF Socket
<1>9. syn \in Packet /\ syn.flag = "SYN" /\ syn.ack = 0
  <2>1. r \in Int
    BY Sizes DEF Pos
  <2>2. syn \in Packet /\ syn.flag = "SYN"
    BY <2>1, PktType
  <2>3. syn.ack = U8(0) /\ U8(0) = 0
    BY DEF Pkt, U8
  <2> QED
    BY <2>2, <2>3
<1> HIDE DEF t, syn
<1>10. /\ sock'[Srv] = sock[Srv]
       /\ \A e \in Fd : sock'[Cli][e] = IF e = fd THEN t ELSE sock[Cli][e]
  BY <1>1, <1>3, <1>4, <1>6, <1>8 DEF t
<1>11. /\ CFd' = fd /\ SFd' = NullFd
       /\ \A m \in Node : socketTable'[m][m] = socketTable[m][m]
  BY <1>1, <1>2, <1>4, <1>6 DEF CFd, SFd
<1>12. CState' = "SYN_SENT" /\ SState' = "none"
  BY <1>6, <1>8, <1>10, <1>11 DEF CState, SState
<1>13. InPhase'
  BY <1>12, PhaseCases DEF InPhase
<1>14. Up = <<>> /\ Down = <<>> /\ reSendQueue[Cli] = <<>> /\ reSendQueue[Srv] = <<>>
       /\ ~receivePosted[Srv]
  BY <1>1, <1>2 DEF Settled, Up, Down, CliQueue, SrvQueue
<1>15. InFlight'
  <2>1. "SYN" \in UpAllowed("SYN_SENT", "none")
    BY AllowedCases
  <2>2. <<syn>> \in Seq(UpPackets("SYN_SENT", "none"))
    <3>1. syn \in UpPackets("SYN_SENT", "none")
      BY <1>9, <2>1 DEF UpPackets
    <3> QED
      BY <3>1
  <2>3. /\ \A i \in 1 .. Len(Up) : Up[i].flag = "SYN"
        /\ \A i \in 1 .. Len(<<syn>>) : <<syn>>[i].flag = "SYN"
    BY <1>9, <1>14
  <2>4. /\ Up \in Seq(UpPackets("SYN_SENT", "none"))
        /\ Down \in Seq(DownPackets("SYN_SENT", "none"))
    BY <1>14
  <2>5. net' = Send(net, Cli, Srv, <<syn>>)
    BY <1>3 DEF syn
  <2> QED
    BY <1>1, <1>12, <2>2, <2>3, <2>4, <2>5, SentByCli
<1>16. Quiet'
  <2>1. UNCHANGED globalFd
    BY <1>2
  <2>2. \A e \in Fd : e # CFd /\ e # SFd
    BY <1>5, Sizes
  <2> QED
    BY <1>1, <1>10, <1>11, <2>1, <2>2 DEF Quiet
<1>17. Ends'
  BY <1>1, <1>6, <1>8, <1>10, <1>11 DEF Ends
<1>18. Descriptors'
  <2>1. fdQueue'[Cli] = AllButLast(fdQueue[Cli]) /\ fdQueue'[Srv] = fdQueue[Srv]
    BY <1>1, <1>2, <1>4
  <2>2. \A m \in Node : Unique(fdQueue'[m])
    BY <1>1, <1>6, <2>1, TheNodes DEF Descriptors
  <2>3. Listed(fdQueue'[Cli]) = Fd \ {CFd'}
    BY <1>1, <1>5, <1>6, <1>11, <2>1, Sizes DEF Descriptors
  <2>4. Listed(fdQueue'[Srv]) = {e \in Fd : e # SFd' /\ sock'[Srv][e].state # "LISTEN"}
    BY <1>1, <1>5, <1>10, <1>11, <2>1 DEF Descriptors
  <2> QED
    BY <2>2, <2>3, <2>4 DEF Descriptors
<1>19. CliQueue' /\ SrvQueue'
  <2>1. Arm(Cli, fd, Srv, syn)
    BY <1>3 DEF syn
  <2>2. /\ reSendQueue'[Srv] = reSendQueue[Srv] /\ reSendTimer'[Srv] = reSendTimer[Srv]
        /\ reSendTimer'[Cli] /\ reSendQueue'[Cli] = <<entry>> /\ reSendQueue'[Cli] # <<>>
    BY <1>1, <1>6, <1>9, <1>14, <2>1, ArmType
  <2>3. entry \in CliEntries(CFd', CState')
    <3>1. entry \in ReSendEntry
      BY <1>1, <1>6, <1>9 DEF ReSendEntry
    <3> QED
      BY <1>9, <1>11, <1>12, <3>1 DEF CliEntries
  <2> HIDE DEF entry
  <2>4. AtMostOne(reSendQueue'[Cli], CliEntries(CFd', CState'))
    BY <2>2, <2>3 DEF AtMostOne
  <2>5. CliQueue'
    BY <1>6, <1>8, <1>10, <1>11, <1>12, <2>2, <2>4 DEF CliQueue
  <2>6. reSendQueue'[Srv] = <<>> /\ ~reSendTimer'[Srv]
    BY <1>1, <1>14, <2>2 DEF SrvQueue
  <2>7. SrvQueue'
    BY <1>11, <1>12, <2>6 DEF SrvQueue, AtMostOne
  <2> QED
    BY <2>5, <2>7
<1>20. Closing'
  BY <1>1, <1>2, <1>5, <1>12 DEF Closing, closeVars
<1>21. Data'
  <2>1. UNCHANGED <<dataTimer, receiveQueue, receivePosted>> /\ ~dataTimer[Cli]
    BY <1>1, <1>2, <1>5 DEF Data, receiveVars
  <2>2. ~sock'[Cli][fd].isResend
    BY <1>6, <1>7, <1>8, <1>10
  <2> QED
    BY <1>1, <1>11, <1>14, <2>1, <2>2 DEF Data
<1>22. App'
  BY <1>1, <1>2, <1>5, <1>11, <1>12 DEF App
<1> QED
  BY <1>13, <1>15, <1>16, <1>17, <1>18, <1>19, <1>20, <1>21, <1>22 DEF Connection

\* close, of a connection that is open at both ends.
LEMMA StepClose ==
  ASSUME OnePair, TypeOK, Connection, NEW n \in Node, Close(n)
  PROVE  Connection'
<1> DEFINE s == sock[Cli][CFd]
           seq == U8(s.lastSent + 1)
           fin == Pkt("FIN", seq, s.pendingSeq + 1)
           t == [s EXCEPT !.state = "FIN_WAIT_1", !.lastSent = seq, !.reSend = TRUE]
           entry == [fd |-> CFd, dest |-> Srv, pkt |-> fin]
<1>1. /\ Cli \in Node /\ Srv \in Node /\ Cli # Srv
      /\ InFlight /\ Ends /\ CliQueue /\ SrvQueue /\ Closing /\ Data /\ App
  BY TheNodes DEF Connection
<1>2. n = Cli /\ localFd[Cli] = CFd /\ CFd # NullFd /\ CFd \in Fd /\ s.dest = Srv
  <2>1. localFd[n] # NullFd
    BY DEF Close
  <2>2. n = Cli /\ localFd[Cli] = CFd /\ CFd # NullFd
    BY <1>1, <2>1, TheNodes DEF App
  <2> QED
    BY <1>1, <2>2, View DEF Ends
<1>3. /\ s.state = "ESTABLISHED" /\ Settled(Cli, Srv)
      /\ sock' = [sock EXCEPT ![Cli][CFd].state = "FIN_WAIT_1",
                              ![Cli][CFd].lastSent = seq,
                              ![Cli][CFd].reSend = TRUE]
      /\ Arm(Cli, CFd, Srv, fin)
      /\ net' = Send(net, Cli, Srv, <<fin>>)
      /\ UNCHANGED <<fdVars, dataTimer, closeVars, receiveVars, appVars>>
  BY <1>2 DEF Close, OnePair
<1>4. /\ Up = <<>> /\ Down = <<>> /\ reSendQueue[Cli] = <<>> /\ reSendQueue[Srv] = <<>>
      /\ ~receivePosted[Srv] /\ ~s.isResend
  BY <1>1, <1>2, <1>3 DEF Settled, Up, Down, CliQueue, SrvQueue
<1>5. CState = "ESTABLISHED" /\ SState = "ESTABLISHED"
  <2>1. CState = "ESTABLISHED"
    BY <1>2, <1>3, View
  <2>2. SState # "SYN_RCVD"
    BY <1>1, <1>4 DEF SrvQueue
  <2> QED
    BY <2>1, <2>2, PhaseCases DEF Connection, InPhase
<1>6. s \in Socket /\ sock \in [Node -> [Fd -> Socket]]
  BY <1>1, <1>2 DEF TypeOK
<1>7. sock' = Put(Cli, CFd, t)
  BY <1>1, <1>2, <1>3, <1>6 DEF Put
<1> HIDE DEF s
<1>8. fin \in Packet /\ fin.flag = "FIN" /\ seq \in Byte
  <2>1. s.lastSent + 1 \in Int /\ s.pendingSeq + 1 \in Int
    BY <1>6, SocketFields
  <2>2. seq \in Byte /\ seq \in Int
    BY <2>1, ByteType
  <2> HIDE DEF seq
  <2> QED
    BY <2>1, <2>2, PktType
<1> HIDE DEF seq, fin
<1>9. /\ t \in Socket /\ t.state = "FIN_WAIT_1" /\ t.dest = s.dest
      /\ t.isResend = s.isResend /\ t.reSend = TRUE
  <2>1. t \in Socket
    BY <1>6, <1>8, SocketChange
  <2> QED
    BY <1>6, <2>1 DEF Socket
<1> HIDE DEF t
<1>10. /\ CFd' = CFd /\ SFd' = SFd /\ CState' = "FIN_WAIT_1" /\ SState' = SState
       /\ sock'[Cli][CFd] = t /\ sock'[Srv] = sock[Srv]
       /\ Quiet' /\ Ends' /\ Descriptors'
  BY <1>2, <1>3, <1>7, <1>9, ClientMoves DEF s
<1>11. InPhase'
  BY <1>5, <1>10, PhaseCases DEF InPhase
<1>12. InFlight'
  <2>1. "FIN" \in UpAllowed("FIN_WAIT_1", SState)
    BY AllowedCases
  <2>2. /\ <<fin>> \in Seq(UpPackets("FIN_WAIT_1", SState))
        /\ \A i \in 1 .. Len(<<fin>>) : <<fin>>[i].flag # "SYN"
    <3>1. fin \in UpPackets("FIN_WAIT_1", SState)
      BY <1>8, <2>1 DEF UpPackets
    <3> QED
      BY <1>8, <3>1
  <2>3. /\ Up \in Seq(UpPackets("FIN_WAIT_1", SState))
        /\ Down \in Seq(DownPackets("FIN_WAIT_1", SState))
    BY <1>4
  <2> QED
    BY <1>1, <1>3, <1>10, <2>2, <2>3, SentByCli
<1>13. CliQueue' /\ SrvQueue'
  <2>1. /\ reSendQueue'[Srv] = reSendQueue[Srv] /\ reSendTimer'[Srv] = reSendTimer[Srv]
        /\ reSendTimer'[Cli] /\ reSendQueue'[Cli] = <<entry>> /\ reSendQueue'[Cli] # <<>>
    BY <1>1, <1>2, <1>3, <1>4, <1>8, ArmType
  <2>2. entry \in CliEntries(CFd', CState')
    <3>1. entry \in ReSendEntry
      BY <1>1, <1>2, <1>8 DEF ReSendEntry
    <3> QED
      BY <1>8, <1>10, <3>1 DEF CliEntries
  <2> HIDE DEF entry
  <2>3. AtMostOne(reSendQueue'[Cli], CliEntries(CFd', CState'))
    BY <2>1, <2>2 DEF AtMostOne
  <2>4. CliQueue'
    BY <1>9, <1>10, <2>1, <2>3 DEF CliQueue
  <2>5. SrvQueue'
    BY <1>1, <1>4, <1>10, <2>1 DEF SrvQueue
  <2> QED
    BY <2>4, <2>5
<1>14. Closing' /\ Data' /\ App'
  <2>1. Closing'
    BY <1>1, <1>3, <1>5, <1>10 DEF Closing, closeVars
  <2>2. Data'
    BY <1>1, <1>2, <1>3, <1>4, <1>9, <1>10 DEF Data, receiveVars, s
  <2>3. App'
    BY <1>1, <1>3, <1>10 DEF App, appVars
  <2> QED
    BY <2>1, <2>2, <2>3
<1> QED
  BY <1>10, <1>11, <1>12, <1>13, <1>14 DEF Connection

-----------------------------------------------------------------------------
(* The tasks and the timers                                                *)

\* receiveDATA runs at the server, and changes neither state nor peer.
LEMMA StepReceiveDATA ==
  ASSUME OnePair, TypeOK, Connection, NEW n \in Node, ReceiveDATA(n)
  PROVE  Connection'
<1> DEFINE r == Head(receiveQueue[Srv])
           fd == Lookup(Srv, Cli)
           s == sock[Srv][fd]
           t == IF r.pkt.ack = s.ISN + 1
                THEN [s EXCEPT !.ISN = U8(s.ISN + 1),
                               !.nextExpected = (r.pkt.seq + 1) % 128]
                ELSE s
           ack == Pkt("ACK", t.ISN, t.nextExpected)
<1>1. /\ n = Srv /\ Cli \in Node /\ Srv \in Node /\ Cli # Srv /\ InFlight /\ Data
      /\ receiveQueue[Srv] # <<>> /\ CState = "ESTABLISHED"
  BY TheNodes DEF ReceiveDATA, Connection, Data
<1>2. /\ r \in Received /\ r.from = Cli
      /\ Tail(receiveQueue[Srv]) \in Seq({x \in Received : x.from = Cli})
  <2>1. receiveQueue[Srv] \in Seq({x \in Received : x.from = Cli})
    BY <1>1 DEF Data
  <2> QED
    BY <1>1, <2>1, HeadTail
<1>3. /\ IF s.state # "ESTABLISHED"
         THEN UNCHANGED <<sock, net>>
         ELSE /\ sock' = [sock EXCEPT ![Srv][fd] = t]
              /\ net' = Send(net, Srv, Cli, <<ack>>)
      /\ receiveQueue' = [receiveQueue EXCEPT ![Srv] = Tail(receiveQueue[Srv])]
      /\ receivePosted' = [receivePosted EXCEPT ![Srv] = FALSE]
      /\ UNCHANGED <<fdVars, reSendVars, dataTimer, closeVars, appVars>>
  BY <1>1, <1>2 DEF ReceiveDATA
<1>4. /\ receiveQueue'[Srv] \in Seq({x \in Received : x.from = Cli})
      /\ ~receivePosted'[Srv] /\ receivePosted'[Cli] = receivePosted[Cli]
  <2>1. receivePosted \in [Node -> BOOLEAN] /\ receiveQueue \in [Node -> Seq(Received)]
    BY DEF TypeOK
  <2> HIDE DEF r, fd, s, t, ack
  <2> QED
    BY <1>1, <1>2, <1>3, <2>1
<1>5. ASSUME CFd' = CFd, SFd' = SFd, CState' = CState, SState' = SState,
             sock'[Cli] = sock[Cli], SFd # NullFd => sock'[Srv][SFd].reSend = sock[Srv][SFd].reSend,
             InFlight', Quiet', Ends', Descriptors'
      PROVE  Connection'
  <2> HIDE DEF r, fd, s, t, ack
  <2>1. InPhase'
    BY <1>5 DEF Connection, InPhase
  <2>2. UNCHANGED <<reSendQueue, reSendTimer>>
    BY <1>3 DEF reSendVars
  <2>3. CliQueue' /\ SrvQueue'
    BY <1>5, <2>2 DEF Connection, CliQueue, SrvQueue
  <2>4. Closing' /\ App'
    BY <1>3, <1>5 DEF Connection, Closing, App, closeVars, appVars
  <2>5. Data'
    BY <1>1, <1>3, <1>4, <1>5 DEF Data
  <2> QED
    BY <1>5, <2>1, <2>3, <2>4, <2>5 DEF Connection
<1>6. CASE s.state # "ESTABLISHED"
  <2>1. UNCHANGED <<sock, net, fdVars>>
    BY <1>3, <1>6
  <2> HIDE DEF r, fd, s, t, ack
  <2>2. /\ CFd' = CFd /\ SFd' = SFd /\ CState' = CState /\ SState' = SState
        /\ Quiet' /\ Ends' /\ Descriptors'
    BY <2>1, SameSockets
  <2>3. InFlight'
    BY <1>1, <2>1, <2>2 DEF InFlight, Up, Down
  <2> QED
    BY <1>5, <2>1, <2>2, <2>3
<1>7. CASE s.state = "ESTABLISHED"
  <2>1. SState = "ESTABLISHED" /\ SFd = fd /\ SFd # NullFd /\ SFd \in Fd
    BY <1>7, Found, View
  <2>2. sock' = [sock EXCEPT ![Srv][fd] = t] /\ net' = Send(net, Srv, Cli, <<ack>>)
    BY <1>3, <1>7
  <2>3. s \in Socket /\ r.pkt.seq \in Int
    <3>1. s \in Socket
      BY <1>1, <2>1 DEF TypeOK
    <3>2. r.pkt \in Packet
      BY <1>2 DEF Received
    <3> HIDE DEF s, r, fd
    <3> QED
      BY <3>1, <3>2, ByteType DEF Packet
  <2> HIDE DEF r, s, fd
  <2>4. U8(s.ISN + 1) \in Byte /\ (r.pkt.seq + 1) % 128 \in Byte
    <3>1. s.ISN + 1 \in Int /\ r.pkt.seq + 1 \in Int
      BY <2>3, SocketFields
    <3> QED
      BY <3>1, ByteType, Sizes
  <2>5. t \in Socket /\ t.state = s.state /\ t.dest = s.dest
        /\ t.isResend = s.isResend /\ t.reSend = s.reSend
    <3> DEFINE u == [s EXCEPT !.ISN = U8(s.ISN + 1),
                              !.nextExpected = (r.pkt.seq + 1) % 128]
    <3>1. u \in Socket /\ u.state = s.state /\ u.dest = s.dest
          /\ u.isResend = s.isResend /\ u.reSend = s.reSend
      BY <2>3, <2>4 DEF Socket
    <3>2. t = s \/ t = u
      OBVIOUS
    <3> HIDE DEF t, u
    <3> QED
      BY <2>3, <3>1, <3>2
  <2> HIDE DEF t
  <2>6. ack \in Packet /\ ack.flag = "ACK"
    <3>1. t.ISN \in Int /\ t.nextExpected \in Int
      BY <2>5, SocketFields, ByteType
    <3> QED
      BY <3>1, PktType
  <2> HIDE DEF ack
  <2>7. /\ CFd' = CFd /\ SFd' = SFd /\ CState' = CState /\ SState' = SState
        /\ sock'[Srv][SFd] = t /\ sock'[Cli] = sock[Cli]
        /\ Quiet' /\ Ends' /\ Descriptors'
    <3>1. sock' = Put(Srv, SFd, t) /\ UNCHANGED fdVars /\ s = sock[Srv][SFd]
      BY <1>3, <2>1, <2>2 DEF Put, s
    <3> QED
      BY <1>7, <2>1, <2>5, <3>1, ServerMoves
  <2>8. InFlight'
    <3>1. "ACK" \in DownAllowed(CState, SState)
      BY <1>1, AllowedCases
    <3>2. <<ack>> \in Seq(DownPackets(CState, SState))
      <4>1. ack \in DownPackets(CState, SState)
        BY <2>6, <3>1 DEF DownPackets
      <4> QED
        BY <4>1
    <3>3. /\ Up \in Seq(UpPackets(CState, SState))
          /\ Down \in Seq(DownPackets(CState, SState))
      BY <1>1 DEF InFlight
    <3> QED
      BY <1>1, <2>2, <2>7, <3>2, <3>3, SentBySrv
  <2>9. sock'[Srv][SFd].reSend = sock[Srv][SFd].reSend
    BY <2>1, <2>5, <2>7 DEF s
  <2> QED
    BY <1>5, <2>7, <2>8, <2>9
<1> QED
  BY <1>6, <1>7

\* ReSendTimer: the only entry is sent again, or it is dropped.
LEMMA OneEntry ==
  ASSUME OnePair, TypeOK, NEW n \in Node, NEW entry \in ReSendEntry,
         reSendQueue[n] = <<entry>>, ReSendTimerFired(n)
  PROVE  /\ \A m \in Node : m # n => reSendQueue'[m] = reSendQueue[m]
                                     /\ reSendTimer'[m] = reSendTimer[m]
         /\ \/ /\ sock[n][entry.fd].reSend
               /\ reSendQueue'[n] = <<entry>> /\ reSendTimer'[n] = reSendTimer[n]
               /\ net' = Send(net, n, entry.dest, <<entry.pkt>>)
            \/ /\ ~sock[n][entry.fd].reSend
               /\ reSendQueue'[n] = <<>> /\ ~reSendTimer'[n]
               /\ UNCHANGED net
         /\ UNCHANGED <<sock, fdVars, dataTimer, closeVars, receiveVars, appVars>>
<1>1. /\ reSendQueue \in [Node -> Seq(ReSendEntry)] /\ reSendTimer \in [Node -> BOOLEAN]
  BY DEF TypeOK
<1>2. Head(reSendQueue[n]) = entry /\ Tail(reSendQueue[n]) = <<>>
  OBVIOUS
<1>3. IF sock[n][entry.fd].reSend
      THEN /\ reSendQueue' = [reSendQueue EXCEPT ![n] = Append(Tail(reSendQueue[n]), entry)]
           /\ net' = Send(net, n, entry.dest, <<entry.pkt>>)
           /\ UNCHANGED reSendTimer
      ELSE /\ reSendQueue' = [reSendQueue EXCEPT ![n] = Tail(reSendQueue[n])]
           /\ reSendTimer' = [reSendTimer EXCEPT ![n] = FALSE]
           /\ UNCHANGED net
  BY <1>2 DEF ReSendTimerFired, Dropped
<1>4. UNCHANGED <<sock, fdVars, dataTimer, closeVars, receiveVars, appVars>>
  BY DEF ReSendTimerFired
<1>5. Append(<<>>, entry) = <<entry>>
  OBVIOUS
<1>6. CASE sock[n][entry.fd].reSend
  BY <1>1, <1>2, <1>3, <1>4, <1>5, <1>6
<1>7. CASE ~sock[n][entry.fd].reSend
  BY <1>1, <1>2, <1>3, <1>4, <1>7
<1> QED
  BY <1>6, <1>7

\* ReSendTimer of the client.
LEMMA StepReSendByCli ==
  ASSUME OnePair, TypeOK, Connection, ReSendTimerFired(Cli)
  PROVE  Connection'
<1>1. /\ Cli \in Node /\ Srv \in Node /\ Cli # Srv
      /\ InFlight /\ Quiet /\ CliQueue /\ SrvQueue
  BY TheNodes DEF Connection
<1>2. PICK entry \in CliEntries(CFd, CState) : reSendQueue[Cli] = <<entry>>
  BY <1>1 DEF ReSendTimerFired, CliQueue, AtMostOne
<1>3. /\ entry \in ReSendEntry /\ entry.dest = Srv /\ entry.fd \in Fd
      /\ entry.pkt \in Packet
      /\ CFd # NullFd => entry.fd = CFd
  BY <1>2 DEF CliEntries, ReSendEntry
<1>4. /\ reSendQueue'[Srv] = reSendQueue[Srv] /\ reSendTimer'[Srv] = reSendTimer[Srv]
      /\ \/ /\ sock[Cli][entry.fd].reSend
            /\ reSendQueue'[Cli] = reSendQueue[Cli] /\ reSendTimer'[Cli] = reSendTimer[Cli]
            /\ net' = Send(net, Cli, Srv, <<entry.pkt>>)
         \/ /\ ~sock[Cli][entry.fd].reSend
            /\ reSendQueue'[Cli] = <<>> /\ ~reSendTimer'[Cli]
            /\ UNCHANGED net
      /\ UNCHANGED <<sock, fdVars, dataTimer, closeVars, receiveVars, appVars>>
  BY <1>1, <1>2, <1>3, OneEntry
<1>5. /\ CFd' = CFd /\ SFd' = SFd /\ CState' = CState /\ SState' = SState
      /\ InPhase' /\ Quiet' /\ Ends' /\ Descriptors'
  BY <1>4, SameSockets
<1>6. Closing' /\ Data' /\ App'
  BY <1>4, <1>5 DEF Connection, Closing, Data, App, closeVars, receiveVars, appVars
<1>7. SrvQueue'
  BY <1>1, <1>4, <1>5 DEF SrvQueue
<1>8. sock[Cli][entry.fd].reSend <=> CState \in {"SYN_SENT", "FIN_WAIT_1"}
  <2>1. CASE CFd = NullFd
    BY <1>1, <1>3, <2>1, View, Sizes DEF Quiet
  <2>2. CASE CFd # NullFd
    BY <1>1, <1>3, <2>2 DEF CliQueue
  <2> QED
    BY <2>1, <2>2
<1>9. CASE sock[Cli][entry.fd].reSend
  <2>1. CState \in {"SYN_SENT", "FIN_WAIT_1"}
    BY <1>8, <1>9
  <2>2. /\ entry.pkt.flag \in UpAllowed(CState, SState)
        /\ entry.pkt.flag = "SYN" => CState = "SYN_SENT" /\ entry.pkt.ack = 0
    BY <1>2, <2>1, AllowedCases DEF CliEntries
  <2>3. <<entry.pkt>> \in Seq(UpPackets(CState, SState))
    <3>1. entry.pkt \in UpPackets(CState, SState)
      BY <1>3, <2>2 DEF UpPackets
    <3> QED
      BY <3>1
  <2>4. \/ \A i \in 1 .. Len(<<entry.pkt>>) : <<entry.pkt>>[i].flag # "SYN"
        \/ /\ \A i \in 1 .. Len(Up) : Up[i].flag = "SYN"
           /\ \A i \in 1 .. Len(<<entry.pkt>>) : <<entry.pkt>>[i].flag = "SYN"
    <3>1. CASE entry.pkt.flag # "SYN"
      BY <3>1
    <3>2. CASE entry.pkt.flag = "SYN"
      <4>1. Up \in Seq(UpPackets(CState, SState)) /\ UpAllowed(CState, SState) = {"SYN"}
        BY <1>1, <2>2, <3>2, AllowedCases DEF InFlight
      <4>2. \A p \in UpPackets(CState, SState) : p.flag = "SYN"
        BY <4>1 DEF UpPackets
      <4>3. \A i \in 1 .. Len(Up) : Up[i] \in UpPackets(CState, SState)
        BY <4>1, ElementOfSeq
      <4>4. \A i \in 1 .. Len(Up) : Up[i].flag = "SYN"
        BY <4>2, <4>3
      <4>5. \A i \in 1 .. Len(<<entry.pkt>>) : <<entry.pkt>>[i].flag = "SYN"
        BY <3>2
      <4> QED
        BY <4>4, <4>5
    <3> QED
      BY <3>1, <3>2
  <2>5. /\ Up \in Seq(UpPackets(CState, SState))
        /\ Down \in Seq(DownPackets(CState, SState))
    BY <1>1 DEF InFlight
  <2>6. InFlight'
    BY <1>1, <1>4, <1>5, <1>9, <2>3, <2>4, <2>5, SentByCli
  <2>7. CliQueue'
    BY <1>1, <1>4, <1>5, <1>9 DEF CliQueue
  <2> QED
    BY <1>5, <1>6, <1>7, <2>6, <2>7 DEF Connection
<1>10. CASE ~sock[Cli][entry.fd].reSend
  <2>1. InFlight'
    BY <1>1, <1>4, <1>5, <1>10 DEF InFlight, Up, Down
  <2>2. CliQueue'
    BY <1>1, <1>4, <1>5, <1>8, <1>10 DEF CliQueue, AtMostOne
  <2> QED
    BY <1>5, <1>6, <1>7, <2>1, <2>2 DEF Connection
<1> QED
  BY <1>9, <1>10

\* ReSendTimer of the server.
LEMMA StepReSendBySrv ==
  ASSUME OnePair, TypeOK, Connection, ReSendTimerFired(Srv)
  PROVE  Connection'
<1>1. /\ Cli \in Node /\ Srv \in Node /\ Cli # Srv
      /\ InFlight /\ Quiet /\ CliQueue /\ SrvQueue
  BY TheNodes DEF Connection
<1>2. PICK entry \in SrvEntries(SFd, SState) : reSendQueue[Srv] = <<entry>>
  BY <1>1 DEF ReSendTimerFired, SrvQueue, AtMostOne
<1>3. /\ entry \in ReSendEntry /\ entry.dest = Cli /\ entry.fd \in Fd
      /\ entry.pkt \in Packet
      /\ SFd # NullFd => entry.fd = SFd
  BY <1>2 DEF SrvEntries, ReSendEntry
<1>4. /\ reSendQueue'[Cli] = reSendQueue[Cli] /\ reSendTimer'[Cli] = reSendTimer[Cli]
      /\ \/ /\ sock[Srv][entry.fd].reSend
            /\ reSendQueue'[Srv] = reSendQueue[Srv] /\ reSendTimer'[Srv] = reSendTimer[Srv]
            /\ net' = Send(net, Srv, Cli, <<entry.pkt>>)
         \/ /\ ~sock[Srv][entry.fd].reSend
            /\ reSendQueue'[Srv] = <<>> /\ ~reSendTimer'[Srv]
            /\ UNCHANGED net
      /\ UNCHANGED <<sock, fdVars, dataTimer, closeVars, receiveVars, appVars>>
  BY <1>1, <1>2, <1>3, OneEntry
<1>5. /\ CFd' = CFd /\ SFd' = SFd /\ CState' = CState /\ SState' = SState
      /\ InPhase' /\ Quiet' /\ Ends' /\ Descriptors'
  BY <1>4, SameSockets
<1>6. Closing' /\ Data' /\ App'
  BY <1>4, <1>5 DEF Connection, Closing, Data, App, closeVars, receiveVars, appVars
<1>7. CliQueue'
  BY <1>1, <1>4, <1>5 DEF CliQueue
<1>8. sock[Srv][entry.fd].reSend <=> SState \in {"SYN_RCVD", "LAST_ACK"}
  <2>1. CASE SFd = NullFd
    BY <1>1, <1>3, <2>1, View, Sizes DEF Quiet
  <2>2. CASE SFd # NullFd
    BY <1>1, <1>3, <2>2 DEF SrvQueue
  <2> QED
    BY <2>1, <2>2
<1>9. CASE sock[Srv][entry.fd].reSend
  <2>1. SState \in {"SYN_RCVD", "LAST_ACK"} /\ <<CState, SState>> \in Phases
    BY <1>8, <1>9 DEF Connection, InPhase
  <2>2. entry.pkt.flag \in DownAllowed(CState, SState)
    BY <1>2, <2>1, PhaseCases, AllowedCases DEF SrvEntries
  <2>3. <<entry.pkt>> \in Seq(DownPackets(CState, SState))
    <3>1. entry.pkt \in DownPackets(CState, SState)
      BY <1>3, <2>2 DEF DownPackets
    <3> QED
      BY <3>1
  <2>4. /\ Up \in Seq(UpPackets(CState, SState))
        /\ Down \in Seq(DownPackets(CState, SState))
    BY <1>1 DEF InFlight
  <2>5. InFlight'
    BY <1>1, <1>4, <1>5, <1>9, <2>3, <2>4, SentBySrv
  <2>6. SrvQueue'
    BY <1>1, <1>4, <1>5, <1>9 DEF SrvQueue
  <2> QED
    BY <1>5, <1>6, <1>7, <2>5, <2>6 DEF Connection
<1>10. CASE ~sock[Srv][entry.fd].reSend
  <2>1. InFlight'
    BY <1>1, <1>4, <1>5, <1>10 DEF InFlight, Up, Down
  <2>2. SrvQueue'
    BY <1>1, <1>4, <1>5, <1>8, <1>10 DEF SrvQueue, AtMostOne
  <2> QED
    BY <1>5, <1>6, <1>7, <2>1, <2>2 DEF Connection
<1> QED
  BY <1>9, <1>10

\* ReSendDataTimer: what is not acknowledged is sent again, or the timer stops.
LEMMA StepDataTimerFired ==
  ASSUME OnePair, TypeOK, Connection, NEW n \in Node, DataTimerFired(n)
  PROVE  Connection'
<1> DEFINE s == sock[Cli][CFd]
           done(u) == u.remain = 0 /\ u.state = "ESTABLISHED"
<1>1. /\ n = Cli /\ dataTimer[Cli] /\ Cli \in Node /\ Srv \in Node /\ Cli # Srv
      /\ InFlight /\ Quiet /\ Ends /\ CliQueue /\ SrvQueue /\ Data
  BY TheNodes DEF DataTimerFired, Connection, Data
<1>2. CFd # NullFd /\ CFd \in Fd /\ CState = "ESTABLISHED" /\ s.dest = Srv
      /\ s.state = "ESTABLISHED"
  BY <1>1, View DEF Data, Ends
<1>3. s \in Socket
  BY <1>1, <1>2 DEF TypeOK
<1>4. /\ IF done(s)
         THEN /\ sock' = [sock EXCEPT ![Cli][CFd].isResend = FALSE]
              /\ dataTimer' = [dataTimer EXCEPT ![Cli] = FALSE]
              /\ UNCHANGED net
         ELSE /\ net' = Send(net, Cli, Srv, <<DataPkt(s)>>)
              /\ UNCHANGED <<sock, dataTimer>>
      /\ UNCHANGED <<fdVars, reSendVars, closeVars, receiveVars, appVars>>
  <2>1. PICK fd \in Fd :
          /\ sock[Cli][fd].isResend
          /\ IF done(sock[Cli][fd])
             THEN /\ sock' = [sock EXCEPT ![Cli][fd].isResend = FALSE]
                  /\ dataTimer' = [dataTimer EXCEPT ![Cli] = FALSE]
                  /\ UNCHANGED net
             ELSE /\ net' = Send(net, Cli, sock[Cli][fd].dest, <<DataPkt(sock[Cli][fd])>>)
                  /\ UNCHANGED <<sock, dataTimer>>
    BY <1>1 DEF DataTimerFired
  <2>2. fd = CFd
    BY <1>1, <2>1 DEF Quiet
  <2>3. UNCHANGED <<fdVars, reSendVars, closeVars, receiveVars, appVars>>
    BY DEF DataTimerFired
  <2> HIDE DEF done
  <2> QED
    BY <1>2, <2>1, <2>2, <2>3
<1>5. CASE done(s)
  <2> DEFINE t == [s EXCEPT !.isResend = FALSE]
  <2>1. /\ sock' = Put(Cli, CFd, t)
        /\ dataTimer' = [dataTimer EXCEPT ![Cli] = FALSE]
        /\ UNCHANGED <<net, fdVars, reSendVars, closeVars, receiveVars, appVars>>
    BY <1>4, <1>5 DEF Put
  <2> HIDE DEF s
  <2>2. /\ t \in Socket /\ t.state = "ESTABLISHED" /\ t.dest = s.dest
        /\ t.reSend = s.reSend /\ t.isResend = FALSE
    <3>1. t \in Socket
      BY <1>3, SocketChange
    <3> QED
      BY <1>2, <1>3, <3>1 DEF Socket
  <2> HIDE DEF t
  <2>3. /\ CFd' = CFd /\ SFd' = SFd /\ CState' = CState /\ SState' = SState
        /\ sock'[Cli][CFd] = t /\ sock'[Srv] = sock[Srv]
        /\ Quiet' /\ Ends' /\ Descriptors'
    BY <1>2, <2>1, <2>2, ClientMoves DEF s
  <2>4. InPhase' /\ InFlight'
    BY <2>1, <2>3 DEF Connection, InPhase, InFlight, Up, Down
  <2>5. UNCHANGED <<reSendQueue, reSendTimer>>
    BY <2>1 DEF reSendVars
  <2>6. CliQueue' /\ SrvQueue'
    BY <1>1, <2>2, <2>3, <2>5 DEF CliQueue, SrvQueue, s
  <2>7. Closing' /\ App'
    BY <2>1, <2>3 DEF Connection, Closing, App, closeVars, appVars
  <2>8. Data'
    <3>1. dataTimer \in [Node -> BOOLEAN]
      BY DEF TypeOK
    <3>2. ~dataTimer'[Cli] /\ dataTimer'[Srv] = dataTimer[Srv]
      BY <1>1, <2>1, <3>1
    <3> QED
      BY <1>1, <2>1, <2>2, <2>3, <3>2 DEF Data, receiveVars
  <2> QED
    BY <2>3, <2>4, <2>6, <2>7, <2>8 DEF Connection
<1>6. CASE ~done(s)
  <2>1. /\ net' = Send(net, Cli, Srv, <<DataPkt(s)>>)
        /\ UNCHANGED <<sock, fdVars, reSendVars, dataTimer, closeVars, receiveVars, appVars>>
    BY <1>4, <1>6
  <2>2. CState' = CState /\ SState' = SState
    BY <2>1, SameSockets
  <2>3. DataPkt(s) \in Packet /\ DataPkt(s).flag = "DATA"
    BY <1>3, SocketFields, PktType DEF DataPkt
  <2>4. DataPkt(s) \in UpPackets(CState, SState)
    <3>1. "DATA" \in UpAllowed(CState, SState)
      BY <1>2, PhaseCases, AllowedCases DEF Connection, InPhase
    <3> QED
      BY <2>3, <3>1 DEF UpPackets
  <2> DEFINE p == DataPkt(s)
  <2>5. p \in UpPackets(CState, SState) /\ p.flag # "SYN"
    BY <2>3, <2>4
  <2> HIDE DEF p
  <2>6. /\ <<p>> \in Seq(UpPackets(CState, SState))
        /\ \A i \in 1 .. Len(<<p>>) : <<p>>[i].flag # "SYN"
    BY <2>5
  <2>7. InFlight'
    <3>1. net' = Send(net, Cli, Srv, <<p>>)
      BY <2>1 DEF p
    <3>2. /\ Up \in Seq(UpPackets(CState, SState))
          /\ Down \in Seq(DownPackets(CState, SState))
      BY <1>1 DEF InFlight
    <3> QED
      BY <1>1, <2>2, <2>6, <3>1, <3>2, SentByCli
  <2> QED
    BY <2>1, <2>7, OnlyPackets
<1> QED
  BY <1>5, <1>6

\* CloseTimer fires when the server is rid of the connection.
LEMMA StepCloseTimerFired ==
  ASSUME OnePair, TypeOK, Connection, NEW n \in Node, CloseTimerFired(n)
  PROVE  Connection'
<1>1. /\ n = Cli /\ closeTimer[Cli] /\ Cli \in Node /\ Srv \in Node /\ Cli # Srv
      /\ InFlight /\ CliQueue /\ SrvQueue /\ Closing
  BY TheNodes DEF CloseTimerFired, Connection, Closing
<1>2. CState = "TIME_WAIT" /\ CFd # NullFd /\ sock[Cli][CFd].state = "TIME_WAIT"
  BY <1>1, View DEF Closing
<1>3. SState = "none"
  <2>1. TimeWaitIsOver(Cli)
    BY <1>1 DEF CloseTimerFired, OnePair
  <2>2. socketTable[Srv][Cli] = NullFd
    BY <1>1, <1>2, <2>1 DEF TimeWaitIsOver, CFd
  <2> QED
    BY <2>2 DEF SState, SFd
<1>4. /\ closeTimer' = [closeTimer EXCEPT ![Cli] = FALSE]
      /\ closePosted' = [closePosted EXCEPT ![Cli] = TRUE]
      /\ UNCHANGED <<sock, fdVars, reSendVars, dataTimer, closeQueue, receiveVars,
                     appVars, net>>
  BY <1>1 DEF CloseTimerFired
<1>5. /\ CFd' = CFd /\ SFd' = SFd /\ CState' = CState /\ SState' = SState
      /\ InPhase' /\ Quiet' /\ Ends' /\ Descriptors'
  BY <1>4, SameSockets
<1>6. InFlight'
  BY <1>1, <1>4, <1>5 DEF InFlight, Up, Down
<1>7. CliQueue' /\ SrvQueue'
  <2>1. UNCHANGED <<reSendQueue, reSendTimer>>
    BY <1>4 DEF reSendVars
  <2> QED
    BY <1>1, <1>4, <1>5, <2>1 DEF CliQueue, SrvQueue
<1>8. Closing'
  <2>1. closeTimer \in [Node -> BOOLEAN] /\ closePosted \in [Node -> BOOLEAN]
    BY DEF TypeOK
  <2>2. /\ ~closeTimer'[Cli] /\ closePosted'[Cli]
        /\ closeTimer'[Srv] = closeTimer[Srv] /\ closePosted'[Srv] = closePosted[Srv]
        /\ UNCHANGED closeQueue
    BY <1>1, <1>4, <2>1
  <2> QED
    BY <1>1, <1>2, <1>3, <1>5, <2>2 DEF Closing
<1>9. Data' /\ App'
  BY <1>4, <1>5 DEF Connection, Data, App, receiveVars, appVars
<1> QED
  BY <1>5, <1>6, <1>7, <1>8, <1>9 DEF Connection

\* closeTask: the client is rid of the connection too.
LEMMA StepCloseTask ==
  ASSUME OnePair, TypeOK, Connection, NEW n \in Node, CloseTask(n)
  PROVE  Connection'
<1> DEFINE s == sock[Cli][CFd]
           t == [s EXCEPT !.state = "CLOSED", !.inUse = FALSE]
<1>1. /\ n = Cli /\ closePosted[Cli] /\ Cli \in Node /\ Srv \in Node /\ Cli # Srv
      /\ Servers = {Srv} /\ InFlight /\ Quiet /\ Ends /\ Descriptors
      /\ CliQueue /\ SrvQueue /\ Closing /\ Data /\ App
  BY TheNodes DEF CloseTask, Connection, Closing
<1>2. /\ CState = "TIME_WAIT" /\ SState = "none" /\ CFd # NullFd /\ CFd \in Fd
      /\ SFd = NullFd /\ s.dest = Srv /\ closeQueue[Cli] = <<CFd>>
      /\ ~closeTimer[Cli]
  BY <1>1, View DEF Closing, Ends
<1>3. /\ sock' = [sock EXCEPT ![Cli][CFd].state = "CLOSED",
                              ![Cli][CFd].inUse = FALSE]
      /\ fdQueue' = [fdQueue EXCEPT ![Cli] = Append(fdQueue[Cli], CFd)]
      /\ socketTable' = [socketTable EXCEPT ![Cli][Srv] = NullFd]
      /\ localFd' = [localFd EXCEPT ![Cli] = NullFd] /\ UNCHANGED users
      /\ closeQueue' = [closeQueue EXCEPT ![Cli] = <<>>]
      /\ closePosted' = [closePosted EXCEPT ![Cli] = FALSE]
      /\ UNCHANGED <<globalFd, reSendVars, dataTimer, closeTimer, receiveVars, net>>
  <2>1. Head(closeQueue[Cli]) = CFd /\ Tail(closeQueue[Cli]) = <<>> /\ Cli \notin Servers
    BY <1>1, <1>2
  <2> QED
    BY <1>1, <1>2, <2>1 DEF CloseTask, Forget
<1>4. /\ fdQueue \in [Node -> Seq(Fd)] /\ sock \in [Node -> [Fd -> Socket]]
      /\ socketTable \in [Node -> [Node -> Fd \cup {NullFd}]]
      /\ localFd \in [Node -> Fd \cup {NullFd}]
      /\ closePosted \in [Node -> BOOLEAN] /\ closeQueue \in [Node -> Seq(Fd)]
  BY DEF TypeOK
<1>5. sock' = [sock EXCEPT ![Cli][CFd] = t] /\ s \in Socket
  BY <1>1, <1>2, <1>3, <1>4
<1>6. ~s.reSend /\ ~s.isResend
  BY <1>1, <1>2 DEF CliQueue, Data
<1> HIDE DEF s
<1>7. /\ t \in Socket /\ t.state = "CLOSED" /\ t.inUse = FALSE
      /\ t.isResend = s.isResend /\ t.reSend = s.reSend
  <2>1. t \in Socket
    BY <1>5, SocketChange
  <2> QED
    BY <1>5, <2>1 DEF Socket
<1> HIDE DEF t
<1>8. /\ sock'[Srv] = sock[Srv]
      /\ \A e \in Fd : sock'[Cli][e] = IF e = CFd THEN t ELSE sock[Cli][e]
  BY <1>1, <1>2, <1>4, <1>5, <1>7
<1>9. /\ CFd' = NullFd /\ SFd' = NullFd
      /\ \A m \in Node : socketTable'[m][m] = socketTable[m][m]
  BY <1>1, <1>2, <1>3, <1>4 DEF CFd, SFd
<1>10. CState' = "none" /\ SState' = "none"
  BY <1>9 DEF CState, SState
<1>11. InPhase'
  BY <1>10, PhaseCases DEF InPhase
<1>12. InFlight'
  <2>1. /\ UpAllowed(CState, SState) \subseteq UpAllowed("none", "none")
        /\ DownAllowed(CState, SState) \subseteq DownAllowed("none", "none")
    BY <1>2, AllowedCases
  <2>2. /\ Up \in Seq(UpPackets("none", "none")) /\ Down \in Seq(DownPackets("none", "none"))
    BY <1>1, <2>1, UpStays, DownStays
  <2> QED
    BY <1>1, <1>3, <1>10, <2>2 DEF InFlight, Up, Down
<1>13. Quiet'
  <2>1. UNCHANGED globalFd
    BY <1>3
  <2> QED
    BY <1>1, <1>2, <1>6, <1>7, <1>8, <1>9, <2>1 DEF Quiet
<1>14. Ends'
  BY <1>1, <1>9 DEF Ends
<1>15. Descriptors'
  <2>1. fdQueue'[Cli] = Append(fdQueue[Cli], CFd) /\ fdQueue'[Srv] = fdQueue[Srv]
    BY <1>1, <1>3, <1>4
  <2>2. /\ fdQueue[Cli] \in Seq(Fd) /\ Unique(fdQueue[Cli])
        /\ Listed(fdQueue[Cli]) = Fd \ {CFd}
    BY <1>1, <1>4 DEF Descriptors
  <2>3. CFd \notin Listed(fdQueue[Cli])
    BY <2>2
  <2>4. Unique(fdQueue'[Cli]) /\ Listed(fdQueue'[Cli]) = Listed(fdQueue[Cli]) \cup {CFd}
    BY <1>2, <2>1, <2>2, <2>3, GiveBack
  <2>5. Listed(fdQueue'[Cli]) = Fd \ {CFd'}
    BY <1>2, <1>9, <2>2, <2>4, Sizes
  <2>6. \A m \in Node : Unique(fdQueue'[m])
    BY <1>1, <2>1, <2>4, TheNodes DEF Descriptors
  <2>7. Listed(fdQueue'[Srv]) = {e \in Fd : e # SFd' /\ sock'[Srv][e].state # "LISTEN"}
    BY <1>1, <1>2, <1>8, <1>9, <2>1 DEF Descriptors
  <2> QED
    BY <2>5, <2>6, <2>7 DEF Descriptors
<1>16. CliQueue' /\ SrvQueue'
  <2>1. UNCHANGED <<reSendQueue, reSendTimer>>
    BY <1>3 DEF reSendVars
  <2>2. CliEntries(CFd, CState) \subseteq CliEntries(NullFd, "none")
    BY DEF CliEntries
  <2>3. AtMostOne(reSendQueue'[Cli], CliEntries(CFd', CState'))
    BY <1>1, <1>9, <1>10, <2>1, <2>2 DEF CliQueue, AtMostOne
  <2>4. CliQueue'
    BY <1>1, <1>9, <1>10, <2>1, <2>3 DEF CliQueue
  <2>5. SrvQueue'
    BY <1>1, <1>2, <1>9, <1>10, <2>1 DEF SrvQueue
  <2> QED
    BY <2>4, <2>5
<1>17. Closing'
  <2>1. /\ closeQueue'[Cli] = <<>> /\ closeQueue'[Srv] = closeQueue[Srv]
        /\ ~closePosted'[Cli] /\ closePosted'[Srv] = closePosted[Srv]
        /\ UNCHANGED closeTimer
    BY <1>1, <1>3, <1>4
  <2> QED
    BY <1>1, <1>2, <1>10, <2>1 DEF Closing
<1>18. Data'
  <2>1. UNCHANGED <<dataTimer, receiveQueue, receivePosted>>
    BY <1>3 DEF receiveVars
  <2> QED
    BY <1>1, <1>2, <1>9, <1>10, <2>1 DEF Data
<1>19. App'
  <2>1. localFd'[Cli] = NullFd /\ localFd'[Srv] = localFd[Srv]
    BY <1>1, <1>3, <1>4
  <2> QED
    BY <1>1, <1>2, <1>3, <1>9, <2>1 DEF App
<1> QED
  BY <1>11, <1>12, <1>13, <1>14, <1>15, <1>16, <1>17, <1>18, <1>19 DEF Connection

-----------------------------------------------------------------------------
(* The invariant                                                           *)

\* It holds when the nodes start.
LEMMA StepInit ==
  ASSUME OnePair, Init
  PROVE  Connection
<1>1. /\ Cli \in Node /\ Srv \in Node /\ Cli # Srv
      /\ <<Cli, Srv>> \in Link /\ <<Srv, Cli>> \in Link
      /\ \A n \in Node : <<n, n>> \in Link
      /\ \A n \in Node : n = Cli \/ n = Srv
  BY TheNodes DEF Link
<1>2. CFd = NullFd /\ SFd = NullFd /\ CState = "none" /\ SState = "none"
  BY <1>1 DEF Init, CFd, SFd, CState, SState
<1>3. InPhase
  BY <1>2, PhaseCases DEF InPhase
<1>4. InFlight
  <2>1. Up = <<>> /\ Down = <<>> /\ \A n \in Node : net[<<n, n>>] = <<>>
    BY <1>1 DEF Init, Up, Down
  <2> QED
    BY <2>1 DEF InFlight, SynsFirst
<1>5. \A n \in Node, fd \in Fd : sock[n][fd] = EmptySocket
  BY DEF Init
<1>6. Quiet
  BY <1>1, <1>5 DEF Quiet, EmptySocket
<1>7. Ends
  BY <1>2 DEF Init, Ends
<1>8. Descriptors
  <2>1. ASSUME NEW n \in Node PROVE Unique(fdQueue[n]) /\ Listed(fdQueue[n]) = Fd
    <3>1. fdQueue[n] = [i \in 1 .. MaxSockets |-> MaxSockets - i]
      BY DEF Init
    <3>2. MaxSockets \in Nat
      BY Sizes
    <3> DEFINE q == [i \in 1 .. MaxSockets |-> MaxSockets - i]
    <3>3. q \in Seq(Int) /\ Len(q) = MaxSockets
      <4>1. q \in [1 .. MaxSockets -> Int]
        BY <3>2
      <4> HIDE DEF q
      <4> QED
        BY <3>2, <4>1, LenProperties, SeqDef
    <3>4. \A i \in 1 .. MaxSockets : q[i] = MaxSockets - i
      OBVIOUS
    <3> HIDE DEF q
    <3>5. Unique(q)
      BY <3>2, <3>3, <3>4 DEF Unique
    <3>6. Listed(q) = Fd
      <4>1. ASSUME NEW x, x \in Listed(q) PROVE x \in Fd
        BY <3>2, <3>3, <3>4, <4>1 DEF Listed, Fd
      <4>2. ASSUME NEW x, x \in Fd PROVE x \in Listed(q)
        <5>1. MaxSockets - x \in 1 .. MaxSockets /\ MaxSockets - (MaxSockets - x) = x
          BY <3>2, <4>2 DEF Fd
        <5> QED
          BY <3>3, <3>4, <5>1 DEF Listed
      <4> QED
        BY <4>1, <4>2
    <3> QED
      BY <3>1, <3>5, <3>6 DEF q
  <2>2. \A fd \in Fd : sock[Srv][fd].state # "LISTEN"
    BY <1>1, <1>5 DEF EmptySocket
  <2> QED
    BY <1>1, <1>2, <2>1, <2>2, Sizes DEF Descriptors
<1>9. CliQueue /\ SrvQueue
  <2>1. \A n \in Node : reSendQueue[n] = <<>> /\ ~reSendTimer[n]
    BY DEF Init
  <2> QED
    BY <1>1, <1>2, <2>1 DEF CliQueue, SrvQueue, AtMostOne
<1>10. Closing
  BY <1>1, <1>2 DEF Init, Closing
<1>11. Data
  BY <1>1, <1>2 DEF Init, Data
<1>12. App
  BY <1>1, <1>2 DEF Init, App
<1> QED
  BY <1>3, <1>4, <1>6, <1>7, <1>8, <1>9, <1>10, <1>11, <1>12 DEF Connection

\* It holds after every step.
LEMMA StepNext ==
  ASSUME OnePair, TypeOK, Connection, [Next]_vars
  PROVE  Connection'
<1>1. ASSUME NEW n \in Node, UserCommand(n) PROVE Connection'
  BY <1>1, StepInitServer, StepDial, StepClose DEF UserCommand
<1>2. ASSUME NEW n \in Node, Scheduled(n) PROVE Connection'
  <2>1. ReSendTimerFired(n) => Connection'
    BY TheNodes, StepReSendByCli, StepReSendBySrv
  <2> QED
    BY <1>2, <2>1, StepReceiveDATA, StepDataTimerFired, StepCloseTimerFired, StepCloseTask
       DEF Scheduled
<1>3. ASSUME NEW l \in Link, Deliver(l[1], l[2]) PROVE Connection'
  BY <1>3, StepDeliver
<1>4. ASSUME NEW l \in Link, Lose(l) PROVE Connection'
  BY <1>4, StepLose
<1>5. CASE UNCHANGED vars
  <2>1. /\ UNCHANGED <<sock, fdVars, reSendVars, dataTimer, closeVars, receiveVars, appVars>>
        /\ UNCHANGED net
    BY <1>5 DEF vars
  <2>2. InFlight'
    <3>1. CState' = CState /\ SState' = SState
      BY <2>1, SameSockets
    <3> QED
      BY <2>1, <3>1 DEF Connection, InFlight, Up, Down
  <2> QED
    BY <2>1, <2>2, OnlyPackets
<1> QED
  BY <1>1, <1>2, <1>3, <1>4, <1>5 DEF Next

-----------------------------------------------------------------------------
(* The states a socket passes through                                      *)

\* The diagram of the states: what may follow what.
Diagram ==
  {<<"CLOSED", "LISTEN">>, <<"CLOSED", "SYN_SENT">>, <<"CLOSED", "SYN_RCVD">>,
   <<"SYN_SENT", "ESTABLISHED">>, <<"SYN_RCVD", "ESTABLISHED">>,
   <<"ESTABLISHED", "FIN_WAIT_1">>, <<"FIN_WAIT_1", "FIN_WAIT_2">>,
   <<"FIN_WAIT_2", "TIME_WAIT">>, <<"TIME_WAIT", "CLOSED">>,
   <<"ESTABLISHED", "LAST_ACK">>, <<"LAST_ACK", "CLOSED">>}

InDiagram(old, new) == old = new \/ <<old, new>> \in Diagram
Follows == \A n \in Node, fd \in Fd : InDiagram(sock[n][fd].state, sock'[n][fd].state)

\* A step that leaves the sockets alone, or changes one of them.
LEMMA NoneFollows == ASSUME UNCHANGED sock PROVE Follows
BY DEF Follows, InDiagram

\* One socket changes, along the diagram.
LEMMA OneFollows ==
  ASSUME TypeOK, NEW n \in Node, NEW fd \in Fd, NEW t, sock' = [sock EXCEPT ![n][fd] = t],
         InDiagram(sock[n][fd].state, t.state)
  PROVE  Follows
<1>1. sock \in [Node -> [Fd -> Socket]]
  BY DEF TypeOK
<1>2. \A m \in Node, e \in Fd : sock'[m][e] = IF m = n /\ e = fd THEN t ELSE sock[m][e]
  BY <1>1
<1> QED
  BY <1>2 DEF Follows, InDiagram

\* The user's commands.
LEMMA UserFollows ==
  ASSUME OnePair, TypeOK, Connection, NEW n \in Node, UserCommand(n)
  PROVE  Follows
<1>1. CASE InitServer(n)
  <2> DEFINE fd == PopBack(fdQueue[n])
             t == [sock[n][fd] EXCEPT !.inUse = TRUE, !.state = "LISTEN"]
  <2>1. fd \in Fd /\ sock \in [Node -> [Fd -> Socket]]
    BY PopBackType DEF TypeOK
  <2>2. /\ sock[n][fd].state = "CLOSED"
        /\ sock' = [sock EXCEPT ![n][fd].inUse = TRUE, ![n][fd].state = "LISTEN"]
    BY <1>1, <2>1 DEF InitServer
  <2> HIDE DEF fd
  <2>3. /\ sock[n][fd] \in Socket
        /\ sock' = [sock EXCEPT ![n][fd] = t]
    BY <2>1, <2>2
  <2>5. t.state = "LISTEN"
    BY <2>3 DEF Socket
  <2>4. InDiagram("CLOSED", "LISTEN")
    BY DEF InDiagram, Diagram
  <2> HIDE DEF t
  <2>6. InDiagram(sock[n][fd].state, t.state)
    BY <2>2, <2>4, <2>5
  <2> QED
    BY <2>1, <2>3, <2>6, OneFollows
<1>2. ASSUME NEW server \in Servers, Dial(n, server) PROVE Follows
  <2> DEFINE fd == PopBack(fdQueue[n])
  <2>1. fd \in Fd /\ sock[n][fd] \in Socket /\ sock[n][fd].state = "CLOSED"
    BY <1>2, PopBackType DEF TypeOK, Dial
  <2>2. PICK r \in RandSeq :
          sock' = [sock EXCEPT ![n][fd] =
             [sock[n][fd] EXCEPT !.inUse = TRUE, !.state = "SYN_SENT",
                                 !.dest = server, !.ISN = r, !.lastSent = r,
                                 !.lastAck = r, !.lastWritten = r, !.reSend = TRUE]]
    BY <1>2 DEF Dial
  <2> DEFINE t == [sock[n][fd] EXCEPT !.inUse = TRUE, !.state = "SYN_SENT",
                                 !.dest = server, !.ISN = r, !.lastSent = r,
                                 !.lastAck = r, !.lastWritten = r, !.reSend = TRUE]
  <2> HIDE DEF fd
  <2>3. t.state = "SYN_SENT"
    BY <2>1 DEF Socket
  <2>4. InDiagram("CLOSED", "SYN_SENT")
    BY DEF InDiagram, Diagram
  <2>5. sock' = [sock EXCEPT ![n][fd] = t]
    BY <2>2
  <2> HIDE DEF t
  <2> QED
    BY <2>1, <2>3, <2>4, <2>5, OneFollows
<1>3. CASE Close(n)
  <2> DEFINE fd == localFd[n]
             seq == U8(sock[n][fd].lastSent + 1)
             t == [sock[n][fd] EXCEPT !.state = "FIN_WAIT_1", !.lastSent = seq, !.reSend = TRUE]
  <2>1. fd \in Fd /\ sock \in [Node -> [Fd -> Socket]]
    BY <1>3 DEF Close, TypeOK
  <2>2. /\ sock[n][fd].state \in {"ESTABLISHED", "FIN_WAIT_1"}
        /\ sock' = [sock EXCEPT ![n][fd].state = "FIN_WAIT_1",
                                ![n][fd].lastSent = seq,
                                ![n][fd].reSend = TRUE]
    BY <1>3 DEF Close
  <2> HIDE DEF fd, seq
  <2>3. /\ sock[n][fd] \in Socket
        /\ sock' = [sock EXCEPT ![n][fd] = t]
    BY <2>1, <2>2
  <2>5. t.state = "FIN_WAIT_1"
    BY <2>3 DEF Socket
  <2>4. InDiagram("ESTABLISHED", "FIN_WAIT_1") /\ InDiagram("FIN_WAIT_1", "FIN_WAIT_1")
    BY DEF InDiagram, Diagram
  <2> HIDE DEF t
  <2>6. InDiagram(sock[n][fd].state, t.state)
    BY <2>2, <2>4, <2>5
  <2> QED
    BY <2>1, <2>3, <2>6, OneFollows
<1> QED
  BY <1>1, <1>2, <1>3 DEF UserCommand

\* The tasks and the timers.
LEMMA ScheduledFollows ==
  ASSUME OnePair, TypeOK, Connection, NEW n \in Node, Scheduled(n)
  PROVE  Follows
<1>1. CASE ReceiveDATA(n)
  <2> DEFINE r == Head(receiveQueue[n])
             fd == Lookup(n, r.from)
             s == sock[n][fd]
             t == IF r.pkt.ack = s.ISN + 1
                  THEN [s EXCEPT !.ISN = U8(s.ISN + 1),
                                 !.nextExpected = (r.pkt.seq + 1) % 128]
                  ELSE s
  <2>1. UNCHANGED sock \/ sock' = [sock EXCEPT ![n][fd] = t]
    BY <1>1 DEF ReceiveDATA
  <2>2. fd \in Fd
    <3>1. r \in Received
      BY <1>1, HeadTail DEF ReceiveDATA, TypeOK
    <3>2. r.from \in Node
      BY <3>1 DEF Received
    <3> HIDE DEF r
    <3> QED
      BY <3>2, Sizes DEF Lookup, TypeOK
  <2> HIDE DEF fd
  <2>3. s \in Socket
    BY <2>2 DEF TypeOK
  <2> HIDE DEF s, r
  <2>4. t.state = s.state
    BY <2>3 DEF Socket
  <2> HIDE DEF t
  <2>5. InDiagram(s.state, s.state)
    BY DEF InDiagram
  <2> QED
    BY <2>1, <2>2, <2>4, <2>5, NoneFollows, OneFollows DEF s
<1>2. CASE DataTimerFired(n)
  <2>1. PICK fd \in Fd : UNCHANGED sock \/ sock' = [sock EXCEPT ![n][fd].isResend = FALSE]
    BY <1>2 DEF DataTimerFired
  <2> DEFINE t == [sock[n][fd] EXCEPT !.isResend = FALSE]
  <2>2. sock[n][fd] \in Socket /\ sock \in [Node -> [Fd -> Socket]]
    BY DEF TypeOK
  <2>3. UNCHANGED sock \/ sock' = [sock EXCEPT ![n][fd] = t]
    BY <2>1, <2>2
  <2>4. t.state = sock[n][fd].state /\ InDiagram(sock[n][fd].state, sock[n][fd].state)
    BY <2>2 DEF Socket, InDiagram
  <2> HIDE DEF t
  <2> QED
    BY <2>3, <2>4, NoneFollows, OneFollows
<1>3. CASE CloseTask(n)
  <2> DEFINE t == [sock[Cli][CFd] EXCEPT !.state = "CLOSED", !.inUse = FALSE]
  <2>1. n = Cli /\ closeQueue[Cli] = <<CFd>> /\ CState = "TIME_WAIT" /\ Cli \in Node
    BY <1>3, TheNodes DEF CloseTask, Connection, Closing
  <2>2. CFd \in Fd /\ sock[Cli][CFd].state = "TIME_WAIT" /\ sock \in [Node -> [Fd -> Socket]]
    BY <2>1, View DEF TypeOK
  <2>3. sock' = [sock EXCEPT ![Cli][CFd].state = "CLOSED", ![Cli][CFd].inUse = FALSE]
    <3>1. Head(closeQueue[Cli]) = CFd
      BY <2>1
    <3> QED
      BY <1>3, <2>1, <3>1 DEF CloseTask
  <2>4. /\ sock[Cli][CFd] \in Socket
        /\ sock' = [sock EXCEPT ![Cli][CFd] = t]
    BY <2>1, <2>2, <2>3
  <2>6. t.state = "CLOSED"
    BY <2>4 DEF Socket
  <2>5. InDiagram("TIME_WAIT", "CLOSED")
    BY DEF InDiagram, Diagram
  <2> HIDE DEF t
  <2> QED
    BY <2>1, <2>2, <2>4, <2>5, <2>6, OneFollows
<1>4. CASE ReSendTimerFired(n) \/ CloseTimerFired(n)
  BY <1>4, NoneFollows DEF ReSendTimerFired, CloseTimerFired
<1> QED
  BY <1>1, <1>2, <1>3, <1>4 DEF Scheduled

\* What arrives at the server.
LEMMA UpFollows ==
  ASSUME OnePair, TypeOK, Connection, Deliver(Cli, Srv)
  PROVE  Follows
<1> DEFINE pkt == Head(net[<<Cli, Srv>>])
           fd == Lookup(Srv, Cli)
           s == sock[Srv][fd]
<1>1. /\ Cli \in Node /\ Srv \in Node /\ fd \in Fd /\ s \in Socket
      /\ sock \in [Node -> [Fd -> Socket]]
  <2>1. Cli \in Node /\ Srv \in Node /\ sock \in [Node -> [Fd -> Socket]]
    BY TheNodes DEF TypeOK
  <2>2. fd \in Fd
    BY <2>1, Sizes DEF TypeOK, Lookup
  <2> HIDE DEF fd
  <2> QED
    BY <2>1, <2>2
<1>2. CASE ReceiveSYN(Cli, Srv) /\ sock[Srv][globalFd[Srv]].state = "LISTEN"
  <2> DEFINE known == socketTable[Srv][Cli] # NullFd
             e == IF known THEN socketTable[Srv][Cli] ELSE PopBack(fdQueue[Srv])
             t == [sock[Srv][e] EXCEPT !.state = "SYN_RCVD", !.dest = Cli,
                                       !.nextExpected = U8(pkt.seq + 1), !.reSend = TRUE]
  <2>1. /\ sock' = [sock EXCEPT ![Srv][e] = t] /\ Arrives(Cli, Srv, "SYN")
    BY <1>2 DEF ReceiveSYN
  <2>2. SState \in {"none", "SYN_RCVD"}
    BY <2>1, HeadUp
  <2>3. e \in Fd /\ sock[Srv][e].state \in {"CLOSED", "SYN_RCVD"} /\ sock[Srv][e] \in Socket
    <3>1. CASE known
      <4>1. e = SFd /\ SFd # NullFd
        BY <3>1 DEF SFd
      <4> HIDE DEF e
      <4> QED
        BY <2>2, <4>1, View
    <3>2. CASE ~known
      <4>1. e = PopBack(fdQueue[Srv]) /\ SFd = NullFd
        BY <3>2 DEF SFd
      <4>2. /\ fdQueue[Srv] \in Seq(Fd) /\ Unique(fdQueue[Srv])
            /\ Listed(fdQueue[Srv]) = {f \in Fd : f # SFd /\ sock[Srv][f].state # "LISTEN"}
        BY <1>1 DEF Connection, Descriptors, TypeOK
      <4>3. \E f \in Fd : f # globalFd[Srv]
        <5>1. 0 \in Fd /\ 1 \in Fd
          BY Sizes DEF Fd, OnePair
        <5> QED
          BY <5>1
      <4>4. Quiet /\ \A f \in Fd : f # SFd
        BY <4>1, Sizes DEF Connection
      <4>5. Listed(fdQueue[Srv]) # {}
        BY <4>2, <4>3, <4>4 DEF Quiet
      <4> HIDE DEF e
      <4>6. e \in Listed(fdQueue[Srv])
        BY <4>1, <4>2, <4>5, TakeLast
      <4> QED
        BY <1>1, <4>2, <4>4, <4>6 DEF Quiet
    <3> QED
      BY <3>1, <3>2
  <2> HIDE DEF e
  <2>4. t.state = "SYN_RCVD"
    BY <2>3 DEF Socket
  <2>5. InDiagram("CLOSED", "SYN_RCVD") /\ InDiagram("SYN_RCVD", "SYN_RCVD")
    BY DEF InDiagram, Diagram
  <2> HIDE DEF t
  <2> QED
    BY <1>1, <2>1, <2>3, <2>4, <2>5, OneFollows
<1>3. CASE ReceiveSYN(Cli, Srv) /\ sock[Srv][globalFd[Srv]].state # "LISTEN"
  BY <1>3, NoneFollows DEF ReceiveSYN, Ignored
<1>4. CASE AckOfSYN(Cli, Srv)
  <2>1. CASE UNCHANGED sock
    BY <2>1, NoneFollows
  <2>2. CASE ~UNCHANGED sock
    <3>1. s.state = "SYN_RCVD"
      BY <1>4 DEF AckOfSYN
    <3>2. PICK r \in RandSeq :
            sock' = [sock EXCEPT ![Srv][fd] =
                      [s EXCEPT !.ISN = U8(s.ISN + 1), !.state = "ESTABLISHED",
                                !.reSend = FALSE, !.pendingSeq = U8(pkt.seq - 1),
                                !.lastWritten = r, !.lastSent = r, !.lastAck = r]]
      BY <1>4, <2>2 DEF AckOfSYN, Ignored
    <3> DEFINE t == [s EXCEPT !.ISN = U8(s.ISN + 1), !.state = "ESTABLISHED",
                              !.reSend = FALSE, !.pendingSeq = U8(pkt.seq - 1),
                              !.lastWritten = r, !.lastSent = r, !.lastAck = r]
    <3>3. sock' = [sock EXCEPT ![Srv][fd] = t]
      BY <3>2
    <3> HIDE DEF s, pkt
    <3>4. t.state = "ESTABLISHED"
      BY <1>1 DEF Socket
    <3>5. InDiagram("SYN_RCVD", "ESTABLISHED")
      BY DEF InDiagram, Diagram
    <3> HIDE DEF t, fd
    <3> QED
      BY <1>1, <3>1, <3>3, <3>4, <3>5, OneFollows DEF s
  <2> QED
    BY <2>1, <2>2
<1>5. CASE AckOfFINorData(Cli, Srv)
  <2>1. SState = "ESTABLISHED" /\ s.state = "ESTABLISHED"
    <3>1. s.state \in {"FIN_WAIT_1", "ESTABLISHED"}
      BY <1>5 DEF AckOfFINorData
    <3> QED
      BY <3>1, Found, View, PhaseCases DEF Connection, InPhase
  <2>2. sock' = [sock EXCEPT ![Srv][fd] = AfterUpdate(s, pkt)] /\ pkt \in Packet
    BY <1>1, <1>5, <2>1, ArrivesIs DEF AckOfFINorData, Arrives
  <2>3. AfterUpdate(s, pkt).state = "ESTABLISHED"
    BY <1>1, <2>1, <2>2, UpdateType
  <2>4. InDiagram("ESTABLISHED", "ESTABLISHED")
    BY DEF InDiagram
  <2> HIDE DEF fd, pkt
  <2> QED
    BY <1>1, <2>1, <2>2, <2>3, <2>4, OneFollows
<1>6. CASE AckOfLastFIN(Cli, Srv)
  <2>1. CASE UNCHANGED sock
    BY <2>1, NoneFollows
  <2>2. CASE ~UNCHANGED sock
    <3> DEFINE t == [s EXCEPT !.reSend = FALSE, !.state = "CLOSED", !.inUse = FALSE]
    <3>1. s.state = "LAST_ACK" /\ sock' = [sock EXCEPT ![Srv][fd] = t]
      BY <1>6, <2>2 DEF AckOfLastFIN, Ignored
    <3> HIDE DEF s
    <3>2. t.state = "CLOSED"
      BY <1>1 DEF Socket
    <3>3. InDiagram("LAST_ACK", "CLOSED")
      BY DEF InDiagram, Diagram
    <3> HIDE DEF t, fd
    <3> QED
      BY <1>1, <3>1, <3>2, <3>3, OneFollows DEF s
  <2> QED
    BY <2>1, <2>2
<1>7. CASE FinOfClient(Cli, Srv)
  <2>1. CASE UNCHANGED sock
    BY <2>1, NoneFollows
  <2>2. CASE ~UNCHANGED sock
    <3>1. s.state = "ESTABLISHED" /\ sock' = [sock EXCEPT ![Srv][fd] = AfterFin(s)]
      BY <1>7, <2>2 DEF FinOfClient, Ignored
    <3> HIDE DEF s
    <3>2. AfterFin(s).state = "LAST_ACK"
      BY <1>1 DEF Socket, AfterFin
    <3>3. InDiagram("ESTABLISHED", "LAST_ACK")
      BY DEF InDiagram, Diagram
    <3> HIDE DEF fd
    <3> QED
      BY <1>1, <3>1, <3>2, <3>3, OneFollows DEF s
  <2> QED
    BY <2>1, <2>2
<1>8. ~ReceiveSYNACK(Cli, Srv) /\ ~FinOfServer(Cli, Srv)
  BY StepReceiveSYNACK, StepFinOfServer
<1>9. CASE AckIgnored(Cli, Srv) \/ FinAgain(Cli, Srv) \/ FinIgnored(Cli, Srv)
           \/ QueueDATA(Cli, Srv)
  BY <1>9, NoneFollows DEF AckIgnored, FinAgain, FinIgnored, QueueDATA, Ignored, Answered
<1> QED
  BY <1>2, <1>3, <1>4, <1>5, <1>6, <1>7, <1>8, <1>9 DEF Deliver

\* What arrives at the client.
LEMMA DownFollows ==
  ASSUME OnePair, TypeOK, Connection, Deliver(Srv, Cli)
  PROVE  Follows
<1> DEFINE pkt == Head(net[<<Srv, Cli>>])
           s == sock[Cli][CFd]
<1>1. Cli \in Node /\ Srv \in Node /\ sock \in [Node -> [Fd -> Socket]]
  BY TheNodes DEF TypeOK
<1>2. CASE ReceiveSYN(Srv, Cli)
  <2>1. sock[Cli][globalFd[Cli]].state # "LISTEN"
    <3>1. globalFd[Cli] \in Fd
      BY <1>1 DEF TypeOK
    <3>2. globalFd[Cli] # CFd => sock[Cli][globalFd[Cli]].state = "CLOSED"
      BY <3>1 DEF Connection, Quiet
    <3>3. globalFd[Cli] = CFd => sock[Cli][globalFd[Cli]].state = CState /\ CState # "LISTEN"
      BY <3>1, View, PhaseCases, Sizes DEF Connection, InPhase
    <3> QED
      BY <3>2, <3>3
  <2> QED
    BY <1>2, <2>1, NoneFollows DEF ReceiveSYN, Ignored
<1>3. CASE ReceiveSYNACK(Srv, Cli)
  <2> DEFINE open == [s EXCEPT !.state = "ESTABLISHED", !.pendingSeq = U8(pkt.seq + 1),
                               !.reSend = FALSE]
             t == AfterWrite(open)
  <2>1. Arrives(Srv, Cli, "SYN")
    BY <1>3 DEF ReceiveSYNACK
  <2>2. CState \in {"SYN_SENT", "ESTABLISHED"}
    BY <2>1, HeadDown
  <2>3. CFd \in Fd /\ CFd # NullFd /\ s \in Socket /\ s.state = CState
    BY <2>2, View
  <2>4. sock' = [sock EXCEPT ![Cli][CFd] = t]
    BY <1>3, <2>3 DEF ReceiveSYNACK, CFd
  <2> HIDE DEF s, pkt
  <2>5. open.state = "ESTABLISHED" /\ DOMAIN open = DOMAIN s
    BY <2>3 DEF Socket
  <2>6. t.state = "ESTABLISHED"
    <3>1. U8(pkt.seq + 1) \in Byte /\ "ESTABLISHED" \in State
      <4>1. pkt \in Packet
        BY <1>1, <2>1, ArrivesIs DEF pkt, Arrives
      <4>2. pkt.seq + 1 \in Int
        BY <4>1 DEF Packet, Byte
      <4> QED
        BY <4>2, ByteType DEF State
    <3>2. open \in Socket
      BY <2>3, <3>1, SocketChange
    <3> HIDE DEF open
    <3> QED
      BY <2>5, <3>2, WriteType
  <2>7. InDiagram("SYN_SENT", "ESTABLISHED") /\ InDiagram("ESTABLISHED", "ESTABLISHED")
    BY DEF InDiagram, Diagram
  <2> HIDE DEF t
  <2>8. InDiagram(s.state, t.state)
    BY <2>2, <2>3, <2>6, <2>7
  <2> QED
    BY <1>1, <2>3, <2>4, <2>8, OneFollows DEF s
<1>4. CASE AckOfFINorData(Srv, Cli)
  <2> DEFINE t == IF s.state = "ESTABLISHED" THEN AfterUpdate(s, pkt)
                  ELSE IF AcksFin(s, pkt)
                       THEN [s EXCEPT !.state = "FIN_WAIT_2", !.reSend = FALSE]
                       ELSE s
  <2>1. /\ Arrives(Srv, Cli, "ACK")
        /\ sock[Cli][Lookup(Cli, Srv)].state \in {"FIN_WAIT_1", "ESTABLISHED"}
    BY <1>4 DEF AckOfFINorData
  <2>2. CState \in {"FIN_WAIT_1", "ESTABLISHED"}
    BY <2>1, Found, View, PhaseCases DEF Connection, InPhase
  <2>3. CFd \in Fd /\ CFd = Lookup(Cli, Srv) /\ s \in Socket /\ s.state = CState
    BY <2>2, View
  <2>4. sock' = [sock EXCEPT ![Cli][CFd] = t]
    BY <1>4, <2>3 DEF AckOfFINorData
  <2>5. pkt \in Packet
    BY <1>1, <1>4, <2>1, ArrivesIs DEF AckOfFINorData, Arrives
  <2> HIDE DEF s, pkt
  <2>6. CASE s.state = "ESTABLISHED"
    <3>1. t.state = "ESTABLISHED"
      BY <2>3, <2>5, <2>6, UpdateType
    <3> QED
      BY <1>1, <2>3, <2>4, <2>6, <3>1, OneFollows DEF s, InDiagram
  <2>7. CASE s.state = "FIN_WAIT_1"
    <3>1. t.state \in {"FIN_WAIT_1", "FIN_WAIT_2"}
      BY <2>3, <2>7 DEF Socket
    <3>2. InDiagram("FIN_WAIT_1", "FIN_WAIT_1") /\ InDiagram("FIN_WAIT_1", "FIN_WAIT_2")
      BY DEF InDiagram, Diagram
    <3> HIDE DEF t
    <3>3. InDiagram(s.state, t.state)
      BY <2>7, <3>1, <3>2
    <3> QED
      BY <1>1, <2>3, <2>4, <3>3, OneFollows DEF s
  <2> QED
    BY <2>2, <2>3, <2>6, <2>7
<1>5. CASE FinOfServer(Srv, Cli)
  <2> DEFINE t == [s EXCEPT !.state = "TIME_WAIT"]
  <2>1. sock[Cli][Lookup(Cli, Srv)].state \in {"FIN_WAIT_2", "TIME_WAIT"}
    BY <1>5 DEF FinOfServer
  <2>2. CState \in {"FIN_WAIT_2", "TIME_WAIT"}
    BY <2>1, Found, View, PhaseCases DEF Connection, InPhase
  <2>3. CFd \in Fd /\ CFd = Lookup(Cli, Srv) /\ s \in Socket /\ s.state = CState
    BY <2>2, View
  <2>4. UNCHANGED sock \/ sock' = [sock EXCEPT ![Cli][CFd].state = "TIME_WAIT"]
    BY <1>5, <2>3 DEF FinOfServer, Ignored
  <2>5. UNCHANGED sock \/ sock' = [sock EXCEPT ![Cli][CFd] = t]
    BY <1>1, <2>3, <2>4
  <2> HIDE DEF s
  <2>6. t.state = "TIME_WAIT"
    BY <2>3 DEF Socket
  <2>7. InDiagram("FIN_WAIT_2", "TIME_WAIT") /\ InDiagram("TIME_WAIT", "TIME_WAIT")
    BY DEF InDiagram, Diagram
  <2> HIDE DEF t
  <2>8. InDiagram(s.state, t.state)
    BY <2>2, <2>3, <2>6, <2>7
  <2> QED
    BY <1>1, <2>3, <2>5, <2>8, NoneFollows, OneFollows DEF s
<1>6. /\ ~AckOfSYN(Srv, Cli) /\ ~AckOfLastFIN(Srv, Cli) /\ ~FinOfClient(Srv, Cli)
      /\ ~FinAgain(Srv, Cli) /\ ~QueueDATA(Srv, Cli)
  BY StepAckOfSYN, StepAckOfLastFIN, StepFinOfClient, StepFinAgain, StepQueueDATA
<1>7. CASE AckIgnored(Srv, Cli) \/ FinIgnored(Srv, Cli)
  BY <1>7, NoneFollows DEF AckIgnored, FinIgnored, Ignored
<1> QED
  BY <1>2, <1>3, <1>4, <1>5, <1>6, <1>7 DEF Deliver

\* Every step follows the diagram.
LEMMA NextFollows ==
  ASSUME OnePair, TypeOK, Connection, [Next]_vars
  PROVE  Follows
<1>1. ASSUME NEW n \in Node, UserCommand(n) \/ Scheduled(n) PROVE Follows
  BY <1>1, UserFollows, ScheduledFollows
<1>2. ASSUME NEW l \in Link, Deliver(l[1], l[2]) PROVE Follows
  <2>1. net[<<l[1], l[2]>>] # <<>>
    BY <1>2 DEF Deliver, ReceiveSYN, ReceiveSYNACK, AckOfSYN, AckOfFINorData, AckOfLastFIN,
                AckIgnored, FinOfClient, FinAgain, FinOfServer, FinIgnored, QueueDATA, Arrives
  <2>2. \/ l[1] = Cli /\ l[2] = Srv
        \/ l[1] = Srv /\ l[2] = Cli
        \/ l[1] = l[2] /\ l[1] \in Node
    BY TheNodes
  <2>3. ~(l[1] = l[2] /\ l[1] \in Node)
    BY <2>1 DEF Connection, InFlight
  <2>4. Deliver(Cli, Srv) \/ Deliver(Srv, Cli)
    BY <1>2, <2>2, <2>3
  <2> QED
    BY <2>4, UpFollows, DownFollows
<1>3. ASSUME NEW l \in Link, Lose(l) PROVE Follows
  BY <1>3, NoneFollows DEF Lose
<1>4. CASE UNCHANGED vars
  BY <1>4, NoneFollows DEF vars
<1> QED
  BY <1>1, <1>2, <1>3, <1>4 DEF Next

\* A socket that closes does not come back, and a listener stays one.
LEMMA FollowsIsEnough ==
  ASSUME TypeOK, Follows
  PROVE  /\ \A n \in Node, fd \in Fd :
              ClosingRank(sock[n][fd].state) \in 1 .. 3
              => ClosingRank(sock'[n][fd].state) >= ClosingRank(sock[n][fd].state)
         /\ \A n \in Node : sock[n][globalFd[n]].state = "LISTEN"
                            => sock'[n][globalFd[n]].state = "LISTEN"
<1>1. /\ ClosingRank("FIN_WAIT_1") = 1 /\ ClosingRank("FIN_WAIT_2") = 2
      /\ ClosingRank("LAST_ACK") = 2 /\ ClosingRank("TIME_WAIT") = 3
      /\ ClosingRank("CLOSED") = 4 /\ ClosingRank("LISTEN") = 0
      /\ ClosingRank("SYN_SENT") = 0 /\ ClosingRank("SYN_RCVD") = 0
      /\ ClosingRank("ESTABLISHED") = 0
  BY DEF ClosingRank
<1>2. ASSUME NEW old \in State, NEW new, InDiagram(old, new)
      PROVE  /\ ClosingRank(old) \in 1 .. 3 => ClosingRank(new) >= ClosingRank(old)
             /\ old = "LISTEN" => new = "LISTEN"
  <2>1. \/ old = new
        \/ old \in {"CLOSED", "SYN_SENT", "SYN_RCVD", "ESTABLISHED"}
        \/ old = "FIN_WAIT_1" /\ new = "FIN_WAIT_2"
        \/ old = "FIN_WAIT_2" /\ new = "TIME_WAIT"
        \/ old = "TIME_WAIT" /\ new = "CLOSED"
        \/ old = "LAST_ACK" /\ new = "CLOSED"
    BY <1>2 DEF InDiagram, Diagram
  <2>2. ClosingRank(old) \in Int
    BY <1>1 DEF State
  <2>3. old = "LISTEN" => new = "LISTEN"
    BY <2>1
  <2>4. CASE old = new
    BY <2>2, <2>3, <2>4
  <2>5. CASE old \in {"CLOSED", "SYN_SENT", "SYN_RCVD", "ESTABLISHED"}
    BY <1>1, <2>3, <2>5
  <2>6. CASE /\ old # new
             /\ old \notin {"CLOSED", "SYN_SENT", "SYN_RCVD", "ESTABLISHED"}
    BY <1>1, <2>1, <2>3, <2>6
  <2> QED
    BY <2>4, <2>5, <2>6
<1>3. \A n \in Node, fd \in Fd : sock[n][fd].state \in State
  BY DEF TypeOK, Socket
<1>4. \A n \in Node : globalFd[n] \in Fd
  BY DEF TypeOK
<1> QED
  BY <1>2, <1>3, <1>4 DEF Follows

\* A list whose elements are all different is as long as they are many.
LEMMA Counted ==
  ASSUME NEW q \in Seq(Fd), Unique(q)
  PROVE  Len(q) = Cardinality(Listed(q))
<1>1. Len(q) \in Nat /\ \A i \in 1 .. Len(q) : q[i] \in Listed(q)
  BY DEF Listed
<1> DEFINE f == [i \in 1 .. Len(q) |-> q[i]]
<1>2. f \in Bijection(1 .. Len(q), Listed(q))
  <2>1. f \in [1 .. Len(q) -> Listed(q)]
    BY <1>1
  <2>2. \A x \in Listed(q) : \E i \in 1 .. Len(q) : f[i] = x
    BY DEF Listed
  <2>3. \A i, j \in 1 .. Len(q) : f[i] = f[j] => i = j
    BY DEF Unique
  <2> HIDE DEF f
  <2> QED
    BY <2>1, <2>2, <2>3 DEF Bijection, Injection, Surjection, IsInjective
<1>3. ExistsBijection(1 .. Len(q), Listed(q))
  BY <1>2 DEF ExistsBijection
<1> QED
  BY <1>1, <1>3, FS_CountingElements

\* Every descriptor is accounted for.
LEMMA ConnectionFd ==
  ASSUME OnePair, TypeOK, Connection
  PROVE  FdAccounting
<1>1. \A n \in Node : DOMAIN fdQueue[n] = 1 .. Len(fdQueue[n]) /\ fdQueue[n] \in Seq(Fd)
  BY DEF TypeOK
<1>2. \A n \in Node : Free(n) = Listed(fdQueue[n])
  BY <1>1 DEF Free, Listed
<1>3. /\ Cli \in Node /\ Srv \in Node /\ Cli # Srv /\ Node = {Cli, Srv}
      /\ socketTable[Cli][Cli] = NullFd /\ socketTable[Srv][Srv] = NullFd
      /\ CFd \in Fd \cup {NullFd} /\ SFd \in Fd \cup {NullFd}
  BY TheNodes, View DEF Connection, Ends
<1>4. Owned(Cli) = {CFd} \ {NullFd} /\ Owned(Srv) = {SFd} \ {NullFd}
  BY <1>3 DEF Owned, CFd, SFd
<1>5. /\ Free(Cli) = Fd \ {CFd}
      /\ Free(Srv) = {fd \in Fd : fd # SFd /\ sock[Srv][fd].state # "LISTEN"}
  BY <1>2, <1>3 DEF Connection, Descriptors
<1>6. /\ Listening(Cli) = {} /\ SFd \notin Listening(Srv)
  <2>1. CFd # NullFd => CFd \in Fd /\ sock[Cli][CFd].state = CState
    BY View
  <2>2. SFd # NullFd => SFd \in Fd /\ sock[Srv][SFd].state = SState
    BY View
  <2>3. CState # "LISTEN" /\ SState # "LISTEN"
    BY PhaseCases DEF Connection, InPhase
  <2>4. \A fd \in Fd : fd # CFd => sock[Cli][fd].state = "CLOSED"
    BY DEF Connection, Quiet
  <2>5. \A fd \in Fd : fd # NullFd
    BY Sizes
  <2> QED
    BY <2>1, <2>2, <2>3, <2>4, <2>5 DEF Listening
<1>7. ASSUME NEW n \in Node PROVE Len(fdQueue[n]) = Cardinality(Free(n))
  BY <1>1, <1>2, Counted DEF Connection, Descriptors
<1>8. ASSUME NEW n \in Node, NEW p \in Node, NEW q \in Node,
             socketTable[n][p] = socketTable[n][q]
      PROVE  p = q \/ socketTable[n][p] = NullFd
  <2>1. p = n => socketTable[n][p] = NullFd
    BY DEF Connection, Ends
  <2>2. q = n => socketTable[n][q] = NullFd
    BY DEF Connection, Ends
  <2>3. p # n /\ q # n => p = q
    BY <1>3
  <2> QED
    BY <1>8, <2>1, <2>2, <2>3
<1>9. /\ Free(Cli) \cap Owned(Cli) = {} /\ Free(Srv) \cap Owned(Srv) = {}
      /\ Free(Cli) \cup Owned(Cli) \cup Listening(Cli) = Fd
      /\ Free(Srv) \cup Owned(Srv) \cup Listening(Srv) = Fd
      /\ Listening(Cli) \cap (Free(Cli) \cup Owned(Cli)) = {}
      /\ Listening(Srv) \cap (Free(Srv) \cup Owned(Srv)) = {}
  BY <1>3, <1>4, <1>5, <1>6, Sizes DEF Listening
<1>10. \A n \in Node : \A fd \in Free(n) : sock[n][fd].state = "CLOSED" /\ ~sock[n][fd].inUse
  <2>1. \A fd \in Free(Cli) : sock[Cli][fd].state = "CLOSED" /\ ~sock[Cli][fd].inUse
    BY <1>5 DEF Connection, Quiet
  <2>2. \A fd \in Free(Srv) : sock[Srv][fd].state = "CLOSED" /\ ~sock[Srv][fd].inUse
    BY <1>5 DEF Connection, Quiet
  <2> QED
    BY <1>3, <2>1, <2>2
<1> QED
  BY <1>3, <1>7, <1>8, <1>9, <1>10 DEF FdAccounting

\* There is one client and one server.
LEMMA ThePair ==
  ASSUME OnePair
  PROVE  /\ \A c \in Client : c = Cli
         /\ \A s \in Servers : s = Srv
BY TheNodes DEF Client

\* The application and the transport agree, and the ends close in order.
LEMMA ConnectionUsers ==
  ASSUME OnePair, TypeOK, Connection
  PROVE  UsersMatchSockets /\ TeardownOrder
<1>1. /\ Has(Srv, Cli) <=> SFd # NullFd
      /\ Has(Cli, Srv) <=> CFd # NullFd
      /\ Has(Srv, Cli) => Of(Srv, Cli).state = SState
      /\ Has(Cli, Srv) => Of(Cli, Srv).state = CState
  BY DEF Has, Of, SFd, CFd, SState, CState
<1>2. UsersMatchSockets
  <2>1. /\ users[Srv][Cli].accept => Has(Srv, Cli) /\ users[Srv][Cli].fd = socketTable[Srv][Cli]
        /\ Has(Srv, Cli) => (users[Srv][Cli].accept
                             <=> Of(Srv, Cli).state \in {"ESTABLISHED", "LAST_ACK"})
    BY <1>1 DEF Connection, App, SFd
  <2> QED
    BY <2>1, ThePair DEF UsersMatchSockets
<1>3. TeardownOrder
  <2>1. Has(Cli, Srv) =>
          /\ Has(Srv, Cli) /\ Of(Srv, Cli).state = "LAST_ACK"
             => Of(Cli, Srv).state \in {"FIN_WAIT_1", "FIN_WAIT_2", "TIME_WAIT"}
          /\ Of(Cli, Srv).state \in {"FIN_WAIT_2", "TIME_WAIT"}
             => ~Has(Srv, Cli) \/ Of(Srv, Cli).state = "LAST_ACK"
    BY <1>1, View, PhaseCases DEF Connection, InPhase
  <2> QED
    BY <2>1, ThePair DEF TeardownOrder
<1> QED
  BY <1>2, <1>3

\* What waits for an answer is in the queue, and the timer runs.
LEMMA ConnectionArmed ==
  ASSUME OnePair, TypeOK, Connection
  PROVE  RetransmissionArmed
<1>1. ASSUME NEW fd \in Fd, sock[Cli][fd].reSend
      PROVE  /\ reSendTimer[Cli]
             /\ \E i \in DOMAIN reSendQueue[Cli] : reSendQueue[Cli][i].fd = fd
  <2>1. fd = CFd /\ CFd # NullFd
    BY <1>1, Sizes DEF Connection, Quiet
  <2>2. reSendQueue[Cli] # <<>> /\ reSendTimer[Cli]
    BY <1>1, <2>1 DEF Connection, CliQueue
  <2>3. PICK e \in CliEntries(CFd, CState) : reSendQueue[Cli] = <<e>>
    BY <2>2 DEF Connection, CliQueue, AtMostOne
  <2>4. e.fd = fd
    BY <2>1, <2>3 DEF CliEntries
  <2> QED
    BY <2>2, <2>3, <2>4
<1>2. ASSUME NEW fd \in Fd, sock[Srv][fd].reSend
      PROVE  /\ reSendTimer[Srv]
             /\ \E i \in DOMAIN reSendQueue[Srv] : reSendQueue[Srv][i].fd = fd
  <2>1. fd = SFd /\ SFd # NullFd
    BY <1>2, Sizes DEF Connection, Quiet
  <2>2. reSendQueue[Srv] # <<>> /\ reSendTimer[Srv]
    BY <1>2, <2>1 DEF Connection, SrvQueue
  <2>3. PICK e \in SrvEntries(SFd, SState) : reSendQueue[Srv] = <<e>>
    BY <2>2 DEF Connection, SrvQueue, AtMostOne
  <2>4. e.fd = fd
    BY <2>1, <2>3 DEF SrvEntries
  <2> QED
    BY <2>2, <2>3, <2>4
<1> QED
  BY <1>1, <1>2, TheNodes DEF RetransmissionArmed

\* A timer that runs has work.
LEMMA ConnectionWork ==
  ASSUME OnePair, TypeOK, Connection
  PROVE  TimersHaveWork
<1>1. Cli \in Node /\ Srv \in Node /\ (\A n \in Node : n = Cli \/ n = Srv)
  BY TheNodes
<1>2. \A n \in Node : reSendTimer[n] => reSendQueue[n] # <<>>
  BY <1>1 DEF Connection, CliQueue, SrvQueue
<1>3. \A n \in Node : closeTimer[n] \/ closePosted[n] => closeQueue[n] # <<>>
  BY <1>1 DEF Connection, Closing
<1>4. \A n \in Node : receivePosted[n] => receiveQueue[n] # <<>>
  BY <1>1 DEF Connection, Data
<1>5. dataTimer[Srv] <=> Cardinality({fd \in Fd : sock[Srv][fd].isResend}) = 1
  <2>1. {fd \in Fd : sock[Srv][fd].isResend} = {}
    BY DEF Connection, Quiet
  <2>2. ~dataTimer[Srv]
    BY DEF Connection, Data
  <2> QED
    BY <2>1, <2>2, FS_EmptySet
<1>6. dataTimer[Cli] <=> Cardinality({fd \in Fd : sock[Cli][fd].isResend}) = 1
  <2>1. CASE dataTimer[Cli]
    <3>1. CFd # NullFd /\ CFd \in Fd /\ sock[Cli][CFd].isResend
      BY <2>1, View DEF Connection, Data
    <3>2. {fd \in Fd : sock[Cli][fd].isResend} = {CFd}
      BY <3>1 DEF Connection, Quiet
    <3> QED
      BY <2>1, <3>2, FS_Singleton
  <2>2. CASE ~dataTimer[Cli]
    <3>1. \A fd \in Fd : ~sock[Cli][fd].isResend
      BY <2>2, Sizes DEF Connection, Quiet, Data
    <3>2. {fd \in Fd : sock[Cli][fd].isResend} = {}
      BY <3>1
    <3> QED
      BY <2>2, <3>2, FS_EmptySet
  <2> QED
    BY <2>1, <2>2
<1>7. \A n \in Node : dataTimer[n] <=> Cardinality({fd \in Fd : sock[n][fd].isResend}) = 1
  BY <1>1, <1>5, <1>6
<1> QED
  BY <1>2, <1>3, <1>4, <1>7 DEF TimersHaveWork

-----------------------------------------------------------------------------
(* Theorems for one client and one server                                  *)

\* The invariant of a connection.
LEMMA Invariant == OnePair => (Spec => [](TypeOK /\ Connection))
<1> SUFFICES ASSUME OnePair PROVE Spec => [](TypeOK /\ Connection)
  OBVIOUS
<1>1. Init => Connection
  BY StepInit
<1>2. TypeOK /\ Connection /\ [Next]_vars => Connection'
  BY StepNext
<1>3. Spec => [](TypeOK /\ Connected)
  BY TypeCorrect
<1> QED
  BY <1>1, <1>2, <1>3, PTL DEF Spec

\* No descriptor is leaked, handed out twice or given back twice.
THEOREM FdsAccounted == OnePair => (Spec => []FdAccounting)
<1> SUFFICES ASSUME OnePair PROVE Spec => []FdAccounting
  OBVIOUS
<1>1. TypeOK /\ Connection => FdAccounting
  BY ConnectionFd
<1> QED
  BY <1>1, Invariant, PTL

\* The application of the server knows the peer it is connected to.
THEOREM UsersMatch == OnePair => (Spec => []UsersMatchSockets)
<1> SUFFICES ASSUME OnePair PROVE Spec => []UsersMatchSockets
  OBVIOUS
<1>1. TypeOK /\ Connection => UsersMatchSockets
  BY ConnectionUsers
<1> QED
  BY <1>1, Invariant, PTL

\* The server closes after the client asked, and the client after the server did.
THEOREM TeardownInOrder == OnePair => (Spec => []TeardownOrder)
<1> SUFFICES ASSUME OnePair PROVE Spec => []TeardownOrder
  OBVIOUS
<1>1. TypeOK /\ Connection => TeardownOrder
  BY ConnectionUsers
<1> QED
  BY <1>1, Invariant, PTL

\* A SYN or FIN that waits for its answer is in ReSendQueue, and the timer runs.
THEOREM AlwaysArmed == OnePair => (Spec => []RetransmissionArmed)
<1> SUFFICES ASSUME OnePair PROVE Spec => []RetransmissionArmed
  OBVIOUS
<1>1. TypeOK /\ Connection => RetransmissionArmed
  BY ConnectionArmed
<1> QED
  BY <1>1, Invariant, PTL

\* No timer or task takes the front of an empty list.
THEOREM TimersWork == OnePair => (Spec => []TimersHaveWork)
<1> SUFFICES ASSUME OnePair PROVE Spec => []TimersHaveWork
  OBVIOUS
<1>1. TypeOK /\ Connection => TimersHaveWork
  BY ConnectionWork
<1> QED
  BY <1>1, Invariant, PTL

\* No packet brings a socket that closes back to an earlier state.
THEOREM ClosingHolds == OnePair => (Spec => CloseNeverUndone)
<1> SUFFICES ASSUME OnePair PROVE Spec => CloseNeverUndone
  OBVIOUS
<1> DEFINE Onward == \A n \in Node, fd \in Fd :
                       ClosingRank(sock[n][fd].state) \in 1 .. 3
                       => ClosingRank(sock'[n][fd].state) >= ClosingRank(sock[n][fd].state)
<1>1. TypeOK /\ Connection /\ [Next]_vars => [Onward]_vars
  BY NextFollows, FollowsIsEnough
<1> HIDE DEF Onward
<1>2. Spec => [][Onward]_vars
  BY <1>1, Invariant, PTL DEF Spec
<1> QED
  BY <1>2 DEF Onward, CloseNeverUndone

\* No connection takes the listener's socket.
THEOREM ListenerHolds == OnePair => (Spec => ListenerStays)
<1> SUFFICES ASSUME OnePair PROVE Spec => ListenerStays
  OBVIOUS
<1> DEFINE Stays == \A n \in Node : sock[n][globalFd[n]].state = "LISTEN"
                                    => sock'[n][globalFd[n]].state = "LISTEN"
<1>1. TypeOK /\ Connection /\ [Next]_vars => [Stays]_vars
  BY NextFollows, FollowsIsEnough
<1> HIDE DEF Stays
<1>2. Spec => [][Stays]_vars
  BY <1>1, Invariant, PTL DEF Spec
<1> QED
  BY <1>2 DEF Stays, ListenerStays

-----------------------------------------------------------------------------
(* The numbers of one client and one server                                *)

\* The two sockets of the connection.
CSock == sock[Cli][CFd]
SSock == sock[Srv][SFd]

\* The client has written its line, and it is not acknowledged.
Hello == CState = "ESTABLISHED" /\ CSock.remain # 0

\* The descriptor the server uses for the client, now or the next time, and
\* the number of the last segment it took there.
Used == IF SFd # NullFd THEN SFd ELSE PopBack(fdQueue[Srv])
TakenUpTo == sock[Srv][Used].ISN

\* Sockets that were not used count from 0 and have nothing to send.
Spares ==
  /\ \A fd \in Fd : fd # Used => sock[Srv][fd].ISN = 0
  /\ \/ \E fd \in Fd : sock[Srv][fd].state = "LISTEN"
     \/ SFd = NullFd /\ \A fd \in Fd : sock[Srv][fd].ISN = 0
  /\ \A fd \in Fd : fd # CFd => sock[Cli][fd].remain = 0

\* The server waits for the line, or it took it.
Waits == /\ SSock.ISN = CSock.pendingSeq
         /\ SSock.nextExpected = CSock.ISN + 1
Took == /\ SSock.ISN = CSock.pendingSeq + 1
        /\ SSock.nextExpected = (CSock.lastSent + 1) % 128

\* The counters of the two sockets.
Counters ==
  /\ CState = "SYN_SENT" =>
       CSock.remain = 0 /\ CSock.ISN \in RandSeq /\ CSock.lastAck = CSock.ISN
  /\ CState \in {"FIN_WAIT_1", "FIN_WAIT_2", "TIME_WAIT"} => CSock.remain = 0
  /\ SState = "SYN_RCVD" => SSock.nextExpected = CSock.ISN + 1
  /\ Hello =>
       /\ CSock.ISN \in RandSeq /\ CSock.lastAck = CSock.ISN /\ CSock.lastSent \in Pos
       /\ SState = "SYN_RCVD" => CSock.pendingSeq = U8(SSock.ISN + 1)
       /\ SState = "ESTABLISHED" => Waits \/ Took
  /\ CState = "ESTABLISHED" /\ ~Hello =>
       /\ SState = "ESTABLISHED"
       /\ SSock.ISN = CSock.pendingSeq /\ CSock.lastAck = CSock.lastSent

\* A segment that the server has taken already, or the line.
Sound(p) ==
  \/ p.ack <= TakenUpTo
  \/ /\ Hello
     /\ p.ack = CSock.pendingSeq + 1 /\ p.seq = CSock.lastSent

\* What may be on its way to the server, and what it has queued.
UpGood(p) ==
  /\ p.flag = "SYN" /\ CState \in {"SYN_SENT", "ESTABLISHED"} => p.seq = CSock.ISN
  /\ p.flag = "DATA" => Sound(p)
UpNumbers ==
  /\ \A p \in Listed(Up) : UpGood(p)
  /\ \A r \in Listed(receiveQueue[Srv]) : Sound(r.pkt)

\* The acknowledgement of the line, and what the server answers before it.
OfHello(p) ==
  \/ p.ack = CSock.ISN + 1
  \/ /\ SState = "ESTABLISHED" /\ SSock.ISN = CSock.pendingSeq + 1
     /\ p.seq = SSock.ISN /\ p.ack = (CSock.lastSent + 1) % 128

\* What may be on its way to the client.
DownGood(p) ==
  /\ SState = "SYN_RCVD" => p.flag = "SYN" /\ p.seq = SSock.ISN
  /\ p.flag = "SYN" /\ CState = "ESTABLISHED"
       => Hello /\ U8(p.seq + 1) = CSock.pendingSeq
  /\ p.flag = "ACK" /\ Hello => OfHello(p)
DownNumbers ==
  /\ \A p \in Listed(Down) : DownGood(p)
  /\ SynsFirst(Down)

\* The SYN that will be sent again.
EntryNumbers ==
  /\ \A e \in Listed(reSendQueue[Cli]) : CState = "SYN_SENT" => e.pkt.seq = CSock.ISN
  /\ \A e \in Listed(reSendQueue[Srv]) : SState = "SYN_RCVD" => e.pkt.seq = SSock.ISN

Numbers == Spares /\ Counters /\ UpNumbers /\ DownNumbers /\ EntryNumbers

\* What a sequence holds after it lost its head or got longer.
LEMMA ListedTail ==
  ASSUME NEW S, NEW q \in Seq(S), q # <<>>
  PROVE  Head(q) \in Listed(q) /\ Listed(Tail(q)) \subseteq Listed(q) /\ Listed(q) \subseteq S
<1>1. /\ Len(q) \in Nat /\ Len(q) >= 1 /\ Head(q) = q[1]
      /\ Len(Tail(q)) = Len(q) - 1
      /\ \A i \in 1 .. Len(q) - 1 : Tail(q)[i] = q[i + 1]
  BY HeadTail
<1>2. Head(q) \in Listed(q)
  BY <1>1 DEF Listed
<1>3. ASSUME NEW i \in 1 .. Len(Tail(q)) PROVE Tail(q)[i] \in Listed(q)
  <2>1. i + 1 \in 1 .. Len(q) /\ Tail(q)[i] = q[i + 1]
    BY <1>1
  <2> QED
    BY <2>1 DEF Listed
<1>4. Listed(q) \subseteq S
  BY ElementOfSeq DEF Listed
<1>5. Listed(Tail(q)) \subseteq Listed(q)
  BY <1>3 DEF Listed
<1> QED
  BY <1>2, <1>4, <1>5

\* A link that got packets holds no others.
LEMMA ListedLonger ==
  ASSUME NEW S, NEW q \in Seq(S), NEW r \in Seq(S)
  PROVE  Listed(Longer(q, r)) \subseteq Listed(q) \cup Listed(r)
<1> DEFINE t == Longer(q, r)
<1>1. /\ Len(t) \in Nat /\ Len(q) \in Nat
      /\ \A i \in 1 .. Len(t) :
           /\ i <= Len(q) => i \in 1 .. Len(q) /\ t[i] = q[i]
           /\ i > Len(q) => i - Len(q) \in 1 .. Len(r) /\ t[i] = r[i - Len(q)]
  BY LongerIs
<1> HIDE DEF t
<1>2. ASSUME NEW i \in 1 .. Len(t) PROVE t[i] \in Listed(q) \cup Listed(r)
  <2>1. i <= Len(q) \/ i > Len(q)
    BY <1>1
  <2> QED
    BY <1>1, <2>1 DEF Listed
<1>3. Listed(t) \subseteq Listed(q) \cup Listed(r)
  BY <1>2 DEF Listed
<1> QED
  BY <1>3 DEF t

\* What a short sequence holds.
LEMMA ListedFew ==
  /\ Listed(<<>>) = {}
  /\ \A a : Listed(<<a>>) = {a}
  /\ \A a, b : Listed(<<a, b>>) = {a, b}
<1>1. Listed(<<>>) = {}
  BY DEF Listed
<1>2. ASSUME NEW a PROVE Listed(<<a>>) = {a}
  <2>1. Len(<<a>>) = 1 /\ <<a>>[1] = a /\ \A i : i \in 1 .. 1 <=> i = 1
    OBVIOUS
  <2> QED
    BY <2>1 DEF Listed
<1>3. ASSUME NEW a, NEW b PROVE Listed(<<a, b>>) = {a, b}
  <2>1. Len(<<a, b>>) = 2 /\ <<a, b>>[1] = a /\ <<a, b>>[2] = b
        /\ \A i : i \in 1 .. 2 <=> i = 1 \/ i = 2
    OBVIOUS
  <2> QED
    BY <2>1 DEF Listed
<1> QED
  BY <1>1, <1>2, <1>3

\* A list that was pushed to holds one more at most.
LEMMA ListedPushBack ==
  ASSUME NEW S, NEW q \in Seq(S), NEW cap, NEW x
  PROVE  Listed(PushBack(q, cap, x)) \subseteq Listed(q) \cup {x}
<1> DEFINE t == Append(q, x)
<1>1. /\ Len(q) \in Nat /\ Len(t) = Len(q) + 1 /\ t[Len(q) + 1] = x
      /\ \A i \in 1 .. Len(q) : t[i] = q[i]
  OBVIOUS
<1> HIDE DEF t
<1>2. ASSUME NEW i \in 1 .. Len(t) PROVE t[i] \in Listed(q) \cup {x}
  <2>1. i \in 1 .. Len(q) \/ i = Len(q) + 1
    BY <1>1
  <2> QED
    BY <1>1, <2>1 DEF Listed
<1>3. Listed(t) \subseteq Listed(q) \cup {x}
  BY <1>2 DEF Listed
<1> QED
  BY <1>3 DEF t, PushBack

\* What a step leaves on the links, and what it puts on them.
LEMMA LinksAfter ==
  ASSUME OnePair, TypeOK, Connection, NEW pkts \in Seq(Packet)
  PROVE  /\ Up \in Seq(Packet) /\ Down \in Seq(Packet)
         /\ net' = Consumed(<<Cli, Srv>>) /\ Up # <<>>
              => Up' = Tail(Up) /\ Down' = Down
         /\ net' = Consumed(<<Srv, Cli>>) /\ Down # <<>>
              => Up' = Up /\ Down' = Tail(Down)
         /\ net' = Send(Consumed(<<Cli, Srv>>), Srv, Cli, pkts) /\ Up # <<>>
              => Up' = Tail(Up) /\ Down' = Longer(Down, pkts)
         /\ net' = Send(Consumed(<<Srv, Cli>>), Cli, Srv, pkts) /\ Down # <<>>
              => Up' = Longer(Up, pkts) /\ Down' = Tail(Down)
         /\ net' = Send(net, Cli, Srv, pkts) => Up' = Longer(Up, pkts) /\ Down' = Down
         /\ net' = Send(net, Srv, Cli, pkts) => Up' = Up /\ Down' = Longer(Down, pkts)
<1>1. /\ Cli \in Node /\ Srv \in Node /\ Cli # Srv
      /\ <<Cli, Srv>> \in Link /\ <<Srv, Cli>> \in Link
      /\ \A n \in Node : net[<<n, n>>] = <<>>
  BY TheNodes DEF Connection, InFlight
<1>2. Up \in Seq(Packet) /\ Down \in Seq(Packet)
  BY <1>1 DEF TypeOK, Up, Down
<1>3. /\ net' = Consumed(<<Cli, Srv>>) /\ Up # <<>>
           => Up' = Tail(Up) /\ Down' = Down
      /\ net' = Send(Consumed(<<Cli, Srv>>), Srv, Cli, pkts) /\ Up # <<>>
           => Up' = Tail(Up) /\ Down' = Longer(Down, pkts)
      /\ net' = Send(net, Cli, Srv, pkts) => Up' = Longer(Up, pkts) /\ Down' = Down
  BY <1>1, NetAfter DEF Up, Down
<1>4. /\ net' = Consumed(<<Srv, Cli>>) /\ Down # <<>>
           => Up' = Up /\ Down' = Tail(Down)
      /\ net' = Send(Consumed(<<Srv, Cli>>), Cli, Srv, pkts) /\ Down # <<>>
           => Up' = Longer(Up, pkts) /\ Down' = Tail(Down)
      /\ net' = Send(net, Srv, Cli, pkts) => Up' = Up /\ Down' = Longer(Down, pkts)
  BY <1>1, NetAfter DEF Up, Down
<1> QED
  BY <1>2, <1>3, <1>4

\* What is left on a link was on it.
LEMMA ListsAfter ==
  ASSUME OnePair, TypeOK, Connection, NEW pkts \in Seq(Packet)
  PROVE  /\ Up # <<>> => Head(Up) \in Listed(Up) /\ Listed(Tail(Up)) \subseteq Listed(Up)
         /\ Down # <<>> => Head(Down) \in Listed(Down) /\ Listed(Tail(Down)) \subseteq Listed(Down)
         /\ Listed(Longer(Up, pkts)) \subseteq Listed(Up) \cup Listed(pkts)
         /\ Listed(Longer(Down, pkts)) \subseteq Listed(Down) \cup Listed(pkts)
         /\ \A p \in Listed(Up) : p \in UpPackets(CState, SState) /\ p \in Packet
         /\ \A p \in Listed(Down) : p \in DownPackets(CState, SState) /\ p \in Packet
<1>1. Up \in Seq(Packet) /\ Down \in Seq(Packet)
  BY LinksAfter
<1>2. /\ Up \in Seq(UpPackets(CState, SState)) /\ Down \in Seq(DownPackets(CState, SState))
  BY DEF Connection, InFlight
<1>3. ASSUME NEW S, NEW q \in Seq(S) PROVE Listed(q) \subseteq S
  BY ElementOfSeq DEF Listed
<1>4. /\ Listed(Up) \subseteq UpPackets(CState, SState) /\ Listed(Up) \subseteq Packet
      /\ Listed(Down) \subseteq DownPackets(CState, SState) /\ Listed(Down) \subseteq Packet
  BY <1>1, <1>2, <1>3
<1>5. Up # <<>> => Head(Up) \in Listed(Up) /\ Listed(Tail(Up)) \subseteq Listed(Up)
  BY <1>1, ListedTail
<1>6. Down # <<>> => Head(Down) \in Listed(Down) /\ Listed(Tail(Down)) \subseteq Listed(Down)
  BY <1>1, ListedTail
<1> QED
  BY <1>1, <1>4, <1>5, <1>6, ListedLonger

-----------------------------------------------------------------------------
(* Steps that leave the sockets alone                                      *)

\* Sockets that stay, and packets that are good.
LEMMA NumbersKept ==
  ASSUME Connection, Numbers, UNCHANGED <<sock, fdVars>>,
         \A p \in Listed(Up') : p \in Listed(Up) \/ UpGood(p),
         \A p \in Listed(Down') : p \in Listed(Down) \/ DownGood(p),
         SynsFirst(Down'),
         \A r \in Listed(receiveQueue'[Srv]) : r \in Listed(receiveQueue[Srv]) \/ Sound(r.pkt),
         Listed(reSendQueue'[Cli]) \subseteq Listed(reSendQueue[Cli]),
         Listed(reSendQueue'[Srv]) \subseteq Listed(reSendQueue[Srv])
  PROVE  Numbers'
<1>1. /\ CFd' = CFd /\ SFd' = SFd /\ CState' = CState /\ SState' = SState
      /\ UNCHANGED <<sock, fdQueue>>
  BY SameSockets DEF fdVars
<1>2. CSock' = CSock /\ SSock' = SSock
  BY <1>1 DEF CSock, SSock
<1>3. Used' = Used
  BY <1>1 DEF Used
<1>4. TakenUpTo' = TakenUpTo
  BY <1>1, <1>3 DEF TakenUpTo
<1>5. Spares'
  BY <1>1, <1>3 DEF Numbers, Spares
<1>6. Hello' = Hello
  BY <1>1, <1>2 DEF Hello
<1>7. Counters'
  BY <1>1, <1>2, <1>6 DEF Numbers, Counters, Waits, Took
<1>8. \A p : Sound(p)' <=> Sound(p)
  BY <1>2, <1>4, <1>6 DEF Sound
<1>9. \A p : (UpGood(p)' <=> UpGood(p)) /\ (DownGood(p)' <=> DownGood(p))
  BY <1>1, <1>2, <1>6, <1>8 DEF UpGood, DownGood, OfHello
<1>10. UpNumbers'
  BY <1>8, <1>9 DEF Numbers, UpNumbers
<1>11. DownNumbers'
  BY <1>9 DEF Numbers, DownNumbers, SynsFirst
<1>12. EntryNumbers'
  BY <1>1, <1>2 DEF Numbers, EntryNumbers
<1> QED
  BY <1>5, <1>7, <1>10, <1>11, <1>12 DEF Numbers

\* The SYN+ACK of the server come first.
LEMMA SynsOfDown ==
  ASSUME OnePair, TypeOK, Connection, Numbers
  PROVE  /\ SynsFirst(Down)
         /\ Down # <<>> => /\ SynsFirst(Tail(Down))
                           /\ Head(Down).flag # "SYN"
                                => \A p \in Listed(Tail(Down)) : p.flag # "SYN"
         /\ \A pkts \in Seq(Packet) :
              \/ \A p \in Listed(pkts) : p.flag # "SYN"
              \/ SState = "SYN_RCVD" /\ \A p \in Listed(pkts) : p.flag = "SYN"
              => SynsFirst(Longer(Down, pkts))
<1>1. Down \in Seq(Packet) /\ SynsFirst(Down)
  <2>1. <<>> \in Seq(Packet)
    OBVIOUS
  <2> QED
    BY <2>1, LinksAfter DEF Numbers, DownNumbers
<1>2. ASSUME Down # <<>>
      PROVE  /\ SynsFirst(Tail(Down))
             /\ Head(Down).flag # "SYN" => \A p \in Listed(Tail(Down)) : p.flag # "SYN"
  BY <1>1, <1>2, SynsTail DEF Listed
<1>3. ASSUME NEW pkts \in Seq(Packet), \A p \in Listed(pkts) : p.flag # "SYN"
      PROVE  SynsFirst(Longer(Down, pkts))
  BY <1>1, <1>3, SynsStayFirst DEF Listed
<1>4. ASSUME NEW pkts \in Seq(Packet), SState = "SYN_RCVD",
             \A p \in Listed(pkts) : p.flag = "SYN"
      PROVE  SynsFirst(Longer(Down, pkts))
  <2>1. \A i \in 1 .. Len(Down) : Down[i].flag = "SYN"
    BY <1>4 DEF Numbers, DownNumbers, DownGood, Listed
  <2>2. \A i \in 1 .. Len(pkts) : pkts[i].flag = "SYN"
    BY <1>4 DEF Listed
  <2> QED
    BY <1>1, <2>1, <2>2, SynsStayFirst
<1> QED
  BY <1>1, <1>2, <1>3, <1>4

\* A packet that is taken without effect.
LEMMA NumbersIgnored ==
  ASSUME OnePair, TypeOK, Connection, Numbers,
         UNCHANGED <<sock, fdVars, reSendVars, receiveVars>>
  PROVE  /\ Up # <<>> /\ net' = Consumed(<<Cli, Srv>>) => Numbers'
         /\ Down # <<>> /\ net' = Consumed(<<Srv, Cli>>) => Numbers'
<1>1. UNCHANGED <<reSendQueue, receiveQueue>> /\ <<>> \in Seq(Packet)
  BY DEF reSendVars, receiveVars
<1>2. ASSUME Up # <<>>, net' = Consumed(<<Cli, Srv>>) PROVE Numbers'
  <2>1. Up' = Tail(Up) /\ Down' = Down /\ Listed(Tail(Up)) \subseteq Listed(Up)
    BY <1>1, <1>2, LinksAfter, ListsAfter
  <2> QED
    BY <1>1, <2>1, SynsOfDown, NumbersKept
<1>3. ASSUME Down # <<>>, net' = Consumed(<<Srv, Cli>>) PROVE Numbers'
  <2>1. Up' = Up /\ Down' = Tail(Down) /\ Listed(Tail(Down)) \subseteq Listed(Down)
    BY <1>1, <1>3, LinksAfter, ListsAfter
  <2> QED
    BY <1>1, <1>3, <2>1, SynsOfDown, NumbersKept
<1> QED
  BY <1>2, <1>3

\* A handler that returns at once keeps the numbers.
LEMMA IgnoredNumbers ==
  ASSUME OnePair, TypeOK, Connection, Numbers
  PROVE  /\ Up # <<>> /\ Ignored(Cli, Srv) => Numbers'
         /\ Down # <<>> /\ Ignored(Srv, Cli) => Numbers'
<1>1. ASSUME Up # <<>>, Ignored(Cli, Srv) PROVE Numbers'
  <2>1. net' = Consumed(<<Cli, Srv>>) /\ UNCHANGED <<sock, fdVars, reSendVars, receiveVars>>
    BY <1>1 DEF Ignored
  <2> QED
    BY <1>1, <2>1, NumbersIgnored
<1>2. ASSUME Down # <<>>, Ignored(Srv, Cli) PROVE Numbers'
  <2>1. net' = Consumed(<<Srv, Cli>>) /\ UNCHANGED <<sock, fdVars, reSendVars, receiveVars>>
    BY <1>2 DEF Ignored
  <2> QED
    BY <1>2, <2>1, NumbersIgnored
<1> QED
  BY <1>1, <1>2

\* The radio loses a packet.
LEMMA NumbersLose ==
  ASSUME OnePair, TypeOK, Connection, Numbers, NEW l \in Link, Lose(l)
  PROVE  Numbers'
<1>1. /\ net[l] # <<>> /\ net' = Consumed(l)
      /\ UNCHANGED <<sock, fdVars, reSendVars, receiveVars>>
  BY DEF Lose
<1>2. l = <<Cli, Srv>> \/ l = <<Srv, Cli>> \/ \E n \in Node : l = <<n, n>>
  BY TheNodes
<1>3. ~ \E n \in Node : l = <<n, n>>
  BY <1>1 DEF Connection, InFlight
<1> QED
  BY <1>1, <1>2, <1>3, NumbersIgnored DEF Up, Down

\* What a handler ignores in the state of the socket.
LEMMA NumbersAckFinIgnored ==
  ASSUME OnePair, TypeOK, Connection, Numbers
  PROVE  /\ AckIgnored(Cli, Srv) \/ FinIgnored(Cli, Srv) => Numbers'
         /\ AckIgnored(Srv, Cli) \/ FinIgnored(Srv, Cli) => Numbers'
<1>1. ASSUME AckIgnored(Cli, Srv) \/ FinIgnored(Cli, Srv) PROVE Numbers'
  <2>1. Ignored(Cli, Srv) /\ Up # <<>>
    BY <1>1 DEF AckIgnored, FinIgnored, Arrives, Up
  <2> QED
    BY <2>1, IgnoredNumbers
<1>2. ASSUME AckIgnored(Srv, Cli) \/ FinIgnored(Srv, Cli) PROVE Numbers'
  <2>1. Ignored(Srv, Cli) /\ Down # <<>>
    BY <1>2 DEF AckIgnored, FinIgnored, Arrives, Down
  <2> QED
    BY <2>1, IgnoredNumbers
<1> QED
  BY <1>1, <1>2

\* CloseTimer.
LEMMA NumbersCloseTimerFired ==
  ASSUME OnePair, TypeOK, Connection, Numbers, NEW n \in Node, CloseTimerFired(n)
  PROVE  Numbers'
<1>1. UNCHANGED <<sock, fdVars, net, reSendQueue, receiveQueue>>
  BY DEF CloseTimerFired, reSendVars, receiveVars
<1>2. Up' = Up /\ Down' = Down
  BY <1>1 DEF Up, Down
<1> QED
  BY <1>1, <1>2, SynsOfDown, NumbersKept

\* A segment that is queued.
LEMMA NumbersQueueDATA ==
  ASSUME OnePair, TypeOK, Connection, Numbers, QueueDATA(Cli, Srv)
  PROVE  Numbers'
<1> DEFINE r == [from |-> Cli, pkt |-> Head(Up)]
<1>1. /\ Arrives(Cli, Srv, "DATA") /\ net' = Consumed(<<Cli, Srv>>)
      /\ receiveQueue' = [receiveQueue EXCEPT ![Srv] = PushBack(receiveQueue[Srv], ReceiveCap, r)]
      /\ UNCHANGED <<sock, fdVars, reSendVars>>
  BY DEF QueueDATA, Up
<1>2. Up # <<>> /\ Head(Up).flag = "DATA" /\ Cli \in Node /\ Srv \in Node
  BY <1>1, HeadUp, TheNodes
<1>3. /\ Up' = Tail(Up) /\ Down' = Down /\ Head(Up) \in Listed(Up)
      /\ Listed(Tail(Up)) \subseteq Listed(Up)
  <2>1. <<>> \in Seq(Packet)
    OBVIOUS
  <2> QED
    BY <1>1, <1>2, <2>1, LinksAfter, ListsAfter
<1>4. Sound(Head(Up))
  BY <1>2, <1>3 DEF Numbers, UpNumbers, UpGood
<1>5. r.pkt = Head(Up)
  OBVIOUS
<1> HIDE DEF r
<1>6. Listed(receiveQueue'[Srv]) \subseteq Listed(receiveQueue[Srv]) \cup {r}
  <2>1. /\ receiveQueue \in [Node -> Seq(Received)]
        /\ receiveQueue'[Srv] = PushBack(receiveQueue[Srv], ReceiveCap, r)
    BY <1>1, <1>2 DEF TypeOK
  <2>2. receiveQueue[Srv] \in Seq(Received)
    BY <1>2, <2>1
  <2> QED
    BY <2>1, <2>2, ListedPushBack
<1>7. UNCHANGED reSendQueue
  BY <1>1 DEF reSendVars
<1> QED
  BY <1>1, <1>3, <1>4, <1>5, <1>6, <1>7, SynsOfDown, NumbersKept

\* The repeated FIN of the client is answered.
LEMMA NumbersFinAgain ==
  ASSUME OnePair, TypeOK, Connection, Numbers, FinAgain(Cli, Srv)
  PROVE  Numbers'
<1> DEFINE pkt == Head(net[<<Cli, Srv>>])
           s == sock[Srv][Lookup(Srv, Cli)]
           reply == Pkt("ACK", s.ISN, pkt.seq + 1)
<1>1. /\ Arrives(Cli, Srv, "FIN") /\ s.state = "LAST_ACK"
      /\ Ignored(Cli, Srv) \/ Answered(Cli, Srv, <<reply>>)
  BY DEF FinAgain
<1>2. Up # <<>> /\ CState \in {"FIN_WAIT_1", "FIN_WAIT_2", "TIME_WAIT", "none"}
  BY <1>1, HeadUp
<1>3. SState = "LAST_ACK"
  BY <1>1, Found, View DEF Connection, InPhase, State
<1>4. CASE Answered(Cli, Srv, <<reply>>)
  <2>1. reply \in Packet /\ reply.flag = "ACK"
    <3>1. Srv \in Node /\ Cli \in Node
      BY TheNodes
    <3>2. Lookup(Srv, Cli) \in Fd
      BY <1>2, <3>1, ArrivesIs DEF Up
    <3> QED
      BY <1>2, <3>1, <3>2, ReplyTo DEF Up
  <2>2. /\ net' = Send(Consumed(<<Cli, Srv>>), Srv, Cli, <<reply>>)
        /\ UNCHANGED <<sock, fdVars, reSendQueue, receiveQueue>>
    BY <1>4 DEF Answered, reSendVars, receiveVars
  <2> HIDE DEF reply, s, pkt
  <2>3. <<reply>> \in Seq(Packet) /\ Listed(<<reply>>) = {reply}
    BY <2>1, ListedFew
  <2>4. Up' = Tail(Up) /\ Down' = Longer(Down, <<reply>>)
    BY <1>2, <2>2, <2>3, LinksAfter
  <2>5. /\ Listed(Tail(Up)) \subseteq Listed(Up)
        /\ Listed(Longer(Down, <<reply>>)) \subseteq Listed(Down) \cup {reply}
    BY <1>2, <2>3, ListsAfter
  <2>6. SynsFirst(Down')
    BY <2>1, <2>3, <2>4, SynsOfDown
  <2>7. DownGood(reply)
    BY <1>2, <1>3, <2>1 DEF DownGood, Hello
  <2> QED
    BY <2>2, <2>4, <2>5, <2>6, <2>7, NumbersKept
<1> QED
  BY <1>1, <1>2, <1>4, IgnoredNumbers

\* ReSendTimer of the client.
LEMMA NumbersReSendByCli ==
  ASSUME OnePair, TypeOK, Connection, Numbers, ReSendTimerFired(Cli)
  PROVE  Numbers'
<1>1. Cli \in Node /\ Srv \in Node /\ Cli # Srv /\ CliQueue /\ Quiet
  BY TheNodes DEF Connection
<1>2. PICK entry \in CliEntries(CFd, CState) : reSendQueue[Cli] = <<entry>>
  BY <1>1 DEF ReSendTimerFired, CliQueue, AtMostOne
<1>3. /\ entry \in ReSendEntry /\ entry.dest = Srv /\ entry.fd \in Fd
      /\ entry.pkt \in Packet
      /\ CFd # NullFd => entry.fd = CFd
      /\ CState \in {"SYN_SENT", "ESTABLISHED"} => entry.pkt.flag = "SYN"
      /\ CState \in {"FIN_WAIT_1", "FIN_WAIT_2", "TIME_WAIT"} => entry.pkt.flag = "FIN"
  BY <1>2 DEF CliEntries, ReSendEntry
<1>4. /\ reSendQueue'[Srv] = reSendQueue[Srv]
      /\ \/ /\ sock[Cli][entry.fd].reSend
            /\ reSendQueue'[Cli] = reSendQueue[Cli]
            /\ net' = Send(net, Cli, Srv, <<entry.pkt>>)
         \/ /\ reSendQueue'[Cli] = <<>>
            /\ UNCHANGED net
      /\ UNCHANGED <<sock, fdVars, receiveQueue>>
  <2>1. /\ reSendQueue'[Srv] = reSendQueue[Srv]
        /\ \/ /\ sock[Cli][entry.fd].reSend
              /\ reSendQueue'[Cli] = <<entry>>
              /\ net' = Send(net, Cli, Srv, <<entry.pkt>>)
           \/ /\ reSendQueue'[Cli] = <<>>
              /\ UNCHANGED net
        /\ UNCHANGED <<sock, fdVars, receiveVars>>
    BY <1>1, <1>2, <1>3, OneEntry
  <2> QED
    BY <1>2, <2>1 DEF receiveVars
<1>5. Listed(reSendQueue'[Cli]) \subseteq Listed(reSendQueue[Cli])
  BY <1>4, ListedFew
<1>6. CASE /\ sock[Cli][entry.fd].reSend
           /\ net' = Send(net, Cli, Srv, <<entry.pkt>>)
  <2>1. CState \in {"SYN_SENT", "FIN_WAIT_1"}
    <3>1. CFd # NullFd
      BY <1>1, <1>3, <1>6, Sizes DEF Quiet
    <3> QED
      BY <1>1, <1>3, <1>6, <3>1 DEF CliQueue
  <2>2. <<entry.pkt>> \in Seq(Packet) /\ Listed(<<entry.pkt>>) = {entry.pkt}
    BY <1>3, ListedFew
  <2>3. Up' = Longer(Up, <<entry.pkt>>) /\ Down' = Down
    BY <1>6, <2>2, LinksAfter
  <2>4. Listed(Up') \subseteq Listed(Up) \cup {entry.pkt}
    BY <2>2, <2>3, ListsAfter
  <2>5. entry \in Listed(reSendQueue[Cli])
    BY <1>2, ListedFew
  <2>6. UpGood(entry.pkt)
    BY <1>3, <2>1, <2>5 DEF Numbers, EntryNumbers, UpGood
  <2> QED
    BY <1>4, <1>5, <2>3, <2>4, <2>6, SynsOfDown, NumbersKept
<1>7. CASE UNCHANGED net
  <2>1. Up' = Up /\ Down' = Down
    BY <1>7 DEF Up, Down
  <2> QED
    BY <1>4, <1>5, <2>1, SynsOfDown, NumbersKept
<1> QED
  BY <1>4, <1>6, <1>7

\* And of the server.
LEMMA NumbersReSendBySrv ==
  ASSUME OnePair, TypeOK, Connection, Numbers, ReSendTimerFired(Srv)
  PROVE  Numbers'
<1>1. Cli \in Node /\ Srv \in Node /\ Cli # Srv /\ SrvQueue /\ Quiet
      /\ <<CState, SState>> \in Phases
  BY TheNodes DEF Connection, InPhase
<1>2. PICK entry \in SrvEntries(SFd, SState) : reSendQueue[Srv] = <<entry>>
  BY <1>1 DEF ReSendTimerFired, SrvQueue, AtMostOne
<1>3. /\ entry \in ReSendEntry /\ entry.dest = Cli /\ entry.fd \in Fd
      /\ entry.pkt \in Packet
      /\ SFd # NullFd => entry.fd = SFd
      /\ SState = "SYN_RCVD" => entry.pkt.flag = "SYN"
      /\ SState = "LAST_ACK" => entry.pkt.flag = "FIN"
  BY <1>2 DEF SrvEntries, ReSendEntry
<1>4. /\ reSendQueue'[Cli] = reSendQueue[Cli]
      /\ \/ /\ sock[Srv][entry.fd].reSend
            /\ reSendQueue'[Srv] = reSendQueue[Srv]
            /\ net' = Send(net, Srv, Cli, <<entry.pkt>>)
         \/ /\ reSendQueue'[Srv] = <<>>
            /\ UNCHANGED net
      /\ UNCHANGED <<sock, fdVars, receiveQueue>>
  <2>1. /\ reSendQueue'[Cli] = reSendQueue[Cli]
        /\ \/ /\ sock[Srv][entry.fd].reSend
              /\ reSendQueue'[Srv] = <<entry>>
              /\ net' = Send(net, Srv, Cli, <<entry.pkt>>)
           \/ /\ reSendQueue'[Srv] = <<>>
              /\ UNCHANGED net
        /\ UNCHANGED <<sock, fdVars, receiveVars>>
    BY <1>1, <1>2, <1>3, OneEntry
  <2> QED
    BY <1>2, <2>1 DEF receiveVars
<1>5. Listed(reSendQueue'[Srv]) \subseteq Listed(reSendQueue[Srv])
  BY <1>4, ListedFew
<1>6. CASE /\ sock[Srv][entry.fd].reSend
           /\ net' = Send(net, Srv, Cli, <<entry.pkt>>)
  <2>1. SState \in {"SYN_RCVD", "LAST_ACK"}
    <3>1. SFd # NullFd
      BY <1>1, <1>3, <1>6, Sizes DEF Quiet
    <3> QED
      BY <1>1, <1>3, <1>6, <3>1 DEF SrvQueue
  <2>2. <<entry.pkt>> \in Seq(Packet) /\ Listed(<<entry.pkt>>) = {entry.pkt}
    BY <1>3, ListedFew
  <2>3. Up' = Up /\ Down' = Longer(Down, <<entry.pkt>>)
    BY <1>6, <2>2, LinksAfter
  <2>4. Listed(Down') \subseteq Listed(Down) \cup {entry.pkt}
    BY <2>2, <2>3, ListsAfter
  <2>5. entry \in Listed(reSendQueue[Srv])
    BY <1>2, ListedFew
  <2>6. DownGood(entry.pkt)
    <3>1. CASE SState = "SYN_RCVD"
      <4>1. entry.pkt.seq = SSock.ISN /\ entry.pkt.flag = "SYN"
        BY <1>3, <2>5, <3>1 DEF Numbers, EntryNumbers
      <4>2. CState = "ESTABLISHED" => Hello /\ CSock.pendingSeq = U8(SSock.ISN + 1)
        BY <3>1 DEF Numbers, Counters
      <4> QED
        BY <4>1, <4>2 DEF DownGood
    <3>2. CASE SState = "LAST_ACK"
      BY <1>3, <3>2 DEF DownGood
    <3> QED
      BY <2>1, <3>1, <3>2
  <2>7. SynsFirst(Down')
    BY <1>3, <2>1, <2>2, <2>3, SynsOfDown
  <2> QED
    BY <1>4, <1>5, <2>3, <2>4, <2>6, <2>7, NumbersKept
<1>7. CASE UNCHANGED net
  <2>1. Up' = Up /\ Down' = Down
    BY <1>7 DEF Up, Down
  <2> QED
    BY <1>4, <1>5, <2>1, SynsOfDown, NumbersKept
<1> QED
  BY <1>4, <1>6, <1>7

-----------------------------------------------------------------------------
(* Steps that change a socket                                              *)

\* The client's socket changes, and its counters.
LEMMA ClientNumbers ==
  ASSUME OnePair, TypeOK, Connection, Spares, CFd # NullFd, NEW t \in Socket,
         sock' = Put(Cli, CFd, t), UNCHANGED fdVars,
         t.dest = sock[Cli][CFd].dest
  PROVE  /\ CSock' = t /\ SSock' = SSock /\ CState' = t.state /\ SState' = SState
         /\ TakenUpTo' = TakenUpTo
         /\ Hello' <=> t.state = "ESTABLISHED" /\ t.remain # 0
         /\ Spares'
<1>1. /\ CFd' = CFd /\ SFd' = SFd /\ CState' = t.state /\ SState' = SState
      /\ sock'[Cli][CFd] = t /\ sock'[Srv] = sock[Srv]
  BY ClientMoves
<1>2. CSock' = t /\ SSock' = SSock
  BY <1>1 DEF CSock, SSock
<1>3. Used' = Used
  BY <1>1 DEF Used, fdVars
<1>4. TakenUpTo' = TakenUpTo
  BY <1>1, <1>3 DEF TakenUpTo
<1>5. Hello' <=> t.state = "ESTABLISHED" /\ t.remain # 0
  BY <1>1, <1>2 DEF Hello
<1>6. \A fd \in Fd : fd # CFd => sock'[Cli][fd] = sock[Cli][fd]
  <2>1. Cli \in Node /\ CFd \in Fd /\ sock \in [Node -> [Fd -> Socket]]
    BY TheNodes, View DEF TypeOK
  <2> QED
    BY <2>1 DEF Put
<1>7. Spares'
  BY <1>1, <1>3, <1>6 DEF Spares
<1> QED
  BY <1>1, <1>2, <1>4, <1>5, <1>7

\* The server's socket changes, and its counters.
LEMMA ServerNumbers ==
  ASSUME OnePair, TypeOK, Connection, Spares, SFd # NullFd, NEW t \in Socket,
         sock' = Put(Srv, SFd, t), UNCHANGED fdVars,
         t.dest = sock[Srv][SFd].dest, t.isResend = sock[Srv][SFd].isResend
  PROVE  /\ CSock' = CSock /\ SSock' = t /\ CState' = CState /\ SState' = t.state
         /\ TakenUpTo = SSock.ISN /\ TakenUpTo' = t.ISN
         /\ Hello' <=> Hello
         /\ Spares'
<1>1. /\ CFd' = CFd /\ SFd' = SFd /\ CState' = CState /\ SState' = t.state
      /\ sock'[Srv][SFd] = t /\ sock'[Cli] = sock[Cli]
  BY ServerMoves
<1>2. CSock' = CSock /\ SSock' = t
  BY <1>1 DEF CSock, SSock
<1>3. Used' = SFd /\ Used = SFd
  BY <1>1 DEF Used
<1>4. TakenUpTo = SSock.ISN /\ TakenUpTo' = t.ISN
  BY <1>1, <1>3 DEF TakenUpTo, SSock
<1>5. Hello' <=> Hello
  BY <1>1, <1>2 DEF Hello
<1>6. \A fd \in Fd : fd # SFd => sock'[Srv][fd] = sock[Srv][fd]
  <2>1. Srv \in Node /\ SFd \in Fd /\ sock \in [Node -> [Fd -> Socket]]
    BY TheNodes, View DEF TypeOK
  <2> QED
    BY <2>1 DEF Put
<1>7. sock[Srv][SFd].state # "LISTEN"
  BY View, PhaseCases DEF Connection, InPhase
<1>8. Spares'
  <2>1. \A fd \in Fd : fd # SFd => sock'[Srv][fd].ISN = 0
    BY <1>3, <1>6 DEF Spares
  <2>2. \E fd \in Fd : sock'[Srv][fd].state = "LISTEN"
    BY <1>6, <1>7 DEF Spares
  <2>3. \A fd \in Fd : fd # CFd => sock'[Cli][fd].remain = 0
    BY <1>1 DEF Spares
  <2> QED
    BY <1>1, <1>3, <2>1, <2>2, <2>3 DEF Spares
<1> QED
  BY <1>1, <1>2, <1>4, <1>5, <1>8

\* The types of the numbers.
LEMMA NumberTypes ==
  ASSUME OnePair, TypeOK
  PROVE  /\ CFd # NullFd => CSock \in Socket
         /\ SFd # NullFd => SSock \in Socket /\ TakenUpTo = SSock.ISN
         /\ \A s \in Socket : /\ s.ISN \in 0 .. 255 /\ s.pendingSeq \in 0 .. 255
                              /\ s.nextExpected \in 0 .. 255 /\ s.lastSent \in 0 .. 255
                              /\ s.lastAck \in 0 .. 255 /\ s.remain \in 0 .. 255
         /\ \A p \in Packet : p.seq \in 0 .. 255 /\ p.ack \in 0 .. 255
         /\ \A x \in 0 .. 254 : U8(x) = x /\ U8(x + 1) = x + 1
         /\ U8(256) = 0
         /\ \A r \in RandSeq : r \in 0 .. 125
<1>1. CFd # NullFd => CSock \in Socket
  BY View DEF CSock
<1>2. SFd # NullFd => SSock \in Socket /\ TakenUpTo = SSock.ISN
  BY View DEF SSock, TakenUpTo, Used
<1>3. \A s \in Socket : /\ s.ISN \in 0 .. 255 /\ s.pendingSeq \in 0 .. 255
                        /\ s.nextExpected \in 0 .. 255 /\ s.lastSent \in 0 .. 255
                        /\ s.lastAck \in 0 .. 255 /\ s.remain \in 0 .. 255
  BY DEF Socket, Byte
<1>4. \A p \in Packet : p.seq \in 0 .. 255 /\ p.ack \in 0 .. 255
  BY DEF Packet, Byte
<1>5. /\ \A x \in 0 .. 254 : U8(x) = x /\ U8(x + 1) = x + 1
      /\ U8(256) = 0
  BY DEF U8
<1>6. \A r \in RandSeq : r \in 0 .. 125
  BY SeqAssumption
<1> QED
  BY <1>1, <1>2, <1>3, <1>4, <1>5, <1>6

\* A step that changes none of the numbers.
LEMMA NumbersSame ==
  ASSUME Numbers, CState' = CState, SState' = SState, Spares', TakenUpTo' = TakenUpTo,
         CSock'.ISN = CSock.ISN, CSock'.pendingSeq = CSock.pendingSeq,
         CSock'.lastSent = CSock.lastSent, CSock'.lastAck = CSock.lastAck,
         CSock'.remain = 0 <=> CSock.remain = 0,
         SSock'.ISN = SSock.ISN, SSock'.nextExpected = SSock.nextExpected,
         \A p \in Listed(Up') : p \in Listed(Up) \/ UpGood(p),
         \A p \in Listed(Down') : p \in Listed(Down) \/ DownGood(p),
         SynsFirst(Down'),
         UNCHANGED <<receiveQueue, reSendQueue>>
  PROVE  Numbers'
<1>1. Hello' = Hello
  BY DEF Hello
<1>2. Counters'
  BY <1>1 DEF Numbers, Counters, Waits, Took
<1>3. \A p : Sound(p)' <=> Sound(p)
  BY <1>1 DEF Sound
<1>4. \A p : (UpGood(p)' <=> UpGood(p)) /\ (DownGood(p)' <=> DownGood(p))
  BY <1>1, <1>3 DEF UpGood, DownGood, OfHello
<1>5. UpNumbers'
  BY <1>3, <1>4 DEF Numbers, UpNumbers
<1>6. DownNumbers'
  BY <1>4 DEF Numbers, DownNumbers, SynsFirst
<1>7. EntryNumbers'
  BY DEF Numbers, EntryNumbers
<1> QED
  BY <1>2, <1>5, <1>6, <1>7 DEF Numbers

\* ReSendDataTimer: the line is sent again, or the timer stops.
LEMMA NumbersDataTimerFired ==
  ASSUME OnePair, TypeOK, Connection, Numbers, NEW n \in Node, DataTimerFired(n)
  PROVE  Numbers'
<1>1. /\ n = Cli /\ Cli \in Node /\ Srv \in Node /\ Cli # Srv
      /\ CState = "ESTABLISHED" /\ Quiet /\ Ends
  BY TheNodes DEF DataTimerFired, Connection, Data
<1>2. CFd \in Fd /\ CFd # NullFd /\ CSock \in Socket /\ CSock = sock[Cli][CFd]
      /\ CSock.state = "ESTABLISHED" /\ CSock.dest = Srv
  BY <1>1, View DEF CSock, Ends
<1>3. /\ \/ /\ sock' = [sock EXCEPT ![Cli][CFd].isResend = FALSE]
            /\ UNCHANGED net
         \/ /\ CSock.remain # 0
            /\ net' = Send(net, Cli, Srv, <<DataPkt(CSock)>>)
            /\ UNCHANGED sock
      /\ UNCHANGED <<fdVars, reSendQueue, receiveQueue>>
  <2>1. PICK fd \in Fd :
          /\ sock[Cli][fd].isResend
          /\ IF sock[Cli][fd].remain = 0 /\ sock[Cli][fd].state = "ESTABLISHED"
             THEN /\ sock' = [sock EXCEPT ![Cli][fd].isResend = FALSE]
                  /\ UNCHANGED net
             ELSE /\ net' = Send(net, Cli, sock[Cli][fd].dest, <<DataPkt(sock[Cli][fd])>>)
                  /\ UNCHANGED sock
    BY <1>1 DEF DataTimerFired
  <2>2. fd = CFd
    BY <1>1, <2>1 DEF Quiet
  <2>3. UNCHANGED <<fdVars, reSendQueue, receiveQueue>>
    BY DEF DataTimerFired, reSendVars, receiveVars
  <2> QED
    BY <1>2, <2>1, <2>2, <2>3
<1>4. CASE sock' = [sock EXCEPT ![Cli][CFd].isResend = FALSE] /\ UNCHANGED net
  <2> DEFINE t == [CSock EXCEPT !.isResend = FALSE]
  <2>1. /\ t \in Socket /\ t.state = "ESTABLISHED" /\ t.dest = CSock.dest
        /\ t.ISN = CSock.ISN /\ t.pendingSeq = CSock.pendingSeq
        /\ t.lastSent = CSock.lastSent /\ t.lastAck = CSock.lastAck
        /\ t.remain = CSock.remain
    BY <1>2 DEF Socket
  <2>2. sock' = Put(Cli, CFd, t)
    BY <1>2, <1>4 DEF Put
  <2> HIDE DEF t
  <2>3. /\ CSock' = t /\ SSock' = SSock /\ CState' = t.state /\ SState' = SState
        /\ TakenUpTo' = TakenUpTo /\ Spares'
    BY <1>2, <1>3, <2>1, <2>2, ClientNumbers DEF Numbers
  <2>4. Up' = Up /\ Down' = Down /\ SynsFirst(Down)
    BY <1>4, SynsOfDown DEF Up, Down
  <2> QED
    BY <1>1, <1>3, <2>1, <2>3, <2>4, NumbersSame
<1>5. CASE CSock.remain # 0 /\ net' = Send(net, Cli, Srv, <<DataPkt(CSock)>>)
           /\ UNCHANGED sock
  <2> DEFINE p == DataPkt(CSock)
  <2>1. /\ p \in Packet /\ p.flag = "DATA"
        /\ p.seq = CSock.lastSent
        /\ p.ack = CSock.pendingSeq + 1 \/ p.ack = 0
    <3>1. CSock.lastSent \in 0 .. 255 /\ CSock.pendingSeq \in 0 .. 255
      BY <1>2, NumberTypes
    <3>2. p.flag = "DATA" /\ p.seq = U8(CSock.lastSent) /\ p.ack = U8(CSock.pendingSeq + 1)
      BY DEF DataPkt, Pkt
    <3>3. p \in Packet
      <4>1. CSock.lastSent \in Int /\ CSock.pendingSeq + 1 \in Int
        BY <3>1
      <4> QED
        BY <4>1, PktType DEF DataPkt
    <3> HIDE DEF p
    <3>4. U8(CSock.lastSent) = CSock.lastSent
      BY <3>1 DEF U8
    <3>5. U8(CSock.pendingSeq + 1) = CSock.pendingSeq + 1 \/ U8(CSock.pendingSeq + 1) = 0
      BY <3>1 DEF U8
    <3> QED
      BY <3>2, <3>3, <3>4, <3>5
  <2>2. net' = Send(net, Cli, Srv, <<p>>)
    BY <1>5
  <2> HIDE DEF p
  <2>3. <<p>> \in Seq(Packet) /\ Listed(<<p>>) = {p}
    BY <2>1, ListedFew
  <2>4. Up' = Longer(Up, <<p>>) /\ Down' = Down
    BY <2>2, <2>3, LinksAfter
  <2>5. Listed(Up') \subseteq Listed(Up) \cup {p}
    BY <2>3, <2>4, ListsAfter
  <2>6. TakenUpTo \in 0 .. 255
    <3>1. Used \in Fd
      BY <1>1, View, Sizes, PopBackType DEF Used, TypeOK
    <3>2. sock[Srv][Used] \in Socket
      BY <1>1, <3>1 DEF TypeOK
    <3> QED
      BY <3>2, NumberTypes DEF TakenUpTo
  <2>7. UpGood(p)
    <3>1. Hello
      BY <1>1, <1>5 DEF Hello
    <3>2. Sound(p)
      BY <2>1, <2>6, <3>1 DEF Sound
    <3> QED
      BY <2>1, <3>2 DEF UpGood
  <2> QED
    BY <1>3, <1>5, <2>4, <2>5, <2>7, SynsOfDown, NumbersKept
<1> QED
  BY <1>3, <1>4, <1>5

\* A packet of two numbers.
LEMMA PktIs ==
  ASSUME NEW a \in Byte, NEW b \in Byte, NEW flag \in {"SYN", "ACK", "FIN", "DATA"}
  PROVE  /\ Pkt(flag, a, b) \in Packet /\ Pkt(flag, a, b).flag = flag
         /\ Pkt(flag, a, b).seq = a /\ Pkt(flag, a, b).ack = b
<1>1. a \in Int /\ b \in Int /\ U8(a) = a /\ U8(b) = b
  BY DEF U8, Byte
<1>2. Pkt(flag, a, b) \in Packet
  BY <1>1, PktType
<1> QED
  BY <1>1, <1>2 DEF Pkt

\* receiveDATA: the server takes the line, once.
LEMMA NumbersReceiveDATA ==
  ASSUME OnePair, TypeOK, Connection, Numbers, NEW n \in Node, ReceiveDATA(n)
  PROVE  Numbers'
<1> DEFINE r == Head(receiveQueue[Srv])
           fd == Lookup(Srv, Cli)
           s == sock[Srv][fd]
           t == IF r.pkt.ack = s.ISN + 1
                THEN [s EXCEPT !.ISN = U8(s.ISN + 1),
                               !.nextExpected = (r.pkt.seq + 1) % 128]
                ELSE s
           ack == Pkt("ACK", t.ISN, t.nextExpected)
<1>1. /\ n = Srv /\ Cli \in Node /\ Srv \in Node /\ Cli # Srv
      /\ receiveQueue[Srv] # <<>> /\ CState = "ESTABLISHED"
  BY TheNodes DEF ReceiveDATA, Connection, Data
<1>2. /\ r \in Received /\ r.from = Cli /\ r \in Listed(receiveQueue[Srv])
      /\ Listed(Tail(receiveQueue[Srv])) \subseteq Listed(receiveQueue[Srv])
  <2>1. receiveQueue[Srv] \in Seq({x \in Received : x.from = Cli})
    BY DEF Connection, Data
  <2>2. /\ Head(receiveQueue[Srv]) \in Listed(receiveQueue[Srv])
        /\ Listed(receiveQueue[Srv]) \subseteq {x \in Received : x.from = Cli}
        /\ Listed(Tail(receiveQueue[Srv])) \subseteq Listed(receiveQueue[Srv])
    BY <1>1, <2>1, ListedTail
  <2> QED
    BY <2>2
<1>3. /\ IF s.state # "ESTABLISHED"
         THEN UNCHANGED <<sock, net>>
         ELSE /\ sock' = [sock EXCEPT ![Srv][fd] = t]
              /\ net' = Send(net, Srv, Cli, <<ack>>)
      /\ receiveQueue' = [receiveQueue EXCEPT ![Srv] = Tail(receiveQueue[Srv])]
      /\ UNCHANGED <<fdVars, reSendVars>>
  BY <1>1, <1>2 DEF ReceiveDATA
<1>4. /\ Listed(receiveQueue'[Srv]) \subseteq Listed(receiveQueue[Srv])
      /\ UNCHANGED <<fdVars, reSendQueue>>
  <2>1. receiveQueue \in [Node -> Seq(Received)]
    BY DEF TypeOK
  <2>2. receiveQueue'[Srv] = Tail(receiveQueue[Srv])
    BY <1>1, <1>3, <2>1
  <2> QED
    BY <1>2, <1>3, <2>2 DEF reSendVars
<1>5. CASE s.state # "ESTABLISHED"
  <2>1. UNCHANGED <<sock, net>>
    BY <1>3, <1>5
  <2>2. Up' = Up /\ Down' = Down
    BY <2>1 DEF Up, Down
  <2> QED
    BY <1>4, <2>1, <2>2, SynsOfDown, NumbersKept
<1>6. CASE s.state = "ESTABLISHED"
  <2>1. SState = "ESTABLISHED" /\ SFd = fd /\ SFd # NullFd /\ SFd \in Fd
    BY <1>6, Found, View
  <2>2. sock' = [sock EXCEPT ![Srv][fd] = t] /\ net' = Send(net, Srv, Cli, <<ack>>)
    BY <1>3, <1>6
  <2>3. s \in Socket /\ s = SSock /\ s = sock[Srv][SFd] /\ CSock \in Socket
    BY <1>1, <2>1, View, NumberTypes DEF SSock
  <2>4. r.pkt \in Packet /\ Sound(r.pkt)
    BY <1>2 DEF Received, Numbers, UpNumbers
  <2> HIDE DEF r, s, fd
  <2>5. /\ s.ISN \in 0 .. 255 /\ s.nextExpected \in 0 .. 255
        /\ r.pkt.seq \in 0 .. 255 /\ r.pkt.ack \in 0 .. 255
        /\ CSock.lastSent \in 0 .. 255 /\ CSock.pendingSeq \in 0 .. 255
        /\ CSock.ISN \in 0 .. 255 /\ TakenUpTo = s.ISN
    BY <2>1, <2>3, <2>4, NumberTypes
  <2>6. Hello => Waits \/ Took
    BY <2>1 DEF Numbers, Counters
  <2>7. ASSUME NEW p \in Packet, net' = Send(net, Srv, Cli, <<p>>), p.flag = "ACK"
        PROVE  /\ Up' = Up /\ Listed(Down') \subseteq Listed(Down) \cup {p}
               /\ SynsFirst(Down')
    <3>1. <<p>> \in Seq(Packet) /\ Listed(<<p>>) = {p}
      BY ListedFew
    <3>2. Up' = Up /\ Down' = Longer(Down, <<p>>)
      BY <2>7, <3>1, LinksAfter
    <3>3. Listed(Down') \subseteq Listed(Down) \cup {p}
      BY <3>1, <3>2, ListsAfter
    <3>4. SynsFirst(Down')
      BY <2>7, <3>1, <3>2, SynsOfDown
    <3> QED
      BY <3>2, <3>3, <3>4
  <2>8. CASE r.pkt.ack # s.ISN + 1
    <3>1. t = s
      BY <2>8
    <3>2. UNCHANGED sock
      <4>1. sock \in [Node -> [Fd -> Socket]] /\ sock' = [sock EXCEPT ![Srv][SFd] = s]
        BY <2>1, <2>2, <3>1 DEF TypeOK
      <4> QED
        BY <1>1, <2>1, <2>3, <4>1
    <3>3. /\ ack \in Packet /\ ack.flag = "ACK"
          /\ ack.seq = s.ISN /\ ack.ack = s.nextExpected
      <4>1. t.ISN \in Byte /\ t.nextExpected \in Byte
        BY <2>5, <3>1 DEF Byte
      <4> HIDE DEF t
      <4> QED
        BY <3>1, <4>1, PktIs
    <3> HIDE DEF ack, t
    <3>4. DownGood(ack)
      <4>1. ASSUME Hello PROVE OfHello(ack)
        BY <2>1, <2>3, <2>6, <3>3, <4>1 DEF OfHello, Waits, Took
      <4> QED
        BY <2>1, <3>3, <4>1 DEF DownGood
    <3>5. /\ Up' = Up /\ Listed(Down') \subseteq Listed(Down) \cup {ack}
          /\ SynsFirst(Down')
      BY <2>2, <2>7, <3>3
    <3> QED
      BY <1>4, <3>2, <3>4, <3>5, NumbersKept
  <2>9. CASE r.pkt.ack = s.ISN + 1
    <3>1. /\ Hello /\ s.ISN = CSock.pendingSeq
          /\ r.pkt.seq = CSock.lastSent
      <4>1. ~(r.pkt.ack <= TakenUpTo)
        BY <2>5, <2>9
      <4>2. Hello /\ r.pkt.ack = CSock.pendingSeq + 1 /\ r.pkt.seq = CSock.lastSent
        BY <2>4, <4>1 DEF Sound
      <4> HIDE DEF t, ack
      <4>3. s.ISN = CSock.pendingSeq
        <5>1. s.ISN \in Int /\ CSock.pendingSeq \in Int
          BY <2>5
        <5>2. s.ISN + 1 = CSock.pendingSeq + 1
          BY <2>9, <4>2
        <5> QED
          BY <5>1, <5>2
      <4> QED
        BY <4>2, <4>3
    <3>2. CSock.lastSent \in 0 .. 127
      BY <3>1 DEF Numbers, Counters, Pos
    <3>3. U8(s.ISN + 1) = s.ISN + 1 /\ s.ISN + 1 \in 0 .. 255
      BY <2>5, <2>9 DEF U8
    <3>4. (r.pkt.seq + 1) % 128 \in 0 .. 127
      BY <2>5
    <3>5. t = [s EXCEPT !.ISN = s.ISN + 1, !.nextExpected = (r.pkt.seq + 1) % 128]
      BY <2>9, <3>3
    <3>6. /\ t \in Socket /\ t.state = "ESTABLISHED" /\ t.dest = s.dest
          /\ t.isResend = s.isResend
          /\ t.ISN = CSock.pendingSeq + 1 /\ t.nextExpected = (CSock.lastSent + 1) % 128
      <4>1. s.ISN + 1 \in Byte /\ (r.pkt.seq + 1) % 128 \in Byte
        BY <3>3, <3>4 DEF Byte
      <4> HIDE DEF t
      <4> QED
        BY <1>6, <2>3, <3>1, <3>5, <4>1 DEF Socket
    <3>7. ack \in Packet /\ ack.flag = "ACK" /\ ack.seq = t.ISN /\ ack.ack = t.nextExpected
      <4>1. t \in Socket
        BY <3>6
      <4> HIDE DEF t
      <4>2. t.ISN \in Byte /\ t.nextExpected \in Byte
        BY <4>1 DEF Socket
      <4> QED
        BY <4>2, PktIs
    <3>8. sock' = Put(Srv, SFd, t)
      BY <2>1, <2>2 DEF Put
    <3>9. net' = Send(net, Srv, Cli, <<ack>>)
      BY <2>2
    <3> HIDE DEF t, ack
    <3>10. /\ CSock' = CSock /\ SSock' = t /\ CState' = CState /\ SState' = SState
           /\ TakenUpTo' = t.ISN /\ (Hello' <=> Hello) /\ Spares'
      BY <1>4, <2>1, <2>3, <3>6, <3>8, ServerNumbers DEF Numbers
    <3>11. /\ Up' = Up /\ Listed(Down') \subseteq Listed(Down) \cup {ack}
           /\ SynsFirst(Down')
      BY <2>7, <3>7, <3>9
    <3>12. Counters'
      <4>1. Took'
        BY <3>6, <3>10 DEF Took
      <4> QED
        BY <1>1, <2>1, <3>1, <3>10, <4>1 DEF Numbers, Counters
    <3>13. \A p \in Packet : Sound(p) => Sound(p)'
      <4>1. TakenUpTo \in 0 .. 255 /\ TakenUpTo' = TakenUpTo + 1
        BY <2>5, <3>1, <3>6, <3>10
      <4>2. \A p \in Packet : p.ack <= TakenUpTo => p.ack <= TakenUpTo'
        BY <4>1, NumberTypes
      <4> QED
        BY <3>10, <4>2 DEF Sound
    <3>14. UpNumbers'
      <4>1. \A p \in Listed(Up) : UpGood(p)'
        <5>1. <<>> \in Seq(Packet)
          OBVIOUS
        <5>2. \A p \in Listed(Up) : p \in Packet
          BY <5>1, ListsAfter
        <5> QED
          BY <3>10, <3>13, <5>2 DEF Numbers, UpNumbers, UpGood
      <4>2. \A x \in Listed(receiveQueue[Srv]) : Sound(x.pkt)'
        <5>1. \A x \in Listed(receiveQueue[Srv]) : x.pkt \in Packet
          <6>1. receiveQueue[Srv] \in Seq(Received)
            BY <1>1 DEF TypeOK
          <6>2. Listed(receiveQueue[Srv]) \subseteq Received
            BY <1>1, <6>1, ListedTail
          <6> QED
            BY <6>2 DEF Received
        <5> QED
          BY <3>13, <5>1 DEF Numbers, UpNumbers
      <4> QED
        BY <1>4, <3>11, <4>1, <4>2 DEF UpNumbers
    <3>15. DownNumbers'
      <4>1. \A p \in Listed(Down) : DownGood(p)'
        <5> SUFFICES ASSUME NEW p \in Listed(Down) PROVE DownGood(p)'
          OBVIOUS
        <5>1. DownGood(p)
          BY DEF Numbers, DownNumbers
        <5>2. SSock.ISN # CSock.pendingSeq + 1
          BY <2>3, <2>5, <3>1
        <5>3. OfHello(p) => OfHello(p)'
          BY <3>10, <5>2 DEF OfHello
        <5> QED
          BY <2>1, <3>10, <5>1, <5>3 DEF DownGood
      <4>2. \A p : p = ack => DownGood(p)'
        BY <2>1, <3>6, <3>7, <3>10 DEF DownGood, OfHello
      <4> QED
        BY <3>11, <4>1, <4>2 DEF DownNumbers, SynsFirst
    <3>16. EntryNumbers'
      BY <1>4, <2>1, <3>10 DEF Numbers, EntryNumbers
    <3> QED
      BY <3>10, <3>12, <3>14, <3>15, <3>16 DEF Numbers
  <2> QED
    BY <2>8, <2>9
<1> QED
  BY <1>5, <1>6

\* A SYN of a client that the server knows is answered as the first one was.
LEMMA NumbersSynAgain ==
  ASSUME OnePair, TypeOK, Connection, Numbers, ReceiveSYN(Cli, Srv), SFd # NullFd,
         sock[Srv][globalFd[Srv]].state = "LISTEN"
  PROVE  Numbers'
<1> DEFINE pkt == Head(net[<<Cli, Srv>>])
           s == sock[Srv][SFd]
           reply == Pkt("SYN", s.ISN, pkt.seq + 1)
           t == [s EXCEPT !.state = "SYN_RCVD", !.dest = Cli,
                          !.nextExpected = U8(pkt.seq + 1), !.reSend = TRUE]
<1>1. Cli \in Node /\ Srv \in Node /\ SFd \in Fd /\ SFd = socketTable[Srv][Cli]
  BY TheNodes, View DEF SFd
<1>2. /\ Arrives(Cli, Srv, "SYN")
      /\ sock' = [sock EXCEPT ![Srv][SFd] = t]
      /\ socketTable' = [socketTable EXCEPT ![Srv][Cli] = SFd]
      /\ fdQueue' = [fdQueue EXCEPT ![Srv] = fdQueue[Srv]]
      /\ s.reSend => UNCHANGED reSendVars
      /\ net' = Send(Consumed(<<Cli, Srv>>), Srv, Cli, <<reply>>)
      /\ UNCHANGED <<globalFd, receiveVars>>
  BY <1>1 DEF ReceiveSYN
<1>3. /\ Up # <<>> /\ Head(Up).flag = "SYN"
      /\ SState = "SYN_RCVD" /\ CState \in {"SYN_SENT", "ESTABLISHED"}
      /\ Ends /\ SrvQueue
  BY <1>2, HeadUp, View DEF Connection
<1>4. UNCHANGED fdVars
  <2>1. /\ fdQueue \in [Node -> Seq(Fd)]
        /\ socketTable \in [Node -> [Node -> Fd \cup {NullFd}]]
    BY DEF TypeOK
  <2>2. fdQueue' = fdQueue
    BY <1>2, <2>1
  <2>3. socketTable' = socketTable
    BY <1>1, <1>2, <2>1
  <2> QED
    BY <1>2, <2>2, <2>3 DEF fdVars
<1>5. UNCHANGED <<receiveQueue, reSendQueue>>
  <2>1. s.reSend
    BY <1>1, <1>3, Sizes DEF SrvQueue
  <2> QED
    BY <1>2, <2>1 DEF receiveVars, reSendVars
<1>6. s \in Socket /\ s = SSock /\ s.dest = Cli
  BY <1>1, <1>3, View, Sizes DEF SSock, Ends
<1>7. /\ reply \in Packet /\ reply.flag = "SYN" /\ reply.seq = s.ISN
  <2>1. reply \in Packet /\ reply.flag = "SYN"
    BY <1>1, <1>3, ReplyTo DEF Up
  <2>2. reply.seq = U8(s.ISN)
    BY DEF Pkt
  <2>3. s.ISN \in 0 .. 255
    BY <1>6, NumberTypes
  <2> HIDE DEF reply, s
  <2> QED
    BY <2>1, <2>2, <2>3 DEF U8
<1>8. U8(pkt.seq + 1) = s.nextExpected
  <2>1. Up \in Seq(Packet) /\ Head(Up) \in Listed(Up) /\ pkt = Head(Up)
    <3>1. <<>> \in Seq(Packet)
      OBVIOUS
    <3> QED
      BY <1>3, <3>1, LinksAfter, ListsAfter DEF Up
  <2>2. pkt.seq = CSock.ISN
    BY <1>3, <2>1 DEF Numbers, UpNumbers, UpGood
  <2>3. /\ CSock.ISN \in RandSeq /\ s.nextExpected = CSock.ISN + 1
    BY <1>3, <1>6 DEF Numbers, Counters
  <2> HIDE DEF pkt, s
  <2>4. CSock.ISN \in 0 .. 125
    BY <2>3, NumberTypes
  <2> QED
    BY <2>2, <2>3, <2>4 DEF U8
<1>9. /\ t \in Socket /\ t.state = "SYN_RCVD" /\ t.dest = s.dest
      /\ t.isResend = s.isResend
      /\ t.ISN = s.ISN /\ t.nextExpected = s.nextExpected
  <2> HIDE DEF s, pkt
  <2>1. s.nextExpected \in Byte
    BY <1>6 DEF Socket
  <2>2. "SYN_RCVD" \in State
    BY DEF State
  <2> QED
    BY <1>1, <1>6, <1>8, <2>1, <2>2 DEF Socket
<1>10. /\ CSock' = CSock /\ SSock' = t /\ CState' = CState /\ SState' = SState
       /\ TakenUpTo' = TakenUpTo /\ Spares'
  <2>1. sock' = Put(Srv, SFd, t)
    BY <1>2 DEF Put
  <2> HIDE DEF t, pkt, reply
  <2> QED
    BY <1>1, <1>3, <1>4, <1>6, <1>9, <2>1, ServerNumbers, Sizes DEF Numbers
<1> HIDE DEF t, reply, pkt, s
<1>11. <<reply>> \in Seq(Packet) /\ Listed(<<reply>>) = {reply}
  BY <1>7, ListedFew
<1>12. Up' = Tail(Up) /\ Down' = Longer(Down, <<reply>>)
  BY <1>2, <1>3, <1>11, LinksAfter
<1>13. /\ Listed(Tail(Up)) \subseteq Listed(Up)
       /\ Listed(Down') \subseteq Listed(Down) \cup {reply}
  BY <1>3, <1>11, <1>12, ListsAfter
<1>14. SynsFirst(Down')
  BY <1>3, <1>7, <1>11, <1>12, SynsOfDown
<1>15. DownGood(reply)
  <2>1. CState = "ESTABLISHED" => Hello /\ CSock.pendingSeq = U8(SSock.ISN + 1)
    BY <1>3 DEF Numbers, Counters
  <2> QED
    BY <1>6, <1>7, <2>1 DEF DownGood
<1> QED
  BY <1>5, <1>6, <1>9, <1>10, <1>12, <1>13, <1>14, <1>15, NumbersSame

\* A SYN of a client that the server does not know.
LEMMA NumbersSynFirst ==
  ASSUME OnePair, TypeOK, Connection, Numbers, ReceiveSYN(Cli, Srv), SFd = NullFd,
         sock[Srv][globalFd[Srv]].state = "LISTEN"
  PROVE  Numbers'
<1> DEFINE pkt == Head(net[<<Cli, Srv>>])
           fd == PopBack(fdQueue[Srv])
           s == sock[Srv][fd]
           reply == Pkt("SYN", s.ISN, pkt.seq + 1)
           t == [s EXCEPT !.state = "SYN_RCVD", !.dest = Cli,
                          !.nextExpected = U8(pkt.seq + 1), !.reSend = TRUE]
           entry == [fd |-> fd, dest |-> Cli, pkt |-> reply]
<1>1. /\ Cli \in Node /\ Srv \in Node /\ Cli # Srv /\ socketTable[Srv][Cli] = NullFd
      /\ fdQueue \in [Node -> Seq(Fd)] /\ sock \in [Node -> [Fd -> Socket]]
      /\ socketTable \in [Node -> [Node -> Fd \cup {NullFd}]]
  BY TheNodes DEF SFd, TypeOK
<1>2. /\ Arrives(Cli, Srv, "SYN")
      /\ sock' = [sock EXCEPT ![Srv][fd] = t]
      /\ socketTable' = [socketTable EXCEPT ![Srv][Cli] = fd]
      /\ ~s.reSend => Arm(Srv, fd, Cli, reply)
      /\ net' = Send(Consumed(<<Cli, Srv>>), Srv, Cli, <<reply>>)
      /\ UNCHANGED <<globalFd, receiveVars>>
  BY <1>1 DEF ReceiveSYN
<1>3. /\ Up # <<>> /\ Head(Up).flag = "SYN" /\ SState = "none" /\ CState = "SYN_SENT"
      /\ InFlight /\ Ends /\ SrvQueue /\ Quiet /\ Descriptors
  BY <1>2, HeadUp, View DEF Connection
<1>4. /\ fd \in Fd /\ fd # NullFd /\ s.state # "LISTEN" /\ ~s.reSend /\ s \in Socket
  <2>1. /\ fdQueue[Srv] \in Seq(Fd) /\ Unique(fdQueue[Srv])
        /\ Listed(fdQueue[Srv]) = {e \in Fd : e # SFd /\ sock[Srv][e].state # "LISTEN"}
    BY <1>1, <1>3 DEF Descriptors
  <2>2. \E e \in Fd : e # globalFd[Srv]
    <3>1. 0 \in Fd /\ 1 \in Fd
      BY Sizes DEF Fd, OnePair
    <3> QED
      BY <3>1
  <2>3. Listed(fdQueue[Srv]) # {}
    BY <1>3, <2>1, <2>2, Sizes DEF Quiet
  <2> HIDE DEF fd
  <2>4. fd \in Listed(fdQueue[Srv])
    BY <2>1, <2>3, TakeLast DEF fd
  <2>5. fd \in Fd /\ fd # SFd /\ sock[Srv][fd].state # "LISTEN" /\ fd # NullFd
    BY <2>1, <2>4, Sizes
  <2> QED
    BY <1>1, <1>3, <2>5 DEF Quiet
<1>5. Used = fd
  BY <1>1 DEF Used, SFd
<1> HIDE DEF fd
<1>6. /\ reply \in Packet /\ reply.flag = "SYN" /\ reply.seq = s.ISN
  <2>1. reply \in Packet /\ reply.flag = "SYN"
    BY <1>1, <1>3, <1>4, ReplyTo DEF Up
  <2>2. reply.seq = U8(s.ISN)
    BY DEF Pkt
  <2>3. s.ISN \in 0 .. 255
    BY <1>4, NumberTypes
  <2> HIDE DEF reply, s
  <2> QED
    BY <2>1, <2>2, <2>3 DEF U8
<1>7. U8(pkt.seq + 1) = CSock.ISN + 1
  <2>1. Head(Up) \in Listed(Up) /\ pkt = Head(Up)
    <3>1. <<>> \in Seq(Packet)
      OBVIOUS
    <3> QED
      BY <1>3, <3>1, ListsAfter DEF Up
  <2>2. pkt.seq = CSock.ISN
    BY <1>3, <2>1 DEF Numbers, UpNumbers, UpGood
  <2>3. CSock.ISN \in RandSeq
    BY <1>3 DEF Numbers, Counters
  <2> HIDE DEF pkt
  <2>4. CSock.ISN \in 0 .. 125
    BY <2>3, NumberTypes
  <2> QED
    BY <2>2, <2>4 DEF U8
<1>8. t.state = "SYN_RCVD" /\ t.ISN = s.ISN /\ t.nextExpected = CSock.ISN + 1
  <2> HIDE DEF s, pkt
  <2> QED
    BY <1>4, <1>7 DEF Socket
<1> HIDE DEF t, pkt
<1>9. /\ sock'[Cli] = sock[Cli]
      /\ \A e \in Fd : sock'[Srv][e] = IF e = fd THEN t ELSE sock[Srv][e]
  <2> HIDE DEF s
  <2> QED
    BY <1>1, <1>2, <1>4
<1>10. CFd' = CFd /\ SFd' = fd
  BY <1>1, <1>2, <1>4 DEF CFd, SFd
<1>11. /\ CState' = "SYN_SENT" /\ SState' = "SYN_RCVD"
       /\ CSock' = CSock /\ SSock' = t
  BY <1>3, <1>4, <1>8, <1>9, <1>10 DEF CState, SState, CSock, SSock
<1>12. TakenUpTo = s.ISN /\ Used' = fd /\ TakenUpTo' = s.ISN
  BY <1>4, <1>5, <1>8, <1>9, <1>10 DEF TakenUpTo, Used
<1>13. ~Hello /\ ~Hello'
  BY <1>3, <1>11 DEF Hello
<1>14. Spares'
  <2>1. globalFd[Srv] \in Fd /\ globalFd[Srv] # fd
    BY <1>1, <1>4 DEF TypeOK
  <2>2. sock'[Srv][globalFd[Srv]].state = "LISTEN"
    BY <1>9, <2>1
  <2> QED
    BY <1>5, <1>9, <1>10, <1>12, <2>1, <2>2 DEF Numbers, Spares
<1>15. Counters'
  BY <1>3, <1>8, <1>11, <1>13 DEF Numbers, Counters
<1>16. <<reply>> \in Seq(Packet) /\ Listed(<<reply>>) = {reply}
  <2> HIDE DEF reply
  <2> QED
    BY <1>6, ListedFew
<1> HIDE DEF reply, s
<1>17. Up' = Tail(Up) /\ Down' = Longer(Down, <<reply>>)
  BY <1>2, <1>3, <1>16, LinksAfter
<1>18. /\ Listed(Tail(Up)) \subseteq Listed(Up)
       /\ Listed(Down') \subseteq {reply}
  <2>1. Listed(Down) = {}
    BY <1>3, <1>16, ListsAfter, AllowedCases DEF DownPackets
  <2> QED
    BY <1>3, <1>16, <1>17, <2>1, ListsAfter
<1>19. UpNumbers'
  <2>1. \A p : Sound(p) <=> Sound(p)'
    BY <1>12, <1>13 DEF Sound
  <2>2. UNCHANGED receiveQueue
    BY <1>2 DEF receiveVars
  <2> QED
    BY <1>3, <1>11, <1>17, <1>18, <2>1, <2>2 DEF Numbers, UpNumbers, UpGood
<1>20. DownNumbers'
  <2>1. \A p : p = reply => DownGood(p)'
    BY <1>6, <1>8, <1>11 DEF DownGood, Hello
  <2>2. SynsFirst(Down')
    <3>1. \A i \in 1 .. Len(Down') : Down'[i].flag = "SYN"
      BY <1>6, <1>18 DEF Listed
    <3> QED
      BY <3>1 DEF SynsFirst
  <2> QED
    BY <1>18, <2>1, <2>2 DEF DownNumbers, SynsFirst
<1>21. EntryNumbers'
  <2>1. Arm(Srv, fd, Cli, reply) /\ reSendQueue[Srv] = <<>>
    BY <1>2, <1>3, <1>4 DEF SrvQueue
  <2>2. /\ reSendQueue'[Cli] = reSendQueue[Cli] /\ reSendQueue'[Srv] = <<entry>>
    BY <1>1, <1>4, <1>6, <2>1, ArmType
  <2>3. Listed(reSendQueue'[Srv]) = {entry} /\ entry.pkt = reply
    BY <2>2, ListedFew
  <2> HIDE DEF entry
  <2> QED
    BY <1>3, <1>6, <1>8, <1>11, <2>2, <2>3 DEF Numbers, EntryNumbers
<1> QED
  BY <1>14, <1>15, <1>19, <1>20, <1>21 DEF Numbers

\* The numbers after a SYN arrives.
LEMMA NumbersReceiveSYN ==
  ASSUME OnePair, TypeOK, Connection, Numbers
  PROVE  /\ ReceiveSYN(Cli, Srv) => Numbers'
         /\ ReceiveSYN(Srv, Cli) => Numbers'
<1>1. ASSUME ReceiveSYN(Cli, Srv) PROVE Numbers'
  <2>1. CASE sock[Srv][globalFd[Srv]].state # "LISTEN"
    <3>1. Ignored(Cli, Srv) /\ Up # <<>>
      BY <1>1, <2>1 DEF ReceiveSYN, Arrives, Up
    <3> QED
      BY <3>1, IgnoredNumbers
  <2> QED
    BY <1>1, <2>1, NumbersSynAgain, NumbersSynFirst
<1>2. ASSUME ReceiveSYN(Srv, Cli) PROVE Numbers'
  <2>1. sock[Cli][globalFd[Cli]].state # "LISTEN"
    <3>1. globalFd[Cli] \in Fd /\ Quiet /\ <<CState, SState>> \in Phases
      BY TheNodes DEF TypeOK, Connection, InPhase
    <3>2. CState # "LISTEN"
      BY <3>1, PhaseCases
    <3>3. CASE globalFd[Cli] = CFd
      BY <3>1, <3>2, <3>3, View, Sizes
    <3>4. CASE globalFd[Cli] # CFd
      BY <3>1, <3>4 DEF Quiet
    <3> QED
      BY <3>3, <3>4
  <2>2. Ignored(Srv, Cli) /\ Down # <<>>
    BY <1>2, <2>1 DEF ReceiveSYN, Arrives, Down
  <2> QED
    BY <2>2, IgnoredNumbers
<1> QED
  BY <1>1, <1>2

\* The numbers of a client that wrote its line.
LEMMA WriteNumbers ==
  ASSUME NEW s \in Socket
  PROVE  /\ AfterWrite(s).ISN = s.ISN /\ AfterWrite(s).pendingSeq = s.pendingSeq
         /\ AfterWrite(s).lastAck = s.lastAck
         /\ s.remain = 0 => /\ AfterWrite(s).remain = HelloLen
                            /\ AfterWrite(s).lastSent \in Pos
         /\ s.remain # 0 => /\ AfterWrite(s).remain = U8(s.remain + HelloLen)
                            /\ AfterWrite(s).lastSent = s.lastSent
<1> DEFINE w == (s.lastWritten + HelloLen) % 128
<1>1. w \in Pos
  BY SeqAssumption DEF Socket, Pos
<1>2. AfterWrite(s) = IF s.remain = 0
                      THEN [s EXCEPT !.lastWritten = w, !.remain = HelloLen,
                                     !.lastSent = w, !.isResend = TRUE]
                      ELSE [s EXCEPT !.lastWritten = w, !.remain = U8(s.remain + HelloLen)]
  BY DEF AfterWrite
<1> HIDE DEF w
<1>3. CASE s.remain = 0
  BY <1>1, <1>2, <1>3 DEF Socket
<1>4. CASE s.remain # 0
  BY <1>1, <1>2, <1>4 DEF Socket
<1> QED
  BY <1>3, <1>4

\* receiveSYNACK: the client writes its line, or one more.
LEMMA NumbersReceiveSYNACK ==
  ASSUME OnePair, TypeOK, Connection, Numbers, ReceiveSYNACK(Srv, Cli)
  PROVE  Numbers'
<1> DEFINE pkt == Head(net[<<Srv, Cli>>])
           s == sock[Cli][CFd]
           open == [s EXCEPT !.state = "ESTABLISHED", !.pendingSeq = U8(pkt.seq + 1),
                             !.reSend = FALSE]
           written == AfterWrite(open)
           transmits == open.remain = 0
           ack == Pkt("ACK", pkt.ack, pkt.seq + 1)
           data == DataPkt(written)
           pkts == IF transmits THEN <<ack, data>> ELSE <<ack>>
<1>1. Arrives(Srv, Cli, "SYN")
  BY DEF ReceiveSYNACK
<1>2. /\ Down # <<>> /\ pkt.flag = "SYN"
      /\ \/ CState = "SYN_SENT" /\ SState = "SYN_RCVD"
         \/ CState = "ESTABLISHED" /\ SState \in {"SYN_RCVD", "ESTABLISHED"}
  BY <1>1, HeadDown DEF Down
<1>3. CFd \in Fd /\ CFd # NullFd /\ CFd = socketTable[Cli][Srv]
      /\ Cli \in Node /\ Srv \in Node /\ Cli # Srv /\ <<>> \in Seq(Packet)
  BY <1>2, View, TheNodes DEF CFd
<1>4. /\ open.remain + HelloLen <= MaxBacklog
      /\ sock' = [sock EXCEPT ![Cli][CFd] = written]
      /\ net' = Send(Consumed(<<Srv, Cli>>), Cli, Srv, pkts)
      /\ UNCHANGED <<fdVars, reSendVars, receiveVars>>
  BY <1>3 DEF ReceiveSYNACK
<1>5. s \in Socket /\ s = CSock /\ s.state = CState
  BY <1>2, <1>3, View DEF CSock
<1>6. pkt \in Packet /\ pkt \in Listed(Down) /\ DownGood(pkt)
  <2>1. pkt = Head(Down)
    BY DEF Down
  <2>2. Head(Down) \in Listed(Down)
    BY <1>2, <1>3, ListsAfter
  <2> HIDE DEF pkt
  <2> QED
    BY <1>3, <2>1, <2>2, ListsAfter DEF Numbers, DownNumbers
<1> HIDE DEF pkt, s
<1>7. /\ open \in Socket /\ open.dest = s.dest /\ open.state = "ESTABLISHED"
      /\ open.pendingSeq = U8(pkt.seq + 1) /\ open.ISN = s.ISN
      /\ open.lastSent = s.lastSent /\ open.lastAck = s.lastAck /\ open.remain = s.remain
  <2>1. U8(pkt.seq + 1) \in Byte /\ "ESTABLISHED" \in State
    <3>1. pkt.seq + 1 \in Int
      BY <1>6, NumberTypes
    <3> QED
      BY <3>1, ByteType DEF State
  <2> QED
    BY <1>5, <2>1 DEF Socket
<1>8. ack \in Packet /\ ack.flag = "ACK"
  <2>1. pkt.ack \in Int /\ pkt.seq + 1 \in Int
    BY <1>6, NumberTypes
  <2> QED
    BY <2>1, PktType
<1> HIDE DEF open, ack
<1>9. /\ written \in Socket /\ written.dest = s.dest /\ written.state = "ESTABLISHED"
      /\ data \in Packet /\ data.flag = "DATA"
  BY <1>7, WriteType
<1>10. /\ written.ISN = s.ISN /\ written.pendingSeq = U8(pkt.seq + 1)
       /\ written.lastAck = s.lastAck
       /\ s.remain = 0 => written.remain = HelloLen /\ written.lastSent \in Pos
       /\ s.remain # 0 => /\ written.remain = U8(s.remain + HelloLen)
                          /\ written.lastSent = s.lastSent
  BY <1>7, WriteNumbers
<1>11. data.seq = U8(written.lastSent) /\ data.ack = U8(written.pendingSeq + 1)
  BY DEF DataPkt, Pkt
<1> HIDE DEF written, data
<1>12. /\ CSock' = written /\ SSock' = SSock /\ CState' = "ESTABLISHED"
       /\ SState' = SState /\ TakenUpTo' = TakenUpTo
       /\ Hello' <=> written.remain # 0
       /\ Spares'
  <2>1. sock' = Put(Cli, CFd, written) /\ UNCHANGED fdVars
    BY <1>4 DEF Put
  <2> QED
    BY <1>3, <1>9, <2>1, ClientNumbers DEF s, Numbers
<1>13. UNCHANGED <<reSendQueue, receiveQueue>>
  BY <1>4 DEF reSendVars, receiveVars
<1>14. /\ written.ISN \in 0 .. 255 /\ written.pendingSeq \in 0 .. 255
       /\ written.lastSent \in 0 .. 255 /\ s.remain \in 0 .. 255
  BY <1>5, <1>9, NumberTypes
<1>15. /\ Listed(Tail(Down)) \subseteq Listed(Down) /\ SynsFirst(Tail(Down))
  BY <1>2, <1>3, ListsAfter, SynsOfDown
<1>16. CASE CState = "SYN_SENT"
  <2>1. /\ s.remain = 0 /\ s.ISN \in RandSeq /\ s.lastAck = s.ISN /\ ~Hello
        /\ SState = "SYN_RCVD"
    BY <1>2, <1>5, <1>16 DEF Numbers, Counters, Hello
  <2>2. /\ <<ack, data>> \in Seq(Packet) /\ Listed(<<ack, data>>) = {ack, data}
    BY <1>8, <1>9, ListedFew
  <2>3. Up' = Longer(Up, <<ack, data>>) /\ Down' = Tail(Down)
    <3>1. net' = Send(Consumed(<<Srv, Cli>>), Cli, Srv, <<ack, data>>)
      BY <1>4, <1>7, <2>1
    <3> QED
      BY <1>2, <2>2, <3>1, LinksAfter
  <2>4. Listed(Up') \subseteq Listed(Up) \cup {ack, data}
    BY <2>2, <2>3, ListsAfter
  <2>5. Hello'
    BY <1>10, <1>12, <2>1, SeqAssumption
  <2>6. written.pendingSeq = U8(SSock.ISN + 1)
    BY <1>6, <1>10, <2>1 DEF DownGood
  <2>7. Counters'
    <3>1. SSock.nextExpected = s.ISN + 1
      BY <1>5, <2>1 DEF Numbers, Counters
    <3> QED
      BY <1>10, <1>12, <2>1, <2>5, <2>6, <3>1 DEF Counters
  <2>8. \A p : Sound(p) => Sound(p)'
    BY <1>12, <2>1 DEF Sound
  <2>9. data.ack <= TakenUpTo \/ data.ack = written.pendingSeq + 1
    <3>1. SFd # NullFd /\ TakenUpTo \in 0 .. 255
      <4>1. SFd # NullFd
        BY <2>1, View
      <4> QED
        BY <4>1, NumberTypes
    <3>2. U8(written.pendingSeq + 1) = written.pendingSeq + 1
          \/ U8(written.pendingSeq + 1) = 0
      BY <1>14 DEF U8
    <3> QED
      BY <1>11, <3>1, <3>2
  <2>10. data.seq = written.lastSent
    BY <1>11, <1>14 DEF U8
  <2>11. UpNumbers'
    <3>1. \A p : p = data => UpGood(p)'
      BY <1>9, <1>12, <2>5, <2>9, <2>10 DEF UpGood, Sound
    <3>2. \A p : p = ack => UpGood(p)'
      BY <1>8 DEF UpGood
    <3>3. \A p \in Listed(Up) : UpGood(p)'
      BY <1>5, <1>10, <1>12, <1>16, <2>8 DEF Numbers, UpNumbers, UpGood
    <3> QED
      BY <1>13, <2>4, <2>8, <3>1, <3>2, <3>3 DEF Numbers, UpNumbers
  <2>12. DownNumbers'
    <3>1. \A p \in Listed(Down) : p.flag = "SYN" /\ p.seq = SSock.ISN
      BY <2>1 DEF Numbers, DownNumbers, DownGood
    <3>2. \A p \in Listed(Down) : DownGood(p)'
      BY <1>12, <2>5, <2>6, <3>1 DEF DownGood
    <3> QED
      BY <1>15, <2>3, <3>2 DEF DownNumbers, SynsFirst
  <2>13. EntryNumbers'
    BY <1>12, <1>13 DEF Numbers, EntryNumbers
  <2> QED
    BY <1>12, <2>7, <2>11, <2>12, <2>13 DEF Numbers
<1>17. CASE CState = "ESTABLISHED"
  <2>1. /\ Hello /\ s.remain # 0 /\ U8(pkt.seq + 1) = s.pendingSeq
    BY <1>2, <1>5, <1>6, <1>17 DEF DownGood, Hello
  <2>2. written.remain # 0
    <3>1. s.remain + HelloLen \in 1 .. 255
      <4>1. HelloLen \in 1 .. 26 /\ MaxBacklog \in Nat /\ MaxBacklog <= 127
        BY SeqAssumption, SizeAssumption DEF Pos
      <4>2. s.remain + HelloLen <= MaxBacklog
        BY <1>4, <1>7
      <4> QED
        BY <1>14, <4>1, <4>2
    <3>2. U8(s.remain + HelloLen) = s.remain + HelloLen
      BY <3>1 DEF U8
    <3> QED
      BY <1>10, <2>1, <3>1, <3>2
  <2>3. <<ack>> \in Seq(Packet) /\ Listed(<<ack>>) = {ack}
    BY <1>8, ListedFew
  <2>4. Up' = Longer(Up, <<ack>>) /\ Down' = Tail(Down)
    <3>1. net' = Send(Consumed(<<Srv, Cli>>), Cli, Srv, <<ack>>)
      BY <1>4, <1>7, <2>1
    <3> QED
      BY <1>2, <2>3, <3>1, LinksAfter
  <2>5. Listed(Up') \subseteq Listed(Up) \cup {ack}
    BY <2>3, <2>4, ListsAfter
  <2>6. UpGood(ack)
    BY <1>8 DEF UpGood
  <2> QED
    BY <1>5, <1>10, <1>12, <1>13, <1>15, <1>17, <2>1, <2>2, <2>4, <2>5, <2>6, NumbersSame
<1> QED
  BY <1>2, <1>16, <1>17

\* receiveACK of a server that waits for it.
LEMMA NumbersAckOfSYN ==
  ASSUME OnePair, TypeOK, Connection, Numbers, AckOfSYN(Cli, Srv)
  PROVE  Numbers'
<1> DEFINE pkt == Head(net[<<Cli, Srv>>])
           s == sock[Srv][SFd]
<1>1. Arrives(Cli, Srv, "ACK") /\ sock[Srv][Lookup(Srv, Cli)].state = "SYN_RCVD"
  BY DEF AckOfSYN
<1>2. /\ Up # <<>> /\ Head(Up).flag = "ACK"
      /\ CState = "ESTABLISHED" /\ SState = "SYN_RCVD"
  BY <1>1, HeadUp, Found, View, PhaseCases DEF Connection, InPhase
<1>3. /\ SFd \in Fd /\ SFd # NullFd /\ SFd = Lookup(Srv, Cli)
      /\ Cli \in Node /\ Srv \in Node /\ Cli # Srv /\ <<>> \in Seq(Packet)
  BY <1>2, View, TheNodes
<1>4. CASE Ignored(Cli, Srv)
  BY <1>2, <1>4, IgnoredNumbers
<1>5. CASE ~Ignored(Cli, Srv)
  <2>1. PICK r \in RandSeq :
          sock' = [sock EXCEPT ![Srv][SFd] =
                    [s EXCEPT !.ISN = U8(s.ISN + 1), !.state = "ESTABLISHED",
                              !.reSend = FALSE, !.pendingSeq = U8(pkt.seq - 1),
                              !.lastWritten = r, !.lastSent = r, !.lastAck = r]]
    BY <1>3, <1>5 DEF AckOfSYN
  <2>2. /\ net' = Consumed(<<Cli, Srv>>) /\ pkt.ack = s.ISN + 1
        /\ UNCHANGED <<fdVars, reSendQueue, receiveQueue>>
    BY <1>3, <1>5 DEF AckOfSYN, reSendVars, receiveVars
  <2> DEFINE t == [s EXCEPT !.ISN = U8(s.ISN + 1), !.state = "ESTABLISHED",
                            !.reSend = FALSE, !.pendingSeq = U8(pkt.seq - 1),
                            !.lastWritten = r, !.lastSent = r, !.lastAck = r]
  <2>3. s \in Socket /\ s = SSock /\ pkt \in Packet
    <3>1. s \in Socket /\ s = SSock
      BY <1>3, View DEF SSock
    <3>2. pkt = Head(Up) /\ Head(Up) \in Packet
      <4>1. Head(Up) \in Listed(Up)
        BY <1>2, <1>3, ListsAfter
      <4> QED
        BY <1>3, <4>1, ListsAfter DEF Up
    <3> QED
      BY <3>1, <3>2
  <2> HIDE DEF s, pkt
  <2>4. /\ s.ISN \in 0 .. 255 /\ pkt.ack \in 0 .. 255 /\ pkt.seq \in 0 .. 255
        /\ TakenUpTo = s.ISN
    BY <1>3, <2>3, NumberTypes
  <2>5. U8(s.ISN + 1) = s.ISN + 1 /\ s.ISN + 1 \in 0 .. 255
    <3> HIDE DEF t
    <3> QED
      BY <2>2, <2>4 DEF U8
  <2>6. /\ t \in Socket /\ t.state = "ESTABLISHED" /\ t.dest = s.dest
        /\ t.isResend = s.isResend /\ t.ISN = s.ISN + 1
        /\ t.nextExpected = s.nextExpected
    <3>1. U8(s.ISN + 1) \in Byte /\ U8(pkt.seq - 1) \in Byte
      <4>1. s.ISN + 1 \in Int /\ pkt.seq - 1 \in Int
        BY <2>4
      <4> QED
        BY <4>1, ByteType
    <3>2. r \in Pos /\ r \in Byte /\ "ESTABLISHED" \in State
      BY Sizes DEF State
    <3>3. /\ t \in Socket /\ t.state = "ESTABLISHED" /\ t.dest = s.dest
          /\ t.isResend = s.isResend /\ t.ISN = U8(s.ISN + 1)
          /\ t.nextExpected = s.nextExpected
      BY <2>3, <3>1, <3>2 DEF Socket
    <3> QED
      BY <2>5, <3>3
  <2>7. sock' = Put(Srv, SFd, t)
    BY <2>1 DEF Put
  <2> HIDE DEF t
  <2>8. /\ CSock' = CSock /\ SSock' = t /\ CState' = CState /\ SState' = "ESTABLISHED"
        /\ TakenUpTo' = TakenUpTo + 1 /\ (Hello' <=> Hello) /\ Spares'
    BY <1>3, <2>2, <2>4, <2>6, <2>7, ServerNumbers DEF s, Numbers
  <2>9. /\ Up' = Tail(Up) /\ Down' = Down /\ Listed(Tail(Up)) \subseteq Listed(Up)
    BY <1>2, <1>3, <2>2, LinksAfter, ListsAfter
  <2>10. /\ Hello /\ CSock.pendingSeq = s.ISN + 1 /\ s.nextExpected = CSock.ISN + 1
    <3>1. Hello
      BY <1>2 DEF Numbers, Counters
    <3>2. CSock.pendingSeq = U8(s.ISN + 1) /\ s.nextExpected = CSock.ISN + 1
      BY <1>2, <2>3, <3>1 DEF Numbers, Counters
    <3> QED
      BY <2>5, <3>1, <3>2
  <2>11. Counters'
    <3>1. Waits'
      BY <2>6, <2>8, <2>10 DEF Waits
    <3> QED
      BY <1>2, <2>8, <2>10, <3>1 DEF Numbers, Counters
  <2>12. UpNumbers'
    <3>1. \A p \in Packet : Sound(p) => Sound(p)'
      <4>1. TakenUpTo \in 0 .. 255 /\ TakenUpTo' = TakenUpTo + 1
        BY <2>4, <2>8
      <4>2. \A p \in Packet : p.ack <= TakenUpTo => p.ack <= TakenUpTo'
        BY <4>1, NumberTypes
      <4> QED
        BY <2>8, <4>2 DEF Sound
    <3>2. \A p \in Listed(Up) : p \in Packet
      BY <1>3, ListsAfter
    <3>3. \A x \in Listed(receiveQueue[Srv]) : x.pkt \in Packet
      <4>1. receiveQueue[Srv] \in Seq(Received)
        BY <1>3 DEF TypeOK
      <4>2. Listed(receiveQueue[Srv]) \subseteq Received
        BY <4>1, ElementOfSeq DEF Listed
      <4> QED
        BY <4>2 DEF Received
    <3> QED
      BY <2>2, <2>8, <2>9, <3>1, <3>2, <3>3 DEF Numbers, UpNumbers, UpGood
  <2>13. DownNumbers'
    <3>1. \A p \in Listed(Down) : DownGood(p)'
      BY <1>2, <2>8 DEF Numbers, DownNumbers, DownGood
    <3> QED
      BY <2>9, <3>1 DEF Numbers, DownNumbers, SynsFirst
  <2>14. EntryNumbers'
    BY <2>2, <2>8 DEF Numbers, EntryNumbers
  <2> QED
    BY <2>8, <2>11, <2>12, <2>13, <2>14 DEF Numbers
<1> QED
  BY <1>4, <1>5

\* update() leaves the numbers of a server alone.
LEMMA NumbersAckOfDataAtServer ==
  ASSUME OnePair, TypeOK, Connection, Numbers, AckOfFINorData(Cli, Srv)
  PROVE  Numbers'
<1> DEFINE pkt == Head(net[<<Cli, Srv>>])
           s == sock[Srv][SFd]
           t == AfterUpdate(s, pkt)
<1>1. /\ Arrives(Cli, Srv, "ACK")
      /\ sock[Srv][Lookup(Srv, Cli)].state \in {"FIN_WAIT_1", "ESTABLISHED"}
  BY DEF AckOfFINorData
<1>2. Up # <<>> /\ CState = "ESTABLISHED" /\ SState = "ESTABLISHED"
  BY <1>1, HeadUp, Found, View, PhaseCases DEF Connection, InPhase
<1>3. /\ SFd \in Fd /\ SFd # NullFd /\ SFd = Lookup(Srv, Cli) /\ s.state = "ESTABLISHED"
      /\ s \in Socket /\ s = SSock
      /\ Cli \in Node /\ Srv \in Node /\ Cli # Srv /\ <<>> \in Seq(Packet)
  BY <1>2, View, TheNodes DEF SSock
<1>4. /\ sock' = [sock EXCEPT ![Srv][SFd] = t]
      /\ net' = Consumed(<<Cli, Srv>>)
      /\ UNCHANGED <<fdVars, reSendQueue, receiveQueue>>
  BY <1>3 DEF AckOfFINorData, reSendVars, receiveVars
<1>5. pkt \in Packet
  BY <1>2, <1>3, ArrivesIs DEF Up
<1> HIDE DEF s, pkt
<1>6. /\ t \in Socket /\ t.state = "ESTABLISHED" /\ t.dest = s.dest
      /\ t.isResend = s.isResend
      /\ t.ISN = s.ISN /\ t.nextExpected = s.nextExpected
  <2>1. /\ t \in Socket /\ t.state = "ESTABLISHED" /\ t.dest = s.dest
        /\ t.isResend = s.isResend
    BY <1>3, <1>5, UpdateType
  <2>2. t.ISN = s.ISN /\ t.nextExpected = s.nextExpected
    BY <1>3 DEF AfterUpdate, Socket
  <2> QED
    BY <2>1, <2>2
<1>7. sock' = Put(Srv, SFd, t)
  BY <1>4 DEF Put
<1> HIDE DEF t
<1>8. /\ CSock' = CSock /\ SSock' = t /\ CState' = CState /\ SState' = SState
      /\ TakenUpTo' = TakenUpTo /\ Spares'
  BY <1>2, <1>3, <1>4, <1>6, <1>7, ServerNumbers DEF s, Numbers
<1>9. Up' = Tail(Up) /\ Down' = Down /\ Listed(Tail(Up)) \subseteq Listed(Up)
  BY <1>2, <1>3, <1>4, LinksAfter, ListsAfter
<1> QED
  BY <1>3, <1>4, <1>6, <1>8, <1>9, SynsOfDown, NumbersSame

\* When update() does something.
LEMMA UpdateNumbers ==
  ASSUME NEW s \in Socket, NEW pkt \in Packet
  PROVE  /\ s.lastAck = s.lastSent => AfterUpdate(s, pkt) = s
         /\ s.lastAck \in RandSeq /\ pkt.ack = s.lastAck + 1 => AfterUpdate(s, pkt) = s
         /\ s.lastSent \in Pos /\ s.remain # 0 /\ pkt.ack = (s.lastSent + 1) % 128
              => \/ AfterUpdate(s, pkt) = s
                 \/ AfterUpdate(s, pkt) = [s EXCEPT !.lastAck = s.lastSent,
                                                    !.pendingSeq = pkt.seq, !.remain = 0]
<1>1. /\ s.lastAck \in 0 .. 255 /\ s.lastSent \in 0 .. 255 /\ s.remain \in 0 .. 255
      /\ pkt.ack \in 0 .. 255
  BY DEF Socket, Packet, Byte
<1>2. Acked(pkt) \in 0 .. 255
  BY <1>1 DEF Acked
<1>3. AfterUpdate(s, pkt) =
        IF IsNews(s, pkt)
        THEN [s EXCEPT !.lastAck = Acked(pkt), !.pendingSeq = pkt.seq,
                       !.remain = Unacked(s, pkt)]
        ELSE s
  BY DEF AfterUpdate
<1>4. ASSUME s.lastAck = s.lastSent PROVE ~IsNews(s, pkt)
  <2>1. s.lastAck \in Int /\ Acked(pkt) \in Int
    BY <1>1, <1>2
  <2>2. ~(Acked(pkt) > s.lastAck /\ Acked(pkt) <= s.lastAck)
    BY <2>1
  <2> QED
    BY <1>4, <2>2 DEF IsNews
<1>5. ASSUME s.lastAck \in RandSeq, pkt.ack = s.lastAck + 1 PROVE ~IsNews(s, pkt)
  <2>1. s.lastAck \in 0 .. 125
    BY <1>5, SeqAssumption
  <2>2. Acked(pkt) = s.lastAck
    BY <1>5, <2>1 DEF Acked
  <2> QED
    BY <2>1, <2>2 DEF IsNews
<1>6. ASSUME s.lastSent \in Pos, s.remain # 0, pkt.ack = (s.lastSent + 1) % 128,
             IsNews(s, pkt)
      PROVE  Acked(pkt) = s.lastSent /\ Unacked(s, pkt) = 0
  <2>1. s.lastSent \in 0 .. 127
    BY <1>6 DEF Pos
  <2>2. s.lastSent # 127
    <3> SUFFICES ASSUME s.lastSent = 127 PROVE FALSE
      OBVIOUS
    <3>1. pkt.ack = 0
      BY <1>6
    <3>2. Acked(pkt) = 255
      BY <3>1 DEF Acked
    <3> QED
      BY <1>6, <3>2 DEF IsNews
  <2>3. s.lastSent + 1 \in 1 .. 127
    BY <2>1, <2>2
  <2>4. pkt.ack = s.lastSent + 1
    BY <1>6, <2>3
  <2>5. Acked(pkt) = s.lastSent
    BY <2>1, <2>4 DEF Acked
  <2>6. (s.lastSent - Acked(pkt)) % 128 = 0
    BY <2>1, <2>5
  <2> QED
    BY <1>1, <1>6, <2>5, <2>6 DEF Unacked
<1> QED
  BY <1>3, <1>4, <1>5, <1>6

\* Once the client closes, all that is left was taken.
LEMMA NumbersClosing ==
  ASSUME Numbers, Spares', ~Hello, TakenUpTo' = TakenUpTo,
         CState' \notin {"SYN_SENT", "ESTABLISHED"}, SState' # "SYN_RCVD",
         CState' \in {"FIN_WAIT_1", "FIN_WAIT_2", "TIME_WAIT"} => CSock'.remain = 0,
         \A p \in Listed(Up') : p.flag = "DATA" => p \in Listed(Up),
         UNCHANGED receiveQueue,
         SynsFirst(Down')
  PROVE  Numbers'
<1>1. ~Hello'
  BY DEF Hello
<1>2. Counters'
  BY <1>1 DEF Counters
<1>3. \A p : Sound(p) => Sound(p)'
  BY DEF Sound
<1>4. UpNumbers'
  BY <1>3 DEF Numbers, UpNumbers, UpGood
<1>5. DownNumbers'
  BY <1>1 DEF DownNumbers, DownGood, SynsFirst
<1>6. EntryNumbers'
  BY DEF EntryNumbers
<1> QED
  BY <1>2, <1>4, <1>5, <1>6 DEF Numbers

\* receiveACK of a client: the acknowledgement of the line, or no news.
LEMMA NumbersAckAtClient ==
  ASSUME OnePair, TypeOK, Connection, Numbers, AckOfFINorData(Srv, Cli)
  PROVE  Numbers'
<1> DEFINE pkt == Head(net[<<Srv, Cli>>])
           s == sock[Cli][CFd]
           t == IF s.state = "ESTABLISHED" THEN AfterUpdate(s, pkt)
                ELSE IF AcksFin(s, pkt)
                     THEN [s EXCEPT !.state = "FIN_WAIT_2", !.reSend = FALSE]
                     ELSE s
<1>1. /\ Arrives(Srv, Cli, "ACK")
      /\ sock[Cli][Lookup(Cli, Srv)].state \in {"FIN_WAIT_1", "ESTABLISHED"}
  BY DEF AckOfFINorData
<1>2. /\ Down # <<>> /\ Head(Down).flag = "ACK"
      /\ \/ CState = "ESTABLISHED"
         \/ CState = "FIN_WAIT_1" /\ SState = "LAST_ACK"
  BY <1>1, HeadDown, Found, View, PhaseCases DEF Connection, InPhase
<1>3. /\ CFd \in Fd /\ CFd # NullFd /\ CFd = Lookup(Cli, Srv) /\ s.state = CState
      /\ s \in Socket /\ s = CSock
      /\ Cli \in Node /\ Srv \in Node /\ Cli # Srv /\ <<>> \in Seq(Packet)
  BY <1>2, View, TheNodes DEF CSock
<1>4. /\ sock' = [sock EXCEPT ![Cli][CFd] = t]
      /\ net' = Consumed(<<Srv, Cli>>)
      /\ UNCHANGED <<fdVars, reSendQueue, receiveQueue>>
  BY <1>3 DEF AckOfFINorData, reSendVars, receiveVars
<1>5. /\ pkt = Head(Down) /\ pkt \in Packet /\ DownGood(pkt) /\ pkt.flag = "ACK"
  <2>1. Head(Down) \in Listed(Down)
    BY <1>2, <1>3, ListsAfter
  <2>2. Head(Down) \in Packet /\ DownGood(Head(Down))
    BY <1>3, <2>1, ListsAfter DEF Numbers, DownNumbers
  <2> QED
    BY <1>2, <2>2 DEF Down
<1> HIDE DEF s, pkt
<1>6. sock' = Put(Cli, CFd, t)
  BY <1>4 DEF Put
<1>7. /\ Up' = Up /\ Down' = Tail(Down) /\ Listed(Tail(Down)) \subseteq Listed(Down)
      /\ SynsFirst(Down')
      /\ \A p \in Listed(Down') : p.flag # "SYN"
  <2>1. Up' = Up /\ Down' = Tail(Down) /\ Listed(Tail(Down)) \subseteq Listed(Down)
    BY <1>2, <1>3, <1>4, LinksAfter, ListsAfter
  <2> QED
    BY <1>2, <2>1, SynsOfDown
<1>8. ASSUME NEW u \in Socket, u = t, u.dest = s.dest
      PROVE  /\ CSock' = u /\ SSock' = SSock /\ CState' = u.state /\ SState' = SState
             /\ TakenUpTo' = TakenUpTo
             /\ Hello' <=> u.state = "ESTABLISHED" /\ u.remain # 0
             /\ Spares'
  <2>1. sock' = Put(Cli, CFd, u)
    BY <1>6, <1>8
  <2> HIDE DEF t
  <2> QED
    BY <1>3, <1>4, <1>8, <2>1, ClientNumbers DEF s, Numbers
<1>9. CASE t = s
  <2>1. /\ CSock' = s /\ SSock' = SSock /\ CState' = CState /\ SState' = SState
        /\ TakenUpTo' = TakenUpTo /\ Spares'
    BY <1>3, <1>8, <1>9
  <2> HIDE DEF t
  <2> QED
    BY <1>3, <1>4, <1>7, <2>1, NumbersSame
<1>10. CASE CState = "FIN_WAIT_1" /\ t # s
  <2>1. t = [s EXCEPT !.state = "FIN_WAIT_2", !.reSend = FALSE]
    BY <1>3, <1>10
  <2>2. t \in Socket /\ t.state = "FIN_WAIT_2" /\ t.dest = s.dest /\ t.remain = s.remain
    <3>1. [s EXCEPT !.state = "FIN_WAIT_2", !.reSend = FALSE] \in Socket
      BY <1>3, SocketChange
    <3> QED
      BY <1>3, <2>1, <3>1 DEF Socket
  <2>3. s.remain = 0 /\ ~Hello /\ SState = "LAST_ACK"
    BY <1>2, <1>3, <1>10 DEF Numbers, Counters, Hello
  <2> HIDE DEF t
  <2>4. /\ CSock' = t /\ CState' = "FIN_WAIT_2" /\ SState' = SState
        /\ TakenUpTo' = TakenUpTo /\ Spares'
    BY <1>8, <2>2
  <2> QED
    BY <1>4, <1>7, <2>2, <2>3, <2>4, NumbersClosing
<1>11. CASE CState = "ESTABLISHED" /\ t # s
  <2>1. t = AfterUpdate(s, pkt)
    BY <1>3, <1>11
  <2>2. SState = "ESTABLISHED"
    <3>1. SState # "SYN_RCVD"
      BY <1>5 DEF DownGood
    <3> QED
      BY <1>11, <3>1, PhaseCases DEF Connection, InPhase
  <2> HIDE DEF t
  <2>3. Hello /\ OfHello(pkt)
    <3>1. Hello
      BY <1>3, <1>5, <1>11, <2>1, UpdateNumbers DEF Numbers, Counters
    <3> QED
      BY <1>5, <3>1 DEF DownGood
  <2>4. s.lastAck \in RandSeq /\ s.lastAck = s.ISN /\ s.lastSent \in Pos /\ s.remain # 0
    BY <1>3, <2>3 DEF Numbers, Counters, Hello
  <2>5. /\ SSock.ISN = s.pendingSeq + 1 /\ pkt.seq = SSock.ISN
        /\ pkt.ack = (s.lastSent + 1) % 128
    <3>1. pkt.ack # s.ISN + 1
      BY <1>3, <1>5, <1>11, <2>1, <2>4, UpdateNumbers
    <3> QED
      BY <1>3, <2>3, <3>1 DEF OfHello
  <2>6. t = [s EXCEPT !.lastAck = s.lastSent, !.pendingSeq = pkt.seq, !.remain = 0]
    BY <1>3, <1>5, <1>11, <2>1, <2>4, <2>5, UpdateNumbers
  <2>7. /\ t \in Socket /\ t.state = "ESTABLISHED" /\ t.dest = s.dest
        /\ t.remain = 0 /\ t.lastAck = t.lastSent /\ t.pendingSeq = SSock.ISN
        /\ t.ISN = s.ISN
    <3>1. t \in Socket
      BY <1>3, <1>5, <2>1, UpdateType
    <3>2. t.state = s.state /\ t.dest = s.dest /\ t.remain = 0
          /\ t.lastAck = s.lastSent /\ t.lastSent = s.lastSent
          /\ t.pendingSeq = pkt.seq /\ t.ISN = s.ISN
      BY <1>3, <2>6 DEF Socket
    <3> QED
      BY <1>3, <1>11, <2>5, <3>1, <3>2
  <2>8. /\ CSock' = t /\ SSock' = SSock /\ CState' = "ESTABLISHED" /\ SState' = SState
        /\ TakenUpTo' = TakenUpTo /\ ~Hello' /\ Spares'
    BY <1>8, <2>7
  <2>9. Counters'
    BY <2>2, <2>7, <2>8 DEF Counters
  <2>10. UpNumbers'
    <3>1. TakenUpTo = s.pendingSeq + 1 /\ s.pendingSeq + 1 \in 0 .. 255
      <4>1. SFd # NullFd
        BY <2>2, View
      <4>2. SSock \in Socket /\ TakenUpTo = SSock.ISN
        BY <4>1, NumberTypes
      <4>3. SSock.ISN \in 0 .. 255
        BY <4>2, NumberTypes
      <4> QED
        BY <2>5, <4>2, <4>3
    <3>2. \A p : Sound(p) => p.ack <= TakenUpTo
      BY <1>3, <3>1 DEF Sound
    <3>3. \A p : Sound(p) => Sound(p)'
      BY <2>8, <3>2 DEF Sound
    <3> QED
      BY <1>3, <1>4, <1>7, <1>11, <2>7, <2>8, <3>3 DEF Numbers, UpNumbers, UpGood
  <2>11. DownNumbers'
    BY <1>7, <2>2, <2>8 DEF DownNumbers, DownGood, SynsFirst
  <2>12. EntryNumbers'
    BY <2>2, <2>8 DEF EntryNumbers
  <2> QED
    BY <2>8, <2>9, <2>10, <2>11, <2>12 DEF Numbers
<1> QED
  BY <1>2, <1>9, <1>10, <1>11

\* receiveACK of a server that waits for the last one: the next connection
\* gets the same socket, and its counters.
LEMMA NumbersAckOfLastFIN ==
  ASSUME OnePair, TypeOK, Connection, Numbers, AckOfLastFIN(Cli, Srv)
  PROVE  Numbers'
<1> DEFINE s == sock[Srv][SFd]
           t == [s EXCEPT !.reSend = FALSE, !.state = "CLOSED", !.inUse = FALSE]
<1>1. Arrives(Cli, Srv, "ACK") /\ sock[Srv][Lookup(Srv, Cli)].state = "LAST_ACK"
  BY DEF AckOfLastFIN
<1>2. Up # <<>> /\ CState = "TIME_WAIT" /\ SState = "LAST_ACK"
  BY <1>1, HeadUp, Found, View, PhaseCases DEF Connection, InPhase
<1>3. /\ SFd \in Fd /\ SFd # NullFd /\ SFd = Lookup(Srv, Cli)
      /\ Cli \in Node /\ Srv \in Node /\ Cli # Srv
      /\ <<>> \in Seq(Packet) /\ s.state = "LAST_ACK"
  BY <1>2, View, TheNodes
<1>4. CASE Ignored(Cli, Srv)
  BY <1>2, <1>4, IgnoredNumbers
<1>5. CASE ~Ignored(Cli, Srv)
  <2>1. /\ sock' = [sock EXCEPT ![Srv][SFd] = t]
        /\ socketTable' = [socketTable EXCEPT ![Srv][Cli] = NullFd]
        /\ fdQueue' = [fdQueue EXCEPT ![Srv] = Append(fdQueue[Srv], SFd)]
        /\ net' = Consumed(<<Cli, Srv>>)
        /\ UNCHANGED <<reSendVars, receiveVars>>
    BY <1>3, <1>5 DEF AckOfLastFIN
  <2>2. /\ fdQueue \in [Node -> Seq(Fd)] /\ sock \in [Node -> [Fd -> Socket]]
        /\ socketTable \in [Node -> [Node -> Fd \cup {NullFd}]]
    BY DEF TypeOK
  <2>3. s \in Socket
    BY <1>3, <2>2
  <2> HIDE DEF s
  <2>4. t.state = "CLOSED" /\ t.ISN = s.ISN
    BY <2>3 DEF Socket
  <2> HIDE DEF t
  <2>5. /\ sock'[Cli] = sock[Cli]
        /\ \A e \in Fd : sock'[Srv][e] = IF e = SFd THEN t ELSE sock[Srv][e]
    BY <1>3, <2>1, <2>2
  <2>6. CFd' = CFd /\ SFd' = NullFd
    BY <1>3, <2>1, <2>2 DEF CFd, SFd
  <2>7. CState' = CState /\ SState' = "none" /\ CSock' = CSock
    BY <2>5, <2>6 DEF CState, SState, CSock
  <2>8. Used = SFd /\ Used' = SFd
    <3>1. fdQueue'[Srv] = Append(fdQueue[Srv], SFd) /\ fdQueue[Srv] \in Seq(Fd)
      BY <1>3, <2>1, <2>2
    <3>2. PopBack(Append(fdQueue[Srv], SFd)) = SFd
      <4> DEFINE q == fdQueue[Srv]
      <4>1. /\ Len(Append(q, SFd)) = Len(q) + 1 /\ Len(q) \in Nat
            /\ Append(q, SFd)[Len(q) + 1] = SFd
        BY <1>3, <3>1, AppendProperties
      <4>2. Append(q, SFd) # <<>>
        BY <4>1
      <4> HIDE DEF q
      <4> QED
        BY <4>1, <4>2 DEF PopBack, q
    <3> QED
      BY <1>3, <2>6, <3>1, <3>2 DEF Used
  <2>9. TakenUpTo' = TakenUpTo
    BY <1>3, <2>4, <2>5, <2>8 DEF TakenUpTo, s
  <2>10. Spares'
    <3>1. PICK e \in Fd : sock[Srv][e].state = "LISTEN"
      BY <1>3 DEF Numbers, Spares
    <3>2. e # SFd
      BY <1>3, <3>1 DEF s
    <3>3. sock'[Srv][e].state = "LISTEN"
      BY <2>5, <3>1, <3>2
    <3>4. \A fd \in Fd : fd # Used' => sock'[Srv][fd].ISN = 0
      BY <2>5, <2>8 DEF Numbers, Spares
    <3>5. \A fd \in Fd : fd # CFd' => sock'[Cli][fd].remain = 0
      BY <2>5, <2>6 DEF Numbers, Spares
    <3> QED
      BY <3>1, <3>3, <3>4, <3>5 DEF Spares
  <2>11. ~Hello /\ CSock.remain = 0
    BY <1>2 DEF Hello, Numbers, Counters
  <2>12. Up' = Tail(Up) /\ Down' = Down /\ Listed(Tail(Up)) \subseteq Listed(Up)
    BY <1>2, <1>3, <2>1, LinksAfter, ListsAfter
  <2>13. UNCHANGED receiveQueue
    BY <2>1 DEF receiveVars
  <2>14. SynsFirst(Down')
    BY <2>12, SynsOfDown
  <2> QED
    BY <1>2, <2>7, <2>9, <2>10, <2>11, <2>12, <2>13, <2>14, NumbersClosing
<1> QED
  BY <1>4, <1>5

\* receiveFIN of a server that is connected.
LEMMA NumbersFinOfClient ==
  ASSUME OnePair, TypeOK, Connection, Numbers, FinOfClient(Cli, Srv)
  PROVE  Numbers'
<1> DEFINE pkt == Head(net[<<Cli, Srv>>])
           s == sock[Srv][SFd]
           t == AfterFin(s)
           ack == Pkt("ACK", s.ISN, pkt.seq + 1)
           fin == Pkt("FIN", s.ISN, pkt.seq + 1)
<1>1. Arrives(Cli, Srv, "FIN") /\ sock[Srv][Lookup(Srv, Cli)].state = "ESTABLISHED"
  BY DEF FinOfClient
<1>2. Up # <<>> /\ CState = "FIN_WAIT_1" /\ SState = "ESTABLISHED"
  BY <1>1, HeadUp, Found, View, PhaseCases DEF Connection, InPhase
<1>3. /\ SFd \in Fd /\ SFd # NullFd /\ SFd = Lookup(Srv, Cli) /\ s.dest = Cli
      /\ Cli \in Node /\ Srv \in Node /\ Cli # Srv
  BY <1>2, View, TheNodes DEF Connection, Ends
<1>4. CASE Ignored(Cli, Srv)
  BY <1>2, <1>4, IgnoredNumbers
<1>5. CASE ~Ignored(Cli, Srv)
  <2>1. /\ sock' = [sock EXCEPT ![Srv][SFd] = t]
        /\ net' = Send(Consumed(<<Cli, Srv>>), Srv, Cli, <<ack, fin>>)
        /\ UNCHANGED <<fdVars, receiveVars>>
    BY <1>3, <1>5 DEF FinOfClient
  <2>2. /\ s \in Socket /\ ack \in Packet /\ ack.flag = "ACK"
        /\ fin \in Packet /\ fin.flag = "FIN"
    BY <1>2, <1>3, ReplyTo DEF Up
  <2> HIDE DEF s, pkt, ack, fin
  <2>3. /\ t \in Socket /\ t.state = "LAST_ACK" /\ t.dest = s.dest
        /\ t.isResend = s.isResend /\ t.ISN = s.ISN
    <3>1. t \in Socket
      BY <2>2, SocketChange DEF AfterFin
    <3> QED
      BY <2>2, <3>1 DEF Socket, AfterFin
  <2>4. sock' = Put(Srv, SFd, t)
    BY <2>1 DEF Put
  <2> HIDE DEF t
  <2>5. /\ CSock' = CSock /\ CState' = CState /\ SState' = "LAST_ACK"
        /\ TakenUpTo' = TakenUpTo /\ Spares'
    BY <1>3, <2>1, <2>3, <2>4, ServerNumbers DEF s, SSock, Numbers
  <2>6. <<ack, fin>> \in Seq(Packet) /\ \A p \in Listed(<<ack, fin>>) : p.flag # "SYN"
    BY <2>2, ListedFew
  <2>7. /\ Up' = Tail(Up) /\ Down' = Longer(Down, <<ack, fin>>)
        /\ Listed(Tail(Up)) \subseteq Listed(Up)
    BY <1>2, <2>1, <2>6, LinksAfter, ListsAfter
  <2>8. SynsFirst(Down')
    BY <2>6, <2>7, SynsOfDown
  <2>9. ~Hello /\ CSock.remain = 0
    BY <1>2 DEF Hello, Numbers, Counters
  <2>10. UNCHANGED receiveQueue
    BY <2>1 DEF receiveVars
  <2> QED
    BY <1>2, <2>5, <2>7, <2>8, <2>9, <2>10, NumbersClosing
<1> QED
  BY <1>4, <1>5

\* receiveFIN of a client whose FIN is acknowledged.
LEMMA NumbersFinOfServer ==
  ASSUME OnePair, TypeOK, Connection, Numbers, FinOfServer(Srv, Cli)
  PROVE  Numbers'
<1> DEFINE pkt == Head(net[<<Srv, Cli>>])
           s == sock[Cli][CFd]
           t == [s EXCEPT !.state = "TIME_WAIT"]
           ack == Pkt("ACK", s.ISN, pkt.seq + 1)
<1>1. /\ Arrives(Srv, Cli, "FIN")
      /\ sock[Cli][Lookup(Cli, Srv)].state \in {"FIN_WAIT_2", "TIME_WAIT"}
  BY DEF FinOfServer
<1>2. /\ Down # <<>>
      /\ \/ CState = "FIN_WAIT_2" /\ SState = "LAST_ACK"
         \/ CState = "TIME_WAIT" /\ SState \in {"LAST_ACK", "none"}
  BY <1>1, HeadDown, Found, View, PhaseCases DEF Connection, InPhase
<1>3. /\ CFd \in Fd /\ CFd # NullFd /\ CFd = Lookup(Cli, Srv) /\ s.dest = Srv
      /\ s.state = CState /\ Cli \in Node /\ Srv \in Node /\ Cli # Srv
  BY <1>2, View, TheNodes DEF Connection, Ends
<1>4. CASE Ignored(Srv, Cli)
  BY <1>2, <1>4, IgnoredNumbers
<1>5. CASE ~Ignored(Srv, Cli)
  <2>1. /\ sock' = [sock EXCEPT ![Cli][CFd].state = "TIME_WAIT"]
        /\ net' = Send(Consumed(<<Srv, Cli>>), Cli, Srv, <<ack>>)
        /\ UNCHANGED <<fdVars, receiveVars>>
    BY <1>3, <1>5 DEF FinOfServer
  <2>2. s \in Socket /\ ack \in Packet /\ ack.flag = "ACK"
    BY <1>2, <1>3, ReplyTo DEF Down
  <2>3. sock' = Put(Cli, CFd, t)
    BY <2>1 DEF Put
  <2> HIDE DEF s, pkt, ack
  <2>4. /\ t \in Socket /\ t.state = "TIME_WAIT" /\ t.dest = s.dest
        /\ t.remain = s.remain
    <3>1. t \in Socket
      BY <2>2, SocketChange
    <3> QED
      BY <2>2, <3>1 DEF Socket
  <2> HIDE DEF t
  <2>5. /\ CSock' = t /\ CState' = "TIME_WAIT" /\ SState' = SState
        /\ TakenUpTo' = TakenUpTo /\ Spares'
    BY <1>3, <2>1, <2>3, <2>4, ClientNumbers DEF s, Numbers
  <2>6. ~Hello /\ CSock'.remain = 0
    BY <1>2, <2>4, <2>5 DEF Hello, Numbers, Counters, CSock, s
  <2>7. <<ack>> \in Seq(Packet) /\ Listed(<<ack>>) = {ack}
    BY <2>2, ListedFew
  <2>8. /\ Up' = Longer(Up, <<ack>>) /\ Down' = Tail(Down)
        /\ Listed(Up') \subseteq Listed(Up) \cup {ack}
    BY <1>2, <2>1, <2>7, LinksAfter, ListsAfter
  <2>9. SynsFirst(Down')
    BY <1>2, <2>8, SynsOfDown
  <2>10. UNCHANGED receiveQueue
    BY <2>1 DEF receiveVars
  <2>11. \A p \in Listed(Up') : p.flag = "DATA" => p \in Listed(Up)
    BY <2>2, <2>8
  <2> QED
    BY <1>2, <2>5, <2>6, <2>9, <2>10, <2>11, NumbersClosing
<1> QED
  BY <1>4, <1>5

\* closeTask: the client is rid of the connection too.
LEMMA NumbersCloseTask ==
  ASSUME OnePair, TypeOK, Connection, Numbers, NEW n \in Node, CloseTask(n)
  PROVE  Numbers'
<1> DEFINE s == sock[Cli][CFd]
           t == [s EXCEPT !.state = "CLOSED", !.inUse = FALSE]
<1>1. /\ n = Cli /\ closePosted[Cli] /\ Cli \in Node /\ Srv \in Node /\ Cli # Srv
      /\ Servers = {Srv}
  BY TheNodes DEF CloseTask, Connection, Closing
<1>2. /\ CState = "TIME_WAIT" /\ SState = "none" /\ CFd # NullFd /\ CFd \in Fd
      /\ SFd = NullFd /\ s.dest = Srv /\ closeQueue[Cli] = <<CFd>>
  BY <1>1, View DEF Connection, Closing, Ends
<1>3. /\ sock' = [sock EXCEPT ![Cli][CFd].state = "CLOSED",
                              ![Cli][CFd].inUse = FALSE]
      /\ fdQueue' = [fdQueue EXCEPT ![Cli] = Append(fdQueue[Cli], CFd)]
      /\ socketTable' = [socketTable EXCEPT ![Cli][Srv] = NullFd]
      /\ UNCHANGED <<receiveVars, net>>
  <2>1. Head(closeQueue[Cli]) = CFd
    BY <1>2
  <2> QED
    BY <1>1, <1>2, <2>1 DEF CloseTask
<1>4. /\ fdQueue \in [Node -> Seq(Fd)] /\ sock \in [Node -> [Fd -> Socket]]
      /\ socketTable \in [Node -> [Node -> Fd \cup {NullFd}]]
  BY DEF TypeOK
<1>5. sock' = [sock EXCEPT ![Cli][CFd] = t] /\ s \in Socket
  BY <1>1, <1>2, <1>3, <1>4
<1> HIDE DEF s
<1>6. t.remain = s.remain
  BY <1>5 DEF Socket
<1> HIDE DEF t
<1>7. /\ sock'[Srv] = sock[Srv]
      /\ \A e \in Fd : sock'[Cli][e] = IF e = CFd THEN t ELSE sock[Cli][e]
  BY <1>1, <1>2, <1>4, <1>5
<1>8. CFd' = NullFd /\ SFd' = SFd /\ fdQueue'[Srv] = fdQueue[Srv]
  BY <1>1, <1>2, <1>3, <1>4 DEF CFd, SFd
<1>9. CState' = "none" /\ SState' = "none"
  BY <1>2, <1>8 DEF CState, SState
<1>10. Used' = Used
  BY <1>8 DEF Used
<1>11. TakenUpTo' = TakenUpTo
  BY <1>7, <1>10 DEF TakenUpTo
<1>12. s.remain = 0 /\ ~Hello
  BY <1>2 DEF Numbers, Counters, Hello, CSock, s
<1>13. \A e \in Fd : sock'[Cli][e].remain = 0
  BY <1>6, <1>7, <1>12 DEF Numbers, Spares
<1>14. Spares'
  BY <1>7, <1>8, <1>10, <1>13 DEF Numbers, Spares
<1>15. Up' = Up /\ Down' = Down /\ UNCHANGED receiveQueue
  BY <1>3 DEF Up, Down, receiveVars
<1>16. SynsFirst(Down')
  BY <1>15, SynsOfDown
<1> QED
  BY <1>9, <1>11, <1>12, <1>14, <1>15, <1>16, NumbersClosing

\* initServer: the listener takes a descriptor that counts from 0, and leaves one.
LEMMA NumbersInitServer ==
  ASSUME OnePair, TypeOK, Connection, Numbers, NEW n \in Node, InitServer(n)
  PROVE  Numbers'
<1> DEFINE fd == PopBack(fdQueue[Srv])
           s == sock[Srv][fd]
           t == [s EXCEPT !.inUse = TRUE, !.state = "LISTEN"]
<1>1. /\ n = Srv /\ Cli \in Node /\ Srv \in Node /\ Cli # Srv
  BY TheNodes DEF InitServer
<1>2. /\ sock' = [sock EXCEPT ![Srv][fd].inUse = TRUE, ![Srv][fd].state = "LISTEN"]
      /\ fdQueue' = [fdQueue EXCEPT ![Srv] = AllButLast(fdQueue[Srv])]
      /\ \A e \in Fd : sock[Srv][e].state = "CLOSED"
      /\ UNCHANGED <<socketTable, reSendVars, receiveVars, net>>
  BY <1>1 DEF InitServer
<1>3. /\ fdQueue \in [Node -> Seq(Fd)] /\ sock \in [Node -> [Fd -> Socket]]
  BY DEF TypeOK
<1>4. SFd = NullFd /\ SState = "none" /\ CState # "ESTABLISHED"
  BY <1>2, View, PhaseCases DEF Connection, InPhase
<1>5. /\ fd \in Fd /\ PopBack(AllButLast(fdQueue[Srv])) \in Fd
      /\ fdQueue'[Srv] = AllButLast(fdQueue[Srv])
  BY <1>1, <1>2, <1>3, PopBackType
<1> HIDE DEF fd
<1>6. sock' = [sock EXCEPT ![Srv][fd] = t] /\ s \in Socket
  BY <1>1, <1>2, <1>3, <1>5
<1> HIDE DEF s
<1>7. t.state = "LISTEN" /\ t.ISN = s.ISN
  BY <1>6 DEF Socket
<1> HIDE DEF t
<1>8. /\ sock'[Cli] = sock[Cli]
      /\ \A e \in Fd : sock'[Srv][e] = IF e = fd THEN t ELSE sock[Srv][e]
  BY <1>1, <1>3, <1>5, <1>6
<1>9. /\ CFd' = CFd /\ SFd' = NullFd /\ CState' = CState /\ SState' = "none"
      /\ CSock' = CSock
  <2>1. CFd' = CFd /\ SFd' = NullFd
    BY <1>2, <1>4 DEF CFd, SFd
  <2> QED
    BY <1>4, <1>8, <2>1 DEF CState, SState, CSock
<1>10. \A e \in Fd : sock[Srv][e].ISN = 0
  BY <1>2 DEF Numbers, Spares
<1>11. \A e \in Fd : sock'[Srv][e].ISN = 0
  BY <1>5, <1>7, <1>8, <1>10 DEF s
<1>12. Used \in Fd /\ Used' \in Fd
  BY <1>4, <1>5, <1>9 DEF Used, fd
<1>13. TakenUpTo = 0 /\ TakenUpTo' = 0
  BY <1>10, <1>11, <1>12 DEF TakenUpTo
<1>14. Spares'
  <2>1. \A e \in Fd : e # CFd' => sock'[Cli][e].remain = 0
    BY <1>8, <1>9 DEF Numbers, Spares
  <2> QED
    BY <1>9, <1>11, <2>1 DEF Spares
<1>15. ~Hello /\ ~Hello'
  BY <1>4, <1>9 DEF Hello
<1>16. Up' = Up /\ Down' = Down /\ UNCHANGED <<receiveQueue, reSendQueue>>
  BY <1>2 DEF Up, Down, receiveVars, reSendVars
<1>17. Counters'
  BY <1>4, <1>9, <1>15 DEF Numbers, Counters
<1>18. UpNumbers'
  <2>1. \A p : Sound(p) => Sound(p)'
    BY <1>13, <1>15 DEF Sound
  <2> QED
    BY <1>9, <1>16, <2>1 DEF Numbers, UpNumbers, UpGood
<1>19. DownNumbers'
  BY <1>4, <1>9, <1>15, <1>16 DEF Numbers, DownNumbers, DownGood, SynsFirst
<1>20. EntryNumbers'
  BY <1>4, <1>9, <1>16 DEF Numbers, EntryNumbers
<1> QED
  BY <1>14, <1>17, <1>18, <1>19, <1>20 DEF Numbers

\* close, of a connection that is open at both ends: the line is acknowledged.
LEMMA NumbersClose ==
  ASSUME OnePair, TypeOK, Connection, Numbers, NEW n \in Node, Close(n)
  PROVE  Numbers'
<1> DEFINE s == sock[Cli][CFd]
           seq == U8(s.lastSent + 1)
           fin == Pkt("FIN", seq, s.pendingSeq + 1)
           t == [s EXCEPT !.state = "FIN_WAIT_1", !.lastSent = seq, !.reSend = TRUE]
<1>1. Cli \in Node /\ Srv \in Node /\ Cli # Srv
  BY TheNodes
<1>2. n = Cli /\ localFd[Cli] = CFd /\ CFd # NullFd /\ CFd \in Fd /\ s.dest = Srv
  <2>1. localFd[n] # NullFd
    BY DEF Close
  <2>2. n = Cli /\ localFd[Cli] = CFd /\ CFd # NullFd
    BY <1>1, <2>1, TheNodes DEF Connection, App
  <2> QED
    BY <1>1, <2>2, View DEF Connection, Ends
<1>3. /\ s.state = "ESTABLISHED" /\ s.remain = 0 /\ Settled(Cli, Srv)
      /\ sock' = [sock EXCEPT ![Cli][CFd].state = "FIN_WAIT_1",
                              ![Cli][CFd].lastSent = seq,
                              ![Cli][CFd].reSend = TRUE]
      /\ net' = Send(net, Cli, Srv, <<fin>>)
      /\ UNCHANGED <<fdVars, receiveVars>>
  BY <1>2 DEF Close, OnePair
<1>4. Up = <<>> /\ Down = <<>> /\ ~reSendTimer[Srv] /\ ~Hello
  BY <1>2, <1>3 DEF Settled, Up, Down, Hello, CSock
<1>5. SState # "SYN_RCVD"
  BY <1>4 DEF Connection, SrvQueue
<1>6. s \in Socket /\ sock \in [Node -> [Fd -> Socket]]
  BY <1>1, <1>2 DEF TypeOK
<1>7. sock' = Put(Cli, CFd, t)
  BY <1>1, <1>2, <1>3, <1>6 DEF Put
<1> HIDE DEF s
<1>8. fin \in Packet /\ fin.flag = "FIN" /\ seq \in Byte
  <2>1. s.lastSent + 1 \in Int /\ s.pendingSeq + 1 \in Int
    BY <1>6, SocketFields
  <2>2. seq \in Byte /\ seq \in Int
    BY <2>1, ByteType
  <2> HIDE DEF seq
  <2> QED
    BY <2>1, <2>2, PktType
<1> HIDE DEF seq, fin
<1>9. t \in Socket /\ t.state = "FIN_WAIT_1" /\ t.dest = s.dest /\ t.remain = 0
  <2>1. t \in Socket
    BY <1>6, <1>8, SocketChange
  <2> QED
    BY <1>3, <1>6, <2>1 DEF Socket
<1> HIDE DEF t
<1>10. /\ CSock' = t /\ CState' = "FIN_WAIT_1" /\ SState' = SState
       /\ TakenUpTo' = TakenUpTo /\ Spares'
  BY <1>2, <1>3, <1>7, <1>9, ClientNumbers DEF s, Numbers
<1>11. <<fin>> \in Seq(Packet) /\ Listed(<<fin>>) = {fin}
  BY <1>8, ListedFew
<1>12. Up' = Longer(Up, <<fin>>) /\ Down' = Down /\ Listed(Up') \subseteq Listed(Up) \cup {fin}
  BY <1>3, <1>11, LinksAfter, ListsAfter
<1>13. SynsFirst(Down')
  BY <1>12, SynsOfDown
<1>14. UNCHANGED receiveQueue
  BY <1>3 DEF receiveVars
<1>15. \A p \in Listed(Up') : p.flag = "DATA" => p \in Listed(Up)
  BY <1>8, <1>12
<1> QED
  BY <1>4, <1>5, <1>9, <1>10, <1>13, <1>14, <1>15, NumbersClosing

\* initClientAndConnect: the counters start from a number the client chooses.
LEMMA NumbersDial ==
  ASSUME OnePair, TypeOK, Connection, Numbers, NEW n \in Node, NEW server \in Servers,
         Dial(n, server)
  PROVE  Numbers'
<1> DEFINE fd == PopBack(fdQueue[Cli])
           s == sock[Cli][fd]
<1>1. /\ n = Cli /\ server = Srv /\ Cli \in Node /\ Srv \in Node /\ Cli # Srv
  BY TheNodes DEF Dial
<1>2. /\ socketTable[Cli][Srv] = NullFd /\ socketTable[Srv][Cli] = NullFd
      /\ Settled(Cli, Srv) /\ fdQueue[Cli] # <<>>
      /\ socketTable' = [socketTable EXCEPT ![Cli][Srv] = fd]
      /\ fdQueue' = [fdQueue EXCEPT ![Cli] = AllButLast(fdQueue[Cli])]
      /\ UNCHANGED receiveVars
  BY <1>1 DEF Dial, OnePair
<1>3. PICK r \in RandSeq :
        /\ sock' = [sock EXCEPT ![Cli][fd] =
             [s EXCEPT !.inUse = TRUE, !.state = "SYN_SENT",
                       !.dest = Srv, !.ISN = r, !.lastSent = r,
                       !.lastAck = r, !.lastWritten = r, !.reSend = TRUE]]
        /\ Arm(Cli, fd, Srv, Pkt("SYN", r, 0))
        /\ net' = Send(net, Cli, Srv, <<Pkt("SYN", r, 0)>>)
  BY <1>1 DEF Dial
<1> DEFINE t == [s EXCEPT !.inUse = TRUE, !.state = "SYN_SENT",
                          !.dest = Srv, !.ISN = r, !.lastSent = r,
                          !.lastAck = r, !.lastWritten = r, !.reSend = TRUE]
           syn == Pkt("SYN", r, 0)
           entry == [fd |-> fd, dest |-> Srv, pkt |-> syn]
<1>4. /\ fdQueue \in [Node -> Seq(Fd)] /\ sock \in [Node -> [Fd -> Socket]]
      /\ socketTable \in [Node -> [Node -> Fd \cup {NullFd}]]
  BY DEF TypeOK
<1>5. CFd = NullFd /\ CState = "none" /\ SFd = NullFd /\ SState = "none"
  BY <1>2 DEF CFd, SFd, CState, SState
<1>6. fd \in Fd /\ fd # NullFd
  BY <1>1, <1>4, PopBackType, Sizes
<1> HIDE DEF fd
<1>7. s \in Socket /\ s.remain = 0
  BY <1>1, <1>4, <1>5, <1>6 DEF Numbers, Spares
<1> HIDE DEF s
<1>8. t.state = "SYN_SENT" /\ t.ISN = r /\ t.lastAck = r /\ t.remain = 0
  BY <1>7 DEF Socket
<1>9. syn \in Packet /\ syn.flag = "SYN" /\ syn.seq = r
  <2>1. r \in Byte /\ 0 \in Byte
    BY Sizes DEF Byte
  <2> QED
    BY <2>1, PktIs
<1> HIDE DEF t, syn
<1>10. /\ sock'[Srv] = sock[Srv] /\ fdQueue'[Srv] = fdQueue[Srv]
       /\ \A e \in Fd : sock'[Cli][e] = IF e = fd THEN t ELSE sock[Cli][e]
  BY <1>1, <1>2, <1>3, <1>4, <1>6 DEF t
<1>11. CFd' = fd /\ SFd' = NullFd
  BY <1>1, <1>2, <1>4, <1>6 DEF CFd, SFd
<1>12. CState' = "SYN_SENT" /\ SState' = "none" /\ CSock' = t /\ ~Hello /\ ~Hello'
  BY <1>5, <1>6, <1>8, <1>10, <1>11 DEF CState, SState, CSock, Hello
<1>13. Used' = Used /\ TakenUpTo' = TakenUpTo
  <2>1. Used' = Used
    BY <1>5, <1>10, <1>11 DEF Used
  <2> QED
    BY <1>10, <2>1 DEF TakenUpTo
<1>14. Spares'
  <2>1. \A e \in Fd : e # CFd' => sock'[Cli][e].remain = 0
    BY <1>5, <1>10, <1>11, Sizes DEF Numbers, Spares
  <2> QED
    BY <1>5, <1>10, <1>11, <1>13, <2>1 DEF Numbers, Spares
<1>15. Counters'
  BY <1>8, <1>12 DEF Counters
<1>16. /\ Up = <<>> /\ Down = <<>> /\ reSendQueue[Cli] = <<>> /\ reSendQueue[Srv] = <<>>
       /\ UNCHANGED receiveQueue
  BY <1>1, <1>2 DEF Settled, Up, Down, CliQueue, SrvQueue, Connection, receiveVars
<1>17. <<syn>> \in Seq(Packet) /\ Listed(<<syn>>) = {syn} /\ Listed(<<>>) = {}
  BY <1>9, ListedFew
<1>18. Listed(Up') \subseteq {syn} /\ Down' = <<>>
  <2>1. net' = Send(net, Cli, Srv, <<syn>>)
    BY <1>3 DEF syn
  <2>2. Up' = Longer(Up, <<syn>>) /\ Down' = Down
        /\ Listed(Longer(Up, <<syn>>)) \subseteq Listed(Up) \cup Listed(<<syn>>)
    BY <1>17, <2>1, LinksAfter, ListsAfter
  <2> QED
    BY <1>16, <1>17, <2>2
<1>19. UpNumbers'
  <2>1. \A p : Sound(p) => Sound(p)'
    BY <1>12, <1>13 DEF Sound
  <2>2. \A p : p = syn => UpGood(p)'
    BY <1>8, <1>9, <1>12 DEF UpGood
  <2> QED
    BY <1>16, <1>18, <2>1, <2>2 DEF Numbers, UpNumbers
<1>20. DownNumbers'
  BY <1>17, <1>18 DEF DownNumbers, SynsFirst
<1>21. EntryNumbers'
  <2>1. Arm(Cli, fd, Srv, syn)
    BY <1>3 DEF syn
  <2>2. reSendQueue'[Cli] = <<entry>> /\ entry.pkt = syn
    BY <1>1, <1>6, <1>9, <1>16, <2>1, ArmType
  <2> HIDE DEF entry
  <2>3. Listed(reSendQueue'[Cli]) = {entry}
    BY <2>2, ListedFew
  <2> QED
    BY <1>8, <1>9, <1>12, <2>2, <2>3 DEF EntryNumbers
<1> QED
  BY <1>14, <1>15, <1>19, <1>20, <1>21 DEF Numbers

\* The numbers when the nodes start.
LEMMA NumbersInit ==
  ASSUME OnePair, Init
  PROVE  Numbers
<1>1. /\ Cli \in Node /\ Srv \in Node /\ Cli # Srv
      /\ <<Cli, Srv>> \in Link /\ <<Srv, Cli>> \in Link
  BY TheNodes DEF Link
<1>2. CFd = NullFd /\ SFd = NullFd /\ CState = "none" /\ SState = "none"
  BY <1>1 DEF Init, CFd, SFd, CState, SState
<1>3. \A n \in Node, fd \in Fd : sock[n][fd] = EmptySocket
  BY DEF Init
<1>4. Spares
  BY <1>1, <1>2, <1>3 DEF Spares, EmptySocket
<1>5. Counters
  BY <1>2 DEF Counters, Hello
<1>6. Up = <<>> /\ Down = <<>> /\ receiveQueue[Srv] = <<>>
      /\ reSendQueue[Cli] = <<>> /\ reSendQueue[Srv] = <<>>
  BY <1>1 DEF Init, Up, Down
<1>7. Listed(<<>>) = {}
  BY ListedFew
<1>8. UpNumbers /\ DownNumbers /\ EntryNumbers
  BY <1>6, <1>7 DEF UpNumbers, DownNumbers, EntryNumbers, SynsFirst
<1> QED
  BY <1>4, <1>5, <1>8 DEF Numbers

\* A packet that arrives.
LEMMA NumbersDeliver ==
  ASSUME OnePair, TypeOK, Connection, Numbers,
         NEW l \in Link, Deliver(l[1], l[2])
  PROVE  Numbers'
<1>1. net[<<l[1], l[2]>>] # <<>>
  BY DEF Deliver, ReceiveSYN, ReceiveSYNACK, AckOfSYN, AckOfFINorData, AckOfLastFIN,
         AckIgnored, FinOfClient, FinAgain, FinOfServer, FinIgnored, QueueDATA, Arrives
<1>2. \/ l[1] = Cli /\ l[2] = Srv
      \/ l[1] = Srv /\ l[2] = Cli
      \/ l[1] = l[2] /\ l[1] \in Node
  BY TheNodes
<1>3. ~(l[1] = l[2] /\ l[1] \in Node)
  BY <1>1 DEF Connection, InFlight
<1>4. CASE l[1] = Cli /\ l[2] = Srv
  <2>1. Deliver(Cli, Srv)
    BY <1>4
  <2>2. ~ReceiveSYNACK(Cli, Srv) /\ ~FinOfServer(Cli, Srv)
    BY StepReceiveSYNACK, StepFinOfServer
  <2> QED
    BY <2>1, <2>2, NumbersReceiveSYN, NumbersAckOfSYN, NumbersAckOfDataAtServer,
       NumbersAckOfLastFIN, NumbersAckFinIgnored, NumbersFinOfClient, NumbersFinAgain,
       NumbersQueueDATA DEF Deliver
<1>5. CASE l[1] = Srv /\ l[2] = Cli
  <2>1. Deliver(Srv, Cli)
    BY <1>5
  <2>2. /\ ~AckOfSYN(Srv, Cli) /\ ~AckOfLastFIN(Srv, Cli) /\ ~FinOfClient(Srv, Cli)
        /\ ~FinAgain(Srv, Cli) /\ ~QueueDATA(Srv, Cli)
    BY StepAckOfSYN, StepAckOfLastFIN, StepFinOfClient, StepFinAgain, StepQueueDATA
  <2> QED
    BY <2>1, <2>2, NumbersReceiveSYN, NumbersReceiveSYNACK, NumbersAckAtClient,
       NumbersAckFinIgnored, NumbersFinOfServer DEF Deliver
<1> QED
  BY <1>2, <1>3, <1>4, <1>5

\* The numbers after every step.
LEMMA NumbersNext ==
  ASSUME OnePair, TypeOK, Connection, Numbers, [Next]_vars
  PROVE  Numbers'
<1>1. ASSUME NEW n \in Node, UserCommand(n) PROVE Numbers'
  BY <1>1, NumbersInitServer, NumbersDial, NumbersClose DEF UserCommand
<1>2. ASSUME NEW n \in Node, Scheduled(n) PROVE Numbers'
  <2>1. ReSendTimerFired(n) => Numbers'
    BY TheNodes, NumbersReSendByCli, NumbersReSendBySrv
  <2> QED
    BY <1>2, <2>1, NumbersReceiveDATA, NumbersDataTimerFired, NumbersCloseTimerFired,
       NumbersCloseTask DEF Scheduled
<1>3. ASSUME NEW l \in Link, Deliver(l[1], l[2]) PROVE Numbers'
  BY <1>3, NumbersDeliver
<1>4. ASSUME NEW l \in Link, Lose(l) PROVE Numbers'
  BY <1>4, NumbersLose
<1>5. CASE UNCHANGED vars
  <2>1. UNCHANGED <<sock, fdVars, net, reSendVars, receiveVars>>
    BY <1>5 DEF vars
  <2>2. UNCHANGED <<reSendQueue, receiveQueue>> /\ Up' = Up /\ Down' = Down
    BY <2>1 DEF Up, Down, reSendVars, receiveVars
  <2> QED
    BY <2>1, <2>2, SynsOfDown, NumbersKept
<1> QED
  BY <1>1, <1>2, <1>3, <1>4, <1>5 DEF Next

\* The counters of two connected sockets agree.
LEMMA NumbersAgree ==
  ASSUME OnePair, TypeOK, Connection, Numbers
  PROVE  SequenceAgreement
<1>1. /\ Established(Cli, Srv) => CFd # NullFd /\ CState = "ESTABLISHED"
      /\ Established(Srv, Cli) => SFd # NullFd /\ SState = "ESTABLISHED"
      /\ Of(Cli, Srv) = CSock /\ Of(Srv, Cli) = SSock
  BY View DEF Established, Has, Of, CFd, SFd, CSock, SSock
<1>2. ASSUME Established(Cli, Srv), Established(Srv, Cli)
      PROVE  \/ SSock.ISN = CSock.pendingSeq
             \/ SSock.ISN = CSock.pendingSeq + 1 /\ CSock.remain # 0
  BY <1>1, <1>2 DEF Numbers, Counters, Waits, Took, Hello
<1> QED
  BY <1>1, <1>2, ThePair DEF SequenceAgreement

\* The counters that gate DATA and FIN agree while both ends are connected, for
\* all draws and lines with which the client stays on the first lap of its ring:
\* where type is WRAP the code has branches of its own, which Spec leaves out.
THEOREM SequencesAgree == OnePair => (Spec => []SequenceAgreement)
<1> SUFFICES ASSUME OnePair PROVE Spec => []SequenceAgreement
  OBVIOUS
<1>1. Init => Numbers
  BY NumbersInit
<1>2. TypeOK /\ Connection /\ Numbers /\ [Next]_vars => Numbers'
  BY NumbersNext
<1>3. TypeOK /\ Connection /\ Numbers => SequenceAgreement
  BY NumbersAgree
<1> QED
  BY <1>1, <1>2, <1>3, Invariant, PTL DEF Spec
=============================================================================
