-------------------------- MODULE TransportSession --------------------------
(***************************************************************************)
(* The life of a connection in TransportP.nc: SYN / SYN+ACK / ACK, the     *)
(* "hello" that AppP.nc writes as soon as it is connected, and the FIN     *)
(* exchange, with the queues, the shared timers and the socket table that  *)
(* drive them.  Every handler and task is one action: TinyOS runs each of  *)
(* them to completion.  IP delivers between two nodes in order, and loses  *)
(* what a full send pool or the radio drops (IPP.nc, SimpleSendP.nc).      *)
(*                                                                         *)
(* Abstracted: ports, windows and round trip times; the bytes of the one   *)
(* line "hello <name>", HelloLen positions of the send buffer that fit in  *)
(* one segment.  What a client writes stays on the first lap of its buffer  *)
(* (FirstLap).  A timer may fire at any time while it runs.                *)
(***************************************************************************)
EXTENDS Integers, Sequences, FiniteSets

CONSTANTS
  Node,         \* the nodes of the network
  Servers,      \* the nodes where the user starts a server
  NoNode,       \* the address field of a socket that was never connected
  MaxSockets,   \* MAX_NUM_OF_SOCKETS (10 in socket.h)
  RandSeq,      \* the values Random may draw for a sequence number
  HelloLen,     \* length of the line that connectDone writes
  ReSendCap,    \* capacity of ReSendQueue (10 in TransportC.nc)
  ReceiveCap,   \* capacity of ReceiveQueue (15 in TransportC.nc)
  ChanCap,      \* packets in flight from one node to another
  MaxLoss,      \* packets that the radio loses in a behaviour
  MaxEarly,     \* retransmissions while an answer is still under way
  MaxBacklog,   \* bytes a client leaves in its send buffer
  MaxDials,     \* connections the user asks for at a node
  PatientUser,  \* the user gives a command only when the last one settled
  LongTimeWait  \* the 30 RTT of TIME_WAIT outlast the peer's retransmissions

Fd == 0 .. MaxSockets - 1
NullFd == 255                   \* NULL_SOCKET, and AppP's "no socket"
Link == Node \X Node
Byte == 0 .. 255
Pos == 0 .. 127                 \* positions of a buffer of SOCKET_BUFFER_SIZE

ASSUME NodeAssumption == /\ Servers \subseteq Node
                         /\ NoNode \notin Node
ASSUME SizeAssumption == /\ MaxSockets \in 1 .. 255
                         /\ ReSendCap \in Nat \ {0}
                         /\ ReceiveCap \in Nat \ {0}
                         /\ ChanCap \in Nat \ {0}
                         /\ MaxLoss \in Nat
                         /\ MaxEarly \in Nat
                         /\ MaxBacklog \in Pos
                         /\ MaxDials \in Nat
\* connect draws rand16() % 126 (an accepted socket % 127, and never writes)
ASSUME SeqAssumption == /\ RandSeq \subseteq 0 .. 125
                        /\ HelloLen \in 1 .. 26
ASSUME ModeAssumption == /\ PatientUser \in BOOLEAN
                         /\ LongTimeWait \in BOOLEAN

State == {"CLOSED", "LISTEN", "ESTABLISHED", "SYN_SENT", "SYN_RCVD",
          "FIN_WAIT_1", "FIN_WAIT_2", "TIME_WAIT", "LAST_ACK"}

Packet == [flag : {"SYN", "ACK", "FIN", "DATA"}, seq : Byte, ack : Byte]

Socket == [state : State, dest : Node \cup {NoNode},
           inUse : BOOLEAN, reSend : BOOLEAN, isResend : BOOLEAN,
           ISN : Byte, pendingSeq : Byte, nextExpected : Byte,
           lastSent : Byte, lastAck : Byte, lastWritten : Pos, remain : Byte]

ReSendEntry == [fd : Fd, dest : Node, pkt : Packet]
Received == [from : Node, pkt : Packet]
User == [accept : BOOLEAN, fd : Fd \cup {NullFd}]

VARIABLES
  sock,           \* socketArray, with socketInUse and reSend
  fdQueue,        \* FDQueue: free descriptors, the last one is handed out first
  socketTable,    \* SocketTable: peer |-> descriptor, NullFd when absent
  globalFd,       \* global_fd, the listener
  reSendQueue, reSendTimer,
  dataTimer,      \* ReSendDataTimer
  closeQueue, closeTimer, closePosted,
  receiveQueue, receivePosted,
  localFd,        \* AppP.local_fd
  users,          \* AppP.users
  dialed,         \* connections the user has asked for at the node
  net,            \* packets in flight on each link, in order
  lost,           \* packets lost so far
  early           \* early retransmissions so far

fdVars == <<fdQueue, socketTable, globalFd>>
reSendVars == <<reSendQueue, reSendTimer>>
closeVars == <<closeQueue, closeTimer, closePosted>>
receiveVars == <<receiveQueue, receivePosted>>
appVars == <<localFd, users, dialed>>
vars == <<sock, fdVars, reSendVars, dataTimer, closeVars, receiveVars,
          appVars, net, lost, early>>

-----------------------------------------------------------------------------
(* Helpers                                                                 *)

\* a uint8_t holds its value modulo 256
U8(x) == x % 256

\* ListC.pushback: a full list silently ignores the element
PushBack(q, cap, x) == IF Len(q) < cap THEN Append(q, x) ELSE q

\* ListC.popback on an empty list returns what lies there, 0 in this build
PopBack(q) == IF q = <<>> THEN 0 ELSE q[Len(q)]
AllButLast_Kept(q) == q     \* variant: the size is not decremented
AllButLast(q) == SubSeq(q, 1, Len(q) - 1)

\* HashmapC.get of a key that is absent returns map[0].value, which is 0
Lookup(n, peer) == IF socketTable[n][peer] = NullFd THEN 0
                                                    ELSE socketTable[n][peer]

Pkt(flag, seq, ack) == [flag |-> flag, seq |-> U8(seq), ack |-> U8(ack)]

\* IP.send of several packets in a row; those that find the pool empty are gone
Send(channels, n, to, pkts) ==
  [channels EXCEPT ![<<n, to>>] =
     LET all == @ \o pkts
     IN  SubSeq(all, 1, IF Len(all) < ChanCap THEN Len(all) ELSE ChanCap)]

Consumed(l) == [net EXCEPT ![l] = Tail(@)]

\* sendData of a backlog that fits in one segment, and its retransmission
DataPkt(s) == Pkt("DATA", s.lastSent, s.pendingSeq + 1)

\* bound: a line is written only if it ends before the end of the buffer.  One
\* that passes it makes the type WRAP, for which write, sendData and update have
\* other branches (TcpStream has them); here the type is always TYPICAL.
FirstLap(s) == s.lastWritten + HelloLen < 128

\* the socket after AppP.connectDone wrote its line, on the first lap
AfterWrite(s) ==
  LET written == (s.lastWritten + HelloLen) % 128
  IN  IF s.remain = 0
      THEN [s EXCEPT !.lastWritten = written, !.remain = HelloLen,
                     !.lastSent = written, !.isResend = TRUE]
      ELSE [s EXCEPT !.lastWritten = written, !.remain = U8(@ + HelloLen)]

\* the position an ACK acknowledges: (ack_num - 1) % 128 is 255 for ack_num = 0
Acked(pkt) == IF pkt.ack = 0 THEN 255 ELSE (pkt.ack - 1) % 128
IsNews(s, pkt) == Acked(pkt) > s.lastAck /\ Acked(pkt) <= s.lastSent

\* the bytes that update() leaves unacknowledged
Unacked(s, pkt) == LET distance == (s.lastSent - Acked(pkt)) % 128
                   IN  IF distance < s.remain THEN distance ELSE s.remain

\* variants of update(): pending_seq is not advanced, remain is not lowered,
\* the acknowledgement of anything already ends the retransmission
AfterUpdate_OldSeq(s, pkt) ==
  IF IsNews(s, pkt)
  THEN [s EXCEPT !.lastAck = Acked(pkt), !.remain = Unacked(s, pkt)]
  ELSE s
AfterUpdate_OldRemain(s, pkt) ==
  IF IsNews(s, pkt)
  THEN [s EXCEPT !.lastAck = Acked(pkt), !.pendingSeq = pkt.seq]
  ELSE s
AfterUpdate_StopsResend(s, pkt) ==
  IF IsNews(s, pkt)
  THEN [s EXCEPT !.lastAck = Acked(pkt), !.pendingSeq = pkt.seq,
                 !.remain = Unacked(s, pkt), !.isResend = FALSE]
  ELSE s

\* update(), in its TYPICAL branch, the only one on the first lap
AfterUpdate(s, pkt) ==
  IF IsNews(s, pkt)
  THEN [s EXCEPT !.lastAck = Acked(pkt), !.pendingSeq = pkt.seq,
                 !.remain = Unacked(s, pkt)]
  ELSE s

\* variant: the timer is not started
Arm_Unarmed(n, fd, to, pkt) ==
  /\ reSendQueue' = [reSendQueue EXCEPT
       ![n] = PushBack(@, ReSendCap, [fd |-> fd, dest |-> to, pkt |-> pkt])]
  /\ UNCHANGED reSendTimer
\* makeReSend, then ReSendTimer.startOneShot
Arm(n, fd, to, pkt) ==
  /\ reSendQueue' = [reSendQueue EXCEPT
       ![n] = PushBack(@, ReSendCap, [fd |-> fd, dest |-> to, pkt |-> pkt])]
  /\ reSendTimer' = [reSendTimer EXCEPT ![n] = TRUE]

-----------------------------------------------------------------------------
EmptySocket == [state |-> "CLOSED", dest |-> NoNode,
                inUse |-> FALSE, reSend |-> FALSE, isResend |-> FALSE,
                ISN |-> 0, pendingSeq |-> 0, nextExpected |-> 0,
                lastSent |-> 0, lastAck |-> 0, lastWritten |-> 0, remain |-> 0]

Init ==
  /\ sock = [n \in Node |-> [fd \in Fd |-> EmptySocket]]
  /\ fdQueue = [n \in Node |-> [i \in 1 .. MaxSockets |-> MaxSockets - i]]
  /\ socketTable = [n \in Node |-> [peer \in Node |-> NullFd]]
  /\ globalFd = [n \in Node |-> 0]
  /\ reSendQueue = [n \in Node |-> <<>>]
  /\ reSendTimer = [n \in Node |-> FALSE]
  /\ dataTimer = [n \in Node |-> FALSE]
  /\ closeQueue = [n \in Node |-> <<>>]
  /\ closeTimer = [n \in Node |-> FALSE]
  /\ closePosted = [n \in Node |-> FALSE]
  /\ receiveQueue = [n \in Node |-> <<>>]
  /\ receivePosted = [n \in Node |-> FALSE]
  /\ localFd = [n \in Node |-> NullFd]
  /\ users = [n \in Node |-> [peer \in Node |-> [accept |-> FALSE, fd |-> 0]]]
  /\ dialed = [n \in Node |-> 0]
  /\ net = [l \in Link |-> <<>>]
  /\ lost = 0
  /\ early = 0

-----------------------------------------------------------------------------
(* Commands of the user                                                    *)

\* nothing of an earlier command is under way between the two nodes
Settled(n, peer) ==
  /\ net[<<n, peer>>] = <<>> /\ net[<<peer, n>>] = <<>>
  /\ ~reSendTimer[n] /\ ~reSendTimer[peer]
  /\ ~receivePosted[peer]
  /\ \A fd \in Fd : ~sock[n][fd].isResend

\* Transport.initServer: socket, bind and listen
InitServer(n) ==
  /\ n \in Servers
  /\ \A fd \in Fd : sock[n][fd].state = "CLOSED"
  /\ fdQueue[n] # <<>>
  /\ LET fd == PopBack(fdQueue[n])
     IN  /\ ~sock[n][fd].inUse
         /\ sock' = [sock EXCEPT ![n][fd].inUse = TRUE,
                                 ![n][fd].state = "LISTEN"]
         /\ globalFd' = [globalFd EXCEPT ![n] = fd]
  /\ fdQueue' = [fdQueue EXCEPT ![n] = AllButLast(@)]
  /\ UNCHANGED <<socketTable, reSendVars, dataTimer, closeVars, receiveVars,
                 appVars, net, lost, early>>

\* Transport.initClientAndConnect: socket, bind, connect, SocketTable.insert.
\* The user dials a peer it has no connection with.
Dial(n, server) ==
  /\ n \notin Servers /\ server \in Servers
  /\ dialed[n] < MaxDials
  /\ socketTable[n][server] = NullFd
  /\ PatientUser => Settled(n, server) /\ socketTable[server][n] = NullFd
  /\ fdQueue[n] # <<>>
  /\ LET fd == PopBack(fdQueue[n])
     IN  /\ ~sock[n][fd].inUse
         /\ sock[n][fd].state = "CLOSED"
         /\ \E r \in RandSeq :
              /\ sock' = [sock EXCEPT ![n][fd] =
                   [@ EXCEPT !.inUse = TRUE, !.state = "SYN_SENT",
                             !.dest = server, !.ISN = r, !.lastSent = r,
                             !.lastAck = r, !.lastWritten = r,
                             !.reSend = TRUE]]
              /\ Arm(n, fd, server, Pkt("SYN", r, 0))
              /\ net' = Send(net, n, server, <<Pkt("SYN", r, 0)>>)
         /\ socketTable' = [socketTable EXCEPT ![n][server] = fd]
  /\ fdQueue' = [fdQueue EXCEPT ![n] = AllButLast(@)]
  /\ dialed' = [dialed EXCEPT ![n] = @ + 1]
  /\ UNCHANGED <<globalFd, dataTimer, closeVars, receiveVars, localFd, users,
                 lost, early>>

\* App.close, and Transport.close of the socket it holds
Close(n) ==
  /\ localFd[n] # NullFd
  /\ LET fd == localFd[n]
         peer == sock[n][fd].dest
         seq == U8(sock[n][fd].lastSent + 1)
         fin == Pkt("FIN", seq, sock[n][fd].pendingSeq + 1)
     IN  /\ sock[n][fd].state \in {"ESTABLISHED", "FIN_WAIT_1"}
         /\ PatientUser => /\ sock[n][fd].state = "ESTABLISHED"
                           /\ sock[n][fd].remain = 0
                           /\ Settled(n, peer)
         /\ sock' = [sock EXCEPT ![n][fd].state = "FIN_WAIT_1",
                                 ![n][fd].lastSent = seq,
                                 ![n][fd].reSend = TRUE]
         /\ Arm(n, fd, peer, fin)
         /\ net' = Send(net, n, peer, <<fin>>)
  /\ UNCHANGED <<fdVars, dataTimer, closeVars, receiveVars, appVars, lost,
                 early>>

-----------------------------------------------------------------------------
(* Packets that arrive (IP.gotTCP)                                         *)

Arrives(from, n, flag) == /\ net[<<from, n>>] # <<>>
                          /\ Head(net[<<from, n>>]).flag = flag

\* a handler that returns without effect
Ignored(from, n) ==
  /\ net' = Consumed(<<from, n>>)
  /\ UNCHANGED <<sock, fdVars, reSendVars, dataTimer, closeVars, receiveVars,
                 appVars, lost, early>>

\* a handler that only answers
Answered(from, n, pkts) ==
  /\ net' = Send(Consumed(<<from, n>>), n, from, pkts)
  /\ UNCHANGED <<sock, fdVars, reSendVars, dataTimer, closeVars, receiveVars,
                 appVars, lost, early>>

\* receiveSYN: a known peer keeps its socket and its ISN.  The insert comes
\* before the second contains, so that a new socket keeps its ISN too.
ReceiveSYN(from, n) ==
  /\ Arrives(from, n, "SYN")
  /\ Head(net[<<from, n>>]).ack = 0
  /\ IF sock[n][globalFd[n]].state # "LISTEN"
     THEN Ignored(from, n)
     ELSE LET pkt == Head(net[<<from, n>>])
              known == socketTable[n][from] # NullFd
              fd == IF known THEN socketTable[n][from] ELSE PopBack(fdQueue[n])
              reply == Pkt("SYN", sock[n][fd].ISN, pkt.seq + 1)
          IN  /\ sock' = [sock EXCEPT ![n][fd] =
                   [@ EXCEPT !.state = "SYN_RCVD", !.dest = from,
                             !.nextExpected = U8(pkt.seq + 1),
                             !.reSend = TRUE]]
              /\ socketTable' = [socketTable EXCEPT ![n][from] = fd]
              /\ fdQueue' = [fdQueue EXCEPT
                               ![n] = IF known \/ @ = <<>> THEN @
                                                           ELSE AllButLast(@)]
              /\ IF sock[n][fd].reSend THEN UNCHANGED reSendVars
                                       ELSE Arm(n, fd, from, reply)
              /\ net' = Send(Consumed(<<from, n>>), n, from, <<reply>>)
              /\ UNCHANGED <<globalFd, dataTimer, closeVars, receiveVars,
                             appVars, lost, early>>

\* receiveSYNACK, whatever the state of the socket, and the connectDone it
\* signals: the application writes its line
ReceiveSYNACK(from, n) ==
  /\ Arrives(from, n, "SYN")
  /\ Head(net[<<from, n>>]).ack # 0
  /\ IF socketTable[n][from] = NullFd
     THEN Ignored(from, n)
     ELSE LET pkt == Head(net[<<from, n>>])
              fd == socketTable[n][from]
              open == [sock[n][fd] EXCEPT !.state = "ESTABLISHED",
                                          !.pendingSeq = U8(pkt.seq + 1),
                                          !.reSend = FALSE]
              written == AfterWrite(open)
              transmits == open.remain = 0
              ack == Pkt("ACK", pkt.ack, pkt.seq + 1)
          IN  /\ FirstLap(open) /\ open.remain + HelloLen <= MaxBacklog
              /\ sock' = [sock EXCEPT ![n][fd] = written]
              /\ localFd' = [localFd EXCEPT ![n] = fd]
              /\ dataTimer' = [dataTimer EXCEPT ![n] = @ \/ transmits]
              /\ net' = Send(Consumed(<<from, n>>), n, from,
                             IF transmits THEN <<ack, DataPkt(written)>>
                                          ELSE <<ack>>)
              /\ UNCHANGED <<fdVars, reSendVars, closeVars, receiveVars,
                             users, dialed, lost, early>>

\* receiveACK, case SYN_RCVD, and the accepted it signals
AckOfSYN(from, n) ==
  /\ Arrives(from, n, "ACK")
  /\ LET pkt == Head(net[<<from, n>>])
         fd == Lookup(n, from)
     IN  /\ sock[n][fd].state = "SYN_RCVD"
         /\ IF pkt.ack # sock[n][fd].ISN + 1
            THEN Ignored(from, n)
            ELSE /\ \E r \in RandSeq :
                      sock' = [sock EXCEPT ![n][fd] =
                        [@ EXCEPT !.ISN = U8(sock[n][fd].ISN + 1),
                                  !.state = "ESTABLISHED",
                                  !.reSend = FALSE,
                                  !.pendingSeq = U8(pkt.seq - 1),
                                  !.lastWritten = r, !.lastSent = r,
                                  !.lastAck = r]]
                 /\ users' = [users EXCEPT
                      ![n][from] = [accept |-> TRUE, fd |-> fd]]
                 /\ net' = Consumed(<<from, n>>)
                 /\ UNCHANGED <<fdVars, reSendVars, dataTimer, closeVars,
                                receiveVars, localFd, dialed, lost, early>>

\* the ACK of our FIN, which took one sequence number
AcksFin_NoPlusOne(s, pkt) == pkt.ack = s.lastSent   \* variant: off by one
AcksFin(s, pkt) == pkt.ack = s.lastSent + 1

\* receiveACK, cases FIN_WAIT_1 and ESTABLISHED
AckOfFINorData(from, n) ==
  /\ Arrives(from, n, "ACK")
  /\ LET pkt == Head(net[<<from, n>>])
         fd == Lookup(n, from)
         s == sock[n][fd]
     IN  /\ s.state \in {"FIN_WAIT_1", "ESTABLISHED"}
         /\ sock' = [sock EXCEPT ![n][fd] =
              IF s.state = "ESTABLISHED" THEN AfterUpdate(s, pkt)
              ELSE IF AcksFin(s, pkt)
                   THEN [s EXCEPT !.state = "FIN_WAIT_2", !.reSend = FALSE]
                   ELSE s]
         /\ net' = Consumed(<<from, n>>)
         /\ UNCHANGED <<fdVars, reSendVars, dataTimer, closeVars, receiveVars,
                        appVars, lost, early>>

\* variant: the server keeps the user
Forget_ServerKeeps(n, fd) ==
  /\ localFd' = [localFd EXCEPT ![n] = IF n \in Servers THEN @ ELSE NullFd]
  /\ UNCHANGED users
\* AppP.closeConnect: a client forgets its socket, the server the user of it
Forget(n, fd) ==
  IF n \in Servers
  THEN /\ users' = [users EXCEPT ![n] =
            [peer \in Node |-> IF @[peer].fd = fd
                               THEN [accept |-> FALSE, fd |-> NullFd]
                               ELSE @[peer]]]
       /\ UNCHANGED localFd
  ELSE /\ localFd' = [localFd EXCEPT ![n] = NullFd]
       /\ UNCHANGED users

\* receiveACK, case LAST_ACK, and the closeConnect it signals
AckOfLastFIN(from, n) ==
  /\ Arrives(from, n, "ACK")
  /\ LET pkt == Head(net[<<from, n>>])
         fd == Lookup(n, from)
     IN  /\ sock[n][fd].state = "LAST_ACK"
         /\ IF pkt.ack # sock[n][fd].ISN + 1
            THEN Ignored(from, n)
            ELSE /\ sock' = [sock EXCEPT ![n][fd] =
                      [@ EXCEPT !.reSend = FALSE, !.state = "CLOSED",
                                !.inUse = FALSE]]
                 /\ socketTable' = [socketTable EXCEPT ![n][from] = NullFd]
                 /\ fdQueue' = [fdQueue EXCEPT ![n] = Append(@, fd)]
                 /\ Forget(n, fd)
                 /\ net' = Consumed(<<from, n>>)
                 /\ UNCHANGED <<globalFd, reSendVars, dataTimer, closeVars,
                                receiveVars, dialed, lost, early>>

\* receiveACK in any other state
AckIgnored(from, n) ==
  /\ Arrives(from, n, "ACK")
  /\ sock[n][Lookup(n, from)].state \notin
       {"SYN_RCVD", "FIN_WAIT_1", "LAST_ACK", "ESTABLISHED"}
  /\ Ignored(from, n)

\* the socket passes through CLOSE_WAIT and waits for the last ACK; the
\* variant stays there
AfterFin_CloseWait(s) == [s EXCEPT !.state = "CLOSE_WAIT", !.reSend = TRUE]
AfterFin(s) == [s EXCEPT !.state = "LAST_ACK", !.reSend = TRUE]

\* receiveFIN, case ESTABLISHED: ACK, then FIN (CLOSE_WAIT is left at once)
FinOfClient(from, n) ==
  /\ Arrives(from, n, "FIN")
  /\ LET pkt == Head(net[<<from, n>>])
         fd == Lookup(n, from)
         s == sock[n][fd]
         fin == Pkt("FIN", s.ISN, pkt.seq + 1)
     IN  /\ s.state = "ESTABLISHED"
         /\ IF pkt.ack # s.ISN + 1
            THEN Ignored(from, n)
            ELSE /\ sock' = [sock EXCEPT ![n][fd] = AfterFin(s)]
                 /\ Arm(n, fd, s.dest, fin)
                 /\ net' = Send(Consumed(<<from, n>>), n, s.dest,
                                <<Pkt("ACK", s.ISN, pkt.seq + 1), fin>>)
                 /\ UNCHANGED <<fdVars, dataTimer, closeVars, receiveVars,
                                appVars, lost, early>>

\* receiveFIN, case LAST_ACK: the FIN was sent again
FinAgain(from, n) ==
  /\ Arrives(from, n, "FIN")
  /\ LET pkt == Head(net[<<from, n>>])
         s == sock[n][Lookup(n, from)]
     IN  /\ s.state = "LAST_ACK"
         /\ IF pkt.ack # s.ISN + 1
            THEN Ignored(from, n)
            ELSE Answered(from, n, <<Pkt("ACK", s.ISN, pkt.seq + 1)>>)

\* receiveFIN, cases FIN_WAIT_2 and TIME_WAIT: CloseTimer starts, or starts
\* again if it still runs
FinOfServer(from, n) ==
  /\ Arrives(from, n, "FIN")
  /\ LET pkt == Head(net[<<from, n>>])
         fd == Lookup(n, from)
         s == sock[n][fd]
     IN  /\ s.state \in {"FIN_WAIT_2", "TIME_WAIT"}
         /\ IF pkt.ack # s.lastSent + 1
            THEN Ignored(from, n)
            ELSE /\ sock' = [sock EXCEPT ![n][fd].state = "TIME_WAIT"]
                 /\ IF s.state = "FIN_WAIT_2"
                    THEN /\ closeQueue' = [closeQueue EXCEPT
                              ![n] = PushBack(@, MaxSockets, fd)]
                         /\ closeTimer' = [closeTimer EXCEPT ![n] = TRUE]
                    ELSE UNCHANGED <<closeQueue, closeTimer>>
                 /\ net' = Send(Consumed(<<from, n>>), n, s.dest,
                                <<Pkt("ACK", s.ISN, pkt.seq + 1)>>)
                 /\ UNCHANGED <<fdVars, reSendVars, dataTimer, closePosted,
                                receiveVars, appVars, lost, early>>

\* receiveFIN in any other state
FinIgnored(from, n) ==
  /\ Arrives(from, n, "FIN")
  /\ sock[n][Lookup(n, from)].state \notin
       {"ESTABLISHED", "LAST_ACK", "FIN_WAIT_2", "TIME_WAIT"}
  /\ Ignored(from, n)

\* gotTCP of DATA: queue it and post receiveDATA, which is a task
QueueDATA(from, n) ==
  /\ Arrives(from, n, "DATA")
  /\ receiveQueue' = [receiveQueue EXCEPT ![n] =
       PushBack(@, ReceiveCap, [from |-> from, pkt |-> Head(net[<<from, n>>])])]
  /\ receivePosted' = [receivePosted EXCEPT ![n] = TRUE]
  /\ net' = Consumed(<<from, n>>)
  /\ UNCHANGED <<sock, fdVars, reSendVars, dataTimer, closeVars, appVars, lost,
                 early>>

-----------------------------------------------------------------------------
(* Tasks and timers                                                        *)

\* task receiveDATA: the next segment is taken when ack_num announces it, and
\* every segment is answered
ReceiveDATA(n) ==
  /\ receivePosted[n] /\ receiveQueue[n] # <<>>
  /\ LET r == Head(receiveQueue[n])
         fd == Lookup(n, r.from)
         s == sock[n][fd]
         next == IF r.pkt.ack = s.ISN + 1
                 THEN [s EXCEPT !.ISN = U8(@ + 1),
                                !.nextExpected = (r.pkt.seq + 1) % 128]
                 ELSE s
     IN  IF s.state # "ESTABLISHED"
         THEN UNCHANGED <<sock, net>>
         ELSE /\ sock' = [sock EXCEPT ![n][fd] = next]
              /\ net' = Send(net, n, r.from,
                             <<Pkt("ACK", next.ISN, next.nextExpected)>>)
  /\ receiveQueue' = [receiveQueue EXCEPT ![n] = Tail(@)]
  /\ receivePosted' = [receivePosted EXCEPT ![n] = FALSE]
  /\ UNCHANGED <<fdVars, reSendVars, dataTimer, closeVars, appVars, lost, early>>

\* a timer of 2 RTT that fires while packets between the two ends are still
\* under way fires early: the estimate of the RTT was too short
Patiently(n, peer) ==
  IF /\ net[<<n, peer>>] = <<>> /\ net[<<peer, n>>] = <<>>
     /\ ~receivePosted[peer]
  THEN UNCHANGED early
  ELSE early < MaxEarly /\ early' = early + 1

\* an entry whose socket no longer waits leaves the queue; the variant keeps it
Dropped_Kept(q) == q
Dropped(q) == Tail(q)

\* ReSendTimer.fired: the oldest entry is sent and queued again, or dropped.
\* A dropped entry does not start the timer for those behind it.
ReSendTimerFired(n) ==
  /\ reSendTimer[n] /\ reSendQueue[n] # <<>>
  /\ LET entry == Head(reSendQueue[n])
     IN  IF sock[n][entry.fd].reSend
         THEN /\ Patiently(n, entry.dest)
              /\ reSendQueue' = [reSendQueue EXCEPT ![n] = Append(Tail(@), entry)]
              /\ net' = Send(net, n, entry.dest, <<entry.pkt>>)
              /\ UNCHANGED reSendTimer
         ELSE /\ reSendQueue' = [reSendQueue EXCEPT ![n] = Dropped(@)]
              /\ reSendTimer' = [reSendTimer EXCEPT ![n] = FALSE]
              /\ UNCHANGED <<net, early>>
  /\ UNCHANGED <<sock, fdVars, dataTimer, closeVars, receiveVars, appVars, lost>>

\* ReSendDataTimer.fired and reSendData of the sockets that are due: a socket
\* with nothing left stops, any other sends what is not acknowledged again
DataTimerFired(n) ==
  /\ dataTimer[n]
  /\ LET done(s) == s.remain = 0 /\ s.state = "ESTABLISHED"
     IN  \E fd \in Fd :
           /\ sock[n][fd].isResend
           /\ IF done(sock[n][fd])
              THEN /\ sock' = [sock EXCEPT ![n][fd].isResend = FALSE]
                   /\ dataTimer' = [dataTimer EXCEPT ![n] = FALSE]
                   /\ UNCHANGED <<net, early>>
              ELSE /\ Patiently(n, sock[n][fd].dest)
                   /\ net' = Send(net, n, sock[n][fd].dest,
                                  <<DataPkt(sock[n][fd])>>)
                   /\ UNCHANGED <<sock, dataTimer>>
  /\ UNCHANGED <<fdVars, reSendVars, closeVars, receiveVars, appVars, lost>>

\* 30 RTT: the peer sends its FIN again every 2 RTT until it is acknowledged
TimeWaitIsOver(n) ==
  \A peer \in Node :
     /\ socketTable[n][peer] # NullFd
     /\ sock[n][socketTable[n][peer]].state = "TIME_WAIT"
     => socketTable[peer][n] = NullFd

\* CloseTimer.fired posts closeTask
CloseTimerFired(n) ==
  /\ closeTimer[n]
  /\ LongTimeWait => TimeWaitIsOver(n)
  /\ closeTimer' = [closeTimer EXCEPT ![n] = FALSE]
  /\ closePosted' = [closePosted EXCEPT ![n] = TRUE]
  /\ UNCHANGED <<sock, fdVars, reSendVars, dataTimer, closeQueue, receiveVars,
                 appVars, net, lost, early>>

\* task closeTask, and the closeConnect it signals
CloseTask(n) ==
  /\ closePosted[n] /\ closeQueue[n] # <<>>
  /\ LET fd == Head(closeQueue[n])
         peer == sock[n][fd].dest
     IN  /\ sock' = [sock EXCEPT ![n][fd].state = "CLOSED",
                                 ![n][fd].inUse = FALSE]
         /\ fdQueue' = [fdQueue EXCEPT ![n] = Append(@, fd)]
         /\ socketTable' = [socketTable EXCEPT ![n][peer] = NullFd]
         /\ Forget(n, fd)
  /\ closeQueue' = [closeQueue EXCEPT ![n] = Tail(@)]
  /\ closePosted' = [closePosted EXCEPT ![n] = FALSE]
  /\ UNCHANGED <<globalFd, reSendVars, dataTimer, closeTimer, receiveVars,
                 dialed, net, lost, early>>

\* the radio loses the packet at the head of a link
Lose(l) ==
  /\ lost < MaxLoss
  /\ net[l] # <<>>
  /\ net' = Consumed(l)
  /\ lost' = lost + 1
  /\ UNCHANGED <<sock, fdVars, reSendVars, dataTimer, closeVars, receiveVars,
                 appVars, early>>

-----------------------------------------------------------------------------
Deliver(from, n) ==
  \/ ReceiveSYN(from, n) \/ ReceiveSYNACK(from, n)
  \/ AckOfSYN(from, n) \/ AckOfFINorData(from, n)
  \/ AckOfLastFIN(from, n) \/ AckIgnored(from, n)
  \/ FinOfClient(from, n) \/ FinAgain(from, n)
  \/ FinOfServer(from, n) \/ FinIgnored(from, n)
  \/ QueueDATA(from, n)

Scheduled(n) ==
  \/ ReceiveDATA(n) \/ ReSendTimerFired(n) \/ DataTimerFired(n)
  \/ CloseTimerFired(n) \/ CloseTask(n)

UserCommand(n) ==
  \/ InitServer(n)
  \/ \E server \in Servers : Dial(n, server)
  \/ Close(n)

Next ==
  \/ \E n \in Node : UserCommand(n) \/ Scheduled(n)
  \/ \E l \in Link : Deliver(l[1], l[2]) \/ Lose(l)

Spec == Init /\ [][Next]_vars

(* Fairness: what is in flight arrives or is lost, the scheduler runs every *)
(* posted task, and a timer that is running or started again and again      *)
(* fires.  Nothing is assumed of the user, and losses are not owed.         *)
FairSpec ==
  /\ Spec
  /\ \A l \in Link : WF_vars(Deliver(l[1], l[2]))
  /\ \A n \in Node : /\ WF_vars(ReceiveDATA(n)) /\ WF_vars(CloseTask(n))
                     /\ SF_vars(ReSendTimerFired(n))
                     /\ SF_vars(DataTimerFired(n))
                     /\ SF_vars(CloseTimerFired(n))

-----------------------------------------------------------------------------
(* Properties                                                              *)

\* The types of the variables.
TypeOK ==
  /\ sock \in [Node -> [Fd -> Socket]]
  /\ fdQueue \in [Node -> Seq(Fd)]
  /\ socketTable \in [Node -> [Node -> Fd \cup {NullFd}]]
  /\ globalFd \in [Node -> Fd]
  /\ reSendQueue \in [Node -> Seq(ReSendEntry)]
  /\ reSendTimer \in [Node -> BOOLEAN]
  /\ dataTimer \in [Node -> BOOLEAN]
  /\ closeQueue \in [Node -> Seq(Fd)]
  /\ closeTimer \in [Node -> BOOLEAN]
  /\ closePosted \in [Node -> BOOLEAN]
  /\ receiveQueue \in [Node -> Seq(Received)]
  /\ receivePosted \in [Node -> BOOLEAN]
  /\ localFd \in [Node -> Fd \cup {NullFd}]
  /\ users \in [Node -> [Node -> User]]
  /\ dialed \in [Node -> Nat]
  /\ net \in [Link -> Seq(Packet)]
  /\ lost \in Nat
  /\ early \in Nat

Free(n) == {fdQueue[n][i] : i \in DOMAIN fdQueue[n]}
Owned(n) == {socketTable[n][peer] : peer \in Node} \ {NullFd}
Listening(n) == {fd \in Fd : sock[n][fd].state = "LISTEN"}

\* A descriptor is free, listening or in the table of exactly one peer: none
\* is leaked, handed out twice or freed twice by the four places of the code
\* that move descriptors (socket, receiveSYN, receiveACK, closeTask).
FdAccounting ==
  \A n \in Node :
    /\ Len(fdQueue[n]) = Cardinality(Free(n))
    /\ \A p, q \in Node : socketTable[n][p] = socketTable[n][q]
                          => p = q \/ socketTable[n][p] = NullFd
    /\ Free(n) \cap Owned(n) = {}
    /\ Free(n) \cup Owned(n) \cup Listening(n) = Fd
    /\ Listening(n) \cap (Free(n) \cup Owned(n)) = {}
    /\ \A fd \in Free(n) : sock[n][fd].state = "CLOSED" /\ ~sock[n][fd].inUse

\* The socket of n for peer, and whether there is one.
Has(n, peer) == socketTable[n][peer] # NullFd
Of(n, peer) == sock[n][socketTable[n][peer]]
Established(n, peer) == Has(n, peer) /\ Of(n, peer).state = "ESTABLISHED"
Client == Node \ Servers

\* The counters that gate DATA and FIN agree when both ends are established:
\* the server's ISN is the client's pending_seq, one ahead while the client
\* still waits for the acknowledgement of the hello.  Otherwise no segment
\* and no FIN of the client would ever be accepted again.
SequenceAgreement ==
  \A c \in Client, s \in Servers :
    Established(c, s) /\ Established(s, c)
    => \/ Of(s, c).ISN = Of(c, s).pendingSeq
       \/ Of(s, c).ISN = Of(c, s).pendingSeq + 1 /\ Of(c, s).remain # 0

\* The application of the server knows exactly the peers it is connected to,
\* by the descriptor the transport uses for them, through every order of
\* accepted, closeConnect and the reuse of descriptors.
UsersMatchSockets ==
  \A s \in Servers, c \in Client :
    /\ users[s][c].accept => Has(s, c) /\ users[s][c].fd = socketTable[s][c]
    /\ Has(s, c) => (users[s][c].accept
                     <=> Of(s, c).state \in {"ESTABLISHED", "LAST_ACK"})

\* Teardown in order: the server closes only after the client said so, and
\* the client is done only after the server said so.
TeardownOrder ==
  \A c \in Client, s \in Servers :
    Has(c, s) =>
      /\ Has(s, c) /\ Of(s, c).state = "LAST_ACK"
         => Of(c, s).state \in {"FIN_WAIT_1", "FIN_WAIT_2", "TIME_WAIT"}
      /\ Of(c, s).state \in {"FIN_WAIT_2", "TIME_WAIT"}
         => ~Has(s, c) \/ Of(s, c).state = "LAST_ACK"

\* What waits for an answer will be sent again: the entry is in ReSendQueue
\* and the timer shared by all sockets runs.
RetransmissionArmed ==
  \A n \in Node, fd \in Fd :
    sock[n][fd].reSend =>
      /\ reSendTimer[n]
      /\ \E i \in DOMAIN reSendQueue[n] : reSendQueue[n][i].fd = fd

\* A timer or task that is under way finds something to do: popfront is never
\* called on an empty list, and ReSendDataTimer drives exactly one socket.
TimersHaveWork ==
  \A n \in Node :
    /\ reSendTimer[n] => reSendQueue[n] # <<>>
    /\ closeTimer[n] \/ closePosted[n] => closeQueue[n] # <<>>
    /\ receivePosted[n] => receiveQueue[n] # <<>>
    /\ dataTimer[n] <=> Cardinality({fd \in Fd : sock[n][fd].isResend}) = 1

\* The order in which a socket goes through its closing states.
ClosingRank(state) ==
  CASE state = "FIN_WAIT_1" -> 1
    [] state = "FIN_WAIT_2" -> 2
    [] state = "LAST_ACK" -> 2
    [] state = "TIME_WAIT" -> 3
    [] state = "CLOSED" -> 4
    [] OTHER -> 0

\* Once an end has begun to close, late or repeated packets never bring its
\* socket back to an earlier state.
CloseNeverUndone ==
  [][\A n \in Node, fd \in Fd :
       ClosingRank(sock[n][fd].state) \in 1 .. 3
       => ClosingRank(sock'[n][fd].state) >= ClosingRank(sock[n][fd].state)]_vars

\* A server that listens goes on listening: no connection takes its socket.
ListenerStays ==
  [][\A n \in Node : sock[n][globalFd[n]].state = "LISTEN"
                     => sock'[n][globalFd[n]].state = "LISTEN"]_vars

\* A client that dials a listening server gets its connection, at both ends.
Connects ==
  \A c \in Client, s \in Servers :
    Has(c, s) /\ Of(c, s).state = "SYN_SENT" /\ Listening(s) # {}
    ~> Established(c, s) /\ Established(s, c)

\* The line the client writes is acknowledged.
HelloAcknowledged ==
  \A c \in Client, s \in Servers :
    Has(c, s) /\ Of(c, s).remain # 0 ~> Has(c, s) /\ Of(c, s).remain = 0

\* A close ends with both ends rid of the connection.
Closes ==
  \A c \in Client, s \in Servers :
    Has(c, s) /\ Of(c, s).state = "FIN_WAIT_1" ~> ~Has(c, s) /\ ~Has(s, c)
=============================================================================
