------------------------------ MODULE TcpStream ------------------------------
(***************************************************************************)
(* The data of one established connection of TransportP.nc, from the user's *)
(* write to the line that the peer's hasData reads: the ring buffer of the  *)
(* sender, sendData, the go-back-N retransmission of reSendData, update,    *)
(* the task receiveDATA, and a network that loses packets.                  *)
(*                                                                          *)
(* A byte is the number of its place in what was written, so that a run can *)
(* compare what was read with what was written.  The buffer has B positions *)
(* (SOCKET_BUFFER_SIZE, 128) and a uint8_t holds 2*B values.                *)
(***************************************************************************)
EXTENDS Integers, Sequences, FiniteSets

CONSTANTS
  B,            \* SOCKET_BUFFER_SIZE
  S,            \* dataSize: payload of a full segment (26)
  Start,        \* the position that connect drew at random
  LineLens,     \* lengths of the lines that the user writes
  MaxBytes,     \* bytes written in a behaviour
  ReceiveCap,   \* capacity of ReceiveQueue (15)
  ChanCap,      \* packets in flight in a direction
  MaxLoss,      \* packets that are lost
  MaxEarly      \* retransmissions while an answer is still under way

ASSUME SizeAssumption == /\ B \in Nat \ {0} /\ S \in 1 .. B
                         /\ Start \in 0 .. B - 1
                         /\ LineLens \subseteq 1 .. B
                         /\ MaxBytes \in Nat
                         /\ ReceiveCap \in Nat \ {0}
                         /\ ChanCap \in Nat \ {0}
                         /\ MaxLoss \in Nat /\ MaxEarly \in Nat

W == 2 * B                      \* values of a uint8_t
Garbage == 0                    \* what lies outside the written bytes

VARIABLES
  written,      \* bytes accepted by write so far
  lineEnds,     \* the bytes that end a line ("\r\n")
  sendBuff,     \* position |-> byte
  wrap,         \* socketArray[fd].type = WRAP
  lastWritten, lastSent, lastAck, remain, pendingSeq, isResend,
  dataTimer,    \* ReSendDataTimer
  data, acks,   \* segments and acknowledgements in flight
  receiveQueue, receivePosted,
  ISN, nextExpected,            \* of the receiver
  unread,       \* rcvdBuff from lastRead to lastRcvd
  delivered,    \* what hasData has read
  lost, early

userVars == <<written, lineEnds, sendBuff, wrap, lastWritten>>
sendVars == <<lastSent, lastAck, remain, pendingSeq, isResend, dataTimer>>
receiveVars == <<receiveQueue, receivePosted, ISN, nextExpected, unread,
                 delivered>>
vars == <<userVars, sendVars, data, acks, receiveVars, lost, early>>

-----------------------------------------------------------------------------
(* Segments                                                                *)

\* the part of `all` that the send pool had room for; the variant is one off
Fitting_OffByOne(all) ==
  SubSeq(all, 1, IF Len(all) <= ChanCap THEN Len(all) ELSE ChanCap + 1)
Fitting(all) == SubSeq(all, 1, IF Len(all) < ChanCap THEN Len(all) ELSE ChanCap)

PushBack(q, cap, x) == IF Len(q) < cap THEN Append(q, x) ELSE q

\* bytes from lastSent to lastWritten: type WRAP adds a buffer, always
SendSpan(w, written2, sent) == IF w THEN written2 + B - sent
                                    ELSE written2 - sent

\* bytes from lastAck to lastSent
ResendSpan == IF wrap /\ lastSent <= lastAck THEN lastSent + B - lastAck
                                             ELSE lastSent - lastAck

\* The payload of the i-th segment of a span: a full segment is copied around
\* the end of the ring, the shorter one at the end of the span is copied
\* straight on, past the end of the buffer if it must
Payload(buff, from, span, i) ==
  LET start == (from + i * S) % B
      full == (i + 1) * S <= span
  IN  [j \in 1 .. IF full THEN S ELSE span - i * S |->
         IF full THEN buff[(start + j - 1) % B]
         ELSE IF start + j - 1 < B THEN buff[start + j - 1] ELSE Garbage]

\* the segments of a span; seq is the position behind the segment.  An empty
\* span is one empty segment.
Segments(buff, from, span) ==
  LET count == IF span = 0 THEN 1 ELSE (span + S - 1) \div S
  IN  [i \in 1 .. count |->
         LET bytes == Payload(buff, from, span, i - 1)
         IN  [seq |-> (from + (i - 1) * S + Len(bytes)) % B,
              ack |-> (pendingSeq + i) % W,
              bytes |-> bytes]]

-----------------------------------------------------------------------------
Init ==
  /\ written = 0 /\ lineEnds = {}
  /\ sendBuff = [p \in 0 .. B - 1 |-> Garbage]
  /\ wrap = FALSE
  /\ lastWritten = Start /\ lastSent = Start /\ lastAck = Start
  /\ remain = 0 /\ pendingSeq = 1 /\ isResend = FALSE /\ dataTimer = FALSE
  /\ data = <<>> /\ acks = <<>>
  /\ receiveQueue = <<>> /\ receivePosted = FALSE
  /\ ISN = 1 /\ nextExpected = (Start + 1) % W
  /\ unread = <<>> /\ delivered = <<>>
  /\ lost = 0 /\ early = 0

\* Transport.write of a line, and the sendData it calls when nothing waits for
\* an acknowledgement.  A line that ends exactly at the end of the buffer
\* makes sendData copy from a negative span, and is left out here.
Write(len) ==
  /\ written + len <= MaxBytes
  /\ lastWritten + len # B
  /\ LET wrap2 == wrap \/ B - lastWritten < len
         last2 == (lastWritten + len) % B
         buff2 == [p \in 0 .. B - 1 |->
                     LET i == (p - lastWritten) % B
                     IN  IF i < len THEN written + i + 1 ELSE sendBuff[p]]
     IN  /\ wrap' = wrap2
         /\ lastWritten' = last2
         /\ sendBuff' = buff2
         /\ IF remain = 0
            THEN LET span == SendSpan(wrap2, last2, lastSent)
                 IN  /\ remain' = len
                     /\ lastSent' = (lastSent + span) % B
                     /\ isResend' = TRUE
                     /\ dataTimer' = TRUE
                     /\ data' = Fitting(data \o Segments(buff2, lastSent, span))
            ELSE /\ remain' = (remain + len) % W
                 /\ UNCHANGED <<lastSent, isResend, dataTimer, data>>
  /\ written' = written + len
  /\ lineEnds' = lineEnds \cup {written + len}
  /\ UNCHANGED <<lastAck, pendingSeq, acks, receiveVars, lost, early>>

\* update(): whether an acknowledged position is news to the sender
Acknowledges(ack) ==
  IF wrap /\ lastAck >= lastSent
  THEN ack > lastAck \/ ack <= lastSent
  ELSE ack > lastAck /\ ack <= lastSent

\* update(): the bytes it believes to be outstanding; the variant counts from
\* the other end
Outstanding_Swapped(ack) == (ack - lastSent) % B
Outstanding(ack) ==
  IF wrap /\ lastAck >= lastSent THEN (ack + B - lastSent) % B
                                 ELSE (lastSent - ack) % B

\* update() keeps a remain of a whole buffer when the distance is 0
NewRemain(ack) ==
  IF \/ Outstanding(ack) >= remain
     \/ wrap /\ lastAck >= lastSent /\ remain = B /\ Outstanding(ack) = 0
  THEN remain
  ELSE Outstanding(ack)

\* receiveACK, case ESTABLISHED.  An ack_num of 0 becomes the largest uint8_t.
ReceiveACK ==
  /\ acks # <<>>
  /\ LET ack == IF Head(acks).ack = 0 THEN W - 1 ELSE (Head(acks).ack - 1) % B
     IN  IF Acknowledges(ack)
         THEN /\ lastAck' = ack
              /\ pendingSeq' = Head(acks).seq
              /\ remain' = NewRemain(ack)
         ELSE UNCHANGED <<lastAck, pendingSeq, remain>>
  /\ acks' = Tail(acks)
  /\ UNCHANGED <<userVars, lastSent, isResend, dataTimer, data, receiveVars,
                 lost, early>>

\* the timer of 2 RTT fires early when packets are still under way
Patiently == IF data = <<>> /\ acks = <<>> /\ ~receivePosted
             THEN UNCHANGED early
             ELSE early < MaxEarly /\ early' = early + 1

\* ReSendDataTimer.fired and reSendData
ReSendDataTimerFired ==
  /\ dataTimer /\ isResend
  /\ IF remain = 0
     THEN /\ isResend' = FALSE
          /\ dataTimer' = FALSE
          /\ UNCHANGED <<data, early>>
     ELSE /\ Patiently
          /\ data' = Fitting(data \o Segments(sendBuff, lastAck, ResendSpan))
          /\ UNCHANGED <<isResend, dataTimer>>
  /\ UNCHANGED <<userVars, lastSent, lastAck, remain, pendingSeq, acks,
                 receiveVars, lost>>

\* gotTCP of DATA
QueueDATA ==
  /\ data # <<>>
  /\ receiveQueue' = PushBack(receiveQueue, ReceiveCap, Head(data))
  /\ receivePosted' = TRUE
  /\ data' = Tail(data)
  /\ UNCHANGED <<userVars, sendVars, acks, ISN, nextExpected, unread,
                 delivered, lost, early>>

\* the segment the receiver waits for; the variants take any, or wait for the
\* one they have
Expected_Any(segment) == TRUE
Expected_Last(segment) == segment.ack = ISN
Expected(segment) == segment.ack = ISN + 1

\* the last place in a sequence of bytes where a line ends, 0 if none does
LastLineEnd(bytes) ==
  LET ends == {i \in DOMAIN bytes : bytes[i] \in lineEnds}
  IN  IF ends = {} THEN 0 ELSE CHOOSE i \in ends : \A j \in ends : j <= i

\* task receiveDATA: the expected segment is stored, and every line that it
\* completes is read by hasData; every segment is answered
ReceiveDATA ==
  /\ receivePosted /\ receiveQueue # <<>>
  /\ LET segment == Head(receiveQueue)
         stored == unread \o segment.bytes
         n == LastLineEnd(stored)
     IN  /\ IF Expected(segment)
            THEN /\ ISN' = (ISN + 1) % W
                 /\ nextExpected' = (segment.seq + 1) % B
                 /\ delivered' = delivered \o SubSeq(stored, 1, n)
                 /\ unread' = SubSeq(stored, n + 1, Len(stored))
            ELSE UNCHANGED <<ISN, nextExpected, delivered, unread>>
         /\ acks' = Fitting(Append(acks, [seq |-> ISN', ack |-> nextExpected']))
  /\ receiveQueue' = Tail(receiveQueue)
  /\ receivePosted' = FALSE
  /\ UNCHANGED <<userVars, sendVars, data, lost, early>>

\* the network loses a packet
Lose ==
  /\ lost < MaxLoss
  /\ \/ data # <<>> /\ data' = Tail(data) /\ UNCHANGED acks
     \/ acks # <<>> /\ acks' = Tail(acks) /\ UNCHANGED data
  /\ lost' = lost + 1
  /\ UNCHANGED <<userVars, sendVars, receiveVars, early>>

Next ==
  \/ \E len \in LineLens : Write(len)
  \/ ReceiveACK
  \/ ReSendDataTimerFired
  \/ QueueDATA
  \/ ReceiveDATA
  \/ Lose

Spec == Init /\ [][Next]_vars

\* what is in flight arrives or is lost, posted tasks run, running timers fire
FairSpec ==
  /\ Spec
  /\ WF_vars(ReceiveACK) /\ WF_vars(QueueDATA) /\ WF_vars(ReceiveDATA)
  /\ SF_vars(ReSendDataTimerFired)

-----------------------------------------------------------------------------
(* Properties                                                              *)

Segment == [seq : 0 .. B - 1, ack : 0 .. W - 1, bytes : Seq(Nat)]
Ack == [seq : 0 .. W - 1, ack : 0 .. W - 1]

\* The types of the variables, and the capacities of queues and links.
TypeOK ==
  /\ written \in 0 .. MaxBytes /\ lineEnds \subseteq 1 .. MaxBytes
  /\ sendBuff \in [0 .. B - 1 -> 0 .. MaxBytes]
  /\ wrap \in BOOLEAN
  /\ {lastWritten, lastSent, lastAck} \subseteq 0 .. B - 1
  /\ {remain, pendingSeq, ISN, nextExpected} \subseteq 0 .. W - 1
  /\ {isResend, dataTimer, receivePosted} \subseteq BOOLEAN
  /\ data \in Seq(Segment) /\ receiveQueue \in Seq(Segment)
  /\ acks \in Seq(Ack)
  /\ Len(data) <= ChanCap /\ Len(acks) <= ChanCap
  /\ Len(receiveQueue) <= ReceiveCap
  /\ unread \in Seq(Nat) /\ delivered \in Seq(Nat)
  /\ lost \in 0 .. MaxLoss /\ early \in 0 .. MaxEarly

Received == delivered \o unread

\* What the peer reads is what was written, from the first byte on, with
\* nothing lost, repeated, reordered or added, and it is read in whole lines.
InOrderDelivery ==
  /\ Len(Received) <= written
  /\ \A i \in DOMAIN Received : Received[i] = i
  /\ Len(delivered) \in lineEnds \cup {0}

\* The sender drops no byte from its retransmission that the receiver lacks,
\* and counts the segments the receiver took since: the next segment of the
\* window carries exactly the number the receiver waits for.
WindowAgreement ==
  /\ lastAck - Start <= Len(Received)
  /\ Len(Received) <= lastSent - Start
  /\ LET ahead == Len(Received) - (lastAck - Start)
     IN  ISN - pendingSeq = (ahead + S - 1) \div S

\* remain, which decides whether a write transmits and whether the timer goes
\* on, is 0 exactly when everything sent is acknowledged, and never counts
\* more than was written; until it is 0 the retransmission timer runs.  (It
\* may be less than what is outstanding: a write after a backlog sends the
\* backlog too and counts only its own line.)
RemainTracksWindow ==
  /\ remain = 0 <=> lastAck = lastSent
  /\ remain <= lastWritten - lastAck
  /\ remain # 0 => isResend /\ dataTimer

\* Whatever was put into a segment reaches the peer, and the sender learns it.
SentIsAcknowledged ==
  lastAck # lastSent
  ~> lastAck = lastSent /\ Len(Received) = lastSent - Start

\* "This data will eventually be transmitted": every byte that write accepted.
WrittenIsTransmitted == Len(Received) < written ~> Len(Received) = written
=============================================================================
