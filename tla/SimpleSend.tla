----------------------------- MODULE SimpleSend -----------------------------
(***************************************************************************)
(* SimpleSendP.nc: packets are copied into buffers of a fixed pool, queued, *)
(* and given to the radio one at a time by a task that a timer posts after  *)
(* a random delay.  The radio (AMSend) copies nothing: it transmits the one *)
(* message pkt until it signals sendDone.                                   *)
(*                                                                          *)
(* Packets are numbered in the order they are accepted.  A handler or task  *)
(* runs to its end before another starts, and posting a task that is        *)
(* pending does nothing, as TinyOS has it.                                  *)
(***************************************************************************)
EXTENDS Naturals, Sequences, FiniteSets

CONSTANTS
  Buffer,       \* the buffers of the Pool (20)
  MaxSends,     \* packets accepted in a behaviour
  MaxFail       \* refusals of the radio in a behaviour

ASSUME BufferAssumption == IsFiniteSet(Buffer)
ASSUME BoundAssumption == MaxSends \in Nat /\ MaxFail \in Nat

VARIABLES
  free,         \* the buffers in the Pool
  queue,        \* the Queue of buffers that wait
  content,      \* the packet that a buffer holds
  busy,
  pkt,          \* the packet in the message that the radio may be sending
  sendTimer,    \* whether it is running
  posted,       \* whether sendBufferTask is
  air,          \* the packets as the radio was given them
  accepted, fails

vars == <<free, queue, content, busy, pkt, sendTimer, posted, air, accepted,
          fails>>

Packet == 1 .. MaxSends

Init ==
  /\ free = Buffer /\ queue = <<>> /\ content = [b \in Buffer |-> 0]
  /\ busy = FALSE /\ pkt = 0
  /\ sendTimer = FALSE /\ posted = FALSE
  /\ air = <<>> /\ accepted = 0 /\ fails = 0

\* SimpleSend.send into a buffer b of the pool: with the pool empty it returns
\* FAIL and changes nothing.  The variant forgets to take b out of the pool.
Send_Shared(b) ==
  /\ accepted < MaxSends
  /\ b \in free
  /\ content' = [content EXCEPT ![b] = accepted + 1]
  /\ queue' = Append(queue, b)
  /\ sendTimer' = TRUE
  /\ accepted' = accepted + 1
  /\ UNCHANGED <<free, busy, pkt, posted, air, fails>>

Send(b) ==
  /\ accepted < MaxSends
  /\ b \in free
  /\ free' = free \ {b}
  /\ content' = [content EXCEPT ![b] = accepted + 1]
  /\ queue' = Append(queue, b)
  /\ sendTimer' = TRUE
  /\ accepted' = accepted + 1
  /\ UNCHANGED <<busy, pkt, posted, air, fails>>

\* sendTimer.fired
SendTimerFired ==
  /\ sendTimer
  /\ sendTimer' = FALSE
  /\ posted' = TRUE
  /\ UNCHANGED <<free, queue, content, busy, pkt, air, accepted, fails>>

\* whether sendBufferTask has something to send and may; the variant leaves
\* out the flag
MaySend_Busy == queue # <<>>
MaySend == queue # <<>> /\ ~busy

\* the buffers after one is put back; the variant keeps it
Put_Leak(b) == free
Put(b) == free \cup {b}

\* postSendTask at the end of sendBufferTask, when packets still wait; the
\* variant relies on the timer that send and sendDone started
Again_Never(rest) == sendTimer
Again(rest) == sendTimer \/ rest # <<>>

\* sendBufferTask and send: the radio takes the first packet
Transmit ==
  /\ posted /\ MaySend
  /\ pkt' = content[Head(queue)]
  /\ busy' = TRUE
  /\ air' = Append(air, content[Head(queue)])
  /\ queue' = Tail(queue)
  /\ free' = Put(Head(queue))
  /\ UNCHANGED fails

\* sendBufferTask and send: the radio refuses it
Refused ==
  /\ posted /\ MaySend
  /\ fails < MaxFail
  /\ fails' = fails + 1
  /\ pkt' = content[Head(queue)]
  /\ UNCHANGED <<busy, air, queue, free>>

\* sendBufferTask with nothing to do
NothingToSend ==
  /\ posted /\ ~MaySend
  /\ UNCHANGED <<pkt, busy, air, queue, free, fails>>

SendBufferTask ==
  /\ Transmit \/ Refused \/ NothingToSend
  /\ posted' = FALSE
  /\ sendTimer' = Again(queue')
  /\ UNCHANGED <<content, accepted>>

\* AMSend.sendDone
SendDone ==
  /\ busy
  /\ busy' = FALSE
  /\ sendTimer' = TRUE
  /\ UNCHANGED <<free, queue, content, pkt, posted, air, accepted, fails>>

Next ==
  \/ \E b \in Buffer : Send(b)
  \/ SendTimerFired
  \/ SendBufferTask
  \/ SendDone

Spec == Init /\ [][Next]_vars

\* timers fire, tasks run, and the radio finishes what it took
FairSpec == /\ Spec
            /\ WF_vars(SendTimerFired)
            /\ WF_vars(SendBufferTask)
            /\ WF_vars(SendDone)

-----------------------------------------------------------------------------
(* Properties                                                              *)

\* The types of the variables.
TypeOK ==
  /\ free \subseteq Buffer
  /\ queue \in Seq(Buffer)
  /\ content \in [Buffer -> 0 .. MaxSends]
  /\ busy \in BOOLEAN /\ sendTimer \in BOOLEAN /\ posted \in BOOLEAN
  /\ pkt \in 0 .. MaxSends
  /\ air \in Seq(Packet)
  /\ accepted \in 0 .. MaxSends /\ fails \in 0 .. MaxFail

\* Every buffer is in the pool or waits in the queue at one place: none leaks
\* and none is given out twice.
PoolAccounting ==
  /\ \A b \in Buffer : b \in free <=> \A i \in DOMAIN queue : queue[i] # b
  /\ \A i, j \in DOMAIN queue : queue[i] = queue[j] => i = j

\* The message is not overwritten while the radio sends it: what it transmits
\* is what it was given.
MessageIsStable == busy => air # <<>> /\ pkt = air[Len(air)]

\* While packets wait, something will look at the queue again: the timer, the
\* task, or nothing ever does.
SenderStaysAwake == queue # <<>> => sendTimer \/ posted

Queue == INSTANCE PacketQueue WITH
           waiting <- [i \in DOMAIN queue |-> content[queue[i]]],
           Capacity <- Cardinality(Buffer)

\* The buffers, the timer and the task make a queue: no packet is lost, sent
\* twice, out of order or changed once it is accepted.
IsPacketQueue == Queue!Spec

\* Every packet that was accepted is given to the radio.
EverythingIsSent ==
  \A n \in 1 .. MaxSends : accepted >= n ~> Len(air) >= n
=============================================================================
