------------------------------- MODULE IP_proofs -------------------------------
(* What IPP.nc signals is a whole packet, for every number of sources, every  *)
(* size of queues and numbers, and however many fragments are lost or         *)
(* overtaken: unless two packets of one number were put together at once.     *)
(* And what waits for a fragment is in TimeoutQueue, while there is room.     *)
EXTENDS IP, SequenceTheorems, FiniteSetTheorems, TLAPS

-----------------------------------------------------------------------------
(* Sequences of fragments                                                  *)

\* No fragment of a packet occurs twice in q.
Unique(q) ==
  \A i, j \in 1 .. Len(q) :
    q[i].packet = q[j].packet /\ q[i].offset = q[j].offset => i = j
\* The fragment of p at an offset is not in q.
Absent(q, p, x) ==
  \A i \in 1 .. Len(q) : ~(q[i].packet = p /\ q[i].offset = x)
\* Every fragment of t is one of q.
From(t, q) == \A i \in 1 .. Len(t) : \E j \in 1 .. Len(q) : t[i] = q[j]

\* The head of a sequence, and what is behind it.
LEMMA TailElements ==
  ASSUME NEW T, NEW q \in Seq(T), q # <<>>
  PROVE  /\ Len(q) \in Nat \ {0} /\ Head(q) = q[1] /\ Head(q) \in T
         /\ Tail(q) \in Seq(T) /\ Len(Tail(q)) = Len(q) - 1
         /\ \A i \in 1 .. Len(Tail(q)) : i + 1 \in 1 .. Len(q)
                                          /\ Tail(q)[i] = q[i + 1]
BY HeadTailProperties, LenProperties

\* What is behind the head: no more fragments, and none twice.
LEMMA TailFrom ==
  ASSUME NEW q \in Seq(Fragment), q # <<>>
  PROVE  From(Tail(q), q) /\ (Unique(q) => Unique(Tail(q)))
<1>1. From(Tail(q), q)
  BY TailElements DEF From
<1>2. ASSUME Unique(q) PROVE Unique(Tail(q))
  <2> SUFFICES ASSUME NEW i \in 1 .. Len(Tail(q)), NEW j \in 1 .. Len(Tail(q)),
                      Tail(q)[i].packet = Tail(q)[j].packet,
                      Tail(q)[i].offset = Tail(q)[j].offset
               PROVE  i = j
    BY DEF Unique
  <2>1. i + 1 \in 1 .. Len(q) /\ j + 1 \in 1 .. Len(q)
        /\ Tail(q)[i] = q[i + 1] /\ Tail(q)[j] = q[j + 1]
    BY TailElements
  <2>2. i + 1 = j + 1
    BY <1>2, <2>1 DEF Unique
  <2> QED
    BY <2>2
<1> QED
  BY <1>1, <1>2

\* If no fragment behind the head is that of the head.
LEMMA HeadIsGone ==
  ASSUME NEW q \in Seq(Fragment), q # <<>>, Unique(q)
  PROVE  Absent(Tail(q), Head(q).packet, Head(q).offset)
<1> SUFFICES ASSUME NEW i \in 1 .. Len(Tail(q)),
                    Tail(q)[i].packet = Head(q).packet,
                    Tail(q)[i].offset = Head(q).offset
             PROVE  FALSE
  BY DEF Absent
<1>1. i + 1 \in 1 .. Len(q) /\ Tail(q)[i] = q[i + 1]
      /\ 1 \in 1 .. Len(q) /\ Head(q) = q[1]
  BY TailElements
<1>2. i + 1 = 1
  BY <1>1 DEF Unique
<1> QED
  BY <1>2

\* What is absent from q is absent from whatever has no other fragments.
LEMMA AbsentFrom ==
  ASSUME NEW t, NEW q, From(t, q), NEW p, NEW x, Absent(q, p, x)
  PROVE  Absent(t, p, x)
BY DEF From, Absent

\* A fragment overtakes the one before it: the same fragments.
LEMMA SwapFrom ==
  ASSUME NEW T, NEW q \in Seq(T), Len(q) > 1
  PROVE  LET t == <<q[2], q[1]>> \o SubSeq(q, 3, Len(q))
         IN  /\ t \in Seq(T) /\ Len(t) = Len(q)
             /\ From(t, q) /\ (Unique(q) => Unique(t))
<1> DEFINE front == <<q[2], q[1]>>
           rest == SubSeq(q, 3, Len(q))
           t == front \o rest
           place(i) == IF i = 1 THEN 2 ELSE IF i = 2 THEN 1 ELSE i
<1>1. Len(q) \in Nat /\ q[1] \in T /\ q[2] \in T
  BY ElementOfSeq, LenProperties
<1>2. front \in Seq(T) /\ Len(front) = 2
      /\ front[1] = q[2] /\ front[2] = q[1]
  BY <1>1
<1>3. /\ rest \in Seq(T) /\ Len(rest) = Len(q) - 2
      /\ \A i \in 1 .. Len(q) - 2 : rest[i] = q[i + 2]
  <2>1. 3 \in 1 .. Len(q) + 1 /\ Len(q) \in 2 .. Len(q)
    BY <1>1
  <2>2. /\ rest \in Seq(T)
        /\ Len(rest) = IF 3 <= Len(q) THEN Len(q) - 3 + 1 ELSE 0
        /\ \A i \in 1 .. Len(q) - 3 + 1 : rest[i] = q[3 + i - 1]
    BY <1>1, <2>1, SubSeqProperties
  <2> HIDE DEF rest
  <2>3. Len(q) - 3 + 1 = Len(q) - 2 /\ Len(rest) = Len(q) - 2
    <3>1. \A n \in Nat : n > 1 =>
            /\ n - 3 + 1 = n - 2
            /\ (IF 3 <= n THEN n - 3 + 1 ELSE 0) = n - 2
      OBVIOUS
    <3> QED
      BY <1>1, <2>2, <3>1
  <2>4. ASSUME NEW i \in 1 .. Len(q) - 2 PROVE rest[i] = q[i + 2]
    <3>1. 3 + i - 1 = i + 2
      OBVIOUS
    <3> QED
      BY <2>2, <2>3, <3>1
  <2> QED
    BY <2>2, <2>3, <2>4
<1> HIDE DEF front, rest
<1>4. /\ t \in Seq(T) /\ Len(t) = 2 + (Len(q) - 2)
      /\ \A i \in 1 .. 2 + (Len(q) - 2) :
           t[i] = IF i <= 2 THEN front[i] ELSE rest[i - 2]
  <2>1. /\ front \o rest \in Seq(T)
        /\ Len(front \o rest) = Len(front) + Len(rest)
        /\ \A i \in 1 .. Len(front) + Len(rest) :
             (front \o rest)[i] = IF i <= Len(front) THEN front[i]
                                  ELSE rest[i - Len(front)]
    <3>1. front \in Seq(T) /\ rest \in Seq(T)
      BY <1>2, <1>3
    <3> QED
      BY <3>1, ConcatProperties, Zenon
  <2> QED
    BY <1>2, <1>3, <2>1
<1> HIDE DEF t
<1>5. Len(t) = Len(q)
  BY <1>1, <1>4
<1>6. ASSUME NEW i \in 1 .. Len(t)
      PROVE  place(i) \in 1 .. Len(q) /\ t[i] = q[place(i)]
  <2>1. CASE i <= 2
    BY <1>1, <1>2, <1>4, <1>5, <2>1
  <2>2. CASE ~(i <= 2)
    <3>1. i - 2 \in 1 .. Len(q) - 2 /\ (i - 2) + 2 = i /\ place(i) = i
          /\ i \in 1 .. 2 + (Len(q) - 2) /\ i \in 1 .. Len(q)
      BY <1>1, <1>5, <2>2
    <3>2. t[i] = rest[i - 2] /\ rest[i - 2] = q[(i - 2) + 2]
      BY <1>3, <1>4, <2>2, <3>1
    <3> QED
      BY <3>1, <3>2
  <2> QED
    BY <2>1, <2>2
<1>7. From(t, q)
  BY <1>6 DEF From
<1>8. ASSUME Unique(q) PROVE Unique(t)
  <2> SUFFICES ASSUME NEW i \in 1 .. Len(t), NEW j \in 1 .. Len(t),
                      t[i].packet = t[j].packet, t[i].offset = t[j].offset
               PROVE  i = j
    BY DEF Unique
  <2>1. /\ place(i) \in 1 .. Len(q) /\ t[i] = q[place(i)]
        /\ place(j) \in 1 .. Len(q) /\ t[j] = q[place(j)]
    BY <1>6
  <2>2. place(i) = place(j)
    <3> HIDE DEF place
    <3> QED
      BY <1>8, <2>1 DEF Unique
  <2>3. i \in Nat /\ j \in Nat
    BY <1>1, <1>5
  <2> QED
    BY <2>2, <2>3
<1> QED
  BY <1>4, <1>5, <1>7, <1>8 DEF t, front, rest

\* A fragment is put at the end of a queue, or dropped when it is full.
LEMMA PushedElements ==
  ASSUME NEW T, NEW q \in Seq(T), NEW f \in T, NEW cap \in Nat \ {0},
         Len(q) <= cap
  PROVE  LET t == PushBack(q, f, cap)
         IN  /\ t \in Seq(T) /\ Len(t) <= cap /\ t # <<>>
             /\ Len(t) <= Len(q) + 1
             /\ \A i \in 1 .. Len(t) :
                  \/ i \in 1 .. Len(q) /\ t[i] = q[i]
                  \/ i = Len(q) + 1 /\ t[i] = f
<1>1. Len(q) \in Nat
  BY LenProperties
<1>2. CASE Len(q) < cap
  <2>1. PushBack(q, f, cap) = Append(q, f)
    BY <1>2 DEF PushBack
  <2>2. /\ Append(q, f) \in Seq(T) /\ Len(Append(q, f)) = Len(q) + 1
        /\ \A i \in 1 .. Len(q) : Append(q, f)[i] = q[i]
        /\ Append(q, f)[Len(q) + 1] = f
    BY AppendProperties
  <2>3. Append(q, f) # <<>>
    BY <1>1, <2>2
  <2>4. \A i \in 1 .. Len(q) + 1 : i \in 1 .. Len(q) \/ i = Len(q) + 1
    BY <1>1
  <2> QED
    BY <1>1, <1>2, <2>1, <2>2, <2>3, <2>4
<1>3. CASE ~(Len(q) < cap)
  <2>1. PushBack(q, f, cap) = q /\ Len(q) = cap
    BY <1>1, <1>3 DEF PushBack
  <2>2. q # <<>>
    BY <1>1, <2>1
  <2> QED
    BY <2>1, <2>2
<1> QED
  BY <1>2, <1>3

-----------------------------------------------------------------------------
(* Fragments of a packet                                                   *)

\* f is a fragment of a packet of a length.
Fits(f, length) ==
  \/ f.flag = "whole" /\ length <= FragSize /\ f.offset = 0 /\ f.len = length
  \/ f.flag = "more" /\ length > FragSize /\ f.offset = 0 /\ f.len = FragSize
  \/ f.flag = "last" /\ length > FragSize /\ f.offset = 1
     /\ f.len = length - FragSize

\* Lengths that Transport sends are numbers.
LEMMA LengthsAreSmall ==
  ASSUME NEW l \in Lengths
  PROVE  l \in Nat /\ 0 < l /\ l <= FragSize + FragSize
         /\ FragSize \in Nat /\ 0 < FragSize
BY SizeAssumption

\* There is one fragment, or a full one and what is behind it.
LEMMA Division ==
  ASSUME NEW l \in Lengths
  PROVE  LET full == l \div FragSize
             rest == l % FragSize
         IN  \/ l < FragSize /\ full = 0 /\ rest = l
             \/ l = FragSize /\ full = 1 /\ rest = 0
             \/ l > FragSize /\ l < FragSize + FragSize
                /\ full = 1 /\ rest = l - FragSize
             \/ l = FragSize + FragSize /\ full = 2 /\ rest = 0
<1>1. l \in Nat /\ 0 < l /\ l <= FragSize + FragSize
      /\ FragSize \in Nat /\ 0 < FragSize
  BY LengthsAreSmall
<1>2. CASE l < FragSize
  BY <1>1, <1>2
<1>3. CASE l = FragSize
  BY <1>1, <1>3
<1>4. CASE l > FragSize /\ l < FragSize + FragSize
  BY <1>1, <1>4
<1>5. CASE l = FragSize + FragSize
  BY <1>1, <1>5
<1> QED
  BY <1>1, <1>2, <1>3, <1>4, <1>5

\* What send puts on the network: fragments of the packet, all different.
LEMMA FragmentsFit ==
  ASSUME NEW p \in Packet, NEW k \in Seqs, NEW l \in Lengths
  PROVE  LET q == Fragments(p, k, l)
         IN  /\ q \in Seq(Fragment) /\ Unique(q) /\ Len(q) <= 2
             /\ \A i \in 1 .. Len(q) : q[i].packet = p /\ Fits(q[i], l)
<1> DEFINE full == l \div FragSize
           rest == l % FragSize
           n == IF rest = 0 /\ full > 0 THEN full ELSE full + 1
           part(i) == [packet |-> p, seq |-> k,
                       flag |-> IF n = 1 THEN "whole"
                                ELSE IF i = n THEN "last" ELSE "more",
                       offset |-> i - 1,
                       len |-> IF i <= full THEN FragSize ELSE rest]
           q == [i \in 1 .. n |-> part(i)]
<1>1. l \in Nat /\ 0 < l /\ l <= FragSize + FragSize
      /\ FragSize \in Nat /\ 0 < FragSize
  BY LengthsAreSmall
<1>2. \/ l < FragSize /\ full = 0 /\ rest = l
      \/ l = FragSize /\ full = 1 /\ rest = 0
      \/ l > FragSize /\ l < FragSize + FragSize
         /\ full = 1 /\ rest = l - FragSize
      \/ l = FragSize + FragSize /\ full = 2 /\ rest = 0
  BY Division
<1>3. q = Fragments(p, k, l)
  BY DEF Fragments
<1> HIDE DEF full, rest
<1>4. n \in Nat /\ (n = 1 \/ n = 2)
  BY <1>1, <1>2
<1>5. ASSUME NEW i \in 1 .. n PROVE part(i) \in Fragment /\ Fits(part(i), l)
  <2>1. i = 1 \/ i = 2
    BY <1>4
  <2>2. i - 1 \in 0 .. 1
    BY <2>1
  <2>3. (IF i <= full THEN FragSize ELSE rest) \in 0 .. FragSize
    BY <1>1, <1>2
  <2>4. part(i) \in Fragment
    BY <2>2, <2>3 DEF Fragment, Offset
  <2>5. Fits(part(i), l)
    <3>1. CASE l <= FragSize
      <4>1. n = 1 /\ (IF 1 <= full THEN FragSize ELSE rest) = l
        BY <1>1, <1>2, <3>1
      <4>2. i = 1
        BY <4>1
      <4> HIDE DEF n
      <4> QED
        BY <3>1, <4>1, <4>2 DEF Fits
    <3>2. CASE l > FragSize
      <4>1. /\ n = 2 /\ (IF 1 <= full THEN FragSize ELSE rest) = FragSize
            /\ (IF 2 <= full THEN FragSize ELSE rest) = l - FragSize
        <5>1. CASE full = 1 /\ rest = l - FragSize
          <6>1. rest # 0
            BY <1>1, <3>2, <5>1
          <6> QED
            BY <5>1, <6>1
        <5>2. CASE full = 2 /\ rest = 0 /\ l = FragSize + FragSize
          <6>1. FragSize = l - FragSize
            BY <1>1, <5>2
          <6> QED
            BY <5>2, <6>1
        <5>3. \/ full = 1 /\ rest = l - FragSize
              \/ full = 2 /\ rest = 0 /\ l = FragSize + FragSize
          <6> HIDE DEF n, part, q
          <6>1. ~(l < FragSize) /\ ~(l = FragSize)
            BY <1>1, <3>2
          <6> QED
            BY <1>2, <6>1
        <5> QED
          BY <5>1, <5>2, <5>3
      <4> HIDE DEF n
      <4> QED
        BY <2>1, <3>2, <4>1 DEF Fits
    <3> QED
      BY <1>1, <3>1, <3>2
  <2> QED
    BY <2>4, <2>5
<1> HIDE DEF n, part
<1>6. q \in Seq(Fragment) /\ Len(q) = n /\ \A i \in 1 .. n : q[i] = part(i)
  BY <1>4, <1>5
<1> HIDE DEF q
<1>7. \A i \in 1 .. n : part(i).packet = p /\ part(i).offset = i - 1
  BY DEF part
<1>8. Unique(q)
  BY <1>4, <1>6, <1>7 DEF Unique
<1>9. Len(q) <= 2
  BY <1>4, <1>6
<1> QED
  BY <1>3, <1>5, <1>6, <1>7, <1>8, <1>9

-----------------------------------------------------------------------------
(* The inductive invariant                                                 *)

LengthOf(p) == sent[p[1]][p[2]]

\* p was sent to the modelled node, and its length is not forgotten.
Known(p) == /\ p \in Packet /\ p[2] \in 1 .. Len(sent[p[1]])
            /\ LengthOf(p) \in Lengths

Sound(f) == Known(f.packet) /\ Fits(f, LengthOf(f.packet))

Counted == \A s \in Source : Len(sent[s]) <= sends

\* A path carries packets of its source, and no fragment is anywhere twice.
PathsSound ==
  \A s \in Source :
    /\ Unique(path[s])
    /\ \A i \in 1 .. Len(path[s]) :
         LET f == path[s][i]
         IN  /\ Sound(f) /\ f.packet[1] = s
             /\ Absent(pendingQueue, f.packet, f.offset)

QueueSound ==
  /\ Unique(pendingQueue)
  /\ \A i \in 1 .. Len(pendingQueue) :
       Sound(pendingQueue[i]) /\ pendingQueue[i].flag # "whole"

\* has_pending agrees with what is being put together.
PendingIsOpen ==
  \A s \in Source, q \in Seqs :
    <<s, q>> \in hasPending <=> \E o \in open : o.seq = q /\ o.packet[1] = s

\* Two packets in one buffer are contested.
RivalsContest ==
  \A o1, o2 \in open :
    o1.seq = o2.seq /\ o1.packet # o2.packet => o1.packet \in contested

\* The fragment of p at an offset is no more under way.
Gone(p, x) ==
  Absent(pendingQueue, p, x) /\ \A s \in Source : Absent(path[s], p, x)

\* The buffer holds one fragment of p and waits for the other.
HalfDone(p, buffer) ==
  \E x \in Offset :
    /\ buffer.payload[x] = p /\ buffer.src = p[1] /\ Gone(p, x)
    /\ x = 0 => buffer.current = FragSize
    /\ x = 1 => /\ buffer.current = LengthOf(p) - FragSize
                /\ buffer.expected = LengthOf(p)

OpenSound ==
  \A o \in open :
    /\ Known(o.packet) /\ LengthOf(o.packet) > FragSize
    /\ o.packet \notin contested => HalfDone(o.packet, pendingArr[o.seq])

\* The packet in a buffer that was signalled is one that is not forgotten.
Whole(b) ==
  \/ \E o \in Offset : b.payload[o] \in contested
  \/ \E p \in Packet : /\ Known(p) /\ b.src = p[1] /\ b.expected = LengthOf(p)
                        /\ \A o \in Offset :
                             o * FragSize < b.expected => b.payload[o] = p
GotSound == got # EmptyPending => Whole(got)

IInv == /\ TypeOK /\ Counted /\ PathsSound /\ QueueSound
        /\ PendingIsOpen /\ RivalsContest /\ OpenSound /\ GotSound

-----------------------------------------------------------------------------
(* What steps have in common                                               *)

\* A packet is its source and its place among the packets of it.
LEMMA PacketParts ==
  ASSUME NEW p \in Packet
  PROVE  p[1] \in Source /\ p[2] \in 1 .. MaxSend /\ p = <<p[1], p[2]>>
BY DEF Packet

\* Sending forgets no packet, and the next packet of a source is a new one.
LEMMA SentGrows ==
  ASSUME TypeOK, Counted, NEW s \in Source, NEW l \in Lengths \cup {0},
         sent' = [sent EXCEPT ![s] = Append(@, l)],
         sends < MaxSend, sends' = sends + 1
  PROVE  /\ Counted' /\ sends' \in 0 .. MaxSend
         /\ sent' \in [Source -> Seq(Lengths \cup {0})]
         /\ \A t \in Source : Len(sent'[t]) =
              IF t = s THEN Len(sent[t]) + 1 ELSE Len(sent[t])
         /\ sent'[s][Len(sent[s]) + 1] = l
         /\ <<s, Len(sent[s]) + 1>> \in Packet
         /\ \A p : Known(p) =>
              Known(p)' /\ LengthOf(p)' = LengthOf(p)
              /\ p # <<s, Len(sent[s]) + 1>>
<1>1. sent \in [Source -> Seq(Lengths \cup {0})]
      /\ sends \in Nat /\ MaxSend \in Nat
  BY BoundAssumption DEF TypeOK
<1> DEFINE q == Append(sent[s], l)
<1>2. /\ sent[s] \in Seq(Lengths \cup {0}) /\ Len(sent[s]) \in Nat
      /\ q \in Seq(Lengths \cup {0}) /\ Len(q) = Len(sent[s]) + 1
      /\ \A i \in 1 .. Len(sent[s]) : q[i] = sent[s][i]
      /\ q[Len(sent[s]) + 1] = l
  BY <1>1, AppendProperties, LenProperties
<1> HIDE DEF q
<1>3. sent' = [sent EXCEPT ![s] = q]
  BY DEF q
<1>4. /\ sent' \in [Source -> Seq(Lengths \cup {0})] /\ sent'[s] = q
      /\ \A t \in Source : t # s => sent'[t] = sent[t]
  BY <1>1, <1>2, <1>3
<1>5. <<s, Len(sent[s]) + 1>> \in Packet
  BY <1>1, <1>2 DEF Counted, Packet
<1>6. sends' \in 0 .. MaxSend
  BY <1>1
<1>7. Counted'
  <2> SUFFICES ASSUME NEW t \in Source PROVE Len(sent'[t]) <= sends'
    BY DEF Counted
  <2>1. Len(sent[t]) \in Nat /\ Len(sent[t]) <= sends
    BY <1>1, LenProperties DEF Counted
  <2>2. Len(sent'[t]) = Len(sent[t]) \/ Len(sent'[t]) = Len(sent[t]) + 1
    BY <1>2, <1>4
  <2> HIDE DEF Counted
  <2> QED
    BY <1>1, <2>1, <2>2
<1>8. ASSUME NEW p, Known(p)
      PROVE  /\ Known(p)' /\ LengthOf(p)' = LengthOf(p)
             /\ p # <<s, Len(sent[s]) + 1>>
  <2>1. p[1] \in Source /\ p[2] \in 1 .. Len(sent[p[1]])
    BY <1>8, PacketParts DEF Known
  <2>2. CASE p[1] = s
    <3>1. /\ sent'[p[1]][p[2]] = sent[p[1]][p[2]]
          /\ p[2] \in 1 .. Len(sent'[p[1]]) /\ p[2] # Len(sent[s]) + 1
      BY <1>2, <1>4, <2>1, <2>2
    <3> QED
      BY <1>8, <3>1 DEF Known, LengthOf
  <2>3. CASE p[1] # s
    <3>1. sent'[p[1]] = sent[p[1]]
      BY <1>4, <2>1, <2>3
    <3> QED
      BY <1>8, <2>3, <3>1 DEF Known, LengthOf
  <2> QED
    BY <2>2, <2>3
<1> QED
  BY <1>2, <1>4, <1>5, <1>6, <1>7, <1>8

\* Fragments leave the network, or change places.
LEMMA FlightShrinks ==
  ASSUME PathsSound, QueueSound, sent' = sent,
         \A s \in Source : From(path'[s], path[s]) /\ Unique(path'[s]),
         From(pendingQueue', pendingQueue), Unique(pendingQueue')
  PROVE  /\ PathsSound' /\ QueueSound'
         /\ \A p, x : Gone(p, x) => Gone(p, x)'
<1>1. \A f : Sound(f) => Sound(f)'
  BY DEF Sound, Known, LengthOf
<1>2. \A p, x : Absent(pendingQueue, p, x) => Absent(pendingQueue', p, x)
  BY AbsentFrom
<1>3. PathsSound'
  <2>1. ASSUME NEW s \in Source, NEW i \in 1 .. Len(path'[s]),
               NEW f, f = path'[s][i]
        PROVE  Sound(f)' /\ f.packet[1] = s
               /\ Absent(pendingQueue', f.packet, f.offset)
    <3>1. PICK j \in 1 .. Len(path[s]) : f = path[s][j]
      BY <2>1 DEF From
    <3>2. Sound(f) /\ f.packet[1] = s
          /\ Absent(pendingQueue, f.packet, f.offset)
      BY <3>1 DEF PathsSound
    <3> QED
      BY <1>1, <1>2, <3>2
  <2> QED
    BY <2>1 DEF PathsSound, Sound, Known, LengthOf
<1>4. QueueSound'
  <2>1. ASSUME NEW i \in 1 .. Len(pendingQueue'),
               NEW f, f = pendingQueue'[i]
        PROVE  Sound(f)' /\ f.flag # "whole"
    <3>1. PICK j \in 1 .. Len(pendingQueue) : f = pendingQueue[j]
      BY <2>1 DEF From
    <3> QED
      BY <1>1, <3>1 DEF QueueSound
  <2> QED
    BY <2>1 DEF QueueSound, Sound, Known, LengthOf
<1>5. ASSUME NEW p, NEW x, Gone(p, x) PROVE Gone(p, x)'
  <2>1. \A s \in Source : Absent(path'[s], p, x)
    BY <1>5, AbsentFrom DEF Gone
  <2> QED
    BY <1>2, <1>5, <2>1 DEF Gone
<1> QED
  BY <1>3, <1>4, <1>5

\* A buffer waits for a fragment as long as it does not arrive.
LEMMA HalfDoneStays ==
  ASSUME NEW p, NEW b, HalfDone(p, b), LengthOf(p)' = LengthOf(p),
         \A x \in Offset : Gone(p, x) => Gone(p, x)'
  PROVE  HalfDone(p, b)'
BY DEF HalfDone

\* A step that leaves the buffers alone.
LEMMA BuffersStay ==
  ASSUME PendingIsOpen, RivalsContest, OpenSound,
         UNCHANGED <<pendingArr, hasPending, open, contested>>,
         \A p : Known(p) => Known(p)' /\ LengthOf(p)' = LengthOf(p),
         \A p, x : Known(p) /\ Gone(p, x) => Gone(p, x)'
  PROVE  PendingIsOpen' /\ RivalsContest' /\ OpenSound'
<1>1. PendingIsOpen' /\ RivalsContest'
  BY DEF PendingIsOpen, RivalsContest
<1>2. OpenSound'
  <2> SUFFICES ASSUME NEW o \in open
               PROVE  /\ Known(o.packet)' /\ LengthOf(o.packet)' > FragSize
                      /\ o.packet \notin contested =>
                           HalfDone(o.packet, pendingArr[o.seq])'
    BY DEF OpenSound
  <2>1. /\ Known(o.packet) /\ LengthOf(o.packet) > FragSize
        /\ o.packet \notin contested =>
             HalfDone(o.packet, pendingArr[o.seq])
    BY DEF OpenSound
  <2>2. ASSUME o.packet \notin contested
        PROVE  HalfDone(o.packet, pendingArr[o.seq])'
    <3>1. HalfDone(o.packet, pendingArr[o.seq])
      BY <2>1, <2>2
    <3>2. pendingArr' = pendingArr
      OBVIOUS
    <3> QED
      BY <2>1, <3>1, <3>2 DEF HalfDone
  <2> QED
    BY <2>1, <2>2
<1> QED
  BY <1>1, <1>2

\* What was signalled stays right.
LEMMA GotStays ==
  ASSUME GotSound, got' = got, contested \subseteq contested',
         \A p : Known(p) => Known(p)' /\ LengthOf(p)' = LengthOf(p)
  PROVE  GotSound'
<1> SUFFICES ASSUME got # EmptyPending PROVE Whole(got)'
  BY DEF GotSound, EmptyPending
<1>1. Whole(got)
  BY DEF GotSound
<1>2. CASE \E o \in Offset : got.payload[o] \in contested
  BY <1>2 DEF Whole
<1>3. CASE \E p \in Packet :
             /\ Known(p) /\ got.src = p[1] /\ got.expected = LengthOf(p)
             /\ \A o \in Offset :
                  o * FragSize < got.expected => got.payload[o] = p
  <2>1. PICK p \in Packet :
          /\ Known(p) /\ got.src = p[1] /\ got.expected = LengthOf(p)
          /\ \A o \in Offset :
               o * FragSize < got.expected => got.payload[o] = p
    BY <1>3
  <2>2. Known(p)' /\ LengthOf(p)' = LengthOf(p)
    BY <2>1
  <2> QED
    BY <2>1, <2>2 DEF Whole
<1> QED
  BY <1>1, <1>2, <1>3 DEF Whole

-----------------------------------------------------------------------------
(* Types                                                                   *)

\* The parts of a fragment.
LEMMA FragmentParts ==
  ASSUME NEW f \in Fragment
  PROVE  /\ f.packet \in Packet /\ f.packet[1] \in Source /\ f.seq \in Seqs
         /\ f.offset \in Offset /\ f.len \in Nat
<1>1. f.packet \in Packet /\ f.seq \in Seqs /\ f.offset \in Offset
      /\ f.len \in 0 .. FragSize
  BY DEF Fragment
<1>2. FragSize \in Nat
  BY SizeAssumption
<1>3. f.len \in Nat
  BY <1>1, <1>2
<1> QED
  BY <1>1, <1>3, PacketParts

\* The next number is a number.
LEMMA SeqsType ==
  ASSUME NEW k \in Seqs
  PROVE  AfterSeq(k) \in Seqs
BY SizeAssumption DEF AfterSeq, Seqs

\* A buffer after a fragment.
LEMMA StoredType ==
  ASSUME pendingArr \in [Seqs -> Pending], NEW f \in Fragment,
         NEW src \in Source \cup {NoPacket}, NEW current \in Nat
  PROVE  Stored(f, src, current) \in Pending
<1>1. /\ f.packet \in Packet /\ f.seq \in Seqs /\ f.offset \in Offset
      /\ f.len \in Nat
  BY FragmentParts
<1>2. pendingArr[f.seq] \in Pending
  BY <1>1
<1>3. pendingArr[f.seq].expected \in Nat
      /\ pendingArr[f.seq].payload \in [Offset -> Packet \cup {NoPacket}]
  BY <1>2 DEF Pending
<1>4. Length(f) \in Nat
  BY <1>1, SizeAssumption DEF Length, Offset
<1>5. [pendingArr[f.seq].payload EXCEPT ![f.offset] = f.packet]
        \in [Offset -> Packet \cup {NoPacket}]
  BY <1>1, <1>3
<1> QED
  BY <1>3, <1>4, <1>5 DEF Stored, Pending

LEMMA EmptyType == EmptyPending \in Pending
BY DEF EmptyPending, Pending

\* Init establishes the types.
LEMMA InitType == Init => TypeOK /\ Counted
<1> SUFFICES ASSUME Init PROVE TypeOK /\ Counted
  OBVIOUS
<1>1. 1 \in Seqs
  BY SizeAssumption DEF Seqs
<1>2. Counted
  BY DEF Init, Counted
<1>3. /\ localSeq \in [Source -> Seqs]
      /\ sent \in [Source -> Seq(Lengths \cup {0})]
      /\ path \in [Source -> Seq(Fragment)]
  BY <1>1 DEF Init
<1>4. /\ pendingQueue \in Seq(Fragment) /\ Len(pendingQueue) <= PendingCap
      /\ timeoutQueue \in Seq(Source \X Seqs)
      /\ Len(timeoutQueue) <= TimeoutCap
  BY CapAssumption DEF Init
<1>5. pendingArr \in [Seqs -> Pending] /\ got \in Pending
  BY EmptyType DEF Init
<1>6. /\ posted = FALSE /\ pendingTimer = FALSE /\ hasPending = {}
      /\ open = {} /\ contested = {}
      /\ sends \in 0 .. MaxSend /\ losses \in 0 .. MaxLoss
      /\ overtakes \in 0 .. MaxOvertake
  BY BoundAssumption DEF Init
<1> QED
  BY <1>2, <1>3, <1>4, <1>5, <1>6 DEF TypeOK

\* Every step keeps the types, and the number of packets sent.
LEMMA NextType == TypeOK /\ Counted /\ [Next]_vars => TypeOK' /\ Counted'
<1> SUFFICES ASSUME TypeOK, Counted, [Next]_vars PROVE TypeOK' /\ Counted'
  OBVIOUS
<1> USE DEF TypeOK
<1>1. ASSUME NEW s \in Source, NEW l \in Lengths, Send(s, l)
      PROVE  TypeOK' /\ Counted'
  <2> DEFINE p == <<s, Len(sent[s]) + 1>>
             q == Fragments(p, localSeq[s], l)
  <2>1. sent' \in [Source -> Seq(Lengths \cup {0})] /\ p \in Packet
    BY <1>1, SentGrows DEF Send
  <2>2. q \in Seq(Fragment) /\ path[s] \in Seq(Fragment)
    BY <2>1, FragmentsFit
  <2> HIDE DEF p, q
  <2>3. path[s] \o q \in Seq(Fragment)
    BY <2>2, ConcatProperties
  <2>4. path' = [path EXCEPT ![s] = path[s] \o q]
    BY <1>1 DEF Send, p, q
  <2>5. path' \in [Source -> Seq(Fragment)]
    BY <2>3, <2>4
  <2>6. localSeq' \in [Source -> Seqs]
    BY <1>1, SeqsType DEF Send
  <2>7. sends' \in 0 .. MaxSend /\ Counted'
    BY <1>1, SentGrows DEF Send
  <2>8. UNCHANGED <<pendingQueue, posted, pendingArr, hasPending, timeoutQueue,
                    pendingTimer, got, open, contested, losses, overtakes>>
    BY <1>1 DEF Send, buffers
  <2> QED
    BY <2>1, <2>5, <2>6, <2>7, <2>8
<1>2. ASSUME NEW s \in Source, SendElsewhere(s)
      PROVE  TypeOK' /\ Counted'
  <2>1. sent' \in [Source -> Seq(Lengths \cup {0})]
    BY <1>2, SentGrows DEF SendElsewhere
  <2>2. localSeq' \in [Source -> Seqs]
    BY <1>2, SeqsType DEF SendElsewhere
  <2>3. sends' \in 0 .. MaxSend /\ Counted'
    BY <1>2, SentGrows DEF SendElsewhere
  <2>4. UNCHANGED <<path, pendingQueue, posted, pendingArr, hasPending,
                    timeoutQueue, pendingTimer, got, open, contested, losses,
                    overtakes>>
    BY <1>2 DEF SendElsewhere, buffers
  <2> QED
    BY <2>1, <2>2, <2>3, <2>4
<1>3. ASSUME NEW s \in Source, Lose(s)
      PROVE  TypeOK' /\ Counted'
  <2>1. Tail(path[s]) \in Seq(Fragment)
    BY <1>3, TailElements DEF Lose
  <2>2. path' \in [Source -> Seq(Fragment)]
    BY <1>3, <2>1 DEF Lose
  <2>3. losses' \in 0 .. MaxLoss
    BY <1>3, BoundAssumption DEF Lose
  <2>4. UNCHANGED <<localSeq, sent, pendingQueue, posted, pendingArr,
                    hasPending, timeoutQueue, pendingTimer, got, open,
                    contested, sends, overtakes>>
    BY <1>3 DEF Lose, buffers, senderVars
  <2> QED
    BY <2>2, <2>3, <2>4 DEF Counted
<1>4. ASSUME NEW s \in Source, Overtake(s)
      PROVE  TypeOK' /\ Counted'
  <2> DEFINE t == <<path[s][2], path[s][1]>>
                    \o SubSeq(path[s], 3, Len(path[s]))
  <2>1. t \in Seq(Fragment)
    BY <1>4, SwapFrom DEF Overtake
  <2>2. path' = [path EXCEPT ![s] = t]
    BY <1>4 DEF Overtake
  <2> HIDE DEF t
  <2>3. path' \in [Source -> Seq(Fragment)]
    BY <2>1, <2>2
  <2>4. overtakes' \in 0 .. MaxOvertake
    BY <1>4, BoundAssumption DEF Overtake
  <2>5. UNCHANGED <<localSeq, sent, pendingQueue, posted, pendingArr,
                    hasPending, timeoutQueue, pendingTimer, got, open,
                    contested, sends, losses>>
    BY <1>4 DEF Overtake, buffers, senderVars
  <2> QED
    BY <2>3, <2>4, <2>5 DEF Counted
<1>5. ASSUME NEW s \in Source, GotIpPkt(s)
      PROVE  TypeOK' /\ Counted'
  <2> DEFINE f == Head(path[s])
  <2>1. path[s] # <<>> /\ path[s] \in Seq(Fragment)
    BY <1>5 DEF GotIpPkt
  <2>2. f \in Fragment /\ Tail(path[s]) \in Seq(Fragment)
    BY <2>1, TailElements
  <2>3. path' \in [Source -> Seq(Fragment)]
    BY <1>5, <2>2 DEF GotIpPkt
  <2>4. UNCHANGED <<localSeq, sent, pendingArr, hasPending, timeoutQueue,
                    pendingTimer, open, contested, sends, losses, overtakes>>
    BY <1>5 DEF GotIpPkt, buffers, senderVars, bounds
  <2>5. CASE f.flag = "whole"
    <3>1. /\ got' = [src |-> s, current |-> f.len, expected |-> f.len,
                     payload |-> [EmptyPending.payload EXCEPT ![0] = f.packet]]
          /\ UNCHANGED <<pendingQueue, posted>>
      BY <1>5, <2>5 DEF GotIpPkt
    <3> HIDE DEF f
    <3>2. f.len \in Nat /\ f.packet \in Packet
      BY <2>2, FragmentParts
    <3>3. [EmptyPending.payload EXCEPT ![0] = f.packet]
            \in [Offset -> Packet \cup {NoPacket}]
      BY <3>2 DEF EmptyPending
    <3>4. got' \in Pending
      BY <3>1, <3>2, <3>3 DEF Pending
    <3> QED
      BY <2>3, <2>4, <3>1, <3>4 DEF Counted
  <2>6. CASE f.flag # "whole"
    <3>1. /\ pendingQueue' = PushBack(pendingQueue, f, PendingCap)
          /\ posted' = TRUE /\ got' = got
      BY <1>5, <2>6 DEF GotIpPkt
    <3> HIDE DEF f
    <3>2. /\ pendingQueue' \in Seq(Fragment) /\ Len(pendingQueue') <= PendingCap
          /\ pendingQueue' # <<>>
      BY <2>2, <3>1, PushedElements, CapAssumption
    <3> QED
      BY <2>3, <2>4, <3>1, <3>2 DEF Counted
  <2> QED
    BY <2>5, <2>6
<1>6. ASSUME PendingTaskFirst
      PROVE  TypeOK' /\ Counted'
  <2> DEFINE f == Head(pendingQueue)
             s == f.packet[1]
  <2>1. pendingQueue # <<>>
    BY <1>6 DEF PendingTaskFirst
  <2>2. f \in Fragment /\ pendingQueue' \in Seq(Fragment)
        /\ Len(pendingQueue') <= PendingCap
    BY <1>6, <2>1, TailElements, CapAssumption DEF PendingTaskFirst
  <2>3. /\ hasPending' = hasPending \cup {<<s, f.seq>>}
        /\ pendingArr' = [pendingArr EXCEPT ![f.seq] = Stored(f, s, f.len)]
        /\ timeoutQueue' = PushBack(timeoutQueue, <<s, f.seq>>, TimeoutCap)
        /\ open' = open \cup {Open(f)} /\ contested' = Contested(f)
        /\ pendingTimer' = TRUE /\ posted' = FALSE
        /\ UNCHANGED <<localSeq, sent, path, got, sends, losses, overtakes>>
    BY <1>6 DEF PendingTaskFirst, Watched, senderVars, bounds
  <2> HIDE DEF f
  <2>4. /\ f.packet \in Packet /\ s \in Source /\ f.seq \in Seqs
        /\ f.len \in Nat
    BY <2>2, FragmentParts
  <2>5. Stored(f, s, f.len) \in Pending
    BY <2>2, <2>4, StoredType
  <2> HIDE DEF s
  <2>6. pendingArr' \in [Seqs -> Pending]
    BY <2>3, <2>4, <2>5
  <2>7. /\ timeoutQueue' \in Seq(Source \X Seqs)
        /\ Len(timeoutQueue') <= TimeoutCap /\ timeoutQueue' # <<>>
    <3>1. <<s, f.seq>> \in Source \X Seqs
      BY <2>4
    <3> QED
      BY <2>3, <3>1, PushedElements, CapAssumption
  <2>8. /\ open' \subseteq [packet : Packet, seq : Seqs]
        /\ contested' \subseteq Packet
    BY <2>3, <2>4 DEF Open, Contested
  <2>9. hasPending' \subseteq Source \X Seqs
    BY <2>3, <2>4
  <2> QED
    BY <2>2, <2>3, <2>6, <2>7, <2>8, <2>9 DEF Counted
<1>7. ASSUME PendingTaskNext
      PROVE  TypeOK' /\ Counted'
  <2> DEFINE f == Head(pendingQueue)
             s == f.packet[1]
             old == pendingArr[f.seq]
             buffer == Stored(f, old.src, old.current + f.len)
  <2>1. pendingQueue # <<>>
    BY <1>7 DEF PendingTaskNext
  <2>2. f \in Fragment /\ pendingQueue' \in Seq(Fragment)
        /\ Len(pendingQueue') <= PendingCap
    BY <1>7, <2>1, TailElements, CapAssumption DEF PendingTaskNext
  <2>3. /\ pendingArr' = [pendingArr EXCEPT ![f.seq] = buffer]
        /\ contested' = Contested(f)
        /\ hasPending' \subseteq hasPending
        /\ open' \subseteq open \cup {Open(f)}
        /\ got' \in {got, buffer} /\ posted' = FALSE
        /\ UNCHANGED <<localSeq, sent, path, timeoutQueue, pendingTimer, sends,
                       losses, overtakes>>
    BY <1>7 DEF PendingTaskNext, Others, senderVars, bounds
  <2> HIDE DEF f
  <2>4. f.packet \in Packet /\ f.seq \in Seqs /\ f.len \in Nat
    BY <2>2, FragmentParts
  <2>5. old.src \in Source \cup {NoPacket} /\ old.current \in Nat
    BY <2>4 DEF Pending
  <2>6. old.current + f.len \in Nat
    BY <2>4, <2>5
  <2>7. buffer \in Pending
    BY <2>2, <2>5, <2>6, StoredType
  <2> HIDE DEF buffer
  <2>8. pendingArr' \in [Seqs -> Pending] /\ got' \in Pending
    BY <2>3, <2>4, <2>7
  <2>9. /\ open' \subseteq [packet : Packet, seq : Seqs]
        /\ contested' \subseteq Packet
    BY <2>3, <2>4 DEF Open, Contested
  <2> QED
    BY <2>2, <2>3, <2>8, <2>9 DEF Counted
<1>8. ASSUME PendingTimerFired
      PROVE  TypeOK' /\ Counted'
  <2>1. /\ timeoutQueue # <<>> /\ timeoutQueue' = Tail(timeoutQueue)
        /\ pendingTimer' = FALSE
        /\ hasPending' \subseteq hasPending /\ open' \subseteq open
        /\ UNCHANGED <<localSeq, sent, path, pendingQueue, posted, pendingArr,
                       got, contested, sends, losses, overtakes>>
    BY <1>8 DEF PendingTimerFired, Others, senderVars, bounds
  <2>2. timeoutQueue' \in Seq(Source \X Seqs)
        /\ Len(timeoutQueue') <= TimeoutCap
    BY <2>1, TailElements, CapAssumption
  <2> QED
    BY <2>1, <2>2 DEF Counted
<1>9. CASE UNCHANGED vars
  BY <1>9 DEF vars, senderVars, buffers, bounds, Counted
<1> QED
  BY <1>1, <1>2, <1>3, <1>4, <1>5, <1>6, <1>7, <1>8, <1>9 DEF Next

\* The types hold in every behaviour, for any number of sources and fragments.
THEOREM TypeCorrect == Spec => []TypeOK
<1>1. Spec => [](TypeOK /\ Counted)
  BY InitType, NextType, PTL DEF Spec
<1> QED
  BY <1>1, PTL

-----------------------------------------------------------------------------
(* Every step preserves the invariant                                      *)

\* What a packet of a source adds to its path.
LEMMA SendStep ==
  ASSUME IInv, NEW s \in Source, NEW l \in Lengths, Send(s, l)
  PROVE  PathsSound' /\ QueueSound' /\ PendingIsOpen' /\ RivalsContest'
         /\ OpenSound' /\ GotSound'
<1> USE DEF IInv
<1> PICK p : p = <<s, Len(sent[s]) + 1>>
  OBVIOUS
<1> DEFINE q == Fragments(p, localSeq[s], l)
<1>1. /\ p \in Packet /\ Len(sent'[s]) = Len(sent[s]) + 1
      /\ sent'[s][Len(sent[s]) + 1] = l
      /\ \A r : Known(r) => Known(r)' /\ LengthOf(r)' = LengthOf(r) /\ r # p
  BY SentGrows DEF Send
<1>2. p[1] = s /\ p[2] = Len(sent[s]) + 1
  OBVIOUS
<1>3. localSeq[s] \in Seqs
  BY DEF TypeOK
<1>4. Known(p)' /\ LengthOf(p)' = l
  <2>1. Len(sent[s]) + 1 \in 1 .. Len(sent[s]) + 1
    BY LenProperties DEF TypeOK
  <2>2. sent'[p[1]][p[2]] = l /\ p[2] \in 1 .. Len(sent'[p[1]])
    BY <1>1, <1>2, <2>1
  <2>3. p \in Packet
    BY <1>1
  <2> QED
    BY <2>2, <2>3 DEF Known, LengthOf
<1>5. /\ q \in Seq(Fragment) /\ Unique(q)
      /\ \A i \in 1 .. Len(q) : q[i].packet = p /\ Fits(q[i], l)
  BY <1>1, <1>3, FragmentsFit
<1> HIDE DEF q
<1>6. /\ path' = [path EXCEPT ![s] = path[s] \o q]
      /\ path \in [Source -> Seq(Fragment)]
      /\ UNCHANGED <<pendingQueue, pendingArr, hasPending, open, contested, got>>
  BY DEF Send, buffers, TypeOK, q
<1>7. /\ path'[s] = path[s] \o q
      /\ \A t \in Source : t # s => path'[t] = path[t]
  BY <1>6
<1>8. /\ Len(path'[s]) = Len(path[s]) + Len(q)
      /\ Len(path[s]) \in Nat /\ Len(q) \in Nat
      /\ \A i \in 1 .. Len(path[s]) + Len(q) :
           path'[s][i] = IF i <= Len(path[s]) THEN path[s][i]
                         ELSE q[i - Len(path[s])]
  BY <1>5, <1>6, <1>7, ConcatProperties, LenProperties
<1>9. ASSUME NEW i \in 1 .. Len(path'[s])
      PROVE  \/ i \in 1 .. Len(path[s]) /\ path'[s][i] = path[s][i]
             \/ i - Len(path[s]) \in 1 .. Len(q)
                /\ path'[s][i] = q[i - Len(path[s])]
  BY <1>8
<1>10. /\ \A j \in 1 .. Len(path[s]) : path[s][j].packet # p
       /\ \A j \in 1 .. Len(pendingQueue) : pendingQueue[j].packet # p
  BY <1>1 DEF PathsSound, QueueSound, Sound
<1>11. \A f : Sound(f) => Sound(f)'
  BY <1>1 DEF Sound
<1>12. \A r, x : Known(r) /\ Gone(r, x) => Gone(r, x)'
  <2> SUFFICES ASSUME NEW r, NEW x, Known(r), Gone(r, x)
               PROVE  Gone(r, x)'
    OBVIOUS
  <2>1. Absent(path'[s], r, x)
    <3>1. r # p
      BY <1>1
    <3>2. Absent(path[s], r, x)
      BY DEF Gone
    <3> QED
      BY <1>5, <1>9, <3>1, <3>2 DEF Absent
  <2> QED
    BY <1>6, <1>7, <2>1 DEF Gone
<1>13. PendingIsOpen' /\ RivalsContest' /\ OpenSound'
  BY <1>1, <1>6, <1>12, BuffersStay
<1>14. GotSound'
  BY <1>1, <1>6, GotStays
<1>15. QueueSound'
  <2>1. ASSUME NEW i \in 1 .. Len(pendingQueue)
        PROVE  Sound(pendingQueue[i])' /\ pendingQueue[i].flag # "whole"
    <3>1. pendingQueue' = pendingQueue
      BY <1>6
    <3> QED
      BY <1>11, <3>1 DEF QueueSound, Sound, Known, LengthOf
  <2> QED
    BY <1>6, <2>1 DEF QueueSound
<1>16. PathsSound'
  <2>1. Unique(path'[s])
    <3> SUFFICES ASSUME NEW i \in 1 .. Len(path'[s]),
                        NEW j \in 1 .. Len(path'[s]),
                        path'[s][i].packet = path'[s][j].packet,
                        path'[s][i].offset = path'[s][j].offset
                 PROVE  i = j
      BY DEF Unique
    <3>1. Unique(path[s])
      BY DEF PathsSound
    <3>2. CASE i \in 1 .. Len(path[s]) /\ path'[s][i] = path[s][i]
      <4>1. j \in 1 .. Len(path[s]) /\ path'[s][j] = path[s][j]
        BY <1>5, <1>9, <1>10, <3>2
      <4> QED
        BY <3>1, <3>2, <4>1 DEF Unique
    <3>3. CASE i - Len(path[s]) \in 1 .. Len(q)
               /\ path'[s][i] = q[i - Len(path[s])]
      <4>1. j - Len(path[s]) \in 1 .. Len(q)
            /\ path'[s][j] = q[j - Len(path[s])]
        BY <1>5, <1>9, <1>10, <3>3
      <4>2. i - Len(path[s]) = j - Len(path[s])
        BY <1>5, <3>3, <4>1 DEF Unique
      <4> QED
        BY <1>8, <4>2
    <3> QED
      BY <1>9, <3>2, <3>3
  <2>2. ASSUME NEW i \in 1 .. Len(path'[s]), NEW f, f = path'[s][i]
        PROVE  Sound(f)' /\ f.packet[1] = s
               /\ Absent(pendingQueue', f.packet, f.offset)
    <3>1. CASE i \in 1 .. Len(path[s]) /\ f = path[s][i]
      BY <1>6, <1>11, <3>1 DEF PathsSound
    <3>2. CASE i - Len(path[s]) \in 1 .. Len(q)
               /\ f = q[i - Len(path[s])]
      <4>1. f.packet = p /\ Fits(f, l)
        BY <1>5, <3>2
      <4>2. Sound(f)'
        BY <1>4, <4>1 DEF Sound
      <4>3. Absent(pendingQueue', f.packet, f.offset)
        BY <1>6, <1>10, <4>1 DEF Absent
      <4> QED
        BY <1>2, <4>1, <4>2, <4>3
    <3> QED
      BY <1>9, <2>2, <3>1, <3>2
  <2>3. ASSUME NEW t \in Source, t # s,
               NEW i \in 1 .. Len(path'[t]), NEW f, f = path'[t][i]
        PROVE  Sound(f)' /\ f.packet[1] = t
               /\ Absent(pendingQueue', f.packet, f.offset)
    BY <1>6, <1>7, <1>11, <2>3 DEF PathsSound
  <2>4. \A t \in Source : Unique(path'[t])
    BY <1>7, <2>1 DEF PathsSound
  <2> QED
    BY <2>2, <2>3, <2>4 DEF PathsSound, Sound, Known, LengthOf
<1> QED
  BY <1>13, <1>14, <1>15, <1>16

\* Steps that change nothing but the paths, and lose or swap fragments there.
LEMMA PathStep ==
  ASSUME IInv, NEW s \in Source, NEW t \in Seq(Fragment),
         From(t, path[s]), Unique(path[s]) => Unique(t),
         path' = [path EXCEPT ![s] = t],
         UNCHANGED <<sent, pendingQueue, pendingArr, hasPending, open,
                     contested, got>>
  PROVE  PathsSound' /\ QueueSound' /\ PendingIsOpen' /\ RivalsContest'
         /\ OpenSound' /\ GotSound'
<1> USE DEF IInv
<1>1. path'[s] = t /\ \A u \in Source : u # s => path'[u] = path[u]
  BY DEF TypeOK
<1>2. \A u \in Source : From(path'[u], path[u]) /\ Unique(path'[u])
  BY <1>1 DEF PathsSound, From
<1>3. From(pendingQueue', pendingQueue) /\ Unique(pendingQueue')
  BY DEF QueueSound, From
<1>4. /\ PathsSound' /\ QueueSound'
      /\ \A p, x : Gone(p, x) => Gone(p, x)'
  BY <1>2, <1>3, FlightShrinks
<1>5. \A p : Known(p) => Known(p)' /\ LengthOf(p)' = LengthOf(p)
  BY DEF Known, LengthOf
<1>6. PendingIsOpen' /\ RivalsContest' /\ OpenSound'
  BY <1>4, <1>5, BuffersStay
<1>7. GotSound'
  BY <1>5, GotStays
<1> QED
  BY <1>4, <1>6, <1>7

\* A number that goes to another node.
LEMMA SendElsewhereStep ==
  ASSUME IInv, NEW s \in Source, SendElsewhere(s)
  PROVE  PathsSound' /\ QueueSound' /\ PendingIsOpen' /\ RivalsContest'
         /\ OpenSound' /\ GotSound'
<1> USE DEF IInv
<1>1. \A p : Known(p) => Known(p)' /\ LengthOf(p)' = LengthOf(p)
  BY SentGrows DEF SendElsewhere
<1>2. UNCHANGED <<path, pendingQueue, pendingArr, hasPending, open, contested,
                  got>>
  BY DEF SendElsewhere, buffers
<1>3. \A f : Sound(f) => Sound(f)'
  BY <1>1 DEF Sound
<1>4. PathsSound'
  <2>1. ASSUME NEW t \in Source, NEW i \in 1 .. Len(path[t]),
               NEW f, f = path[t][i]
        PROVE  Sound(f)' /\ f.packet[1] = t
               /\ Absent(pendingQueue, f.packet, f.offset)
    BY <1>3, <2>1 DEF PathsSound
  <2>2. \A t \in Source : Unique(path[t])
    BY DEF PathsSound
  <2> QED
    BY <1>2, <2>1, <2>2 DEF PathsSound, Sound, Known, LengthOf
<1>5. QueueSound'
  <2>1. ASSUME NEW i \in 1 .. Len(pendingQueue), NEW f, f = pendingQueue[i]
        PROVE  Sound(f)' /\ f.flag # "whole"
    BY <1>3, <2>1 DEF QueueSound
  <2>2. Unique(pendingQueue)
    BY DEF QueueSound
  <2> QED
    BY <1>2, <2>1, <2>2 DEF QueueSound, Sound, Known, LengthOf
<1>6. \A p, x : Gone(p, x) => Gone(p, x)'
  BY <1>2 DEF Gone
<1>7. PendingIsOpen' /\ RivalsContest' /\ OpenSound'
  BY <1>1, <1>2, <1>6, BuffersStay
<1>8. GotSound'
  BY <1>1, <1>2, GotStays
<1> QED
  BY <1>4, <1>5, <1>7, <1>8

\* A whole packet is signalled; another fragment goes into the queue.
LEMMA GotIpPktStep ==
  ASSUME IInv, NEW s \in Source, GotIpPkt(s)
  PROVE  PathsSound' /\ QueueSound' /\ PendingIsOpen' /\ RivalsContest'
         /\ OpenSound' /\ GotSound'
<1> USE DEF IInv
<1> PICK f : f = Head(path[s])
  OBVIOUS
<1>1. /\ path[s] # <<>> /\ path[s] \in Seq(Fragment)
      /\ path' = [path EXCEPT ![s] = Tail(path[s])]
      /\ path \in [Source -> Seq(Fragment)]
      /\ UNCHANGED <<sent, pendingArr, hasPending, open, contested>>
  BY DEF GotIpPkt, senderVars, buffers, TypeOK
<1>2. /\ Len(path[s]) \in Nat \ {0} /\ f = path[s][1] /\ f \in Fragment
      /\ Tail(path[s]) \in Seq(Fragment)
  BY <1>1, TailElements
<1>3. Sound(f) /\ f.packet[1] = s /\ Absent(pendingQueue, f.packet, f.offset)
  BY <1>2 DEF PathsSound
<1>4. From(Tail(path[s]), path[s]) /\ Unique(path[s])
      /\ Unique(Tail(path[s])) /\ Absent(Tail(path[s]), f.packet, f.offset)
  BY <1>1, TailFrom, HeadIsGone DEF PathsSound
<1>5. /\ path'[s] = Tail(path[s])
      /\ \A u \in Source : u # s => path'[u] = path[u]
  BY <1>1
<1>6. \A p : Known(p) => Known(p)' /\ LengthOf(p)' = LengthOf(p)
  BY <1>1 DEF Known, LengthOf
<1>7. \A u \in Source : From(path'[u], path[u]) /\ Unique(path'[u])
  <2>1. \A u \in Source : u # s => From(path'[u], path[u]) /\ Unique(path'[u])
    BY <1>5 DEF PathsSound, From
  <2>2. From(path'[s], path[s]) /\ Unique(path'[s])
    BY <1>4, <1>5
  <2> QED
    BY <2>1, <2>2
<1>8. CASE f.flag = "whole"
  <2>1. /\ got' = [src |-> s, current |-> f.len, expected |-> f.len,
                   payload |-> [EmptyPending.payload EXCEPT ![0] = f.packet]]
        /\ UNCHANGED pendingQueue
    BY <1>8 DEF GotIpPkt
  <2>2. From(pendingQueue', pendingQueue) /\ Unique(pendingQueue')
    BY <2>1 DEF QueueSound, From
  <2>3. /\ PathsSound' /\ QueueSound'
        /\ \A p, x : Gone(p, x) => Gone(p, x)'
    BY <1>1, <1>7, <2>2, FlightShrinks
  <2>4. PendingIsOpen' /\ RivalsContest' /\ OpenSound'
    BY <1>1, <1>6, <2>3, BuffersStay
  <2>5. GotSound'
    <3>1. Known(f.packet)' /\ LengthOf(f.packet)' = LengthOf(f.packet)
          /\ LengthOf(f.packet) = f.len /\ f.len <= FragSize
          /\ f.packet \in Packet /\ f.len \in Nat
      BY <1>2, <1>3, <1>6, <1>8, FragmentParts DEF Sound, Fits
    <3>2. \A o \in Offset : o * FragSize < f.len => o = 0
      BY <3>1, SizeAssumption DEF Offset
    <3>3. got'.payload[0] = f.packet /\ got'.src = s /\ got'.expected = f.len
      BY <2>1 DEF EmptyPending, Offset
    <3> QED
      BY <1>3, <3>1, <3>2, <3>3 DEF GotSound, Whole
  <2> QED
    BY <2>3, <2>4, <2>5
<1>9. CASE f.flag # "whole"
  <2>1. /\ pendingQueue' = PushBack(pendingQueue, f, PendingCap)
        /\ UNCHANGED got
    BY <1>9 DEF GotIpPkt
  <2>2. ASSUME NEW i \in 1 .. Len(pendingQueue')
        PROVE  \/ i \in 1 .. Len(pendingQueue)
                  /\ pendingQueue'[i] = pendingQueue[i]
               \/ i = Len(pendingQueue) + 1 /\ pendingQueue'[i] = f
    BY <1>2, <2>1, PushedElements, CapAssumption DEF TypeOK
  <2>3. \A g : Sound(g) => Sound(g)'
    BY <1>6 DEF Sound
  <2>4. QueueSound'
    <3>1. ASSUME NEW i \in 1 .. Len(pendingQueue'),
                 NEW g, g = pendingQueue'[i]
          PROVE  Sound(g)' /\ g.flag # "whole"
      BY <1>3, <1>9, <2>2, <2>3, <3>1 DEF QueueSound
    <3>2. Unique(pendingQueue')
      BY <1>3, <2>2 DEF QueueSound, Unique, Absent
    <3> QED
      BY <3>1, <3>2 DEF QueueSound, Sound, Known, LengthOf
  <2>5. \A p, x : Absent(pendingQueue, p, x)
                  /\ (p # f.packet \/ x # f.offset)
                    => Absent(pendingQueue', p, x)
    BY <2>2 DEF Absent
  <2>6. PathsSound'
    <3>1. ASSUME NEW u \in Source, NEW i \in 1 .. Len(path'[u]),
                 NEW g, g = path'[u][i]
          PROVE  Sound(g)' /\ g.packet[1] = u
                 /\ Absent(pendingQueue', g.packet, g.offset)
      <4>1. PICK j \in 1 .. Len(path[u]) : g = path[u][j]
        BY <1>7, <3>1 DEF From
      <4>2. Sound(g) /\ g.packet[1] = u
            /\ Absent(pendingQueue, g.packet, g.offset)
        BY <4>1 DEF PathsSound
      <4>3. g.packet # f.packet \/ g.offset # f.offset
        BY <1>3, <1>4, <1>5, <3>1, <4>2 DEF Absent
      <4> QED
        BY <2>3, <2>5, <4>2, <4>3
    <3> QED
      BY <1>7, <3>1 DEF PathsSound, Sound, Known, LengthOf
  <2>7. ASSUME NEW p, NEW x, Gone(p, x) PROVE Gone(p, x)'
    <3>1. Absent(path[s], p, x) /\ Absent(pendingQueue, p, x)
      BY <2>7 DEF Gone
    <3>2. 1 \in 1 .. Len(path[s])
      BY <1>2
    <3>3. p # f.packet \/ x # f.offset
      BY <1>2, <3>1, <3>2 DEF Absent
    <3>4. \A u \in Source : Absent(path'[u], p, x)
      BY <1>7, <2>7, AbsentFrom DEF Gone
    <3> QED
      BY <2>5, <3>1, <3>3, <3>4 DEF Gone
  <2>8. PendingIsOpen' /\ RivalsContest' /\ OpenSound'
    BY <1>1, <1>6, <2>7, BuffersStay
  <2>9. GotSound'
    BY <1>1, <1>6, <2>1, GotStays
  <2> QED
    BY <2>4, <2>6, <2>8, <2>9
<1> QED
  BY <1>8, <1>9

\* What a fragment at the head of the queue leaves of the network.
LEMMA QueueHead ==
  ASSUME IInv, posted, pendingQueue' = Tail(pendingQueue),
         UNCHANGED <<sent, path>>, NEW f, f = Head(pendingQueue)
  PROVE  /\ PathsSound' /\ QueueSound'
         /\ f \in Fragment /\ Sound(f) /\ f.flag # "whole"
         /\ \A p, x : Gone(p, x) => Gone(p, x)'
         /\ \A p, x : Gone(p, x) => p # f.packet \/ x # f.offset
         /\ Gone(f.packet, f.offset)'
<1> USE DEF IInv
<1>1. pendingQueue # <<>> /\ pendingQueue \in Seq(Fragment)
  BY DEF TypeOK
<1>2. /\ f \in Fragment /\ f = pendingQueue[1] /\ 1 \in 1 .. Len(pendingQueue)
  BY <1>1, TailElements
<1>3. Sound(f) /\ f.flag # "whole"
  BY <1>2 DEF QueueSound
<1>4. From(pendingQueue', pendingQueue) /\ Unique(pendingQueue')
      /\ Absent(pendingQueue', f.packet, f.offset)
  BY <1>1, TailFrom, HeadIsGone DEF QueueSound
<1>5. \A s \in Source : From(path'[s], path[s]) /\ Unique(path'[s])
  BY DEF From, PathsSound
<1>6. PathsSound' /\ QueueSound' /\ \A p, x : Gone(p, x) => Gone(p, x)'
  BY <1>4, <1>5, FlightShrinks
<1>7. \A p, x : Gone(p, x) => p # f.packet \/ x # f.offset
  BY <1>2 DEF Gone, Absent
<1>8. ASSUME NEW s \in Source PROVE Absent(path[s], f.packet, f.offset)
  BY <1>2 DEF PathsSound, Absent
<1>9. Gone(f.packet, f.offset)'
  BY <1>4, <1>8 DEF Gone
<1> QED
  BY <1>2, <1>3, <1>6, <1>7, <1>9

\* Whoever shares a number with the fragment is contested, and so is the
\* packet of the fragment.
LEMMA RivalsAreContested ==
  ASSUME RivalsContest, NEW f, contested' = Contested(f),
         open' \subseteq open \cup {Open(f)}
  PROVE  /\ RivalsContest' /\ contested \subseteq contested'
         /\ \A o \in open : o.seq = f.seq /\ o.packet # f.packet =>
              o.packet \in contested' /\ f.packet \in contested'
<1>1. /\ contested \subseteq contested'
      /\ \A o \in open : o.seq = f.seq /\ o.packet # f.packet =>
           o.packet \in contested' /\ f.packet \in contested'
  BY DEF Contested
<1>2. \A o \in open' : o \in open \/ (o.seq = f.seq /\ o.packet = f.packet)
  BY DEF Open
<1>3. RivalsContest'
  BY <1>1, <1>2 DEF RivalsContest
<1> QED
  BY <1>1, <1>3

\* A buffer of another number is as before.
LEMMA OtherBuffers ==
  ASSUME OpenSound, sent' = sent, contested \subseteq contested',
         \A p, x : Gone(p, x) => Gone(p, x)',
         NEW o \in open, NEW b, b = pendingArr[o.seq]
  PROVE  /\ Known(o.packet)' /\ LengthOf(o.packet)' > FragSize
         /\ o.packet \notin contested' => HalfDone(o.packet, b)'
<1>1. /\ Known(o.packet) /\ LengthOf(o.packet) > FragSize
      /\ o.packet \notin contested => HalfDone(o.packet, b)
  BY DEF OpenSound
<1>2. Known(o.packet)' /\ LengthOf(o.packet)' = LengthOf(o.packet)
  BY <1>1 DEF Known, LengthOf
<1>3. HalfDone(o.packet, b) => HalfDone(o.packet, b)'
  BY <1>2, HalfDoneStays
<1> QED
  BY <1>1, <1>2, <1>3

\* A fragment that is not all of its packet: what it says of the length.
LEMMA FragmentLength ==
  ASSUME NEW f \in Fragment, Sound(f), f.flag # "whole"
  PROVE  /\ LengthOf(f.packet) \in Nat /\ LengthOf(f.packet) > FragSize
         /\ FragSize \in Nat
         /\ \/ f.flag = "more" /\ f.offset = 0 /\ f.len = FragSize
            \/ f.flag = "last" /\ f.offset = 1
               /\ f.len = LengthOf(f.packet) - FragSize
               /\ Length(f) = LengthOf(f.packet)
<1>1. LengthOf(f.packet) \in Nat /\ FragSize \in Nat
  BY SizeAssumption DEF Sound, Known
<1>2. CASE f.flag = "more"
  BY <1>1, <1>2 DEF Sound, Fits
<1>3. CASE f.flag = "last"
  <2>1. f.offset = 1 /\ f.len = LengthOf(f.packet) - FragSize
        /\ LengthOf(f.packet) > FragSize
    BY <1>3 DEF Sound, Fits
  <2>2. Length(f) = 1 * FragSize + (LengthOf(f.packet) - FragSize)
    BY <2>1 DEF Length
  <2> QED
    BY <1>1, <1>3, <2>1, <2>2
<1> QED
  BY <1>2, <1>3 DEF Sound, Fits

\* The first fragment of a packet.
LEMMA PendingTaskFirstStep ==
  ASSUME IInv, PendingTaskFirst
  PROVE  PathsSound' /\ QueueSound' /\ PendingIsOpen' /\ RivalsContest'
         /\ OpenSound' /\ GotSound'
<1> USE DEF IInv
<1> PICK f : f = Head(pendingQueue)
  OBVIOUS
<1> PICK s : s = f.packet[1]
  OBVIOUS
<1> PICK buffer : buffer = Stored(f, s, f.len)
  OBVIOUS
<1>1. /\ posted /\ pendingQueue' = Tail(pendingQueue)
      /\ <<s, f.seq>> \notin hasPending
      /\ hasPending' = hasPending \cup {<<s, f.seq>>}
      /\ pendingArr' = [pendingArr EXCEPT ![f.seq] = buffer]
      /\ open' = open \cup {Open(f)} /\ contested' = Contested(f)
      /\ UNCHANGED <<sent, path, got>>
  BY DEF PendingTaskFirst, senderVars
<1>2. /\ PathsSound' /\ QueueSound'
      /\ f \in Fragment /\ Sound(f) /\ f.flag # "whole"
      /\ \A p, x : Gone(p, x) => Gone(p, x)'
      /\ Gone(f.packet, f.offset)'
  BY <1>1, QueueHead
<1>3. /\ RivalsContest' /\ contested \subseteq contested'
      /\ \A o \in open : o.seq = f.seq /\ o.packet # f.packet =>
           o.packet \in contested'
  BY <1>1, RivalsAreContested
<1>4. f.packet \in Packet /\ s \in Source /\ f.seq \in Seqs
      /\ f.offset \in Offset
  BY <1>2, FragmentParts
<1>5. \A p : Known(p) => Known(p)' /\ LengthOf(p)' = LengthOf(p)
  BY <1>1 DEF Known, LengthOf
<1>6. GotSound'
  BY <1>1, <1>3, <1>5, GotStays
<1>7. PendingIsOpen'
  <2> SUFFICES ASSUME NEW u \in Source, NEW q \in Seqs
               PROVE  <<u, q>> \in hasPending' <=>
                        \E o \in open' : o.seq = q /\ o.packet[1] = u
    BY DEF PendingIsOpen
  <2>1. Open(f) \in open' /\ Open(f).seq = f.seq /\ Open(f).packet[1] = s
    BY <1>1 DEF Open
  <2>2. ASSUME <<u, q>> \in hasPending'
        PROVE  \E o \in open' : o.seq = q /\ o.packet[1] = u
    <3>1. CASE <<u, q>> \in hasPending
      <4>1. PICK o \in open : o.seq = q /\ o.packet[1] = u
        BY <3>1 DEF PendingIsOpen
      <4>2. o \in open'
        BY <1>1
      <4> QED
        BY <4>1, <4>2
    <3>2. CASE u = s /\ q = f.seq
      BY <2>1, <3>2
    <3> QED
      BY <1>1, <2>2, <3>1, <3>2
  <2>3. ASSUME NEW o \in open', o.seq = q, o.packet[1] = u
        PROVE  <<u, q>> \in hasPending'
    <3>1. CASE o \in open
      BY <1>1, <2>3, <3>1 DEF PendingIsOpen
    <3>2. CASE o = Open(f)
      <4>1. q = f.seq /\ u = s
        BY <2>1, <2>3, <3>2
      <4> QED
        BY <1>1, <4>1
    <3> QED
      BY <1>1, <3>1, <3>2
  <2> QED
    BY <2>2, <2>3
<1>8. HalfDone(f.packet, buffer)'
  <2>1. buffer.src = s /\ buffer.current = f.len
        /\ buffer.expected = (IF f.flag = "last" THEN Length(f)
                              ELSE pendingArr[f.seq].expected)
        /\ buffer.payload = [pendingArr[f.seq].payload EXCEPT
                               ![f.offset] = f.packet]
    BY DEF Stored
  <2>2. pendingArr[f.seq].payload \in [Offset -> Packet \cup {NoPacket}]
    BY <1>4 DEF TypeOK, Pending
  <2>3. buffer.payload[f.offset] = f.packet
    BY <1>4, <2>1, <2>2
  <2>4. LengthOf(f.packet)' = LengthOf(f.packet)
    BY <1>1 DEF LengthOf
  <2>5. \/ f.flag = "more" /\ f.offset = 0 /\ f.len = FragSize
        \/ f.flag = "last" /\ f.offset = 1
           /\ f.len = LengthOf(f.packet) - FragSize
           /\ Length(f) = LengthOf(f.packet)
    BY <1>2, FragmentLength
  <2>6. f.offset = 0 => buffer.current = FragSize
    BY <2>1, <2>5
  <2>7. f.offset = 1 => /\ buffer.current = LengthOf(f.packet)' - FragSize
                        /\ buffer.expected = LengthOf(f.packet)'
    BY <2>1, <2>4, <2>5
  <2>8. buffer.src = f.packet[1] /\ Gone(f.packet, f.offset)'
        /\ f.offset \in Offset
    BY <1>2, <1>4, <2>1
  <2> QED
    BY <2>3, <2>6, <2>7, <2>8 DEF HalfDone
<1>9. OpenSound'
  <2>1. ASSUME NEW o \in open', NEW b, b = pendingArr'[o.seq]
        PROVE  /\ Known(o.packet)' /\ LengthOf(o.packet)' > FragSize
               /\ o.packet \notin contested' => HalfDone(o.packet, b)'
    <3>1. CASE o \in open /\ o.seq # f.seq
      <4>1. b = pendingArr[o.seq]
        BY <1>1, <2>1, <3>1 DEF TypeOK
      <4> QED
        BY <1>1, <1>2, <1>3, <3>1, <4>1, OtherBuffers
    <3>2. CASE o \in open /\ o.seq = f.seq
      <4>1. o.packet # f.packet
        BY <1>1, <1>4, <3>2 DEF PendingIsOpen
      <4>2. o.packet \in contested'
        BY <1>3, <3>2, <4>1
      <4>3. Known(o.packet)' /\ LengthOf(o.packet)' > FragSize
        BY <1>5, <3>2 DEF OpenSound
      <4> QED
        BY <4>2, <4>3
    <3>3. CASE o = Open(f)
      <4>1. o.packet = f.packet /\ o.seq = f.seq
        BY <3>3 DEF Open
      <4>2. b = buffer
        BY <1>1, <1>4, <2>1, <4>1 DEF TypeOK
      <4>3. Known(f.packet)' /\ LengthOf(f.packet)' > FragSize
        BY <1>2, <1>5, FragmentLength DEF Sound
      <4> QED
        BY <1>8, <4>1, <4>2, <4>3
    <3> QED
      BY <1>1, <3>1, <3>2, <3>3
  <2> QED
    BY <2>1 DEF OpenSound, Known, LengthOf, HalfDone, Gone
<1> QED
  BY <1>2, <1>3, <1>6, <1>7, <1>9

\* A later fragment: it completes a packet that is not contested.
LEMMA PendingTaskNextStep ==
  ASSUME IInv, PendingTaskNext
  PROVE  PathsSound' /\ QueueSound' /\ PendingIsOpen' /\ RivalsContest'
         /\ OpenSound' /\ GotSound'
<1> USE DEF IInv
<1> PICK f : f = Head(pendingQueue)
  OBVIOUS
<1> PICK s : s = f.packet[1]
  OBVIOUS
<1> PICK old : old = pendingArr[f.seq]
  OBVIOUS
<1> PICK buffer : buffer = Stored(f, old.src, old.current + f.len)
  OBVIOUS
<1>1. /\ posted /\ pendingQueue' = Tail(pendingQueue)
      /\ <<s, f.seq>> \in hasPending
      /\ pendingArr' = [pendingArr EXCEPT ![f.seq] = buffer]
      /\ contested' = Contested(f)
      /\ IF IsComplete(buffer)
         THEN /\ hasPending' = hasPending \ {<<s, f.seq>>}
              /\ open' = Others(s, f.seq) /\ got' = buffer
         ELSE /\ open' = open \cup {Open(f)}
              /\ UNCHANGED <<hasPending, got>>
      /\ UNCHANGED <<sent, path>>
  BY DEF PendingTaskNext, senderVars
<1>2. /\ PathsSound' /\ QueueSound'
      /\ f \in Fragment /\ Sound(f) /\ f.flag # "whole"
      /\ \A p, x : Gone(p, x) => Gone(p, x)'
      /\ \A p, x : Gone(p, x) => p # f.packet \/ x # f.offset
  BY <1>1, QueueHead
<1>3. /\ RivalsContest' /\ contested \subseteq contested'
      /\ \A o \in open : o.seq = f.seq /\ o.packet # f.packet =>
           o.packet \in contested' /\ f.packet \in contested'
  <2>1. open' \subseteq open \cup {Open(f)}
    BY <1>1 DEF Others
  <2> QED
    BY <1>1, <2>1, RivalsAreContested
<1>4. f.packet \in Packet /\ s \in Source /\ f.seq \in Seqs
      /\ f.offset \in Offset
  BY <1>2, FragmentParts
<1>5. \A p : Known(p) => Known(p)' /\ LengthOf(p)' = LengthOf(p)
  BY <1>1 DEF Known, LengthOf
<1>6. /\ LengthOf(f.packet) \in Nat /\ LengthOf(f.packet) > FragSize
      /\ FragSize \in Nat /\ Known(f.packet)
      /\ \/ f.flag = "more" /\ f.offset = 0 /\ f.len = FragSize
         \/ f.flag = "last" /\ f.offset = 1
            /\ f.len = LengthOf(f.packet) - FragSize
            /\ Length(f) = LengthOf(f.packet)
  BY <1>2, FragmentLength DEF Sound
<1>7. /\ buffer.src = old.src /\ buffer.current = old.current + f.len
      /\ buffer.expected = (IF f.flag = "last" THEN Length(f)
                            ELSE old.expected)
      /\ buffer.payload = [old.payload EXCEPT ![f.offset] = f.packet]
      /\ old.payload \in [Offset -> Packet \cup {NoPacket}]
  BY <1>4 DEF Stored, TypeOK, Pending
<1>8. ASSUME f.packet \notin contested'
      PROVE  IsComplete(buffer) /\ Whole(buffer)'
  <2>1. PICK o \in open : o.seq = f.seq /\ o.packet[1] = s
    BY <1>1, <1>4 DEF PendingIsOpen
  <2>2. o.packet = f.packet /\ f.packet \notin contested
    BY <1>3, <1>8, <2>1
  <2>3. HalfDone(f.packet, old)
    BY <2>1, <2>2 DEF OpenSound
  <2>4. PICK x \in Offset :
          /\ old.payload[x] = f.packet /\ old.src = s /\ Gone(f.packet, x)
          /\ x = 0 => old.current = FragSize
          /\ x = 1 => /\ old.current = LengthOf(f.packet) - FragSize
                      /\ old.expected = LengthOf(f.packet)
    BY <2>3 DEF HalfDone
  <2>5. x # f.offset /\ (x = 0 \/ x = 1)
    BY <1>2, <2>4 DEF Offset
  <2>6. buffer.expected = LengthOf(f.packet)
        /\ buffer.current = LengthOf(f.packet)
    BY <1>6, <1>7, <2>4, <2>5
  <2>7. \A i \in Offset : buffer.payload[i] = f.packet
    <3>1. \A i \in Offset : i = x \/ i = f.offset
      BY <1>4, <2>5 DEF Offset
    <3> QED
      BY <1>7, <2>4, <3>1
  <2>8. Known(f.packet)' /\ LengthOf(f.packet)' = LengthOf(f.packet)
    BY <1>5, <1>6
  <2>9. IsComplete(buffer)
    BY <1>6, <2>6 DEF IsComplete
  <2>10. Whole(buffer)'
    <3> PICK p \in Packet : p = f.packet
      BY <1>4
    <3>1. /\ Known(p)' /\ buffer.src = p[1] /\ buffer.expected = LengthOf(p)'
          /\ \A i \in Offset : buffer.payload[i] = p
      BY <1>7, <2>4, <2>6, <2>7, <2>8
    <3> QED
      BY <3>1 DEF Whole
  <2> QED
    BY <2>9, <2>10
<1>9. Whole(buffer)'
  <2>1. buffer.payload[f.offset] = f.packet
    BY <1>4, <1>7
  <2>2. CASE f.packet \in contested'
    BY <1>4, <2>1, <2>2 DEF Whole
  <2> QED
    BY <1>8, <2>2
<1>10. GotSound'
  <2>1. CASE IsComplete(buffer)
    <3>1. got' = buffer
      BY <1>1, <2>1
    <3> QED
      BY <1>9, <3>1 DEF GotSound, Whole, Known, LengthOf
  <2>2. CASE ~IsComplete(buffer)
    BY <1>1, <1>3, <1>5, <2>2, GotStays
  <2> QED
    BY <2>1, <2>2
<1>11. PendingIsOpen'
  <2> SUFFICES ASSUME NEW u \in Source, NEW q \in Seqs
               PROVE  <<u, q>> \in hasPending' <=>
                        \E o \in open' : o.seq = q /\ o.packet[1] = u
    BY DEF PendingIsOpen
  <2>1. <<u, q>> \in hasPending <=>
          \E o \in open : o.seq = q /\ o.packet[1] = u
    BY DEF PendingIsOpen
  <2>2. CASE IsComplete(buffer)
    <3>1. hasPending' = hasPending \ {<<s, f.seq>>}
          /\ open' = {o \in open : o.seq # f.seq \/ o.packet[1] # s}
      BY <1>1, <2>2 DEF Others
    <3> QED
      BY <2>1, <3>1
  <2>3. CASE ~IsComplete(buffer)
    <3>1. hasPending' = hasPending /\ open' = open \cup {Open(f)}
      BY <1>1, <2>3
    <3>2. Open(f).seq = f.seq /\ Open(f).packet[1] = s
      BY DEF Open
    <3>3. ASSUME NEW o \in open', o.seq = q, o.packet[1] = u
          PROVE  <<u, q>> \in hasPending
      <4>1. CASE o \in open
        BY <2>1, <3>3, <4>1
      <4>2. CASE o = Open(f)
        <5>1. q = f.seq /\ u = s
          BY <3>2, <3>3, <4>2
        <5> QED
          BY <1>1, <5>1
      <4> QED
        BY <3>1, <4>1, <4>2
    <3> QED
      BY <2>1, <3>1, <3>3
  <2> QED
    BY <2>2, <2>3
<1>12. OpenSound'
  <2>1. ASSUME NEW o \in open', NEW b, b = pendingArr'[o.seq]
        PROVE  /\ Known(o.packet)' /\ LengthOf(o.packet)' > FragSize
               /\ o.packet \notin contested' => HalfDone(o.packet, b)'
    <3>1. o \in open \/ (o = Open(f) /\ ~IsComplete(buffer))
      BY <1>1, <2>1 DEF Others
    <3>2. CASE o \in open /\ o.seq # f.seq
      <4>1. b = pendingArr[o.seq]
        BY <1>1, <2>1, <3>2 DEF TypeOK
      <4> QED
        BY <1>1, <1>2, <1>3, <3>2, <4>1, OtherBuffers
    <3>3. CASE o \in open /\ o.seq = f.seq
      <4>1. Known(o.packet)' /\ LengthOf(o.packet)' > FragSize
        BY <1>5, <3>3 DEF OpenSound
      <4>2. CASE o.packet # f.packet
        BY <1>3, <3>3, <4>1, <4>2
      <4>3. CASE o.packet = f.packet
        <5>1. ~IsComplete(buffer)
          BY <1>1, <3>3, <4>3 DEF Others
        <5> QED
          BY <1>8, <4>1, <4>3, <5>1
      <4> QED
        BY <4>2, <4>3
    <3>4. CASE o = Open(f) /\ ~IsComplete(buffer)
      <4>1. o.packet = f.packet
        BY <3>4 DEF Open
      <4>2. Known(f.packet)' /\ LengthOf(f.packet)' > FragSize
        BY <1>5, <1>6
      <4> QED
        BY <1>8, <3>4, <4>1, <4>2
    <3> QED
      BY <3>1, <3>2, <3>3, <3>4
  <2> QED
    BY <2>1 DEF OpenSound, Known, LengthOf, HalfDone, Gone
<1> QED
  BY <1>2, <1>3, <1>10, <1>11, <1>12

\* The timer gives up what its oldest entry names.
LEMMA PendingTimerFiredStep ==
  ASSUME IInv, PendingTimerFired
  PROVE  PathsSound' /\ QueueSound' /\ PendingIsOpen' /\ RivalsContest'
         /\ OpenSound' /\ GotSound'
<1> USE DEF IInv
<1> PICK e : e = Head(timeoutQueue)
  OBVIOUS
<1>1. /\ hasPending' = hasPending \ {e}
      /\ open' = {o \in open : o.seq # e[2] \/ o.packet[1] # e[1]}
      /\ UNCHANGED <<sent, path, pendingQueue, pendingArr, got, contested>>
  BY DEF PendingTimerFired, Others, senderVars
<1>2. e \in Source \X Seqs
  <2>1. timeoutQueue # <<>> /\ timeoutQueue \in Seq(Source \X Seqs)
    BY DEF PendingTimerFired, TypeOK
  <2> QED
    BY <2>1, TailElements
<1>3. e = <<e[1], e[2]>>
  BY <1>2
<1>4. \A p : Known(p) => Known(p)' /\ LengthOf(p)' = LengthOf(p)
  BY <1>1 DEF Known, LengthOf
<1>5. PathsSound' /\ QueueSound' /\ \A p, x : Gone(p, x) => Gone(p, x)'
  <2>1. \A s \in Source : From(path'[s], path[s]) /\ Unique(path'[s])
    BY <1>1 DEF PathsSound, From
  <2>2. From(pendingQueue', pendingQueue) /\ Unique(pendingQueue')
    BY <1>1 DEF QueueSound, From
  <2> QED
    BY <1>1, <2>1, <2>2, FlightShrinks
<1>6. RivalsContest'
  BY <1>1 DEF RivalsContest
<1>7. PendingIsOpen'
  <2> SUFFICES ASSUME NEW u \in Source, NEW q \in Seqs
               PROVE  <<u, q>> \in hasPending' <=>
                        \E o \in open' : o.seq = q /\ o.packet[1] = u
    BY DEF PendingIsOpen
  <2>1. <<u, q>> \in hasPending <=>
          \E o \in open : o.seq = q /\ o.packet[1] = u
    BY DEF PendingIsOpen
  <2>2. <<u, q>> = e <=> u = e[1] /\ q = e[2]
    BY <1>3
  <2> QED
    BY <1>1, <2>1, <2>2
<1>8. OpenSound'
  <2>1. ASSUME NEW o \in open', NEW b, b = pendingArr'[o.seq]
        PROVE  /\ Known(o.packet)' /\ LengthOf(o.packet)' > FragSize
               /\ o.packet \notin contested' => HalfDone(o.packet, b)'
    <3>1. o \in open /\ b = pendingArr[o.seq] /\ contested \subseteq contested'
      BY <1>1, <2>1
    <3> QED
      BY <1>1, <1>5, <3>1, OtherBuffers
  <2> QED
    BY <2>1 DEF OpenSound, Known, LengthOf, HalfDone, Gone
<1>9. GotSound'
  BY <1>1, <1>4, GotStays
<1> QED
  BY <1>5, <1>6, <1>7, <1>8, <1>9

-----------------------------------------------------------------------------
(* The theorem                                                             *)

LEMMA InitInvariant == Init => IInv
<1> SUFFICES ASSUME Init PROVE IInv
  OBVIOUS
<1>1. TypeOK /\ Counted
  BY InitType
<1>2. PathsSound
  BY DEF Init, PathsSound, Unique
<1>3. QueueSound
  BY DEF Init, QueueSound, Unique
<1>4. PendingIsOpen /\ RivalsContest /\ OpenSound /\ GotSound
  BY DEF Init, PendingIsOpen, RivalsContest, OpenSound, GotSound
<1> QED
  BY <1>1, <1>2, <1>3, <1>4 DEF IInv

LEMMA NextInvariant == IInv /\ [Next]_vars => IInv'
<1> SUFFICES ASSUME IInv, [Next]_vars PROVE IInv'
  OBVIOUS
<1>1. TypeOK' /\ Counted'
  BY NextType DEF IInv
<1> DEFINE Rest == PathsSound /\ QueueSound /\ PendingIsOpen /\ RivalsContest
                   /\ OpenSound /\ GotSound
<1>2. ASSUME NEW s \in Source, NEW l \in Lengths, Send(s, l) PROVE Rest'
  BY <1>2, SendStep
<1>3. ASSUME NEW s \in Source, SendElsewhere(s) PROVE Rest'
  BY <1>3, SendElsewhereStep
<1>4. ASSUME NEW s \in Source, Lose(s) PROVE Rest'
  <2>1. path[s] # <<>> /\ path[s] \in Seq(Fragment)
    BY <1>4 DEF Lose, IInv, TypeOK
  <2>2. Tail(path[s]) \in Seq(Fragment) /\ From(Tail(path[s]), path[s])
        /\ (Unique(path[s]) => Unique(Tail(path[s])))
    BY <2>1, TailElements, TailFrom
  <2>3. /\ path' = [path EXCEPT ![s] = Tail(path[s])]
        /\ UNCHANGED <<sent, pendingQueue, pendingArr, hasPending, open,
                       contested, got>>
    BY <1>4 DEF Lose, senderVars, buffers
  <2> QED
    BY <2>2, <2>3, PathStep
<1>5. ASSUME NEW s \in Source, Overtake(s) PROVE Rest'
  <2> DEFINE t == <<path[s][2], path[s][1]>>
                    \o SubSeq(path[s], 3, Len(path[s]))
  <2>1. path[s] \in Seq(Fragment) /\ Len(path[s]) > 1
    BY <1>5 DEF Overtake, IInv, TypeOK
  <2>2. t \in Seq(Fragment) /\ From(t, path[s])
        /\ (Unique(path[s]) => Unique(t))
    BY <2>1, SwapFrom
  <2>3. /\ path' = [path EXCEPT ![s] = t]
        /\ UNCHANGED <<sent, pendingQueue, pendingArr, hasPending, open,
                       contested, got>>
    BY <1>5 DEF Overtake, senderVars, buffers
  <2> HIDE DEF t
  <2> QED
    BY <2>2, <2>3, PathStep
<1>6. ASSUME NEW s \in Source, GotIpPkt(s) PROVE Rest'
  BY <1>6, GotIpPktStep
<1>7. ASSUME PendingTaskFirst PROVE Rest'
  BY <1>7, PendingTaskFirstStep
<1>8. ASSUME PendingTaskNext PROVE Rest'
  BY <1>8, PendingTaskNextStep
<1>9. ASSUME PendingTimerFired PROVE Rest'
  BY <1>9, PendingTimerFiredStep
<1>10. ASSUME UNCHANGED vars PROVE Rest'
  <2>1. UNCHANGED <<sent, path, pendingQueue, pendingArr, hasPending, open,
                    contested, got>>
    BY <1>10 DEF vars, senderVars, buffers
  <2>2. /\ \A f : Sound(f) <=> Sound(f)'
        /\ \A p : (Known(p) <=> Known(p)') /\ LengthOf(p)' = LengthOf(p)
    BY <2>1 DEF Sound, Known, LengthOf
  <2>3. \A p, x : Gone(p, x) => Gone(p, x)'
    BY <2>1 DEF Gone
  <2>4. \A s \in Source : From(path'[s], path[s]) /\ Unique(path'[s])
    BY <2>1 DEF IInv, PathsSound, From
  <2>5. From(pendingQueue', pendingQueue) /\ Unique(pendingQueue')
    BY <2>1 DEF IInv, QueueSound, From
  <2>6. PathsSound' /\ QueueSound'
    BY <2>1, <2>4, <2>5, FlightShrinks DEF IInv
  <2>7. PendingIsOpen' /\ RivalsContest' /\ OpenSound'
    BY <2>1, <2>2, <2>3, BuffersStay DEF IInv
  <2>8. GotSound'
    BY <2>1, <2>2, GotStays DEF IInv
  <2> QED
    BY <2>6, <2>7, <2>8
<1> HIDE DEF Rest
<1>11. Rest'
  BY <1>2, <1>3, <1>4, <1>5, <1>6, <1>7, <1>8, <1>9, <1>10 DEF Next
<1> QED
  BY <1>1, <1>11 DEF IInv, Rest

\* What has a packet that is not forgotten covers it with its own fragments.
LEMMA GotIsWhole == GotSound => WholeUnlessContested
<1> SUFFICES ASSUME GotSound, got # EmptyPending,
                    \A o \in Offset : got.payload[o] \notin contested
             PROVE  \E p \in Packet : /\ Parts = {p} /\ got.src = p[1]
                                       /\ got.expected = sent[p[1]][p[2]]
  BY DEF WholeUnlessContested
<1>1. PICK p \in Packet :
        /\ Known(p) /\ got.src = p[1] /\ got.expected = LengthOf(p)
        /\ \A o \in Offset :
             o * FragSize < got.expected => got.payload[o] = p
  BY DEF GotSound, Whole
<1>2. 0 \in Offset /\ 0 * FragSize < got.expected
  <2>1. got.expected \in Nat /\ 0 < got.expected /\ FragSize \in Nat
    BY <1>1, LengthsAreSmall DEF Known
  <2>2. 0 * FragSize = 0
    BY <2>1
  <2> QED
    BY <2>1, <2>2 DEF Offset
<1>3. Parts = {p}
  BY <1>1, <1>2 DEF Parts
<1> QED
  BY <1>1, <1>3 DEF LengthOf

\* IP signals whole packets only, with their length and their source, whatever
\* is lost, given up or overtaken: unless packets of one number met in a buffer.
THEOREM ArrivesWhole == Spec => []WholeUnlessContested
<1>1. Spec => []IInv
  BY InitInvariant, NextInvariant, PTL DEF Spec
<1>2. IInv => WholeUnlessContested
  BY GotIsWhole DEF IInv
<1> QED
  BY <1>1, <1>2, PTL

-----------------------------------------------------------------------------
(* What waits for a fragment is watched                                    *)

\* There is room in TimeoutQueue whenever pendingTask may add to it.
RoomToWatch == posted => Len(timeoutQueue) < TimeoutCap

\* Nothing waits at the start.
LEMMA InitWatched == Init => PendingIsWatched
BY DEF Init, PendingIsWatched

\* A first fragment adds what begins to wait behind what waits already.
LEMMA FirstWatched ==
  TypeOK /\ PendingIsWatched /\ RoomToWatch /\ PendingTaskFirst
    => PendingIsWatched'
<1> SUFFICES ASSUME TypeOK, PendingIsWatched, RoomToWatch, PendingTaskFirst,
                    NEW e \in hasPending'
             PROVE  \E i \in 1 .. Len(timeoutQueue') : timeoutQueue'[i] = e
  BY DEF PendingIsWatched
<1> PICK x : x = <<Head(pendingQueue).packet[1], Head(pendingQueue).seq>>
  OBVIOUS
<1>1. /\ posted /\ hasPending' = hasPending \cup {x}
      /\ timeoutQueue' = PushBack(timeoutQueue, x, TimeoutCap)
  BY DEF PendingTaskFirst, Watched
<1>2. timeoutQueue' = Append(timeoutQueue, x)
  BY <1>1 DEF RoomToWatch, PushBack
<1>3. x \in Source \X Seqs
  <2>1. Head(pendingQueue) \in Fragment
    BY <1>1, TailElements DEF TypeOK
  <2> QED
    BY <2>1, FragmentParts
<1>4. /\ Len(timeoutQueue) \in Nat /\ Len(timeoutQueue') = Len(timeoutQueue) + 1
      /\ \A i \in 1 .. Len(timeoutQueue) : timeoutQueue'[i] = timeoutQueue[i]
      /\ timeoutQueue'[Len(timeoutQueue) + 1] = x
  BY <1>2, <1>3, AppendProperties, LenProperties DEF TypeOK
<1>5. CASE e = x
  BY <1>4, <1>5
<1>6. CASE e \in hasPending
  <2>1. PICK i \in 1 .. Len(timeoutQueue) : timeoutQueue[i] = e
    BY <1>6 DEF PendingIsWatched
  <2> QED
    BY <1>4, <2>1
<1> QED
  BY <1>1, <1>5, <1>6

\* The timer takes away an entry and gives up what it is of, even if that is a
\* later packet of the same number.
LEMMA FiredWatched ==
  TypeOK /\ PendingIsWatched /\ PendingTimerFired => PendingIsWatched'
<1> SUFFICES ASSUME TypeOK, PendingIsWatched, PendingTimerFired,
                    NEW e \in hasPending'
             PROVE  \E i \in 1 .. Len(timeoutQueue') : timeoutQueue'[i] = e
  BY DEF PendingIsWatched
<1>1. /\ timeoutQueue # <<>> /\ timeoutQueue' = Tail(timeoutQueue)
      /\ e \in hasPending /\ e # Head(timeoutQueue)
  BY DEF PendingTimerFired, TypeOK
<1>2. PICK i \in 1 .. Len(timeoutQueue) : timeoutQueue[i] = e
  BY <1>1 DEF PendingIsWatched
<1>3. /\ Len(timeoutQueue) \in Nat \ {0} /\ Head(timeoutQueue) = timeoutQueue[1]
      /\ Len(timeoutQueue') = Len(timeoutQueue) - 1
      /\ \A j \in 1 .. Len(timeoutQueue') :
           timeoutQueue'[j] = timeoutQueue[j + 1]
  BY <1>1, TailElements DEF TypeOK
<1>4. i - 1 \in 1 .. Len(timeoutQueue') /\ (i - 1) + 1 = i
  BY <1>1, <1>2, <1>3
<1>5. timeoutQueue'[i - 1] = e
  BY <1>2, <1>3, <1>4
<1> QED
  BY <1>4, <1>5

\* Every step from a state with room keeps what waits watched.
LEMMA NextWatched ==
  TypeOK /\ PendingIsWatched /\ RoomToWatch /\ [Next]_vars => PendingIsWatched'
<1> SUFFICES ASSUME TypeOK, PendingIsWatched, RoomToWatch, [Next]_vars
             PROVE  PendingIsWatched'
  OBVIOUS
<1>1. CASE UNCHANGED <<hasPending, timeoutQueue>>
  BY <1>1 DEF PendingIsWatched
<1>2. CASE PendingTaskNext
  <2>1. hasPending' \subseteq hasPending /\ timeoutQueue' = timeoutQueue
    BY <1>2 DEF PendingTaskNext
  <2> QED
    BY <2>1 DEF PendingIsWatched
<1>3. ASSUME NEW s \in Source,
             \/ \E l \in Lengths : Send(s, l)
             \/ SendElsewhere(s) \/ Lose(s) \/ Overtake(s) \/ GotIpPkt(s)
      PROVE  UNCHANGED <<hasPending, timeoutQueue>>
  BY <1>3 DEF Send, SendElsewhere, Lose, Overtake, GotIpPkt, buffers
<1>4. UNCHANGED vars => UNCHANGED <<hasPending, timeoutQueue>>
  BY DEF vars, buffers
<1> QED
  BY <1>1, <1>2, <1>3, <1>4, FirstWatched, FiredWatched DEF Next

\* For any sources, numbers and losses: as long as TimeoutQueue has room when
\* pendingTask runs, what waits for a fragment has an entry in it, although
\* entries outlive their packets and a firing may take one of another packet.
THEOREM WatchedWithRoom == Spec /\ []RoomToWatch => []PendingIsWatched
BY InitWatched, NextWatched, TypeCorrect, PTL DEF Spec

=============================================================================
