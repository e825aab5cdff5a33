--------------------------- MODULE TcpStream_proofs ---------------------------
(***************************************************************************)
(* Theorems about TcpStream on the first lap of the ring, for any size of   *)
(* ring and segments, any lines, queues, losses and early timers: what the  *)
(* peer reads is what was written.                                         *)
(*                                                                         *)
(* Positions of the ring are counted in bytes from Start on: A bytes are    *)
(* acknowledged and T are sent, and number p is that of the last segment    *)
(* acknowledged.  Segment p + i of the window ends behind EndIn(A, T, i).   *)
(***************************************************************************)
EXTENDS TcpStream, WellFoundedInduction, SequenceTheorems, TLAPS

\* The ring is not filled to its end.
FirstLap == Start + MaxBytes < B

-----------------------------------------------------------------------------
(* Arithmetic                                                              *)

\* The bytes of i full segments.
Span(i) == i * S

\* The sizes are numbers, and a segment is not empty.
LEMMA Sizes ==
  /\ B \in Nat \ {0} /\ S \in Nat \ {0} /\ S <= B
  /\ Start \in Nat /\ Start < B /\ MaxBytes \in Nat
  /\ ReceiveCap \in Nat \ {0} /\ ChanCap \in Nat \ {0}
  /\ MaxLoss \in Nat /\ MaxEarly \in Nat
  /\ W \in Nat \ {0} /\ W = B + B
BY SizeAssumption DEF W

\* A remainder that is the number itself, and where a remainder lies.
LEMMA SmallModulo ==
  ASSUME NEW m \in Nat \ {0}, NEW x \in 0 .. m - 1
  PROVE  x % m = x
OBVIOUS

\* A remainder is less than its modulus.
LEMMA ModuloType ==
  ASSUME NEW m \in Nat \ {0}, NEW x \in Int
  PROVE  x % m \in 0 .. m - 1
OBVIOUS

\* The remainder of a negative number that is less than a modulus away.
LEMMA NegativeModulo ==
  ASSUME NEW m \in Nat \ {0}, NEW x \in Int, x + m \in 0 .. m - 1
  PROVE  x % m = x + m
OBVIOUS

\* The number after one that is not the last.
LEMMA NextNumber ==
  \A n, e : n \in 0 .. e /\ e \in Nat /\ n # e => \A l : l = e => n + 1 <= l
OBVIOUS

\* A difference added back.
LEMMA Difference ==
  \A x, y : x \in Nat /\ y \in Nat => \A z : z = y - x => y = x + z
OBVIOUS

\* Full segments have at least a byte each.
LEMMA SpanType == \A i \in Nat : Span(i) \in Nat /\ Span(i) >= i
BY Sizes DEF Span

\* No segments have no bytes.
LEMMA SpanZero == Span(0) = 0
BY Sizes DEF Span

\* One segment more has S bytes more.
LEMMA SpanNext == \A i \in Nat : Span(i + 1) = Span(i) + S
BY Sizes DEF Span

\* Segments one after the other.
LEMMA SpanAdds == \A i, j \in Nat : Span(i + j) = Span(i) + Span(j)
BY Sizes DEF Span

\* Fewer segments have fewer bytes, by a segment at least.
LEMMA SpanGrows ==
  ASSUME NEW i \in Nat, NEW j \in Nat, i < j
  PROVE  Span(i) + S <= Span(j)
<1>1. j - i - 1 \in Nat /\ j = (i + 1) + (j - i - 1)
  OBVIOUS
<1>2. Span(j) = Span(i + 1) + Span(j - i - 1)
  BY <1>1, SpanAdds
<1>3. Span(i + 1) = Span(i) + S /\ Span(i) \in Nat /\ Span(j - i - 1) \in Nat
  BY <1>1, SpanNext, SpanType
<1> QED
  BY <1>2, <1>3, Sizes

\* The number of segments that n bytes take.
LEMMA Ceiling ==
  ASSUME NEW k \in Nat \ {0}, NEW n \in Nat, Span(k - 1) < n, n <= Span(k)
  PROVE  (n + S - 1) \div S = k
BY Sizes DEF Span

\* That number of segments is enough, and one less is not.
LEMMA CeilingType ==
  ASSUME NEW n \in Nat \ {0}
  PROVE  LET k == (n + S - 1) \div S
         IN  k \in Nat \ {0} /\ Span(k - 1) < n /\ n <= Span(k)
BY Sizes DEF Span

-----------------------------------------------------------------------------
(* Windows: what is in flight                                              *)

EndIn(A, T, i) == IF A + Span(i) <= T THEN A + Span(i) ELSE T

\* A segment that is not old carries the bytes of its place in the window.
SoundSegment(A, T, p) ==
  {s \in Segment :
     s.ack > p =>
       LET i == s.ack - p
       IN  /\ A + Span(i - 1) < T
           /\ s.seq = Start + EndIn(A, T, i)
           /\ s.bytes = [j \in 1 .. EndIn(A, T, i) - EndIn(A, T, i - 1) |->
                           EndIn(A, T, i - 1) + j]}

\* An acknowledgement is old, or of one of the k segments that the receiver
\* took from the window.  (An ack_num of 0 acknowledges nothing.)
SoundAck(A, T, p, k) ==
  {a \in Ack :
     a.ack # 0 =>
       \/ a.ack - 1 <= Start + A
       \/ /\ a.seq \in p + 1 .. p + k
          /\ a.ack - 1 = Start + EndIn(A, T, a.seq - p)}

\* The receiver took k segments of the window, and has R bytes.
Took(A, T, k, R) ==
  /\ k \in Nat /\ (k # 0 => A + Span(k - 1) < T)
  /\ R = EndIn(A, T, k)

\* A segment of the window ends inside it.
LEMMA EndInType ==
  ASSUME NEW A \in Nat, NEW T \in Nat, A <= T, NEW i \in Nat
  PROVE  EndIn(A, T, i) \in Nat /\ A <= EndIn(A, T, i) /\ EndIn(A, T, i) <= T
BY SpanType DEF EndIn

\* The ends of the segments stay where they are when the window moves on.
LEMMA EndInSlides ==
  ASSUME NEW A \in Nat, NEW T \in Nat, A <= T, NEW i \in Nat, NEW j \in Nat
  PROVE  EndIn(EndIn(A, T, j), T, i) = EndIn(A, T, i + j)
<1>1. Span(i + j) = Span(i) + Span(j) /\ Span(i) \in Nat /\ Span(j) \in Nat
  BY SpanAdds, SpanType
<1> QED
  BY <1>1 DEF EndIn

\* The window of the sender moves on by j segments: the others stay sound.
LEMMA SegmentsSlide ==
  ASSUME NEW A \in Nat, NEW T \in Nat, A <= T, NEW p \in Nat, NEW j \in Nat,
         j # 0 => A + Span(j - 1) < T
  PROVE  SoundSegment(A, T, p) \subseteq SoundSegment(EndIn(A, T, j), T, p + j)
<1> SUFFICES ASSUME NEW s \in SoundSegment(A, T, p), s.ack > p + j
             PROVE  LET i == s.ack - (p + j)
                        A2 == EndIn(A, T, j)
                    IN  /\ A2 + Span(i - 1) < T
                        /\ s.seq = Start + EndIn(A2, T, i)
                        /\ s.bytes =
                             [k \in 1 .. EndIn(A2, T, i)
                                         - EndIn(A2, T, i - 1) |->
                                EndIn(A2, T, i - 1) + k]
  BY DEF SoundSegment
<1> DEFINE i == s.ack - (p + j)
           A2 == EndIn(A, T, j)
<1>1. s.ack \in Nat
  BY Sizes DEF SoundSegment, Segment
<1>2. i \in Nat \ {0} /\ s.ack > p /\ s.ack - p = i + j
  BY <1>1
<1>3. /\ A + Span(i + j - 1) < T
      /\ s.seq = Start + EndIn(A, T, i + j)
      /\ s.bytes = [k \in 1 .. EndIn(A, T, i + j) - EndIn(A, T, i + j - 1) |->
                      EndIn(A, T, i + j - 1) + k]
  <2>1. s.ack > p => LET m == s.ack - p
                     IN  /\ A + Span(m - 1) < T
                         /\ s.seq = Start + EndIn(A, T, m)
                         /\ s.bytes =
                              [k \in 1 .. EndIn(A, T, m)
                                          - EndIn(A, T, m - 1) |->
                                 EndIn(A, T, m - 1) + k]
    BY DEF SoundSegment
  <2> DEFINE m == s.ack - p
  <2>2. m = i + j /\ m - 1 = i + j - 1
    BY <1>2
  <2>3. /\ A + Span(m - 1) < T
        /\ s.seq = Start + EndIn(A, T, m)
        /\ s.bytes = [k \in 1 .. EndIn(A, T, m) - EndIn(A, T, m - 1) |->
                        EndIn(A, T, m - 1) + k]
    BY <1>2, <2>1
  <2> HIDE DEF i, m
  <2> QED
    BY <2>2, <2>3
<1> HIDE DEF i
<1>4. /\ EndIn(A2, T, i) = EndIn(A, T, i + j)
      /\ EndIn(A2, T, i - 1) = EndIn(A, T, i + j - 1)
  <2>1. i - 1 \in Nat /\ (i - 1) + j = i + j - 1
    BY <1>2
  <2>2. EndIn(A2, T, i) = EndIn(A, T, i + j)
    BY <1>2, EndInSlides
  <2>3. EndIn(A2, T, i - 1) = EndIn(A, T, (i - 1) + j)
    BY <2>1, EndInSlides
  <2> QED
    BY <2>1, <2>2, <2>3
<1>5. A2 + Span(i - 1) < T
  <2>1. Span(i + j - 1) = Span(i - 1) + Span(j) /\ Span(i - 1) \in Nat
        /\ Span(j) \in Nat
    <3>1. i - 1 \in Nat /\ (i - 1) + j = i + j - 1
      BY <1>2
    <3>2. Span((i - 1) + j) = Span(i - 1) + Span(j)
      BY <3>1, SpanAdds
    <3> QED
      BY <3>1, <3>2, SpanType
  <2> QED
    BY <1>3, <2>1 DEF EndIn
<1> HIDE DEF A2
<1> QED
  BY <1>3, <1>4, <1>5 DEF i, A2

\* When everything is acknowledged, what is in flight is old.
LEMMA SegmentsAreOld ==
  ASSUME NEW A \in Nat, NEW T \in Nat, A <= T, NEW p \in Nat
  PROVE  SoundSegment(A, A, p) \subseteq SoundSegment(A, T, p)
<1> SUFFICES ASSUME NEW s \in SoundSegment(A, A, p), s.ack > p PROVE FALSE
  BY DEF SoundSegment
<1>1. s.ack - p - 1 \in Nat /\ A + Span(s.ack - p - 1) < A
  BY Sizes DEF SoundSegment, Segment
<1> QED
  BY <1>1, SpanType

\* The same of acknowledgements.
LEMMA AcksSlide ==
  ASSUME NEW A \in Nat, NEW T \in Nat, A <= T, NEW p \in Nat, NEW j \in Nat,
         NEW k \in Nat, j <= k, k # 0 => A + Span(k - 1) < T
  PROVE  SoundAck(A, T, p, k)
           \subseteq SoundAck(EndIn(A, T, j), T, p + j, k - j)
<1> SUFFICES ASSUME NEW a \in SoundAck(A, T, p, k), a.ack # 0,
                    ~(a.ack - 1 <= Start + EndIn(A, T, j))
             PROVE  /\ a.seq \in (p + j) + 1 .. (p + j) + (k - j)
                    /\ a.ack - 1 =
                         Start + EndIn(EndIn(A, T, j), T, a.seq - (p + j))
  BY DEF SoundAck
<1>1. a.ack \in Nat /\ a.seq \in Nat
  BY Sizes DEF SoundAck, Ack
<1>2. EndIn(A, T, j) \in Nat /\ A <= EndIn(A, T, j) /\ Start \in Nat
  BY EndInType, Sizes
<1>3. /\ a.seq \in p + 1 .. p + k
      /\ a.ack - 1 = Start + EndIn(A, T, a.seq - p)
  BY <1>1, <1>2 DEF SoundAck
<1> DEFINE m == a.seq - p
<1>4. m \in Nat /\ EndIn(A, T, m) \in Nat
  <2>1. m \in Nat
    BY <1>1, <1>3
  <2> HIDE DEF m
  <2> QED
    BY <2>1, EndInType
<1>5. m > j
  <2> SUFFICES ASSUME m <= j PROVE EndIn(A, T, m) <= EndIn(A, T, j)
    BY <1>1, <1>2, <1>3, <1>4
  <2> HIDE DEF m
  <2>1. Span(m) <= Span(j) /\ Span(m) \in Nat /\ Span(j) \in Nat
    <3>1. Span(m) \in Nat /\ Span(j) \in Nat
      BY <1>4, SpanType
    <3>2. CASE m < j
      BY <1>4, <3>1, <3>2, SpanGrows, Sizes
    <3> QED
      BY <1>4, <3>1, <3>2
  <2> QED
    BY <2>1 DEF EndIn
<1>6. EndIn(EndIn(A, T, j), T, m - j) = EndIn(A, T, m)
  <2>1. m - j \in Nat /\ (m - j) + j = m
    BY <1>4, <1>5
  <2> HIDE DEF m
  <2> QED
    BY <2>1, EndInSlides
<1>7. m - j = a.seq - (p + j) /\ a.seq \in (p + j) + 1 .. (p + j) + (k - j)
  BY <1>1, <1>3, <1>5
<1> QED
  BY <1>3, <1>6, <1>7

\* And acknowledgements when everything is acknowledged.
LEMMA AcksAreOld ==
  ASSUME NEW A \in Nat, NEW T \in Nat, A <= T, NEW p \in Nat, NEW k \in Nat
  PROVE  SoundAck(A, A, p, k) \subseteq SoundAck(A, T, p, 0)
<1> SUFFICES ASSUME NEW a \in SoundAck(A, A, p, k), a.ack # 0
             PROVE  a.ack - 1 <= Start + A
  BY DEF SoundAck
<1>1. a.ack \in Nat /\ a.seq \in Nat
  BY Sizes DEF SoundAck, Ack
<1>2. CASE /\ a.seq \in p + 1 .. p + k
           /\ a.ack - 1 = Start + EndIn(A, A, a.seq - p)
  <2>1. a.seq - p \in Nat
    BY <1>1, <1>2
  <2>2. EndIn(A, A, a.seq - p) = A
    BY <2>1, SpanType DEF EndIn
  <2> QED
    BY <1>2, <2>2, Sizes
<1> QED
  BY <1>2 DEF SoundAck

-----------------------------------------------------------------------------
(* Queues                                                                  *)

\* What is put into a link or a queue has the type of its elements, and fits.
LEMMA FittingType ==
  ASSUME NEW X, NEW all \in Seq(X)
  PROVE  Fitting(all) \in Seq(X) /\ Len(Fitting(all)) <= ChanCap
<1> DEFINE n == IF Len(all) < ChanCap THEN Len(all) ELSE ChanCap
<1>1. Len(all) \in Nat /\ ChanCap \in Nat
  BY Sizes
<1>2. n \in Nat /\ n <= Len(all) /\ n <= ChanCap
  BY <1>1
<1>3. \A i \in 1 .. n : all[i] \in X
  BY <1>1, <1>2
<1> HIDE DEF n
<1>4. SubSeq(all, 1, n) \in Seq(X) /\ Len(SubSeq(all, 1, n)) = n
  BY <1>1, <1>2, <1>3
<1> QED
  BY <1>2, <1>4 DEF Fitting, n

\* What a queue takes.
LEMMA PushBackType ==
  ASSUME NEW X, NEW q \in Seq(X), NEW x \in X, NEW cap \in Nat, Len(q) <= cap
  PROVE  PushBack(q, cap, x) \in Seq(X) /\ Len(PushBack(q, cap, x)) <= cap
BY DEF PushBack

\* What is left of a queue when its head is taken.
LEMMA TailType ==
  ASSUME NEW X, NEW q \in Seq(X), q # <<>>
  PROVE  /\ Tail(q) \in Seq(X) /\ Head(q) \in X
         /\ Len(Tail(q)) = Len(q) - 1 /\ Len(q) \in Nat
OBVIOUS

-----------------------------------------------------------------------------
(* Segments that are sent                                                  *)

\* A segment that begins inside the window carries the bytes of its place.
LEMMA PayloadHolds ==
  ASSUME NEW buff, NEW A \in Nat, NEW T \in Nat, A < T, Start + T < B,
         \A b \in 1 .. T : buff[Start + b - 1] = b,
         NEW n \in Nat, A + Span(n) < T
  PROVE  Payload(buff, Start + A, T - A, n) =
           [j \in 1 .. EndIn(A, T, n + 1) - EndIn(A, T, n) |->
              EndIn(A, T, n) + j]
<1> DEFINE start == (Start + A + Span(n)) % B
           full == Span(n + 1) <= T - A
           size == IF full THEN S ELSE T - A - Span(n)
<1>1. Payload(buff, Start + A, T - A, n) =
        [j \in 1 .. size |->
           IF full THEN buff[(start + j - 1) % B]
           ELSE IF start + j - 1 < B THEN buff[start + j - 1] ELSE Garbage]
  BY DEF Payload, Span
<1>2. Span(n) \in Nat /\ Span(n + 1) = Span(n) + S
  BY SpanType, SpanNext
<1>3. start = Start + A + Span(n)
  <2>1. Start + A + Span(n) \in 0 .. B - 1 /\ B \in Nat \ {0}
    BY <1>2, Sizes
  <2> QED
    BY <2>1, SmallModulo
<1> HIDE DEF start
<1>4. /\ EndIn(A, T, n) = A + Span(n)
      /\ EndIn(A, T, n + 1) = A + Span(n) + size
      /\ size \in Nat /\ A + Span(n) + size <= T
  BY <1>2, Sizes DEF EndIn
<1>5. ASSUME NEW j \in 1 .. size
      PROVE  (IF full THEN buff[(start + j - 1) % B]
              ELSE IF start + j - 1 < B THEN buff[start + j - 1]
              ELSE Garbage) = A + Span(n) + j
  <2>1. A + Span(n) + j \in 1 .. T
    BY <1>2, <1>4
  <2>2. start + j - 1 = Start + (A + Span(n) + j) - 1
    BY <1>2, <1>3, <1>4, Sizes
  <2>3. start + j - 1 \in 0 .. B - 1 /\ B \in Nat \ {0}
    BY <2>1, <2>2, Sizes
  <2>4. (start + j - 1) % B = start + j - 1 /\ start + j - 1 < B
    BY <2>3, SmallModulo
  <2>5. buff[start + j - 1] = A + Span(n) + j
    BY <2>1, <2>2
  <2> QED
    BY <2>4, <2>5
<1> HIDE DEF size, full
<1>6. EndIn(A, T, n + 1) - EndIn(A, T, n) = size
  BY <1>2, <1>4
<1> QED
  BY <1>1, <1>4, <1>5, <1>6

\* What sendData and reSendData put together is the window of the sender.
LEMMA SegmentsHold ==
  ASSUME NEW buff, NEW A \in Nat, NEW T \in Nat, A < T, Start + T < B,
         \A b \in 1 .. T : buff[Start + b - 1] = b,
         pendingSeq \in Nat, pendingSeq <= A + 1
  PROVE  Segments(buff, Start + A, T - A)
           \in Seq(SoundSegment(A, T, pendingSeq))
<1> DEFINE count == (T - A + S - 1) \div S
           bytes(i) == Payload(buff, Start + A, T - A, i - 1)
           segment(i) == [seq |-> (Start + A + Span(i - 1) + Len(bytes(i))) % B,
                          ack |-> (pendingSeq + i) % W,
                          bytes |-> bytes(i)]
<1>1. count \in Nat \ {0} /\ Span(count - 1) < T - A
  BY CeilingType
<1>2. Segments(buff, Start + A, T - A) = [i \in 1 .. count |-> segment(i)]
  <2>1. T - A # 0
    OBVIOUS
  <2> QED
    BY <2>1 DEF Segments, Span
<1> HIDE DEF count
<1>3. ASSUME NEW i \in 1 .. count
      PROVE  segment(i) \in SoundSegment(A, T, pendingSeq)
  <2>1. i - 1 \in Nat /\ i \in Nat /\ (i - 1) + 1 = i
    BY <1>1
  <2>2. Span(i - 1) \in Nat /\ Span(i - 1) >= i - 1
    BY <2>1, SpanType
  <2>3. A + Span(i - 1) < T
    <3>1. CASE i = count
      BY <1>1, <2>2, <3>1
    <3>2. CASE i # count
      <4>1. i - 1 < count - 1 /\ count - 1 \in Nat
        BY <1>1, <3>2
      <4>2. Span(i - 1) + S <= Span(count - 1) /\ Span(count - 1) \in Nat
        BY <2>1, <4>1, SpanGrows, SpanType
      <4> QED
        BY <1>1, <2>2, <4>2, Sizes
    <3> QED
      BY <3>1, <3>2
  <2> DEFINE size == EndIn(A, T, i) - EndIn(A, T, i - 1)
  <2>4. bytes(i) = [j \in 1 .. size |-> EndIn(A, T, i - 1) + j]
    <3>1. Payload(buff, Start + A, T - A, i - 1) =
            [j \in 1 .. EndIn(A, T, (i - 1) + 1) - EndIn(A, T, i - 1) |->
               EndIn(A, T, i - 1) + j]
      BY <2>1, <2>3, PayloadHolds
    <3> QED
      BY <2>1, <3>1
  <2>5. /\ EndIn(A, T, i - 1) = A + Span(i - 1)
        /\ EndIn(A, T, i) \in Nat /\ EndIn(A, T, i) <= T
        /\ A + Span(i - 1) <= EndIn(A, T, i)
    <3>1. EndIn(A, T, i - 1) = A + Span(i - 1)
      BY <2>2, <2>3 DEF EndIn
    <3>2. EndIn(A, T, i) \in Nat /\ EndIn(A, T, i) <= T
      <4>1. A <= T
        OBVIOUS
      <4> QED
        BY <2>1, <4>1, EndInType
    <3>3. Span(i) = Span(i - 1) + S
      BY <2>1, SpanNext
    <3>4. A + Span(i - 1) <= EndIn(A, T, i)
      BY <2>2, <2>3, <3>3, Sizes DEF EndIn
    <3> QED
      BY <3>1, <3>2, <3>4
  <2>6. size \in Nat /\ EndIn(A, T, i - 1) \in Nat
    BY <2>2, <2>5
  <2> HIDE DEF size, bytes
  <2>7. bytes(i) \in Seq(Nat) /\ Len(bytes(i)) = size
    <3>1. \A j \in 1 .. size : EndIn(A, T, i - 1) + j \in Nat
      BY <2>6
    <3> QED
      BY <2>4, <2>6, <3>1
  <2>8. segment(i).seq = Start + EndIn(A, T, i)
        /\ Start + EndIn(A, T, i) \in 0 .. B - 1
    <3>1. Start + A + Span(i - 1) + size = Start + EndIn(A, T, i)
      BY <2>2, <2>5, Sizes DEF size
    <3>2. Start + EndIn(A, T, i) \in 0 .. B - 1 /\ B \in Nat \ {0}
      BY <2>5, Sizes
    <3>3. segment(i).seq = (Start + A + Span(i - 1) + size) % B
      BY <2>7
    <3> QED
      BY <3>1, <3>2, <3>3, SmallModulo
  <2>9. segment(i).ack = pendingSeq + i /\ pendingSeq + i \in 0 .. W - 1
    <3>1. pendingSeq + i \in 0 .. W - 1 /\ W \in Nat \ {0}
      BY <2>1, <2>2, <2>3, Sizes
    <3>2. segment(i).ack = (pendingSeq + i) % W
      OBVIOUS
    <3> QED
      BY <3>1, <3>2, SmallModulo
  <2>10. segment(i).bytes = bytes(i)
    OBVIOUS
  <2>11. segment(i) \in Segment
    <3>1. segment(i) = [seq |-> segment(i).seq, ack |-> segment(i).ack,
                        bytes |-> segment(i).bytes]
      OBVIOUS
    <3> HIDE DEF segment
    <3> QED
      BY <2>7, <2>8, <2>9, <2>10, <3>1 DEF Segment
  <2> HIDE DEF segment
  <2>12. segment(i).ack - pendingSeq = i
    BY <2>1, <2>9
  <2> QED
    BY <2>3, <2>4, <2>8, <2>10, <2>11, <2>12 DEF SoundSegment, size
<1> HIDE DEF segment
<1> QED
  BY <1>1, <1>2, <1>3

-----------------------------------------------------------------------------
(* The inductive invariant                                                 *)

Acked == lastAck - Start
Sent == lastSent - Start
Taken == ISN - pendingSeq

\* The positions of the sender are in order, and in the first lap.
Positions ==
  /\ ~wrap
  /\ lastWritten = Start + written
  /\ Start <= lastAck /\ lastAck <= lastSent /\ lastSent <= lastWritten

\* Every byte written is still in its place.
BufferHolds == \A b \in 1 .. written : sendBuff[Start + b - 1] = b

\* The receiver is ahead of the sender's lastAck by whole segments of the
\* window, or has it all.
ReceiverInWindow ==
  /\ Took(Acked, Sent, Taken, Len(Received))
  /\ ISN <= Len(Received) + 1 /\ pendingSeq <= Acked + 1
  /\ nextExpected \in {0, Start + Len(Received) + 1}

\* What the receiver has is what was written, up to some byte.
ReceivedInOrder ==
  /\ \A i \in 1 .. Len(delivered) : delivered[i] = i
  /\ \A i \in 1 .. Len(unread) : unread[i] = Len(delivered) + i
  /\ lineEnds \subseteq 1 .. written
  /\ Len(delivered) \in lineEnds \cup {0}

\* What is under way fits the window.
InFlight ==
  /\ data \in Seq(SoundSegment(Acked, Sent, pendingSeq))
  /\ receiveQueue \in Seq(SoundSegment(Acked, Sent, pendingSeq))
  /\ acks \in Seq(SoundAck(Acked, Sent, pendingSeq, Taken))

IInv == /\ TypeOK /\ Positions /\ BufferHolds /\ ReceiverInWindow
        /\ ReceivedInOrder /\ InFlight /\ RemainTracksWindow

\* The numbers of the invariant.
LEMMA Numbers ==
  ASSUME FirstLap, IInv
  PROVE  /\ Acked \in Nat /\ Sent \in Nat /\ Taken \in Nat
         /\ Acked <= Sent /\ Sent <= written /\ written \in Nat
         /\ written <= MaxBytes /\ Start + written < B
         /\ lastAck = Start + Acked /\ lastSent = Start + Sent
         /\ lastWritten = Start + written
         /\ {lastWritten, lastSent, lastAck} \subseteq Nat
         /\ {remain, pendingSeq, ISN, nextExpected} \subseteq Nat
         /\ Len(Received) = Len(delivered) + Len(unread)
         /\ Len(Received) \in Nat /\ Len(delivered) \in Nat
         /\ Len(unread) \in Nat
         /\ Acked <= Len(Received) /\ Len(Received) <= Sent
<1>1. /\ lastWritten \in Nat /\ lastSent \in Nat /\ lastAck \in Nat
      /\ remain \in Nat /\ pendingSeq \in Nat /\ ISN \in Nat
      /\ nextExpected \in Nat /\ written \in 0 .. MaxBytes
  BY Sizes DEF IInv, TypeOK
<1>2. /\ delivered \in Seq(Nat) /\ unread \in Seq(Nat)
  BY DEF IInv, TypeOK
<1>3. Len(Received) = Len(delivered) + Len(unread)
  BY <1>2 DEF Received
<1>4. Acked \in Nat /\ Sent \in Nat /\ Acked <= Sent /\ Sent <= written
  BY <1>1, Sizes DEF IInv, Positions, Acked, Sent
<1>5. Taken \in Nat /\ Len(Received) = EndIn(Acked, Sent, Taken)
  BY DEF IInv, ReceiverInWindow, Took
<1>6. Acked <= EndIn(Acked, Sent, Taken) /\ EndIn(Acked, Sent, Taken) <= Sent
  BY <1>4, <1>5, EndInType
<1> QED
  BY <1>1, <1>2, <1>3, <1>4, <1>5, <1>6, Sizes
     DEF IInv, Positions, Acked, Sent, FirstLap

-----------------------------------------------------------------------------
(* The initial state                                                       *)

\* Nothing is written, sent or under way, and the invariant holds.
LEMMA InitInvariant ==
  ASSUME FirstLap, Init
  PROVE  IInv
<1>1. Received = <<>> /\ Len(Received) = 0
  BY DEF Init, Received
<1>2. Acked = 0 /\ Sent = 0 /\ Taken = 0
  BY Sizes DEF Init, Acked, Sent, Taken
<1>3. nextExpected = Start + 1 /\ Start + 1 \in 0 .. W - 1
  <2>1. Start + 1 \in 0 .. W - 1 /\ W \in Nat \ {0}
    BY Sizes
  <2> QED
    BY <2>1, SmallModulo DEF Init
<1>4. TypeOK
  <2>1. written \in 0 .. MaxBytes /\ lineEnds \subseteq 1 .. MaxBytes
    BY Sizes DEF Init
  <2>2. {lastWritten, lastSent, lastAck} \subseteq 0 .. B - 1
    BY Sizes DEF Init
  <2>3. /\ wrap \in BOOLEAN
        /\ {isResend, dataTimer, receivePosted} \subseteq BOOLEAN
    BY Zenon DEF Init
  <2>4. lost \in 0 .. MaxLoss /\ early \in 0 .. MaxEarly
    BY Sizes DEF Init
  <2>5. sendBuff \in [0 .. B - 1 -> 0 .. MaxBytes]
    BY Sizes DEF Init, Garbage
  <2>6. {remain, pendingSeq, ISN, nextExpected} \subseteq 0 .. W - 1
    BY <1>3, Sizes DEF Init
  <2>7. /\ data \in Seq(Segment) /\ receiveQueue \in Seq(Segment)
        /\ acks \in Seq(Ack) /\ unread \in Seq(Nat) /\ delivered \in Seq(Nat)
    BY DEF Init
  <2>8. /\ Len(data) <= ChanCap /\ Len(acks) <= ChanCap
        /\ Len(receiveQueue) <= ReceiveCap
    BY Sizes DEF Init
  <2> QED
    BY <2>1, <2>5, <2>6, <2>7, <2>8, <2>4, <2>2, <2>3
     DEF TypeOK
<1>5. Positions /\ BufferHolds /\ ReceivedInOrder /\ RemainTracksWindow
  BY Sizes DEF Init, Positions, BufferHolds, ReceivedInOrder,
               RemainTracksWindow
<1>6. ReceiverInWindow
  BY <1>1, <1>2, <1>3, SpanZero, Sizes
     DEF Init, ReceiverInWindow, Took, EndIn
<1>7. InFlight
  BY DEF Init, InFlight
<1> QED
  BY <1>4, <1>5, <1>6, <1>7 DEF IInv

-----------------------------------------------------------------------------
(* The steps                                                               *)

\* A queue of what fits a window fits every window that allows it.
LEMMA WiderQueue ==
  ASSUME NEW X, NEW Y, X \subseteq Y, NEW q \in Seq(X)
  PROVE  q \in Seq(Y)
BY SeqMonotonic

\* The part of the type invariant about queues follows from what is in them.
LEMMA InFlightTypes ==
  ASSUME NEW A, NEW T, NEW p, NEW k
  PROVE  /\ SoundSegment(A, T, p) \subseteq Segment
         /\ SoundAck(A, T, p, k) \subseteq Ack
BY DEF SoundSegment, SoundAck

\* Write transmits only the line when nothing waits for an acknowledgement.
LEMMA WriteKeeps ==
  ASSUME FirstLap, IInv, NEW len \in LineLens, Write(len)
  PROVE  IInv'
<1>1. len \in Nat \ {0} /\ len <= B
  BY SizeAssumption
<1>2. /\ Acked \in Nat /\ Sent \in Nat /\ Taken \in Nat
      /\ Acked <= Sent /\ Sent <= written /\ written \in Nat
      /\ lastAck = Start + Acked /\ lastSent = Start + Sent
      /\ lastWritten = Start + written /\ Start + written < B
      /\ B \in Nat \ {0} /\ W = B + B /\ Start \in Nat /\ MaxBytes \in Nat
      /\ remain \in Nat /\ pendingSeq \in Nat /\ Start + MaxBytes < B
  BY Numbers, Sizes DEF FirstLap
<1> DEFINE more == written + len
<1>3. more \in Nat /\ more <= MaxBytes /\ Start + more < B /\ more > written
  <2>1. written + len <= MaxBytes
    BY DEF Write
  <2> QED
    BY <1>2, <1>1, <2>1
<1> DEFINE buff2 == [p \in 0 .. B - 1 |->
                       LET i == (p - lastWritten) % B
                       IN  IF i < len THEN written + i + 1 ELSE sendBuff[p]]
           wrap2 == wrap \/ B - lastWritten < len
           last2 == (lastWritten + len) % B
<1>4. ~wrap2
  BY <1>1, <1>3, <1>2 DEF IInv, Positions
<1>5. last2 = Start + more
  <2>1. lastWritten + len = Start + more /\ Start + more \in 0 .. B - 1
        /\ B \in Nat \ {0}
    BY <1>1, <1>3, <1>2
  <2> QED
    BY <2>1, SmallModulo
<1> DEFINE at(q) == (q - lastWritten) % B
<1>6. \A q \in 0 .. B - 1 :
         buff2[q] = IF at(q) < len THEN written + at(q) + 1 ELSE sendBuff[q]
  OBVIOUS
<1> HIDE DEF buff2
<1>7. \A b \in 1 .. more : buff2[Start + b - 1] = b
  <2> SUFFICES ASSUME NEW b \in 1 .. more
               PROVE  buff2[Start + b - 1] = b
    OBVIOUS
  <2>1. Start + b - 1 \in 0 .. B - 1 /\ B \in Nat \ {0} /\ b \in Nat
    BY <1>3, <1>2
  <2> DEFINE d == (Start + b - 1) - lastWritten
             i == at(Start + b - 1)
  <2>2. buff2[Start + b - 1] =
          IF i < len THEN written + i + 1 ELSE sendBuff[Start + b - 1]
    BY <1>6, <2>1
  <2>3. CASE b > written
    <3>1. d = b - 1 - written /\ d \in 0 .. B - 1
      BY <2>1, <2>3, <1>3, <1>2
    <3>2. i = d % B
      OBVIOUS
    <3> HIDE DEF d, i
    <3>3. i = d
      BY <2>1, <3>1, <3>2, SmallModulo
    <3> HIDE DEF i
    <3> QED
      BY <2>1, <2>2, <2>3, <3>1, <3>3, <1>1, <1>3, <1>2
  <2>4. CASE b <= written
    <3>1. d = b - 1 - written /\ d \in Int /\ d + B \in 0 .. B - 1
      BY <2>1, <2>4, <1>2
    <3>2. i = d % B
      OBVIOUS
    <3> HIDE DEF d, i
    <3>3. i = d + B
      BY <2>1, <3>1, <3>2, NegativeModulo
    <3>4. ~(i < len)
      <4> HIDE DEF i
      <4> QED
        BY <2>1, <3>1, <3>3, <1>1, <1>3, <1>2
    <3> HIDE DEF i
    <3>5. b \in 1 .. written
      BY <2>4, <1>2
    <3> QED
      BY <2>2, <3>4, <3>5 DEF IInv, BufferHolds
  <2> QED
    BY <2>1, <2>3, <2>4, <1>2
<1>8. buff2 \in [0 .. B - 1 -> 0 .. MaxBytes]
  <2> SUFFICES ASSUME NEW q \in 0 .. B - 1
               PROVE  buff2[q] \in 0 .. MaxBytes
    BY DEF buff2
  <2> DEFINE i == at(q)
  <2>1. buff2[q] = IF i < len THEN written + i + 1 ELSE sendBuff[q]
    BY <1>6
  <2>2. i \in 0 .. B - 1
    <3>1. q - lastWritten \in Int /\ B \in Nat \ {0}
      BY <1>2
    <3> QED
      BY <3>1, ModuloType
  <2>3. sendBuff[q] \in 0 .. MaxBytes
    BY DEF IInv, TypeOK
  <2> HIDE DEF i
  <2> QED
    BY <2>1, <2>2, <2>3, <1>1, <1>3, <1>2
<1> HIDE DEF buff2, wrap2, last2
<1>9. /\ wrap' = wrap2 /\ lastWritten' = last2 /\ sendBuff' = buff2
      /\ written' = more /\ lineEnds' = lineEnds \cup {more}
      /\ UNCHANGED <<lastAck, pendingSeq, acks, receiveVars, lost, early>>
  BY DEF Write, buff2, wrap2, last2
<1>10. UNCHANGED <<receiveQueue, receivePosted, ISN, nextExpected, unread,
                  delivered>>
  BY <1>9 DEF receiveVars
<1>11. Acked' = Acked /\ Taken' = Taken /\ Received' = Received
  BY <1>9, <1>10 DEF Acked, Taken, Received
<1>12. ReceivedInOrder'
  <2>1. lineEnds \subseteq 1 .. written /\ lineEnds' = lineEnds \cup {more}
    BY <1>9 DEF IInv, ReceivedInOrder
  <2>2. lineEnds' \subseteq 1 .. more
    <3> SUFFICES ASSUME NEW e \in lineEnds' PROVE e \in 1 .. more
      OBVIOUS
    <3> QED
      BY <2>1, <1>3, <1>2
  <2> QED
    BY <1>9, <1>10, <2>1, <2>2 DEF IInv, ReceivedInOrder
<1>13. BufferHolds'
  BY <1>7, <1>9 DEF BufferHolds
<1>14. lineEnds' \subseteq 1 .. MaxBytes /\ written' \in 0 .. MaxBytes
  <2>1. lineEnds \subseteq 1 .. MaxBytes
    BY DEF IInv, TypeOK
  <2> HIDE DEF more
  <2>2. more \in 1 .. MaxBytes
    BY <1>2, <1>3
  <2> QED
    BY <1>2, <1>9, <2>1, <2>2
<1>15. /\ lastAck' \in 0 .. B - 1 /\ pendingSeq' \in 0 .. W - 1
       /\ ISN' \in 0 .. W - 1 /\ nextExpected' \in 0 .. W - 1
       /\ receivePosted' \in BOOLEAN /\ wrap' \in BOOLEAN
       /\ sendBuff' \in [0 .. B - 1 -> 0 .. MaxBytes]
  <2>1. sendBuff' \in [0 .. B - 1 -> 0 .. MaxBytes]
    BY <1>8, <1>9
  <2>2. wrap' \in BOOLEAN
    BY <1>4, <1>9 DEF wrap2
  <2> QED
    BY <1>9, <1>10, <2>1, <2>2 DEF IInv, TypeOK
<1>16. /\ receiveQueue' \in Seq(Segment) /\ acks' \in Seq(Ack)
       /\ Len(acks') <= ChanCap /\ Len(receiveQueue') <= ReceiveCap
       /\ unread' \in Seq(Nat) /\ delivered' \in Seq(Nat)
       /\ lost' \in 0 .. MaxLoss /\ early' \in 0 .. MaxEarly
  BY <1>9, <1>10 DEF IInv, TypeOK
<1>17. CASE remain = 0
  <2>1. Acked = Sent /\ lastAck = lastSent
    BY <1>17, <1>2 DEF IInv, RemainTracksWindow, Acked, Sent
  <2> DEFINE span == SendSpan(wrap2, last2, lastSent)
  <2>2. /\ remain' = len /\ lastSent' = (lastSent + span) % B
        /\ isResend' = TRUE /\ dataTimer' = TRUE
        /\ data' = Fitting(data \o Segments(buff2, lastSent, span))
    BY <1>17 DEF Write, buff2, wrap2, last2
  <2>3. span = more - Acked /\ Acked < more
    BY <1>3, <1>4, <1>5, <2>1, <1>2 DEF SendSpan
  <2> HIDE DEF span
  <2>4. lastSent' = Start + more
    <3>1. lastSent + span = Start + more /\ Start + more \in 0 .. B - 1
          /\ B \in Nat \ {0}
      BY <1>3, <2>1, <2>3, <1>2
    <3> QED
      BY <2>2, <3>1, SmallModulo
  <2>5. Sent' = more
    BY <2>4, <1>3, <1>2 DEF Sent
  <2> HIDE DEF more
  <2>6. Positions'
    BY <1>3, <1>4, <1>5, <1>9, <2>4, <1>2 DEF IInv, Positions, more
  <2>7. RemainTracksWindow'
    BY <1>1, <1>3, <1>5, <1>9, <2>1, <2>2, <2>4, <1>2
       DEF IInv, RemainTracksWindow, more
  <2>8. Took(Acked, more, 0, Len(Received)) /\ Taken = 0
    <3>1. Took(Acked, Acked, Taken, Len(Received))
      BY <2>1 DEF IInv, ReceiverInWindow
    <3>2. Taken = 0
      BY <3>1, SpanType, <1>2 DEF Took
    <3>3. EndIn(Acked, Acked, 0) = Acked /\ EndIn(Acked, more, 0) = Acked
      BY SpanZero, <1>2, <1>3, <2>3 DEF EndIn
    <3> QED
      BY <3>1, <3>2, <3>3 DEF Took
  <2>9. ReceiverInWindow'
    BY <1>9, <1>10, <1>11, <2>5, <2>8 DEF IInv, ReceiverInWindow
  <2>10. SoundSegment(Acked, Sent, pendingSeq)
           \subseteq SoundSegment(Acked, more, pendingSeq)
    BY <2>1, <2>3, <1>3, <1>2, SegmentsAreOld
  <2>11. SoundAck(Acked, Sent, pendingSeq, Taken)
           \subseteq SoundAck(Acked, more, pendingSeq, 0)
    BY <2>1, <2>3, <1>3, <1>2, AcksAreOld
  <2>12. Segments(buff2, lastSent, span)
           \in Seq(SoundSegment(Acked, more, pendingSeq))
    <3>1. pendingSeq \in Nat /\ pendingSeq <= Acked + 1
      BY <1>2 DEF IInv, ReceiverInWindow
    <3>2. Segments(buff2, Start + Acked, more - Acked)
            \in Seq(SoundSegment(Acked, more, pendingSeq))
      BY <1>3, <1>7, <2>3, <3>1, <1>2, SegmentsHold
    <3> QED
      BY <2>1, <2>3, <3>2, <1>2
  <2>13. data' \in Seq(SoundSegment(Acked, more, pendingSeq))
         /\ Len(data') <= ChanCap
    <3>1. data \in Seq(SoundSegment(Acked, more, pendingSeq))
      BY <2>10, WiderQueue DEF IInv, InFlight
    <3>2. data \o Segments(buff2, lastSent, span)
            \in Seq(SoundSegment(Acked, more, pendingSeq))
      BY <2>12, <3>1, ConcatProperties
    <3> QED
      BY <2>2, <3>2, FittingType
  <2>14. receiveQueue \in Seq(SoundSegment(Acked, more, pendingSeq))
         /\ acks \in Seq(SoundAck(Acked, more, pendingSeq, Taken))
    BY <2>8, <2>10, <2>11, WiderQueue DEF IInv, InFlight
  <2>15. InFlight'
    BY <1>9, <1>10, <1>11, <2>5, <2>13, <2>14 DEF InFlight
  <2>16. TypeOK'
    <3>1. data' \in Seq(Segment)
      BY <2>13, InFlightTypes, WiderQueue
    <3>2. remain' \in 0 .. W - 1 /\ lastSent' \in 0 .. B - 1
          /\ lastWritten' \in 0 .. B - 1
      BY <1>1, <1>3, <1>5, <1>9, <2>2, <2>4, <1>2
    <3> QED
      BY <1>14, <1>15, <1>16, <2>2, <2>13, <3>1, <3>2 DEF TypeOK
  <2> QED
    BY <1>12, <1>13, <2>6, <2>7, <2>9, <2>15, <2>16 DEF IInv
<1>18. CASE remain # 0
  <2>1. remain' = (remain + len) % W
        /\ UNCHANGED <<lastSent, isResend, dataTimer, data>>
    BY <1>18 DEF Write
  <2>2. remain' = remain + len /\ remain + len \in 0 .. W - 1
    <3>1. remain <= B - 1
      BY <1>2 DEF IInv, RemainTracksWindow
    <3>2. remain + len \in 0 .. W - 1 /\ W \in Nat \ {0}
      BY <1>1, <3>1, <1>2
    <3> QED
      BY <2>1, <3>2, SmallModulo
  <2>3. Sent' = Sent
    BY <2>1 DEF Sent
  <2>4. Positions'
    BY <1>1, <1>3, <1>4, <1>5, <1>9, <2>1, <1>2 DEF IInv, Positions
  <2>5. RemainTracksWindow'
    BY <1>1, <1>5, <1>9, <1>18, <2>1, <2>2, <1>2
       DEF IInv, RemainTracksWindow
  <2>6. ReceiverInWindow' /\ InFlight'
    BY <1>9, <1>10, <1>11, <2>1, <2>3 DEF IInv, ReceiverInWindow, InFlight
  <2>7. TypeOK'
    <3>1. /\ lastWritten' \in 0 .. B - 1 /\ lastSent' \in 0 .. B - 1
          /\ remain' \in 0 .. W - 1
      BY <1>2, <1>3, <1>5, <1>9, <2>1, <2>2
    <3>2. /\ isResend' \in BOOLEAN /\ dataTimer' \in BOOLEAN
          /\ data' \in Seq(Segment) /\ Len(data') <= ChanCap
      BY <2>1 DEF IInv, TypeOK
    <3> QED
      BY <1>14, <1>15, <1>16, <3>1, <3>2 DEF TypeOK
  <2> QED
    BY <1>12, <1>13, <2>4, <2>5, <2>6, <2>7 DEF IInv
<1> QED
  BY <1>17, <1>18

\* A receiver that took k segments took each of them, and is as far ahead of a
\* sender that knows of j of them as the other segments take it.
LEMMA TookLess ==
  ASSUME NEW A \in Nat, NEW T \in Nat, A <= T, NEW k \in Nat, NEW R,
         Took(A, T, k, R), NEW j \in Nat, j <= k
  PROVE  /\ j # 0 => A + Span(j - 1) < T
         /\ Took(EndIn(A, T, j), T, k - j, R)
         /\ A + j <= EndIn(A, T, j)
<1>1. ASSUME j # 0 PROVE A + Span(j - 1) < T
  <2>1. j - 1 \in Nat /\ k - 1 \in Nat
    BY <1>1
  <2>2. Span(j - 1) \in Nat /\ Span(k - 1) \in Nat
    BY <2>1, SpanType
  <2>3. A + Span(k - 1) < T
    BY <1>1 DEF Took
  <2>4. CASE j = k
    BY <2>3, <2>4
  <2>5. CASE j # k
    <3>1. j - 1 < k - 1
      BY <2>1, <2>5
    <3>2. Span(j - 1) + S <= Span(k - 1)
      BY <2>1, <3>1, SpanGrows
    <3> QED
      BY <2>2, <2>3, <3>2, Sizes
  <2> QED
    BY <2>4, <2>5
<1>2. A + j <= EndIn(A, T, j)
  <2>1. CASE j = 0
    BY <2>1, SpanZero DEF EndIn
  <2>2. CASE j # 0
    <3>1. j - 1 \in Nat
      BY <2>2
    <3>2. Span(j) \in Nat /\ Span(j) >= j /\ Span(j - 1) >= j - 1
          /\ Span(j - 1) \in Nat
      BY <3>1, SpanType
    <3> QED
      BY <1>1, <2>2, <3>2 DEF EndIn
  <2> QED
    BY <2>1, <2>2
<1>3. Took(EndIn(A, T, j), T, k - j, R)
  <2>1. k - j \in Nat /\ (k - j) + j = k
    OBVIOUS
  <2>2. R = EndIn(EndIn(A, T, j), T, k - j)
    <3>1. EndIn(EndIn(A, T, j), T, k - j) = EndIn(A, T, (k - j) + j)
      BY <2>1, EndInSlides
    <3> QED
      BY <2>1, <3>1 DEF Took
  <2>3. ASSUME k - j # 0 PROVE EndIn(A, T, j) + Span(k - j - 1) < T
    <3>1. k - j - 1 \in Nat /\ j + (k - j - 1) = k - 1 /\ k # 0
      BY <2>3
    <3>2. Span(j + (k - j - 1)) = Span(j) + Span(k - j - 1)
      BY <3>1, SpanAdds
    <3>3. Span(j) \in Nat /\ Span(k - j - 1) \in Nat
      BY <3>1, SpanType
    <3>4. A + Span(j) + Span(k - j - 1) < T
      BY <3>1, <3>2, <3>3 DEF Took
    <3> QED
      BY <3>3, <3>4 DEF EndIn
  <2> QED
    BY <2>1, <2>2, <2>3 DEF Took
<1> QED
  BY <1>1, <1>2, <1>3

\* An acknowledgement that is news moves the window to the end of the segment
\* it is of; every other one changes nothing.
LEMMA ReceiveACKKeeps ==
  ASSUME FirstLap, IInv, ReceiveACK
  PROVE  IInv'
<1>1. /\ Acked \in Nat /\ Sent \in Nat /\ Taken \in Nat
      /\ Acked <= Sent /\ Sent <= written /\ written \in Nat
      /\ lastAck = Start + Acked /\ lastSent = Start + Sent
      /\ lastWritten = Start + written /\ Start + written < B
      /\ B \in Nat \ {0} /\ W = B + B /\ Start \in Nat
      /\ remain \in Nat /\ pendingSeq \in Nat /\ ISN \in Nat
      /\ ISN = pendingSeq + Taken
  BY Numbers, Sizes DEF Taken
<1> DEFINE a == Head(acks)
           ack == IF a.ack = 0 THEN W - 1 ELSE (a.ack - 1) % B
<1>2. acks # <<>> /\ acks' = Tail(acks)
      /\ UNCHANGED <<userVars, lastSent, isResend, dataTimer, data,
                     receiveVars, lost, early>>
  BY DEF ReceiveACK
<1>3. UNCHANGED <<written, lineEnds, sendBuff, wrap, lastWritten,
                  receiveQueue, receivePosted, ISN, nextExpected, unread,
                  delivered>>
  BY <1>2 DEF userVars, receiveVars
<1>4. acks \in Seq(SoundAck(Acked, Sent, pendingSeq, Taken))
      /\ acks \in Seq(Ack) /\ Len(acks) <= ChanCap
  BY DEF IInv, InFlight, TypeOK
<1>5. /\ a \in SoundAck(Acked, Sent, pendingSeq, Taken)
      /\ Tail(acks) \in Seq(SoundAck(Acked, Sent, pendingSeq, Taken))
      /\ Tail(acks) \in Seq(Ack) /\ Len(Tail(acks)) <= ChanCap
  <2>1. Len(Tail(acks)) = Len(acks) - 1 /\ Len(acks) \in Nat
    BY <1>2, <1>4, TailType
  <2> QED
    BY <1>2, <1>4, <2>1, TailType, Sizes
<1>6. Received' = Received /\ Sent' = Sent
  BY <1>2, <1>3 DEF Received, Sent
<1>7. BufferHolds' /\ ReceivedInOrder'
  BY <1>3 DEF IInv, BufferHolds, ReceivedInOrder
<1>8. /\ written' \in 0 .. MaxBytes /\ lineEnds' \subseteq 1 .. MaxBytes
      /\ sendBuff' \in [0 .. B - 1 -> 0 .. MaxBytes] /\ wrap' \in BOOLEAN
      /\ lastWritten' \in 0 .. B - 1 /\ lastSent' \in 0 .. B - 1
      /\ ISN' \in 0 .. W - 1 /\ nextExpected' \in 0 .. W - 1
      /\ isResend' \in BOOLEAN /\ dataTimer' \in BOOLEAN
      /\ receivePosted' \in BOOLEAN
      /\ data' \in Seq(Segment) /\ receiveQueue' \in Seq(Segment)
      /\ Len(data') <= ChanCap /\ Len(receiveQueue') <= ReceiveCap
      /\ unread' \in Seq(Nat) /\ delivered' \in Seq(Nat)
      /\ lost' \in 0 .. MaxLoss /\ early' \in 0 .. MaxEarly
  BY <1>2, <1>3 DEF IInv, TypeOK
<1> HIDE DEF a
<1>9. CASE ~Acknowledges(ack)
  <2>1. UNCHANGED <<lastAck, pendingSeq, remain>>
    BY <1>9 DEF ReceiveACK, a
  <2>2. Acked' = Acked /\ Taken' = Taken
    BY <1>3, <2>1 DEF Acked, Taken
  <2>3. Positions' /\ ReceiverInWindow' /\ RemainTracksWindow'
    BY <1>2, <1>3, <1>6, <2>1, <2>2
       DEF IInv, Positions, ReceiverInWindow, RemainTracksWindow
  <2>4. InFlight'
    BY <1>2, <1>3, <1>5, <1>6, <2>1, <2>2 DEF IInv, InFlight
  <2>5. lastAck' \in 0 .. B - 1 /\ pendingSeq' \in 0 .. W - 1
        /\ remain' \in 0 .. W - 1
    BY <2>1 DEF IInv, TypeOK
  <2>6. TypeOK'
    BY <1>2, <1>5, <1>8, <2>5 DEF TypeOK
  <2> QED
    BY <1>7, <2>3, <2>4, <2>6 DEF IInv
<1>10. CASE Acknowledges(ack)
  <2>1. /\ lastAck' = ack /\ pendingSeq' = a.seq
        /\ remain' = NewRemain(ack)
    BY <1>10 DEF ReceiveACK, a
  <2>2. ~wrap
    BY DEF IInv, Positions
  <2>3. ack > lastAck /\ ack <= lastSent
    BY <1>10, <2>2 DEF Acknowledges
  <2>4. a.ack \in 0 .. W - 1 /\ a.seq \in 0 .. W - 1
    BY <1>5 DEF SoundAck, Ack
  <2>5. a.ack # 0
    BY <1>1, <2>3
  <2>6. ack = (a.ack - 1) % B
    BY <2>5
  <2> HIDE DEF ack
  <2>7. ~(a.ack - 1 <= Start + Acked)
    <3> SUFFICES ASSUME a.ack - 1 <= Start + Acked PROVE FALSE
      OBVIOUS
    <3>1. a.ack - 1 \in 0 .. B - 1
      BY <1>1, <2>4, <2>5
    <3>2. ack = a.ack - 1
      BY <1>1, <2>6, <3>1, SmallModulo
    <3> QED
      BY <1>1, <2>3, <3>1, <3>2
  <2>8. /\ a.seq \in pendingSeq + 1 .. pendingSeq + Taken
        /\ a.ack - 1 = Start + EndIn(Acked, Sent, a.seq - pendingSeq)
    BY <1>5, <2>5, <2>7 DEF SoundAck
  <2> DEFINE j == a.seq - pendingSeq
             A2 == EndIn(Acked, Sent, j)
  <2>9. j \in Nat /\ j <= Taken /\ a.seq = pendingSeq + j
    BY <1>1, <2>4, <2>8
  <2> HIDE DEF j
  <2>10. A2 \in Nat /\ Acked <= A2 /\ A2 <= Sent
    BY <1>1, <2>9, EndInType
  <2>11. ack = Start + A2
    <3>1. a.ack - 1 = Start + A2
      BY <2>8 DEF j
    <3>2. Start + A2 \in 0 .. B - 1
      BY <1>1, <2>10
    <3> QED
      BY <1>1, <2>6, <3>1, <3>2, SmallModulo
  <2>12. /\ j # 0 => Acked + Span(j - 1) < Sent
         /\ Took(A2, Sent, Taken - j, Len(Received))
         /\ Acked + j <= A2
    <3>1. Took(Acked, Sent, Taken, Len(Received))
      BY DEF IInv, ReceiverInWindow
    <3> QED
      BY <1>1, <2>9, <3>1, TookLess
  <2>13. Acked' = A2 /\ pendingSeq' = pendingSeq + j /\ Taken' = Taken - j
    <3> HIDE DEF A2
    <3> QED
      BY <1>1, <1>3, <2>1, <2>9, <2>10, <2>11 DEF Acked, Taken
  <2>14. Taken # 0 => Acked + Span(Taken - 1) < Sent
    BY DEF IInv, ReceiverInWindow, Took
  <2>15. SoundSegment(Acked, Sent, pendingSeq)
           \subseteq SoundSegment(A2, Sent, pendingSeq + j)
    BY <1>1, <2>9, <2>12, SegmentsSlide
  <2>16. SoundAck(Acked, Sent, pendingSeq, Taken)
           \subseteq SoundAck(A2, Sent, pendingSeq + j, Taken - j)
    BY <1>1, <2>9, <2>14, AcksSlide
  <2> HIDE DEF A2
  <2>17. InFlight'
    <3>1. /\ data \in Seq(SoundSegment(A2, Sent, pendingSeq + j))
          /\ receiveQueue \in Seq(SoundSegment(A2, Sent, pendingSeq + j))
      BY <2>15, WiderQueue DEF IInv, InFlight
    <3>2. Tail(acks) \in Seq(SoundAck(A2, Sent, pendingSeq + j, Taken - j))
      BY <1>5, <2>16, WiderQueue
    <3> QED
      BY <1>2, <1>3, <1>6, <2>13, <3>1, <3>2 DEF InFlight
  <2>18. Positions'
    BY <1>1, <1>2, <1>3, <2>1, <2>2, <2>10, <2>11 DEF Positions
  <2>19. ReceiverInWindow'
    <3>1. pendingSeq <= Acked + 1
      BY DEF IInv, ReceiverInWindow
    <3>2. pendingSeq' <= A2 + 1
      BY <1>1, <2>9, <2>10, <2>12, <2>13, <3>1
    <3> QED
      BY <1>3, <1>6, <2>12, <2>13, <3>2 DEF IInv, ReceiverInWindow
  <2>20. Outstanding(ack) = Sent - A2
    <3>1. lastSent - ack = Sent - A2 /\ Sent - A2 \in 0 .. B - 1
      BY <1>1, <2>10, <2>11
    <3>2. (Sent - A2) % B = Sent - A2
      BY <1>1, <3>1, SmallModulo
    <3> QED
      BY <2>2, <3>1, <3>2 DEF Outstanding
  <2>21. remain' = IF Sent - A2 >= remain THEN remain ELSE Sent - A2
    BY <2>1, <2>2, <2>20 DEF NewRemain
  <2>22. RemainTracksWindow'
    <3>1. (remain # 0) /\ isResend /\ dataTimer
      BY <1>1, <2>3, <2>10, <2>11 DEF IInv, RemainTracksWindow
    <3>2. remain' = 0 <=> lastAck' = lastSent'
      BY <1>1, <1>2, <2>1, <2>10, <2>11, <2>21, <3>1
    <3>3. remain' <= lastWritten' - lastAck'
      BY <1>1, <1>2, <1>3, <2>1, <2>10, <2>11, <2>21, <3>1
    <3> QED
      BY <1>2, <3>1, <3>2, <3>3 DEF RemainTracksWindow
  <2>23. lastAck' \in 0 .. B - 1 /\ pendingSeq' \in 0 .. W - 1
         /\ remain' \in 0 .. W - 1
    BY <1>1, <2>1, <2>4, <2>10, <2>11, <2>21
  <2>24. TypeOK'
    BY <1>2, <1>5, <1>8, <2>23 DEF TypeOK
  <2> QED
    BY <1>7, <2>17, <2>18, <2>19, <2>22, <2>24 DEF IInv
<1> QED
  BY <1>9, <1>10

\* A retransmission is of the whole window.
LEMMA ReSendKeeps ==
  ASSUME FirstLap, IInv, ReSendDataTimerFired
  PROVE  IInv'
<1>1. /\ Acked \in Nat /\ Sent \in Nat /\ Acked <= Sent /\ Sent <= written
      /\ written \in Nat /\ lastAck = Start + Acked /\ lastSent = Start + Sent
      /\ Start + written < B /\ Start \in Nat /\ B \in Nat
      /\ pendingSeq \in Nat
  BY Numbers, Sizes
<1>2. UNCHANGED <<written, lineEnds, sendBuff, wrap, lastWritten, lastSent,
                  lastAck, remain, pendingSeq, acks, receiveQueue,
                  receivePosted, ISN, nextExpected, unread, delivered, lost>>
  BY DEF ReSendDataTimerFired, userVars, receiveVars
<1>3. Acked' = Acked /\ Sent' = Sent /\ Taken' = Taken /\ Received' = Received
  BY <1>2 DEF Acked, Sent, Taken, Received
<1>4. /\ Positions' /\ BufferHolds' /\ ReceiverInWindow' /\ ReceivedInOrder'
      /\ UNCHANGED written
  BY <1>2, <1>3
     DEF IInv, Positions, BufferHolds, ReceiverInWindow, ReceivedInOrder
<1>5. /\ data' \in Seq(SoundSegment(Acked, Sent, pendingSeq))
      /\ Len(data') <= ChanCap /\ early' \in 0 .. MaxEarly
      /\ isResend' \in BOOLEAN /\ dataTimer' \in BOOLEAN
      /\ remain # 0 => isResend' /\ dataTimer'
  <2>1. /\ data \in Seq(SoundSegment(Acked, Sent, pendingSeq))
        /\ Len(data) <= ChanCap /\ early \in 0 .. MaxEarly
        /\ isResend \in BOOLEAN /\ dataTimer \in BOOLEAN
    BY DEF IInv, InFlight, TypeOK
  <2>2. CASE remain = 0
    BY <2>1, <2>2 DEF ReSendDataTimerFired
  <2>3. CASE remain # 0
    <3>1. /\ Patiently /\ dataTimer /\ isResend
          /\ data' = Fitting(data \o Segments(sendBuff, lastAck, ResendSpan))
          /\ isResend' = isResend /\ dataTimer' = dataTimer
      BY <2>3 DEF ReSendDataTimerFired
    <3>2. early' \in 0 .. MaxEarly
      BY <2>1, <3>1, Sizes DEF Patiently
    <3>3. ResendSpan = Sent - Acked /\ Acked < Sent
      BY <1>1, <2>3 DEF IInv, Positions, RemainTracksWindow, ResendSpan
    <3>4. \A b \in 1 .. Sent : sendBuff[Start + b - 1] = b
      BY <1>1 DEF IInv, BufferHolds
    <3>5. pendingSeq <= Acked + 1 /\ Start + Sent < B
      BY <1>1 DEF IInv, ReceiverInWindow
    <3>6. Segments(sendBuff, lastAck, ResendSpan)
            \in Seq(SoundSegment(Acked, Sent, pendingSeq))
      BY <1>1, <3>3, <3>4, <3>5, SegmentsHold
    <3>7. data \o Segments(sendBuff, lastAck, ResendSpan)
            \in Seq(SoundSegment(Acked, Sent, pendingSeq))
      BY <2>1, <3>6, ConcatProperties
    <3>8. /\ data' \in Seq(SoundSegment(Acked, Sent, pendingSeq))
          /\ Len(data') <= ChanCap
      BY <3>1, <3>7, FittingType
    <3> QED
      BY <2>1, <3>1, <3>2, <3>8
  <2> QED
    BY <2>2, <2>3
<1>6. InFlight'
  BY <1>2, <1>3, <1>5 DEF IInv, InFlight
<1>7. RemainTracksWindow'
  BY <1>2, <1>5 DEF IInv, RemainTracksWindow
<1>8. TypeOK'
  <2>1. data' \in Seq(Segment)
    BY <1>5, InFlightTypes, WiderQueue
  <2>2. /\ written' \in 0 .. MaxBytes /\ lineEnds' \subseteq 1 .. MaxBytes
        /\ sendBuff' \in [0 .. B - 1 -> 0 .. MaxBytes] /\ wrap' \in BOOLEAN
        /\ lastWritten' \in 0 .. B - 1 /\ lastSent' \in 0 .. B - 1
        /\ lastAck' \in 0 .. B - 1
        /\ remain' \in 0 .. W - 1 /\ pendingSeq' \in 0 .. W - 1
        /\ ISN' \in 0 .. W - 1 /\ nextExpected' \in 0 .. W - 1
        /\ receivePosted' \in BOOLEAN
    BY <1>2 DEF IInv, TypeOK
  <2>3. /\ receiveQueue' \in Seq(Segment) /\ acks' \in Seq(Ack)
        /\ Len(acks') <= ChanCap /\ Len(receiveQueue') <= ReceiveCap
        /\ unread' \in Seq(Nat) /\ delivered' \in Seq(Nat)
        /\ lost' \in 0 .. MaxLoss
    BY <1>2 DEF IInv, TypeOK
  <2> QED
    BY <1>5, <2>1, <2>2, <2>3 DEF TypeOK
<1> QED
  BY <1>4, <1>6, <1>7, <1>8 DEF IInv

\* What moves from one queue to the next, or is lost, stays sound.
LEMMA QueueDATAKeeps ==
  ASSUME FirstLap, IInv, QueueDATA
  PROVE  IInv'
<1>1. UNCHANGED <<written, lineEnds, sendBuff, wrap, lastWritten, lastSent,
                  lastAck, remain, pendingSeq, isResend, dataTimer, acks,
                  ISN, nextExpected, unread, delivered, lost, early>>
  BY DEF QueueDATA, userVars, sendVars
<1>2. Acked' = Acked /\ Sent' = Sent /\ Taken' = Taken /\ Received' = Received
  BY <1>1 DEF Acked, Sent, Taken, Received
<1>3. /\ Positions' /\ BufferHolds' /\ ReceiverInWindow' /\ ReceivedInOrder'
  BY <1>1, <1>2
     DEF IInv, Positions, BufferHolds, ReceiverInWindow, ReceivedInOrder
<1>4. RemainTracksWindow'
  BY <1>1 DEF IInv, RemainTracksWindow
<1>5. /\ data # <<>> /\ data' = Tail(data) /\ receivePosted' = TRUE
      /\ receiveQueue' = PushBack(receiveQueue, ReceiveCap, Head(data))
  BY DEF QueueDATA
<1> DEFINE X == SoundSegment(Acked, Sent, pendingSeq)
<1>6. /\ data \in Seq(X) /\ receiveQueue \in Seq(X)
      /\ Len(data) <= ChanCap /\ Len(receiveQueue) <= ReceiveCap
      /\ X \subseteq Segment
  BY InFlightTypes DEF IInv, InFlight, TypeOK
<1> HIDE DEF X
<1>7. /\ Tail(data) \in Seq(X) /\ Head(data) \in X
      /\ Len(Tail(data)) <= ChanCap
  <2>1. /\ Len(Tail(data)) = Len(data) - 1 /\ Len(data) \in Nat
        /\ Tail(data) \in Seq(X) /\ Head(data) \in X
    BY <1>5, <1>6, TailType
  <2> QED
    BY <1>6, <2>1, Sizes
<1>8. receiveQueue' \in Seq(X) /\ Len(receiveQueue') <= ReceiveCap
  <2>1. ReceiveCap \in Nat
    BY Sizes
  <2> QED
    BY <1>5, <1>6, <1>7, <2>1, PushBackType
<1>9. InFlight'
  BY <1>1, <1>2, <1>5, <1>7, <1>8 DEF IInv, InFlight, X
<1>10. TypeOK'
  <2>1. data' \in Seq(Segment) /\ receiveQueue' \in Seq(Segment)
        /\ Len(data') <= ChanCap
    BY <1>5, <1>6, <1>7, <1>8, WiderQueue
  <2>2. /\ written' \in 0 .. MaxBytes /\ lineEnds' \subseteq 1 .. MaxBytes
        /\ sendBuff' \in [0 .. B - 1 -> 0 .. MaxBytes] /\ wrap' \in BOOLEAN
        /\ lastWritten' \in 0 .. B - 1 /\ lastSent' \in 0 .. B - 1
        /\ lastAck' \in 0 .. B - 1
        /\ remain' \in 0 .. W - 1 /\ pendingSeq' \in 0 .. W - 1
        /\ ISN' \in 0 .. W - 1 /\ nextExpected' \in 0 .. W - 1
        /\ isResend' \in BOOLEAN /\ dataTimer' \in BOOLEAN
    BY <1>1 DEF IInv, TypeOK
  <2>3. /\ acks' \in Seq(Ack) /\ Len(acks') <= ChanCap
        /\ unread' \in Seq(Nat) /\ delivered' \in Seq(Nat)
        /\ lost' \in 0 .. MaxLoss /\ early' \in 0 .. MaxEarly
    BY <1>1 DEF IInv, TypeOK
  <2>4. receivePosted' \in BOOLEAN
    BY <1>5
  <2> QED
    BY <1>8, <2>1, <2>2, <2>3, <2>4 DEF TypeOK
<1> QED
  BY <1>3, <1>4, <1>9, <1>10 DEF IInv

\* What is lost leaves what is left of the link sound.
LEMMA LoseKeeps ==
  ASSUME FirstLap, IInv, Lose
  PROVE  IInv'
<1>1. UNCHANGED <<written, lineEnds, sendBuff, wrap, lastWritten, lastSent,
                  lastAck, remain, pendingSeq, isResend, dataTimer,
                  receiveQueue, receivePosted, ISN, nextExpected, unread,
                  delivered, early>>
  BY DEF Lose, userVars, sendVars, receiveVars
<1>2. Acked' = Acked /\ Sent' = Sent /\ Taken' = Taken /\ Received' = Received
  BY <1>1 DEF Acked, Sent, Taken, Received
<1>3. /\ Positions' /\ BufferHolds' /\ ReceiverInWindow' /\ ReceivedInOrder'
  BY <1>1, <1>2
     DEF IInv, Positions, BufferHolds, ReceiverInWindow, ReceivedInOrder
<1>4. RemainTracksWindow'
  BY <1>1 DEF IInv, RemainTracksWindow
<1> DEFINE X == SoundSegment(Acked, Sent, pendingSeq)
           Y == SoundAck(Acked, Sent, pendingSeq, Taken)
<1>5. /\ data \in Seq(X) /\ receiveQueue \in Seq(X) /\ acks \in Seq(Y)
      /\ Len(data) <= ChanCap /\ Len(acks) <= ChanCap
      /\ X \subseteq Segment /\ Y \subseteq Ack
  BY InFlightTypes DEF IInv, InFlight, TypeOK
<1> HIDE DEF X, Y
<1>6. /\ data' \in Seq(X) /\ acks' \in Seq(Y)
      /\ Len(data') <= ChanCap /\ Len(acks') <= ChanCap
  <2>1. CASE data # <<>> /\ data' = Tail(data) /\ UNCHANGED acks
    <3>1. /\ Len(Tail(data)) = Len(data) - 1 /\ Len(data) \in Nat
          /\ Tail(data) \in Seq(X)
      BY <1>5, <2>1, TailType
    <3> QED
      BY <1>5, <2>1, <3>1, Sizes
  <2>2. CASE acks # <<>> /\ acks' = Tail(acks) /\ UNCHANGED data
    <3>1. /\ Len(Tail(acks)) = Len(acks) - 1 /\ Len(acks) \in Nat
          /\ Tail(acks) \in Seq(Y)
      BY <1>5, <2>2, TailType
    <3> QED
      BY <1>5, <2>2, <3>1, Sizes
  <2> QED
    BY <2>1, <2>2 DEF Lose
<1>7. InFlight'
  BY <1>1, <1>2, <1>5, <1>6 DEF InFlight, X, Y
<1>8. TypeOK'
  <2>1. data' \in Seq(Segment) /\ acks' \in Seq(Ack)
    BY <1>5, <1>6, WiderQueue
  <2>2. /\ written' \in 0 .. MaxBytes /\ lineEnds' \subseteq 1 .. MaxBytes
        /\ sendBuff' \in [0 .. B - 1 -> 0 .. MaxBytes] /\ wrap' \in BOOLEAN
        /\ lastWritten' \in 0 .. B - 1 /\ lastSent' \in 0 .. B - 1
        /\ lastAck' \in 0 .. B - 1
        /\ remain' \in 0 .. W - 1 /\ pendingSeq' \in 0 .. W - 1
        /\ ISN' \in 0 .. W - 1 /\ nextExpected' \in 0 .. W - 1
        /\ isResend' \in BOOLEAN /\ dataTimer' \in BOOLEAN
    BY <1>1 DEF IInv, TypeOK
  <2>3. /\ receiveQueue' \in Seq(Segment) /\ Len(receiveQueue') <= ReceiveCap
        /\ unread' \in Seq(Nat) /\ delivered' \in Seq(Nat)
        /\ early' \in 0 .. MaxEarly /\ receivePosted' \in BOOLEAN
    BY <1>1 DEF IInv, TypeOK
  <2>4. lost' \in 0 .. MaxLoss
    <3>1. lost \in 0 .. MaxLoss
      BY DEF IInv, TypeOK
    <3> QED
      BY <3>1, Sizes DEF Lose
  <2> QED
    BY <1>6, <2>1, <2>2, <2>3, <2>4 DEF TypeOK
<1> QED
  BY <1>3, <1>4, <1>7, <1>8 DEF IInv

\* The last line end of some bytes is one, if there is one.
LEMMA LastLineEndType ==
  ASSUME NEW bytes \in Seq(Nat)
  PROVE  /\ LastLineEnd(bytes) \in 0 .. Len(bytes)
         /\ LastLineEnd(bytes) # 0 => bytes[LastLineEnd(bytes)] \in lineEnds
<1> DEFINE ends == {i \in DOMAIN bytes : bytes[i] \in lineEnds}
<1>1. CASE ends = {}
  BY <1>1 DEF LastLineEnd
<1>2. CASE ends # {}
  <2>1. Len(bytes) \in Nat /\ \A i \in ends : i \in 1 .. Len(bytes)
    OBVIOUS
  <2> DEFINE back == {m \in Nat : \E i \in ends : m = Len(bytes) - i}
  <2>2. \E m \in back : \A l \in back : m <= l
    <3>1. back \in SUBSET Nat
      OBVIOUS
    <3>2. back # {}
      <4>1. PICK i \in ends : TRUE
        BY <1>2
      <4>2. Len(bytes) - i \in back
        BY <2>1, <4>1
      <4> QED
        BY <4>2
    <3> DEFINE less == OpToRel(<, Nat)
    <3>3. \A m, n \in Nat : <<m, n>> \notin less => n <= m
      BY DEF OpToRel
    <3> HIDE DEF back, less
    <3>4. \E n \in back : \A m \in back : <<m, n>> \notin less
      BY <3>1, <3>2, NatLessThanWellFounded, WFMin DEF less
    <3> QED
      BY <3>1, <3>3, <3>4
  <2>3. \E i \in ends : \A j \in ends : j <= i
    <3>1. PICK m \in back : \A l \in back : m <= l
      BY <2>2
    <3>2. PICK i \in ends : m = Len(bytes) - i
      BY <3>1
    <3> SUFFICES ASSUME NEW j \in ends PROVE j <= i
      OBVIOUS
    <3>3. Len(bytes) - j \in back
      BY <2>1
    <3>4. m <= Len(bytes) - j
      BY <3>1, <3>3
    <3> HIDE DEF back, ends
    <3> QED
      BY <2>1, <3>2, <3>4
  <2>4. LastLineEnd(bytes) = CHOOSE i \in ends : \A j \in ends : j <= i
    BY <1>2 DEF LastLineEnd
  <2> DEFINE n == CHOOSE i \in ends : \A j \in ends : j <= i
  <2>5. n \in ends
    <3> HIDE DEF ends
    <3> QED
      BY <2>3
  <2> QED
    BY <2>1, <2>4, <2>5
<1> QED
  BY <1>1, <1>2

\* The segment that the receiver waits for is the next one of the window.
LEMMA NextSegment ==
  ASSUME FirstLap, IInv,
         NEW segment \in SoundSegment(Acked, Sent, pendingSeq),
         segment.ack = ISN + 1
  PROVE  /\ Took(Acked, Sent, Taken + 1, EndIn(Acked, Sent, Taken + 1))
         /\ EndIn(Acked, Sent, Taken + 1) \in Len(Received) + 1 .. Sent
         /\ segment.seq = Start + EndIn(Acked, Sent, Taken + 1)
         /\ segment.bytes =
              [j \in 1 .. EndIn(Acked, Sent, Taken + 1) - Len(Received) |->
                 Len(Received) + j]
<1>1. /\ Acked \in Nat /\ Sent \in Nat /\ Taken \in Nat /\ Acked <= Sent
      /\ pendingSeq \in Nat /\ ISN \in Nat /\ ISN = pendingSeq + Taken
      /\ Len(Received) \in Nat
  BY Numbers DEF Taken
<1> DEFINE i == Taken + 1
<1>2. i \in Nat /\ segment.ack > pendingSeq /\ segment.ack - pendingSeq = i
      /\ i - 1 = Taken
  BY <1>1
<1>3. LET m == segment.ack - pendingSeq
      IN  /\ Acked + Span(m - 1) < Sent
          /\ segment.seq = Start + EndIn(Acked, Sent, m)
          /\ segment.bytes =
               [j \in 1 .. EndIn(Acked, Sent, m) - EndIn(Acked, Sent, m - 1) |->
                  EndIn(Acked, Sent, m - 1) + j]
  BY <1>2 DEF SoundSegment
<1> HIDE DEF i
<1>4. /\ Acked + Span(Taken) < Sent
      /\ segment.seq = Start + EndIn(Acked, Sent, i)
      /\ segment.bytes =
           [j \in 1 .. EndIn(Acked, Sent, i) - EndIn(Acked, Sent, Taken) |->
              EndIn(Acked, Sent, Taken) + j]
  BY <1>2, <1>3
<1>5. Len(Received) = EndIn(Acked, Sent, Taken)
  BY DEF IInv, ReceiverInWindow, Took
<1>6. EndIn(Acked, Sent, i) \in Len(Received) + 1 .. Sent
  <2>1. Span(i) = Span(Taken) + S /\ Span(Taken) \in Nat
    BY <1>1, SpanNext, SpanType DEF i
  <2> QED
    BY <1>1, <1>4, <1>5, <2>1, Sizes DEF EndIn
<1>7. Took(Acked, Sent, i, EndIn(Acked, Sent, i))
  BY <1>2, <1>4 DEF Took
<1> QED
  BY <1>4, <1>5, <1>6, <1>7 DEF i

\* What is stored continues what was received, and is read up to a line end.
LEMMA StoredInOrder ==
  ASSUME FirstLap, IInv, NEW E \in Nat, E > Len(Received), E <= written,
         NEW bytes,
         bytes = [j \in 1 .. E - Len(Received) |-> Len(Received) + j]
  PROVE  LET stored == unread \o bytes
             n == LastLineEnd(stored)
             read == delivered \o SubSeq(stored, 1, n)
             rest == SubSeq(stored, n + 1, Len(stored))
         IN  /\ read \in Seq(Nat) /\ rest \in Seq(Nat)
             /\ \A i \in 1 .. Len(read) : read[i] = i
             /\ \A i \in 1 .. Len(rest) : rest[i] = Len(read) + i
             /\ Len(read) \in lineEnds \cup {0}
             /\ Len(read \o rest) = E
<1>1. /\ Len(Received) = Len(delivered) + Len(unread)
      /\ Len(delivered) \in Nat /\ Len(unread) \in Nat
  BY Numbers
<1>2. /\ delivered \in Seq(Nat) /\ unread \in Seq(Nat)
      /\ \A i \in 1 .. Len(delivered) : delivered[i] = i
      /\ \A i \in 1 .. Len(unread) : unread[i] = Len(delivered) + i
      /\ Len(delivered) \in lineEnds \cup {0}
  BY DEF IInv, TypeOK, ReceivedInOrder
<1> DEFINE D == Len(delivered)
           U == Len(unread)
<1>3. /\ bytes \in Seq(Nat) /\ Len(bytes) = E - (D + U)
      /\ E - (D + U) \in Nat
      /\ \A j \in 1 .. E - (D + U) : bytes[j] = D + U + j
  <2>1. E - (D + U) \in Nat /\ \A j \in 1 .. E - (D + U) : D + U + j \in Nat
    BY <1>1
  <2> QED
    BY <1>1, <2>1
<1> DEFINE stored == unread \o bytes
<1>4. /\ stored \in Seq(Nat) /\ Len(stored) = E - D
      /\ \A i \in 1 .. E - D : stored[i] = D + i
  <2>1. stored \in Seq(Nat) /\ Len(stored) = U + (E - (D + U))
    BY <1>2, <1>3
  <2>2. ASSUME NEW i \in 1 .. E - D PROVE stored[i] = D + i
    <3>1. CASE i \in 1 .. U
      BY <1>2, <1>3, <3>1
    <3>2. CASE i \notin 1 .. U
      <4>1. i - U \in 1 .. E - (D + U) /\ i \in U + 1 .. Len(stored)
        BY <1>1, <2>1, <3>2
      <4>2. stored[i] = bytes[i - U]
        BY <1>2, <1>3, <2>1, <4>1, <3>2
      <4> QED
        BY <1>1, <1>3, <4>1, <4>2
    <3> QED
      BY <3>1, <3>2
  <2> QED
    BY <1>1, <2>1, <2>2
<1> HIDE DEF stored
<1> DEFINE n == LastLineEnd(stored)
<1>5. n \in 0 .. E - D /\ (n # 0 => stored[n] \in lineEnds)
  BY <1>4, LastLineEndType
<1> HIDE DEF n
<1> DEFINE first == SubSeq(stored, 1, n)
           rest == SubSeq(stored, n + 1, Len(stored))
<1> HIDE DEF rest
<1>6. /\ first \in Seq(Nat) /\ Len(first) = n
      /\ \A i \in 1 .. n : first[i] = D + i
  BY <1>1, <1>4, <1>5
<1>7. /\ rest \in Seq(Nat) /\ Len(rest) = E - D - n
      /\ \A i \in 1 .. E - D - n : rest[i] = D + n + i
  <2>1. E - D \in Nat /\ n \in Nat /\ D \in Nat
    BY <1>1, <1>5
  <2>2. CASE n = E - D
    BY <1>4, <2>1, <2>2 DEF rest
  <2>3. CASE n # E - D
    <3>1. /\ rest \in Seq(Nat) /\ Len(rest) = E - D - n
          /\ \A i \in 1 .. E - D - n : rest[i] = stored[n + i]
      <4>1. n + 1 \in 1 .. Len(stored) + 1 /\ Len(stored) \in n .. Len(stored)
            /\ Len(stored) - (n + 1) + 1 = E - D - n
        BY <1>4, <1>5, <2>1
      <4>2. ASSUME NEW i \in 1 .. E - D - n
            PROVE  (n + 1) + i - 1 = n + i
        BY <2>1
      <4>3. /\ rest \in Seq(Nat)
            /\ Len(rest) = IF n + 1 <= Len(stored)
                           THEN Len(stored) - (n + 1) + 1 ELSE 0
        BY <1>4, <2>1, <4>1, SubSeqProperties DEF rest
      <4>4. ASSUME NEW i \in 1 .. E - D - n
            PROVE  rest[i] = stored[(n + 1) + i - 1]
        BY <1>4, <1>5, <2>1, <2>3 DEF rest
      <4>5. n + 1 <= Len(stored)
        <5>1. n \in 0 .. E - D
          BY <1>5
        <5>2. Len(stored) = E - D
          BY <1>4
        <5> QED
          BY <2>1, <2>3, <5>1, <5>2, NextNumber, Zenon
      <4>6. Len(rest) = E - D - n
        BY <4>1, <4>3, <4>5
      <4> HIDE DEF stored
      <4>7. ASSUME NEW i \in 1 .. E - D - n PROVE rest[i] = stored[n + i]
        BY <4>2, <4>4
      <4> QED
        BY <4>3, <4>6, <4>7
    <3>2. \A i \in 1 .. E - D - n : stored[n + i] = D + n + i
      <4> SUFFICES ASSUME NEW i \in 1 .. E - D - n
                   PROVE  stored[n + i] = D + n + i
        OBVIOUS
      <4>1. n + i \in 1 .. E - D /\ D + (n + i) = D + n + i
        BY <1>5, <2>1
      <4> QED
        BY <1>4, <4>1
    <3> QED
      BY <3>1, <3>2
  <2> QED
    BY <2>2, <2>3
<1> HIDE DEF first
<1> DEFINE read == delivered \o first
<1>8. /\ read \in Seq(Nat) /\ Len(read) = D + n
      /\ \A i \in 1 .. D + n : read[i] = i
  <2>1. read \in Seq(Nat) /\ Len(read) = D + n
    BY <1>2, <1>6, ConcatProperties
  <2>2. ASSUME NEW i \in 1 .. D + n PROVE read[i] = i
    <3>1. CASE i \in 1 .. D
      BY <1>2, <1>6, <3>1
    <3>2. CASE i \notin 1 .. D
      <4>1. i - D \in 1 .. n /\ i \in D + 1 .. D + n
        BY <1>1, <1>5, <3>2
      <4>2. read[i] = first[i - D]
        BY <1>2, <1>6, <4>1, <3>2
      <4> QED
        BY <1>1, <1>6, <4>1, <4>2
    <3> QED
      BY <3>1, <3>2
  <2> QED
    BY <2>1, <2>2
<1>9. Len(read) \in lineEnds \cup {0}
  <2>1. CASE n = 0
    BY <1>1, <1>2, <1>8, <2>1
  <2>2. CASE n # 0
    BY <1>1, <1>4, <1>5, <1>8, <2>2
  <2> QED
    BY <2>1, <2>2
<1>10. Len(read \o rest) = E
  <2> HIDE DEF read
  <2>1. read \in Seq(Nat) /\ rest \in Seq(Nat)
    BY <1>7, <1>8
  <2>2. Len(read \o rest) = Len(read) + Len(rest)
    BY <2>1, ConcatProperties
  <2>3. Len(read) = D + n /\ Len(rest) = E - D - n
    BY <1>7, <1>8
  <2>4. Len(read \o rest) = (D + n) + (E - D - n)
    BY <2>2, <2>3
  <2>5. D \in Nat /\ n \in Nat
    BY <1>1, <1>5
  <2>6. (D + n) + (E - D - n) = E
    BY <2>5
  <2> QED
    BY <2>4, <2>6
<1>11. \A i \in 1 .. Len(rest) : rest[i] = Len(read) + i
  <2> HIDE DEF read
  <2> QED
    BY <1>7, <1>8
<1> HIDE DEF D, U
<1> QED
  BY <1>7, <1>8, <1>9, <1>10, <1>11 DEF stored, n, first, rest

\* An acknowledgement of what the receiver has is sound.
LEMMA AnswerSound ==
  ASSUME NEW A \in Nat, NEW T \in Nat, A <= T, NEW k \in Nat, NEW R,
         Took(A, T, k, R), NEW p \in Nat,
         NEW seq \in 0 .. W - 1, NEW ack \in 0 .. W - 1,
         seq = p + k, ack \in {0, Start + R + 1}
  PROVE  [seq |-> seq, ack |-> ack] \in SoundAck(A, T, p, k)
<1> DEFINE a == [seq |-> seq, ack |-> ack]
<1>1. a \in Ack /\ a.seq = p + k /\ a.ack = ack
  BY DEF Ack
<1> HIDE DEF a
<1>2. R = EndIn(A, T, k) /\ R \in Nat /\ Start \in Nat
  BY EndInType, Sizes DEF Took
<1> SUFFICES ASSUME a.ack # 0, ~(a.ack - 1 <= Start + A)
             PROVE  /\ a.seq \in p + 1 .. p + k
                    /\ a.ack - 1 = Start + EndIn(A, T, a.seq - p)
  BY <1>1 DEF SoundAck, a
<1>3. a.ack - 1 = Start + R
  BY <1>1, <1>2
<1>4. k # 0
  BY <1>2, <1>3, SpanZero DEF EndIn
<1>5. a.seq - p = k
  BY <1>1
<1> QED
  BY <1>1, <1>2, <1>3, <1>4, <1>5

\* The segment that is expected is stored and acknowledged, and another one is
\* answered with the acknowledgement of the last.
LEMMA ReceiveDATAKeeps ==
  ASSUME FirstLap, IInv, ReceiveDATA
  PROVE  IInv'
<1>1. /\ Acked \in Nat /\ Sent \in Nat /\ Taken \in Nat
      /\ Acked <= Sent /\ Sent <= written /\ written \in Nat
      /\ Start + written < B /\ B \in Nat \ {0} /\ W = B + B /\ Start \in Nat
      /\ pendingSeq \in Nat /\ ISN \in Nat /\ ISN = pendingSeq + Taken
      /\ Len(Received) \in Nat /\ Len(Received) <= Sent
  BY Numbers, Sizes DEF Taken
<1> DEFINE segment == Head(receiveQueue)
           stored == unread \o segment.bytes
           n == LastLineEnd(stored)
           answer == [seq |-> ISN', ack |-> nextExpected']
<1>2. /\ receiveQueue # <<>> /\ receiveQueue' = Tail(receiveQueue)
      /\ receivePosted' = FALSE /\ acks' = Fitting(Append(acks, answer))
      /\ UNCHANGED <<written, lineEnds, sendBuff, wrap, lastWritten, lastSent,
                     lastAck, remain, pendingSeq, isResend, dataTimer, data,
                     lost, early>>
  BY DEF ReceiveDATA, userVars, sendVars
<1>3. \/ /\ Expected(segment)
         /\ ISN' = (ISN + 1) % W /\ nextExpected' = (segment.seq + 1) % B
         /\ delivered' = delivered \o SubSeq(stored, 1, n)
         /\ unread' = SubSeq(stored, n + 1, Len(stored))
      \/ UNCHANGED <<ISN, nextExpected, delivered, unread>>
  BY DEF ReceiveDATA
<1> HIDE DEF segment, stored, n, answer
<1> DEFINE X == SoundSegment(Acked, Sent, pendingSeq)
           Y == SoundAck(Acked, Sent, pendingSeq, Taken)
           Y2 == SoundAck(Acked, Sent, pendingSeq, Taken')
<1>4. /\ data \in Seq(X) /\ receiveQueue \in Seq(X) /\ acks \in Seq(Y)
      /\ Len(receiveQueue) <= ReceiveCap
  BY DEF IInv, InFlight, TypeOK
<1>5. /\ segment \in X /\ Tail(receiveQueue) \in Seq(X)
      /\ Len(Tail(receiveQueue)) <= ReceiveCap
  <2> HIDE DEF X
  <2>1. /\ Head(receiveQueue) \in X /\ Tail(receiveQueue) \in Seq(X)
        /\ Len(Tail(receiveQueue)) = Len(receiveQueue) - 1
        /\ Len(receiveQueue) \in Nat
    BY <1>2, <1>4, TailType
  <2> QED
    BY <1>4, <2>1, Sizes DEF segment
<1>6. Acked' = Acked /\ Sent' = Sent /\ pendingSeq' = pendingSeq
  BY <1>2 DEF Acked, Sent
<1>7. /\ Positions' /\ BufferHolds' /\ RemainTracksWindow'
  BY <1>2 DEF IInv, Positions, BufferHolds, RemainTracksWindow
\* what the step does to the receiver
<1>8. /\ ReceiverInWindow' /\ ReceivedInOrder'
      /\ Taken' \in {Taken, Taken + 1}
      /\ unread' \in Seq(Nat) /\ delivered' \in Seq(Nat)
      /\ ISN' \in 0 .. W - 1 /\ nextExpected' \in 0 .. W - 1
  <2>1. CASE UNCHANGED <<ISN, nextExpected, delivered, unread>>
    <3>1. Taken' = Taken /\ Received' = Received
      BY <1>2, <2>1 DEF Taken, Received
    <3>2. ReceiverInWindow' /\ ReceivedInOrder'
      BY <1>2, <1>6, <2>1, <3>1 DEF IInv, ReceiverInWindow, ReceivedInOrder
    <3>3. /\ unread' \in Seq(Nat) /\ delivered' \in Seq(Nat)
          /\ ISN' \in 0 .. W - 1 /\ nextExpected' \in 0 .. W - 1
      BY <2>1 DEF IInv, TypeOK
    <3> QED
      BY <3>1, <3>2, <3>3
  <2>2. CASE /\ Expected(segment)
             /\ ISN' = (ISN + 1) % W /\ nextExpected' = (segment.seq + 1) % B
             /\ delivered' = delivered \o SubSeq(stored, 1, n)
             /\ unread' = SubSeq(stored, n + 1, Len(stored))
    <3> DEFINE E == EndIn(Acked, Sent, Taken + 1)
    <3>1. /\ Took(Acked, Sent, Taken + 1, E)
          /\ E \in Len(Received) + 1 .. Sent
          /\ segment.seq = Start + E
          /\ segment.bytes =
               [j \in 1 .. E - Len(Received) |-> Len(Received) + j]
      <4>1. segment.ack = ISN + 1
        BY <2>2 DEF Expected
      <4> QED
        BY <1>5, <4>1, NextSegment
    <3> HIDE DEF E
    <3>2. E \in Nat /\ E > Len(Received) /\ E <= written /\ E <= Sent
      BY <1>1, <3>1
    <3>3. /\ delivered' \in Seq(Nat) /\ unread' \in Seq(Nat)
          /\ \A i \in 1 .. Len(delivered') : delivered'[i] = i
          /\ \A i \in 1 .. Len(unread') : unread'[i] = Len(delivered') + i
          /\ Len(delivered') \in lineEnds \cup {0}
          /\ Len(Received') = E
      <4>1. LET st == unread \o segment.bytes
                m == LastLineEnd(st)
                read == delivered \o SubSeq(st, 1, m)
                rest == SubSeq(st, m + 1, Len(st))
            IN  /\ read \in Seq(Nat) /\ rest \in Seq(Nat)
                /\ \A i \in 1 .. Len(read) : read[i] = i
                /\ \A i \in 1 .. Len(rest) : rest[i] = Len(read) + i
                /\ Len(read) \in lineEnds \cup {0}
                /\ Len(read \o rest) = E
        BY <3>1, <3>2, StoredInOrder
      <4> QED
        BY <2>2, <4>1 DEF stored, n, Received
    <3>4. ISN <= Len(Received) + 1 /\ pendingSeq <= Acked + 1
      BY DEF IInv, ReceiverInWindow
    <3>5. ISN' = ISN + 1 /\ ISN + 1 \in 0 .. W - 1
      <4>1. ISN + 1 \in 0 .. W - 1 /\ W \in Nat \ {0}
        BY <1>1, <3>2, <3>4
      <4> QED
        BY <2>2, <4>1, SmallModulo
    <3>6. /\ nextExpected' \in {0, Start + E + 1}
          /\ nextExpected' \in 0 .. W - 1
      <4>1. nextExpected' = (Start + E + 1) % B
        BY <2>2, <3>1
      <4>2. CASE Start + E + 1 < B
        <5>1. Start + E + 1 \in 0 .. B - 1
          BY <1>1, <3>2, <4>2
        <5>2. nextExpected' = Start + E + 1
          BY <1>1, <4>1, <5>1, SmallModulo
        <5> QED
          BY <1>1, <5>1, <5>2
      <4>3. CASE ~(Start + E + 1 < B)
        <5>1. Start + E + 1 = B
          BY <1>1, <3>2, <4>3
        <5>2. B % B = 0
          BY <1>1
        <5> QED
          BY <1>1, <4>1, <5>1, <5>2
      <4> QED
        BY <4>2, <4>3
    <3>7. Taken' = Taken + 1
      BY <1>1, <1>6, <3>5 DEF Taken
    <3>8. ReceiverInWindow'
      <4>1. Took(Acked', Sent', Taken', Len(Received'))
        BY <1>6, <3>1, <3>3, <3>7
      <4>2. ISN' <= Len(Received') + 1 /\ pendingSeq' <= Acked' + 1
        BY <1>1, <1>6, <3>2, <3>3, <3>4, <3>5
      <4> QED
        BY <3>3, <3>6, <4>1, <4>2 DEF ReceiverInWindow
    <3>9. ReceivedInOrder'
      BY <1>2, <3>3 DEF IInv, ReceivedInOrder
    <3> QED
      BY <3>3, <3>5, <3>6, <3>7, <3>8, <3>9
  <2> QED
    BY <1>3, <2>1, <2>2
<1>9. answer \in Y2
  <2>1. /\ Took(Acked, Sent, Taken', Len(Received'))
        /\ nextExpected' \in {0, Start + Len(Received') + 1}
    BY <1>6, <1>8 DEF ReceiverInWindow
  <2>2. ISN' = pendingSeq + Taken' /\ Taken' \in Nat
    <3>1. Taken' = ISN' - pendingSeq
      BY <1>6 DEF Taken
    <3>2. ISN' \in Nat
      BY <1>1, <1>8
    <3>3. Taken' \in Nat
      BY <1>1, <1>8
    <3>4. ISN' = pendingSeq + Taken'
      <4>1. pendingSeq \in Nat
        BY <1>1
      <4> QED
        BY <3>1, <3>2, <4>1, Difference, Zenon
    <3> QED
      BY <3>3, <3>4
  <2> QED
    BY <1>1, <1>8, <2>1, <2>2, AnswerSound DEF answer
<1>10. Y \subseteq Y2 /\ Y2 \subseteq Ack
  <2>1. Taken' \in Nat /\ Taken' >= Taken
    BY <1>1, <1>8
  <2>2. Y2 \subseteq Ack
    BY InFlightTypes
  <2> SUFFICES ASSUME NEW a \in Y PROVE a \in Y2
    BY <2>2
  <2>3. a \in Ack
    BY DEF SoundAck
  <2>4. a.seq \in pendingSeq + 1 .. pendingSeq + Taken
          => a.seq \in pendingSeq + 1 .. pendingSeq + Taken'
    BY <1>1, <2>1
  <2> QED
    BY <2>3, <2>4 DEF SoundAck
<1> HIDE DEF Y, Y2
<1>11. acks' \in Seq(Y2) /\ Len(acks') <= ChanCap
  <2>1. acks \in Seq(Y2)
    BY <1>4, <1>10, WiderQueue
  <2>2. Append(acks, answer) \in Seq(Y2)
    BY <1>9, <2>1
  <2> QED
    BY <1>2, <2>2, FittingType
<1>12. InFlight'
  BY <1>2, <1>4, <1>5, <1>6, <1>11 DEF InFlight, Y2
<1>13. TypeOK'
  <2>1. acks' \in Seq(Ack)
    BY <1>10, <1>11, WiderQueue
  <2>2. receiveQueue' \in Seq(Segment) /\ Len(receiveQueue') <= ReceiveCap
    BY <1>2, <1>5, InFlightTypes, WiderQueue
  <2>3. /\ written' \in 0 .. MaxBytes /\ lineEnds' \subseteq 1 .. MaxBytes
        /\ sendBuff' \in [0 .. B - 1 -> 0 .. MaxBytes] /\ wrap' \in BOOLEAN
        /\ lastWritten' \in 0 .. B - 1 /\ lastSent' \in 0 .. B - 1
        /\ lastAck' \in 0 .. B - 1
        /\ remain' \in 0 .. W - 1 /\ pendingSeq' \in 0 .. W - 1
        /\ isResend' \in BOOLEAN /\ dataTimer' \in BOOLEAN
    BY <1>2 DEF IInv, TypeOK
  <2>4. /\ data' \in Seq(Segment) /\ Len(data') <= ChanCap
        /\ lost' \in 0 .. MaxLoss /\ early' \in 0 .. MaxEarly
    BY <1>2 DEF IInv, TypeOK
  <2>5. receivePosted' \in BOOLEAN
    BY <1>2
  <2> QED
    BY <1>8, <1>11, <2>1, <2>2, <2>3, <2>4, <2>5 DEF TypeOK
<1> QED
  BY <1>7, <1>8, <1>12, <1>13 DEF IInv

-----------------------------------------------------------------------------
(* The theorems                                                            *)

\* Every step keeps the invariant.
LEMMA Inductive == ASSUME FirstLap PROVE IInv /\ [Next]_vars => IInv'
<1> SUFFICES ASSUME IInv, [Next]_vars PROVE IInv'
  OBVIOUS
<1>1. ASSUME NEW len \in LineLens, Write(len) PROVE IInv'
  BY <1>1, WriteKeeps
<1>2. CASE ReceiveACK
  BY <1>2, ReceiveACKKeeps
<1>3. CASE ReSendDataTimerFired
  BY <1>3, ReSendKeeps
<1>4. CASE QueueDATA
  BY <1>4, QueueDATAKeeps
<1>5. CASE ReceiveDATA
  BY <1>5, ReceiveDATAKeeps
<1>6. CASE Lose
  BY <1>6, LoseKeeps
<1>7. CASE UNCHANGED vars
  <2>1. UNCHANGED <<written, lineEnds, sendBuff, wrap, lastWritten, lastSent,
                    lastAck, remain, pendingSeq, isResend, dataTimer, data,
                    acks, receiveQueue, receivePosted, ISN, nextExpected,
                    unread, delivered, lost, early>>
    BY <1>7 DEF vars, userVars, sendVars, receiveVars
  <2>2. /\ Acked' = Acked /\ Sent' = Sent /\ Taken' = Taken
        /\ Received' = Received
    BY <2>1 DEF Acked, Sent, Taken, Received
  <2>3. TypeOK'
    BY <2>1 DEF IInv, TypeOK
  <2>4. /\ Positions' /\ BufferHolds' /\ ReceiverInWindow' /\ ReceivedInOrder'
        /\ InFlight' /\ RemainTracksWindow'
    BY <2>1, <2>2
       DEF IInv, Positions, BufferHolds, ReceiverInWindow, ReceivedInOrder,
           InFlight, RemainTracksWindow
  <2> QED
    BY <2>3, <2>4 DEF IInv
<1> QED
  BY <1>1, <1>2, <1>3, <1>4, <1>5, <1>6, <1>7 DEF Next

\* The invariant says that what the peer has is what was written.
LEMMA IInvInOrder == ASSUME FirstLap, IInv PROVE InOrderDelivery
<1>1. /\ Len(Received) = Len(delivered) + Len(unread)
      /\ Len(Received) <= written /\ Len(delivered) \in Nat
      /\ Len(unread) \in Nat
  BY Numbers
<1>2. delivered \in Seq(Nat) /\ unread \in Seq(Nat)
  BY DEF IInv, TypeOK
<1>3. ASSUME NEW i \in DOMAIN Received PROVE Received[i] = i
  <2>1. i \in 1 .. Len(delivered) + Len(unread)
    BY <1>1, <1>2 DEF Received
  <2>2. CASE i \in 1 .. Len(delivered)
    BY <1>2, <2>2 DEF IInv, ReceivedInOrder, Received
  <2>3. CASE i \notin 1 .. Len(delivered)
    <3>1. i - Len(delivered) \in 1 .. Len(unread)
      BY <1>1, <2>1, <2>3
    <3>2. Received[i] = unread[i - Len(delivered)]
      BY <1>1, <1>2, <2>1, <2>3, <3>1 DEF Received
    <3> QED
      BY <1>1, <3>1, <3>2, <2>1 DEF IInv, ReceivedInOrder
  <2> QED
    BY <2>2, <2>3
<1> QED
  BY <1>1, <1>3 DEF IInv, ReceivedInOrder, InOrderDelivery

\* The invariant says how many segments the receiver is ahead.
LEMMA IInvWindow == ASSUME FirstLap, IInv PROVE WindowAgreement
<1>1. /\ Acked \in Nat /\ Sent \in Nat /\ Taken \in Nat /\ Acked <= Sent
      /\ Len(Received) \in Nat /\ Acked <= Len(Received)
      /\ Len(Received) <= Sent
  BY Numbers
<1> DEFINE ahead == Len(Received) - Acked
<1>2. Took(Acked, Sent, Taken, Len(Received))
  BY DEF IInv, ReceiverInWindow
<1>3. Taken = (ahead + S - 1) \div S
  <2>1. CASE Taken = 0
    <3>1. ahead = 0
      BY <1>1, <1>2, <2>1, SpanZero DEF Took, EndIn
    <3>2. (0 + S - 1) \div S = 0
      BY Sizes
    <3> QED
      BY <2>1, <3>1, <3>2
  <2>2. CASE Taken # 0
    <3>1. Taken - 1 \in Nat /\ (Taken - 1) + 1 = Taken
      BY <1>1, <2>2
    <3>2. /\ Span(Taken - 1) \in Nat
          /\ Span(Taken) = Span(Taken - 1) + S
      <4>1. Span((Taken - 1) + 1) = Span(Taken - 1) + S
        BY <3>1, SpanNext
      <4> QED
        BY <3>1, <4>1, SpanType
    <3>3. /\ Acked + Span(Taken - 1) < Sent
          /\ Len(Received) = EndIn(Acked, Sent, Taken)
      BY <1>2, <2>2 DEF Took
    <3>4. ahead \in Nat /\ Span(Taken - 1) < ahead /\ ahead <= Span(Taken)
      BY <1>1, <3>2, <3>3, Sizes DEF EndIn
    <3> HIDE DEF ahead
    <3> QED
      BY <1>1, <2>2, <3>4, Ceiling
  <2> QED
    BY <2>1, <2>2
<1> QED
  BY <1>1, <1>3 DEF WindowAgreement, Acked, Sent, Taken

\* The invariant holds as long as the ring is not filled to its end.
LEMMA Invariant == ASSUME FirstLap PROVE Spec => []IInv
<1>1. Init => IInv
  BY InitInvariant
<1>2. IInv /\ [Next]_vars => IInv'
  BY Inductive
<1> QED
  BY <1>1, <1>2, PTL DEF Spec

\* As long as the ring is not filled to its end, the variables keep their types
\* and the queues and links their capacities.
THEOREM TypeCorrect == FirstLap => (Spec => []TypeOK)
<1> SUFFICES ASSUME FirstLap PROVE Spec => []TypeOK
  OBVIOUS
<1>1. IInv => TypeOK
  BY DEF IInv
<1>2. Spec => []IInv
  BY Invariant
<1> QED
  BY <1>1, <1>2, PTL

\* The peer reads what was written, from the first byte on, with nothing lost,
\* repeated, reordered or added, and in whole lines: whatever the network loses
\* and however early the timer of reSendData fires.
THEOREM Delivery == FirstLap => (Spec => []InOrderDelivery)
<1> SUFFICES ASSUME FirstLap PROVE Spec => []InOrderDelivery
  OBVIOUS
<1>1. IInv => InOrderDelivery
  BY IInvInOrder
<1>2. Spec => []IInv
  BY Invariant
<1> QED
  BY <1>1, <1>2, PTL

\* The number the receiver waits for is that of the next segment in the window
\* of the sender, and the window holds all that the receiver lacks.
THEOREM Agreement == FirstLap => (Spec => []WindowAgreement)
<1> SUFFICES ASSUME FirstLap PROVE Spec => []WindowAgreement
  OBVIOUS
<1>1. IInv => WindowAgreement
  BY IInvWindow
<1>2. Spec => []IInv
  BY Invariant
<1> QED
  BY <1>1, <1>2, PTL

\* remain is 0 exactly when all that was sent is acknowledged, and until then
\* the timer of reSendData runs.
THEOREM RemainCorrect == FirstLap => (Spec => []RemainTracksWindow)
<1> SUFFICES ASSUME FirstLap PROVE Spec => []RemainTracksWindow
  OBVIOUS
<1>1. IInv => RemainTracksWindow
  BY DEF IInv
<1>2. Spec => []IInv
  BY Invariant
<1> QED
  BY <1>1, <1>2, PTL
=============================================================================
