---------------------------- MODULE ReportProofs ----------------------------
(***************************************************************************)
(* The proofs about the OBD report, for every set of PIDs and parameters,  *)
(* every length of answer a first frame can announce, and any number of    *)
(* answers. While the tracker sweeps, the answers that nobody disturbs lie *)
(* in the report where they began, the last one as far as its frames have  *)
(* been handled; the listener's index is at the beginning of an answer as  *)
(* long as none took several frames.                                       *)
(***************************************************************************)
EXTENDS ObdReport, SequenceTheorems, TLAPS

Byte == 0..255

\* The bytes of data behind offset o are those of s.
LiesAt(s, data, o) == /\ o + Len(s) <= Len(data)
                      /\ \A j \in 1..Len(s) : data[o + j] = s[j]

\* Behind offset o data holds the first t bytes of s, and nothing else.
EndsWith(data, o, s, t) == /\ Len(data) = o + t
                           /\ \A j \in 1..t : data[o + j] = s[j]

\* The bytes of part are those of s behind its first t.
PartOf(part, s, t) == \A j \in 1..Len(part) : part[j] = s[t + j]

\* Bytes of a long answer in its first c frames, unless the last is among them.
Taken(c) == IF c = 0 THEN 0 ELSE 7 * c - 1

\* All frames of answer k have been handled; the bytes of it that have been kept.
Done(k) == taken[k] = Len(FramesOf(answers[k]))
Part(k) == IF Done(k) THEN Len(Kept(k)) ELSE Taken(taken[k])

\* An answer that another one has followed, and the one begun last.
Past(k) == /\ begins[k + 1] = begins[k] + Len(Kept(k))
           /\ LiesAt(Kept(k), vehicle_data, begins[k])
Present(k) == /\ EndsWith(vehicle_data, begins[k], Kept(k), Part(k))
              /\ Multi(k) /\ ~Done(k) => MFL = Len(answers[k]) - Part(k)

CarInv ==
  /\ answers \in Seq(Answer) /\ asked \in [1..Len(answers) -> PIDs]
  /\ \A j, k \in 1..Len(answers) : j < k => asked[j] <= asked[k]

\* Answers are begun in order, to the PIDs up to the current one; those to earlier PIDs
\* are complete.
CountInv ==
  /\ currentPID \in PIDs \union {-1}
  /\ taken \in [1..Len(answers) -> Nat]
  /\ begins \in Seq(Nat) /\ Len(begins) <= Len(answers)
  /\ \A k \in 1..Len(answers) :
        /\ taken[k] <= Len(FramesOf(answers[k]))
        /\ taken[k] > 0 <=> k <= Len(begins)
        /\ k <= Len(begins) => asked[k] <= currentPID
        /\ asked[k] < currentPID => Done(k)

BytesInv ==
  /\ vehicle_data \in Seq(Byte) /\ MFL \in Nat
  /\ begins = <<>> => vehicle_data = <<>>
  /\ begins # <<>> => begins[1] = 0
  /\ \A k \in 1..Len(begins) :
        Undisturbed(k) => IF k = Len(begins) THEN Present(k) ELSE Past(k)

SweepInv == CarInv /\ CountInv /\ BytesInv

-----------------------------------------------------------------------------
(* Answers and their frames. *)

\* A number up to 255 is a byte.
LEMMA ByteType == ASSUME NEW x \in Nat, x <= 255 PROVE x \in Byte
  BY DEF Byte

\* Concatenation, by index.
LEMMA Concat ==
  ASSUME NEW S, NEW s \in Seq(S), NEW t \in Seq(S)
  PROVE  /\ s \o t \in Seq(S) /\ Len(s) \in Nat /\ Len(t) \in Nat
         /\ Len(s \o t) = Len(s) + Len(t)
         /\ \A j \in 1..Len(s) : (s \o t)[j] = s[j]
         /\ \A j \in 1..Len(t) : (s \o t)[Len(s) + j] = t[j]
<1>1. Len(s) \in Nat /\ Len(t) \in Nat
  BY LenProperties
<1>2. /\ s \o t \in Seq(S) /\ Len(s \o t) = Len(s) + Len(t)
      /\ \A j \in 1..Len(s) + Len(t) : (s \o t)[j] = IF j <= Len(s) THEN s[j] ELSE t[j - Len(s)]
  BY ConcatProperties
<1>3. ASSUME NEW j \in 1..Len(t) PROVE (s \o t)[Len(s) + j] = t[j]
  <2>1. /\ Len(s) + j \in 1..Len(s) + Len(t) /\ ~(Len(s) + j <= Len(s))
        /\ Len(s) + j - Len(s) = j
    BY <1>1
  <2> QED
    BY <1>2, <2>1
<1> QED
  BY <1>1, <1>2, <1>3

\* An answer has at most 255 bytes, as many as a length byte says, and begins with its
\* service and PID.
LEMMA AnswerType ==
  ASSUME NEW a \in Answer
  PROVE  /\ a \in Seq(Byte) /\ Len(a) \in Nat /\ 3 <= Len(a) /\ Len(a) <= 255
         /\ \A j \in 1..Len(a) : a[j] \in Byte
         /\ a[1] \in {Live, Negative} /\ (a[1] = Live => a[2] \in PIDs)
<1>1. CASE a = <<Negative, 1, 18>>
  <2>1. a \in Seq(Byte)
    BY <1>1 DEF Negative, Byte
  <2>2. Len(a) = 3 /\ a[1] = Negative
    BY <1>1
  <2>3. \A j \in 1..Len(a) : a[j] \in Byte
    BY <2>1, ElementOfSeq
  <2> QED
    BY <2>1, <2>2, <2>3 DEF Negative, Live
<1>2. CASE \E p \in PIDs, d \in Data : a = LiveAnswer(p, d)
  <2>1. PICK p \in PIDs, d \in Data : a = LiveAnswer(p, d)
    BY <1>2
  <2>2. /\ p \in Byte /\ d \in Seq(Byte) /\ Len(d) \in 1..253 /\ Live \in Byte
    BY ObdReportAssumption DEF Byte, Live
  <2> DEFINE s == <<Live, p>>
  <2>3. /\ s \in Seq(Byte) /\ Len(s) = 2 /\ s[1] = Live /\ s[2] = p
    BY <2>2
  <2>5. /\ a \in Seq(Byte) /\ Len(a) = 2 + Len(d) /\ a[1] = Live /\ a[2] = p
    <3> HIDE DEF s
    <3>1. a = s \o d
      BY <2>1 DEF s, LiveAnswer
    <3>2. /\ s \o d \in Seq(Byte) /\ Len(s \o d) = Len(s) + Len(d)
          /\ \A j \in 1..Len(s) : (s \o d)[j] = s[j]
      BY <2>2, <2>3, Concat
    <3>3. 1 \in 1..Len(s) /\ 2 \in 1..Len(s)
      BY <2>3
    <3> QED
      BY <2>2, <2>3, <3>1, <3>2, <3>3
  <2>6. \A j \in 1..Len(a) : a[j] \in Byte
    BY <2>5, ElementOfSeq
  <2>7. Len(a) \in Nat /\ 3 <= Len(a) /\ Len(a) <= 255
    <3> DEFINE x == Len(d)
               y == Len(a)
    <3>1. x \in 1..253 /\ y = 2 + x
      BY <2>2, <2>5
    <3> HIDE DEF x, y
    <3>2. y \in Nat /\ 3 <= y /\ y <= 255
      BY ONLY <3>1
    <3> QED
      BY <3>2 DEF y
  <2>8. a[1] \in {Live, Negative} /\ (a[1] = Live => a[2] \in PIDs)
    BY <2>5
  <2> HIDE DEF s
  <2> QED
    BY ONLY <2>5, <2>6, <2>7, <2>8
<1>3. a = <<Negative, 1, 18>> \/ \E p \in PIDs, d \in Data : a = LiveAnswer(p, d)
  BY DEF Answer
<1> QED
  BY <1>1, <1>2, <1>3

\* An answer behind its length.
LEMMA FramedType ==
  ASSUME NEW a \in Answer
  PROVE  /\ Framed(a) \in Seq(Byte) /\ Len(Framed(a)) = Len(a) + 1 /\ Framed(a)[1] = Len(a)
         /\ \A j \in 1..Len(a) : Framed(a)[j + 1] = a[j]
<1>1. a \in Seq(Byte) /\ Len(a) \in Nat /\ 3 <= Len(a) /\ Len(a) <= 255
  BY AnswerType
<1> DEFINE s == <<Len(a)>>
<1>2. s \in Seq(Byte)
  <2>1. Len(a) \in Byte
    BY <1>1, ByteType
  <2> QED
    BY <2>1
<1>6. Len(s) = 1 /\ s[1] = Len(a)
  OBVIOUS
<1> HIDE DEF s
<1>3. Framed(a) = s \o a
  BY DEF Framed, s
<1>4. /\ s \o a \in Seq(Byte) /\ Len(s \o a) = Len(s) + Len(a)
      /\ \A j \in 1..Len(s) : (s \o a)[j] = s[j]
      /\ \A j \in 1..Len(a) : (s \o a)[Len(s) + j] = a[j]
  BY <1>1, <1>2, Concat
<1>5. \A j \in 1..Len(a) : j + 1 = Len(s) + j
  BY <1>1, <1>6
<1> QED
  BY <1>1, <1>3, <1>4, <1>5, <1>6

\* What a report holds of an answer is never empty.
LEMMA KeptType ==
  ASSUME NEW k, answers[k] \in Answer
  PROVE  Kept(k) \in Seq(Byte) /\ Len(Kept(k)) \in Nat \ {0}
<1>1. /\ answers[k] \in Seq(Byte) /\ Len(answers[k]) \in Nat /\ 3 <= Len(answers[k])
      /\ Len(answers[k]) <= 255
  BY AnswerType
<1> QED
  BY <1>1, FramedType DEF Kept

\* A frame has eight bytes; the first ones are those given.
LEMMA PadType ==
  ASSUME NEW s \in Seq(Byte), Len(s) <= 8
  PROVE  /\ Pad(s) \in Seq(Byte) /\ Len(Pad(s)) = 8
         /\ \A j \in 1..Len(s) : Pad(s)[j] = s[j]
<1> DEFINE t == [k \in 1..8 - Len(s) |-> Padding]
<1>1. Len(s) \in Nat /\ 8 - Len(s) \in Nat
  BY LenProperties
<1>2. t \in Seq(Byte) /\ Len(t) = 8 - Len(s)
  BY <1>1, IsASeq DEF Padding, Byte
<1> HIDE DEF t
<1>3. Pad(s) = s \o t
  BY DEF Pad, t
<1> QED
  BY <1>1, <1>2, <1>3, Concat

\* A part of m elements of a sequence, by index.
LEMMA Slice ==
  ASSUME NEW S, NEW s \in Seq(S), NEW first \in Nat, NEW last \in Nat, NEW m \in Nat,
         1 <= first, last <= Len(s), first + m = last + 1
  PROVE  /\ SubSeq(s, first, last) \in Seq(S) /\ Len(SubSeq(s, first, last)) = m
         /\ \A j \in 1..m : SubSeq(s, first, last)[j] = s[first + j - 1]
<1>1. Len(s) \in Nat
  BY LenProperties
<1>2. \A j \in first..last : s[j] \in S
  BY <1>1, ElementOfSeq
<1> QED
  BY <1>2, SubSeqProperties

\* A short answer is one frame, which is neither a first nor a consecutive one and
\* whose bytes up to the announced length are the framed answer.
LEMMA SingleFrame ==
  ASSUME NEW a \in Answer, Len(a) <= 7
  PROVE  /\ Len(FramesOf(a)) = 1 /\ FramesOf(a) \in Seq(Seq(Byte))
         /\ ~FirstFrame(FramesOf(a)[1]) /\ ~ConsecutiveFrame(FramesOf(a)[1])
         /\ SubSeq(FramesOf(a)[1], 1, FramesOf(a)[1][1] + 1) = Framed(a)
<1> DEFINE f == Pad(Framed(a))
<1>1. a \in Seq(Byte) /\ Len(a) \in Nat /\ 3 <= Len(a) /\ Len(a) <= 7
  <2>1. a \in Seq(Byte) /\ Len(a) \in Nat /\ 3 <= Len(a) /\ Len(a) <= 255
    BY AnswerType
  <2> QED
    BY <2>1
<1>2. FramesOf(a) = <<f>>
  BY DEF FramesOf, Framed
<1>3. /\ f \in Seq(Byte) /\ Len(f) = 8
      /\ \A j \in 1..Len(a) + 1 : f[j] = Framed(a)[j]
  BY <1>1, FramedType, PadType
<1>4. f[1] = Len(a)
  BY <1>1, <1>3, FramedType
<1> HIDE DEF f
<1>5. ~Bit(f[1], 16) /\ ~Bit(f[1], 32)
  BY <1>1, <1>4 DEF Bit
<1>6. SubSeq(f, 1, f[1] + 1) = Framed(a)
  <2>1. /\ SubSeq(f, 1, Len(a) + 1) \in Seq(Byte) /\ Len(SubSeq(f, 1, Len(a) + 1)) = Len(a) + 1
        /\ \A j \in 1..Len(a) + 1 : SubSeq(f, 1, Len(a) + 1)[j] = f[j]
    <3>1. Len(a) + 1 \in Nat /\ Len(a) + 1 <= Len(f) /\ 1 + (Len(a) + 1) = (Len(a) + 1) + 1
      BY <1>1, <1>3
    <3>2. f \in Seq(Byte)
      BY <1>3
    <3>3. /\ SubSeq(f, 1, Len(a) + 1) \in Seq(Byte)
          /\ Len(SubSeq(f, 1, Len(a) + 1)) = Len(a) + 1
          /\ \A j \in 1..Len(a) + 1 : SubSeq(f, 1, Len(a) + 1)[j] = f[1 + j - 1]
      BY <3>1, <3>2, Slice
    <3>4. \A j \in 1..Len(a) + 1 : 1 + j - 1 = j
      BY <1>1
    <3> QED
      BY <3>3, <3>4
  <2> QED
    BY <1>1, <1>3, <1>4, <2>1, FramedType, SeqEqual
<1>7. <<f>> \in Seq(Seq(Byte)) /\ Len(<<f>>) = 1 /\ <<f>>[1] = f
  BY <1>3
<1> QED
  BY <1>2, <1>5, <1>6, <1>7 DEF FirstFrame, ConsecutiveFrame

\* A consecutive frame holds the next bytes of the answer, behind a byte with its number.
LEMMA NextPart ==
  ASSUME NEW a \in Answer, NEW k \in Nat, 1 <= k, NEW last \in Nat, last <= Len(a),
         7 * k <= last + 1, last <= 7 * k + 6,
         NEW f, f = Pad(<<32 + (k % 16)>> \o SubSeq(a, 7 * k, last))
  PROVE  /\ f \in Seq(Byte) /\ Len(f) = 8 /\ ConsecutiveFrame(f)
         /\ \A j \in 1..last - 7 * k + 1 : f[j + 1] = a[7 * k + j - 1]
<1> DEFINE s == <<32 + (k % 16)>>
           t == SubSeq(a, 7 * k, last)
           m == last - 7 * k + 1
<1>1. a \in Seq(Byte) /\ m \in Nat /\ m <= 7 /\ 7 * k \in Nat /\ 1 <= 7 * k /\ 7 * k + m = last + 1
  BY AnswerType
<1>2. t \in Seq(Byte)
  <2> HIDE DEF m
  <2> QED
    BY <1>1, Slice
<1>12. Len(t) = m /\ \A j \in 1..m : t[j] = a[7 * k + j - 1]
  <2> HIDE DEF m
  <2> QED
    BY <1>1, Slice
<1>3. s \in Seq(Byte)
  <2>1. 32 + (k % 16) \in Nat /\ 32 + (k % 16) <= 255
    OBVIOUS
  <2> QED
    BY <2>1, ByteType
<1>4. Len(s) = 1 /\ s[1] = 32 + (k % 16)
  OBVIOUS
<1> HIDE DEF s, t, m
<1>5. /\ s \o t \in Seq(Byte) /\ Len(s \o t) = Len(s) + Len(t)
      /\ \A j \in 1..Len(s) : (s \o t)[j] = s[j]
      /\ \A j \in 1..Len(t) : (s \o t)[Len(s) + j] = t[j]
  BY <1>2, <1>3, Concat
<1>6. f = Pad(s \o t)
  BY DEF s, t
<1>7. Len(s \o t) = 1 + m /\ Len(s \o t) <= 8
  BY <1>1, <1>4, <1>5, <1>12
<1>8. /\ f \in Seq(Byte) /\ Len(f) = 8
      /\ \A j \in 1..Len(s \o t) : f[j] = (s \o t)[j]
  <2>1. s \o t \in Seq(Byte) /\ Len(s \o t) <= 8
    BY <1>5, <1>7
  <2>2. /\ Pad(s \o t) \in Seq(Byte) /\ Len(Pad(s \o t)) = 8
        /\ \A j \in 1..Len(s \o t) : Pad(s \o t)[j] = (s \o t)[j]
    BY <2>1, PadType
  <2> QED
    BY <1>6, <2>2
<1>9. f[1] = 32 + (k % 16)
  <2>1. 1 \in 1..Len(s \o t) /\ 1 \in 1..Len(s)
    BY <1>1, <1>4, <1>7
  <2> QED
    BY <1>4, <1>5, <1>8, <2>1
<1>10. ConsecutiveFrame(f)
  <2>1. k % 16 \in 0..15
    OBVIOUS
  <2>2. ~Bit(f[1], 16) /\ Bit(f[1], 32)
    BY <1>9, <2>1 DEF Bit
  <2> QED
    BY <2>2 DEF ConsecutiveFrame, FirstFrame
<1>11. ASSUME NEW j \in 1..m PROVE f[j + 1] = a[7 * k + j - 1]
  <2>1. j \in 1..Len(t) /\ j + 1 = Len(s) + j /\ j + 1 \in 1..Len(s \o t)
    BY <1>1, <1>4, <1>7, <1>12
  <2>2. f[j + 1] = (s \o t)[j + 1] /\ (s \o t)[Len(s) + j] = t[j]
    BY <1>5, <1>8, <2>1
  <2> QED
    BY <1>12, <2>1, <2>2
<1> QED
  BY <1>8, <1>10, <1>11 DEF m

\* The frames of a long answer: how many there are, and what the tracker keeps of each.
LEMMA LongFrames ==
  ASSUME NEW a \in Answer, Len(a) > 7
  PROVE  \E count \in Nat :
           /\ 1 <= count /\ Len(a) <= 7 * count + 6 /\ 7 * count <= Len(a)
           /\ FramesOf(a) \in Seq(Seq(Byte)) /\ Len(FramesOf(a)) = count + 1
           /\ FirstFrame(FramesOf(a)[1]) /\ FramesOf(a)[1][2] = Len(a)
           /\ Len(FramesOf(a)[1]) = 8 /\ \A j \in 1..6 : FramesOf(a)[1][j + 2] = a[j]
           /\ \A k \in 1..count :
                /\ ConsecutiveFrame(FramesOf(a)[k + 1]) /\ Len(FramesOf(a)[k + 1]) = 8
                /\ \A j \in 1..7 : 7 * k + j - 1 <= Len(a)
                      => FramesOf(a)[k + 1][j + 1] = a[7 * k + j - 1]
<1> DEFINE count == (Len(a) - 6 + 6) \div 7
           f == <<16, Len(a)>> \o SubSeq(a, 1, 6)
           part(k) == Pad(<<32 + (k % 16)>> \o SubSeq(a, 7 * k, IF k = count THEN Len(a) ELSE 7 * k + 6))
           rest == [k \in 1..count |-> part(k)]
<1>1. a \in Seq(Byte) /\ Len(a) \in Nat /\ 8 <= Len(a) /\ Len(a) <= 255
  BY AnswerType
<1>2. count \in Nat /\ 1 <= count /\ Len(a) <= 7 * count + 6 /\ 7 * count <= Len(a)
  BY <1>1
<1>3. FramesOf(a) = <<f>> \o rest
  BY <1>1 DEF FramesOf
<1>4. /\ f \in Seq(Byte) /\ Len(f) = 8 /\ f[1] = 16 /\ f[2] = Len(a)
      /\ \A j \in 1..6 : f[j + 2] = a[j]
  <2> DEFINE s == <<16, Len(a)>>
             t == SubSeq(a, 1, 6)
  <2>1. s \in Seq(Byte)
    <3>1. 16 \in Byte /\ Len(a) \in Byte
      BY <1>1, ByteType
    <3> QED
      BY <3>1
  <2>2. Len(s) = 2 /\ s[1] = 16 /\ s[2] = Len(a)
    OBVIOUS
  <2>0. 6 \in Nat /\ 1 \in Nat /\ 1 <= 1 /\ 6 <= Len(a) /\ 1 + 6 = 6 + 1
    BY <1>1
  <2>3. t \in Seq(Byte)
    BY <1>1, <2>0, Slice
  <2>8. Len(t) = 6 /\ \A j \in 1..6 : t[j] = a[1 + j - 1]
    BY <1>1, <2>0, Slice
  <2> HIDE DEF s, t
  <2>4. /\ s \o t \in Seq(Byte) /\ Len(s \o t) = Len(s) + Len(t)
        /\ \A j \in 1..Len(s) : (s \o t)[j] = s[j]
        /\ \A j \in 1..Len(t) : (s \o t)[Len(s) + j] = t[j]
    BY <2>1, <2>3, Concat
  <2>5. f = s \o t
    BY DEF s, t
  <2> HIDE DEF f
  <2>6. 1 \in 1..Len(s) /\ 2 \in 1..Len(s)
    BY <2>2
  <2>7. ASSUME NEW j \in 1..6 PROVE f[j + 2] = a[j]
    <3>1. j \in 1..Len(t) /\ j + 2 = Len(s) + j /\ 1 + j - 1 = j
      BY <2>2, <2>8
    <3> QED
      BY <2>4, <2>5, <2>8, <3>1
  <2> QED
    <3>1. f \in Seq(Byte) /\ Len(f) = 8
      BY <2>2, <2>4, <2>5, <2>8
    <3>2. f[1] = 16 /\ f[2] = Len(a)
      BY <2>2, <2>4, <2>5, <2>6
    <3> QED
      BY <3>1, <3>2, <2>7
<1>5. ASSUME NEW k \in 1..count
      PROVE  /\ part(k) \in Seq(Byte) /\ Len(part(k)) = 8 /\ ConsecutiveFrame(part(k))
             /\ \A j \in 1..7 : 7 * k + j - 1 <= Len(a) => part(k)[j + 1] = a[7 * k + j - 1]
  <2> DEFINE last == IF k = count THEN Len(a) ELSE 7 * k + 6
  <2>1. k \in Nat /\ 1 <= k /\ k <= count
    BY <1>2
  <2>2. /\ last \in Nat /\ last <= Len(a) /\ 7 * k <= last + 1 /\ last <= 7 * k + 6
        /\ last = Len(a) \/ last = 7 * k + 6
    <3> HIDE DEF count
    <3> QED
      BY <1>1, <1>2, <2>1
  <2>3. part(k) = Pad(<<32 + (k % 16)>> \o SubSeq(a, 7 * k, last))
    OBVIOUS
  <2> HIDE DEF part, last, count
  <2>4. /\ part(k) \in Seq(Byte) /\ Len(part(k)) = 8 /\ ConsecutiveFrame(part(k))
        /\ \A j \in 1..last - 7 * k + 1 : part(k)[j + 1] = a[7 * k + j - 1]
    BY <2>1, <2>2, <2>3, NextPart
  <2>5. ASSUME NEW j \in 1..7, 7 * k + j - 1 <= Len(a) PROVE j \in 1..last - 7 * k + 1
    BY <1>1, <2>1, <2>2, <2>5
  <2> QED
    BY <2>4, <2>5
<1> HIDE DEF f, part, count
<1>6. rest \in Seq(Seq(Byte))
  BY <1>2, <1>5, IsASeq
<1>15. Len(rest) = count /\ \A k \in 1..count : rest[k] = part(k)
  BY <1>2
<1>7. <<f>> \in Seq(Seq(Byte)) /\ Len(<<f>>) = 1 /\ <<f>>[1] = f
  BY <1>4
<1> DEFINE h == <<f>>
<1>8. h \in Seq(Seq(Byte))
  BY <1>7
<1>9. Len(h) = 1 /\ h[1] = f
  BY <1>7
<1> HIDE DEF rest, h
<1>10. /\ h \o rest \in Seq(Seq(Byte)) /\ Len(h \o rest) = Len(h) + Len(rest)
       /\ \A j \in 1..Len(h) : (h \o rest)[j] = h[j]
       /\ \A j \in 1..Len(rest) : (h \o rest)[Len(h) + j] = rest[j]
  BY <1>6, <1>8, Concat
<1>11. FramesOf(a) = h \o rest
  BY <1>3 DEF h
<1>12. /\ FramesOf(a) \in Seq(Seq(Byte)) /\ Len(FramesOf(a)) = count + 1 /\ FramesOf(a)[1] = f
  <2>1. 1 \in 1..Len(h)
    BY <1>9
  <2> QED
    BY <1>2, <1>9, <1>10, <1>11, <1>15, <2>1
<1>13. ASSUME NEW k \in 1..count PROVE FramesOf(a)[k + 1] = part(k)
  <2>1. k \in 1..Len(rest) /\ k + 1 = Len(h) + k
    BY <1>2, <1>9, <1>15
  <2> QED
    BY <1>10, <1>11, <1>15, <2>1
<1>14. FirstFrame(f)
  BY <1>4 DEF FirstFrame, Bit
<1> QED
  BY <1>2, <1>4, <1>5, <1>12, <1>13, <1>14

\* An answer has at least one frame, and more than one only if it is long.
LEMMA FramesType ==
  ASSUME NEW a \in Answer
  PROVE  /\ FramesOf(a) \in Seq(Seq(Byte)) /\ Len(FramesOf(a)) \in Nat \ {0}
         /\ Len(FramesOf(a)) > 1 <=> Len(a) > 7
<1>3. Len(a) \in Nat
  BY AnswerType
<1>1. CASE Len(a) <= 7
  <2>1. FramesOf(a) \in Seq(Seq(Byte)) /\ Len(FramesOf(a)) = 1
    BY <1>1, SingleFrame
  <2> QED
    BY <1>1, <1>3, <2>1
<1>2. CASE Len(a) > 7
  <2>1. PICK count \in Nat : /\ 1 <= count /\ FramesOf(a) \in Seq(Seq(Byte))
                             /\ Len(FramesOf(a)) = count + 1
    BY <1>2, LongFrames
  <2> QED
    BY <1>2, <2>1
<1> QED
  BY <1>1, <1>2, <1>3

-----------------------------------------------------------------------------
(* What the tracker appends. *)

\* Bytes that were in the report stay where they are.
LEMMA StillLies ==
  ASSUME NEW d \in Seq(Byte), NEW t \in Seq(Byte), NEW s \in Seq(Byte), NEW o \in Nat,
         LiesAt(s, d, o)
  PROVE  LiesAt(s, d \o t, o)
<1>1. Len(s) \in Nat /\ Len(d) \in Nat /\ Len(t) \in Nat /\ o + Len(s) <= Len(d)
  BY LenProperties DEF LiesAt
<1>2. Len(d \o t) = Len(d) + Len(t) /\ \A j \in 1..Len(d) : (d \o t)[j] = d[j]
  BY Concat
<1>3. \A j \in 1..Len(s) : o + j \in 1..Len(d)
  BY <1>1
<1> QED
  BY <1>1, <1>2, <1>3 DEF LiesAt

\* Bytes behind data that ends with the first t bytes of an answer.
LEMMA Appended ==
  ASSUME NEW d \in Seq(Byte), NEW bytes \in Seq(Byte), NEW o \in Nat, NEW t \in Nat, NEW a
  PROVE  EndsWith(d, o, a, t) /\ PartOf(bytes, a, t) => EndsWith(d \o bytes, o, a, t + Len(bytes))
<1>1. /\ Len(d) \in Nat /\ Len(bytes) \in Nat
      /\ Len(d \o bytes) = Len(d) + Len(bytes)
      /\ \A j \in 1..Len(d) : (d \o bytes)[j] = d[j]
      /\ \A j \in 1..Len(bytes) : (d \o bytes)[Len(d) + j] = bytes[j]
  BY Concat
<1> DEFINE e == d \o bytes
<1> HIDE DEF e
<1> SUFFICES ASSUME Len(d) = o + t,
                    \A j \in 1..t : d[o + j] = a[j],
                    \A j \in 1..Len(bytes) : bytes[j] = a[t + j]
             PROVE  /\ Len(e) = o + t + Len(bytes)
                    /\ \A j \in 1..t + Len(bytes) : e[o + j] = a[j]
  BY <1>1 DEF e, EndsWith, PartOf
<1>2. /\ Len(e) = Len(d) + Len(bytes)
      /\ \A j \in 1..Len(d) : e[j] = d[j]
      /\ \A j \in 1..Len(bytes) : e[Len(d) + j] = bytes[j]
  BY <1>1 DEF e
<1>3. ASSUME NEW j \in 1..t + Len(bytes) PROVE e[o + j] = a[j]
  <2>1. CASE j <= t
    <3>1. o + j \in 1..Len(d) /\ j \in 1..t
      BY <1>1, <2>1
    <3> QED
      BY <1>2, <3>1
  <2>2. CASE ~(j <= t)
    <3>1. j - t \in 1..Len(bytes) /\ Len(d) + (j - t) = o + j /\ t + (j - t) = j
      BY <1>1, <2>2
    <3> QED
      BY <1>2, <3>1
  <2> QED
    BY <2>1, <2>2
<1> QED
  BY <1>1, <1>2, <1>3

\* A long answer's k-th consecutive frame, by the number of bytes the tracker takes of it.
LEMMA TakenPart ==
  ASSUME NEW f \in Seq(Byte), NEW a, NEW t \in Nat, NEW x \in Nat, x + 1 <= Len(f),
         \A j \in 1..x : f[j + 1] = a[t + j]
  PROVE  /\ SubSeq(f, 2, x + 1) \in Seq(Byte) /\ Len(SubSeq(f, 2, x + 1)) = x
         /\ PartOf(SubSeq(f, 2, x + 1), a, t)
<1> DEFINE last == x + 1
<1>1. /\ last \in Nat /\ 2 \in Nat /\ 1 <= 2 /\ last <= Len(f) /\ 2 + x = last + 1
      /\ \A j \in 1..x : 2 + j - 1 = j + 1
  OBVIOUS
<1> HIDE DEF last
<1>2. /\ SubSeq(f, 2, last) \in Seq(Byte) /\ Len(SubSeq(f, 2, last)) = x
      /\ \A j \in 1..x : SubSeq(f, 2, last)[j] = f[2 + j - 1]
  BY <1>1, Slice
<1> QED
  BY <1>1, <1>2 DEF last, PartOf

\* An answer by its number.
LEMMA AnswerK ==
  ASSUME CarInv, CountInv, NEW k \in 1..Len(answers)
  PROVE  /\ k \in Nat /\ Len(answers) \in Nat /\ answers[k] \in Answer /\ asked[k] \in Int
         /\ taken[k] \in Nat /\ Len(begins) \in Nat /\ DOMAIN answers = 1..Len(answers)
         /\ FramesOf(answers[k]) \in Seq(Seq(Byte)) /\ Len(FramesOf(answers[k])) \in Nat \ {0}
         /\ Len(FramesOf(answers[k])) > 1 <=> Multi(k)
         /\ taken[k] <= Len(FramesOf(answers[k])) /\ currentPID \in Int
<1>1. /\ Len(answers) \in Nat /\ Len(begins) \in Nat /\ DOMAIN answers = 1..Len(answers)
      /\ answers[k] \in Answer
  BY LenProperties, ElementOfSeq DEF CarInv, CountInv
<1>2. \A p \in PIDs : p \in Int
  BY ObdReportAssumption
<1>5. asked[k] \in PIDs /\ currentPID \in PIDs \union {-1}
  BY DEF CarInv, CountInv
<1>3. /\ asked[k] \in Int /\ currentPID \in Int /\ taken[k] \in Nat
      /\ taken[k] <= Len(FramesOf(answers[k]))
  <2>1. taken[k] \in Nat /\ taken[k] <= Len(FramesOf(answers[k]))
    BY DEF CountInv
  <2>2. asked[k] \in Int
    BY ONLY <1>2, <1>5
  <2>3. currentPID \in Int
    BY ONLY <1>2, <1>5
  <2> QED
    BY <2>1, <2>2, <2>3
<1>4. /\ FramesOf(answers[k]) \in Seq(Seq(Byte)) /\ Len(FramesOf(answers[k])) \in Nat \ {0}
      /\ Len(FramesOf(answers[k])) > 1 <=> Len(answers[k]) > 7
  BY <1>1, FramesType
<1> QED
  BY <1>1, <1>3, <1>4 DEF Multi

\* An undisturbed answer whose next frame comes is the one begun last, or begins now.
LEMMA ComesLast ==
  ASSUME CarInv, CountInv, NEW k \in 1..Len(answers), Comes(k), NEW j \in 1..Len(begins),
         Undisturbed(j), j = Len(begins) \/ j = k, taken[k] # 0
  PROVE  j = k /\ k = Len(begins)
<1> DEFINE L == Len(begins)
<1>1. /\ L \in 1..Len(answers) /\ L \in Nat /\ k \in Nat /\ Len(answers) \in Nat
      /\ DOMAIN answers = 1..Len(answers)
  <2>1. L \in Nat /\ L <= Len(answers) /\ Len(answers) \in Nat /\ k \in Nat
    BY AnswerK DEF CountInv
  <2> QED
    BY <2>1, AnswerK
<1>2. k <= L /\ Multi(k) /\ asked[k] = currentPID
  <2>1. taken[k] < Len(FramesOf(answers[k])) /\ taken[k] > 0 /\ Len(FramesOf(answers[k])) \in Nat
        /\ taken[k] \in Nat
    BY AnswerK DEF Comes
  <2>2. Len(FramesOf(answers[k])) > 1
    BY <2>1
  <2> QED
    BY <2>1, <2>2, AnswerK DEF Comes, CountInv
<1>3. CASE k = L
  BY <1>1, <1>3
<1>4. CASE k # L
  <2>1. asked[L] = asked[k]
    <3>1. asked[k] <= asked[L] /\ asked[L] <= currentPID
      BY <1>1, <1>2, <1>4 DEF CarInv, CountInv
    <3>2. asked[k] \in Int /\ asked[L] \in Int /\ currentPID \in Int
      BY <1>1, AnswerK
    <3> QED
      BY <1>2, <3>1, <3>2
  <2>2. k < L
    BY <1>1, <1>2, <1>4
  <2> QED
    BY <1>1, <1>2, <1>4, <2>1, <2>2 DEF Undisturbed
<1> QED
  BY <1>3, <1>4

\* A frame of answer k counts.
LEMMA TakeCounts ==
  ASSUME CarInv, CountInv, BytesInv, NEW k \in 1..Len(answers), Comes(k), NEW bytes, Take(k, bytes)
  PROVE  /\ CarInv' /\ CountInv' /\ taken'[k] = taken[k] + 1 /\ answers' = answers /\ asked' = asked
         /\ taken[k] = 0 => /\ Len(begins') = Len(begins) + 1 /\ k = Len(begins')
                            /\ begins'[k] = Len(vehicle_data)
         /\ taken[k] # 0 => begins' = begins
         /\ \A j \in 1..Len(begins) : begins'[j] = begins[j]
         /\ begins' # <<>>
         /\ \A j \in 1..Len(answers) : j # k => taken'[j] = taken[j]
         /\ \A j : (Undisturbed(j)' <=> Undisturbed(j)) /\ Kept(j)' = Kept(j) /\ (Multi(j)' <=> Multi(j))
<1>1. /\ answers' = answers /\ asked' = asked /\ currentPID' = currentPID
      /\ taken' = [taken EXCEPT ![k] = @ + 1]
      /\ begins' = IF taken[k] = 0 THEN Append(begins, Len(vehicle_data)) ELSE begins
  BY DEF Take, carVars
<1>2. /\ k \in Nat /\ Len(answers) \in Nat /\ taken[k] \in Nat /\ Len(begins) \in Nat
      /\ Len(FramesOf(answers[k])) \in Nat /\ taken[k] < Len(FramesOf(answers[k]))
      /\ asked[k] = currentPID
  BY AnswerK DEF Comes
<1>3. taken' \in [1..Len(answers) -> Nat] /\ taken'[k] = taken[k] + 1
      /\ \A j \in 1..Len(answers) : j # k => taken'[j] = taken[j]
  BY <1>1, <1>2 DEF CountInv
<1>4. Len(vehicle_data) \in Nat /\ begins \in Seq(Nat)
  BY LenProperties DEF BytesInv, CountInv
<1>5. /\ begins' \in Seq(Nat) /\ begins' # <<>> /\ Len(begins') \in Nat
      /\ \A j \in 1..Len(begins) : begins'[j] = begins[j]
      /\ taken[k] = 0 => Len(begins') = Len(begins) + 1 /\ k = Len(begins')
                         /\ begins'[k] = Len(vehicle_data)
      /\ taken[k] # 0 => begins' = begins
  <2>1. CASE taken[k] = 0
    <3>1. k = Len(begins) + 1
      BY <2>1 DEF Comes
    <3>2. begins' = Append(begins, Len(vehicle_data))
      BY <1>1, <2>1
    <3>3. /\ begins' \in Seq(Nat) /\ Len(begins') = Len(begins) + 1
          /\ \A j \in 1..Len(begins) : begins'[j] = begins[j]
          /\ begins'[Len(begins) + 1] = Len(vehicle_data)
      BY <1>4, <3>2, AppendProperties
    <3> QED
      BY <1>2, <2>1, <3>1, <3>3, EmptySeq
  <2>2. CASE taken[k] # 0
    <3>1. k <= Len(begins)
      BY <1>2, <2>2 DEF CountInv
    <3> QED
      BY <1>1, <1>2, <1>4, <2>2, <3>1, EmptySeq
  <2> QED
    BY <2>1, <2>2
<1>6. Len(begins') <= Len(answers)
  BY <1>2, <1>5 DEF CountInv
<1>7. ASSUME NEW j \in 1..Len(answers)
      PROVE  /\ taken'[j] <= Len(FramesOf(answers[j]))
             /\ taken'[j] > 0 <=> j <= Len(begins')
             /\ j <= Len(begins') => asked[j] <= currentPID
             /\ asked[j] < currentPID => taken'[j] = Len(FramesOf(answers[j]))
  <2>1. CASE j = k
    <3>1. asked[k] \in Int /\ k <= Len(begins')
      <4>1. taken[k] # 0 => k <= Len(begins)
        BY <1>2 DEF CountInv
      <4> QED
        BY <1>2, <1>5, <4>1, AnswerK
    <3> QED
      BY <1>2, <1>3, <1>5, <2>1, <3>1
  <2>2. CASE j # k
    <3>1. /\ taken'[j] = taken[j] /\ taken[j] <= Len(FramesOf(answers[j]))
          /\ taken[j] > 0 <=> j <= Len(begins)
          /\ j <= Len(begins) => asked[j] <= currentPID
          /\ asked[j] < currentPID => taken[j] = Len(FramesOf(answers[j]))
      BY <1>3, <2>2 DEF CountInv, Done
    <3>2. j <= Len(begins') <=> j <= Len(begins)
      BY <1>2, <1>5, <2>2
    <3> QED
      BY <3>1, <3>2
  <2> QED
    BY <2>1, <2>2
<1>8. CountInv'
  BY <1>1, <1>3, <1>5, <1>6, <1>7 DEF CountInv, Done
<1>9. CarInv'
  BY <1>1 DEF CarInv
<1>10. \A j : (Undisturbed(j)' <=> Undisturbed(j)) /\ Kept(j)' = Kept(j) /\ (Multi(j)' <=> Multi(j))
  BY <1>1 DEF Undisturbed, Kept, Multi
<1> QED
  BY <1>1, <1>3, <1>5, <1>8, <1>9, <1>10

\* When the next answer begins, an undisturbed one before it is complete.
LEMMA BeginsBehind ==
  ASSUME CarInv, CountInv, NEW k \in 1..Len(answers), Comes(k), taken[k] = 0,
         NEW j \in 1..Len(begins), j = Len(begins), Undisturbed(j)
  PROVE  Done(j)
<1>1. /\ j \in 1..Len(answers) /\ k = j + 1 /\ j \in Nat /\ asked[k] = currentPID
      /\ asked[j] <= currentPID
      /\ DOMAIN answers = 1..Len(answers)
  <2>1. Len(begins) \in Nat /\ Len(begins) <= Len(answers) /\ Len(answers) \in Nat
    BY AnswerK DEF CountInv
  <2>2. j \in 1..Len(answers) /\ j \in Nat
    BY <2>1
  <2> QED
    BY <2>2, AnswerK DEF Comes, CountInv
<1>2. CASE asked[j] < currentPID
  BY <1>1, <1>2 DEF CountInv
<1>3. CASE ~(asked[j] < currentPID)
  <2>1. asked[k] = asked[j] /\ k # j /\ ~(k < j)
    <3>1. asked[j] \in Int /\ currentPID \in Int
      BY <1>1, AnswerK
    <3> QED
      BY <1>1, <1>3, <3>1
  <2>2. ~Multi(j)
    BY <1>1, <2>1 DEF Undisturbed
  <2>3. /\ Len(FramesOf(answers[j])) = 1 /\ taken[j] \in Nat /\ taken[j] <= 1 /\ taken[j] > 0
    <3>1. /\ Len(FramesOf(answers[j])) \in Nat \ {0} /\ ~(Len(FramesOf(answers[j])) > 1)
          /\ taken[j] \in Nat /\ taken[j] <= Len(FramesOf(answers[j]))
      BY <1>1, <2>2, AnswerK
    <3>2. taken[j] > 0
      BY <1>1 DEF CountInv
    <3> DEFINE x == Len(FramesOf(answers[j]))
               y == taken[j]
    <3> HIDE DEF x, y
    <3>3. x \in Nat \ {0} /\ ~(x > 1) /\ y \in Nat /\ y <= x /\ y > 0
      BY <3>1, <3>2 DEF x, y
    <3>4. x = 1 /\ y \in Nat /\ y <= 1 /\ y > 0
      BY ONLY <3>3
    <3> QED
      BY <3>4 DEF x, y
  <2> QED
    BY <2>3 DEF Done
<1> QED
  BY <1>2, <1>3

\* A frame whose bytes continue its answer keeps the report in order.
LEMMA TakeKeeps ==
  ASSUME SweepInv, NEW k \in 1..Len(answers), Comes(k), NEW bytes \in Seq(Byte), Take(k, bytes),
         MFL' \in Nat,
         Undisturbed(k) /\ (taken[k] # 0 => Present(k)) =>
            /\ PartOf(bytes, Kept(k), Part(k)) /\ Part(k)' = Part(k) + Len(bytes)
            /\ Multi(k) /\ ~Done(k)' => MFL' = Len(answers[k]) - Part(k)',
         Part(k) \in Nat, taken[k] = 0 => Part(k) = 0
  PROVE  SweepInv'
<1>0. CarInv /\ CountInv /\ BytesInv
  BY DEF SweepInv
<1>1. /\ CarInv' /\ CountInv' /\ answers' = answers
      /\ taken[k] = 0 => /\ Len(begins') = Len(begins) + 1 /\ k = Len(begins')
                         /\ begins'[k] = Len(vehicle_data)
      /\ taken[k] # 0 => begins' = begins
      /\ \A j \in 1..Len(begins) : begins'[j] = begins[j]
      /\ begins' # <<>>
      /\ \A j : (Undisturbed(j)' <=> Undisturbed(j)) /\ Kept(j)' = Kept(j) /\ (Multi(j)' <=> Multi(j))
  BY <1>0, TakeCounts
<1>2. /\ vehicle_data \in Seq(Byte) /\ vehicle_data' = vehicle_data \o bytes
      /\ vehicle_data' \in Seq(Byte) /\ Len(vehicle_data) \in Nat
  BY <1>0, Concat DEF BytesInv, Take
<1>3. /\ Len(begins) \in Nat /\ Len(begins') \in Nat /\ Len(answers) \in Nat /\ k \in Nat
      /\ begins \in Seq(Nat) /\ Len(begins) <= Len(answers)
  <2>1. Len(begins) \in Nat /\ Len(answers) \in Nat /\ k \in Nat /\ begins \in Seq(Nat)
        /\ Len(begins) <= Len(answers)
    BY <1>0, AnswerK DEF CountInv
  <2> QED
    BY <1>1, <2>1
<1>4. \A j \in 1..Len(begins) : begins[j] \in Nat /\ j \in 1..Len(answers) /\ answers[j] \in Answer
  <2> SUFFICES ASSUME NEW j \in 1..Len(begins)
               PROVE  begins[j] \in Nat /\ j \in 1..Len(answers) /\ answers[j] \in Answer
    OBVIOUS
  <2>1. j \in 1..Len(answers)
    BY <1>3
  <2> QED
    BY <1>0, <1>3, <2>1, AnswerK, ElementOfSeq
<1>5. begins'[1] = 0
  <2>1. CASE begins = <<>>
    <3>1. Len(begins) = 0 /\ Len(vehicle_data) = 0
      BY <1>0, <2>1 DEF BytesInv
    <3>2. taken[k] = 0
      BY <1>1, <2>1
    <3>3. k = Len(begins) + 1 /\ begins'[k] = Len(vehicle_data)
      BY <1>1, <3>2
    <3>4. k = 1
      BY <3>1, <3>3
    <3> QED
      BY <3>1, <3>3, <3>4
  <2>2. CASE begins # <<>>
    <3>1. begins[1] = 0 /\ 1 \in 1..Len(begins)
      BY <1>0, <1>3, <2>2, EmptySeq DEF BytesInv
    <3> QED
      BY <1>1, <3>1
  <2> QED
    BY <2>1, <2>2
<1>6. ASSUME NEW j \in 1..Len(begins'), Undisturbed(j), j # Len(begins')
      PROVE  Past(j)'
  <2>1. j \in 1..Len(begins) /\ j \in Nat
    BY <1>1, <1>3, <1>6
  <2>2. begins'[j + 1] = begins[j] + Len(Kept(j)) /\ LiesAt(Kept(j), vehicle_data, begins[j])
    <3>1. CASE j # Len(begins)
      <4>1. Past(j)
        BY <1>0, <1>6, <2>1, <3>1 DEF BytesInv
      <4>2. j + 1 \in 1..Len(begins)
        BY <1>3, <2>1, <3>1
      <4> QED
        BY <1>1, <4>1, <4>2 DEF Past
    <3>2. CASE j = Len(begins)
      <4>1. taken[k] = 0 /\ k = j + 1
        BY <1>1, <1>6, <3>2
      <4>2. Done(j)
        BY <1>0, <1>6, <2>1, <3>2, <4>1, BeginsBehind
      <4>3. EndsWith(vehicle_data, begins[j], Kept(j), Len(Kept(j)))
        BY <1>0, <1>6, <2>1, <3>2, <4>2 DEF BytesInv, Present, Part
      <4>4. begins[j] \in Nat /\ Len(Kept(j)) \in Nat
        BY <1>4, <2>1, KeptType
      <4> QED
        BY <1>1, <4>1, <4>3, <4>4 DEF EndsWith, LiesAt
    <3> QED
      BY <3>1, <3>2
  <2>3. Kept(j) \in Seq(Byte) /\ begins[j] \in Nat
    BY <1>4, <2>1, KeptType
  <2>4. LiesAt(Kept(j), vehicle_data', begins[j])
    BY <1>2, <2>2, <2>3, StillLies
  <2> QED
    BY <1>1, <2>1, <2>2, <2>4 DEF Past
<1>7. ASSUME NEW j \in 1..Len(begins'), Undisturbed(j), j = Len(begins')
      PROVE  Present(j)'
  <2>1. j = k /\ (taken[k] # 0 => Present(k) /\ begins'[k] = begins[k] /\ begins[k] \in Nat)
    <3>1. CASE taken[k] = 0
      BY <1>1, <1>7, <3>1
    <3>2. CASE taken[k] # 0
      <4>1. begins' = begins /\ j \in 1..Len(begins)
        BY <1>1, <3>2
      <4>2. j = k /\ k = Len(begins)
        BY <1>0, <1>7, <3>2, <4>1, ComesLast
      <4> QED
        BY <1>0, <1>4, <1>7, <4>1, <4>2 DEF BytesInv
    <3> QED
      BY <3>1, <3>2
  <2>2. /\ PartOf(bytes, Kept(k), Part(k)) /\ Part(k)' = Part(k) + Len(bytes)
        /\ Multi(k) /\ ~Done(k)' => MFL' = Len(answers[k]) - Part(k)'
    BY <1>7, <2>1
  <2>3. begins'[k] \in Nat /\ EndsWith(vehicle_data, begins'[k], Kept(k), Part(k))
    <3>1. CASE taken[k] = 0
      BY <1>1, <1>2, <3>1 DEF EndsWith
    <3>2. CASE taken[k] # 0
      BY <2>1, <3>2 DEF Present
    <3> QED
      BY <3>1, <3>2
  <2>4. EndsWith(vehicle_data', begins'[k], Kept(k), Part(k) + Len(bytes))
    BY <1>2, <2>2, <2>3, Appended
  <2> QED
    BY <1>1, <2>1, <2>2, <2>4 DEF Present
<1>8. BytesInv'
  BY <1>1, <1>2, <1>5, <1>6, <1>7 DEF BytesInv
<1> QED
  BY <1>1, <1>8 DEF SweepInv

\* How much of an answer has been kept before and after one more of its frames.
LEMMA PartAfter ==
  ASSUME CarInv, CountInv, BytesInv, NEW k \in 1..Len(answers), Comes(k), NEW bytes, Take(k, bytes)
  PROVE  /\ Part(k) = Taken(taken[k])
         /\ taken[k] + 1 = Len(FramesOf(answers[k])) => Done(k)' /\ Part(k)' = Len(Kept(k))
         /\ taken[k] + 1 # Len(FramesOf(answers[k])) => Part(k)' = Taken(taken[k] + 1)
<1>1. /\ taken'[k] = taken[k] + 1 /\ answers' = answers /\ Kept(k)' = Kept(k)
  BY TakeCounts
<1>2. taken[k] < Len(FramesOf(answers[k])) /\ taken[k] \in Nat /\ Len(FramesOf(answers[k])) \in Nat
  BY AnswerK DEF Comes
<1>3. ~Done(k)
  BY <1>2 DEF Done
<1>4. Done(k)' <=> taken[k] + 1 = Len(FramesOf(answers[k]))
  BY <1>1 DEF Done
<1>5. Part(k)' = IF Done(k)' THEN Len(Kept(k)) ELSE Taken(taken[k] + 1)
  BY <1>1 DEF Part, Taken
<1> QED
  BY <1>3, <1>4, <1>5 DEF Part

\* A first frame.
LEMMA FirstStep ==
  ASSUME SweepInv, AppendFirst
  PROVE  SweepInv'
<1>1. CarInv /\ CountInv /\ BytesInv /\ DOMAIN answers = 1..Len(answers)
  BY LenProperties DEF SweepInv, CarInv
<1>2. PICK k \in 1..Len(answers) : /\ Comes(k) /\ FirstFrame(FrameOf(k))
                                   /\ MFL' = FrameOf(k)[2] - 6
                                   /\ Take(k, SubSeq(FrameOf(k), 3, 8))
  BY <1>1 DEF AppendFirst
<1> PICK c \in Nat : c = taken[k]
  BY <1>1, AnswerK
<1> DEFINE a == answers[k]
           f == FramesOf(a)[1]
<1>3. FrameOf(k) = FramesOf(a)[c + 1]
  BY DEF FrameOf
<1>4. a \in Answer /\ c \in Nat /\ c + 1 <= Len(FramesOf(a)) /\ Len(FramesOf(a)) \in Nat
  <2>1. a \in Answer /\ c \in Nat /\ c < Len(FramesOf(a)) /\ Len(FramesOf(a)) \in Nat
    BY <1>1, <1>2, AnswerK DEF Comes
  <2> QED
    BY <2>1
<1>5. Len(a) \in Nat
  BY <1>4, AnswerType
<1>6. Len(a) > 7
  <2>1. CASE Len(a) <= 7
    <3>1. Len(FramesOf(a)) = 1 /\ ~FirstFrame(FramesOf(a)[1])
      BY <1>4, <2>1, SingleFrame
    <3>2. c + 1 = 1
      BY <1>4, <3>1
    <3> QED
      BY <1>2, <1>3, <3>1, <3>2
  <2> QED
    BY <1>5, <2>1
<1>7. PICK count \in Nat :
         /\ 1 <= count /\ FramesOf(a) \in Seq(Seq(Byte)) /\ Len(FramesOf(a)) = count + 1
         /\ f[2] = Len(a)
         /\ Len(f) = 8 /\ \A j \in 1..6 : f[j + 2] = a[j]
         /\ \A x \in 1..count : ConsecutiveFrame(FramesOf(a)[x + 1])
  BY <1>4, <1>6, LongFrames
<1>8. c = 0
  <2>1. CASE c # 0
    <3>1. c \in 1..count
      <4>1. c + 1 <= count + 1
        BY <1>4, <1>7
      <4> QED
        BY ONLY <2>1, <4>1, c \in Nat, count \in Nat
    <3> QED
      BY <1>2, <1>3, <1>7, <3>1 DEF ConsecutiveFrame
  <2> QED
    BY <2>1
<1>9. FrameOf(k) = f /\ Taken(c + 1) = 6 /\ Taken(c) = 0 /\ c + 1 # Len(FramesOf(a))
  BY <1>3, <1>7, <1>8 DEF Taken
<1>10. f \in Seq(Byte)
  <2>1. 1 \in 1..Len(FramesOf(a))
    BY <1>7
  <2> QED
    BY <1>7, <2>1, ElementOfSeq
<1> DEFINE bytes == SubSeq(f, 3, 8)
<1>11. bytes \in Seq(Byte) /\ Len(bytes) = 6 /\ \A j \in 1..6 : bytes[j] = f[3 + j - 1]
  <2>1. 3 \in Nat /\ 8 \in Nat /\ 6 \in Nat /\ 1 <= 3 /\ 8 <= Len(f) /\ 3 + 6 = 8 + 1
    BY <1>7
  <2> HIDE DEF f
  <2> QED
    BY <2>1, <1>10, Slice
<1>12. Take(k, bytes)
  BY <1>2, <1>9
<1>13. Part(k) = 0 /\ Part(k)' = 6
  BY <1>1, <1>2, <1>9, <1>12, PartAfter
<1>14. Kept(k) = a /\ PartOf(bytes, Kept(k), Part(k))
  <2>1. \A j \in 1..6 : 3 + j - 1 = j + 2 /\ 0 + j = j
    OBVIOUS
  <2>2. Kept(k) = a
    BY <1>6 DEF Kept, Multi
  <2> HIDE DEF bytes, f
  <2> QED
    BY <1>7, <1>11, <1>13, <2>1, <2>2 DEF PartOf
<1>15. MFL' \in Nat /\ MFL' = Len(a) - 6
  <2> DEFINE len == Len(a)
  <2>1. len \in Nat /\ len > 7 /\ MFL' = len - 6
    BY <1>2, <1>5, <1>6, <1>7, <1>9
  <2> HIDE DEF len
  <2>2. len - 6 \in Nat
    BY ONLY <2>1
  <2> QED
    BY <2>1, <2>2 DEF len
<1> HIDE DEF bytes, f, a
<1>16. /\ PartOf(bytes, Kept(k), Part(k)) /\ Part(k)' = Part(k) + Len(bytes)
       /\ Multi(k) /\ ~Done(k)' => MFL' = Len(answers[k]) - Part(k)'
       /\ Part(k) \in Nat
  BY <1>11, <1>13, <1>14, <1>15 DEF a
<1> QED
  BY <1>2, <1>11, <1>12, <1>13, <1>15, <1>16, TakeKeeps

\* A consecutive frame.
LEMMA ConsecutiveStep ==
  ASSUME SweepInv, AppendConsecutive
  PROVE  SweepInv'
<1> DEFINE get == IF MFL < 7 THEN MFL ELSE 7
<1>1. CarInv /\ CountInv /\ BytesInv /\ DOMAIN answers = 1..Len(answers)
  BY LenProperties DEF SweepInv, CarInv
<1>2. PICK k \in 1..Len(answers) : /\ Comes(k) /\ ConsecutiveFrame(FrameOf(k))
                                   /\ MFL' = MFL - get
                                   /\ Take(k, SubSeq(FrameOf(k), 2, get + 1))
  BY <1>1 DEF AppendConsecutive
<1> PICK c \in Nat : c = taken[k]
  BY <1>1, AnswerK
<1> DEFINE a == answers[k]
           f == FramesOf(a)[c + 1]
<1>3. FrameOf(k) = f
  BY DEF FrameOf
<1>4. a \in Answer /\ c \in Nat /\ c + 1 <= Len(FramesOf(a)) /\ Len(FramesOf(a)) \in Nat
  <2>1. a \in Answer /\ c \in Nat /\ c < Len(FramesOf(a)) /\ Len(FramesOf(a)) \in Nat
    BY <1>1, <1>2, AnswerK DEF Comes
  <2> QED
    BY <2>1
<1>5. Len(a) \in Nat
  BY <1>4, AnswerType
<1>6. Len(a) > 7
  <2>1. CASE Len(a) <= 7
    <3>1. Len(FramesOf(a)) = 1 /\ ~ConsecutiveFrame(FramesOf(a)[1])
      BY <1>4, <2>1, SingleFrame
    <3>2. c + 1 = 1
      BY <1>4, <3>1
    <3> QED
      BY <1>2, <1>3, <3>1, <3>2
  <2> QED
    BY <1>5, <2>1
<1>7. PICK count \in Nat :
         /\ 1 <= count /\ Len(a) <= 7 * count + 6 /\ 7 * count <= Len(a)
         /\ FramesOf(a) \in Seq(Seq(Byte)) /\ Len(FramesOf(a)) = count + 1
         /\ FirstFrame(FramesOf(a)[1])
         /\ \A x \in 1..count :
              /\ Len(FramesOf(a)[x + 1]) = 8
              /\ \A j \in 1..7 : 7 * x + j - 1 <= Len(a)
                    => FramesOf(a)[x + 1][j + 1] = a[7 * x + j - 1]
  BY <1>4, <1>6, LongFrames
<1>8. c \in 1..count
  <2>1. CASE c = 0
    <3>1. FrameOf(k) = FramesOf(a)[1]
      BY <1>3, <2>1
    <3> QED
      BY <1>2, <1>7, <3>1 DEF ConsecutiveFrame
  <2> QED
    BY <1>4, <1>7, <2>1
<1>9. Taken(c) = 7 * c - 1 /\ Taken(c) \in Nat /\ Taken(c + 1) = Taken(c) + 7
  BY <1>8 DEF Taken
<1>10. get \in Nat /\ get <= 7 /\ MFL' \in Nat
  <2>1. MFL \in Nat
    BY <1>1 DEF BytesInv
  <2> QED
    BY <1>2, <2>1
<1>11. f \in Seq(Byte) /\ Len(f) = 8
  <2>1. c + 1 \in 1..Len(FramesOf(a))
    BY <1>7, <1>8
  <2> QED
    BY <1>7, <1>8, <2>1, ElementOfSeq
<1> DEFINE bytes == SubSeq(f, 2, get + 1)
<1>12. bytes \in Seq(Byte) /\ Len(bytes) = get
  <2> DEFINE last == get + 1
  <2>1. /\ last \in Nat /\ last <= Len(f) /\ get \in Nat /\ 2 + get = last + 1
        /\ 2 \in Nat /\ 1 <= 2
    <3> HIDE DEF get, f
    <3> QED
      BY <1>10, <1>11
  <2> HIDE DEF last, f, get
  <2>2. SubSeq(f, 2, last) \in Seq(Byte) /\ Len(SubSeq(f, 2, last)) = get
    BY <1>11, <2>1, Slice
  <2> QED
    BY <2>2 DEF last
<1>13. Take(k, bytes)
  BY <1>2, <1>3
<1>14. /\ Part(k) = Taken(c) /\ Kept(k) = a
       /\ c = count => Done(k)' /\ Part(k)' = Len(a)
       /\ c # count => Part(k)' = Taken(c) + 7
  <2>1. Kept(k) = a
    BY <1>6 DEF Kept, Multi
  <2>2. c + 1 = Len(FramesOf(a)) <=> c = count
    <3>1. Len(FramesOf(a)) = count + 1
      BY <1>7
    <3> QED
      BY ONLY <3>1, c \in Nat, count \in Nat
  <2>3. /\ Part(k) = Taken(c)
        /\ c + 1 = Len(FramesOf(a)) => Done(k)' /\ Part(k)' = Len(Kept(k))
        /\ c + 1 # Len(FramesOf(a)) => Part(k)' = Taken(c + 1)
    BY <1>1, <1>2, <1>13, PartAfter
  <2> QED
    BY <1>9, <2>1, <2>2, <2>3
<1>15. ASSUME Present(k)
       PROVE  /\ PartOf(bytes, Kept(k), Part(k)) /\ Part(k)' = Part(k) + Len(bytes)
              /\ ~Done(k)' => MFL' = Len(a) - Part(k)'
  <2>1. MFL = Len(a) - Taken(c)
    <3>1. c + 1 <= Len(FramesOf(a)) /\ c # Len(FramesOf(a))
      BY <1>4
    <3> QED
      BY <1>6, <1>14, <1>15, <3>1 DEF Present, Multi, Done
  <2> DEFINE len == Len(a)
             t == Taken(c)
             g == get
  <2>2. /\ len <= 7 * count + 6 /\ 7 * count <= len /\ count \in Nat
        /\ len \in Nat /\ c \in Nat /\ 1 <= c /\ c <= count
        /\ MFL = len - t /\ t = 7 * c - 1 /\ g = IF MFL < 7 THEN MFL ELSE 7
    BY <1>5, <1>7, <1>8, <1>9, <2>1
  <2> HIDE DEF len, t, g
  <2>3. /\ g \in Nat /\ g <= 7 /\ t + g <= len
        /\ c # count => g = 7
        /\ c = count => t + g = len
    BY ONLY <2>2
  <2>4. ASSUME NEW j \in 1..g PROVE f[j + 1] = a[t + j]
    <3>1. j \in 1..7 /\ 7 * c + j - 1 <= len /\ t + j = 7 * c + j - 1
      BY ONLY <2>2, <2>3
    <3> QED
      BY <1>7, <1>8, <3>1 DEF len
  <2>5. PartOf(bytes, a, t)
    <3>1. t \in Nat /\ g \in Nat /\ g + 1 <= 8
      BY ONLY <2>2, <2>3
    <3>2. g + 1 <= Len(f)
      BY <1>11, <3>1
    <3> HIDE DEF f, a
    <3>3. PartOf(SubSeq(f, 2, g + 1), a, t)
      BY <1>11, <2>4, <3>1, <3>2, TakenPart
    <3> QED
      BY <3>3 DEF g
  <2>6. Part(k)' = t + g
    BY <1>14, <2>3 DEF t, len
  <2>7. ~Done(k)' => MFL' = len - (t + g)
    <3>1. MFL' = MFL - g /\ MFL = len - t
      BY <1>2, <2>2 DEF g
    <3> QED
      BY ONLY <2>2, <2>3, <3>1
  <2> QED
    BY <1>12, <1>14, <2>5, <2>6, <2>7 DEF t, g, len
<1> HIDE DEF bytes, f, get
<1>16. Part(k) \in Nat /\ taken[k] # 0
  BY <1>8, <1>9, <1>14
<1> QED
  BY <1>2, <1>10, <1>12, <1>13, <1>15, <1>16, TakeKeeps

\* A single frame.
LEMMA SingleStep ==
  ASSUME SweepInv, AppendSingle
  PROVE  SweepInv'
<1>1. CarInv /\ CountInv /\ BytesInv /\ DOMAIN answers = 1..Len(answers)
  BY LenProperties DEF SweepInv, CarInv
<1>2. PICK k \in 1..Len(answers) : /\ Comes(k) /\ ~FirstFrame(FrameOf(k))
                                   /\ ~ConsecutiveFrame(FrameOf(k)) /\ MFL' = MFL
                                   /\ Take(k, SubSeq(FrameOf(k), 1, FrameOf(k)[1] + 1))
  BY <1>1 DEF AppendSingle
<1> DEFINE a == answers[k]
           c == taken[k]
           bytes == SubSeq(FrameOf(k), 1, FrameOf(k)[1] + 1)
<1>3. FrameOf(k) = FramesOf(a)[c + 1]
  BY DEF FrameOf
<1>4. a \in Answer /\ c \in Nat /\ c + 1 <= Len(FramesOf(a)) /\ Len(FramesOf(a)) \in Nat
  <2>1. a \in Answer /\ c \in Nat /\ c < Len(FramesOf(a)) /\ Len(FramesOf(a)) \in Nat
    BY <1>1, <1>2, AnswerK DEF Comes
  <2> QED
    BY <2>1
<1>5. Len(a) \in Nat
  BY <1>4, AnswerType
<1>6. Len(a) <= 7
  <2>1. CASE Len(a) > 7
    <3>1. PICK count \in Nat :
            /\ Len(FramesOf(a)) = count + 1 /\ FirstFrame(FramesOf(a)[1])
            /\ \A x \in 1..count : ConsecutiveFrame(FramesOf(a)[x + 1])
      BY <1>4, <2>1, LongFrames
    <3>2. c = 0 \/ c \in 1..count
      BY <1>4, <3>1
    <3>3. CASE c = 0
      <4>1. FrameOf(k) = FramesOf(a)[1]
        BY <1>3, <3>3
      <4> QED
        BY <1>2, <3>1, <4>1
    <3>4. CASE c \in 1..count
      BY <1>2, <1>3, <3>1, <3>4
    <3> QED
      BY <3>2, <3>3, <3>4
  <2> QED
    BY <1>5, <2>1
<1>7. /\ Len(FramesOf(a)) = 1
      /\ SubSeq(FramesOf(a)[1], 1, FramesOf(a)[1][1] + 1) = Framed(a)
  BY <1>4, <1>6, SingleFrame
<1>8. c = 0 /\ c + 1 = 1 /\ ~Multi(k)
  BY <1>4, <1>5, <1>6, <1>7 DEF Multi
<1>9. bytes = Framed(a) /\ Kept(k) = bytes
  BY <1>3, <1>7, <1>8 DEF Kept
<1>10. bytes \in Seq(Byte) /\ Len(bytes) \in Nat
  BY <1>4, <1>9, FramedType, LenProperties
<1>11. Part(k) = 0 /\ Part(k)' = Len(bytes)
  BY <1>1, <1>2, <1>7, <1>8, <1>9, PartAfter DEF Taken
<1> HIDE DEF bytes
<1>12. PartOf(bytes, Kept(k), Part(k)) /\ Part(k)' = Part(k) + Len(bytes) /\ Part(k) \in Nat
  <2>1. \A j \in 1..Len(bytes) : 0 + j = j
    BY <1>10
  <2> QED
    BY <1>9, <1>10, <1>11, <2>1 DEF PartOf
<1>13. MFL' \in Nat /\ Take(k, bytes)
  BY <1>1, <1>2 DEF BytesInv, bytes
<1> QED
  BY <1>2, <1>8, <1>10, <1>11, <1>12, <1>13, TakeKeeps

\* When main has nothing left to take, the answers to every PID it asked for are complete.
LEMMA DrainedDone ==
  ASSUME CarInv, CountInv, Drained, NEW k \in 1..Len(answers), asked[k] <= currentPID
  PROVE  Done(k)
<1>1. asked[k] \in Int /\ currentPID \in Int /\ DOMAIN answers = 1..Len(answers)
  BY AnswerK
<1>2. CASE asked[k] = currentPID
  BY <1>1, <1>2 DEF Drained, Done
<1>3. CASE asked[k] < currentPID
  BY <1>3 DEF CountInv
<1> QED
  BY <1>1, <1>2, <1>3

\* A step that takes no frame leaves what has been kept of every answer.
LEMMA PartsStay ==
  ASSUME answers' = answers, asked' = asked, taken' = taken, begins' = begins,
         vehicle_data' = vehicle_data, NEW k
  PROVE  /\ Done(k)' <=> Done(k)
         /\ Kept(k)' = Kept(k) /\ Part(k)' = Part(k)
         /\ Multi(k)' <=> Multi(k)
         /\ Undisturbed(k)' <=> Undisturbed(k)
         /\ Past(k)' <=> Past(k)
         /\ MFL' = MFL \/ Done(k) => (Present(k)' <=> Present(k))
<1>1. Done(k)' <=> Done(k)
  BY DEF Done
<1>2. Kept(k)' = Kept(k) /\ (Multi(k)' <=> Multi(k))
  BY DEF Kept, Multi
<1>3. Undisturbed(k)' <=> Undisturbed(k)
  BY DEF Undisturbed, Multi
<1>4. Part(k)' = Part(k)
  BY <1>1, <1>2 DEF Part, Taken
<1>5. Past(k)' <=> Past(k)
  BY <1>2 DEF Past, LiesAt
<1>6. MFL' = MFL \/ Done(k) => (Present(k)' <=> Present(k))
  BY <1>1, <1>2, <1>4 DEF Present, EndsWith
<1> QED
  BY <1>1, <1>2, <1>3, <1>4, <1>5, <1>6

\* The next request.
LEMMA RequestStep ==
  ASSUME SweepInv, RequestPID
  PROVE  SweepInv'
<1>1. CarInv /\ CountInv /\ BytesInv
  BY DEF SweepInv
<1>2. PICK p \in PIDs : /\ p > currentPID /\ \A q \in PIDs : q > currentPID => p <= q
                        /\ currentPID' = p
  BY DEF RequestPID
<1>3. /\ Drained /\ MFL' = 0 /\ answers' = answers /\ asked' = asked /\ taken' = taken
      /\ begins' = begins /\ vehicle_data' = vehicle_data
  BY DEF RequestPID, carVars
<1>4. p \in Int
  BY ObdReportAssumption
<1>5. ASSUME NEW k \in 1..Len(answers)
      PROVE  /\ asked[k] \in PIDs /\ asked[k] \in Int /\ currentPID \in Int
             /\ asked[k] < p => asked[k] <= currentPID
             /\ asked[k] <= currentPID => asked[k] <= p
  <2>1. asked[k] \in PIDs /\ asked[k] \in Int /\ currentPID \in Int
    BY <1>1, AnswerK DEF CarInv
  <2> QED
    BY <1>2, <1>4, <2>1
<1>6. CarInv'
  BY <1>1, <1>3 DEF CarInv
<1>7. CountInv'
  <2>1. ASSUME NEW k \in 1..Len(answers)
        PROVE  /\ taken[k] <= Len(FramesOf(answers[k]))
               /\ taken[k] > 0 <=> k <= Len(begins)
               /\ k <= Len(begins) => asked[k] <= p
               /\ asked[k] < p => Done(k)
    <3>1. asked[k] < p => Done(k)
      BY <1>1, <1>3, <1>5, DrainedDone
    <3> QED
      BY <1>1, <1>5, <3>1 DEF CountInv
  <2>2. ASSUME NEW k PROVE Done(k)' <=> Done(k)
    BY <1>3, PartsStay
  <2> QED
    BY <1>1, <1>2, <1>3, <2>1, <2>2 DEF CountInv
<1>8. BytesInv'
  <2>1. ASSUME NEW k PROVE Undisturbed(k)' <=> Undisturbed(k)
    BY <1>3, PartsStay
  <2>2. ASSUME NEW k PROVE Past(k)' <=> Past(k)
    BY <1>3, PartsStay
  <2>3. ASSUME NEW k \in 1..Len(begins), k = Len(begins), Present(k) PROVE Present(k)'
    <3>1. k \in 1..Len(answers)
      <4>1. Len(begins) \in Nat /\ Len(answers) \in Nat /\ Len(begins) <= Len(answers)
        BY <1>1, LenProperties DEF CarInv, CountInv
      <4> QED
        BY <4>1
    <3>2. asked[k] <= currentPID
      BY <1>1, <2>3, <3>1 DEF CountInv
    <3>3. Done(k)
      BY <1>1, <1>3, <3>1, <3>2, DrainedDone
    <3> QED
      BY <1>3, <2>3, <3>3, PartsStay
  <2>4. ASSUME NEW k \in 1..Len(begins), Undisturbed(k)
        PROVE  IF k = Len(begins) THEN Present(k)' ELSE Past(k)'
    BY <1>1, <2>2, <2>3, <2>4 DEF BytesInv
  <2> QED
    BY <1>1, <1>3, <2>1, <2>4 DEF BytesInv
<1> QED
  BY <1>6, <1>7, <1>8 DEF SweepInv

\* Before a sweep nothing has been asked for and nothing appended.
LEMMA SweepInit ==
  ASSUME Init
  PROVE  SweepInv
<1>1. answers \in Seq(Answer)
  <2>1. PICK x \in 0..MaxAnswers : answers \in [1..x -> Answer]
    BY DEF Init, SeqOf
  <2>2. x \in Nat
    BY <2>1, ObdReportAssumption
  <2> QED
    BY <2>1, <2>2, SeqDef
<1>2. /\ Len(answers) \in Nat /\ DOMAIN answers = 1..Len(answers)
      /\ \A k \in 1..Len(answers) : answers[k] \in Answer
  BY <1>1, LenProperties, ElementOfSeq
<1>3. CarInv
  BY <1>1, <1>2 DEF Init, CarInv
<1>4. /\ currentPID = -1 /\ taken = [k \in 1..Len(answers) |-> 0] /\ begins = <<>>
      /\ vehicle_data = <<>> /\ MFL = 0
  BY <1>2 DEF Init
<1>5. ASSUME NEW k \in 1..Len(answers)
      PROVE  /\ taken[k] <= Len(FramesOf(answers[k]))
             /\ taken[k] > 0 <=> k <= Len(begins)
             /\ k <= Len(begins) => asked[k] <= currentPID
             /\ asked[k] < currentPID => Done(k)
  <2>1. Len(FramesOf(answers[k])) \in Nat \ {0}
    BY <1>2, FramesType
  <2>2. taken[k] = 0 /\ Len(begins) = 0 /\ ~(k <= 0)
    BY <1>2, <1>4
  <2>3. asked[k] \in Nat
    <3>1. asked[k] \in PIDs /\ \A p \in PIDs : p \in Nat
      BY <1>3, ObdReportAssumption DEF CarInv
    <3> QED
      BY ONLY <3>1
  <2>4. ~(asked[k] < currentPID)
    BY <1>4, <2>3
  <2> QED
    BY <2>1, <2>2, <2>4
<1>6. CountInv
  <2>1. begins \in Seq(Nat) /\ Len(begins) = 0
    BY <1>4
  <2>2. taken \in [1..Len(answers) -> Nat] /\ currentPID \in PIDs \union {-1}
    BY <1>4
  <2> QED
    BY <1>2, <1>5, <2>1, <2>2 DEF CountInv
<1>7. BytesInv
  <2>1. vehicle_data \in Seq(Byte) /\ Len(begins) = 0 /\ begins = <<>> /\ vehicle_data = <<>>
    BY <1>4
  <2>2. 1..Len(begins) = {}
    BY <2>1
  <2> QED
    BY <1>4, <2>1, <2>2 DEF BytesInv
<1> QED
  BY <1>3, <1>6, <1>7 DEF SweepInv

\* The report stays laid out over every step of the tracker and the listener.
LEMMA SweepStep ==
  ASSUME SweepInv, [Next]_vars
  PROVE  SweepInv'
<1>1. CASE RequestPID
  BY <1>1, RequestStep
<1>2. CASE AppendFirst
  BY <1>2, FirstStep
<1>3. CASE AppendConsecutive
  BY <1>3, ConsecutiveStep
<1>4. CASE AppendSingle
  BY <1>4, SingleStep
<1>5. CASE UNCHANGED <<carVars, sweepVars>>
  <2>1. /\ answers' = answers /\ asked' = asked /\ currentPID' = currentPID /\ taken' = taken
        /\ begins' = begins /\ vehicle_data' = vehicle_data /\ MFL' = MFL
    BY <1>5 DEF carVars, sweepVars
  <2>2. ASSUME NEW k PROVE (Done(k)' <=> Done(k)) /\ (Undisturbed(k)' <=> Undisturbed(k))
    BY <2>1, PartsStay
  <2>3. ASSUME NEW k PROVE (Past(k)' <=> Past(k)) /\ (Present(k)' <=> Present(k))
    BY <2>1, PartsStay
  <2>4. CarInv'
    BY <2>1 DEF SweepInv, CarInv
  <2>5. CountInv'
    <3>1. CountInv
      BY DEF SweepInv
    <3> QED
      BY <2>1, <2>2, <3>1 DEF CountInv
  <2>6. BytesInv'
    BY <2>1, <2>2, <2>3 DEF SweepInv, BytesInv
  <2> QED
    BY <2>4, <2>5, <2>6 DEF SweepInv
<1> QED
  BY <1>1, <1>2, <1>3, <1>4, <1>5
  DEF Next, vars, Deliver, NextEntry, EntryTooShort, EndOfData, Remember

-----------------------------------------------------------------------------
(* What the listener reads. *)

\* Each undisturbed answer lies in the report from where it began to where the next one did.
ReportLaid ==
  /\ Start(0) = 0
  /\ \A k \in 0..Len(answers) : Start(k) \in Nat
  /\ \A k \in 1..Len(answers) :
        Undisturbed(k) => /\ Start(k) = Start(k - 1) + Len(Kept(k))
                          /\ LiesAt(Kept(k), vehicle_data, Start(k - 1))

\* When the sweep is over the report is complete.
LEMMA SweepDone ==
  ASSUME SweepInv, Deliver
  PROVE  ReportLaid
<1>1. CarInv /\ CountInv /\ BytesInv /\ Drained /\ \A p \in PIDs : p <= currentPID
  BY DEF SweepInv, Deliver
<1> DEFINE N == Len(answers)
<1>2. /\ N \in Nat /\ Len(begins) \in Nat /\ Len(begins) <= N /\ Len(vehicle_data) \in Nat
      /\ begins \in Seq(Nat)
  BY <1>1, LenProperties DEF CarInv, CountInv, BytesInv
<1>3. ASSUME NEW k \in 1..N PROVE Done(k) /\ k <= Len(begins)
  <2>1. Done(k)
    BY <1>1, DrainedDone DEF CarInv
  <2>2. Len(FramesOf(answers[k])) \in Nat \ {0}
    BY <1>1, AnswerK
  <2>3. taken[k] > 0
    BY <2>1, <2>2 DEF Done
  <2> QED
    BY <1>1, <2>1, <2>3 DEF CountInv
<1>4. Len(begins) = N
  <2>1. N \in 1..N \/ N = 0
    BY <1>2
  <2> QED
    BY <1>2, <1>3, <2>1
<1>5. \A k \in 1..N : begins[k] \in Nat
  BY <1>2, <1>4, ElementOfSeq
<1>6. ASSUME NEW k \in 0..N PROVE Start(k) \in Nat
  <2>1. k < N => k + 1 \in 1..N
    BY <1>2
  <2> QED
    BY <1>2, <1>5, <2>1 DEF Start
<1>7. Start(0) = 0
  <2>1. CASE N = 0
    <3>1. begins = <<>>
      BY <1>2, <1>4, <2>1, EmptySeq
    <3>2. Len(vehicle_data) = 0
      BY <1>1, <3>1 DEF BytesInv
    <3> QED
      BY <2>1, <3>2 DEF Start
  <2>2. CASE N # 0
    <3>1. begins # <<>> /\ 0 < N /\ 0 + 1 = 1
      BY <1>2, <1>4, <2>2, EmptySeq
    <3>2. begins[1] = 0
      BY <1>1, <3>1 DEF BytesInv
    <3> QED
      BY <3>1, <3>2 DEF Start
  <2> QED
    BY <2>1, <2>2
<1>8. ASSUME NEW k \in 1..N, Undisturbed(k)
      PROVE  /\ Start(k) = Start(k - 1) + Len(Kept(k))
             /\ LiesAt(Kept(k), vehicle_data, Start(k - 1))
  <2>1. Start(k - 1) = begins[k]
    <3>1. k - 1 < N /\ k - 1 + 1 = k
      BY <1>2
    <3> QED
      BY <3>1 DEF Start
  <2>2. Len(Kept(k)) \in Nat /\ begins[k] \in Nat
    BY <1>1, <1>5, AnswerK, KeptType
  <2>3. CASE k = N
    <3>1. Present(k) /\ Part(k) = Len(Kept(k))
      BY <1>1, <1>3, <1>4, <1>8, <2>3 DEF BytesInv, Part
    <3>2. Start(k) = Len(vehicle_data)
      BY <1>2, <2>3 DEF Start
    <3> QED
      BY <2>1, <2>2, <3>1, <3>2 DEF Present, EndsWith, LiesAt
  <2>4. CASE k # N
    <3>1. Past(k)
      BY <1>1, <1>4, <1>8, <2>4 DEF BytesInv
    <3>2. Start(k) = begins[k + 1]
      <4>1. k < N
        BY <1>2, <2>4
      <4> QED
        BY <4>1 DEF Start
    <3> QED
      BY <2>1, <3>1, <3>2 DEF Past
  <2> QED
    BY <2>3, <2>4
<1> QED
  BY <1>6, <1>7, <1>8 DEF ReportLaid

\* The first k answers took one frame each.
Singles(k) == k <= Len(answers) /\ \A j \in 1..k : ~Multi(j)

Gives(k, q) == q \in Given(Framed(answers[k]))

\* The row holds the first value of each parameter among the first m answers.
Firsts(m) ==
  \A q \in Parameters :
    /\ q \in DOMAIN decoded <=> \E k \in 1..m : Gives(k, q)
    /\ \A k \in 1..m : Gives(k, q) /\ (\A j \in 1..k - 1 : ~Gives(j, q))
                          => decoded[q] = ValueOf(Framed(answers[k]), q)

\* The listener is behind the answers it has read, as long as each took one frame.
Reading ==
  /\ Singles(Len(entries)) => i = Start(Len(entries))
  /\ \A k \in 1..Len(entries) : Singles(k) => entries[k] = Framed(answers[k])
  /\ AllSingle => Len(entries) <= Len(answers) /\ Firsts(Len(entries))

ListenInv ==
  /\ lpc \in {"sweep", "parse", "stored", "dropped"}
  /\ entries \in Seq(Seq(Byte)) /\ i \in Nat /\ i <= n
  /\ lpc = "sweep" => i = 0 /\ entries = <<>> /\ decoded = <<>>
  /\ lpc # "sweep" => ReportLaid /\ Reading
  /\ lpc = "stored" => i = n
  /\ DroppedForCause

\* The report is where it was when no frame is taken.
LEMMA LaidStays ==
  ASSUME answers' = answers, asked' = asked, begins' = begins, vehicle_data' = vehicle_data,
         ReportLaid
  PROVE  ReportLaid' /\ n' = n
<1>1. ASSUME NEW k PROVE Start(k)' = Start(k)
  BY DEF Start
<1>2. ASSUME NEW k PROVE Kept(k)' = Kept(k) /\ (Undisturbed(k)' <=> Undisturbed(k))
  BY DEF Kept, Multi, Undisturbed
<1>3. ASSUME NEW k \in 1..Len(answers), Undisturbed(k)
      PROVE  /\ Start(k)' = Start(k - 1)' + Len(Kept(k)')
             /\ LiesAt(Kept(k), vehicle_data, Start(k - 1))'
  <2>1. /\ Start(k) = Start(k - 1) + Len(Kept(k))
        /\ LiesAt(Kept(k), vehicle_data, Start(k - 1))
    BY <1>3 DEF ReportLaid
  <2>2. Start(k)' = Start(k) /\ Start(k - 1)' = Start(k - 1) /\ Kept(k)' = Kept(k)
    BY <1>1, <1>2
  <2> QED
    BY <2>1, <2>2 DEF LiesAt
<1>4. Start(0)' = 0 /\ \A k \in 0..Len(answers) : Start(k)' \in Nat
  BY <1>1 DEF ReportLaid
<1> QED
  BY <1>2, <1>3, <1>4 DEF ReportLaid, n

\* So is the listener when it reads nothing.
LEMMA ReadingStays ==
  ASSUME answers' = answers, begins' = begins, vehicle_data' = vehicle_data, i' = i,
         entries' = entries, decoded' = decoded, Reading
  PROVE  Reading'
<1>1. Start(Len(entries))' = Start(Len(entries))
  BY DEF Start
<1>2. /\ \A k : Singles(k)' <=> Singles(k)
      /\ AllSingle' <=> AllSingle
  BY DEF Singles, Multi, AllSingle
<1>3. Firsts(Len(entries))' <=> Firsts(Len(entries))
  BY DEF Firsts, Gives
<1> QED
  BY <1>1, <1>2, <1>3 DEF Reading

\* Nobody disturbs answers of one frame before any longer one.
LEMMA SinglesUndisturbed ==
  ASSUME answers \in Seq(Answer), NEW k \in 1..Len(answers), Singles(k)
  PROVE  Undisturbed(k)
<1>1. Len(answers) \in Nat /\ DOMAIN answers = 1..Len(answers) /\ k \in Nat
  BY LenProperties
<1>2. \A j \in 1..Len(answers) : j < k => j \in 1..k
  BY <1>1
<1>3. k \in 1..k
  BY <1>1
<1> QED
  BY <1>1, <1>2, <1>3 DEF Undisturbed, Singles

\* The part of the report the listener takes is a piece of what is left, and not empty.
LEMMA EntryType ==
  ASSUME vehicle_data \in Seq(Byte), i \in Nat, i < n
  PROVE  /\ n \in Nat /\ DataLen \in Nat /\ 1 <= DataLen /\ i + DataLen <= n
         /\ ObdPID \in Seq(Byte)
<1>1. n \in Nat
  BY LenProperties DEF n
<1>2. vehicle_data[i + 1] \in Byte
  <2>1. i + 1 \in 1..Len(vehicle_data)
    BY <1>1 DEF n
  <2> QED
    BY <2>1, ElementOfSeq
<1>3. DataLen \in Nat /\ 1 <= DataLen /\ i + DataLen <= n
  <2> DEFINE x == vehicle_data[i + 1]
  <2>1. x \in Nat
    <3>1. \A y \in Byte : y \in Nat
      BY DEF Byte
    <3> QED
      BY ONLY <1>2, <3>1
  <2> HIDE DEF x
  <2>2. DataLen = IF x + 1 < n - i THEN x + 1 ELSE n - i
    BY DEF DataLen, x
  <2> QED
    BY <1>1, <2>1, <2>2
<1>4. ObdPID \in Seq(Byte)
  <2> DEFINE first == i + 1
             last == i + DataLen
  <2>1. first \in Nat /\ last \in Nat /\ 1 <= first /\ last <= n /\ first + DataLen = last + 1
    BY <1>1, <1>3
  <2>2. ObdPID = SubSeq(vehicle_data, first, last)
    BY DEF ObdPID
  <2> HIDE DEF first, last
  <2>3. last <= Len(vehicle_data) /\ DataLen \in Nat
    BY <1>3, <2>1 DEF n
  <2>4. SubSeq(vehicle_data, first, last) \in Seq(Byte)
    BY <2>1, <2>3, Slice
  <2> QED
    BY <2>2, <2>4
<1> QED
  BY <1>1, <1>3, <1>4

\* Where an undisturbed answer begins and ends; it takes some bytes.
LEMMA AnswerSpan ==
  ASSUME SweepInv, ReportLaid, NEW k \in Nat, k < Len(answers), Undisturbed(k + 1)
  PROVE  /\ Start(k) \in Nat /\ Start(k + 1) \in Nat /\ Start(k) < Start(k + 1)
         /\ Start(k + 1) <= n
         /\ Start(k + 1) = Start(k) + Len(Kept(k + 1))
         /\ LiesAt(Kept(k + 1), vehicle_data, Start(k))
         /\ answers[k + 1] \in Answer
<1>1. /\ Len(answers) \in Nat /\ k \in 0..Len(answers) /\ k + 1 \in 1..Len(answers)
      /\ k + 1 \in 0..Len(answers) /\ k + 1 - 1 = k /\ answers \in Seq(Answer)
  BY LenProperties DEF SweepInv, CarInv
<1>2. answers[k + 1] \in Answer
  BY <1>1, ElementOfSeq
<1>3. Len(Kept(k + 1)) \in Nat \ {0}
  BY <1>2, KeptType
<1>4. Start(k) \in Nat /\ Start(k + 1) \in Nat
  BY <1>1 DEF ReportLaid
<1>5. /\ Start(k + 1) = Start(k + 1 - 1) + Len(Kept(k + 1))
      /\ LiesAt(Kept(k + 1), vehicle_data, Start(k + 1 - 1))
  BY <1>1 DEF ReportLaid
<1> QED
  BY <1>1, <1>2, <1>3, <1>4, <1>5 DEF LiesAt, n

\* Behind answers of one frame the listener cuts out exactly the next one.
LEMMA WholeEntry ==
  ASSUME SweepInv, ListenInv, ReportLaid, Reading, i < n, Singles(Len(entries) + 1)
  PROVE  /\ ObdPID = Framed(answers[Len(entries) + 1])
         /\ i + DataLen = Start(Len(entries) + 1)
         /\ answers[Len(entries) + 1] \in Answer
<1> PICK e \in Nat : e = Len(entries)
  BY LenProperties DEF ListenInv
<1> DEFINE a == answers[e + 1]
<1>1. /\ answers \in Seq(Answer) /\ Len(answers) \in Nat /\ i \in Nat
      /\ vehicle_data \in Seq(Byte)
  BY LenProperties DEF ListenInv, SweepInv, CarInv, BytesInv
<1>2. e + 1 <= Len(answers) /\ \A j \in 1..e + 1 : ~Multi(j)
  BY DEF Singles
<1>3. i = Start(e)
  <2>1. Singles(e)
    BY <1>1, <1>2 DEF Singles
  <2> QED
    BY <2>1 DEF Reading
<1>4. /\ Start(e) \in Nat /\ Start(e + 1) \in Nat /\ Start(e + 1) <= n
      /\ Start(e + 1) = Start(e) + Len(Kept(e + 1)) /\ LiesAt(Kept(e + 1), vehicle_data, Start(e))
      /\ a \in Answer
  <2>1. e < Len(answers) /\ e + 1 \in 1..Len(answers)
    BY <1>1, <1>2
  <2>2. Undisturbed(e + 1)
    BY <1>1, <2>1, SinglesUndisturbed
  <2> QED
    BY <2>1, <2>2, AnswerSpan
<1>5. ~Multi(e + 1) /\ Len(a) \in Nat
  BY <1>2, <1>4, AnswerType
<1> DEFINE s == Framed(a)
<1>6. Kept(e + 1) = s
  BY <1>5 DEF Kept
<1>7. s \in Seq(Byte) /\ Len(s) = Len(a) + 1 /\ s[1] = Len(a)
  BY <1>4, FramedType
<1>8. Start(e + 1) = i + Len(s) /\ \A j \in 1..Len(s) : vehicle_data[i + j] = s[j]
  BY <1>3, <1>4, <1>6 DEF LiesAt
<1> HIDE DEF a, s
<1>9. vehicle_data[i + 1] = Len(a)
  <2>1. 1 \in 1..Len(s)
    BY <1>5, <1>7
  <2> QED
    BY <1>7, <1>8, <2>1
<1>10. n \in Nat
  BY <1>1, LenProperties DEF n
<1>11. DataLen = Len(s)
  <2>1. DataLen = IF Len(a) + 1 < n - i THEN Len(a) + 1 ELSE n - i
    BY <1>9 DEF DataLen
  <2>2. Start(e + 1) = i + (Len(a) + 1) /\ Start(e + 1) <= n
    BY <1>4, <1>7, <1>8
  <2> DEFINE len == Len(a)
             o == Start(e + 1)
  <2> HIDE DEF len, o
  <2>3. /\ DataLen = IF len + 1 < n - i THEN len + 1 ELSE n - i
        /\ o = i + (len + 1) /\ o <= n /\ len \in Nat /\ o \in Nat
    BY <1>4, <1>5, <2>1, <2>2 DEF len, o
  <2>4. DataLen = len + 1
    BY ONLY <1>1, <1>10, <2>3
  <2> QED
    BY <1>7, <2>4 DEF len
<1>12. ObdPID = s
  <2> DEFINE first == i + 1
             last == i + DataLen
             x == Len(s)
  <2>1. x \in Nat /\ x = DataLen
    BY <1>5, <1>7, <1>11
  <2> HIDE DEF x
  <2>2. /\ first \in Nat /\ last \in Nat /\ 1 <= first /\ first + x = last + 1
        /\ \A j \in 1..x : first + j - 1 = i + j
    BY <1>1, <2>1
  <2>3. last <= Len(vehicle_data)
    BY <1>4, <1>8, <1>11 DEF n
  <2>4. ObdPID = SubSeq(vehicle_data, first, last)
    BY DEF ObdPID
  <2> HIDE DEF first, last
  <2>5. /\ SubSeq(vehicle_data, first, last) \in Seq(Byte)
        /\ Len(SubSeq(vehicle_data, first, last)) = x
        /\ \A j \in 1..x : SubSeq(vehicle_data, first, last)[j] = vehicle_data[first + j - 1]
    <3>1. vehicle_data \in Seq(Byte)
      BY <1>1
    <3> QED
      BY ONLY <2>1, <2>2, <2>3, <3>1, Slice
  <2>6. \A j \in 1..x : ObdPID[j] = s[j]
    BY <1>8, <2>2, <2>4, <2>5 DEF x
  <2>7. ObdPID \in Seq(Byte) /\ Len(ObdPID) = x
    BY <2>4, <2>5
  <2> QED
    BY <1>7, <2>6, <2>7, SeqEqual DEF x
<1> QED
  BY <1>4, <1>8, <1>11, <1>12 DEF a, s

\* In a report of single frames the listener finds an answer at every index inside it.
LEMMA NextSingle ==
  ASSUME SweepInv, ListenInv, Reading, i < n, AllSingle
  PROVE  Singles(Len(entries) + 1)
<1> PICK e \in Nat : e = Len(entries)
  BY LenProperties DEF ListenInv
<1>1. Len(answers) \in Nat /\ DOMAIN answers = 1..Len(answers)
  BY LenProperties DEF SweepInv, CarInv
<1>2. e <= Len(answers)
  BY DEF Reading
<1>3. Singles(e)
  <2>1. \A j \in 1..e : j \in DOMAIN answers
    BY <1>1, <1>2
  <2> QED
    BY <1>2, <2>1 DEF Singles, AllSingle
<1>4. i = Start(e)
  BY <1>3 DEF Reading
<1>5. e # Len(answers)
  <2>1. CASE e = Len(answers)
    <3>1. i = n
      BY <1>1, <1>4, <2>1 DEF Start, n
    <3> QED
      BY <3>1 DEF ListenInv
  <2> QED
    BY <2>1
<1>6. e + 1 <= Len(answers)
  <2> DEFINE N == Len(answers)
  <2>1. N \in Nat /\ e <= N /\ e # N
    BY <1>1, <1>2, <1>5
  <2> HIDE DEF N
  <2>2. e + 1 <= N
    BY ONLY <2>1, e \in Nat
  <2> QED
    BY <2>2 DEF N
<1>7. \A j \in 1..e + 1 : j \in DOMAIN answers
  BY <1>1, <1>6
<1> QED
  BY <1>6, <1>7 DEF Singles, AllSingle

\* One more entry keeps the first value of each parameter.
LEMMA FirstsStep ==
  ASSUME NEW m \in Nat, Firsts(m), answers' = answers,
         NEW entry, entry = Framed(answers[m + 1]), Remember(entry)
  PROVE  Firsts(m + 1)'
<1>1. \A k \in 1..m + 1 : k \in 1..m \/ k = m + 1
  OBVIOUS
<1>2. \A k \in 1..m : k \in 1..m + 1
  OBVIOUS
<1>3. m + 1 \in 1..m + 1 /\ m + 1 - 1 = m /\ m + 1 \notin 1..m
  OBVIOUS
<1>4. \A k, q : Gives(k, q)' <=> Gives(k, q)
  BY DEF Gives
<1>5. decoded' = [q \in DOMAIN decoded \union Given(entry) |->
                    IF q \in DOMAIN decoded THEN decoded[q] ELSE ValueOf(entry, q)]
  BY DEF Remember
<1> SUFFICES ASSUME NEW q \in Parameters
             PROVE  /\ q \in DOMAIN decoded' <=> \E k \in 1..m + 1 : Gives(k, q)
                    /\ \A k \in 1..m + 1 : Gives(k, q) /\ (\A j \in 1..k - 1 : ~Gives(j, q))
                          => decoded'[q] = ValueOf(Framed(answers[k]), q)
  BY <1>4 DEF Firsts
<1>6. /\ q \in DOMAIN decoded <=> \E k \in 1..m : Gives(k, q)
      /\ \A k \in 1..m : Gives(k, q) /\ (\A j \in 1..k - 1 : ~Gives(j, q))
                           => decoded[q] = ValueOf(Framed(answers[k]), q)
  BY DEF Firsts
<1>7. Gives(m + 1, q) <=> q \in Given(entry)
  BY DEF Gives
<1>8. q \in DOMAIN decoded' <=> \E k \in 1..m + 1 : Gives(k, q)
  BY <1>1, <1>2, <1>3, <1>5, <1>6, <1>7
<1>9. ASSUME NEW k \in 1..m + 1, Gives(k, q), \A j \in 1..k - 1 : ~Gives(j, q)
      PROVE  decoded'[q] = ValueOf(Framed(answers[k]), q)
  <2>1. CASE k \in 1..m
    <3>1. q \in DOMAIN decoded /\ decoded[q] = ValueOf(Framed(answers[k]), q)
      BY <1>6, <1>9, <2>1
    <3> QED
      BY <1>5, <3>1
  <2>2. CASE k = m + 1
    <3>1. q \notin DOMAIN decoded /\ q \in Given(entry)
      BY <1>3, <1>6, <1>7, <1>9, <2>2
    <3> QED
      BY <1>5, <2>2, <3>1
  <2> QED
    BY <1>1, <2>1, <2>2
<1> QED
  BY <1>8, <1>9

\* The listener takes an entry.
LEMMA ReadingStep ==
  ASSUME SweepInv, ListenInv, NextEntry
  PROVE  ListenInv'
<1>1. /\ lpc = "parse" /\ i < n /\ i' = i + DataLen /\ entries' = Append(entries, ObdPID)
      /\ Remember(ObdPID) /\ answers' = answers /\ asked' = asked /\ begins' = begins
      /\ vehicle_data' = vehicle_data /\ lpc' = lpc
  BY DEF NextEntry, carVars, sweepVars
<1>2. ReportLaid /\ Reading
  BY <1>1 DEF ListenInv
<1> PICK e \in Nat : e = Len(entries)
  BY LenProperties DEF ListenInv
<1>3. /\ vehicle_data \in Seq(Byte) /\ i \in Nat /\ entries \in Seq(Seq(Byte))
  BY DEF SweepInv, BytesInv, ListenInv
<1>4. n \in Nat /\ DataLen \in Nat /\ i + DataLen <= n /\ ObdPID \in Seq(Byte)
  BY <1>1, <1>3, EntryType
<1>5. /\ entries' \in Seq(Seq(Byte)) /\ Len(entries') = e + 1
      /\ \A k \in 1..e : entries'[k] = entries[k]
      /\ entries'[e + 1] = ObdPID
  <2>1. ObdPID \in Seq(Byte) /\ entries' = Append(entries, ObdPID)
    BY <1>1, <1>4
  <2>2. \A x \in Seq(Byte) : /\ Append(entries, x) \in Seq(Seq(Byte))
                             /\ Len(Append(entries, x)) = e + 1
                             /\ \A k \in 1..e : Append(entries, x)[k] = entries[k]
                             /\ Append(entries, x)[e + 1] = x
    BY <1>3, AppendProperties
  <2> QED
    BY ONLY <2>1, <2>2
<1>6. /\ \A k : Singles(k)' <=> Singles(k)
      /\ AllSingle' <=> AllSingle
  BY <1>1 DEF Singles, Multi, AllSingle
<1>7. ASSUME Singles(e + 1)
      PROVE  i' = Start(e + 1) /\ ObdPID = Framed(answers[e + 1])
  BY <1>1, <1>2, <1>7, WholeEntry
<1>8. ASSUME NEW k \in 1..e + 1, Singles(k) PROVE entries'[k] = Framed(answers[k])
  <2>1. CASE k \in 1..e
    BY <1>2, <1>5, <1>8, <2>1 DEF Reading
  <2>2. CASE k = e + 1
    BY <1>5, <1>7, <1>8, <2>2
  <2> QED
    BY <2>1, <2>2
<1>9. ASSUME AllSingle PROVE e + 1 <= Len(answers) /\ Firsts(e + 1)'
  <2>1. Singles(e + 1)
    BY <1>1, <1>2, <1>9, NextSingle
  <2>2. ObdPID = Framed(answers[e + 1])
    BY <1>7, <2>1
  <2>3. Firsts(e)
    BY <1>2, <1>9 DEF Reading
  <2>4. e + 1 <= Len(answers)
    BY <2>1 DEF Singles
  <2>5. Firsts(e + 1)'
    BY <1>1, <2>2, <2>3, FirstsStep
  <2> QED
    BY <2>4, <2>5
<1>10. Reading'
  <2>1. Singles(Len(entries))' => i' = Start(Len(entries))'
    <3>1. Start(Len(entries))' = Start(e + 1)
      BY <1>1, <1>5 DEF Start
    <3>2. Singles(Len(entries))' <=> Singles(e + 1)
      BY <1>5, <1>6
    <3> QED
      BY <1>7, <3>1, <3>2
  <2>2. \A k \in 1..Len(entries') : Singles(k)' => entries'[k] = Framed(answers'[k])
    BY <1>1, <1>5, <1>6, <1>8
  <2>3. AllSingle' => Len(entries') <= Len(answers') /\ Firsts(Len(entries))'
    BY <1>1, <1>5, <1>6, <1>9
  <2> QED
    BY <2>1, <2>2, <2>3 DEF Reading
<1>11. ReportLaid' /\ n' = n
  BY <1>1, <1>2, LaidStays
<1>12. i' \in Nat /\ i' <= n'
  BY <1>1, <1>3, <1>4, <1>11
<1>13. lpc' = "parse" /\ DroppedForCause'
  BY <1>1 DEF DroppedForCause
<1> QED
  BY <1>5, <1>10, <1>11, <1>12, <1>13 DEF ListenInv

\* A report of single frames is given up for an answer that is too short by itself.
LEMMA TooShortStep ==
  ASSUME SweepInv, ListenInv, EntryTooShort
  PROVE  ListenInv'
<1>1. /\ lpc = "parse" /\ i < n /\ TooShort(ObdPID) /\ lpc' = "dropped"
      /\ answers' = answers /\ asked' = asked /\ begins' = begins
      /\ vehicle_data' = vehicle_data /\ i' = i /\ entries' = entries /\ decoded' = decoded
  BY DEF EntryTooShort, carVars, sweepVars, listenerVars
<1>2. ReportLaid /\ Reading
  BY <1>1 DEF ListenInv
<1> PICK e \in Nat : e = Len(entries)
  BY LenProperties DEF ListenInv
<1>3. ASSUME AllSingle
      PROVE  \E k \in DOMAIN answers : TooShort(Framed(answers[k]))
  <2>1. Singles(e + 1)
    BY <1>1, <1>2, <1>3, NextSingle
  <2>2. ObdPID = Framed(answers[e + 1])
    BY <1>1, <1>2, <2>1, WholeEntry
  <2>3. e + 1 \in DOMAIN answers
    <3>1. DOMAIN answers = 1..Len(answers) /\ Len(answers) \in Nat
      BY LenProperties DEF SweepInv, CarInv
    <3>2. e + 1 <= Len(answers)
      BY <2>1 DEF Singles
    <3> QED
      BY <3>1, <3>2
  <2> QED
    BY <1>1, <2>2, <2>3
<1>4. DroppedForCause'
  <2>1. AllSingle' <=> AllSingle
    BY <1>1 DEF AllSingle, Multi
  <2> QED
    BY <1>1, <1>3, <2>1 DEF DroppedForCause
<1>5. ReportLaid' /\ n' = n /\ Reading'
  BY <1>1, <1>2, LaidStays, ReadingStays
<1> QED
  BY <1>1, <1>4, <1>5 DEF ListenInv

\* The invariant of the listener is inductive.
LEMMA ListenStep ==
  ASSUME SweepInv, ListenInv, [Next]_vars
  PROVE  ListenInv'
<1>1. CASE NextEntry
  BY <1>1, ReadingStep
<1>2. CASE EntryTooShort
  BY <1>2, TooShortStep
<1>3. CASE RequestPID \/ AppendFirst \/ AppendConsecutive \/ AppendSingle
  <2>1. /\ lpc = "sweep" /\ lpc' = lpc /\ i' = i /\ entries' = entries /\ decoded' = decoded
    BY <1>3
    DEF RequestPID, AppendFirst, AppendConsecutive, AppendSingle, Comes, Take, listenerVars
  <2>2. i' = 0 /\ entries' = <<>> /\ lpc' = "sweep" /\ decoded' = <<>>
    BY <2>1 DEF ListenInv
  <2>3. vehicle_data' \in Seq(Byte)
    BY SweepStep DEF SweepInv, BytesInv
  <2>4. 0 <= n' /\ DroppedForCause'
    BY <2>2, <2>3, LenProperties DEF n, DroppedForCause
  <2>5. <<>> \in Seq(Seq(Byte))
    OBVIOUS
  <2> QED
    BY <2>2, <2>4, <2>5 DEF ListenInv
<1>4. CASE Deliver
  <2>1. /\ lpc = "sweep" /\ lpc' = "parse"
        /\ answers' = answers /\ asked' = asked /\ begins' = begins
        /\ vehicle_data' = vehicle_data /\ i' = i /\ entries' = entries /\ decoded' = decoded
    BY <1>4 DEF Deliver, carVars, sweepVars, listenerVars
  <2>2. ReportLaid
    BY <1>4, SweepDone
  <2>3. i = 0 /\ entries = <<>> /\ decoded = <<>>
    BY <2>1 DEF ListenInv
  <2>4. ReportLaid' /\ n' = n /\ DroppedForCause'
    BY <2>1, <2>2, LaidStays DEF DroppedForCause
  <2>5. Len(answers) \in Nat /\ Start(0) = 0
    BY <2>2, LenProperties DEF SweepInv, CarInv, ReportLaid
  <2>6. Reading
    <3>1. Len(entries) = 0 /\ DOMAIN decoded = {}
      BY <2>3
    <3>2. Firsts(0)
      BY <3>1 DEF Firsts
    <3> QED
      BY <2>3, <2>5, <3>1, <3>2 DEF Reading
  <2>7. Reading'
    BY <2>1, <2>6, ReadingStays
  <2> QED
    BY <2>1, <2>4, <2>7 DEF ListenInv
<1>5. CASE EndOfData \/ UNCHANGED vars
  <2>1. /\ answers' = answers /\ asked' = asked /\ begins' = begins
        /\ vehicle_data' = vehicle_data /\ i' = i /\ entries' = entries /\ decoded' = decoded
        /\ lpc' = lpc \/ (lpc = "parse" /\ i >= n /\ lpc' = "stored")
    BY <1>5 DEF EndOfData, vars, carVars, sweepVars, listenerVars
  <2>2. n' = n
    BY <2>1 DEF n
  <2>3. lpc # "sweep" => ReportLaid' /\ Reading'
    BY <2>1, LaidStays, ReadingStays DEF ListenInv
  <2>4. DroppedForCause'
    <3>1. AllSingle' <=> AllSingle
      BY <2>1 DEF AllSingle, Multi
    <3> QED
      BY <2>1, <3>1 DEF DroppedForCause, ListenInv
  <2>5. CASE lpc' = lpc
    BY <2>1, <2>2, <2>3, <2>4, <2>5 DEF ListenInv
  <2>6. CASE lpc = "parse" /\ i >= n /\ lpc' = "stored"
    <3>1. n \in Nat
      BY LenProperties DEF n, SweepInv, BytesInv
    <3>2. i' = n'
      BY <2>1, <2>2, <2>6, <3>1 DEF ListenInv
    <3> QED
      BY <2>1, <2>2, <2>3, <2>4, <2>6, <3>2 DEF ListenInv
  <2> QED
    BY <2>1, <2>5, <2>6
<1> QED
  BY <1>1, <1>2, <1>3, <1>4, <1>5 DEF Next

\* The two invariants hold in every reachable state.
LEMMA ReportInductive == Spec => [](SweepInv /\ ListenInv)
<1>1. ASSUME Init PROVE SweepInv /\ ListenInv
  <2>1. SweepInv
    BY <1>1, SweepInit
  <2>2. n = 0 /\ <<>> \in Seq(Seq(Byte)) /\ DroppedForCause
    BY <1>1 DEF Init, n, DroppedForCause
  <2> QED
    BY <1>1, <2>1, <2>2 DEF Init, ListenInv
<1>2. SweepInv /\ ListenInv /\ [Next]_vars => (SweepInv /\ ListenInv)'
  BY SweepStep, ListenStep
<1> QED
  BY <1>1, <1>2, PTL DEF Spec

-----------------------------------------------------------------------------
(* The theorems. *)

\* However the frames of the answers to one PID mix, an answer that no long one to the same
\* PID overlaps stands in the report whole, with nothing between its bytes and nothing
\* between it and its neighbours: a short one behind its length, a long one without length,
\* frame numbers or padding (main.c 421-464).
THEOREM UndisturbedStands == Spec => []UndisturbedWhole
<1>1. SweepInv /\ ListenInv => UndisturbedWhole
  <2> SUFFICES ASSUME SweepInv, ListenInv, lpc = "parse", NEW k \in DOMAIN answers,
                      Undisturbed(k)
               PROVE  SubSeq(vehicle_data, Start(k - 1) + 1, Start(k)) = Kept(k)
    BY DEF UndisturbedWhole
  <2>1. /\ k \in 1..Len(answers) /\ k - 1 \in Nat /\ k - 1 < Len(answers) /\ k - 1 + 1 = k
    BY LenProperties DEF SweepInv, CarInv
  <2>2. ReportLaid
    BY DEF ListenInv
  <2>3. /\ Start(k - 1) \in Nat /\ Start(k) \in Nat /\ Start(k) <= n
        /\ Start(k) = Start(k - 1) + Len(Kept(k))
        /\ LiesAt(Kept(k), vehicle_data, Start(k - 1))
        /\ answers[k] \in Answer
    BY <2>1, <2>2, AnswerSpan
  <2> DEFINE s == Kept(k)
             o == Start(k - 1)
             first == o + 1
             last == Start(k)
             m == Len(s)
  <2>4. s \in Seq(Byte) /\ m \in Nat
    BY <2>3, KeptType
  <2>5. /\ o \in Nat /\ last = o + m /\ last <= Len(vehicle_data)
        /\ \A j \in 1..m : vehicle_data[o + j] = s[j]
    BY <2>3 DEF LiesAt, n
  <2> HIDE DEF s, o, last, m
  <2>6. /\ first \in Nat /\ last \in Nat /\ 1 <= first /\ first + m = last + 1
        /\ \A j \in 1..m : first + j - 1 = o + j
    BY <2>4, <2>5
  <2> HIDE DEF first
  <2>7. vehicle_data \in Seq(Byte)
    BY DEF SweepInv, BytesInv
  <2>8. /\ SubSeq(vehicle_data, first, last) \in Seq(Byte)
        /\ Len(SubSeq(vehicle_data, first, last)) = m
        /\ \A j \in 1..m : SubSeq(vehicle_data, first, last)[j] = vehicle_data[first + j - 1]
    BY ONLY <2>4, <2>5, <2>6, <2>7, Slice
  <2>9. \A j \in 1..m : SubSeq(vehicle_data, first, last)[j] = s[j]
    BY <2>5, <2>6, <2>8
  <2>10. SubSeq(vehicle_data, first, last) = s
    BY <2>4, <2>8, <2>9, SeqEqual DEF m
  <2> QED
    BY <2>10 DEF s, o, first, last
<1> QED
  BY <1>1, ReportInductive, PTL

\* Behind answers of one frame each the listener is not done before it has read them.
LEMMA PrefixRead ==
  ASSUME SweepInv, ListenInv, lpc = "stored", NEW k \in 1..Len(answers), Singles(k)
  PROVE  k <= Len(entries)
<1> PICK e \in Nat : e = Len(entries)
  BY LenProperties DEF ListenInv
<1>1. Len(answers) \in Nat /\ answers \in Seq(Answer) /\ ReportLaid /\ Reading /\ i = n
  BY LenProperties DEF SweepInv, CarInv, ListenInv
<1> SUFFICES ASSUME ~(k <= e) PROVE FALSE
  OBVIOUS
<1>2. e < Len(answers) /\ e + 1 \in 1..Len(answers) /\ Singles(e) /\ Singles(e + 1)
  BY <1>1 DEF Singles
<1>3. i = Start(e)
  BY <1>1, <1>2 DEF Reading
<1>4. Undisturbed(e + 1)
  BY <1>1, <1>2, SinglesUndisturbed
<1>5. Start(e) \in Nat /\ Start(e + 1) \in Nat /\ Start(e) < Start(e + 1) /\ Start(e + 1) <= n
  BY <1>1, <1>2, <1>4, AnswerSpan
<1>6. n \in Nat
  BY LenProperties DEF SweepInv, BytesInv, n
<1> QED
  BY <1>1, <1>3, <1>5, <1>6

\* The answers before the first one of several frames reach the listener whatever comes
\* after them, in order and unchanged (server.py 311-321).
THEOREM PrefixReaches == Spec => []PrefixIntact
<1>1. SweepInv /\ ListenInv => PrefixIntact
  <2> SUFFICES ASSUME SweepInv, ListenInv, lpc = "stored", NEW k \in DOMAIN answers,
                      \A j \in 1..k : ~Multi(j)
               PROVE  k \in DOMAIN entries /\ entries[k] = Framed(answers[k])
    BY DEF PrefixIntact
  <2>1. /\ Len(entries) \in Nat /\ DOMAIN entries = 1..Len(entries)
        /\ Len(answers) \in Nat /\ DOMAIN answers = 1..Len(answers)
    BY LenProperties DEF ListenInv, SweepInv, CarInv
  <2>2. k \in 1..Len(answers) /\ Singles(k)
    BY <2>1 DEF Singles
  <2>3. k \in 1..Len(entries)
    BY <2>1, <2>2, PrefixRead
  <2> QED
    BY <2>1, <2>2, <2>3 DEF ListenInv, Reading
<1> QED
  BY <1>1, ReportInductive, PTL

\* In a report of single frames the row holds, for each parameter some answer gives and for
\* no other, the value of the first answer that gives it, whatever parameters the same or
\* other answers lack (server.py 186-216, 327-334).
THEOREM FirstAnswerStays == Spec => []FirstAnswerWins
<1>1. SweepInv /\ ListenInv => FirstAnswerWins
  <2> SUFFICES ASSUME SweepInv, ListenInv, lpc = "stored", AllSingle, NEW q \in Parameters
               PROVE  LET gives == {k \in DOMAIN answers : q \in Given(Framed(answers[k]))}
                      IN  /\ q \in DOMAIN decoded <=> gives # {}
                          /\ \A k \in gives : (\A j \in gives : k <= j)
                                => decoded[q] = ValueOf(Framed(answers[k]), q)
    BY DEF FirstAnswerWins
  <2> DEFINE gives == {k \in DOMAIN answers : q \in Given(Framed(answers[k]))}
  <2> PICK m \in Nat : m = Len(answers)
    BY LenProperties DEF SweepInv, CarInv
  <2>1. Len(entries) \in Nat /\ DOMAIN answers = 1..m
    BY LenProperties DEF ListenInv, SweepInv, CarInv
  <2>2. Len(entries) <= m /\ Firsts(Len(entries))
    BY DEF ListenInv, Reading
  <2>3. Len(entries) = m
    <3>1. CASE m = 0
      BY <2>1, <2>2, <3>1
    <3>2. CASE m # 0
      <4>1. m \in 1..Len(answers) /\ Singles(m)
        BY <2>1, <3>2 DEF Singles, AllSingle
      <4>2. m <= Len(entries)
        BY <4>1, PrefixRead
      <4> QED
        BY <2>1, <2>2, <4>2
    <3> QED
      BY <3>1, <3>2
  <2>4. /\ q \in DOMAIN decoded <=> \E k \in 1..m : Gives(k, q)
        /\ \A k \in 1..m : Gives(k, q) /\ (\A j \in 1..k - 1 : ~Gives(j, q))
                             => decoded[q] = ValueOf(Framed(answers[k]), q)
    BY <2>2, <2>3 DEF Firsts
  <2>5. \A k : k \in gives <=> k \in 1..m /\ Gives(k, q)
    BY <2>1 DEF Gives
  <2>6. ASSUME NEW k \in gives, \A j \in gives : k <= j
        PROVE  decoded[q] = ValueOf(Framed(answers[k]), q)
    <3> HIDE DEF gives
    <3>1. k \in 1..m /\ Gives(k, q)
      BY <2>5
    <3>2. ASSUME NEW j \in 1..k - 1 PROVE ~Gives(j, q)
      <4>1. j \in 1..m /\ ~(k <= j)
        BY <3>1
      <4> QED
        BY <2>5, <2>6, <4>1
    <3> QED
      BY <2>4, <3>1, <3>2
  <2>7. q \in DOMAIN decoded <=> gives # {}
    <3> HIDE DEF gives
    <3> QED
      BY <2>4, <2>5
  <2> QED
    BY <2>6, <2>7
<1> QED
  BY <1>1, ReportInductive, PTL

\* A report of single frames is given up only for an answer that lacks, by itself, a byte
\* decodePID reads (server.py 314-321, 352).
THEOREM DroppedOnlyForCause == Spec => []DroppedForCause
<1>1. ListenInv => DroppedForCause
  BY DEF ListenInv
<1> QED
  BY <1>1, ReportInductive, PTL
=============================================================================
