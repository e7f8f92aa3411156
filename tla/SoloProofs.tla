----------------------------- MODULE SoloProofs -----------------------------
(***************************************************************************)
(* The programs that run by themselves, for every size of their queues,    *)
(* every car and every bound on the faults.                                *)
(***************************************************************************)
EXTENDS MCSolo, GnssProofs, ScreenProofs, FiniteSetTheorems, SequenceTheorems, TLAPS

-----------------------------------------------------------------------------
(* The MCP2515 prototype: for every size of the queue and both builds, the *)
(* LED shows the last frame that found room whenever nothing is under way, *)
(* and no bus-off is missed.                                               *)

\* What the LED will show when the queue has been drained.
Upcoming(queue, pin) == IF queue = <<>> THEN pin ELSE queue[Len(queue)]

\* The inductive invariant of the LED: what is yet to be applied ends with the last
\* frame, and polling is only armed over an empty queue.
LedInv == /\ ledMsgq \in Seq(0..1)
          /\ lastLed = Upcoming(ledMsgq, ledPin)
          /\ ledWork = "armed" => ledMsgq = <<>>

\* A queue that a frame was put into ends with it.
LEMMA UpcomingAppend ==
  ASSUME NEW q \in Seq(0..1), NEW v \in 0..1, NEW pin
  PROVE  Append(q, v) \in Seq(0..1) /\ Append(q, v) # <<>> /\ Upcoming(Append(q, v), pin) = v
  BY DEF Upcoming

\* Taking a frame and setting the LED to it changes nothing of what it will show.
LEMMA UpcomingTail ==
  ASSUME NEW q \in Seq(0..1), q # <<>>, NEW pin
  PROVE  Tail(q) \in Seq(0..1) /\ Upcoming(Tail(q), Head(q)) = Upcoming(q, pin)
<1>1. Len(q) \in Nat \ {0} /\ Tail(q) \in Seq(0..1) /\ Len(Tail(q)) = Len(q) - 1
  BY EmptySeq
<1>2. \A i \in 1..Len(Tail(q)) : Tail(q)[i] = q[i + 1]
  BY HeadTailProperties
<1>3. Tail(q) = <<>> \/ Len(Tail(q)) \in Nat \ {0}
  BY <1>1, EmptySeq
<1>4. CASE Tail(q) = <<>>
  <2>1. Len(q) = 1 /\ Head(q) = q[1]
    BY <1>1, <1>4
  <2> QED
    BY <1>1, <1>4, <2>1 DEF Upcoming
<1>5. CASE Tail(q) # <<>>
  <2>1. Tail(q)[Len(Tail(q))] = q[Len(q)]
    BY <1>1, <1>2, <1>3, <1>5
  <2> QED
    BY <1>1, <1>5, <2>1 DEF Upcoming
<1> QED
  BY <1>4, <1>5

\* The steps that leave the LED's variables alone, or only start and end the work.
LEMMA LedUntouched ==
  ASSUME LedInv, ledMsgq' = ledMsgq, lastLed' = lastLed, ledPin' = ledPin,
         ledWork' = "armed" => ledMsgq = <<>>
  PROVE  LedInv'
  BY DEF LedInv, Upcoming

LEMMA LedStep == LedInv /\ [McNext]_mcVars => LedInv'
<1> SUFFICES ASSUME LedInv, [McNext]_mcVars PROVE LedInv'
  OBVIOUS
<1>1. CASE McStart
  <2>1. ledWork' \in {ledWork, Poll(ledMsgq)}
    BY <1>1 DEF McStart
  <2> QED
    BY <1>1, <2>1, LedUntouched DEF McStart, LedInv, Poll
<1>2. CASE \E value \in 0..1 : LedFrame(value)
  <2> PICK value \in 0..1 : LedFrame(value)
    BY <1>2
  <2>1. CASE Len(ledMsgq) < LedQueue
    <3>1. /\ ledMsgq' = Append(ledMsgq, value) /\ lastLed' = value
          /\ ledWork' # "armed"
      BY <2>1 DEF LedFrame
    <3> QED
      BY <3>1, UpcomingAppend DEF LedInv
  <2>2. CASE ~(Len(ledMsgq) < LedQueue)
    BY <2>2, LedUntouched DEF LedFrame, LedInv
  <2> QED
    BY <2>1, <2>2
<1>3. CASE TakeLed
  <2>1. ledMsgq' = Tail(ledMsgq) /\ ledPin' = Head(ledMsgq) /\ ledMsgq # <<>>
    BY <1>3 DEF TakeLed
  <2>2. lastLed' = lastLed /\ ledWork' = ledWork
    BY <1>3 DEF TakeLed
  <2> QED
    BY <2>1, <2>2, UpcomingTail DEF LedInv
<1>4. CASE ResubmitPoll
  <2>1. ledWork' = "armed" => ledMsgq = <<>>
    BY <1>4 DEF ResubmitPoll, Poll
  <2> QED
    BY <1>4, <2>1, LedUntouched DEF ResubmitPoll
<1>5. CASE StartLedWork
  BY <1>5, LedUntouched DEF StartLedWork
<1>6. CASE UNCHANGED ledVars
  BY <1>6, LedUntouched DEF ledVars, LedInv
<1>7. SendLed \/ SendCounter \/ Transmitted \/ CounterFrame \/ RxCounter => UNCHANGED ledVars
  BY DEF SendLed, SendCounter, Transmitted, CounterFrame, RxCounter
<1>8. LedDrained \/ StartStateWork \/ Recover \/ PollState => UNCHANGED ledVars
  BY DEF LedDrained, StartStateWork, Recover, PollState
<1>9. (\E state \in CanStates : StateChange(state)) => UNCHANGED ledVars
  BY DEF StateChange
<1>10. UNCHANGED mcVars => UNCHANGED ledVars
  BY DEF mcVars, ledVars
<1> QED
  BY <1>1, <1>2, <1>3, <1>4, <1>5, <1>6, <1>7, <1>8, <1>9, <1>10
  DEF McNext, McMain, McWork

\* The LED never stays behind the last frame that found room.
THEOREM LedFollows == McSpec => []LedLatest
<1>1. McInit => LedInv
  BY DEF McInit, McIdle, LedInv, Upcoming
<1>2. LedInv => LedLatest
  BY DEF LedInv, LedLatest, Upcoming
<1> QED
  BY <1>1, <1>2, LedStep, PTL DEF McSpec

-----------------------------------------------------------------------------
\* The inductive invariant of the recovery: the callback's variable is the state of
\* the controller, whoever changed it.
StateInv == currentState = canState /\ BusOffHandled

LEMMA StateStep == StateInv /\ [McNext]_mcVars => StateInv'
<1> SUFFICES ASSUME StateInv, [McNext]_mcVars PROVE StateInv'
  OBVIOUS
<1> USE DEF StateInv, BusOffHandled
<1>1. CASE \E state \in CanStates : StateChange(state)
  BY <1>1 DEF StateChange
<1>2. CASE StartStateWork
  BY <1>2 DEF StartStateWork
<1>3. CASE Recover
  BY <1>3 DEF Recover
<1>4. CASE StartLedWork \/ LedDrained \/ ResubmitPoll
  BY <1>4 DEF StartLedWork, LedDrained, ResubmitPoll, stateVars
<1>5. CASE UNCHANGED <<stateVars, workq, autoRecovery>>
  BY <1>5 DEF stateVars
<1>6. McMain \/ TakeLed \/ RxCounter \/ PollState => UNCHANGED <<stateVars, workq, autoRecovery>>
  BY DEF McMain, McStart, SendLed, SendCounter, TakeLed, RxCounter, PollState
<1>7. Transmitted \/ CounterFrame \/ (\E value \in 0..1 : LedFrame(value))
        => UNCHANGED <<stateVars, workq, autoRecovery>>
  BY DEF Transmitted, CounterFrame, LedFrame
<1>8. UNCHANGED mcVars => UNCHANGED <<stateVars, workq, autoRecovery>>
  BY DEF mcVars, stateVars
<1> QED
  BY <1>1, <1>2, <1>3, <1>4, <1>5, <1>6, <1>7, <1>8 DEF McNext, McWork

\* A bus-off is handled or its recovery has timed out, although the work of
\* several changes of state is submitted once.
THEOREM Recovered == McSpec => []BusOffHandled
<1>1. McInit => StateInv
  BY DEF McInit, McIdle, StateInv, BusOffHandled
<1>2. StateInv => BusOffHandled
  BY DEF StateInv
<1> QED
  BY <1>1, <1>2, StateStep, PTL DEF McSpec

-----------------------------------------------------------------------------
(* The sample a bench round prints. *)

\* Between its two lines main has not asked for a sample, so the trigger handler
\* leaves the values alone.
SampleInv ==
  (testPc = "gyro" /\ ~overdue) => printed = sampleOut /\ ~printSamples

\* The acceleration and the rotation a round of lsm6dsl or imu_can prints are of one
\* sample, without a lock, as long as the sensor never misses a round.
THEOREM SampleNotTorn == TestSpec => []SampleWhole
<1>1. TestInit => SampleInv
  BY DEF TestInit, SampleInv
<1>2. SampleInv /\ [TestNext]_<<carVars, testVars>> => SampleInv'
  <2> SUFFICES ASSUME SampleInv, [TestNext]_<<carVars, testVars>> PROVE SampleInv'
    OBVIOUS
  <2>1. CASE TestSetup
    <3>1. testPc' \in {RoundStart, "returned"}
      BY <2>1 DEF TestSetup, TestGo
    <3>2. testPc' # "gyro"
      BY <3>1 DEF RoundStart
    <3> QED
      BY <3>2 DEF SampleInv
  <2>2. CASE PrintAccel
    BY <2>2 DEF PrintAccel, SampleInv
  <2>3. CASE PrintGyro
    <3>1. testPc' \in {IF HasCan THEN "ask" ELSE "accel"}
      BY <2>3 DEF PrintGyro, TestGo
    <3> QED
      BY <3>1 DEF SampleInv
  <2>4. CASE ObdRequests
    BY <2>4 DEF ObdRequests, TestGo, SampleInv
  <2>5. CASE DrainAnswers
    <3>1. testPc' \in {"drain", RoundStart}
      BY <2>5 DEF DrainAnswers, TestGo
    <3> QED
      BY <3>1 DEF RoundStart, SampleInv
  <2>6. CASE Trigger
    BY <2>6 DEF Trigger, SampleInv
  <2>7. CASE TestReceive
    BY <2>7 DEF TestReceive, testVars, SampleInv
  <2>8. CASE TestBusOff
    BY <2>8 DEF TestBusOff, imuVars, SampleInv
  <2>9. CASE UNCHANGED <<carVars, testVars>>
    BY <2>9 DEF testVars, SampleInv
  <2> QED
    BY <2>1, <2>2, <2>3, <2>4, <2>5, <2>6, <2>7, <2>8, <2>9 DEF TestNext, TestMain
<1>3. SampleInv => SampleWhole
  BY DEF SampleInv, SampleWhole
<1> QED
  BY <1>1, <1>2, <1>3, PTL DEF TestSpec

-----------------------------------------------------------------------------
(* The CAN link of the prototype and the bench programs. *)

BusFrame == [fmt : Formats, pid : Int, part : Nat, kind : {"single", "first", "next"}, age : Nat]

BusType ==
  /\ car \in Cars
  /\ obdMsgq \in Seq(BusFrame) /\ onBus \in Seq(BusFrame)
  /\ faults \in 0..MaxFaults /\ stale \in Nat

\* The frames main has not taken yet, in the order in which it will take them.
Coming == obdMsgq \o onBus

\* What an operation does to the frames that are coming: it takes the first, loses
\* the one at d, or makes them older and adds fresh ones.
FirstTaken(s, t) == /\ s # <<>> /\ Len(t) = Len(s) - 1
                    /\ \A i \in 1..Len(t) : t[i] = s[i + 1]
OneLost(s, t, d) == /\ d \in 1..Len(s) /\ Len(t) = Len(s) - 1
                    /\ \A i \in 1..Len(t) : t[i] = IF i < d THEN s[i] ELSE s[i + 1]
Fresh(s, t, fmts, pid, n) ==
  /\ n \in Nat /\ Len(t) = Len(s) + n
  /\ \A i \in 1..Len(s) : t[i] = [s[i] EXCEPT !.age = Counted(@)]
  /\ \A i \in (Len(s) + 1)..(Len(s) + n) :
       /\ t[i].fmt \in fmts /\ t[i].pid = pid /\ t[i].age = 0 /\ t[i].kind # "next"

\* Concatenation, and what Head and Tail do to it.
LEMMA Concat ==
  ASSUME NEW S, NEW s \in Seq(S), NEW t \in Seq(S)
  PROVE  /\ s \o t \in Seq(S) /\ Len(s) \in Nat /\ Len(t) \in Nat
         /\ Len(s \o t) = Len(s) + Len(t)
         /\ \A i \in 1..Len(s) : (s \o t)[i] = s[i]
         /\ \A i \in 1..Len(t) : (s \o t)[Len(s) + i] = t[i]
         /\ s \o t = <<>> <=> s = <<>> /\ t = <<>>
<1>1. Len(s) \in Nat /\ Len(t) \in Nat
  BY LenProperties
<1>2. /\ s \o t \in Seq(S) /\ Len(s \o t) = Len(s) + Len(t)
      /\ \A i \in 1..Len(s) + Len(t) : (s \o t)[i] = IF i <= Len(s) THEN s[i] ELSE t[i - Len(s)]
  BY ConcatProperties
<1>3. \A i \in 1..Len(s) : (s \o t)[i] = s[i]
  BY <1>1, <1>2
<1>4. ASSUME NEW i \in 1..Len(t) PROVE (s \o t)[Len(s) + i] = t[i]
  <2>1. /\ Len(s) + i \in 1..Len(s) + Len(t) /\ ~(Len(s) + i <= Len(s))
        /\ Len(s) + i - Len(s) = i
    BY <1>1
  <2> QED
    BY <1>2, <2>1
<1> QED
  BY <1>1, <1>2, <1>3, <1>4, ConcatEqualIffEmpty

\* Taking the head of the queue takes the first frame that is coming.
LEMMA HeadTaken ==
  ASSUME NEW S, NEW q \in Seq(S), NEW b \in Seq(S), q # <<>>
  PROVE  /\ Tail(q) \in Seq(S) /\ Head(q) \in S
         /\ Head(q) = (q \o b)[1]
         /\ FirstTaken(q \o b, Tail(q) \o b)
<1>1. /\ Tail(q) \in Seq(S) /\ Head(q) \in S /\ Head(q) = q[1]
      /\ Len(q) \in Nat \ {0} /\ Len(Tail(q)) = Len(q) - 1
      /\ \A i \in 1..Len(Tail(q)) : Tail(q)[i] = q[i + 1]
  BY HeadTailProperties, EmptySeq
<1>2. Len(b) \in Nat
  BY LenProperties
<1>3. ASSUME NEW i \in 1..Len(Tail(q) \o b) PROVE (Tail(q) \o b)[i] = (q \o b)[i + 1]
  <2>0. i \in 1..(Len(q) - 1) + Len(b)
    BY <1>1, Concat
  <2>1. CASE i \in 1..Len(Tail(q))
    <3>1. i + 1 \in 1..Len(q)
      BY <1>1, <2>1
    <3> QED
      BY <1>1, <2>1, <3>1, Concat
  <2>2. CASE i \notin 1..Len(Tail(q))
    <3>1. PICK j \in 1..Len(b) : i = Len(Tail(q)) + j
      <4>1. i - Len(Tail(q)) \in 1..Len(b) /\ i = Len(Tail(q)) + (i - Len(Tail(q)))
        BY <1>1, <1>2, <2>0, <2>2
      <4> QED
        BY <4>1
    <3>2. i + 1 = Len(q) + j
      BY <1>1, <3>1
    <3> QED
      BY <1>1, <3>1, <3>2, Concat
  <2> QED
    BY <2>1, <2>2
<1>4. q \o b # <<>> /\ Len(Tail(q) \o b) = Len(q \o b) - 1
  BY <1>1, <1>2, Concat
<1> QED
  BY <1>1, <1>3, <1>4, Concat DEF FirstTaken

\* A frame that moves from the bus to the queue stays where it is in the order.
LEMMA Moved ==
  ASSUME NEW S, NEW q \in Seq(S), NEW b \in Seq(S), b # <<>>
  PROVE  /\ Append(q, Head(b)) \in Seq(S) /\ Tail(b) \in Seq(S)
         /\ Append(q, Head(b)) \o Tail(b) = q \o b
<1>1. /\ Tail(b) \in Seq(S) /\ Head(b) \in S /\ Head(b) = b[1]
      /\ Len(b) \in Nat \ {0} /\ Len(Tail(b)) = Len(b) - 1
      /\ \A i \in 1..Len(Tail(b)) : Tail(b)[i] = b[i + 1]
  BY HeadTailProperties, EmptySeq
<1>2. /\ Append(q, Head(b)) \in Seq(S) /\ Len(Append(q, Head(b))) = Len(q) + 1
      /\ \A i \in 1..Len(q) : Append(q, Head(b))[i] = q[i]
      /\ Append(q, Head(b))[Len(q) + 1] = Head(b) /\ Len(q) \in Nat
  BY <1>1
<1> DEFINE s == Append(q, Head(b)) \o Tail(b)
           t == q \o b
<1>3. s \in Seq(S) /\ t \in Seq(S) /\ Len(s) = Len(t) /\ Len(t) = Len(q) + Len(b)
  BY <1>1, <1>2, Concat
<1>4. ASSUME NEW i \in 1..Len(t) PROVE s[i] = t[i]
  <2>1. CASE i <= Len(q)
    <3>1. i \in 1..Len(q) /\ i \in 1..Len(Append(q, Head(b)))
      BY <1>2, <2>1
    <3> QED
      BY <1>1, <1>2, <3>1, Concat
  <2>2. CASE i = Len(q) + 1
    <3>1. i \in 1..Len(Append(q, Head(b))) /\ 1 \in 1..Len(b)
      BY <1>1, <1>2, <2>2
    <3> QED
      BY <1>1, <1>2, <2>2, <3>1, Concat
  <2>3. CASE i > Len(q) + 1
    <3>1. PICK j \in 1..Len(Tail(b)) : i = Len(q) + 1 + j
      <4>1. i - Len(q) - 1 \in 1..Len(Tail(b)) /\ i = Len(q) + 1 + (i - Len(q) - 1)
        BY <1>1, <1>2, <1>3, <2>3
      <4> QED
        BY <4>1
    <3>2. i = Len(q) + (j + 1) /\ j + 1 \in 1..Len(b) /\ i = Len(Append(q, Head(b))) + j
      BY <1>1, <1>2, <3>1
    <3> QED
      BY <1>1, <1>2, <3>1, <3>2, Concat
  <2> QED
    BY <1>2, <1>3, <2>1, <2>2, <2>3
<1> QED
  BY <1>1, <1>2, <1>3, <1>4, SeqEqual

\* A frame the queue has no room for is the one lost.
LEMMA Dropped ==
  ASSUME NEW S, NEW q \in Seq(S), NEW b \in Seq(S), b # <<>>
  PROVE  Tail(b) \in Seq(S) /\ OneLost(q \o b, q \o Tail(b), Len(q) + 1)
<1>1. /\ Tail(b) \in Seq(S) /\ Len(b) \in Nat \ {0} /\ Len(Tail(b)) = Len(b) - 1
      /\ \A i \in 1..Len(Tail(b)) : Tail(b)[i] = b[i + 1]
      /\ Len(q) \in Nat
  BY HeadTailProperties, EmptySeq, LenProperties
<1>2. /\ Len(q) + 1 \in 1..Len(q \o b) /\ Len(q \o Tail(b)) = Len(q \o b) - 1
      /\ Len(q \o Tail(b)) = Len(q) + Len(Tail(b))
  BY <1>1, Concat
<1>3. ASSUME NEW i \in 1..Len(q \o Tail(b))
      PROVE  (q \o Tail(b))[i] = IF i < Len(q) + 1 THEN (q \o b)[i] ELSE (q \o b)[i + 1]
  <2>1. CASE i < Len(q) + 1
    <3>1. i \in 1..Len(q)
      BY <1>1, <2>1
    <3> QED
      BY <1>1, <2>1, <3>1, Concat
  <2>2. CASE ~(i < Len(q) + 1)
    <3>1. PICK j \in 1..Len(Tail(b)) : i = Len(q) + j
      <4>1. i - Len(q) \in 1..Len(Tail(b)) /\ i = Len(q) + (i - Len(q))
        BY <1>1, <1>2, <2>2
      <4> QED
        BY <4>1
    <3>2. i + 1 = Len(q) + (j + 1) /\ j + 1 \in 1..Len(b)
      BY <1>1, <3>1
    <3>3. (q \o Tail(b))[i] = Tail(b)[j] /\ (q \o b)[i + 1] = b[j + 1]
      BY <1>1, <3>1, <3>2, Concat
    <3> QED
      BY <1>1, <2>2, <3>3
  <2> QED
    BY <2>1, <2>2
<1> QED
  BY <1>1, <1>2, <1>3 DEF OneLost

\* What the requests of one round bring: one frame for each format that answers.
Number(fmts, pid) == (IF "std" \in fmts /\ Answers("std", pid) THEN 1 ELSE 0)
                     + (IF "ext" \in fmts /\ Answers("ext", pid) THEN 1 ELSE 0)

\* One more request: counted, as far as the histories count.
LEMMA CountedType ==
  ASSUME NEW n \in Nat
  PROVE  Counted(n) \in Nat /\ Counted(n) <= n + 1 /\ Counted(n) >= n /\ Counted(n) > 0
  BY CarBusAssumption DEF Counted

\* A frame that grows older stays a frame.
LEMMA OlderFrame ==
  ASSUME NEW x \in BusFrame
  PROVE  [x EXCEPT !.age = Counted(@)] \in BusFrame
<1>1. x.age \in Nat
  BY DEF BusFrame
<1> QED
  BY <1>1, CountedType DEF BusFrame

\* A queue whose frames grow older.
LEMMA OlderSeq ==
  ASSUME NEW q \in Seq(BusFrame)
  PROVE  /\ Older(q) \in Seq(BusFrame) /\ Len(Older(q)) = Len(q)
         /\ \A i \in 1..Len(q) : Older(q)[i] = [q[i] EXCEPT !.age = Counted(@)]
<1>1. DOMAIN q = 1..Len(q) /\ Len(q) \in Nat /\ \A i \in 1..Len(q) : q[i] \in BusFrame
  BY LenProperties
<1>2. \A i \in 1..Len(q) : [q[i] EXCEPT !.age = Counted(@)] \in BusFrame
  BY <1>1, OlderFrame
<1>3. Older(q) = [i \in 1..Len(q) |-> [q[i] EXCEPT !.age = Counted(@)]]
  BY <1>1 DEF Older
<1>4. Older(q) \in Seq(BusFrame)
  BY <1>1, <1>2, <1>3
<1>5. DOMAIN Older(q) = 1..Len(q) /\ DOMAIN Older(q) = 1..Len(Older(q)) /\ Len(Older(q)) \in Nat
  BY <1>3, <1>4, LenProperties
<1> QED
  BY <1>1, <1>3, <1>4, <1>5

\* The answer of one format.
LEMMA AnswerOne ==
  ASSUME NEW fmt \in Formats, NEW pid \in Int
  PROVE  /\ Answer(fmt, pid) \in Seq(BusFrame)
         /\ Len(Answer(fmt, pid)) = IF Answers(fmt, pid) THEN 1 ELSE 0
         /\ \A i \in 1..Len(Answer(fmt, pid)) :
              /\ Answer(fmt, pid)[i].fmt = fmt /\ Answer(fmt, pid)[i].pid = pid
              /\ Answer(fmt, pid)[i].age = 0 /\ Answer(fmt, pid)[i].kind # "next"
<1> DEFINE x == Frame(fmt, pid, 1, IF IsLong(pid) THEN "first" ELSE "single")
<1>1. x \in BusFrame /\ x.fmt = fmt /\ x.pid = pid /\ x.age = 0 /\ x.kind # "next"
  BY DEF Frame, BusFrame
<1>2. Answer(fmt, pid) = IF ~Answers(fmt, pid) THEN <<>> ELSE <<x>>
  BY DEF Answer
<1> HIDE DEF x
<1>3. /\ <<x>> \in Seq(BusFrame) /\ Len(<<x>>) = 1 /\ \A i \in 1..1 : <<x>>[i] = x
      /\ <<>> \in Seq(BusFrame) /\ Len(<<>>) = 0
  BY <1>1
<1> QED
  BY <1>1, <1>2, <1>3

\* The answers of both formats to one round of requests: fresh beginnings of answers.
Replies(fmts, pid) == (IF "std" \in fmts THEN Answer("std", pid) ELSE <<>>)
                      \o (IF "ext" \in fmts THEN Answer("ext", pid) ELSE <<>>)
Brought(a, fmts, pid) ==
  \A i \in 1..Len(a) : a[i].fmt \in fmts /\ a[i].pid = pid /\ a[i].age = 0 /\ a[i].kind # "next"

\* The answers of both formats together.
LEMMA AnswerBoth ==
  ASSUME NEW fmts \in SUBSET Formats, NEW pid \in Int
  PROVE  /\ Replies(fmts, pid) \in Seq(BusFrame)
         /\ Len(Replies(fmts, pid)) = Number(fmts, pid) /\ Number(fmts, pid) \in Nat
         /\ Brought(Replies(fmts, pid), fmts, pid)
<1> DEFINE s == IF "std" \in fmts THEN Answer("std", pid) ELSE <<>>
           e == IF "ext" \in fmts THEN Answer("ext", pid) ELSE <<>>
           Good(x) == /\ x.fmt \in fmts /\ x.pid = pid /\ x.age = 0 /\ x.kind # "next"
<1>1. <<>> \in Seq(BusFrame) /\ Len(<<>>) = 0
  OBVIOUS
<1>2. /\ s \in Seq(BusFrame) /\ Len(s) = IF "std" \in fmts /\ Answers("std", pid) THEN 1 ELSE 0
      /\ \A i \in 1..Len(s) : Good(s[i])
  <2>0. "std" \in Formats
    BY DEF Formats
  <2>1. CASE "std" \in fmts
    <3>1. s = Answer("std", pid)
      BY <2>1
    <3> QED
      BY <2>0, <2>1, <3>1, AnswerOne
  <2>2. CASE "std" \notin fmts
    <3>1. s = <<>>
      BY <2>2
    <3> QED
      BY <1>1, <2>2, <3>1
  <2> QED
    BY <2>1, <2>2
<1>3. /\ e \in Seq(BusFrame) /\ Len(e) = IF "ext" \in fmts /\ Answers("ext", pid) THEN 1 ELSE 0
      /\ \A i \in 1..Len(e) : Good(e[i])
  <2>0. "ext" \in Formats
    BY DEF Formats
  <2>1. CASE "ext" \in fmts
    <3>1. e = Answer("ext", pid)
      BY <2>1
    <3> QED
      BY <2>0, <2>1, <3>1, AnswerOne
  <2>2. CASE "ext" \notin fmts
    <3>1. e = <<>>
      BY <2>2
    <3> QED
      BY <1>1, <2>2, <3>1
  <2> QED
    BY <2>1, <2>2
<1> HIDE DEF s, e, Good
<1>4. s \o e \in Seq(BusFrame) /\ Len(s \o e) = Len(s) + Len(e)
  BY <1>2, <1>3, Concat
<1>5. ASSUME NEW i \in 1..Len(s \o e) PROVE Good((s \o e)[i])
  <2>1. CASE i \in 1..Len(s)
    BY <1>2, <1>3, <2>1, Concat
  <2>2. CASE i \notin 1..Len(s)
    <3>1. PICK j \in 1..Len(e) : i = Len(s) + j
      <4>1. i - Len(s) \in 1..Len(e) /\ i = Len(s) + (i - Len(s))
        BY <1>2, <1>3, <1>4, <2>2
      <4> QED
        BY <4>1
    <3> QED
      BY <1>2, <1>3, <3>1, Concat
  <2> QED
    BY <2>1, <2>2
<1>6. Len(s \o e) = Number(fmts, pid) /\ Number(fmts, pid) \in Nat
  BY <1>2, <1>3, <1>4 DEF Number
<1> QED
  BY <1>4, <1>5, <1>6 DEF s, e, Good, Replies, Brought

\* The order of the frames is one order, however they are grouped.
LEMMA Regroup == \A q, b, a \in Seq(BusFrame) : (q \o b) \o a = q \o (b \o a)
<1> SUFFICES ASSUME NEW q \in Seq(BusFrame), NEW b \in Seq(BusFrame), NEW a \in Seq(BusFrame)
             PROVE  (q \o b) \o a = q \o (b \o a)
  OBVIOUS
<1> QED
  BY ConcatAssociative

\* Requests make everything older; what they bring comes last.
AgedTo(q, o) == Len(o) = Len(q) /\ \A i \in 1..Len(q) : o[i] = [q[i] EXCEPT !.age = Counted(@)]

\* What is coming, when both queues grow older and answers come behind.
LEMMA AgedConcat ==
  ASSUME NEW q \in Seq(BusFrame), NEW b \in Seq(BusFrame), NEW a \in Seq(BusFrame),
         NEW oq \in Seq(BusFrame), NEW ob \in Seq(BusFrame), AgedTo(q, oq), AgedTo(b, ob),
         NEW fmts, NEW pid, Brought(a, fmts, pid)
  PROVE  ob \o a \in Seq(BusFrame) /\ Fresh(q \o b, oq \o (ob \o a), fmts, pid, Len(a))
<1> DEFINE s == q \o b
           o == oq \o ob
           t == oq \o (ob \o a)
<1>0. /\ \A i \in 1..Len(q) : oq[i] = [q[i] EXCEPT !.age = Counted(@)]
      /\ \A i \in 1..Len(b) : ob[i] = [b[i] EXCEPT !.age = Counted(@)]
  BY DEF AgedTo
<1>1. /\ Len(oq) = Len(q) /\ Len(ob) = Len(b)
      /\ Len(q) \in Nat /\ Len(b) \in Nat /\ Len(a) \in Nat
  BY LenProperties DEF AgedTo
<1>2. /\ s \in Seq(BusFrame) /\ o \in Seq(BusFrame) /\ Len(s) = Len(q) + Len(b) /\ Len(o) = Len(s)
      /\ ob \o a \in Seq(BusFrame)
  <2>1. s \in Seq(BusFrame) /\ Len(s) = Len(q) + Len(b)
    BY Concat
  <2>2. o \in Seq(BusFrame) /\ Len(o) = Len(oq) + Len(ob)
    BY ConcatProperties
  <2>3. ob \o a \in Seq(BusFrame)
    BY <1>1, Concat
  <2> HIDE DEF s, o, t
  <2> QED
    BY <1>1, <2>1, <2>2, <2>3
<1>3. ASSUME NEW i \in 1..Len(s) PROVE o[i] = [s[i] EXCEPT !.age = Counted(@)]
  <2>1. CASE i \in 1..Len(q)
    <3>1. s[i] = q[i] /\ o[i] = oq[i]
      BY <1>1, <2>1, Concat
    <3> QED
      BY <1>0, <2>1, <3>1
  <2>2. CASE i \notin 1..Len(q)
    <3>1. PICK j \in 1..Len(b) : i = Len(q) + j
      <4>1. i - Len(q) \in 1..Len(b) /\ i = Len(q) + (i - Len(q))
        BY <1>1, <1>2, <2>2
      <4> QED
        BY <4>1
    <3>2. s[i] = b[j] /\ o[i] = ob[j]
      BY <1>1, <3>1, Concat
    <3> QED
      BY <1>0, <3>1, <3>2
  <2> QED
    BY <2>1, <2>2
<1>4. t = o \o a
  <2>1. (oq \o ob) \o a = oq \o (ob \o a)
    BY Regroup
  <2> QED
    BY <2>1
<1> HIDE DEF s, o, t
<1>5. /\ Len(t) = Len(s) + Len(a)
      /\ \A i \in 1..Len(s) : t[i] = o[i]
      /\ \A j \in 1..Len(a) : t[Len(s) + j] = a[j]
  <2>1. /\ Len(o \o a) = Len(o) + Len(a)
        /\ \A i \in 1..Len(o) : (o \o a)[i] = o[i]
        /\ \A j \in 1..Len(a) : (o \o a)[Len(o) + j] = a[j]
    <3>1. o \in Seq(BusFrame) /\ a \in Seq(BusFrame)
      BY <1>2
    <3> QED
      BY <3>1, Concat
  <2> QED
    BY <1>2, <1>4, <2>1
<1>6. ASSUME NEW i \in (Len(s) + 1)..(Len(s) + Len(a))
      PROVE  t[i].fmt \in fmts /\ t[i].pid = pid /\ t[i].age = 0 /\ t[i].kind # "next"
  <2>1. PICK j \in 1..Len(a) : i = Len(s) + j
    <3>1. i - Len(s) \in 1..Len(a) /\ i = Len(s) + (i - Len(s))
      BY <1>1, <1>2
    <3> QED
      BY <3>1
  <2> QED
    BY <1>5, <2>1 DEF Brought
<1>7. Fresh(s, t, fmts, pid, Len(a))
  BY <1>1, <1>3, <1>5, <1>6 DEF Fresh
<1> QED
  BY <1>2, <1>7 DEF s, t

\* The same for Older.
LEMMA OlderConcat ==
  ASSUME NEW q \in Seq(BusFrame), NEW b \in Seq(BusFrame), NEW a \in Seq(BusFrame),
         NEW fmts, NEW pid, Brought(a, fmts, pid)
  PROVE  /\ Older(b) \o a \in Seq(BusFrame)
         /\ Fresh(q \o b, Older(q) \o (Older(b) \o a), fmts, pid, Len(a))
<1>1. /\ Older(q) \in Seq(BusFrame) /\ AgedTo(q, Older(q))
      /\ Older(b) \in Seq(BusFrame) /\ AgedTo(b, Older(b))
  BY OlderSeq DEF AgedTo
<1> QED
  BY <1>1, AgedConcat

\* What is coming, by its parts.
LEMMA ComingType ==
  ASSUME BusType
  PROVE  /\ Coming \in Seq(BusFrame) /\ Len(Coming) \in Nat
         /\ \A i \in 1..Len(Coming) : Coming[i] \in BusFrame
         /\ Len(Coming) = Len(obdMsgq) + Len(onBus) /\ Len(obdMsgq) \in Nat /\ Len(onBus) \in Nat
<1>1. Coming \in Seq(BusFrame)
  BY Concat DEF Coming, BusType
<1> QED
  BY <1>1, Concat, LenProperties DEF Coming, BusType

\* A request makes what is coming older and brings its answers, or loses them as a fault.
LEMMA AskBrings ==
  ASSUME BusType, NEW fmts \in SUBSET Formats, NEW pid \in Int, Ask(fmts, pid)
  PROVE  /\ BusType' /\ UNCHANGED <<car, stale>>
         /\ \/ faults' = faults /\ Fresh(Coming, Coming', fmts, pid, Number(fmts, pid))
            \/ /\ faults' = faults + 1 /\ Number(fmts, pid) # 0
               /\ Fresh(Coming, Coming', fmts, pid, 0)
<1> DEFINE a == Replies(fmts, pid)
<1>1. /\ a \in Seq(BusFrame) /\ Len(a) = Number(fmts, pid) /\ Brought(a, fmts, pid)
  BY AnswerBoth
<1>2. /\ UNCHANGED <<car, stale>> /\ obdMsgq' = Older(obdMsgq)
      /\ \/ onBus' = Older(onBus) \o a /\ faults' = faults
         \/ a # <<>> /\ faults < MaxFaults /\ onBus' = Older(onBus) /\ faults' = faults + 1
  BY DEF Ask, Replies
<1>3. obdMsgq \in Seq(BusFrame) /\ onBus \in Seq(BusFrame) /\ faults \in 0..MaxFaults
  BY DEF BusType
<1> HIDE DEF a
<1>4. Older(obdMsgq) \in Seq(BusFrame)
  BY <1>3, OlderSeq
<1>5. CASE onBus' = Older(onBus) \o a /\ faults' = faults
  <2>1. /\ Older(onBus) \o a \in Seq(BusFrame)
        /\ Fresh(obdMsgq \o onBus, Older(obdMsgq) \o (Older(onBus) \o a), fmts, pid, Len(a))
    BY <1>1, <1>3, OlderConcat
  <2>2. Fresh(Coming, Coming', fmts, pid, Number(fmts, pid))
    BY <1>1, <1>2, <1>5, <2>1 DEF Coming
  <2> QED
    BY <1>2, <1>4, <1>5, <2>1, <2>2 DEF BusType
<1>6. CASE a # <<>> /\ faults < MaxFaults /\ onBus' = Older(onBus) /\ faults' = faults + 1
  <2>1. <<>> \in Seq(BusFrame) /\ Brought(<<>>, fmts, pid) /\ Len(<<>>) = 0
    BY DEF Brought
  <2>2. /\ Older(onBus) \o <<>> \in Seq(BusFrame)
        /\ Fresh(obdMsgq \o onBus, Older(obdMsgq) \o (Older(onBus) \o <<>>), fmts, pid, 0)
    BY <1>3, <2>1, OlderConcat
  <2>3. Older(onBus) \in Seq(BusFrame) /\ Older(onBus) \o <<>> = Older(onBus)
    BY <1>3, OlderSeq, ConcatEmptySeq
  <2>4. Fresh(Coming, Coming', fmts, pid, 0)
    BY <1>2, <1>6, <2>2, <2>3 DEF Coming
  <2>5. Number(fmts, pid) # 0
    BY <1>1, <1>6, EmptySeq
  <2>6. faults' \in 0..MaxFaults
    BY <1>3, <1>6, CarBusAssumption
  <2> QED
    BY <1>2, <1>4, <1>6, <2>3, <2>4, <2>5, <2>6 DEF BusType
<1> QED
  BY <1>2, <1>5, <1>6

\* One format: at most one frame.
LEMMA NumberOne ==
  ASSUME NEW fmt \in Formats, NEW pid
  PROVE  Number({fmt}, pid) = IF Answers(fmt, pid) THEN 1 ELSE 0
  BY DEF Number, Formats

\* main takes the first frame that is coming.
LEMMA TakeTakes ==
  ASSUME BusType, Take, UNCHANGED onBus
  PROVE  /\ BusType' /\ UNCHANGED <<car, faults>>
         /\ FirstTaken(Coming, Coming') /\ Len(Coming) >= 1 /\ Head(obdMsgq) = Coming[1]
         /\ stale' = IF Coming[1].age > 0 /\ Coming[1].kind # "next" THEN Counted(stale) ELSE stale
<1>1. /\ obdMsgq \in Seq(BusFrame) /\ onBus \in Seq(BusFrame) /\ obdMsgq # <<>>
      /\ obdMsgq' = Tail(obdMsgq) /\ onBus' = onBus /\ stale \in Nat
  BY DEF BusType, Take
<1>2. /\ Tail(obdMsgq) \in Seq(BusFrame) /\ Head(obdMsgq) = Coming[1]
      /\ FirstTaken(Coming, Coming')
  BY <1>1, HeadTaken DEF Coming
<1>3. Counted(stale) \in Nat
  BY <1>1, CountedType
<1>4. Len(Coming) >= 1
  <2>1. Coming # <<>>
    BY <1>2 DEF FirstTaken
  <2> QED
    BY <2>1, ComingType, EmptySeq
<1> QED
  BY <1>1, <1>2, <1>3, <1>4 DEF BusType, Take

\* A wait that ends loses nothing: what is still coming is counted as late.
LEMMA GiveUpWaits ==
  ASSUME BusType, GiveUp
  PROVE  /\ BusType' /\ UNCHANGED <<car, stale>> /\ Coming' = Coming
         /\ faults' = faults + Len(Coming)
<1>1. /\ obdMsgq = <<>> /\ UNCHANGED <<car, onBus, obdMsgq, stale>>
      /\ faults + Len(onBus) <= MaxFaults /\ faults' = faults + Len(onBus)
      /\ onBus \in Seq(BusFrame) /\ faults \in Nat
  BY CarBusAssumption DEF BusType, GiveUp
<1>2. Coming = onBus /\ Coming' = Coming
  BY <1>1, ConcatEmptySeq DEF Coming
<1>3. Len(onBus) \in Nat /\ MaxFaults \in Nat
  BY <1>1, LenProperties, CarBusAssumption
<1>4. faults' \in 0..MaxFaults
  BY <1>1, <1>3
<1> QED
  BY <1>1, <1>2, <1>4 DEF BusType

\* A refused request leaves what is coming as it is.
LEMMA RefusedWaits ==
  ASSUME BusType, Refused
  PROVE  BusType' /\ UNCHANGED <<car, stale>> /\ Coming' = Coming /\ faults' = faults + 1
  BY CarBusAssumption DEF BusType, Refused, Coming

\* A frame is only lost when the queue is full.
LEMMA ArriveMoves ==
  ASSUME BusType, NEW size \in Nat, Arrive(size)
  PROVE  /\ BusType' /\ UNCHANGED <<car, faults, stale>>
         /\ \/ Coming' = Coming
            \/ Len(Coming) > size /\ \E d \in 1..Len(Coming) : OneLost(Coming, Coming', d)
<1>1. /\ obdMsgq \in Seq(BusFrame) /\ onBus \in Seq(BusFrame) /\ onBus # <<>>
      /\ onBus' = Tail(onBus) /\ UNCHANGED <<car, faults, stale>>
      /\ obdMsgq' = IF Len(obdMsgq) < size THEN Append(obdMsgq, Head(onBus)) ELSE obdMsgq
  BY DEF BusType, Arrive
<1>2. CASE Len(obdMsgq) < size
  <2>1. /\ Append(obdMsgq, Head(onBus)) \in Seq(BusFrame) /\ Tail(onBus) \in Seq(BusFrame)
        /\ Coming' = Coming
    BY <1>1, <1>2, Moved DEF Coming
  <2> QED
    BY <1>1, <1>2, <2>1 DEF BusType
<1>3. CASE ~(Len(obdMsgq) < size)
  <2>1. Tail(onBus) \in Seq(BusFrame) /\ OneLost(Coming, Coming', Len(obdMsgq) + 1)
    BY <1>1, <1>3, Dropped DEF Coming
  <2>2. Len(onBus) \in Nat \ {0} /\ Len(obdMsgq) \in Nat /\ Len(Coming) = Len(obdMsgq) + Len(onBus)
    BY <1>1, EmptySeq, ComingType
  <2>3. Len(Coming) > size /\ Len(obdMsgq) + 1 \in 1..Len(Coming)
    BY <1>3, <2>2
  <2>4. BusType'
    BY <1>1, <1>3, <2>1 DEF BusType
  <2> QED
    BY <1>1, <2>1, <2>3, <2>4
<1> QED
  BY <1>2, <1>3

-----------------------------------------------------------------------------
(* The first prototype: how far its answers and its discovery lag behind. *)

\* The frame at place j answers a request that is, with the frames before it, at most
\* k requests old.
AgeBound(s, k) == \A j \in 1..Len(s) : s[j].age + j <= k

\* The bitmap at place j is of a block at least n >= least blocks back, and what main
\* will have fallen behind by the time it takes it is at most k.
Blocks(n) == n * PidBlock
BehindBy(x, pid, j, k, least) ==
  /\ x.fmt = "std" /\ x.pid \in Int
  /\ \E n \in Nat : pid - x.pid = Blocks(n) /\ n >= least /\ n + j <= k + 1
ShiftBound(s, pid, k, least) == \A j \in 1..Len(s) : BehindBy(s[j], pid, j, k, least)

\* The one request main waits for does not count.
Slack == IF protoPc \in {"bitmap", "answer"} THEN 1 ELSE 0

Booting == protoPc \in {"can_init", "modem_init", "gnss_init"}
Discovering == protoPc \in {"discover", "bitmap"}
Discovered == protoPc \in {"sweep", "answer"}
Block(pid) == \E n \in Nat : pid = Blocks(n)

LagInv ==
  /\ BusType
  /\ protoPc \in {"can_init", "modem_init", "gnss_init", "discover", "bitmap", "sweep", "answer",
                  "returned"}
  /\ protoLag \in Nat /\ protoLag <= faults
  /\ AgeBound(Coming, faults + Slack)
  /\ Booting => Coming = <<>>

Shifted(marks, k) == \A p \in marks : \E n \in 0..k : p - Blocks(n) \in car.std

ShiftInv ==
  /\ protoPid \in Int /\ protoSupported \subseteq Int
  /\ Booting => protoPid = 0 /\ protoSupported = {}
  /\ Discovering => /\ Block(protoPid)
                    /\ ShiftBound(Coming, protoPid, faults, 1 - Slack)
  /\ Shifted(protoSupported, faults)

ExactInv ==
  faults = 0 =>
    /\ Discovering => protoSupported = {p \in car.std : p <= protoPid}
    /\ protoPc = "bitmap" => protoPid < PidEnd /\ (Answers("std", protoPid) => Len(Coming) = 1)
    /\ Discovered => protoSupported = car.std

\* The frames of a queue.
LEMMA FrameAt ==
  ASSUME NEW s \in Seq(BusFrame)
  PROVE  /\ Len(s) \in Nat
         /\ \A i \in 1..Len(s) : /\ s[i] \in BusFrame /\ s[i].fmt \in Formats
                                 /\ s[i].pid \in Int /\ s[i].age \in Nat
<1>1. Len(s) \in Nat
  BY LenProperties
<1>2. ASSUME NEW i \in 1..Len(s)
      PROVE  /\ s[i] \in BusFrame /\ s[i].fmt \in Formats /\ s[i].pid \in Int /\ s[i].age \in Nat
  <2>1. s[i] \in BusFrame
    BY ElementOfSeq
  <2> QED
    BY <2>1 DEF BusFrame
<1> QED
  BY <1>1, <1>2

\* What the operations on the bus do to the ages.
LEMMA AgeTaken ==
  ASSUME NEW s \in Seq(BusFrame), NEW t \in Seq(BusFrame), FirstTaken(s, t), NEW k \in Nat,
         AgeBound(s, k + 1)
  PROVE  AgeBound(t, k) /\ s[1].age <= k /\ s[1].age \in Nat
<1>1. /\ Len(s) \in Nat \ {0} /\ Len(t) = Len(s) - 1 /\ \A i \in 1..Len(s) : s[i].age \in Nat
      /\ \A i \in 1..Len(t) : t[i] = s[i + 1]
  BY EmptySeq, FrameAt DEF FirstTaken
<1>2. ASSUME NEW j \in 1..Len(t) PROVE t[j].age + j <= k
  <2>1. j + 1 \in 1..Len(s) /\ t[j].age = s[j + 1].age
    BY <1>1
  <2>2. s[j + 1].age \in Nat /\ s[j + 1].age + (j + 1) <= k + 1
    BY <1>1, <2>1 DEF AgeBound
  <2> QED
    BY <2>1, <2>2
<1>3. 1 \in 1..Len(s)
  BY <1>1
<1>4. s[1].age \in Nat /\ s[1].age + 1 <= k + 1
  BY <1>1, <1>3 DEF AgeBound
<1> QED
  BY <1>2, <1>4 DEF AgeBound

\* A lost frame makes nothing older.
LEMMA AgeLost ==
  ASSUME NEW s \in Seq(BusFrame), NEW t, NEW d, OneLost(s, t, d), NEW k \in Nat, AgeBound(s, k)
  PROVE  AgeBound(t, k)
<1>1. /\ Len(s) \in Nat /\ Len(t) = Len(s) - 1 /\ d \in 1..Len(s)
      /\ \A i \in 1..Len(s) : s[i].age \in Nat
      /\ \A i \in 1..Len(t) : t[i] = IF i < d THEN s[i] ELSE s[i + 1]
  BY FrameAt DEF OneLost
<1>2. ASSUME NEW j \in 1..Len(t) PROVE t[j].age + j <= k
  <2>1. j \in 1..Len(s) /\ j + 1 \in 1..Len(s)
    BY <1>1
  <2>2. /\ s[j].age \in Nat /\ s[j].age + j <= k
        /\ s[j + 1].age \in Nat /\ s[j + 1].age + (j + 1) <= k
    BY <1>1, <2>1 DEF AgeBound
  <2>3. t[j].age = s[j].age \/ t[j].age = s[j + 1].age
    BY <1>1
  <2> QED
    BY <2>2, <2>3
<1> QED
  BY <1>2 DEF AgeBound

\* A request adds one to the bound.
LEMMA AgeFresh ==
  ASSUME NEW s \in Seq(BusFrame), NEW t, NEW fmts, NEW pid, NEW n \in {0, 1},
         Fresh(s, t, fmts, pid, n), NEW k \in Nat, AgeBound(s, k)
  PROVE  AgeBound(t, k + 1)
<1>1. /\ Len(s) \in Nat /\ Len(t) = Len(s) + n
      /\ \A i \in 1..Len(s) : s[i] \in BusFrame /\ t[i] = [s[i] EXCEPT !.age = Counted(@)]
      /\ \A i \in (Len(s) + 1)..(Len(s) + n) : t[i].age = 0
  BY FrameAt DEF Fresh
<1>2. ASSUME NEW j \in 1..Len(t) PROVE t[j].age + j <= k + 1
  <2>1. CASE j \in 1..Len(s)
    <3>1. s[j].age \in Nat /\ t[j].age = Counted(s[j].age) /\ s[j].age + j <= k
      BY <1>1, <2>1 DEF BusFrame, AgeBound
    <3>2. Counted(s[j].age) \in Nat /\ Counted(s[j].age) <= s[j].age + 1
      BY <3>1, CountedType
    <3> QED
      BY <3>1, <3>2
  <2>2. CASE j \notin 1..Len(s)
    <3>1. j = Len(s) + 1 /\ t[j].age = 0
      BY <1>1, <2>2
    <3>2. Len(s) <= k
      <4>1. CASE Len(s) = 0
        BY <4>1
      <4>2. CASE Len(s) # 0
        <5>1. Len(s) \in 1..Len(s)
          BY <1>1, <4>2
        <5>2. s[Len(s)].age \in Nat /\ s[Len(s)].age + Len(s) <= k
          BY <1>1, <5>1 DEF BusFrame, AgeBound
        <5> QED
          BY <1>1, <5>2
      <4> QED
        BY <4>1, <4>2
    <3> QED
      BY <1>1, <3>1, <3>2
  <2> QED
    BY <2>1, <2>2
<1> QED
  BY <1>2 DEF AgeBound

\* A weaker bound on the ages.
LEMMA AgeWeaker ==
  ASSUME NEW s \in Seq(BusFrame), NEW k \in Nat, NEW l \in Nat, AgeBound(s, k),
         k <= l \/ Len(s) = 0
  PROVE  AgeBound(s, l)
<1>1. /\ Len(s) \in Nat /\ \A i \in 1..Len(s) : s[i].age \in Nat
  BY FrameAt
<1> QED
  BY <1>1 DEF AgeBound

\* The arithmetic of blocks.
LEMMA BlockType == PidBlock \in Nat /\ PidBlock > 0 /\ PidEnd \in Nat /\ MaxFaults \in Nat
  BY CarBusAssumption

\* Multiples of a block.
LEMMA Times ==
  /\ \A n \in Nat : Blocks(n) \in Nat /\ Blocks(n + 1) = Blocks(n) + PidBlock
  /\ Blocks(0) = 0
<1>1. ASSUME NEW n \in Nat PROVE Blocks(n) \in Nat /\ Blocks(n + 1) = Blocks(n) + PidBlock
  BY BlockType, SMT DEF Blocks
<1>2. Blocks(0) = 0
  BY BlockType, SMT DEF Blocks
<1> QED
  BY <1>1, <1>2

\* A bitmap is one more block behind when the next block is asked for.
LEMMA OneBack ==
  ASSUME NEW n \in Nat, NEW pid \in Int, NEW next \in Int, NEW x \in Int,
         next = pid + PidBlock, pid - x = Blocks(n)
  PROVE  n + 1 \in Nat /\ next - x = Blocks(n + 1)
<1>1. Blocks(n) \in Nat /\ Blocks(n + 1) = Blocks(n) + PidBlock
  BY Times
<1>2. PICK b \in Nat : b = Blocks(n) /\ Blocks(n + 1) = b + PidBlock
  BY <1>1
<1>3. pid - x = b
  BY <1>2
<1>4. next - x = b + PidBlock
  BY <1>3, BlockType
<1> QED
  BY <1>2, <1>4

\* What the operations on the bus do to how far the bitmaps are behind.
LEMMA ShiftTaken ==
  ASSUME NEW s \in Seq(BusFrame), NEW t \in Seq(BusFrame), FirstTaken(s, t), NEW k \in Nat,
         NEW pid \in Int, NEW next \in Int, next = pid + PidBlock, ShiftBound(s, pid, k, 0)
  PROVE  /\ ShiftBound(t, next, k, 1)
         /\ s[1].fmt = "std" /\ s[1].pid \in Int
         /\ \E n \in 0..k : pid - s[1].pid = Blocks(n)
<1>1. /\ Len(s) \in Nat \ {0} /\ Len(t) = Len(s) - 1
      /\ \A i \in 1..Len(t) : t[i] = s[i + 1]
  BY EmptySeq DEF FirstTaken
<1>2. ASSUME NEW j \in 1..Len(t)
      PROVE  BehindBy(t[j], next, j, k, 1)
  <2>1. j + 1 \in 1..Len(s) /\ t[j] = s[j + 1]
    BY <1>1
  <2>2. t[j].fmt = "std" /\ t[j].pid \in Int
    BY <2>1 DEF ShiftBound, BehindBy
  <2>3. PICK n \in Nat : pid - t[j].pid = Blocks(n) /\ n + (j + 1) <= k + 1
    BY <2>1 DEF ShiftBound, BehindBy
  <2>4. PICK q \in Nat : q = n + 1 /\ next - t[j].pid = Blocks(q)
    <3>1. n + 1 \in Nat /\ next - t[j].pid = Blocks(n + 1)
      BY <2>2, <2>3, OneBack
    <3> QED
      BY <3>1
  <2>5. q >= 1 /\ q + j <= k + 1
    BY <1>1, <2>3, <2>4
  <2> QED
    BY <2>1, <2>2, <2>4, <2>5 DEF BehindBy
<1>3. 1 \in 1..Len(s)
  BY <1>1
<1>4. PICK n \in Nat : pid - s[1].pid = Blocks(n) /\ n + 1 <= k + 1
  BY <1>3 DEF ShiftBound, BehindBy
<1>5. n \in 0..k
  BY <1>4
<1>6. ShiftBound(t, next, k, 1)
  BY <1>2 DEF ShiftBound
<1>7. s[1].fmt = "std" /\ s[1].pid \in Int
  BY <1>3 DEF ShiftBound, BehindBy
<1> QED
  BY <1>4, <1>5, <1>6, <1>7

\* A lost bitmap leaves the others no further behind.
LEMMA ShiftLost ==
  ASSUME NEW s \in Seq(BusFrame), NEW t, NEW d, OneLost(s, t, d), NEW k \in Nat,
         NEW pid, NEW least, ShiftBound(s, pid, k, least)
  PROVE  ShiftBound(t, pid, k, least)
<1>1. /\ Len(s) \in Nat /\ Len(t) = Len(s) - 1 /\ d \in 1..Len(s)
      /\ \A i \in 1..Len(t) : t[i] = IF i < d THEN s[i] ELSE s[i + 1]
  BY FrameAt DEF OneLost
<1>2. ASSUME NEW j \in 1..Len(t)
      PROVE  BehindBy(t[j], pid, j, k, least)
  <2>1. PICK i \in 1..Len(s) : t[j] = s[i] /\ j <= i
    <3>1. j \in 1..Len(s) /\ j + 1 \in 1..Len(s) /\ j <= j + 1
      BY <1>1
    <3> QED
      BY <1>1, <3>1
  <2>2. PICK n \in Nat : pid - s[i].pid = Blocks(n) /\ n >= least /\ n + i <= k + 1
    BY <2>1 DEF ShiftBound, BehindBy
  <2>3. n + j <= k + 1
    BY <1>1, <2>1, <2>2
  <2>4. s[i].fmt = "std" /\ s[i].pid \in Int
    BY DEF ShiftBound, BehindBy
  <2> QED
    BY <2>1, <2>2, <2>3, <2>4 DEF BehindBy
<1> QED
  BY <1>2 DEF ShiftBound

\* The bitmap a request brings is of the block asked for.
LEMMA ShiftFresh ==
  ASSUME NEW s \in Seq(BusFrame), NEW t \in Seq(BusFrame), NEW pid \in Int, NEW n \in {0, 1},
         Fresh(s, t, {"std"}, pid, n), NEW k \in Nat, ShiftBound(s, pid, k, 1)
  PROVE  ShiftBound(t, pid, k, 0)
<1>1. /\ Len(s) \in Nat /\ Len(t) = Len(s) + n
      /\ \A i \in 1..Len(s) : s[i] \in BusFrame /\ t[i] = [s[i] EXCEPT !.age = Counted(@)]
      /\ \A i \in (Len(s) + 1)..(Len(s) + n) : t[i].fmt \in {"std"} /\ t[i].pid = pid
  BY FrameAt DEF Fresh
<1>2. Len(s) <= k
  <2>1. CASE Len(s) = 0
    BY <2>1
  <2>2. CASE Len(s) # 0
    <3>1. Len(s) \in 1..Len(s)
      BY <1>1, <2>2
    <3>2. PICK m \in Nat : m >= 1 /\ m + Len(s) <= k + 1
      BY <3>1 DEF ShiftBound, BehindBy
    <3> QED
      BY <1>1, <3>2
  <2> QED
    BY <2>1, <2>2
<1>3. ASSUME NEW j \in 1..Len(t)
      PROVE  BehindBy(t[j], pid, j, k, 0)
  <2>1. CASE j \in 1..Len(s)
    <3>1. t[j].fmt = s[j].fmt /\ t[j].pid = s[j].pid
      BY <1>1, <2>1 DEF BusFrame
    <3>2. PICK m \in Nat : pid - s[j].pid = Blocks(m) /\ m + j <= k + 1
      BY <2>1 DEF ShiftBound, BehindBy
    <3>3. s[j].fmt = "std" /\ s[j].pid \in Int
      BY <2>1 DEF ShiftBound, BehindBy
    <3> QED
      BY <3>1, <3>2, <3>3 DEF BehindBy
  <2>2. CASE j \notin 1..Len(s)
    <3>1. j = Len(s) + 1 /\ t[j].fmt = "std" /\ t[j].pid = pid
      BY <1>1, <2>2
    <3>2. pid - t[j].pid = Blocks(0) /\ 0 + j <= k + 1
      BY <1>1, <1>2, <3>1, Times
    <3> QED
      BY <3>1, <3>2 DEF BehindBy
  <2> QED
    BY <2>1, <2>2
<1> QED
  BY <1>3 DEF ShiftBound

\* The next block is asked for while m more requests are known to be late.
LEMMA ShiftOn ==
  ASSUME NEW s \in Seq(BusFrame), NEW pid \in Int, NEW next \in Int, next = pid + PidBlock,
         NEW k \in Nat, NEW m \in Nat, NEW least \in {0, 1},
         ShiftBound(s, pid, k, least), m >= 1 \/ Len(s) = 0
  PROVE  ShiftBound(s, next, k + m, 1)
<1>1. ASSUME NEW j \in 1..Len(s)
      PROVE  BehindBy(s[j], next, j, k + m, 1)
  <2>1. PICK n \in Nat : pid - s[j].pid = Blocks(n) /\ n + j <= k + 1
    BY DEF ShiftBound, BehindBy
  <2>2. s[j].fmt = "std" /\ s[j].pid \in Int
    BY DEF ShiftBound, BehindBy
  <2>3. PICK q \in Nat : q = n + 1 /\ next - s[j].pid = Blocks(q)
    <3>0. PICK x \in Int : x = s[j].pid /\ pid - x = Blocks(n)
      BY <2>1, <2>2
    <3>1. PICK b \in Nat : b = Blocks(n) /\ Blocks(n + 1) = b + PidBlock
      BY Times
    <3>2. pid - x = b
      BY <3>0, <3>1
    <3>3. n + 1 \in Nat /\ next - x = b + PidBlock
      BY <3>2, BlockType
    <3> QED
      BY <3>0, <3>1, <3>3
  <2>4. m >= 1
    <3>1. Len(s) # 0
      BY FrameAt
    <3> QED
      BY <3>1
  <2>5. q >= 1 /\ q + j <= (k + m) + 1
    BY <2>1, <2>3, <2>4, FrameAt
  <2> QED
    BY <2>2, <2>3, <2>5 DEF BehindBy
<1> QED
  BY <1>1 DEF ShiftBound

\* Without faults nothing is left over when a block is asked for.
LEMMA NoneBehind ==
  ASSUME NEW s \in Seq(BusFrame), NEW pid, NEW least \in {0, 1}, ShiftBound(s, pid, 0, least)
  PROVE  Len(s) <= 1 - least
<1>1. Len(s) \in Nat
  BY FrameAt
<1>2. CASE Len(s) # 0
  <2>1. Len(s) \in 1..Len(s)
    BY <1>1, <1>2
  <2>2. PICK n \in Nat : n >= least /\ n + Len(s) <= 0 + 1
    BY <2>1 DEF ShiftBound, BehindBy
  <2> QED
    BY <1>1, <2>2
<1> QED
  BY <1>1, <1>2

\* A weaker bound on how far the bitmaps are behind.
LEMMA ShiftWeaker ==
  ASSUME NEW s \in Seq(BusFrame), NEW pid, NEW least, NEW k \in Nat, NEW l \in Nat, k <= l,
         ShiftBound(s, pid, k, least)
  PROVE  ShiftBound(s, pid, l, least)
<1>1. ASSUME NEW j \in 1..Len(s) PROVE BehindBy(s[j], pid, j, l, least)
  <2>1. s[j].fmt = "std" /\ s[j].pid \in Int
    BY DEF ShiftBound, BehindBy
  <2>2. PICK n \in Nat : pid - s[j].pid = Blocks(n) /\ n >= least /\ n + j <= k + 1
    BY DEF ShiftBound, BehindBy
  <2>3. n + j <= l + 1
    BY <2>2, FrameAt
  <2> QED
    BY <2>1, <2>2, <2>3 DEF BehindBy
<1> QED
  BY <1>1 DEF ShiftBound

\* An operation that does not touch the link.
LEMMA BusStill ==
  ASSUME BusType, UNCHANGED carVars
  PROVE  BusType' /\ UNCHANGED <<car, faults>> /\ Coming' = Coming
  BY DEF BusType, carVars, Coming

\* The faults are a number.
LEMMA FaultsType == ASSUME BusType PROVE faults \in Nat
  BY BlockType DEF BusType

\* What the proofs of the steps need of the numbers of main.
PidType == protoPid \in Int /\ protoSupported \subseteq Int

\* The requests of main go out on the standard format; what they bring.
LEMMA AskStd ==
  ASSUME BusType, NEW pid \in Int, Ask({"std"}, pid)
  PROVE  /\ BusType' /\ car' = car /\ faults' \in Nat /\ faults <= faults'
         /\ \E n \in {0, 1} : Fresh(Coming, Coming', {"std"}, pid, n)
         /\ faults' = faults =>
              Fresh(Coming, Coming', {"std"}, pid, IF Answers("std", pid) THEN 1 ELSE 0)
<1>1. {"std"} \in SUBSET Formats /\ "std" \in Formats
  BY DEF Formats
<1>2. Number({"std"}, pid) = IF Answers("std", pid) THEN 1 ELSE 0
  BY <1>1, NumberOne
<1>3. /\ BusType' /\ UNCHANGED <<car, stale>>
      /\ \/ faults' = faults /\ Fresh(Coming, Coming', {"std"}, pid, Number({"std"}, pid))
         \/ /\ faults' = faults + 1 /\ Number({"std"}, pid) # 0
            /\ Fresh(Coming, Coming', {"std"}, pid, 0)
  BY <1>1, AskBrings
<1>4. faults \in Nat
  BY FaultsType
<1>5. Number({"std"}, pid) \in {0, 1}
  BY <1>2
<1> QED
  BY <1>2, <1>3, <1>4, <1>5

\* Every step keeps what is known of the ages.
LEMMA LagStep ==
  ASSUME LagInv, PidType, ProtoNext
  PROVE  LagInv'
<1> DEFINE Pcs == {"can_init", "modem_init", "gnss_init", "discover", "bitmap", "sweep", "answer",
                   "returned"}
<1>1. /\ BusType /\ protoPc \in Pcs /\ protoLag \in Nat /\ protoLag <= faults
      /\ AgeBound(Coming, faults + Slack) /\ (Booting => Coming = <<>>)
      /\ faults \in Nat /\ Coming \in Seq(BusFrame) /\ Len(Coming) \in Nat
  BY FaultsType, ComingType DEF LagInv
<1>2. Slack \in {0, 1}
  BY DEF Slack
\* Steps that leave the link and the answer alone.
<1>3. ASSUME UNCHANGED <<carVars, protoLag>>, protoPc' \in Pcs, Slack' = Slack,
             Booting' => Booting
      PROVE  LagInv'
  <2>1. BusType' /\ UNCHANGED <<car, faults>> /\ Coming' = Coming
    BY <1>1, <1>3, BusStill
  <2> QED
    BY <1>1, <1>3, <2>1 DEF LagInv, AgeBound
\* Requests: what is coming is one request older.
<1>4. ASSUME NEW pid \in Int, Ask({"std"}, pid), UNCHANGED protoLag,
             protoPc' \in {"bitmap", "answer"}, Slack = 0
      PROVE  LagInv'
  <2>1. /\ BusType' /\ faults' \in Nat /\ faults <= faults'
        /\ \E n \in {0, 1} : Fresh(Coming, Coming', {"std"}, pid, n)
    BY <1>1, <1>4, AskStd
  <2>2. AgeBound(Coming', faults + 1)
    BY <1>1, <1>2, <1>4, <2>1, AgeFresh
  <2>3. Slack' = 1 /\ ~Booting' /\ protoPc' \in Pcs
    BY <1>4 DEF Slack, Booting
  <2>4. Coming' \in Seq(BusFrame)
    BY <2>1, ComingType DEF BusType, Coming
  <2>5. AgeBound(Coming', faults' + Slack')
    BY <1>1, <2>1, <2>2, <2>3, <2>4, AgeWeaker
  <2> QED
    BY <1>1, <1>4, <2>1, <2>3, <2>5 DEF LagInv
<1>5. ASSUME Refused, UNCHANGED protoLag, protoPc' \in Pcs, ~Booting'
      PROVE  LagInv'
  <2>1. BusType' /\ Coming' = Coming /\ faults' = faults + 1
    BY <1>1, <1>5, RefusedWaits
  <2>2. Slack' \in {0, 1}
    BY <1>5 DEF Slack
  <2>3. AgeBound(Coming', faults' + Slack')
    BY <1>1, <1>2, <2>1, <2>2, AgeWeaker
  <2> QED
    BY <1>1, <1>5, <2>1, <2>3 DEF LagInv
<1>6. ASSUME Take, UNCHANGED onBus, Slack = 1, protoPc' \in {"discover", "sweep"},
             protoLag' \in {protoLag, Head(obdMsgq).age}
      PROVE  LagInv'
  <2>1. /\ BusType' /\ faults' = faults /\ FirstTaken(Coming, Coming')
        /\ Head(obdMsgq) = Coming[1]
    BY <1>1, <1>6, TakeTakes
  <2>2. Coming' \in Seq(BusFrame)
    BY <2>1, ComingType DEF BusType, Coming
  <2>3. AgeBound(Coming', faults) /\ Coming[1].age <= faults /\ Coming[1].age \in Nat
    BY <1>1, <1>6, <2>1, <2>2, AgeTaken
  <2>4. Slack' = 0 /\ ~Booting' /\ protoPc' \in Pcs
    BY <1>6 DEF Slack, Booting
  <2>5. protoLag' \in Nat /\ protoLag' <= faults' /\ AgeBound(Coming', faults' + Slack')
    BY <1>1, <1>6, <2>1, <2>3, <2>4
  <2> QED
    BY <2>1, <2>4, <2>5 DEF LagInv
<1>7. ASSUME GiveUp, UNCHANGED protoLag, protoPc' \in {"discover", "sweep"}
      PROVE  LagInv'
  <2>1. BusType' /\ Coming' = Coming /\ faults' = faults + Len(Coming)
    BY <1>1, <1>7, GiveUpWaits
  <2>2. Slack' = 0 /\ ~Booting' /\ protoPc' \in Pcs
    BY <1>7 DEF Slack, Booting
  <2>3. AgeBound(Coming', faults' + Slack')
    <3>1. faults + Slack \in Nat /\ faults' + Slack' \in Nat
          /\ (faults + Slack <= faults' + Slack' \/ Len(Coming) = 0)
      BY <1>1, <1>2, <2>1, <2>2
    <3> QED
      BY <1>1, <2>1, <3>1, AgeWeaker
  <2> QED
    BY <1>1, <1>7, <2>1, <2>2, <2>3 DEF LagInv
<1>8. CASE ProtoCanInit \/ ProtoModemInit \/ ProtoGnssStart
  <2>1. /\ UNCHANGED <<carVars, protoLag>> /\ protoPc' \in Pcs /\ Slack' = Slack
        /\ Booting' => Booting
    BY <1>8 DEF ProtoCanInit, ProtoModemInit, ProtoGnssStart, ProtoGo, Slack, Booting
  <2> QED
    BY <1>3, <2>1
<1>9. CASE AskBlock
  <2>1. UNCHANGED protoLag /\ protoPid \in Int
    BY <1>9 DEF AskBlock, PidType
  <2>2. \/ Ask({"std"}, protoPid) /\ protoPc' \in {"bitmap", "answer"} /\ Slack = 0
        \/ Refused /\ protoPc' \in Pcs /\ ~Booting'
    BY <1>9 DEF AskBlock, ProtoGo, Slack, Booting
  <2> QED
    BY <1>4, <1>5, <2>1, <2>2
<1>10. CASE TakeBitmap
  <2>1. protoPc' \in {"discover", "sweep"} /\ Slack = 1 /\ UNCHANGED protoLag
    BY <1>10 DEF TakeBitmap, ProtoGo, Slack
  <2>2. (Take /\ UNCHANGED onBus) \/ GiveUp
    BY <1>10 DEF TakeBitmap
  <2> QED
    BY <1>6, <1>7, <2>1, <2>2
<1>11. CASE DiscoveryDone \/ SweepEnd
  <2>1. /\ UNCHANGED <<carVars, protoLag>> /\ protoPc' \in Pcs /\ Slack' = Slack
        /\ Booting' => Booting
    BY <1>11 DEF DiscoveryDone, SweepEnd, ProtoGo, Slack, Booting
  <2> QED
    BY <1>3, <2>1
<1>12. CASE AskPid
  <2>1. /\ UNCHANGED protoLag /\ protoPc' \in {"bitmap", "answer"} /\ Slack = 0
        /\ protoPc' \in Pcs /\ ~Booting'
        /\ \E pid \in protoSupported : Ask({"std"}, pid) \/ Refused
    BY <1>12 DEF AskPid, ProtoGo, Slack, Booting, SweepNext
  <2>2. PICK pid \in protoSupported : Ask({"std"}, pid) \/ Refused
    BY <2>1
  <2>3. pid \in Int
    BY DEF PidType
  <2> QED
    BY <1>4, <1>5, <2>1, <2>2, <2>3
<1>13. CASE TakeAnswer
  <2>1. protoPc' \in {"discover", "sweep"} /\ Slack = 1
    BY <1>13 DEF TakeAnswer, ProtoGo, Slack
  <2>2. \/ Take /\ UNCHANGED onBus /\ protoLag' \in {protoLag, Head(obdMsgq).age}
        \/ GiveUp /\ UNCHANGED protoLag
    BY <1>13 DEF TakeAnswer
  <2> QED
    BY <1>6, <1>7, <2>1, <2>2
<1>14. CASE ProtoReceive
  <2>1. UNCHANGED <<protoPc, protoLag>> /\ Arrive(ProtoQueue) /\ ProtoQueue \in Nat
    BY <1>14, PrototypeAssumption DEF ProtoReceive, protoVars
  <2>2. /\ BusType' /\ UNCHANGED <<car, faults, stale>>
        /\ Coming' = Coming \/ \E d \in 1..Len(Coming) : OneLost(Coming, Coming', d)
    BY <1>1, <2>1, ArriveMoves
  <2>3. AgeBound(Coming', faults + Slack)
    <3>1. faults + Slack \in Nat
      BY <1>1, <1>2
    <3> QED
      BY <1>1, <2>2, <3>1, AgeLost
  <2>4. ~Booting
    <3>1. onBus # <<>>
      BY <2>1 DEF Arrive
    <3>2. Coming # <<>>
      BY <1>1, <3>1, Concat DEF BusType, Coming
    <3> QED
      BY <1>1, <3>2
  <2>5. Slack' = Slack /\ ~Booting'
    BY <2>1, <2>4 DEF Slack, Booting
  <2> QED
    BY <1>1, <2>1, <2>2, <2>3, <2>5 DEF LagInv
<1>15. CASE ProtoGnssEvent \/ ProtoLteEvent \/ ProtoNmeaDone
  <2>1. UNCHANGED <<carVars, protoPc, protoLag>>
    BY <1>15 DEF ProtoGnssEvent, ProtoLteEvent, ProtoNmeaDone, protoVars
  <2>2. Slack' = Slack /\ (Booting' => Booting)
    BY <2>1 DEF Slack, Booting
  <2> QED
    BY <1>1, <1>3, <2>1, <2>2
<1> QED
  BY <1>8, <1>9, <1>10, <1>11, <1>12, <1>13, <1>14, <1>15 DEF ProtoNext, ProtoMain

\* The block behind a block.
LEMMA BlockNext ==
  ASSUME NEW pid \in Int, Block(pid), NEW next, next = pid + PidBlock
  PROVE  next \in Int /\ Block(next)
<1>1. PICK n \in Nat : pid = Blocks(n)
  BY DEF Block
<1>2. n + 1 \in Nat /\ next = Blocks(n + 1)
  BY <1>1, Times
<1> QED
  BY <1>2, BlockType DEF Block

\* What a car supports.
LEMMA CarStd == ASSUME BusType PROVE car.std \subseteq 1..(PidEnd - 1) /\ Chained(car.std)
  BY CarBusAssumption DEF BusType

\* What a bitmap marks is moved by as much as it is behind.
LEMMA MarksMoved ==
  ASSUME BusType, NEW x, NEW pid \in Int, NEW k \in Nat, x.fmt = "std", x.pid \in Int,
         \E n \in 0..k : pid - x.pid = Blocks(n)
  PROVE  Marks(x, pid) \subseteq Int /\ Shifted(Marks(x, pid), k)
<1>1. PICK n \in 0..k : pid - x.pid = Blocks(n)
  OBVIOUS
<1>2. ASSUME NEW p \in car.std PROVE /\ pid + (p - x.pid) \in Int
                                     /\ (pid + (p - x.pid)) - Blocks(n) = p
  <2>1. p \in Int
    BY CarStd, BlockType
  <2>2. PICK b \in Int : b = Blocks(n)
    BY <1>1, Times
  <2>3. pid - x.pid = b
    BY <1>1, <2>2
  <2>4. (pid + (p - x.pid)) - b = p
    BY <2>1, <2>3
  <2> QED
    BY <2>1, <2>2, <2>4
<1>3. Announced(x.fmt, x.pid) \subseteq car.std
  BY DEF Announced
<1>4. ASSUME NEW q \in Marks(x, pid) PROVE q \in Int /\ \E m \in 0..k : q - Blocks(m) \in car.std
  <2>1. PICK p \in car.std : q = pid + (p - x.pid)
    BY <1>3 DEF Marks
  <2> QED
    BY <1>2, <2>1
<1> QED
  BY <1>4 DEF Shifted

\* Every step keeps what is known of the bitmaps and the marks.
LEMMA ShiftStep ==
  ASSUME LagInv, ShiftInv, ProtoNext
  PROVE  ShiftInv'
<1>1. /\ BusType /\ faults \in Nat /\ Coming \in Seq(BusFrame) /\ Len(Coming) \in Nat
      /\ Booting => Coming = <<>>
  BY FaultsType, ComingType DEF LagInv
<1>2. /\ protoPid \in Int /\ protoSupported \subseteq Int
      /\ Booting => protoPid = 0 /\ protoSupported = {}
      /\ Discovering => Block(protoPid) /\ ShiftBound(Coming, protoPid, faults, 1 - Slack)
      /\ Shifted(protoSupported, faults)
  BY DEF ShiftInv
\* Nothing new is marked.
<1>3. ASSUME UNCHANGED <<car, protoSupported>>, faults' \in Nat, faults <= faults'
      PROVE  protoSupported' \subseteq Int /\ Shifted(protoSupported, faults)'
  BY <1>1, <1>2, <1>3 DEF Shifted
\* Steps of the boot, and those after the discovery that only move on.
<1>4. CASE ProtoCanInit \/ ProtoModemInit
  <2>1. /\ UNCHANGED <<car, faults, protoPid, protoSupported>> /\ Booting /\ ~Discovering'
    BY <1>4 DEF ProtoCanInit, ProtoModemInit, ProtoGo, carVars, Booting, Discovering
  <2> QED
    BY <1>1, <1>2, <1>3, <2>1 DEF ShiftInv
<1>5. CASE ProtoGnssStart
  <2>1. /\ UNCHANGED <<carVars, protoPid, protoSupported>> /\ Booting /\ ~Booting'
    BY <1>5 DEF ProtoGnssStart, ProtoGo, Booting
  <2>2. UNCHANGED <<car, faults>> /\ Coming' = <<>>
    BY <1>1, <2>1, BusStill
  <2>3. Block(protoPid)'
    BY <1>2, <2>1, Times DEF Block
  <2>4. ASSUME NEW least PROVE ShiftBound(<<>>, protoPid', faults', least)
    BY DEF ShiftBound
  <2> QED
    BY <1>1, <1>2, <1>3, <2>1, <2>2, <2>3, <2>4 DEF ShiftInv
<1>6. CASE AskBlock
  <2>0. protoPc = "discover" /\ Slack = 0 /\ Discovering /\ ~Booting' /\ UNCHANGED protoSupported
    BY <1>6 DEF AskBlock, ProtoGo, Slack, Discovering, Booting
  <2>1. CASE protoPc' = "bitmap" /\ Ask({"std"}, protoPid) /\ UNCHANGED protoPid
    <3>1. /\ car' = car /\ faults' \in Nat /\ faults <= faults' /\ BusType'
          /\ \E n \in {0, 1} : Fresh(Coming, Coming', {"std"}, protoPid, n)
      BY <1>1, <1>2, <2>1, AskStd
    <3>2. Coming' \in Seq(BusFrame)
      BY <3>1, ComingType DEF BusType, Coming
    <3>3. ShiftBound(Coming', protoPid, faults, 0)
      BY <1>1, <1>2, <2>0, <3>1, <3>2, ShiftFresh
    <3>4. ShiftBound(Coming', protoPid, faults', 0)
      BY <1>1, <3>1, <3>2, <3>3, ShiftWeaker
    <3>5. 1 - Slack' = 0
      BY <2>1 DEF Slack
    <3>6. Block(protoPid')
      BY <1>2, <2>0, <2>1
    <3> QED
      BY <1>2, <1>3, <2>0, <2>1, <3>1, <3>4, <3>5, <3>6 DEF ShiftInv, Block
  <2>2. CASE protoPc' = "discover" /\ Refused /\ protoPid' = protoPid + PidBlock
    <3>1. car' = car /\ faults' = faults + 1 /\ Coming' = Coming
      BY <1>1, <2>2, RefusedWaits
    <3>2. protoPid' \in Int /\ Block(protoPid')
      BY <1>2, <2>0, <2>2, BlockNext
    <3>3. ShiftBound(Coming', protoPid', faults', 1)
      BY <1>1, <1>2, <2>0, <2>2, <3>1, <3>2, ShiftOn
    <3>4. 1 - Slack' = 1
      BY <2>2 DEF Slack
    <3> QED
      BY <1>1, <1>3, <2>0, <2>2, <3>1, <3>2, <3>3, <3>4 DEF ShiftInv, Block
  <2> QED
    BY <1>6, <2>1, <2>2 DEF AskBlock, ProtoGo
<1>7. CASE TakeBitmap
  <2>0. /\ protoPc = "bitmap" /\ protoPc' = "discover" /\ Slack = 1 /\ Discovering /\ ~Booting'
        /\ 1 - Slack' = 1 /\ 1 - Slack = 0 /\ protoPid' = protoPid + PidBlock
    BY <1>7 DEF TakeBitmap, ProtoGo, Slack, Discovering, Booting
  <2>1. protoPid' \in Int /\ Block(protoPid')
    BY <1>2, <2>0, BlockNext
  <2>2. CASE /\ Take /\ UNCHANGED onBus
             /\ protoSupported' = protoSupported \cup Marks(Head(obdMsgq), protoPid)
    <3>1. /\ BusType' /\ UNCHANGED <<car, faults>>
          /\ FirstTaken(Coming, Coming') /\ Head(obdMsgq) = Coming[1]
      BY <1>1, <2>2, TakeTakes
    <3>2. Coming' \in Seq(BusFrame)
      BY <3>1, ComingType DEF BusType, Coming
    <3>3. /\ ShiftBound(Coming', protoPid', faults, 1)
          /\ Coming[1].fmt = "std" /\ Coming[1].pid \in Int
          /\ \E n \in 0..faults : protoPid - Coming[1].pid = Blocks(n)
      BY <1>1, <1>2, <2>0, <2>1, <3>1, <3>2, ShiftTaken
    <3>4. Marks(Coming[1], protoPid) \subseteq Int /\ Shifted(Marks(Coming[1], protoPid), faults)
      BY <1>1, <1>2, <3>3, MarksMoved
    <3>5. protoSupported' \subseteq Int /\ Shifted(protoSupported, faults)'
      BY <1>1, <1>2, <2>2, <3>1, <3>4 DEF Shifted
    <3> QED
      BY <2>0, <2>1, <3>1, <3>3, <3>5 DEF ShiftInv, Block
  <2>3. CASE GiveUp /\ UNCHANGED protoSupported
    <3>1. BusType' /\ car' = car /\ Coming' = Coming /\ faults' = faults + Len(Coming)
      BY <1>1, <2>3, GiveUpWaits
    <3>2. ShiftBound(Coming', protoPid', faults', 1)
      <4>1. Len(Coming) >= 1 \/ Len(Coming) = 0
        BY <1>1
      <4> QED
        BY <1>1, <1>2, <2>0, <2>1, <3>1, <4>1, ShiftOn
    <3>3. faults' \in Nat /\ faults <= faults'
      BY <1>1, <3>1
    <3> QED
      BY <1>3, <2>0, <2>1, <2>3, <3>1, <3>2, <3>3 DEF ShiftInv, Block
  <2> QED
    BY <1>7, <2>2, <2>3 DEF TakeBitmap
<1>8. CASE DiscoveryDone \/ SweepEnd
  <2>1. /\ UNCHANGED <<car, faults, protoSupported>> /\ protoPid' = 0
        /\ ~Booting' /\ ~Discovering'
    BY <1>8 DEF DiscoveryDone, SweepEnd, ProtoGo, carVars, Booting, Discovering
  <2> QED
    BY <1>1, <1>3, <2>1 DEF ShiftInv
<1>9. CASE AskPid
  <2>1. /\ ~Booting' /\ ~Discovering' /\ protoSupported' = protoSupported
        /\ \E pid \in protoSupported : protoPid' = pid /\ (Ask({"std"}, pid) \/ Refused)
    BY <1>9 DEF AskPid, ProtoGo, Booting, Discovering, SweepNext
  <2>2. PICK pid \in protoSupported : protoPid' = pid /\ (Ask({"std"}, pid) \/ Refused)
    BY <2>1
  <2>3. pid \in Int
    BY <1>2
  <2>4. car' = car /\ faults' \in Nat /\ faults <= faults'
    BY <1>1, <2>2, <2>3, AskStd, RefusedWaits
  <2> QED
    BY <1>3, <2>1, <2>2, <2>3, <2>4 DEF ShiftInv
<1>10. CASE TakeAnswer
  <2>1. /\ ~Booting' /\ ~Discovering' /\ protoSupported' = protoSupported
        /\ protoPid' = protoPid + 1
        /\ (Take /\ UNCHANGED onBus) \/ GiveUp
    BY <1>10 DEF TakeAnswer, ProtoGo, Booting, Discovering
  <2>2. car' = car /\ faults' \in Nat /\ faults <= faults'
    BY <1>1, <2>1, TakeTakes, GiveUpWaits
  <2> QED
    BY <1>2, <1>3, <2>1, <2>2 DEF ShiftInv
<1>11. CASE ProtoReceive
  <2>1. UNCHANGED <<protoPc, protoPid, protoSupported>> /\ Arrive(ProtoQueue) /\ ProtoQueue \in Nat
    BY <1>11, PrototypeAssumption DEF ProtoReceive, protoVars
  <2>2. /\ UNCHANGED <<car, faults>>
        /\ Coming' = Coming \/ \E d \in 1..Len(Coming) : OneLost(Coming, Coming', d)
    BY <1>1, <2>1, ArriveMoves
  <2>3. Slack' = Slack /\ (Booting' => Booting) /\ (Discovering' => Discovering)
    BY <2>1 DEF Slack, Booting, Discovering
  <2>4. ASSUME Discovering PROVE ShiftBound(Coming', protoPid, faults, 1 - Slack)
    BY <1>1, <1>2, <2>2, <2>4, ShiftLost
  <2> QED
    BY <1>1, <1>2, <1>3, <2>1, <2>2, <2>3, <2>4 DEF ShiftInv, Block
<1>12. CASE ProtoGnssEvent \/ ProtoLteEvent \/ ProtoNmeaDone
  <2>1. UNCHANGED <<carVars, protoPc, protoPid, protoSupported>>
    BY <1>12 DEF ProtoGnssEvent, ProtoLteEvent, ProtoNmeaDone, protoVars
  <2>2. UNCHANGED <<car, faults>> /\ Coming' = Coming
    BY <1>1, <2>1, BusStill
  <2>3. Slack' = Slack /\ (Booting' => Booting) /\ (Discovering' => Discovering)
    BY <2>1 DEF Slack, Booting, Discovering
  <2> QED
    BY <1>1, <1>2, <1>3, <2>1, <2>2, <2>3 DEF ShiftInv, Block
<1> QED
  BY <1>4, <1>5, <1>6, <1>7, <1>8, <1>9, <1>10, <1>11, <1>12 DEF ProtoNext, ProtoMain

\* What a car supports on each format.
LEMMA CarFormat ==
  ASSUME BusType, NEW f \in Formats
  PROVE  /\ car[f] \subseteq 1..(PidEnd - 1) /\ Chained(car[f])
         /\ \A p \in car[f] : p \in 1..PidEnd
<1>1. car[f] \subseteq 1..(PidEnd - 1) /\ Chained(car[f])
  <2>1. CASE f = "std"
    BY <2>1, CarBusAssumption DEF BusType
  <2>2. CASE f = "ext"
    BY <2>2, CarBusAssumption DEF BusType
  <2> QED
    BY <2>1, <2>2 DEF Formats
<1>2. \A p \in car[f] : p \in 1..PidEnd
  BY <1>1, BlockType
<1> QED
  BY <1>1, <1>2

\* A block the car does not answer ends what it supports.
LEMMA BlockEnds ==
  ASSUME BusType, NEW f \in Formats, NEW b \in Nat, Block(b), b < PidEnd, ~Answers(f, b)
  PROVE  \A p \in car[f] : p <= b
<1>0. car[f] \subseteq 1..(PidEnd - 1) /\ Chained(car[f])
  BY CarFormat
<1>1. CASE b = 0
  <2>1. car[f] = {}
    BY <1>1 DEF Answers
  <2> QED
    BY <2>1
<1>2. CASE b # 0
  <2>1. PICK n \in Nat : b = Blocks(n)
    BY DEF Block
  <2>2. n # 0
    BY <1>2, <2>1, Times
  <2>3. n \in 1..(PidEnd \div PidBlock)
    <3>1. n * PidBlock <= PidEnd
      BY <2>1, BlockType DEF Blocks
    <3>2. n <= PidEnd \div PidBlock
      BY <3>1, BlockType, SMTT(30)
    <3> QED
      BY <2>2, <3>2, BlockType
  <2>4. b \in {k * PidBlock : k \in 1..(PidEnd \div PidBlock)}
    BY <2>1, <2>3 DEF Blocks
  <2>5. b \notin car[f]
    BY <1>2 DEF Answers, VIN
  <2>6. ~ \E p \in car[f] : p > b
    BY <1>0, <2>4, <2>5 DEF Chained
  <2> QED
    BY <1>0, <2>6, BlockType
<1> QED
  BY <1>1, <1>2

\* A block that is not answered on the standard format is the last one.
LEMMA NothingBeyond ==
  ASSUME BusType, Block(protoPid), protoPid \in Int, protoPid < PidEnd, ~Answers("std", protoPid)
  PROVE  \A p \in car.std : p <= protoPid
<1>1. "std" \in Formats /\ protoPid \in Nat
  BY Times DEF Formats, Block
<1> QED
  BY <1>1, BlockEnds

\* A bitmap of the block asked for marks what the car announces of it.
LEMMA MarksExact ==
  ASSUME BusType, NEW x, NEW pid \in Int, x.fmt = "std", x.pid = pid
  PROVE  Marks(x, pid) = {p \in car.std : pid < p /\ p <= pid + PidBlock}
<1>1. car.std \subseteq Int
  BY CarStd, BlockType
<1>2. Announced(x.fmt, x.pid) = {p \in car.std : pid < p /\ p <= pid + PidBlock}
  BY <1>1, BlockType DEF Announced
<1>3. \A p \in Int : pid + (p - x.pid) = p
  OBVIOUS
<1>4. Marks(x, pid) = {pid + (p - x.pid) : p \in Announced(x.fmt, x.pid)}
  BY DEF Marks
<1>5. Announced(x.fmt, x.pid) \subseteq Int
  BY <1>1, <1>2
<1>6. Marks(x, pid) = Announced(x.fmt, x.pid)
  BY <1>3, <1>4, <1>5
<1> QED
  BY <1>2, <1>6

\* Without faults, every step keeps the marks exact.
LEMMA ExactStep ==
  ASSUME LagInv, ShiftInv, ExactInv, ProtoNext
  PROVE  ExactInv'
<1>1. /\ BusType /\ faults \in Nat /\ Coming \in Seq(BusFrame) /\ Len(Coming) \in Nat
      /\ protoPid \in Int /\ protoSupported \subseteq Int
      /\ Discovering => Block(protoPid) /\ ShiftBound(Coming, protoPid, faults, 1 - Slack)
      /\ Booting => protoPid = 0 /\ protoSupported = {}
  BY FaultsType, ComingType DEF LagInv, ShiftInv
<1>2. car.std \subseteq 1..(PidEnd - 1) /\ car.std \subseteq Int
  BY <1>1, CarStd, BlockType
\* Without faults nothing is left of the earlier blocks.
<1>3. ASSUME faults = 0, protoPc = "discover" PROVE Len(Coming) = 0
  <2>1. 1 - Slack = 1 /\ Discovering
    BY <1>3 DEF Slack, Discovering
  <2>2. ShiftBound(Coming, protoPid, 0, 1)
    BY <1>1, <1>3, <2>1
  <2>3. Len(Coming) <= 1 - 1
    BY <1>1, <2>2, NoneBehind
  <2> QED
    BY <1>1, <2>3
\* Steps after which nothing is claimed, and those that change nothing of what is.
<1>4. ASSUME faults' # 0 PROVE ExactInv'
  BY <1>4 DEF ExactInv
<1>5. ASSUME UNCHANGED <<car, faults, protoPc, protoPid, protoSupported>>,
             (faults = 0 /\ protoPc = "bitmap" /\ Len(Coming) = 1) => Len(Coming') = 1
      PROVE  ExactInv'
  BY <1>5 DEF ExactInv, Discovering, Discovered, Answers
<1>6. CASE ProtoCanInit \/ ProtoModemInit
  <2>1. ~Discovering' /\ ~Discovered' /\ protoPc' # "bitmap"
    BY <1>6 DEF ProtoCanInit, ProtoModemInit, ProtoGo, Discovering, Discovered
  <2> QED
    BY <2>1 DEF ExactInv
<1>7. CASE ProtoGnssStart
  <2>1. /\ protoPid' = 0 /\ protoSupported' = {} /\ car' = car
        /\ ~Discovered' /\ protoPc' # "bitmap"
    BY <1>1, <1>7 DEF ProtoGnssStart, ProtoGo, carVars, Booting, Discovered
  <2>2. {p \in car.std : p <= 0} = {}
    BY <1>2, BlockType
  <2> QED
    BY <2>1, <2>2 DEF ExactInv
<1>8. CASE AskBlock
  <2>0. /\ protoPc = "discover" /\ UNCHANGED protoSupported /\ protoPid < PidEnd
    BY <1>8 DEF AskBlock, ProtoGo
  <2>1. CASE protoPc' = "bitmap" /\ Ask({"std"}, protoPid) /\ UNCHANGED protoPid
    <3>1. /\ car' = car /\ faults' \in Nat /\ faults <= faults'
          /\ faults' = faults =>
               Fresh(Coming, Coming', {"std"}, protoPid, IF Answers("std", protoPid) THEN 1 ELSE 0)
      BY <1>1, <2>1, AskStd
    <3>2. ASSUME faults' = 0 PROVE ExactInv'
      <4>1. faults = 0 /\ faults' = faults
        BY <1>1, <3>1, <3>2
      <4>2. Answers("std", protoPid) => Len(Coming') = 1
        BY <1>3, <2>0, <3>1, <4>1 DEF Fresh
      <4>3. protoSupported = {p \in car.std : p <= protoPid}
        BY <2>0, <4>1 DEF ExactInv, Discovering
      <4>4. ~Discovered'
        BY <2>1 DEF Discovered
      <4> QED
        BY <2>0, <2>1, <3>1, <4>2, <4>3, <4>4 DEF ExactInv, Answers
    <3> QED
      BY <1>4, <3>2
  <2>2. CASE Refused
    <3>1. faults' # 0
      BY <1>1, <2>2, RefusedWaits
    <3> QED
      BY <1>4, <3>1
  <2> QED
    BY <1>8, <2>1, <2>2 DEF AskBlock, ProtoGo
<1>9. CASE TakeBitmap
  <2>0. /\ protoPc = "bitmap" /\ protoPc' = "discover" /\ protoPid' = protoPid + PidBlock
        /\ Discovering /\ 1 - Slack = 0
    BY <1>9 DEF TakeBitmap, ProtoGo, Discovering, Slack
  <2>1. ASSUME faults = 0
        PROVE  /\ protoSupported = {p \in car.std : p <= protoPid} /\ protoPid < PidEnd
               /\ Answers("std", protoPid) => Len(Coming) = 1
    BY <2>0, <2>1 DEF ExactInv
  <2>2. ASSUME faults = 0, car' = car,
               protoSupported' = {p \in car.std : p <= protoPid + PidBlock}
        PROVE  ExactInv'
    <3>1. ~Discovered' /\ protoPc' # "bitmap"
      BY <2>0 DEF Discovered
    <3> QED
      BY <2>0, <2>2, <3>1 DEF ExactInv
  <2>3. CASE /\ Take /\ UNCHANGED onBus
             /\ protoSupported' = protoSupported \cup Marks(Head(obdMsgq), protoPid)
    <3>1. /\ UNCHANGED <<car, faults>>
          /\ FirstTaken(Coming, Coming') /\ Head(obdMsgq) = Coming[1] /\ Len(Coming) >= 1
      BY <1>1, <2>3, TakeTakes
    <3>2. CASE faults = 0
      <4>1. 1 \in 1..Len(Coming)
        BY <1>1, <3>1
      <4>2. /\ Coming[1].fmt = "std" /\ Coming[1].pid \in Int
            /\ \E n \in Nat : protoPid - Coming[1].pid = Blocks(n) /\ n + 1 <= 0 + 1
        BY <1>1, <2>0, <3>2, <4>1 DEF ShiftBound, BehindBy
      <4>3. PICK n \in Nat : protoPid - Coming[1].pid = Blocks(n) /\ n + 1 <= 0 + 1
        BY <4>2
      <4>4. n = 0
        BY <4>3
      <4>5. Coming[1].pid = protoPid
        <5>1. PICK x \in Int : x = Coming[1].pid
          BY <4>2
        <5>2. protoPid - x = 0
          BY <4>3, <4>4, <5>1, Times
        <5> QED
          BY <1>1, <5>1, <5>2
      <4>6. Marks(Coming[1], protoPid)
              = {p \in car.std : protoPid < p /\ p <= protoPid + PidBlock}
        BY <1>1, <4>2, <4>5, MarksExact
      <4>7. protoSupported' = {p \in car.std : p <= protoPid + PidBlock}
        BY <1>1, <1>2, <2>1, <2>3, <3>1, <3>2, <4>6, BlockType
      <4> QED
        BY <2>2, <3>1, <3>2, <4>7
    <3> QED
      BY <1>4, <3>1, <3>2
  <2>4. CASE GiveUp /\ UNCHANGED protoSupported
    <3>1. car' = car /\ faults' = faults + Len(Coming)
      BY <1>1, <2>4, GiveUpWaits
    <3>2. CASE faults = 0 /\ Len(Coming) = 0
      <4>1. \A p \in car.std : p <= protoPid
        BY <1>1, <2>0, <2>1, <3>2, NothingBeyond
      <4>2. protoSupported' = {p \in car.std : p <= protoPid + PidBlock}
        BY <1>1, <1>2, <2>1, <2>4, <3>2, <4>1, BlockType
      <4> QED
        BY <2>2, <3>1, <3>2, <4>2
    <3>3. CASE ~(faults = 0 /\ Len(Coming) = 0)
      <4>1. faults' # 0
        BY <1>1, <3>1, <3>3
      <4> QED
        BY <1>4, <4>1
    <3> QED
      BY <3>2, <3>3
  <2> QED
    BY <1>9, <2>3, <2>4 DEF TakeBitmap
<1>10. CASE DiscoveryDone
  <2>1. /\ UNCHANGED <<car, faults, protoSupported>> /\ protoPid >= PidEnd
        /\ ~Discovering' /\ protoPc' # "bitmap" /\ Discovering
    BY <1>10 DEF DiscoveryDone, ProtoGo, carVars, Discovering
  <2>2. {p \in car.std : p <= protoPid} = car.std
    BY <1>1, <1>2, <2>1, BlockType
  <2> QED
    BY <2>1, <2>2 DEF ExactInv
<1>11. CASE SweepEnd
  <2>1. /\ UNCHANGED <<car, faults, protoSupported>>
        /\ ~Discovering' /\ protoPc' # "bitmap" /\ Discovered
    BY <1>11 DEF SweepEnd, ProtoGo, carVars, Discovering, Discovered
  <2> QED
    BY <2>1 DEF ExactInv
<1>12. CASE AskPid
  <2>1. /\ ~Discovering' /\ protoPc' # "bitmap" /\ Discovered /\ protoSupported' = protoSupported
        /\ \E pid \in protoSupported : Ask({"std"}, pid) \/ Refused
    BY <1>12 DEF AskPid, ProtoGo, Discovering, Discovered, SweepNext
  <2>2. PICK pid \in protoSupported : Ask({"std"}, pid) \/ Refused
    BY <2>1
  <2>3. pid \in Int
    BY <1>1
  <2>4. car' = car /\ faults' \in Nat /\ faults <= faults'
    BY <1>1, <2>2, <2>3, AskStd, RefusedWaits
  <2>5. faults' = 0 => faults = 0
    BY <1>1, <2>4
  <2> QED
    BY <2>1, <2>4, <2>5 DEF ExactInv
<1>13. CASE TakeAnswer
  <2>1. /\ ~Discovering' /\ protoPc' # "bitmap" /\ Discovered /\ protoSupported' = protoSupported
        /\ (Take /\ UNCHANGED onBus) \/ GiveUp
    BY <1>13 DEF TakeAnswer, ProtoGo, Discovering, Discovered
  <2>2. car' = car /\ faults' \in Nat /\ faults <= faults'
    BY <1>1, <2>1, TakeTakes, GiveUpWaits
  <2>3. faults' = 0 => faults = 0
    BY <1>1, <2>2
  <2> QED
    BY <2>1, <2>2, <2>3 DEF ExactInv
<1>14. CASE ProtoReceive
  <2>1. UNCHANGED <<protoPc, protoPid, protoSupported>> /\ Arrive(ProtoQueue)
        /\ ProtoQueue \in Nat \ {0}
    BY <1>14, PrototypeAssumption DEF ProtoReceive, protoVars
  <2>2. /\ UNCHANGED <<car, faults>>
        /\ Coming' = Coming \/ Len(Coming) > ProtoQueue
    BY <1>1, <2>1, ArriveMoves
  <2>3. Len(Coming) = 1 => Coming' = Coming
    BY <2>1, <2>2
  <2> QED
    BY <1>5, <2>1, <2>2, <2>3
<1>15. CASE ProtoGnssEvent \/ ProtoLteEvent \/ ProtoNmeaDone
  <2>1. UNCHANGED <<carVars, protoPc, protoPid, protoSupported>>
    BY <1>15 DEF ProtoGnssEvent, ProtoLteEvent, ProtoNmeaDone, protoVars
  <2>2. UNCHANGED <<car, faults>> /\ Coming' = Coming
    BY <1>1, <2>1, BusStill
  <2> QED
    BY <1>5, <2>1, <2>2
<1> QED
  BY <1>6, <1>7, <1>8, <1>9, <1>10, <1>11, <1>12, <1>13, <1>14, <1>15 DEF ProtoNext, ProtoMain

\* The prototype starts with nothing on its way and nothing marked.
LEMMA ProtoStarts ==
  ASSUME ProtoInit
  PROVE  LagInv /\ ShiftInv /\ ExactInv
<1>1. /\ protoPc = "can_init" /\ protoPid = 0 /\ protoSupported = {} /\ protoLag = 0
      /\ car \in Cars /\ onBus = <<>> /\ obdMsgq = <<>> /\ faults = 0 /\ stale = 0
  BY DEF ProtoInit, CarInit, ProtoIdle
<1>2. <<>> \in Seq(BusFrame) /\ Len(<<>>) = 0 /\ <<>> \o <<>> = <<>>
  BY EmptySeq, ConcatEmptySeq
<1>3. BusType /\ Coming = <<>>
  BY <1>1, <1>2, BlockType DEF BusType, Coming
<1>4. Slack = 0 /\ Booting /\ ~Discovering /\ ~Discovered
  BY <1>1 DEF Slack, Booting, Discovering, Discovered
<1>5. LagInv
  BY <1>1, <1>2, <1>3, <1>4 DEF LagInv, AgeBound
<1>6. ShiftInv /\ ExactInv
  BY <1>1, <1>4 DEF ShiftInv, ExactInv, Shifted
<1> QED
  BY <1>5, <1>6

\* A step of nobody.
LEMMA ProtoStill ==
  ASSUME LagInv, ShiftInv, UNCHANGED <<carVars, protoVars>>
  PROVE  LagInv' /\ ShiftInv' /\ (ExactInv => ExactInv')
<1>1. UNCHANGED <<protoPc, protoPid, protoSupported, protoLag, carVars>>
  BY DEF protoVars
<1>2. BusType' /\ UNCHANGED <<car, faults>> /\ Coming' = Coming
  BY <1>1, BusStill DEF LagInv
<1>3. UNCHANGED <<Slack, Booting, Discovering, Discovered>>
  BY <1>1 DEF Slack, Booting, Discovering, Discovered
<1>4. LagInv'
  BY <1>1, <1>2, <1>3 DEF LagInv, AgeBound
<1>5. ShiftInv'
  BY <1>1, <1>2, <1>3 DEF ShiftInv, Shifted, Block, ShiftBound, BehindBy
<1>6. ASSUME ExactInv PROVE ExactInv'
  BY <1>1, <1>2, <1>3, <1>6 DEF ExactInv, Answers
<1> QED
  BY <1>4, <1>5, <1>6

\* The first prototype's answers and its discovery fall behind by what came late, and
\* by no more.
THEOREM Drift == ProtoSpec => []ProtoDrift
<1> DEFINE Inv == LagInv /\ ShiftInv /\ ExactInv
<1>1. ProtoInit => Inv
  BY ProtoStarts
<1>2. Inv /\ [ProtoNext]_<<carVars, protoVars, nmeaVars>> => Inv'
  <2> SUFFICES ASSUME Inv, [ProtoNext]_<<carVars, protoVars, nmeaVars>> PROVE Inv'
    OBVIOUS
  <2>1. CASE ProtoNext
    <3>1. PidType
      BY DEF ShiftInv, PidType
    <3> QED
      BY <2>1, <3>1, LagStep, ShiftStep, ExactStep
  <2>2. CASE UNCHANGED <<carVars, protoVars>>
    BY <2>2, ProtoStill
  <2> QED
    BY <2>1, <2>2
<1>3. Inv => ProtoDrift
  <2> SUFFICES ASSUME Inv PROVE ProtoDrift
    OBVIOUS
  <2>1. LagBounded
    BY DEF LagInv, LagBounded
  <2>2. DiscoveryShifts
    BY DEF ShiftInv, ExactInv, Shifted, Blocks, Discovered, DiscoveryShifts
  <2> QED
    BY <2>1, <2>2 DEF ProtoDrift
<1> QED
  BY <1>1, <1>2, <1>3, PTL DEF ProtoSpec

-----------------------------------------------------------------------------
(* The programs that drain their queue take a late answer once. *)

\* No more than m of the frames that are coming are late; each of the others answers
\* the last request, or belongs to an answer that has begun.
LateBound(s, st, f, m) ==
  /\ m \in 0..Len(s) /\ st + m <= f
  /\ \A i \in 1..Len(s) : i > m => s[i].age = 0 \/ s[i].kind = "next"
Draining(s, st, f) == \E m \in Nat : LateBound(s, st, f, m)

\* Whatever is still coming has been counted as late.
Settled(s, st, f) == st + Len(s) <= f

\* What taking the first frame adds to the answers taken late.
TakenLate(s, st, next) ==
  next = IF s[1].age > 0 /\ s[1].kind # "next" THEN Counted(st) ELSE st

\* The frames of t are the first ones of s.
Cut(s, t) == Len(t) <= Len(s) /\ \A i \in 1..Len(t) : t[i] = s[i]

\* The rest of an answer comes behind.
Followed(s, t) == /\ Len(t) = Len(s) + (Parts - 1)
                  /\ \A i \in 1..Len(s) : t[i] = s[i]
                  /\ \A i \in (Len(s) + 1)..Len(t) : t[i].kind = "next"

\* What has been counted as late may be late.
LEMMA SettledDrains ==
  ASSUME NEW s \in Seq(BusFrame), NEW st \in Nat, NEW f \in Nat, Settled(s, st, f)
  PROVE  Draining(s, st, f)
<1>1. Len(s) \in Nat
  BY FrameAt
<1>2. LateBound(s, st, f, Len(s))
  BY <1>1 DEF LateBound, Settled
<1> QED
  BY <1>1, <1>2 DEF Draining

\* A request: what was coming is late and has been counted, its answers are not late.
LEMMA LateFresh ==
  ASSUME NEW s \in Seq(BusFrame), NEW t \in Seq(BusFrame), NEW fmts, NEW pid, NEW n,
         Fresh(s, t, fmts, pid, n), NEW st \in Nat, NEW f \in Nat, NEW g \in Nat, f <= g,
         Settled(s, st, f)
  PROVE  Draining(t, st, g)
<1>1. /\ Len(s) \in Nat /\ n \in Nat /\ Len(t) = Len(s) + n
      /\ \A i \in (Len(s) + 1)..(Len(s) + n) : t[i].age = 0
  BY FrameAt DEF Fresh
<1>2. LateBound(t, st, g, Len(s))
  BY <1>1 DEF LateBound, Settled
<1> QED
  BY <1>1, <1>2 DEF Draining

\* A late answer that is taken is one fewer to come.
LEMMA LateTaken ==
  ASSUME NEW s \in Seq(BusFrame), NEW t \in Seq(BusFrame), FirstTaken(s, t), NEW st \in Nat,
         NEW next, TakenLate(s, st, next), NEW f \in Nat, Draining(s, st, f)
  PROVE  Draining(t, next, f)
<1>1. /\ Len(s) \in Nat \ {0} /\ Len(t) = Len(s) - 1
      /\ \A i \in 1..Len(t) : t[i] = s[i + 1]
      /\ 1 \in 1..Len(s)
  BY EmptySeq, FrameAt DEF FirstTaken
<1>2. PICK m \in Nat : LateBound(s, st, f, m)
  BY DEF Draining
<1>3. CASE m = 0
  <2>1. s[1].age = 0 \/ s[1].kind = "next"
    BY <1>1, <1>2, <1>3 DEF LateBound
  <2>2. s[1].age \in Nat
    BY <1>1, FrameAt
  <2>3. next = st
    BY <2>1, <2>2 DEF TakenLate
  <2>4. LateBound(t, st, f, 0)
    BY <1>1, <1>2, <1>3 DEF LateBound
  <2> QED
    BY <2>3, <2>4 DEF Draining
<1>4. CASE m # 0
  <2>1. next \in Nat /\ next <= st + 1
    <3>1. Counted(st) \in Nat /\ Counted(st) <= st + 1
      BY CountedType
    <3>2. next = Counted(st) \/ next = st
      BY DEF TakenLate
    <3> QED
      BY <3>1, <3>2
  <2>2. m - 1 \in Nat
    BY <1>4
  <2>3. m - 1 \in 0..Len(t) /\ next + (m - 1) <= f
    BY <1>1, <1>2, <2>1, <2>2 DEF LateBound
  <2>4. ASSUME NEW i \in 1..Len(t), i > m - 1 PROVE t[i].age = 0 \/ t[i].kind = "next"
    <3>1. i + 1 \in 1..Len(s) /\ i + 1 > m /\ t[i] = s[i + 1]
      BY <1>1, <2>4
    <3> QED
      BY <1>2, <3>1 DEF LateBound
  <2>5. LateBound(t, next, f, m - 1)
    BY <2>3, <2>4 DEF LateBound
  <2> QED
    BY <2>2, <2>5 DEF Draining
<1> QED
  BY <1>3, <1>4

\* A lost frame leaves no more late ones.
LEMMA LateLost ==
  ASSUME NEW s \in Seq(BusFrame), NEW t, NEW d, OneLost(s, t, d), NEW st \in Nat, NEW f \in Nat,
         Draining(s, st, f)
  PROVE  Draining(t, st, f)
<1>1. /\ Len(s) \in Nat /\ Len(t) = Len(s) - 1 /\ d \in 1..Len(s)
      /\ \A i \in 1..Len(t) : t[i] = IF i < d THEN s[i] ELSE s[i + 1]
  BY FrameAt DEF OneLost
<1>2. PICK m \in Nat : LateBound(s, st, f, m)
  BY DEF Draining
<1>3. PICK l \in Nat : l = IF d <= m THEN m - 1 ELSE m
  BY <1>1
<1>4. l \in 0..Len(t) /\ st + l <= f
  BY <1>1, <1>2, <1>3 DEF LateBound
<1>5. ASSUME NEW i \in 1..Len(t), i > l PROVE t[i].age = 0 \/ t[i].kind = "next"
  <2>1. PICK j \in 1..Len(s) : t[i] = s[j] /\ j > m
    <3>1. i \in 1..Len(s) /\ i + 1 \in 1..Len(s)
      BY <1>1
    <3>2. CASE i < d
      <4>1. t[i] = s[i] /\ i > m
        BY <1>1, <1>3, <1>5, <3>2
      <4> QED
        BY <3>1, <4>1
    <3>3. CASE ~(i < d)
      <4>1. t[i] = s[i + 1] /\ i + 1 > m
        BY <1>1, <1>3, <1>5, <3>3
      <4> QED
        BY <3>1, <4>1
    <3> QED
      BY <3>2, <3>3
  <2> QED
    BY <1>2, <2>1 DEF LateBound
<1>6. LateBound(t, st, f, l)
  BY <1>4, <1>5 DEF LateBound
<1> QED
  BY <1>6 DEF Draining

\* Giving up counts what is still coming; so does bus-off, which loses it.
LEMMA LateOver ==
  ASSUME NEW s \in Seq(BusFrame), NEW st \in Nat, NEW f \in Nat, Draining(s, st, f)
  PROVE  Settled(s, st, f + Len(s)) /\ st <= f
<1>1. Len(s) \in Nat
  BY FrameAt
<1>2. PICK m \in Nat : st + m <= f
  BY DEF Draining, LateBound
<1> QED
  BY <1>1, <1>2 DEF Settled

\* A queue with nothing in it.
LEMMA LateEmpty ==
  ASSUME NEW s \in Seq(BusFrame), NEW st \in Nat, NEW f \in Nat, Draining(s, st, f), Len(s) = 0
  PROVE  Settled(s, st, f)
<1>1. st <= f
  BY LateOver
<1>2. st + Len(s) <= f
  BY <1>1
<1> QED
  BY <1>2 DEF Settled

\* Frames lost at the end leave no more late ones.
LEMMA LateCut ==
  ASSUME NEW s \in Seq(BusFrame), NEW t \in Seq(BusFrame), Cut(s, t), NEW st \in Nat,
         NEW f \in Nat, NEW g \in Nat, f <= g, Draining(s, st, f)
  PROVE  Draining(t, st, g)
<1>1. Len(s) \in Nat /\ Len(t) \in Nat /\ Len(t) <= Len(s)
  BY FrameAt DEF Cut
<1>2. PICK m \in Nat : LateBound(s, st, f, m)
  BY DEF Draining
<1>3. PICK l \in Nat : l = IF m <= Len(t) THEN m ELSE Len(t)
  BY <1>1
<1>4. l \in 0..Len(t) /\ st + l <= g /\ l <= m
  BY <1>1, <1>2, <1>3 DEF LateBound
<1>5. ASSUME NEW i \in 1..Len(t), i > l PROVE t[i].age = 0 \/ t[i].kind = "next"
  <2>1. i > m /\ i \in 1..Len(s) /\ t[i] = s[i]
    BY <1>1, <1>3, <1>5 DEF Cut
  <2> QED
    BY <1>2, <2>1 DEF LateBound
<1>6. LateBound(t, st, g, l)
  BY <1>4, <1>5 DEF LateBound
<1> QED
  BY <1>6 DEF Draining

\* The rest of an answer is not late.
LEMMA LateFollowed ==
  ASSUME NEW s \in Seq(BusFrame), NEW t \in Seq(BusFrame), Followed(s, t), NEW st \in Nat,
         NEW f \in Nat, Draining(s, st, f)
  PROVE  Draining(t, st, f)
<1>1. Len(s) \in Nat /\ Len(t) = Len(s) + 2
  BY FrameAt DEF Followed, Parts
<1>2. PICK m \in Nat : LateBound(s, st, f, m)
  BY DEF Draining
<1>3. m \in 0..Len(t) /\ st + m <= f
  BY <1>1, <1>2 DEF LateBound
<1>4. ASSUME NEW i \in 1..Len(t), i > m PROVE t[i].age = 0 \/ t[i].kind = "next"
  <2>1. CASE i \in 1..Len(s)
    BY <1>2, <1>4, <2>1 DEF LateBound, Followed
  <2>2. CASE i \notin 1..Len(s)
    <3>1. i \in (Len(s) + 1)..Len(t)
      BY <1>1, <2>2
    <3> QED
      BY <3>1 DEF Followed
  <2> QED
    BY <2>1, <2>2
<1>5. LateBound(t, st, f, m)
  BY <1>3, <1>4 DEF LateBound
<1> QED
  BY <1>5 DEF Draining

\* A frame that begins an answer is taken and the rest of the answer asked for.
LEMMA FlowFollows ==
  ASSUME NEW q \in Seq(BusFrame), NEW b \in Seq(BusFrame), NEW n \in Seq(BusFrame),
         Len(n) = Parts - 1, \A i \in 1..Len(n) : n[i].kind = "next"
  PROVE  b \o n \in Seq(BusFrame) /\ Followed(q \o b, q \o (b \o n))
<1> DEFINE s == q \o b
<1>1. b \o n \in Seq(BusFrame) /\ s \in Seq(BusFrame)
  BY ConcatProperties
<1>2. q \o (b \o n) = s \o n
  BY Regroup
<1> HIDE DEF s
<1>3. /\ Len(s) \in Nat /\ Len(n) \in Nat /\ Len(s \o n) = Len(s) + Len(n)
      /\ \A i \in 1..Len(s) : (s \o n)[i] = s[i]
      /\ \A i \in 1..Len(n) : (s \o n)[Len(s) + i] = n[i]
  <2>1. s \in Seq(BusFrame) /\ n \in Seq(BusFrame)
    BY <1>1
  <2>2. Len(s) \in Nat /\ Len(n) \in Nat
    BY <2>1, LenProperties
  <2>3. /\ Len(s \o n) = Len(s) + Len(n)
        /\ \A i \in 1..Len(s) : (s \o n)[i] = s[i]
        /\ \A i \in 1..Len(n) : (s \o n)[Len(s) + i] = n[i]
    BY <2>1, Concat
  <2> QED
    BY <2>2, <2>3
<1>4. ASSUME NEW i \in (Len(s) + 1)..Len(s \o n) PROVE (s \o n)[i].kind = "next"
  <2>1. i - Len(s) \in 1..Len(n) /\ i = Len(s) + (i - Len(s))
    BY <1>3
  <2>2. (s \o n)[i] = n[i - Len(s)]
    BY <1>3, <2>1
  <2> QED
    BY <2>1, <2>2
<1>5. Followed(s, s \o n)
  BY <1>3, <1>4 DEF Followed
<1> QED
  BY <1>1, <1>2, <1>5 DEF s

\* The frames that flow control asks for.
LEMMA FlowType ==
  ASSUME NEW x \in BusFrame
  PROVE  \E n \in Seq(BusFrame) :
           /\ n = [i \in 1..(Parts - 1) |-> [x EXCEPT !.part = i + 1, !.kind = "next"]]
           /\ Len(n) = Parts - 1 /\ \A i \in 1..Len(n) : n[i].kind = "next"
<1> DEFINE Others(i) == [x EXCEPT !.part = i + 1, !.kind = "next"]
           n == [i \in 1..(Parts - 1) |-> Others(i)]
<1>1. Parts - 1 \in Nat /\ Parts - 1 = 2
  BY DEF Parts
<1>2. ASSUME NEW i \in 1..(Parts - 1) PROVE Others(i) \in BusFrame /\ Others(i).kind = "next"
  <2>1. i + 1 \in Nat
    BY <1>1
  <2> QED
    BY <2>1 DEF BusFrame
<1> HIDE DEF Others
<1>3. n \in Seq(BusFrame)
  <2>1. \A i \in 1..(Parts - 1) : Others(i) \in BusFrame
    BY <1>2
  <2>2. PICK k \in Nat : k = Parts - 1
    BY <1>1
  <2>3. [i \in 1..k |-> Others(i)] \in Seq(BusFrame)
    BY <2>1, <2>2
  <2> QED
    BY <2>2, <2>3
<1>4. DOMAIN n = 1..(Parts - 1)
  OBVIOUS
<1>5. \A i \in 1..(Parts - 1) : n[i].kind = "next"
  BY <1>2
<1> HIDE DEF n
<1>6. Len(n) = Parts - 1
  BY <1>1, <1>3, <1>4, LenProperties
<1> QED
  BY <1>3, <1>5, <1>6 DEF n, Others

\* main takes the first frame that is coming and asks for the rest of the answer.
LEMMA TakeFlows ==
  ASSUME BusType, Take, FlowControl(Head(obdMsgq))
  PROVE  /\ BusType' /\ UNCHANGED <<car, faults>> /\ Len(Coming) >= 1
         /\ Head(obdMsgq) = Coming[1] /\ TakenLate(Coming, stale, stale')
         /\ \E u \in Seq(BusFrame) : FirstTaken(Coming, u) /\ Followed(u, Coming')
<1>1. /\ obdMsgq \in Seq(BusFrame) /\ onBus \in Seq(BusFrame) /\ obdMsgq # <<>>
      /\ obdMsgq' = Tail(obdMsgq) /\ stale \in Nat /\ UNCHANGED <<car, faults>>
      /\ stale' = IF Head(obdMsgq).age > 0 /\ Head(obdMsgq).kind # "next"
                  THEN Counted(stale) ELSE stale
      /\ onBus' = onBus \o [i \in 1..(Parts - 1) |->
                              [Head(obdMsgq) EXCEPT !.part = i + 1, !.kind = "next"]]
  BY DEF BusType, Take, FlowControl
<1>2. /\ Tail(obdMsgq) \in Seq(BusFrame) /\ Head(obdMsgq) = Coming[1] /\ Head(obdMsgq) \in BusFrame
      /\ FirstTaken(Coming, Tail(obdMsgq) \o onBus)
  BY <1>1, HeadTaken DEF Coming
<1>3. PICK n \in Seq(BusFrame) :
        /\ onBus' = onBus \o n /\ Len(n) = Parts - 1 /\ \A i \in 1..Len(n) : n[i].kind = "next"
  BY <1>1, <1>2, FlowType
<1>4. /\ onBus' \in Seq(BusFrame)
      /\ Followed(Tail(obdMsgq) \o onBus, Tail(obdMsgq) \o onBus')
  BY <1>1, <1>2, <1>3, FlowFollows
<1>5. Tail(obdMsgq) \o onBus \in Seq(BusFrame)
  BY <1>1, <1>2, ConcatProperties
<1>6. Counted(stale) \in Nat
  BY <1>1, CountedType
<1>7. Len(Coming) >= 1
  <2>1. Coming # <<>>
    BY <1>2 DEF FirstTaken
  <2>2. Coming \in Seq(BusFrame)
    BY ComingType
  <2> QED
    BY <2>1, <2>2, EmptySeq, LenProperties
<1>8. BusType'
  BY <1>1, <1>2, <1>4, <1>6 DEF BusType
<1>9. TakenLate(Coming, stale, stale')
  BY <1>1, <1>2 DEF TakenLate
<1>10. Coming' = Tail(obdMsgq) \o onBus'
  BY <1>1 DEF Coming
<1> QED
  BY <1>1, <1>2, <1>4, <1>5, <1>7, <1>8, <1>9, <1>10

\* Bus-off loses what is in transit.
BusOff == /\ faults < MaxFaults /\ faults' = faults + 1 /\ onBus' = <<>>
          /\ UNCHANGED <<car, obdMsgq, stale>>

\* What is left is the queue, the first part of what was coming.
LEMMA BusOffCuts ==
  ASSUME BusType, BusOff
  PROVE  /\ BusType' /\ UNCHANGED <<car, stale>> /\ faults' = faults + 1 /\ faults' \in Nat
         /\ Cut(Coming, Coming')
<1>1. /\ obdMsgq \in Seq(BusFrame) /\ onBus \in Seq(BusFrame) /\ faults \in Nat
      /\ obdMsgq' = obdMsgq /\ onBus' = <<>> /\ <<>> \in Seq(BusFrame)
  BY BlockType, EmptySeq DEF BusType, BusOff
<1>2. Coming' = obdMsgq
  BY <1>1, ConcatEmptySeq DEF Coming
<1>3. /\ Len(Coming) = Len(obdMsgq) + Len(onBus) /\ Len(obdMsgq) \in Nat /\ Len(onBus) \in Nat
      /\ \A i \in 1..Len(obdMsgq) : Coming[i] = obdMsgq[i]
  BY <1>1, Concat DEF Coming
<1>4. Cut(Coming, Coming')
  BY <1>2, <1>3 DEF Cut
<1>5. BusType'
  BY <1>1, BlockType DEF BusType, BusOff
<1> QED
  BY <1>1, <1>4, <1>5 DEF BusOff

\* The operations on the link, for a program that drains its queue.
Late == Draining(Coming, stale, faults)
Quiet == Settled(Coming, stale, faults)

\* Frames were lost, at most; the others are in their order.
Fewer(s, t) == /\ Len(t) <= Len(s)
               /\ \A i \in 1..Len(t) : \E j \in 1..Len(s) : t[i] = s[j]
               /\ \A i \in 1..(Len(t) - 1) : \E j \in 1..(Len(s) - 1) : t[i] = s[j]

\* The types of the link.
LEMMA LinkType ==
  ASSUME BusType
  PROVE  /\ Coming \in Seq(BusFrame) /\ Len(Coming) \in Nat /\ stale \in Nat /\ faults \in Nat
  BY ComingType, FaultsType DEF BusType

\* Between two rounds nothing is late that has not been counted.
LEMMA QuietLate == ASSUME BusType, Quiet PROVE Late /\ stale <= faults
<1>1. Late
  BY LinkType, SettledDrains DEF Quiet, Late
<1>2. stale <= faults
  BY LinkType DEF Quiet, Settled
<1> QED
  BY <1>1, <1>2

\* The bound on what is late bounds what was taken late.
LEMMA LateEnough == ASSUME BusType, Late PROVE LateOnce
  BY LinkType, LateOver DEF Late, LateOnce

\* A step that leaves the link alone.
LEMMA StillLate ==
  ASSUME BusType, UNCHANGED carVars
  PROVE  BusType' /\ Coming' = Coming /\ Late' = Late /\ Quiet' = Quiet
<1>1. BusType' /\ Coming' = Coming
  BY BusStill
<1>2. stale' = stale /\ faults' = faults
  BY DEF carVars
<1> QED
  BY <1>1, <1>2 DEF Late, Quiet

\* A request of a program that has drained its queue.
LEMMA AskLate ==
  ASSUME BusType, Quiet, NEW fmts \in SUBSET Formats, NEW pid \in Int, Ask(fmts, pid)
  PROVE  BusType' /\ Late'
<1>1. /\ BusType' /\ UNCHANGED <<car, stale>> /\ faults <= faults'
      /\ \E n : Fresh(Coming, Coming', fmts, pid, n)
  BY AskBrings, FaultsType
<1>2. Coming' \in Seq(BusFrame) /\ faults' \in Nat
  BY <1>1, LinkType DEF BusType, Coming
<1>3. Draining(Coming', stale, faults')
  BY <1>1, <1>2, LinkType, LateFresh DEF Quiet
<1> QED
  BY <1>1, <1>3 DEF Late

\* A frame is taken.
LEMMA TakeLate ==
  ASSUME BusType, Late, Take, UNCHANGED onBus
  PROVE  /\ BusType' /\ Late' /\ (Quiet => Quiet')
         /\ FirstTaken(Coming, Coming') /\ Head(obdMsgq) = Coming[1] /\ Len(Coming) >= 1
<1>1. /\ BusType' /\ UNCHANGED <<car, faults>>
      /\ FirstTaken(Coming, Coming') /\ Len(Coming) >= 1 /\ Head(obdMsgq) = Coming[1]
      /\ stale' = IF Coming[1].age > 0 /\ Coming[1].kind # "next" THEN Counted(stale) ELSE stale
  BY TakeTakes
<1>2. TakenLate(Coming, stale, stale')
  BY <1>1 DEF TakenLate
<1>3. Coming' \in Seq(BusFrame)
  BY <1>1, LinkType DEF BusType, Coming
<1>4. Draining(Coming', stale', faults)
  BY <1>1, <1>2, <1>3, LinkType, LateTaken DEF Late
<1>5. stale' <= stale + 1 /\ stale' \in Nat
  <2>1. Counted(stale) \in Nat /\ Counted(stale) <= stale + 1
    BY LinkType, CountedType
  <2>2. stale' = Counted(stale) \/ stale' = stale
    BY <1>1
  <2> QED
    BY <2>1, <2>2, LinkType
<1>6. Quiet => Quiet'
  BY <1>1, <1>5, LinkType DEF Quiet, Settled, FirstTaken
<1> QED
  BY <1>1, <1>4, <1>6 DEF Late

\* A frame is taken and the rest of the answer asked for.
LEMMA FlowLate ==
  ASSUME BusType, Late, Take, FlowControl(Head(obdMsgq))
  PROVE  /\ BusType' /\ Late' /\ Head(obdMsgq) = Coming[1] /\ Len(Coming) >= 1
         /\ Len(Coming') = Len(Coming) + 1
<1>1. /\ BusType' /\ UNCHANGED <<car, faults>> /\ Len(Coming) >= 1
      /\ Head(obdMsgq) = Coming[1] /\ TakenLate(Coming, stale, stale')
      /\ \E u \in Seq(BusFrame) : FirstTaken(Coming, u) /\ Followed(u, Coming')
  BY TakeFlows
<1>2. PICK u \in Seq(BusFrame) : FirstTaken(Coming, u) /\ Followed(u, Coming')
  BY <1>1
<1>3. Coming' \in Seq(BusFrame) /\ stale' \in Nat
  BY <1>1, LinkType DEF BusType, Coming
<1>4. Draining(u, stale', faults)
  BY <1>1, <1>2, LinkType, LateTaken DEF Late
<1>5. Draining(Coming', stale', faults)
  BY <1>2, <1>3, <1>4, LinkType, LateFollowed
<1>6. Len(Coming') = Len(Coming) + 1
  BY <1>2, LinkType DEF FirstTaken, Followed, Parts
<1> QED
  BY <1>1, <1>5, <1>6 DEF Late

\* The wait ends: the queue is drained.
LEMMA GiveUpLate ==
  ASSUME BusType, Late, GiveUp
  PROVE  BusType' /\ Late' /\ Quiet' /\ Coming' = Coming
<1>1. /\ BusType' /\ UNCHANGED <<car, stale>> /\ Coming' = Coming
      /\ faults' = faults + Len(Coming)
  BY GiveUpWaits
<1>2. Quiet'
  BY <1>1, LinkType, LateOver DEF Late, Quiet
<1>3. Late'
  <2>1. Coming' \in Seq(BusFrame) /\ faults' \in Nat /\ stale' \in Nat
    BY <1>1, LinkType
  <2> QED
    BY <1>2, <2>1, SettledDrains DEF Late, Quiet
<1> QED
  BY <1>1, <1>2, <1>3

\* The driver receives a frame, or drops it.
LEMMA ArriveLate ==
  ASSUME BusType, Late, NEW size \in Nat, Arrive(size)
  PROVE  BusType' /\ Late' /\ (Quiet => Quiet') /\ Fewer(Coming, Coming')
<1>1. /\ BusType' /\ UNCHANGED <<car, faults, stale>>
      /\ Coming' = Coming \/ \E d \in 1..Len(Coming) : OneLost(Coming, Coming', d)
  BY ArriveMoves
<1>2. CASE Coming' = Coming
  BY <1>1, <1>2, LinkType DEF Late, Quiet, Fewer
<1>3. CASE \E d \in 1..Len(Coming) : OneLost(Coming, Coming', d)
  <2>1. PICK d \in 1..Len(Coming) : OneLost(Coming, Coming', d)
    BY <1>3
  <2>2. Draining(Coming', stale, faults)
    BY <2>1, LinkType, LateLost DEF Late
  <2>3. Len(Coming') = Len(Coming) - 1
    BY <2>1 DEF OneLost
  <2>4. Quiet => Quiet'
    BY <1>1, <2>3, LinkType DEF Quiet, Settled
  <2>5. Fewer(Coming, Coming')
    <3>1. ASSUME NEW i \in 1..Len(Coming')
          PROVE  /\ i \in 1..Len(Coming) /\ i + 1 \in 1..Len(Coming)
                 /\ i <= Len(Coming') - 1 => /\ i \in 1..(Len(Coming) - 1)
                                             /\ i + 1 \in 1..(Len(Coming) - 1)
                 /\ Coming'[i] = Coming[i] \/ Coming'[i] = Coming[i + 1]
      BY <2>1, <2>3, LinkType DEF OneLost
    <3>2. Len(Coming') <= Len(Coming)
      BY <2>3, LinkType
    <3>3. \A i \in 1..Len(Coming') : \E j \in 1..Len(Coming) : Coming'[i] = Coming[j]
      BY <3>1
    <3>4. ASSUME NEW i \in 1..(Len(Coming') - 1)
          PROVE  \E j \in 1..(Len(Coming) - 1) : Coming'[i] = Coming[j]
      <4>1. i \in 1..Len(Coming') /\ i <= Len(Coming') - 1
        BY <2>3, LinkType
      <4>2. /\ i \in 1..(Len(Coming) - 1) /\ i + 1 \in 1..(Len(Coming) - 1)
            /\ Coming'[i] = Coming[i] \/ Coming'[i] = Coming[i + 1]
        BY <3>1, <4>1
      <4> QED
        BY <4>2
    <3> QED
      BY <3>2, <3>3, <3>4 DEF Fewer
  <2> QED
    BY <1>1, <2>2, <2>4, <2>5 DEF Late
<1> QED
  BY <1>1, <1>2, <1>3

\* The controller goes off the bus.
LEMMA BusOffLate ==
  ASSUME BusType, Late, BusOff
  PROVE  BusType' /\ Late' /\ (Quiet => Quiet') /\ Fewer(Coming, Coming')
<1>1. /\ BusType' /\ UNCHANGED <<car, stale>> /\ faults' = faults + 1 /\ faults' \in Nat
      /\ Cut(Coming, Coming')
  BY BusOffCuts
<1>2. Coming' \in Seq(BusFrame) /\ Len(Coming') \in Nat
  BY <1>1, LinkType DEF BusType, Coming, Cut
<1>3. Draining(Coming', stale, faults')
  BY <1>1, <1>2, LinkType, LateCut DEF Late
<1>4. Quiet => Quiet'
  BY <1>1, <1>2, LinkType DEF Quiet, Settled, Cut
<1>5. Fewer(Coming, Coming')
  <2>1. /\ Len(Coming') <= Len(Coming)
        /\ \A i \in 1..Len(Coming') : i \in 1..Len(Coming) /\ Coming'[i] = Coming[i]
        /\ \A i \in 1..(Len(Coming') - 1) : i \in 1..(Len(Coming) - 1) /\ Coming'[i] = Coming[i]
    BY <1>1, <1>2, LinkType DEF Cut
  <2> QED
    BY <2>1 DEF Fewer
<1> QED
  BY <1>1, <1>3, <1>4, <1>5 DEF Late

\* The bench programs that ask both formats: nothing uncounted is coming when a round
\* begins.
TestLate == BusType /\ Late /\ (testPc # "drain" => Quiet)

\* Every step of can_obd, lsm6dsl and imu_can.
LEMMA TestLateStep ==
  ASSUME TestLate, TestQueue \in Nat, TestNext
  PROVE  TestLate'
<1>1. CASE TestSetup \/ PrintAccel \/ PrintGyro \/ Trigger
  <2>1. UNCHANGED carVars /\ (testPc = "drain" => testPc' = "drain")
    BY <1>1 DEF TestLate, TestSetup, PrintAccel, PrintGyro, Trigger, TestGo
  <2> QED
    BY <2>1, StillLate DEF TestLate
<1>2. CASE ObdRequests
  <2>1. /\ testPc = "ask" /\ testPc' = "drain" /\ Quiet
        /\ Ask(Formats, 0) \/ UNCHANGED carVars
    BY <1>2 DEF ObdRequests, TestGo, TestLate
  <2>2. Formats \in SUBSET Formats /\ 0 \in Int
    OBVIOUS
  <2>3. CASE Ask(Formats, 0)
    BY <2>1, <2>2, <2>3, AskLate DEF TestLate
  <2>4. CASE UNCHANGED carVars
    BY <2>1, <2>4, StillLate DEF TestLate
  <2> QED
    BY <2>1, <2>3, <2>4
<1>3. CASE DrainAnswers
  <2>1. \/ testPc' = "drain" /\ Take /\ UNCHANGED onBus
        \/ GiveUp
    BY <1>3 DEF DrainAnswers, TestGo
  <2> QED
    BY <2>1, TakeLate, GiveUpLate DEF TestLate
<1>4. CASE TestReceive
  <2>1. Arrive(TestQueue) /\ testPc' = testPc
    BY <1>4 DEF TestReceive, testVars
  <2> QED
    BY <2>1, ArriveLate DEF TestLate
<1>5. CASE TestBusOff
  <2>1. BusOff /\ testPc' = testPc
    BY <1>5 DEF TestBusOff, BusOff
  <2> QED
    BY <2>1, BusOffLate DEF TestLate
<1> QED
  BY <1>1, <1>2, <1>3, <1>4, <1>5 DEF TestNext, TestMain

-----------------------------------------------------------------------------
(* car_live_data: the identification does not drain the queue, but takes   *)
(* as many frames as an answer has.                                        *)

AllStd(s) == \A i \in 1..Len(s) : s[i].fmt = "std"
StdBefore(s) == \A i \in 1..(Len(s) - 1) : s[i].fmt = "std"
Pieces == Formats \X Int \X Nat

LiveLate ==
  /\ BusType /\ Late
  /\ livePid \in Nat /\ livePids \in [0..PidEnd -> SUBSET Formats]
  /\ liveVin \in Seq(Pieces)
  /\ livePc \in {"setup", "vin"} => Coming = <<>>
  /\ livePc \notin {"vinStd", "vinExt", "vinRest", "bitmaps", "frames"} => Quiet
  /\ livePc \in {"vinStd", "vin2"} => Len(Coming) <= 1 /\ AllStd(Coming)
  /\ livePc = "vinExt" => Len(Coming) <= 2 /\ StdBefore(Coming)
  /\ livePc = "vinRest" => /\ Len(liveVin) \in 1..(Parts - 1)
                           /\ Quiet \/ Len(Coming) <= Parts - Len(liveVin)

\* Lost frames do not change the formats of the others.
LEMMA FewerStd ==
  ASSUME NEW s, NEW t, Fewer(s, t)
  PROVE  (AllStd(s) => AllStd(t)) /\ (StdBefore(s) => StdBefore(t))
  BY DEF Fewer, AllStd, StdBefore

\* One answer behind at most one of the other format.
LEMMA FreshStd ==
  ASSUME NEW s \in Seq(BusFrame), NEW t, NEW fmts, NEW pid, NEW n \in {0, 1},
         Fresh(s, t, fmts, pid, n), Len(s) <= 1, AllStd(s)
  PROVE  /\ Len(t) <= 2 /\ StdBefore(t)
         /\ (s = <<>> /\ fmts = {"std"}) => Len(t) <= 1 /\ AllStd(t)
<1>1. /\ Len(s) \in Nat /\ Len(t) = Len(s) + n
      /\ \A i \in 1..Len(s) : s[i] \in BusFrame /\ t[i] = [s[i] EXCEPT !.age = Counted(@)]
      /\ \A i \in (Len(s) + 1)..(Len(s) + n) : t[i].fmt \in fmts
  BY FrameAt DEF Fresh
<1>2. \A i \in 1..Len(s) : t[i].fmt = "std"
  BY <1>1 DEF AllStd, BusFrame
<1>3. StdBefore(t)
  <2>1. 1..(Len(t) - 1) \subseteq 1..Len(s)
    BY <1>1
  <2> QED
    BY <1>2, <2>1 DEF StdBefore
<1>4. ASSUME s = <<>>, fmts = {"std"} PROVE Len(t) <= 1 /\ AllStd(t)
  <2>1. Len(s) = 0
    BY <1>4, EmptySeq
  <2> QED
    BY <1>1, <1>4, <2>1 DEF AllStd
<1> QED
  BY <1>1, <1>3, <1>4

\* What is copied of a frame.
LEMMA PieceType ==
  ASSUME NEW x \in BusFrame
  PROVE  Piece(x) \in Pieces
  BY DEF Piece, Pieces, BusFrame

\* The request for the VIN, on one format after the other.
LEMMA AskVinLate ==
  ASSUME LiveLate, AskVin
  PROVE  LiveLate'
<1>0. /\ BusType /\ Late /\ Quiet /\ UNCHANGED <<livePid, livePids, liveVin>>
      /\ Coming \in Seq(BusFrame) /\ Len(Coming) \in Nat
      /\ Len(Coming) <= 1 /\ AllStd(Coming)
  <2>1. UNCHANGED <<livePid, livePids, liveVin>> /\ livePc \in {"vin", "vin2"}
    BY DEF AskVin, LiveGo
  <2>2. BusType /\ Late /\ Quiet
    BY <2>1 DEF LiveLate
  <2>3. Coming = <<>> => Len(Coming) = 0
    BY EmptySeq
  <2>4. Len(Coming) <= 1 /\ AllStd(Coming)
    BY <2>1, <2>3 DEF LiveLate, AllStd
  <2> QED
    BY <2>1, <2>2, <2>4, LinkType
<1>1. /\ livePid' \in Nat /\ livePids' \in [0..PidEnd -> SUBSET Formats] /\ liveVin' \in Seq(Pieces)
  BY <1>0 DEF LiveLate
<1>2. ASSUME NEW fmt \in Formats, LiveAsk({fmt}, VIN)
      PROVE  /\ BusType' /\ Late' /\ Len(Coming') <= 2 /\ StdBefore(Coming')
             /\ (Coming = <<>> /\ fmt = "std") => Len(Coming') <= 1 /\ AllStd(Coming')
  <2>1. CASE Ask({fmt}, VIN)
    <3>1. {fmt} \in SUBSET Formats /\ VIN \in Int
      BY DEF VIN
    <3>2. BusType' /\ Late'
      BY <1>0, <2>1, <3>1, AskLate
    <3>3. Number({fmt}, VIN) \in {0, 1}
      BY NumberOne
    <3>4. \E n \in {0, 1} : Fresh(Coming, Coming', {fmt}, VIN, n)
      BY <1>0, <2>1, <3>1, <3>3, AskBrings
    <3> QED
      BY <1>0, <3>2, <3>4, FreshStd
  <2>2. CASE UNCHANGED carVars
    <3>1. BusType' /\ Late' /\ Coming' = Coming
      BY <1>0, <2>2, StillLate
    <3>2. StdBefore(Coming)
      <4>1. 1..(Len(Coming) - 1) \subseteq 1..Len(Coming)
        BY <1>0
      <4> QED
        BY <1>0, <4>1 DEF AllStd, StdBefore
    <3> QED
      BY <1>0, <3>1, <3>2
  <2> QED
    BY <1>2, <2>1, <2>2 DEF LiveAsk
<1>3. CASE LiveGo("vin", {"vinStd"}) /\ LiveAsk({"std"}, VIN)
  <2>1. Coming = <<>> /\ livePc' = "vinStd" /\ "std" \in Formats
    BY <1>3 DEF LiveLate, LiveGo, Formats
  <2>2. BusType' /\ Late' /\ Len(Coming') <= 1 /\ AllStd(Coming')
    BY <1>2, <1>3, <2>1
  <2> QED
    BY <1>1, <2>1, <2>2 DEF LiveLate
<1>4. CASE LiveGo("vin2", {"vinExt"}) /\ LiveAsk({"ext"}, VIN)
  <2>1. livePc' = "vinExt" /\ "ext" \in Formats
    BY <1>4 DEF LiveGo, Formats
  <2>2. BusType' /\ Late' /\ Len(Coming') <= 2 /\ StdBefore(Coming')
    BY <1>2, <1>4, <2>1
  <2> QED
    BY <1>1, <2>1, <2>2 DEF LiveLate
<1> QED
  BY <1>3, <1>4 DEF AskVin

\* The first frame of the VIN. Its other frames are asked for only when it is the first
\* frame of an answer to the last request, and then nothing else is coming.
LEMMA TakeFirstLate ==
  ASSUME LiveLate, TakeFirstOfVin, UNCHANGED <<livePid, livePids>>
  PROVE  LiveLate'
<1>0. /\ BusType /\ Late /\ Coming \in Seq(BusFrame) /\ Len(Coming) \in Nat
      /\ livePc \in {"vinStd", "vinExt"}
      /\ livePid' \in Nat /\ livePids' \in [0..PidEnd -> SUBSET Formats]
  BY LinkType DEF LiveLate, TakeFirstOfVin, LiveGo
<1>1. CASE GiveUp /\ UNCHANGED liveVin /\ (LiveGo("vinStd", {"vin2"}) \/ LiveGo("vinExt", {"pids"}))
  <2>1. BusType' /\ Late' /\ Quiet' /\ Coming' = Coming
    BY <1>0, <1>1, GiveUpLate
  <2>2. \/ livePc = "vinStd" /\ livePc' = "vin2"
        \/ livePc' = "pids"
    BY <1>1 DEF LiveGo
  <2> QED
    BY <1>0, <1>1, <2>1, <2>2 DEF LiveLate
<1>2. CASE /\ Take /\ livePc' = "vinRest"
           /\ IF /\ canUp /\ Head(obdMsgq).kind = "first"
                 /\ Head(obdMsgq).fmt = (IF livePc = "vinStd" THEN "std" ELSE "ext")
              THEN FlowControl(Head(obdMsgq)) ELSE UNCHANGED onBus
           /\ liveVin' = <<Piece(Head(obdMsgq))>>
  <2>1. Head(obdMsgq) \in BusFrame
    BY <1>0, <1>2, HeadTailProperties DEF BusType, Take
  <2>2. liveVin' \in Seq(Pieces) /\ Len(liveVin') = 1
    <3>1. PICK x \in Pieces : x = Piece(Head(obdMsgq))
      BY <2>1, PieceType
    <3>2. <<x>> \in Seq(Pieces) /\ Len(<<x>>) = 1
      OBVIOUS
    <3> QED
      BY <1>2, <3>1, <3>2
  <2>3. ASSUME BusType', Late', Len(Coming') <= 2 PROVE LiveLate'
    <3>1. Len(liveVin') \in 1..(Parts - 1) /\ Len(Coming') <= Parts - Len(liveVin')
      BY <2>2, <2>3 DEF Parts
    <3> QED
      BY <1>0, <1>2, <2>2, <2>3, <3>1 DEF LiveLate
  <2>4. CASE UNCHANGED onBus
    <3>1. BusType' /\ Late' /\ FirstTaken(Coming, Coming')
      BY <1>0, <1>2, <2>4, TakeLate
    <3>2. Len(Coming') <= 2
      BY <1>0, <3>1 DEF FirstTaken, LiveLate
    <3> QED
      BY <2>3, <3>1, <3>2
  <2>5. CASE /\ FlowControl(Head(obdMsgq))
             /\ Head(obdMsgq).fmt = (IF livePc = "vinStd" THEN "std" ELSE "ext")
    <3>1. /\ BusType' /\ Late' /\ Head(obdMsgq) = Coming[1] /\ Len(Coming) >= 1
          /\ Len(Coming') = Len(Coming) + 1
      BY <1>0, <1>2, <2>5, FlowLate
    <3>2. Len(Coming) <= 1
      <4>1. CASE livePc = "vinStd"
        BY <4>1 DEF LiveLate
      <4>2. CASE livePc = "vinExt"
        <5>1. Coming[1].fmt = "ext" /\ StdBefore(Coming)
          BY <2>5, <3>1, <4>2 DEF LiveLate
        <5>2. 1 \notin 1..(Len(Coming) - 1)
          BY <5>1 DEF StdBefore
        <5> QED
          BY <1>0, <5>2
      <4> QED
        BY <1>0, <4>1, <4>2
    <3>3. Len(Coming') <= 2
      BY <1>0, <3>1, <3>2
    <3> QED
      BY <2>3, <3>1, <3>3
  <2> QED
    BY <1>2, <2>4, <2>5
<1> QED
  BY <1>1, <1>2 DEF TakeFirstOfVin, LiveGo

\* Its other frames, one wait for each.
LEMMA TakeRestLate ==
  ASSUME LiveLate, TakeRestOfVin, UNCHANGED <<livePid, livePids>>
  PROVE  LiveLate'
<1>0. /\ BusType /\ Late /\ Coming \in Seq(BusFrame) /\ Len(Coming) \in Nat
      /\ livePc = "vinRest" /\ liveVin \in Seq(Pieces) /\ Len(liveVin) \in 1..2
      /\ Quiet \/ Len(Coming) <= 3 - Len(liveVin)
      /\ livePid' \in Nat /\ livePids' \in [0..PidEnd -> SUBSET Formats]
  BY LinkType DEF LiveLate, TakeRestOfVin, LiveGo, Parts
<1>1. livePc' = IF Len(liveVin) = 2 THEN "pids" ELSE "vinRest"
  BY DEF TakeRestOfVin, LiveGo, Parts
<1>2. ASSUME NEW x \in Pieces, liveVin' = Append(liveVin, x), BusType', Late',
             Quiet' \/ (Len(Coming') \in Nat /\ Len(Coming') <= 2 - Len(liveVin))
      PROVE  LiveLate'
  <2>1. liveVin' \in Seq(Pieces) /\ Len(liveVin') = Len(liveVin) + 1
    BY <1>0, <1>2, AppendProperties
  <2>2. CASE Len(liveVin) = 2
    <3>1. Quiet'
      <4>1. CASE Len(Coming') = 0
        <5>1. Coming' \in Seq(BusFrame) /\ stale' \in Nat /\ faults' \in Nat
          BY <1>2, BlockType, ConcatProperties DEF BusType, Coming
        <5> QED
          BY <1>2, <4>1, <5>1, LateEmpty DEF Late, Quiet
      <4> QED
        BY <1>0, <1>2, <2>2, <4>1
    <3> QED
      BY <1>0, <1>1, <1>2, <2>1, <2>2, <3>1 DEF LiveLate
  <2>3. CASE Len(liveVin) = 1
    <3>1. Len(liveVin') \in 1..(Parts - 1) /\ (Quiet' \/ Len(Coming') <= Parts - Len(liveVin'))
      BY <1>2, <2>1, <2>3 DEF Parts
    <3> QED
      BY <1>0, <1>1, <1>2, <2>1, <2>3, <3>1 DEF LiveLate
  <2> QED
    BY <1>0, <2>2, <2>3
<1>3. CASE Take /\ liveVin' = Append(liveVin, Piece(Head(obdMsgq))) /\ UNCHANGED onBus
  <2>1. Piece(Head(obdMsgq)) \in Pieces
    <3>1. Head(obdMsgq) \in BusFrame
      BY <1>0, <1>3, HeadTailProperties DEF BusType, Take
    <3> QED
      BY <3>1, PieceType
  <2>2. BusType' /\ Late' /\ (Quiet => Quiet') /\ FirstTaken(Coming, Coming') /\ Len(Coming) >= 1
    BY <1>0, <1>3, TakeLate
  <2>3. Quiet' \/ (Len(Coming') \in Nat /\ Len(Coming') <= 2 - Len(liveVin))
    BY <1>0, <2>2 DEF FirstTaken
  <2> QED
    BY <1>2, <1>3, <2>1, <2>2, <2>3
<1>4. CASE GiveUp /\ liveVin' = Append(liveVin, Last(liveVin))
  <2>1. Last(liveVin) \in Pieces
    <3>1. Len(liveVin) \in 1..Len(liveVin)
      <4>1. PICK k \in 1..2 : k = Len(liveVin)
        BY <1>0
      <4> QED
        BY <4>1
    <3> QED
      BY <1>0, <3>1, ElementOfSeq DEF Last
  <2>2. BusType' /\ Late' /\ Quiet'
    BY <1>0, <1>4, GiveUpLate
  <2> QED
    BY <1>2, <1>4, <2>1, <2>2
<1> QED
  BY <1>3, <1>4 DEF TakeRestOfVin

\* A step after which nothing but the link and the place of main has changed.
LEMMA LiveElsewhere ==
  ASSUME LiveLate, BusType', Late', UNCHANGED liveVin,
         livePid' \in Nat, livePids' \in [0..PidEnd -> SUBSET Formats],
         livePc' \in {"pids", "bitmaps", "poll", "sweep", "frames"},
         livePc' \in {"bitmaps", "frames"} \/ Quiet'
  PROVE  LiveLate'
  BY DEF LiveLate

\* Requests of the discovery and the sweep.
LEMMA LiveAskLate ==
  ASSUME BusType, Quiet, NEW fmts \in SUBSET Formats, NEW pid \in Nat, LiveAsk(fmts, pid)
  PROVE  BusType' /\ Late'
<1>1. pid \in Int
  OBVIOUS
<1>2. CASE Ask(fmts, pid)
  BY <1>1, <1>2, AskLate
<1>3. CASE UNCHANGED carVars
  BY <1>3, StillLate, QuietLate
<1> QED
  BY <1>2, <1>3 DEF LiveAsk

\* The discovery drains the queue after every block.
LEMMA LiveBlocks ==
  ASSUME LiveLate, LiveAskBlock \/ TakeBitmaps \/ GetPidsDone
  PROVE  LiveLate'
<1>0. /\ BusType /\ Late /\ livePid \in Nat /\ livePids \in [0..PidEnd -> SUBSET Formats]
  BY DEF LiveLate
<1>1. CASE LiveAskBlock
  <2>1. /\ livePc = "pids" /\ livePc' = "bitmaps" /\ UNCHANGED <<liveVin, livePid, livePids>>
        /\ livePid < PidEnd /\ LiveAsk(livePids[livePid], livePid)
    BY <1>1 DEF LiveAskBlock, LiveGo
  <2>2. Quiet
    BY <2>1 DEF LiveLate
  <2>3. livePids[livePid] \in SUBSET Formats
    <3>1. livePid \in 0..PidEnd
      BY <1>0, <2>1, BlockType
    <3> QED
      BY <1>0, <3>1
  <2>4. BusType' /\ Late'
    BY <1>0, <2>1, <2>2, <2>3, LiveAskLate
  <2> QED
    BY <1>0, <2>1, <2>4, LiveElsewhere
<1>2. CASE TakeBitmaps
  <2>0. UNCHANGED liveVin
    BY <1>2 DEF TakeBitmaps
  <2>1. CASE /\ livePc' = "bitmaps" /\ Take /\ UNCHANGED <<onBus, livePid>>
             /\ MarkBitmap(Head(obdMsgq))
    <3>1. BusType' /\ Late'
      BY <1>0, <2>1, TakeLate
    <3>2. Head(obdMsgq).fmt \in Formats
      <4>1. Head(obdMsgq) \in BusFrame
        BY <1>0, <2>1, HeadTailProperties DEF BusType, Take
      <4> QED
        BY <4>1 DEF BusFrame
    <3>3. livePids' \in [0..PidEnd -> SUBSET Formats]
      <4>1. PICK bits \in Bits(Head(obdMsgq)) :
              livePids' = [p \in DOMAIN livePids |->
                             livePids[p] \cup (IF p \in bits THEN {Head(obdMsgq).fmt} ELSE {})]
        BY <2>1 DEF MarkBitmap
      <4> QED
        BY <1>0, <3>2, <4>1
    <3> QED
      BY <1>0, <2>0, <2>1, <3>1, <3>3, LiveElsewhere
  <2>2. CASE livePc' = "pids" /\ GiveUp /\ livePid' = livePid + PidBlock /\ UNCHANGED livePids
    <3>1. BusType' /\ Late' /\ Quiet'
      BY <1>0, <2>2, GiveUpLate
    <3>2. livePid' \in Nat
      BY <1>0, <2>2, BlockType
    <3> QED
      BY <1>0, <2>0, <2>2, <3>1, <3>2, LiveElsewhere
  <2> QED
    BY <1>2, <2>1, <2>2 DEF TakeBitmaps, LiveGo
<1>3. CASE GetPidsDone
  <2>1. /\ livePc = "pids" /\ livePc' = "poll" /\ UNCHANGED <<carVars, liveVin, livePid, livePids>>
    BY <1>3 DEF GetPidsDone, LiveGo
  <2>2. Quiet
    BY <2>1 DEF LiveLate
  <2>3. BusType' /\ Late' /\ Quiet'
    BY <1>0, <2>1, <2>2, StillLate
  <2> QED
    BY <1>0, <2>1, <2>3, LiveElsewhere
<1> QED
  BY <1>1, <1>2, <1>3

\* So does the sweep after every PID.
LEMMA LiveSweeps ==
  ASSUME LiveLate, PollButton \/ LiveAskPid \/ TakeFrames \/ PrintPacket
  PROVE  LiveLate'
<1>0. /\ BusType /\ Late /\ livePid \in Nat /\ livePids \in [0..PidEnd -> SUBSET Formats]
  BY DEF LiveLate
<1>1. CASE PollButton \/ PrintPacket
  <2>1. /\ livePc \in {"poll", "sweep"} /\ livePc' \in {"poll", "sweep"}
        /\ UNCHANGED <<carVars, liveVin, livePids>> /\ livePid' \in {0, livePid}
    BY <1>1 DEF PollButton, PrintPacket, LiveGo
  <2>2. Quiet
    BY <2>1 DEF LiveLate
  <2>3. BusType' /\ Late' /\ Quiet'
    BY <1>0, <2>1, <2>2, StillLate
  <2> QED
    BY <1>0, <2>1, <2>3, LiveElsewhere
<1>2. CASE LiveAskPid
  <2>1. /\ livePc = "sweep" /\ livePc' = "frames" /\ UNCHANGED <<liveVin, livePids>>
        /\ \E pid \in LiveSweepNext : livePid' = pid /\ LiveAsk(livePids[pid], pid)
    BY <1>2 DEF LiveAskPid, LiveGo
  <2>2. PICK pid \in LiveSweepNext : livePid' = pid /\ LiveAsk(livePids[pid], pid)
    BY <2>1
  <2>3. pid \in Nat /\ pid \in 0..PidEnd
    BY BlockType DEF LiveSweepNext
  <2>4. livePids[pid] \in SUBSET Formats
    BY <1>0, <2>3
  <2>5. Quiet
    BY <2>1 DEF LiveLate
  <2>6. BusType' /\ Late'
    BY <1>0, <2>2, <2>3, <2>4, <2>5, LiveAskLate
  <2> QED
    BY <1>0, <2>1, <2>2, <2>3, <2>6, LiveElsewhere
<1>3. CASE TakeFrames
  <2>0. UNCHANGED <<liveVin, livePids>>
    BY <1>3 DEF TakeFrames
  <2>1. CASE /\ livePc' = "frames" /\ Take /\ UNCHANGED livePid
             /\ UNCHANGED onBus \/ FlowControl(Head(obdMsgq))
    <3>1. BusType' /\ Late'
      BY <1>0, <2>1, TakeLate, FlowLate
    <3> QED
      BY <1>0, <2>0, <2>1, <3>1, LiveElsewhere
  <2>2. CASE livePc' = "sweep" /\ GiveUp /\ livePid' = livePid + 1
    <3>1. BusType' /\ Late' /\ Quiet'
      BY <1>0, <2>2, GiveUpLate
    <3>2. livePid' \in Nat
      BY <1>0, <2>2
    <3> QED
      BY <1>0, <2>0, <2>2, <3>1, <3>2, LiveElsewhere
  <2> QED
    BY <1>3, <2>1, <2>2 DEF TakeFrames, LiveGo
<1> QED
  BY <1>1, <1>2, <1>3

\* The driver and bus-off: frames are lost, at most.
LEMMA LiveLoses ==
  ASSUME LiveLate, UNCHANGED <<livePc, liveVin, livePid, livePids>>,
         BusType', Late', Quiet => Quiet', Fewer(Coming, Coming')
  PROVE  LiveLate'
<1>1. /\ Coming \in Seq(BusFrame) /\ Len(Coming) \in Nat /\ BusType
  BY LinkType DEF LiveLate
<1>2. Coming' \in Seq(BusFrame) /\ Len(Coming') \in Nat /\ Len(Coming') <= Len(Coming)
  BY ConcatProperties, LenProperties DEF BusType, Coming, Fewer
<1>3. Coming = <<>> => Coming' = <<>>
  <2>1. ASSUME Coming = <<>> PROVE Coming' = <<>>
    <3>1. Len(Coming) = 0
      BY <2>1, EmptySeq
    <3>2. Len(Coming') = 0
      BY <1>1, <1>2, <3>1
    <3> QED
      BY <1>2, <3>2, EmptySeq
  <2> QED
    BY <2>1
<1>4. (AllStd(Coming) => AllStd(Coming')) /\ (StdBefore(Coming) => StdBefore(Coming'))
  BY FewerStd
<1>5. ASSUME livePc = "vinRest"
      PROVE  /\ Len(liveVin') \in 1..(Parts - 1)
             /\ Quiet' \/ Len(Coming') <= Parts - Len(liveVin')
  <2>1. Len(liveVin) \in 1..2 /\ (Quiet \/ Len(Coming) <= 3 - Len(liveVin))
    BY <1>5 DEF LiveLate, Parts
  <2>2. PICK k \in 1..2 : k = Len(liveVin)
    BY <2>1
  <2>3. Quiet' \/ Len(Coming') <= 3 - k
    BY <1>1, <1>2, <2>1, <2>2
  <2> QED
    BY <2>2, <2>3 DEF Parts
<1>6. livePc \in {"vinStd", "vin2"} => Len(Coming') <= 1 /\ AllStd(Coming')
  BY <1>1, <1>2, <1>4 DEF LiveLate
<1>7. livePc = "vinExt" => Len(Coming') <= 2 /\ StdBefore(Coming')
  BY <1>1, <1>2, <1>4 DEF LiveLate
<1> QED
  BY <1>3, <1>5, <1>6, <1>7 DEF LiveLate

\* Every step of car_live_data.
LEMMA LiveLateStep ==
  ASSUME LiveLate, LiveQueue \in Nat, LiveNext
  PROVE  LiveLate'
<1>0. BusType /\ Late
  BY DEF LiveLate
<1>1. CASE SetupGpios
  <2>1. /\ livePc = "setup" /\ livePc' = "vin" /\ UNCHANGED <<carVars, liveVin, livePid, livePids>>
    BY <1>1 DEF SetupGpios, LiveGo
  <2>2. Quiet
    BY <2>1 DEF LiveLate
  <2>3. BusType' /\ Late' /\ Quiet' /\ Coming' = Coming
    BY <1>0, <2>1, <2>2, StillLate
  <2> QED
    BY <2>1, <2>3 DEF LiveLate
<1>2. CASE AskVin
  BY <1>2, AskVinLate
<1>3. CASE GetVin
  BY <1>3, TakeFirstLate, TakeRestLate DEF GetVin
<1>4. CASE LiveAskBlock \/ TakeBitmaps \/ GetPidsDone
  BY <1>4, LiveBlocks
<1>5. CASE PollButton \/ LiveAskPid \/ TakeFrames \/ PrintPacket
  BY <1>5, LiveSweeps
<1>6. CASE LiveReceive
  <2>1. Arrive(LiveQueue) /\ UNCHANGED <<livePc, liveVin, livePid, livePids>>
    BY <1>6 DEF LiveReceive, liveVars
  <2>2. BusType' /\ Late' /\ (Quiet => Quiet') /\ Fewer(Coming, Coming')
    BY <1>0, <2>1, ArriveLate
  <2> QED
    BY <2>1, <2>2, LiveLoses
<1>7. CASE LiveBusOff
  <2>1. BusOff /\ UNCHANGED <<livePc, liveVin, livePid, livePids>>
    BY <1>7 DEF LiveBusOff, BusOff
  <2>2. BusType' /\ Late' /\ (Quiet => Quiet') /\ Fewer(Coming, Coming')
    BY <1>0, <2>1, BusOffLate
  <2> QED
    BY <2>1, <2>2, LiveLoses
<1>8. CASE PressOrRelease
  <2>1. UNCHANGED <<carVars, livePc, liveVin, livePid, livePids>>
    BY <1>8 DEF PressOrRelease
  <2>2. BusType' /\ Late' /\ Quiet' = Quiet /\ Coming' = Coming
    BY <1>0, <2>1, StillLate
  <2> QED
    BY <2>1, <2>2 DEF LiveLate
<1> QED
  BY <1>1, <1>2, <1>3, <1>4, <1>5, <1>6, <1>7, <1>8 DEF LiveNext, LiveMain

\* A step of nobody.
LEMMA LiveStill ==
  ASSUME LiveLate, UNCHANGED <<carVars, liveVars>>
  PROVE  LiveLate'
<1>1. BusType' /\ Coming' = Coming /\ Late' = Late /\ Quiet' = Quiet
  BY StillLate DEF LiveLate
<1>2. UNCHANGED <<livePc, liveVin, livePid, livePids>>
  BY DEF liveVars
<1> QED
  BY <1>1, <1>2 DEF LiveLate

\* Whichever program runs, one that drains its queue takes a late answer once.
THEOREM DrainedInOrder == MCSpec => []DrainedOnce
<1> DEFINE Quieter == {"prototype", "car_live_data", "can tests"}
           Inv == /\ program = "car_live_data" => LiveLate
                  /\ program = "can tests" => TestLate
                  /\ program \notin Quieter => LateOnce
<1>1. MCInit => Inv
  <2> SUFFICES ASSUME MCInit PROVE Inv
    OBVIOUS
  <2>1. ASSUME CarInit PROVE BusType /\ Coming = <<>> /\ Late /\ Quiet /\ LateOnce
    <3>1. /\ car \in Cars /\ onBus = <<>> /\ obdMsgq = <<>> /\ faults = 0 /\ stale = 0
      BY <2>1 DEF CarInit
    <3>2. <<>> \in Seq(BusFrame) /\ Len(<<>>) = 0 /\ <<>> \o <<>> = <<>>
      BY EmptySeq, ConcatEmptySeq
    <3>3. BusType /\ Coming = <<>>
      BY <3>1, <3>2, BlockType DEF BusType, Coming
    <3>4. Quiet
      BY <3>1, <3>2, <3>3 DEF Quiet, Settled
    <3> QED
      BY <3>1, <3>3, <3>4, QuietLate DEF LateOnce
  <2>2. CASE program = "car_live_data"
    <3>1. LiveInit
      BY <2>2 DEF MCInit
    <3>2. BusType /\ Coming = <<>> /\ Late /\ Quiet
      BY <2>1, <3>1 DEF LiveInit
    <3>3. /\ livePc = "setup" /\ livePid = 0 /\ liveVin = <<>>
          /\ livePids \in [0..PidEnd -> SUBSET Formats]
      BY <3>1 DEF LiveInit, LiveIdle
    <3>4. liveVin \in Seq(Pieces)
      BY <3>3, EmptySeq
    <3> QED
      BY <2>2, <3>2, <3>3, <3>4 DEF LiveLate
  <2>3. CASE program = "can tests"
    <3>1. TestInit
      BY <2>3 DEF MCInit
    <3> QED
      BY <2>1, <2>3, <3>1 DEF TestInit, TestLate
  <2>4. CASE program \notin Quieter
    <3>1. CarInit
      BY <2>4 DEF MCInit, NoCar
    <3> QED
      BY <2>1, <2>4, <3>1
  <2> QED
    BY <2>2, <2>3, <2>4
<1>2. Inv /\ [MCNext]_<<program, carVars, canPrograms, mcVars, gnssVars, nmeaVars,
                        mapVars, statVars>> => Inv'
  <2> SUFFICES ASSUME Inv,
                      [MCNext]_<<program, carVars, canPrograms, mcVars, gnssVars, nmeaVars,
                                 mapVars, statVars>>
               PROVE  Inv'
    OBVIOUS
  <2>0. program' = program
    BY DEF MCNext
  <2>1. CASE program = "car_live_data"
    <3>1. LiveLate
      BY <2>1
    <3>2. LiveNext \/ UNCHANGED <<carVars, liveVars>>
      BY <2>1 DEF MCNext, canPrograms
    <3>3. LiveQueue \in Nat
      BY LiveDataAssumption
    <3> QED
      BY <2>0, <2>1, <3>1, <3>2, <3>3, LiveLateStep, LiveStill
  <2>2. CASE program = "can tests"
    <3>1. TestLate
      BY <2>2
    <3>2. TestNext \/ UNCHANGED <<carVars, testVars>>
      BY <2>2 DEF MCNext, canPrograms
    <3>3. TestQueue \in Nat
      BY CanTestsAssumption
    <3>4. CASE UNCHANGED <<carVars, testVars>>
      <4>1. BusType' /\ Late' = Late /\ Quiet' = Quiet /\ testPc' = testPc
        BY <3>1, <3>4, StillLate DEF TestLate, testVars
      <4> QED
        BY <2>0, <2>2, <3>1, <4>1 DEF TestLate
    <3> QED
      BY <2>0, <2>2, <3>1, <3>2, <3>3, <3>4, TestLateStep
  <2>3. CASE program \notin Quieter
    <3>1. UNCHANGED carVars
      BY <2>3 DEF MCNext
    <3> QED
      BY <2>0, <2>3, <3>1 DEF LateOnce, carVars
  <2>4. CASE program = "prototype"
    BY <2>0, <2>4
  <2> QED
    BY <2>1, <2>2, <2>3, <2>4
<1>3. Inv => DrainedOnce
  BY LateEnough DEF DrainedOnce, LiveLate, TestLate
<1> QED
  BY <1>1, <1>2, <1>3, PTL DEF MCSpec

-----------------------------------------------------------------------------
(* What car_live_data finds out and reports when nothing fails. Answers    *)
(* that can be told from each other are filed one by one: the invariant    *)
(* says for each place of main which frames are coming and what has been   *)
(* made of those that were taken.                                          *)

\* The bus is set up so that every answer can be told from every other one: the car
\* speaks one format at least, no PID has a long answer on both, and the queue has room
\* for the answers of both formats.
Distinguishable ==
  /\ LiveQueue >= 2
  /\ \A c \in Cars : (c.std # {} \/ c.ext # {}) /\ c.long \cap c.std \cap c.ext = {}

\* The frame that begins an answer. What is still to come of a long one after its
\* first m frames.
Opening(fmt, pid) == Frame(fmt, pid, 1, IF IsLong(pid) THEN "first" ELSE "single")
Remains(s, fmt, pid, m) ==
  /\ Len(s) = Parts - m
  /\ \A j \in 1..Len(s) : s[j] = Frame(fmt, pid, m + j, "next")

\* The formats fmts all answer, and their answers are coming.
Awaits(fmts, pid) == /\ \A f \in fmts : Answers(f, pid)
                     /\ Coming = Replies(fmts, pid)

\* The first m pieces of the answer of one format.
FirstPieces(v, fmt, pid, m) == Len(v) = m /\ \A k \in 1..m : v[k] = <<fmt, pid, k>>

Identified == livePc \in {"pids", "bitmaps", "poll", "sweep", "frames"}
VinFine ==
  /\ livePc \in {"setup", "vin"} => Coming = <<>>
  /\ livePc = "vinStd" => Coming = Replies({"std"}, VIN)
  /\ livePc = "vin2" => Coming = <<>> /\ ~Answers("std", VIN)
  /\ livePc = "vinExt" => Coming = Replies({"ext"}, VIN) /\ ~Answers("std", VIN)
  /\ livePc = "vinRest" => \E f \in Formats, m \in 1..(Parts - 1) :
                             /\ Answers(f, VIN) /\ FirstPieces(liveVin, f, VIN, m)
                             /\ Remains(Coming, f, VIN, m)
  /\ Identified => \E f \in Formats : Answers(f, VIN) /\ FirstPieces(liveVin, f, VIN, Parts)

\* What is marked up to PID b, and of the block behind it on the formats not in fmts.
MarkedFor(b, fmts) ==
  /\ livePids[0] = Formats
  /\ \A p \in 1..PidEnd, f \in Formats :
       f \in livePids[p] <=> p \in car[f] /\ (p <= b \/ (p <= b + PidBlock /\ f \notin fmts))

BlocksFine ==
  /\ livePc \in {"setup", "vin", "vinStd", "vin2", "vinExt", "vinRest"} =>
       livePid = 0 /\ MarkedFor(0, Formats)
  /\ livePc = "pids" => Coming = <<>> /\ Block(livePid) /\ MarkedFor(livePid, Formats)
  /\ livePc = "bitmaps" => /\ Block(livePid) /\ livePid < PidEnd
                           /\ \E fmts \in SUBSET Formats : /\ Awaits(fmts, livePid)
                                                           /\ MarkedFor(livePid, fmts)
  /\ LiveRunning => MarkedFor(PidEnd, Formats)

\* The answers to PIDs before m; the entry of one; a packet that holds each of a set of
\* answers once, in the order of the PIDs.
Before(m) == {r \in Formats \X (0..(PidEnd - 2)) : Answers(r[1], r[2]) /\ r[2] < m}
EntryOf(r) == [len |-> Len(Whole(r[1], r[2])), pieces |-> Whole(r[1], r[2])]
Filed(q, D) ==
  /\ q \in Seq([len : Nat, pieces : Seq(Pieces)])
  /\ IsFiniteSet(D) /\ Cardinality(D) = Len(q)
  /\ \A i \in 1..Len(q) : \E r \in D : q[i] = EntryOf(r)
  /\ \A i, j \in 1..Len(q) : i < j => /\ q[i].pieces[1][2] <= q[j].pieces[1][2]
                                      /\ q[i] # q[j]

\* The answers that are in the packet while those of fmts to PID m are still to come.
Collected(m, fmts) == Before(m + 1) \ {<<f, m>> : f \in fmts}

\* The packet during a round of requests: between two answers, or inside a long one.
BetweenAnswers ==
  \E fmts \in SUBSET Formats :
    /\ Awaits(fmts, livePid) /\ mfl = 0
    /\ Filed(packet, Collected(livePid, fmts))
InsideAnswer ==
  \E f \in Formats, m \in 1..(Parts - 1), v \in Seq(Pieces) :
    /\ Answers(f, livePid) /\ IsLong(livePid)
    /\ mfl = Parts - m /\ Remains(Coming, f, livePid, m)
    /\ FirstPieces(v, f, livePid, m)
    /\ \E q : /\ Filed(q, Collected(livePid, {f}))
              /\ packet = Append(q, [len |-> Parts, pieces |-> v])

SweepFine ==
  /\ ~LiveRunning => packet = <<>>
  /\ livePc = "poll" => Coming = <<>> /\ (packet = <<>> \/ Filed(packet, Before(PidEnd)))
  /\ livePc = "sweep" => Coming = <<>> /\ Filed(packet, Before(livePid))
  /\ livePc = "frames" => /\ livePid \in 0..(PidEnd - 2)
                          /\ BetweenAnswers \/ InsideAnswer

LiveFine ==
  /\ ~canUp => Coming = <<>> /\ packet = <<>>
  /\ canUp \/ livePc = "setup" => VinFine /\ BlocksFine /\ SweepFine

\* Without faults the requests bring exactly the answers.
LEMMA AskAnswered ==
  ASSUME BusType, Coming = <<>>, NEW fmts \in SUBSET Formats, NEW pid \in Int,
         Ask(fmts, pid), faults' = faults
  PROVE  BusType' /\ car' = car /\ Coming' = Replies(fmts, pid)
<1>1. obdMsgq = <<>> /\ onBus = <<>> /\ faults \in Nat
  BY Concat, FaultsType DEF BusType, Coming
<1>2. Older(<<>>) = <<>>
  <2>1. <<>> \in Seq(BusFrame) /\ Len(<<>>) = 0
    OBVIOUS
  <2> QED
    BY <2>1, OlderSeq, EmptySeq
<1>3. BusType' /\ car' = car
  BY AskBrings
<1>4. obdMsgq' = <<>> /\ onBus' = <<>> \o Replies(fmts, pid)
  <2>1. faults' # faults + 1
    BY <1>1
  <2> QED
    BY <1>1, <1>2, <2>1 DEF Ask, Replies
<1>5. Replies(fmts, pid) \in Seq(BusFrame)
  BY AnswerBoth
<1>6. Coming' = <<>> \o (<<>> \o Replies(fmts, pid))
  BY <1>4 DEF Coming
<1> QED
  BY <1>3, <1>5, <1>6, ConcatEmptySeq

\* One behind the other.
LEMMA TwoInARow == ASSUME NEW x, NEW y PROVE <<x>> \o <<y>> = <<x, y>>
<1> DEFINE S == {x, y}
           s == <<x>> \o <<y>>
           t == <<x, y>>
<1>1. /\ <<x>> \in Seq(S) /\ <<y>> \in Seq(S) /\ Len(<<x>>) = 1 /\ Len(<<y>>) = 1
      /\ t \in Seq(S) /\ Len(t) = 2 /\ t[1] = x /\ t[2] = y
  OBVIOUS
<1>2. s \in Seq(S) /\ Len(s) = 2
  BY <1>1, ConcatProperties
<1>3. s[1] = x /\ s[2] = y
  <2>1. 1 \in 1..Len(<<x>>) /\ 1 \in 1..Len(<<y>>)
    BY <1>1
  <2>2. s[1] = <<x>>[1] /\ s[1 + 1] = <<y>>[1]
    BY <1>1, <2>1, Concat
  <2> QED
    BY <2>2
<1> HIDE DEF s, t
<1>4. \A i \in 1..2 : s[i] = t[i]
  BY <1>1, <1>3
<1>5. s = t
  BY <1>1, <1>2, <1>4, SeqEqual
<1> QED
  BY <1>5 DEF s, t

\* The answers are one, two or none, and each begins an answer of its format.
LEMMA RepliesAre ==
  ASSUME NEW pid, NEW fmts \in SUBSET Formats, \A f \in fmts : Answers(f, pid)
  PROVE  /\ fmts = {} => Replies(fmts, pid) = <<>>
         /\ \A f \in Formats : fmts = {f} => Replies(fmts, pid) = <<Opening(f, pid)>>
         /\ fmts = Formats => Replies(fmts, pid) = <<Opening("std", pid), Opening("ext", pid)>>
         /\ fmts = {} \/ (\E f \in Formats : fmts = {f}) \/ fmts = Formats
<1>1. \A f \in fmts : Answer(f, pid) = <<Opening(f, pid)>>
  BY DEF Answer, Opening
<1>2. CASE fmts = {}
  <2>1. Replies(fmts, pid) = <<>>
    BY <1>2 DEF Replies
  <2> QED
    BY <1>2, <2>1 DEF Formats
<1>3. CASE fmts = {"std"}
  <2>1. "std" \in fmts /\ "ext" \notin fmts
    BY <1>3
  <2>2. Replies(fmts, pid) = <<Opening("std", pid)>>
    BY <1>1, <2>1 DEF Replies
  <2> QED
    BY <1>3, <2>2 DEF Formats
<1>4. CASE fmts = {"ext"}
  <2>1. "ext" \in fmts /\ "std" \notin fmts
    BY <1>4
  <2>2. Replies(fmts, pid) = <<Opening("ext", pid)>>
    BY <1>1, <2>1 DEF Replies
  <2> QED
    BY <1>4, <2>2 DEF Formats
<1>5. CASE fmts = Formats
  <2>1. "ext" \in fmts /\ "std" \in fmts
    BY <1>5 DEF Formats
  <2>2. Answer("std", pid) = <<Opening("std", pid)>> /\ Answer("ext", pid) = <<Opening("ext", pid)>>
    BY <1>1, <2>1
  <2>3. Replies(fmts, pid) = <<Opening("std", pid)>> \o <<Opening("ext", pid)>>
    BY <2>1, <2>2, Zenon DEF Replies
  <2>5. Replies(fmts, pid) = <<Opening("std", pid), Opening("ext", pid)>>
    BY <2>3, TwoInARow
  <2> QED
    BY <1>5, <2>5 DEF Formats
<1>6. fmts = {} \/ fmts = {"std"} \/ fmts = {"ext"} \/ fmts = Formats
  BY DEF Formats
<1> QED
  BY <1>2, <1>3, <1>4, <1>5, <1>6

\* Taking the first of the answers leaves those of the other formats.
LEMMA ReplyTaken ==
  ASSUME NEW pid, NEW fmts \in SUBSET Formats, \A f \in fmts : Answers(f, pid),
         NEW t \in Seq(BusFrame), FirstTaken(Replies(fmts, pid), t)
  PROVE  \E f \in fmts : /\ Replies(fmts, pid)[1] = Opening(f, pid)
                         /\ t = Replies(fmts \ {f}, pid)
<1>1. CASE fmts = {}
  BY <1>1, RepliesAre DEF FirstTaken
<1>2. ASSUME NEW f \in Formats, fmts = {f}
      PROVE  Replies(fmts, pid)[1] = Opening(f, pid) /\ t = Replies(fmts \ {f}, pid)
  <2>1. Replies(fmts, pid) = <<Opening(f, pid)>>
    BY <1>2, RepliesAre
  <2>2. Len(t) = 0
    BY <2>1 DEF FirstTaken
  <2>3. fmts \ {f} = {} /\ Replies({}, pid) = <<>>
    BY <1>2, RepliesAre
  <2>4. t = <<>>
    BY <2>2, EmptySeq
  <2>5. Replies(fmts, pid)[1] = Opening(f, pid)
    BY <2>1
  <2>6. Replies(fmts \ {f}, pid) = <<>>
    BY <2>3, Zenon
  <2> QED
    BY <2>4, <2>5, <2>6, Zenon
<1>3. ASSUME fmts = Formats
      PROVE  /\ Replies(fmts, pid)[1] = Opening("std", pid)
             /\ t = Replies(fmts \ {"std"}, pid)
  <2>1. Replies(fmts, pid) = <<Opening("std", pid), Opening("ext", pid)>>
    BY <1>3, RepliesAre
  <2>2. Len(t) = 1 /\ t[1] = Opening("ext", pid)
    BY <2>1 DEF FirstTaken
  <2>3. t = <<Opening("ext", pid)>>
    BY <2>2
  <2>4. fmts \ {"std"} = {"ext"} /\ Answers("ext", pid) /\ "ext" \in Formats
    BY <1>3 DEF Formats
  <2>5. Replies({"ext"}, pid) = <<Opening("ext", pid)>>
    BY <2>4, RepliesAre
  <2> QED
    BY <2>1, <2>3, <2>4, <2>5
<1>4. fmts = {} \/ (\E f \in Formats : fmts = {f}) \/ fmts = Formats
  BY RepliesAre
<1> QED
  BY <1>1, <1>2, <1>3, <1>4 DEF Formats

\* Which formats are asked makes no difference where they do not answer.
LEMMA RepliesOf ==
  ASSUME NEW fmts, NEW pid
  PROVE  Replies(fmts, pid) = Replies({f \in Formats \cap fmts : Answers(f, pid)}, pid)
<1> DEFINE some == {f \in Formats \cap fmts : Answers(f, pid)}
<1>1. ASSUME NEW f \in Formats
      PROVE  (IF f \in fmts THEN Answer(f, pid) ELSE <<>>)
             = (IF f \in some THEN Answer(f, pid) ELSE <<>>)
  BY DEF Answer
<1> HIDE DEF some
<1>2. "std" \in Formats /\ "ext" \in Formats
  BY DEF Formats
<1>3. Replies(fmts, pid) = Replies(some, pid)
  BY <1>1, <1>2, Zenon DEF Replies
<1> QED
  BY <1>3 DEF some

\* How many answers are coming.
LEMMA RepliesLength ==
  ASSUME NEW pid, NEW fmts \in SUBSET Formats, \A f \in fmts : Answers(f, pid)
  PROVE  /\ Len(Replies(fmts, pid)) \in 0..2
         /\ fmts = {} <=> Replies(fmts, pid) = <<>>
         /\ \A f \in Formats : fmts = {f} => Len(Replies(fmts, pid)) = 1
<1>1. fmts = {} => Replies(fmts, pid) = <<>>
  BY RepliesAre
<1>2. ASSUME NEW f \in Formats, fmts = {f}
      PROVE  Len(Replies(fmts, pid)) = 1 /\ Replies(fmts, pid) # <<>>
  <2>1. Replies(fmts, pid) = <<Opening(f, pid)>>
    BY <1>2, RepliesAre
  <2> QED
    BY <2>1
<1>3. ASSUME fmts = Formats
      PROVE  Len(Replies(fmts, pid)) = 2 /\ Replies(fmts, pid) # <<>>
  <2>1. Replies(fmts, pid) = <<Opening("std", pid), Opening("ext", pid)>>
    BY <1>3, RepliesAre
  <2> QED
    BY <2>1
<1>4. fmts = {} \/ (\E f \in Formats : fmts = {f}) \/ fmts = Formats
  BY RepliesAre
<1>5. Formats # {} /\ \A f \in Formats : {f} # {} /\ {f} # Formats
  BY DEF Formats
<1>6. Len(<<>>) = 0
  OBVIOUS
<1> HIDE DEF Formats
<1> QED
  BY <1>1, <1>2, <1>3, <1>4, <1>5, <1>6

\* Which car it is decides what it answers.
LEMMA SameCar ==
  ASSUME car' = car, NEW pid
  PROVE  /\ \A f : Answers(f, pid)' = Answers(f, pid)
         /\ \A f : Opening(f, pid)' = Opening(f, pid)
         /\ \A fmts : Replies(fmts, pid)' = Replies(fmts, pid)
         /\ \A f : Whole(f, pid)' = Whole(f, pid)
         /\ IsLong(pid)' = IsLong(pid)
<1>1. \A f : Answers(f, pid)' = Answers(f, pid)
  BY DEF Answers
<1>2. IsLong(pid)' = IsLong(pid)
  BY DEF IsLong
<1>3. \A f : Opening(f, pid)' = Opening(f, pid) /\ Answer(f, pid)' = Answer(f, pid)
  BY <1>1, <1>2 DEF Opening, Answer
<1>4. \A f : Whole(f, pid)' = Whole(f, pid)
  BY <1>2 DEF Whole
<1>5. \A fmts : Replies(fmts, pid)' = Replies(fmts, pid)
  <2>1. Answer("std", pid)' = Answer("std", pid) /\ Answer("ext", pid)' = Answer("ext", pid)
    BY <1>3
  <2> QED
    BY <2>1, Zenon DEF Replies
<1> QED
  BY <1>1, <1>2, <1>3, <1>4, <1>5

\* One of the answers that are awaited is taken.
LEMMA TakeAwaited ==
  ASSUME BusType, NEW fmts \in SUBSET Formats, NEW pid, Awaits(fmts, pid), Take, UNCHANGED onBus
  PROVE  /\ BusType' /\ UNCHANGED <<car, faults>>
         /\ \E f \in fmts : Head(obdMsgq) = Opening(f, pid) /\ Awaits(fmts \ {f}, pid)'
<1>1. /\ BusType' /\ UNCHANGED <<car, faults>>
      /\ FirstTaken(Coming, Coming') /\ Head(obdMsgq) = Coming[1]
  BY TakeTakes
<1>2. Coming' \in Seq(BusFrame)
  BY <1>1, LinkType DEF BusType, Coming
<1>3. Coming = Replies(fmts, pid) /\ \A f \in fmts : Answers(f, pid)
  BY DEF Awaits
<1>4. PICK f \in fmts : /\ Replies(fmts, pid)[1] = Opening(f, pid)
                        /\ Coming' = Replies(fmts \ {f}, pid)
  <2>1. FirstTaken(Replies(fmts, pid), Coming')
    BY <1>1, <1>3
  <2>2. \E f \in fmts : /\ Replies(fmts, pid)[1] = Opening(f, pid)
                       /\ Coming' = Replies(fmts \ {f}, pid)
    BY <1>2, <1>3, <2>1, ReplyTaken
  <2> QED
    BY <2>2
<1>5. Awaits(fmts \ {f}, pid)'
  BY <1>1, <1>3, <1>4, SameCar DEF Awaits
<1> QED
  BY <1>1, <1>3, <1>4, <1>5

\* The frames that flow control brings when nothing else was coming.
LEMMA FlowRemains ==
  ASSUME BusType, NEW f, NEW pid, Coming = <<Opening(f, pid)>>, IsLong(pid),
         Take, FlowControl(Head(obdMsgq))
  PROVE  /\ BusType' /\ UNCHANGED <<car, faults>> /\ Head(obdMsgq) = Opening(f, pid)
         /\ Remains(Coming', f, pid, 1)
<1>1. BusType' /\ UNCHANGED <<car, faults>> /\ Head(obdMsgq) = Coming[1]
  BY TakeFlows
<1>2. Head(obdMsgq) = Opening(f, pid)
  BY <1>1
<1>3. obdMsgq \in Seq(BusFrame) /\ onBus \in Seq(BusFrame) /\ obdMsgq # <<>>
  BY DEF BusType, Take
<1>4. Tail(obdMsgq) = <<>> /\ onBus = <<>>
  <2>1. Len(Coming) = 1
    OBVIOUS
  <2>2. Len(obdMsgq) + Len(onBus) = 1 /\ Len(obdMsgq) \in Nat /\ Len(onBus) \in Nat
    BY <2>1, ComingType
  <2>3. Len(obdMsgq) # 0
    BY <1>3, EmptySeq
  <2>4. Len(obdMsgq) = 1 /\ Len(onBus) = 0
    BY <2>2, <2>3
  <2>5. Tail(obdMsgq) \in Seq(BusFrame) /\ Len(Tail(obdMsgq)) = 0
    BY <1>3, <2>4, HeadTailProperties
  <2> QED
    BY <1>3, <2>4, <2>5, EmptySeq
<1> DEFINE x == Opening(f, pid)
           n == [i \in 1..(Parts - 1) |-> [x EXCEPT !.part = i + 1, !.kind = "next"]]
<1>5. Coming' = <<>> \o (<<>> \o n)
  BY <1>2, <1>4 DEF Coming, Take, FlowControl
<1>6. x = Frame(f, pid, 1, "first")
  BY DEF Opening
<1>7. \A i \in 1..2 : n[i] = Frame(f, pid, 1 + i, "next")
  <2>1. ASSUME NEW i \in 1..2 PROVE n[i] = Frame(f, pid, 1 + i, "next")
    <3>1. n[i] = [x EXCEPT !.part = i + 1, !.kind = "next"]
      BY DEF Parts
    <3>2. [Frame(f, pid, 1, "first") EXCEPT !.part = i + 1, !.kind = "next"]
          = Frame(f, pid, i + 1, "next")
      <4>1. PICK kind, next : kind = "first" /\ next = "next"
        OBVIOUS
      <4>2. [Frame(f, pid, 1, kind) EXCEPT !.part = i + 1, !.kind = next]
            = Frame(f, pid, i + 1, next)
        <5>1. \A y : [y EXCEPT !.part = i + 1, !.kind = next]
                     = [[y EXCEPT !.part = i + 1] EXCEPT !.kind = next]
          OBVIOUS
        <5>2. [Frame(f, pid, 1, kind) EXCEPT !.part = i + 1] = Frame(f, pid, i + 1, kind)
          BY DEF Frame
        <5>3. [Frame(f, pid, i + 1, kind) EXCEPT !.kind = next] = Frame(f, pid, i + 1, next)
          BY DEF Frame
        <5> QED
          BY <5>1, <5>2, <5>3, Zenon
      <4> QED
        BY <4>1, <4>2, Zenon
    <3>3. i + 1 = 1 + i
      OBVIOUS
    <3> HIDE DEF x, n
    <3> QED
      BY <1>6, <3>1, <3>2, <3>3
  <2> QED
    BY <2>1
<1>8. x \in BusFrame
  <2>1. Head(obdMsgq) \in BusFrame
    BY <1>3, HeadTailProperties
  <2> QED
    BY <1>2, <2>1
<1>9. n \in Seq(BusFrame) /\ Len(n) = 2
  <2>1. PICK u \in Seq(BusFrame) :
          /\ u = [i \in 1..(Parts - 1) |-> [x EXCEPT !.part = i + 1, !.kind = "next"]]
          /\ Len(u) = Parts - 1
    <3> HIDE DEF x, n
    <3> QED
      BY <1>8, FlowType
  <2> QED
    BY <2>1 DEF Parts
<1> HIDE DEF x, n
<1>10. Coming' = n
  BY <1>5, <1>9, ConcatEmptySeq
<1>11. Remains(n, f, pid, 1)
  BY <1>7, <1>9 DEF Remains, Parts
<1> QED
  BY <1>1, <1>2, <1>10, <1>11

\* One of the other frames of a long answer is taken.
LEMMA RestTaken ==
  ASSUME BusType, NEW f, NEW pid, NEW m \in 1..(Parts - 1), Remains(Coming, f, pid, m),
         Take, UNCHANGED onBus
  PROVE  /\ BusType' /\ UNCHANGED <<car, faults>>
         /\ Head(obdMsgq) = Frame(f, pid, m + 1, "next")
         /\ Remains(Coming', f, pid, m + 1)
<1>1. /\ BusType' /\ UNCHANGED <<car, faults>>
      /\ FirstTaken(Coming, Coming') /\ Head(obdMsgq) = Coming[1]
  BY TakeTakes
<1>2. m \in 1..2 /\ Len(Coming) = 3 - m /\ Len(Coming') = 2 - m
  BY <1>1 DEF Remains, FirstTaken, Parts
<1>3. Head(obdMsgq) = Frame(f, pid, m + 1, "next")
  <2>1. 1 \in 1..Len(Coming)
    BY <1>2
  <2> QED
    BY <1>1, <2>1 DEF Remains
<1>4. ASSUME NEW j \in 1..Len(Coming') PROVE Coming'[j] = Frame(f, pid, m + 1 + j, "next")
  <2>1. j + 1 \in 1..Len(Coming) /\ m + (j + 1) = m + 1 + j
    BY <1>2
  <2>2. Coming'[j] = Coming[j + 1]
    BY <1>1 DEF FirstTaken
  <2> QED
    BY <2>1, <2>2 DEF Remains
<1>5. Len(Coming') = Parts - (m + 1)
  BY <1>2 DEF Parts
<1>6. Remains(Coming', f, pid, m + 1)
  BY <1>4, <1>5 DEF Remains
<1> QED
  BY <1>1, <1>3, <1>6

\* Without faults a wait only ends when nothing is coming.
LEMMA GiveUpEmpty ==
  ASSUME BusType, GiveUp, faults = 0, faults' = 0
  PROVE  BusType' /\ UNCHANGED car /\ Coming = <<>> /\ Coming' = <<>>
<1>1. BusType' /\ UNCHANGED car /\ Coming' = Coming /\ faults' = faults + Len(Coming)
  BY GiveUpWaits
<1>2. Len(Coming) = 0
  BY <1>1, LinkType
<1> QED
  BY <1>1, <1>2, LinkType, EmptySeq

\* Nothing is lost on its way to the queue as long as two answers fit.
LEMMA ArriveFits ==
  ASSUME BusType, Len(Coming) <= 2, LiveQueue \in Nat, LiveQueue >= 2, Arrive(LiveQueue)
  PROVE  BusType' /\ UNCHANGED <<car, faults>> /\ Coming' = Coming
<1>1. /\ BusType' /\ UNCHANGED <<car, faults>>
      /\ Coming' = Coming \/ Len(Coming) > LiveQueue
  BY ArriveMoves
<1> QED
  BY <1>1, LinkType

\* Nothing can be taken when nothing is coming.
LEMMA NothingToTake ==
  ASSUME BusType, Coming = <<>>
  PROVE  obdMsgq = <<>> /\ onBus = <<>> /\ ~Take
  BY Concat DEF BusType, Coming, Take

\* The state while the controller runs and no fault has happened.
UpFine == VinFine /\ BlocksFine /\ SweepFine
Up == LiveLate /\ Distinguishable /\ canUp /\ faults = 0 /\ UpFine

\* What the parts of the invariant need to hold on.
LEMMA VinKept ==
  ASSUME VinFine, Identified, Identified', UNCHANGED <<liveVin, car>>
  PROVE  VinFine'
<1>1. PICK f \in Formats : Answers(f, VIN) /\ FirstPieces(liveVin, f, VIN, Parts)
  BY DEF VinFine
<1>2. Answers(f, VIN)' /\ FirstPieces(liveVin', f, VIN, Parts)
  BY <1>1, SameCar
<1>3. livePc' \notin {"setup", "vin", "vinStd", "vin2", "vinExt", "vinRest"}
  BY DEF Identified
<1> QED
  BY <1>2, <1>3 DEF VinFine

\* The marks are a matter of the car and of livePids.
LEMMA MarksKept ==
  ASSUME UNCHANGED <<car, livePids>>, NEW b, NEW fmts, MarkedFor(b, fmts)
  PROVE  MarkedFor(b, fmts)'
  BY DEF MarkedFor

Early == livePc \in {"setup", "vin", "vinStd", "vin2", "vinExt", "vinRest"}

\* Before the discovery.
LEMMA EarlyKept ==
  ASSUME BlocksFine, SweepFine, Early, Early', UNCHANGED <<car, livePid, livePids, packet>>
  PROVE  BlocksFine' /\ SweepFine'
<1>1. livePid = 0 /\ MarkedFor(0, Formats) /\ packet = <<>>
  BY DEF BlocksFine, SweepFine, Early, LiveRunning
<1>2. livePid' = 0 /\ MarkedFor(0, Formats)' /\ packet' = <<>>
  BY <1>1, MarksKept
<1>3. ~LiveRunning' /\ livePc' \notin {"pids", "bitmaps", "poll", "sweep", "frames"}
  BY DEF Early, LiveRunning
<1> QED
  BY <1>2, <1>3 DEF BlocksFine, SweepFine

\* During the sweep.
LEMMA RunningKept ==
  ASSUME BlocksFine, LiveRunning, LiveRunning', UNCHANGED <<car, livePids>>
  PROVE  BlocksFine'
<1>1. MarkedFor(PidEnd, Formats)'
  BY MarksKept DEF BlocksFine
<1> QED
  BY <1>1 DEF BlocksFine, LiveRunning

\* The reply on one format.
LEMMA OneReply ==
  ASSUME NEW f \in Formats, NEW pid
  PROVE  Replies({f}, pid) = IF Answers(f, pid) THEN <<Opening(f, pid)>> ELSE <<>>
<1>1. CASE Answers(f, pid)
  <2>1. {f} \in SUBSET Formats /\ \A g \in {f} : Answers(g, pid)
    BY <1>1
  <2>2. Replies({f}, pid) = <<Opening(f, pid)>>
    BY <2>1, RepliesAre
  <2> QED
    BY <1>1, <2>2
<1>2. CASE ~Answers(f, pid)
  <2>1. {g \in Formats \cap {f} : Answers(g, pid)} = {}
    BY <1>2
  <2>2. Replies({f}, pid) = Replies({}, pid)
    BY <2>1, RepliesOf
  <2>3. Replies({}, pid) = <<>>
    BY RepliesAre
  <2> QED
    BY <1>2, <2>2, <2>3
<1> QED
  BY <1>1, <1>2

\* The first piece of an answer.
LEMMA PieceOpens ==
  ASSUME NEW f, NEW pid
  PROVE  /\ Piece(Opening(f, pid)) = <<f, pid, 1>>
         /\ Opening(f, pid).fmt = f
         /\ Opening(f, pid).kind = IF IsLong(pid) THEN "first" ELSE "single"
  BY DEF Piece, Opening, Frame

\* A car that is told from no car answers for the VIN on one format.
LEMMA SomeFormat ==
  ASSUME BusType, Distinguishable
  PROVE  Answers("std", VIN) \/ Answers("ext", VIN)
<1>1. car.std # {} \/ car.ext # {}
  BY DEF BusType, Distinguishable
<1> QED
  BY <1>1 DEF Answers

\* The requests for the VIN bring one answer or none.
LEMMA AskVinFine ==
  ASSUME Up, AskVin, faults' = 0
  PROVE  UpFine'
<1>0. /\ BusType /\ canUp /\ faults = 0 /\ VIN \in Int
      /\ VinFine /\ BlocksFine /\ SweepFine
  BY DEF Up, UpFine, LiveLate, VIN
<1>1. UNCHANGED <<livePid, livePids, packet>>
  BY DEF AskVin
<1>2. ASSUME NEW fmt \in Formats, Coming = <<>>, LiveAsk({fmt}, VIN)
      PROVE  car' = car /\ Coming' = Replies({fmt}, VIN)'
  <2>1. Ask({fmt}, VIN) /\ {fmt} \in SUBSET Formats /\ faults' = faults
    BY <1>0, <1>2 DEF LiveAsk
  <2>2. car' = car /\ Coming' = Replies({fmt}, VIN)
    BY <1>0, <1>2, <2>1, AskAnswered
  <2> QED
    BY <2>2, SameCar
<1>3. CASE LiveGo("vin", {"vinStd"}) /\ LiveAsk({"std"}, VIN)
  <2>1. livePc = "vin" /\ livePc' = "vinStd" /\ Coming = <<>> /\ "std" \in Formats
    BY <1>0, <1>3 DEF LiveGo, VinFine, Formats
  <2>2. car' = car /\ Coming' = Replies({"std"}, VIN)'
    BY <1>2, <1>3, <2>1
  <2>3. VinFine'
    BY <2>1, <2>2 DEF VinFine, Identified
  <2>4. Early /\ Early'
    BY <2>1 DEF Early
  <2> QED
    BY <1>0, <1>1, <2>2, <2>3, <2>4, EarlyKept DEF UpFine
<1>4. CASE LiveGo("vin2", {"vinExt"}) /\ LiveAsk({"ext"}, VIN)
  <2>1. /\ livePc = "vin2" /\ livePc' = "vinExt" /\ Coming = <<>> /\ "ext" \in Formats
        /\ ~Answers("std", VIN)
    BY <1>0, <1>4 DEF LiveGo, VinFine, Formats
  <2>2. car' = car /\ Coming' = Replies({"ext"}, VIN)'
    BY <1>2, <1>4, <2>1
  <2>3. ~Answers("std", VIN)'
    BY <2>1, <2>2, SameCar
  <2>4. VinFine'
    BY <2>1, <2>2, <2>3 DEF VinFine, Identified
  <2>5. Early /\ Early'
    BY <2>1 DEF Early
  <2> QED
    BY <1>0, <1>1, <2>2, <2>4, <2>5, EarlyKept DEF UpFine
<1> QED
  BY <1>3, <1>4 DEF AskVin

\* The first frame of the VIN comes from the format that answers, and the rest of it
\* is on its way; without an answer main asks on the other format.
LEMMA TakeFirstFine ==
  ASSUME Up, TakeFirstOfVin, UNCHANGED <<livePid, livePids, packet>>, faults' = 0
  PROVE  UpFine'
<1>0. /\ BusType /\ canUp /\ faults = 0 /\ Distinguishable
      /\ VinFine /\ BlocksFine /\ SweepFine
  BY DEF Up, UpFine, LiveLate
<1>1. CASE GiveUp /\ (LiveGo("vinStd", {"vin2"}) \/ LiveGo("vinExt", {"pids"}))
  <2>1. UNCHANGED car /\ Coming = <<>> /\ Coming' = <<>>
    BY <1>0, <1>1, GiveUpEmpty
  <2>2. ASSUME NEW f \in Formats, Replies({f}, VIN) = <<>> PROVE ~Answers(f, VIN)
    <3>1. <<Opening(f, VIN)>> # <<>>
      OBVIOUS
    <3> QED
      BY <2>2, <3>1, OneReply
  <2>3. CASE LiveGo("vinStd", {"vin2"})
    <3>1. livePc = "vinStd" /\ livePc' = "vin2"
      BY <2>3 DEF LiveGo
    <3>2. ~Answers("std", VIN)'
      BY <1>0, <2>1, <2>2, <3>1, SameCar DEF VinFine, Formats
    <3>3. VinFine'
      BY <2>1, <3>1, <3>2 DEF VinFine, Identified
    <3>4. Early /\ Early'
      BY <3>1 DEF Early
    <3> QED
      BY <1>0, <2>1, <3>3, <3>4, EarlyKept DEF UpFine
  <2>4. CASE LiveGo("vinExt", {"pids"})
    <3>1. ~Answers("ext", VIN) /\ ~Answers("std", VIN)
      BY <1>0, <2>1, <2>2, <2>4 DEF VinFine, LiveGo, Formats
    <3> QED
      BY <1>0, <3>1, SomeFormat
  <2> QED
    BY <1>1, <2>3, <2>4
<1>2. ASSUME NEW f \in Formats, livePc = (IF f = "std" THEN "vinStd" ELSE "vinExt"),
             livePc' = "vinRest", Take, liveVin' = <<Piece(Head(obdMsgq))>>,
             IF /\ canUp /\ Head(obdMsgq).kind = "first" /\ Head(obdMsgq).fmt = f
             THEN FlowControl(Head(obdMsgq)) ELSE UNCHANGED onBus
      PROVE  UpFine'
  <2>1. Coming = Replies({f}, VIN)
    BY <1>0, <1>2 DEF VinFine, Formats
  <2>2. Coming = <<Opening(f, VIN)>> /\ Answers(f, VIN)
    <3>1. Coming # <<>>
      BY <1>0, <1>2, NothingToTake
    <3> QED
      BY <2>1, <3>1, OneReply
  <2>3. Head(obdMsgq) = Opening(f, VIN)
    <3>1. Head(obdMsgq) = Coming[1]
      BY <1>0, <1>2, HeadTaken DEF BusType, Coming, Take
    <3> QED
      BY <2>2, <3>1
  <2>4. IsLong(VIN)
    BY DEF IsLong
  <2>5. FlowControl(Head(obdMsgq))
    BY <1>0, <1>2, <2>3, <2>4, PieceOpens
  <2>6. UNCHANGED car /\ Remains(Coming', f, VIN, 1)
    BY <1>0, <1>2, <2>2, <2>4, <2>5, FlowRemains
  <2>7. FirstPieces(liveVin', f, VIN, 1)
    <3>1. liveVin' = <<<<f, VIN, 1>>>>
      BY <1>2, <2>3, PieceOpens
    <3>2. \A x : Len(<<x>>) = 1 /\ <<x>>[1] = x
      OBVIOUS
    <3>3. Len(liveVin') = 1 /\ liveVin'[1] = <<f, VIN, 1>>
      BY <3>1, <3>2
    <3> QED
      BY <3>3 DEF FirstPieces
  <2>8. Answers(f, VIN)' /\ 1 \in 1..(Parts - 1)
    BY <2>2, <2>6, SameCar DEF Parts
  <2>9. VinFine'
    BY <1>2, <2>6, <2>7, <2>8 DEF VinFine, Identified
  <2>10. Early /\ Early'
    BY <1>2 DEF Early
  <2> QED
    BY <1>0, <2>6, <2>9, <2>10, EarlyKept DEF UpFine
<1>3. CASE /\ LiveGo("vinStd", {"vinRest"}) \/ LiveGo("vinExt", {"vinRest"})
           /\ Take
           /\ IF /\ canUp /\ Head(obdMsgq).kind = "first"
                 /\ Head(obdMsgq).fmt = (IF livePc = "vinStd" THEN "std" ELSE "ext")
              THEN FlowControl(Head(obdMsgq)) ELSE UNCHANGED onBus
           /\ liveVin' = <<Piece(Head(obdMsgq))>>
  <2>1. CASE livePc = "vinStd"
    <3>1. "std" \in Formats /\ livePc' = "vinRest"
      BY <1>3 DEF Formats, LiveGo
    <3> QED
      BY <1>2, <1>3, <2>1, <3>1
  <2>2. CASE livePc = "vinExt"
    <3>1. "ext" \in Formats /\ livePc' = "vinRest"
      BY <1>3 DEF Formats, LiveGo
    <3> QED
      BY <1>2, <1>3, <2>2, <3>1
  <2> QED
    BY <1>3, <2>1, <2>2 DEF LiveGo
<1> QED
  BY <1>1, <1>3 DEF TakeFirstOfVin

\* One more piece.
LEMMA PieceBehind ==
  ASSUME NEW v \in Seq(Pieces), NEW w, NEW f \in Formats, NEW pid \in Int, NEW m \in Nat,
         FirstPieces(v, f, pid, m), w = Append(v, <<f, pid, m + 1>>)
  PROVE  w \in Seq(Pieces) /\ FirstPieces(w, f, pid, m + 1)
<1>1. <<f, pid, m + 1>> \in Pieces
  BY DEF Pieces
<1>2. Len(v) = m /\ \A k \in 1..m : v[k] = <<f, pid, k>>
  BY DEF FirstPieces
<1>3. PICK x \in Pieces : x = <<f, pid, m + 1>>
  BY <1>1
<1>4. /\ w \in Seq(Pieces) /\ Len(w) = m + 1 /\ w[m + 1] = x
      /\ \A k \in 1..m : w[k] = v[k]
  <2>1. w = Append(v, x)
    BY <1>3
  <2> QED
    BY <1>2, <2>1, AppendProperties
<1>5. ASSUME NEW k \in 1..(m + 1) PROVE w[k] = <<f, pid, k>>
  <2>1. CASE k = m + 1
    BY <1>3, <1>4, <2>1
  <2>2. CASE k # m + 1
    <3>1. k \in 1..m
      BY <2>2
    <3> QED
      BY <1>2, <1>4, <3>1
  <2> QED
    BY <2>1, <2>2
<1> QED
  BY <1>4, <1>5 DEF FirstPieces

\* The other frames of the VIN come one after the other, and no more of them.
LEMMA TakeRestFine ==
  ASSUME Up, TakeRestOfVin, UNCHANGED <<livePid, livePids, packet>>, faults' = 0
  PROVE  UpFine'
<1>0. /\ BusType /\ canUp /\ faults = 0 /\ liveVin \in Seq(Pieces) /\ VIN \in Int
      /\ VinFine /\ BlocksFine /\ SweepFine
  BY DEF Up, UpFine, LiveLate, VIN
<1>1. livePc = "vinRest" /\ livePc' = IF Len(liveVin) = 2 THEN "pids" ELSE "vinRest"
  BY DEF TakeRestOfVin, LiveGo, Parts
<1>2. PICK f \in Formats, m \in 1..(Parts - 1) :
        Answers(f, VIN) /\ FirstPieces(liveVin, f, VIN, m) /\ Remains(Coming, f, VIN, m)
  BY <1>0, <1>1 DEF VinFine
<1>3. m \in 1..2 /\ m \in 1..Parts /\ Len(liveVin) = m /\ Len(Coming) = 3 - m
  BY <1>2 DEF Parts, FirstPieces, Remains
<1>4. CASE GiveUp
  <2>1. Coming = <<>>
    BY <1>0, <1>4, GiveUpEmpty
  <2>2. Len(Coming) = 0
    BY <2>1
  <2> QED
    BY <1>3, <2>2
<1>5. CASE Take /\ liveVin' = Append(liveVin, Piece(Head(obdMsgq))) /\ UNCHANGED onBus
  <2>1. /\ UNCHANGED car /\ Head(obdMsgq) = Frame(f, VIN, m + 1, "next")
        /\ Remains(Coming', f, VIN, m + 1)
    BY <1>0, <1>2, <1>5, RestTaken
  <2>2. Piece(Head(obdMsgq)) = <<f, VIN, m + 1>>
    BY <2>1 DEF Piece, Frame
  <2>3. FirstPieces(liveVin', f, VIN, m + 1)
    <3>1. m \in Nat /\ liveVin' = Append(liveVin, <<f, VIN, m + 1>>)
      BY <1>3, <1>5, <2>2
    <3> QED
      BY <1>0, <1>2, <3>1, PieceBehind
  <2>4. Answers(f, VIN)'
    BY <1>2, <2>1, SameCar
  <2>5. CASE m = 1
    <3>1. livePc' = "vinRest" /\ m + 1 \in 1..(Parts - 1)
      BY <1>1, <1>3, <2>5 DEF Parts
    <3>2. VinFine'
      BY <2>1, <2>3, <2>4, <3>1 DEF VinFine, Identified
    <3>3. Early /\ Early'
      BY <1>1, <3>1 DEF Early
    <3> QED
      BY <1>0, <2>1, <3>2, <3>3, EarlyKept DEF UpFine
  <2>6. CASE m = 2
    <3>1. livePc' = "pids" /\ m + 1 = Parts
      BY <1>1, <1>3, <2>6 DEF Parts
    <3>2. VinFine'
      BY <2>3, <2>4, <3>1 DEF VinFine, Identified
    <3>3. Coming' = <<>>
      <4>1. Len(Coming') = 0
        BY <2>1, <3>1 DEF Remains, Parts
      <4>2. BusType'
        BY <1>0, <1>2, <1>5, RestTaken
      <4>3. Coming' \in Seq(BusFrame)
        BY <4>2, LinkType DEF BusType, Coming
      <4> QED
        BY <4>1, <4>3, EmptySeq
    <3>4. livePid = 0 /\ MarkedFor(0, Formats) /\ packet = <<>>
      BY <1>0, <1>1 DEF BlocksFine, SweepFine, LiveRunning
    <3>5. livePid' = 0 /\ MarkedFor(0, Formats)' /\ packet' = <<>>
      BY <2>1, <3>4, MarksKept
    <3>6. Block(0)
      BY Times DEF Block
    <3>7. BlocksFine'
      BY <3>1, <3>3, <3>5, <3>6 DEF BlocksFine, LiveRunning
    <3>8. SweepFine'
      BY <3>1, <3>5 DEF SweepFine, LiveRunning
    <3> QED
      BY <3>2, <3>7, <3>8 DEF UpFine
  <2> QED
    BY <1>3, <2>5, <2>6
<1> QED
  BY <1>4, <1>5 DEF TakeRestOfVin

\* The first PID of a block is announced as one.
LEMMA BlockIsBlock == ASSUME NEW b \in Nat, Block(b) PROVE IsBlock(b)
<1>1. PICK n \in Nat : b = n * PidBlock
  BY DEF Block, Blocks
<1>2. PICK q \in Nat, r \in Nat : q = b \div PidBlock /\ r = b % PidBlock
  BY BlockType
<1>3. b = PidBlock * q + r /\ r < PidBlock
  BY <1>2, BlockType
<1>4. PidBlock * (n - q) = r
  BY <1>1, <1>3, BlockType
<1>5. n - q = 0
  <2>1. ASSUME n - q >= 1 PROVE PidBlock * (n - q) >= PidBlock
    BY <2>1, BlockType
  <2>2. ASSUME n - q <= -1 PROVE PidBlock * (n - q) < 0
    BY <2>2, BlockType
  <2> QED
    BY <1>3, <1>4, <2>1, <2>2, BlockType
<1>6. r = 0
  BY <1>4, <1>5, BlockType
<1> QED
  BY <1>2, <1>6 DEF IsBlock

\* The numbers and marks of main.
LEMMA LiveTypes ==
  ASSUME LiveLate
  PROVE  /\ BusType /\ livePid \in Nat /\ livePids \in [0..PidEnd -> SUBSET Formats]
         /\ liveVin \in Seq(Pieces) /\ DOMAIN livePids = 0..PidEnd
  BY DEF LiveLate

\* A PID is asked for on every format that answers it.
LEMMA AnswersMarked ==
  ASSUME NEW b \in Nat, NEW fmts, MarkedFor(b, fmts), NEW p \in Nat, p <= b, p <= PidEnd,
         NEW f \in Formats, Answers(f, p)
  PROVE  f \in livePids[p]
<1>1. CASE p = 0
  BY <1>1 DEF MarkedFor
<1>2. CASE p # 0
  <2>1. p \in 1..PidEnd
    BY <1>2, BlockType
  <2>2. p \in car[f]
    BY <1>2 DEF Answers, VIN
  <2> QED
    BY <2>1, <2>2 DEF MarkedFor
<1> QED
  BY <1>1, <1>2

\* A block is asked for on the formats that announced it, and they all answer.
LEMMA AskBlockFine ==
  ASSUME Up, LiveAskBlock, faults' = 0
  PROVE  UpFine'
<1>0. /\ BusType /\ canUp /\ faults = 0 /\ livePid \in Nat
      /\ livePids \in [0..PidEnd -> SUBSET Formats] /\ Formats # {}
      /\ VinFine /\ BlocksFine /\ SweepFine
  BY LiveTypes DEF Up, UpFine, Formats
<1>1. /\ livePc = "pids" /\ livePc' = "bitmaps" /\ livePid < PidEnd
      /\ LiveAsk(livePids[livePid], livePid)
      /\ UNCHANGED <<liveVin, livePid, livePids, packet>>
  BY DEF LiveAskBlock, LiveGo
<1>2. PICK b \in Nat : b = livePid
  BY <1>0
<1>3. Coming = <<>> /\ Block(b) /\ MarkedFor(b, Formats) /\ b < PidEnd /\ packet = <<>>
  BY <1>0, <1>1, <1>2 DEF BlocksFine, SweepFine, LiveRunning
<1>4. PICK F \in SUBSET Formats : F = livePids[b]
  BY <1>0, <1>2, <1>3, BlockType
<1>5. UNCHANGED car /\ Coming' = Replies(F, b)
  <2>1. Ask(F, b) /\ b \in Int /\ faults' = faults
    BY <1>0, <1>1, <1>2, <1>4 DEF LiveAsk
  <2> QED
    BY <1>0, <1>3, <2>1, AskAnswered
<1>6. \A f \in Formats : Answers(f, b) => f \in F
  BY <1>3, <1>4, AnswersMarked, BlockType
<1>7. PICK S \in SUBSET Formats : S = {f \in Formats : Answers(f, b)}
  OBVIOUS
<1>8. Coming' = Replies(S, b)
  <2>1. S = {f \in Formats \cap F : Answers(f, b)}
    BY <1>6, <1>7
  <2> QED
    BY <1>5, <2>1, RepliesOf
<1>9. Awaits(S, b)'
  <2>1. \A f \in S : Answers(f, b)'
    BY <1>5, <1>7, SameCar
  <2> QED
    BY <1>5, <1>8, <2>1, SameCar DEF Awaits
<1>10. MarkedFor(b, S)
  <2>1. ASSUME NEW p \in 1..PidEnd, NEW f \in Formats, p \in car[f], f \notin S PROVE p <= b
    <3>1. ~Answers(f, b)
      BY <1>7, <2>1
    <3> QED
      BY <1>0, <1>3, <2>1, <3>1, BlockEnds
  <2> QED
    BY <1>3, <2>1 DEF MarkedFor
<1>11. MarkedFor(b, S)' /\ livePid' = b
  BY <1>1, <1>2, <1>5, <1>10, MarksKept
<1>12. BlocksFine'
  BY <1>1, <1>3, <1>9, <1>11 DEF BlocksFine, LiveRunning
<1>13. VinFine'
  BY <1>0, <1>1, <1>5, VinKept DEF Identified
<1>14. SweepFine'
  BY <1>1, <1>3 DEF SweepFine, LiveRunning
<1> QED
  BY <1>12, <1>13, <1>14 DEF UpFine

\* Every bitmap that comes marks what its format announces of the block.
LEMMA TakeBitmapFine ==
  ASSUME Up, LiveGo("bitmaps", {"bitmaps"}), Take, UNCHANGED <<onBus, livePid, liveVin, packet>>,
         MarkBitmap(Head(obdMsgq))
  PROVE  UpFine'
<1>0. /\ BusType /\ canUp /\ faults = 0 /\ livePid \in Nat
      /\ livePids \in [0..PidEnd -> SUBSET Formats] /\ DOMAIN livePids = 0..PidEnd
      /\ VinFine /\ BlocksFine /\ SweepFine
  BY LiveTypes DEF Up, UpFine
<1>1. livePc = "bitmaps" /\ livePc' = "bitmaps"
  BY DEF LiveGo
<1>2. PICK b \in Nat : b = livePid
  BY <1>0
<1>3. PICK fmts \in SUBSET Formats :
        Block(b) /\ b < PidEnd /\ Awaits(fmts, b) /\ MarkedFor(b, fmts) /\ packet = <<>>
  BY <1>0, <1>1, <1>2 DEF BlocksFine, SweepFine, LiveRunning
<1>4. PICK f \in fmts : Head(obdMsgq) = Opening(f, b) /\ Awaits(fmts \ {f}, b)' /\ UNCHANGED car
  BY <1>0, <1>3, TakeAwaited
<1>5. \A p \in 0..PidEnd :
        livePids'[p] = livePids[p] \cup (IF p \in car[f] /\ b < p /\ p <= b + PidBlock
                                        THEN {f} ELSE {})
  <2>1. Head(obdMsgq).fmt = f /\ Head(obdMsgq).pid = b
    BY <1>4 DEF Opening, Frame
  <2>2. IsBlock(b)
    BY <1>3, BlockIsBlock
  <2>3. PICK bits \in {{b + (p - b) : p \in Announced(f, b)}} :
          livePids' = [p \in DOMAIN livePids |->
                         livePids[p] \cup (IF p \in bits THEN {f} ELSE {})]
    BY <1>2, <2>1, <2>2 DEF MarkBitmap, Bits
  <2>4. \A p : p \in bits <=> p \in car[f] /\ b < p /\ p <= b + PidBlock
    <3>1. car[f] \subseteq Int
      BY <1>0, <1>3, CarFormat
    <3>2. \A p \in Int : b + (p - b) = p
      OBVIOUS
    <3>3. \A p : p \in Announced(f, b) <=> p \in car[f] /\ b < p /\ p <= b + PidBlock
      BY <3>1, BlockType DEF Announced
    <3> QED
      BY <2>3, <3>1, <3>2, <3>3
  <2> QED
    BY <1>0, <2>3, <2>4
<1>6. MarkedFor(b, fmts \ {f})'
  <2>1. livePids'[0] = Formats
    <3>1. livePids[0] = Formats /\ 0 \in 0..PidEnd
      BY <1>3, BlockType DEF MarkedFor
    <3> QED
      BY <1>3, <1>5, <3>1
  <2>2. ASSUME NEW p \in 1..PidEnd, NEW g \in Formats
        PROVE  g \in livePids'[p] <=>
                 p \in car'[g] /\ (p <= b \/ (p <= b + PidBlock /\ g \notin fmts \ {f}))
    <3>1. g \in livePids[p] <=> p \in car[g] /\ (p <= b \/ (p <= b + PidBlock /\ g \notin fmts))
      BY <1>3 DEF MarkedFor
    <3>2. p \in 0..PidEnd
      BY BlockType
    <3>3. g \in livePids'[p] <=> g \in livePids[p] \/ (g = f /\ p \in car[f] /\ b < p /\ p <= b + PidBlock)
      BY <1>5, <3>2
    <3> QED
      BY <1>4, <3>1, <3>3, BlockType
  <2> QED
    BY <2>1, <2>2 DEF MarkedFor
<1>7. livePid' = b /\ Block(b) /\ fmts \ {f} \in SUBSET Formats
  BY <1>2, <1>3
<1>8. BlocksFine'
  BY <1>1, <1>3, <1>4, <1>6, <1>7 DEF BlocksFine, LiveRunning
<1>9. VinFine'
  BY <1>0, <1>1, <1>4, VinKept DEF Identified
<1>10. SweepFine'
  BY <1>1, <1>3 DEF SweepFine, LiveRunning
<1> QED
  BY <1>8, <1>9, <1>10 DEF UpFine

\* When nothing more is coming, the block is complete.
LEMMA BlockDoneFine ==
  ASSUME Up, LiveGo("bitmaps", {"pids"}), GiveUp, livePid' = livePid + PidBlock,
         UNCHANGED <<livePids, liveVin, packet>>, faults' = 0
  PROVE  UpFine'
<1>0. /\ BusType /\ faults = 0 /\ livePid \in Nat
      /\ VinFine /\ BlocksFine /\ SweepFine
  BY LiveTypes DEF Up, UpFine
<1>1. livePc = "bitmaps" /\ livePc' = "pids"
  BY DEF LiveGo
<1>2. PICK b \in Nat : b = livePid
  BY <1>0
<1>3. PICK fmts \in SUBSET Formats :
        Block(b) /\ Awaits(fmts, b) /\ MarkedFor(b, fmts) /\ packet = <<>>
  BY <1>0, <1>1, <1>2 DEF BlocksFine, SweepFine, LiveRunning
<1>4. UNCHANGED car /\ Coming = <<>> /\ Coming' = <<>>
  BY <1>0, GiveUpEmpty
<1>5. fmts = {}
  BY <1>3, <1>4, RepliesLength DEF Awaits
<1>6. PICK c \in Nat : c = b + PidBlock
  BY BlockType
<1>7. MarkedFor(c, Formats)
  <2>1. \A p \in 1..PidEnd : (p <= b \/ p <= b + PidBlock) <=> p <= c
    BY <1>6, BlockType
  <2> QED
    BY <1>3, <1>5, <2>1 DEF MarkedFor
<1>8. MarkedFor(c, Formats)' /\ livePid' = c
  BY <1>2, <1>4, <1>6, <1>7, MarksKept
<1>9. Block(c)
  BY <1>3, <1>6, BlockNext
<1>10. BlocksFine'
  BY <1>1, <1>4, <1>8, <1>9 DEF BlocksFine, LiveRunning
<1>11. VinFine'
  BY <1>0, <1>1, <1>4, VinKept DEF Identified
<1>12. SweepFine'
  BY <1>1, <1>3 DEF SweepFine, LiveRunning
<1> QED
  BY <1>10, <1>11, <1>12 DEF UpFine

\* The discovery ends behind the last block that is announced.
LEMMA PidsDoneFine ==
  ASSUME Up, GetPidsDone
  PROVE  UpFine'
<1>0. /\ BusType /\ livePid \in Nat /\ Formats # {}
      /\ VinFine /\ BlocksFine /\ SweepFine
  BY LiveTypes DEF Up, UpFine, Formats
<1>1. /\ livePc = "pids" /\ livePc' = "poll" /\ UNCHANGED <<carVars, liveVin, livePids, packet>>
      /\ livePid >= PidEnd \/ livePids[livePid] = {}
  BY DEF GetPidsDone, LiveGo
<1>2. PICK b \in Nat : b = livePid
  BY <1>0
<1>3. Coming = <<>> /\ Block(b) /\ MarkedFor(b, Formats) /\ packet = <<>>
  BY <1>0, <1>1, <1>2 DEF BlocksFine, SweepFine, LiveRunning
<1>4. UNCHANGED car /\ Coming' = <<>>
  BY <1>0, <1>1, <1>3, BusStill
<1>5. ASSUME NEW f \in Formats, NEW p \in 1..PidEnd, p \in car[f] PROVE p <= b
  <2>1. CASE b >= PidEnd
    BY <2>1, BlockType
  <2>2. CASE b < PidEnd
    <3>1. livePids[b] = {}
      BY <1>1, <1>2, <2>2, BlockType
    <3>2. b # 0
      BY <1>0, <1>3, <3>1 DEF MarkedFor
    <3>3. b \in 1..PidEnd
      BY <2>2, <3>2, BlockType
    <3>4. f \in livePids[b] <=> b \in car[f] /\ (b <= b \/ (b <= b + PidBlock /\ f \notin Formats))
      BY <1>3, <3>3 DEF MarkedFor
    <3>5. ~Answers(f, b)
      BY <3>1, <3>2, <3>4 DEF Answers, VIN
    <3> QED
      BY <1>0, <1>3, <1>5, <2>2, <3>5, BlockEnds
  <2> QED
    BY <2>1, <2>2, BlockType
<1>6. MarkedFor(PidEnd, Formats)
  <2>1. \A p \in 1..PidEnd : p <= PidEnd
    BY BlockType
  <2> QED
    BY <1>3, <1>5, <2>1 DEF MarkedFor
<1>7. MarkedFor(PidEnd, Formats)'
  BY <1>1, <1>4, <1>6, MarksKept
<1>8. BlocksFine'
  BY <1>1, <1>7 DEF BlocksFine
<1>9. VinFine'
  BY <1>0, <1>1, <1>4, VinKept DEF Identified
<1>10. SweepFine'
  BY <1>1, <1>3, <1>4 DEF SweepFine
<1> QED
  BY <1>8, <1>9, <1>10 DEF UpFine

\* The entry of an answer.
LEMMA EntryType ==
  ASSUME NEW f \in Formats, NEW pid \in Int, NEW v \in Seq(Pieces),
         FirstPieces(v, f, pid, IF IsLong(pid) THEN Parts ELSE 1)
  PROVE  /\ EntryOf(<<f, pid>>) = [len |-> IF IsLong(pid) THEN Parts ELSE 1, pieces |-> v]
         /\ EntryOf(<<f, pid>>) \in [len : Nat, pieces : Seq(Pieces)]
<1>1. PICK n \in {1, Parts} : n = IF IsLong(pid) THEN Parts ELSE 1
  OBVIOUS
<1>2. n \in Nat /\ n >= 1
  BY DEF Parts
<1>3. Len(v) = n /\ \A k \in 1..n : v[k] = <<f, pid, k>>
  BY <1>1 DEF FirstPieces
<1>4. Whole(f, pid) = [k \in 1..n |-> <<f, pid, k>>]
  BY <1>1 DEF Whole
<1>5. v = [k \in 1..n |-> <<f, pid, k>>]
  BY <1>3
<1>6. EntryOf(<<f, pid>>) = [len |-> n, pieces |-> v]
  BY <1>3, <1>4, <1>5 DEF EntryOf
<1> QED
  BY <1>1, <1>2, <1>6

\* An entry names its answer.
LEMMA EntryNames ==
  ASSUME NEW r \in Formats \X Int
  PROVE  /\ EntryOf(r) \in [len : Nat, pieces : Seq(Pieces)]
         /\ EntryOf(r).pieces[1] = <<r[1], r[2], 1>>
<1>1. PICK f \in Formats, pid \in Int : r = <<f, pid>>
  OBVIOUS
<1>2. PICK n \in {1, Parts} : n = IF IsLong(pid) THEN Parts ELSE 1
  OBVIOUS
<1>3. n \in Nat /\ n >= 1
  BY <1>2 DEF Parts
<1>4. PICK v : v = [k \in 1..n |-> <<f, pid, k>>]
  OBVIOUS
<1>5. v \in Seq(Pieces) /\ Len(v) = n /\ \A k \in 1..n : v[k] = <<f, pid, k>>
  <2>1. \A k \in 1..n : <<f, pid, k>> \in Pieces
    BY <1>3 DEF Pieces
  <2>2. v \in Seq(Pieces) /\ DOMAIN v = 1..n
    BY <1>3, <1>4, <2>1
  <2> QED
    BY <1>3, <1>4, <2>2, LenProperties
<1>6. FirstPieces(v, f, pid, n)
  BY <1>5 DEF FirstPieces
<1>7. /\ EntryOf(<<f, pid>>) = [len |-> n, pieces |-> v]
      /\ EntryOf(<<f, pid>>) \in [len : Nat, pieces : Seq(Pieces)]
  BY <1>2, <1>5, <1>6, EntryType
<1>8. v[1] = <<f, pid, 1>>
  BY <1>3, <1>5
<1> QED
  BY <1>1, <1>7, <1>8

\* A packet with nothing in it.
LEMMA FiledNone == Filed(<<>>, {})
<1>1. <<>> \in Seq([len : Nat, pieces : Seq(Pieces)]) /\ Len(<<>>) = 0
  OBVIOUS
<1>2. IsFiniteSet({}) /\ Cardinality({}) = 0
  BY FS_EmptySet
<1> QED
  BY <1>1, <1>2 DEF Filed

\* One more entry, behind those of answers to earlier PIDs and of the other format.
LEMMA FiledMore ==
  ASSUME NEW q, NEW D \in SUBSET (Formats \X Int), Filed(q, D), NEW r \in Formats \X Int, r \notin D,
         \A x \in D : x[2] <= r[2], NEW w, w = Append(q, EntryOf(r))
  PROVE  Filed(w, D \cup {r})
<1> DEFINE Entries == [len : Nat, pieces : Seq(Pieces)]
<1>1. PICK e \in Entries : e = EntryOf(r) /\ e.pieces[1] = <<r[1], r[2], 1>>
  BY EntryNames
<1>2. q \in Seq(Entries) /\ IsFiniteSet(D) /\ Cardinality(D) = Len(q)
  BY DEF Filed
<1> HIDE DEF Entries
<1>3. PICK n \in Nat : n = Len(q)
  BY <1>2, LenProperties
<1>4. /\ w \in Seq(Entries) /\ Len(w) = n + 1 /\ w[n + 1] = e
      /\ \A k \in 1..n : w[k] = q[k]
  <2>1. w = Append(q, e)
    BY <1>1
  <2> QED
    BY <1>2, <1>3, <2>1, AppendProperties
<1>5. IsFiniteSet(D \cup {r}) /\ Cardinality(D \cup {r}) = n + 1
  BY <1>2, <1>3, FS_AddElement
<1>6. \A k \in 1..n : \E x \in D : q[k] = EntryOf(x)
  BY <1>3 DEF Filed
<1>7. \A k \in 1..(n + 1) : \E x \in D \cup {r} : w[k] = EntryOf(x)
  <2>1. ASSUME NEW k \in 1..(n + 1) PROVE \E x \in D \cup {r} : w[k] = EntryOf(x)
    <3>1. CASE k = n + 1
      BY <1>1, <1>4, <3>1
    <3>2. CASE k # n + 1
      <4>1. k \in 1..n
        BY <3>2
      <4> QED
        BY <1>4, <1>6, <4>1
    <3> QED
      BY <3>1, <3>2
  <2> QED
    BY <2>1
<1>8. ASSUME NEW k \in 1..n PROVE q[k].pieces[1][2] <= e.pieces[1][2] /\ q[k] # e
  <2>1. PICK x \in D : q[k] = EntryOf(x)
    BY <1>6
  <2>2. q[k].pieces[1] = <<x[1], x[2], 1>> /\ x \in Formats \X Int
    BY <2>1, EntryNames
  <2>3. q[k].pieces[1][2] <= e.pieces[1][2]
    BY <1>1, <2>2
  <2>4. ASSUME q[k] = e PROVE FALSE
    <3>1. <<x[1], x[2], 1>> = <<r[1], r[2], 1>>
      BY <1>1, <2>2, <2>4
    <3>2. x[1] = r[1] /\ x[2] = r[2]
      BY <3>1
    <3>3. x = <<x[1], x[2]>> /\ r = <<r[1], r[2]>>
      BY <2>2
    <3>4. x = r
      BY <3>2, <3>3
    <3> QED
      BY <3>4
  <2> QED
    BY <2>3, <2>4
<1>9. ASSUME NEW i \in 1..(n + 1), NEW j \in 1..(n + 1), i < j
      PROVE  w[i].pieces[1][2] <= w[j].pieces[1][2] /\ w[i] # w[j]
  <2>0. i \in 1..n
    BY <1>9
  <2>1. CASE j = n + 1
    BY <1>4, <1>8, <2>0, <2>1
  <2>2. CASE j # n + 1
    <3>1. j \in 1..n
      BY <2>2
    <3>2. q[i].pieces[1][2] <= q[j].pieces[1][2] /\ q[i] # q[j]
      BY <1>3, <1>9, <2>0, <3>1 DEF Filed
    <3> QED
      BY <1>4, <2>0, <3>1, <3>2
  <2> QED
    BY <2>1, <2>2
<1>10. Cardinality(D \cup {r}) = Len(w)
  BY <1>4, <1>5
<1>11. \A k \in 1..Len(w) : \E x \in D \cup {r} : w[k] = EntryOf(x)
  BY <1>4, <1>7
<1>12. \A i, j \in 1..Len(w) :
         i < j => w[i].pieces[1][2] <= w[j].pieces[1][2] /\ w[i] # w[j]
  BY <1>4, <1>9
<1>13. w \in Seq([len : Nat, pieces : Seq(Pieces)])
  BY <1>4 DEF Entries
<1> QED
  BY <1>5, <1>10, <1>11, <1>12, <1>13 DEF Filed

\* What a packet holds is a matter of the car.
LEMMA FiledKept ==
  ASSUME car' = car, NEW q, NEW D, Filed(q, D)
  PROVE  Filed(q, D)'
<1>1. \A r : EntryOf(r)' = EntryOf(r)
  BY SameCar DEF EntryOf
<1> QED
  BY <1>1 DEF Filed

\* So are the answers to a set of PIDs.
LEMMA CollectedKept ==
  ASSUME car' = car, NEW m
  PROVE  Before(m)' = Before(m) /\ \A fmts : Collected(m, fmts)' = Collected(m, fmts)
<1>1. \A f, p : Answers(f, p)' = Answers(f, p)
  BY SameCar
<1>2. \A n : Before(n)' = Before(n)
  BY <1>1 DEF Before
<1> QED
  BY <1>2 DEF Collected

\* The answers that are in the packet.
LEMMA CollectedIs ==
  ASSUME NEW m \in Nat, NEW fmts \in SUBSET Formats, \A f \in fmts : Answers(f, m), m \in 0..(PidEnd - 2)
  PROVE  /\ Collected(m, {}) = Before(m + 1)
         /\ fmts = {f \in Formats : Answers(f, m)} => Collected(m, fmts) = Before(m)
         /\ \A f \in fmts : /\ <<f, m>> \notin Collected(m, fmts)
                            /\ Collected(m, fmts \ {f}) = Collected(m, fmts) \cup {<<f, m>>}
         /\ Collected(m, fmts) \subseteq Formats \X Int
         /\ \A x \in Collected(m, fmts) : x[2] <= m
<1>1. \A r \in Formats \X (0..(PidEnd - 2)) : r[2] < m + 1 <=> r[2] < m \/ r[2] = m
  BY BlockType
<1>2. \A r \in Before(m + 1) : /\ r \in Formats \X (0..(PidEnd - 2)) /\ r[2] <= m /\ r = <<r[1], r[2]>>
                               /\ r[2] \in Int /\ r \in Formats \X Int
  BY <1>1, BlockType DEF Before
<1>3. \A f \in fmts : <<f, m>> \in Before(m + 1)
  BY BlockType DEF Before
<1>4. Collected(m, {}) = Before(m + 1)
  BY DEF Collected
<1>5. ASSUME fmts = {f \in Formats : Answers(f, m)} PROVE Collected(m, fmts) = Before(m)
  <2>1. ASSUME NEW r \in Before(m) PROVE r \in Collected(m, fmts)
    <3>1. r \in Before(m + 1) /\ r[2] < m /\ r[2] \in Int
      BY BlockType, <1>1 DEF Before
    <3>2. \A f \in fmts : r # <<f, m>>
      BY <3>1
    <3> QED
      BY <3>1, <3>2 DEF Collected
  <2>2. ASSUME NEW r \in Collected(m, fmts) PROVE r \in Before(m)
    <3>1. r \in Before(m + 1) /\ \A f \in fmts : r # <<f, m>>
      BY DEF Collected
    <3>2. r[1] \in Formats /\ Answers(r[1], r[2]) /\ r = <<r[1], r[2]>>
      BY <1>2, <3>1 DEF Before
    <3>3. r[2] # m
      BY <1>5, <3>1, <3>2
    <3> QED
      BY <1>1, <3>1, <3>3 DEF Before
  <2> QED
    BY <2>1, <2>2
<1>6. ASSUME NEW f \in fmts
      PROVE  /\ <<f, m>> \notin Collected(m, fmts)
             /\ Collected(m, fmts \ {f}) = Collected(m, fmts) \cup {<<f, m>>}
  <2>1. <<f, m>> \notin Collected(m, fmts)
    BY DEF Collected
  <2>2. \A g : <<g, m>> = <<f, m>> <=> g = f
    OBVIOUS
  <2>3. {<<g, m>> : g \in fmts} = {<<g, m>> : g \in fmts \ {f}} \cup {<<f, m>>}
    OBVIOUS
  <2>4. <<f, m>> \notin {<<g, m>> : g \in fmts \ {f}}
    BY <2>2
  <2> QED
    BY <1>3, <2>1, <2>3, <2>4 DEF Collected
<1>7. Collected(m, fmts) \subseteq Before(m + 1)
  BY DEF Collected
<1> QED
  BY <1>2, <1>4, <1>5, <1>6, <1>7

\* A piece goes to the last entry.
Grown(p, x) == [p EXCEPT ![Len(p)].pieces = Append(@, x)]
Entries == [len : Nat, pieces : Seq(Pieces)]
Item(n, v) == [len |-> n, pieces |-> v]
\* What that does to a packet.
LEMMA LastEntryGrows ==
  ASSUME NEW q \in Seq(Entries), NEW n \in Nat, NEW v \in Seq(Pieces), NEW x \in Pieces,
         NEW p, p = Append(q, Item(n, v))
  PROVE  Grown(p, x) = Append(q, Item(n, Append(v, x)))
<1>1. PICK e \in Entries : e = Item(n, v) /\ e = [len |-> n, pieces |-> v]
  BY DEF Entries, Item
<1>2. PICK u \in Seq(Pieces) : u = Append(v, x)
  BY AppendProperties
<1>3. PICK d \in Entries : d = Item(n, u) /\ d = [len |-> n, pieces |-> u]
  BY DEF Entries, Item
<1>4. [e EXCEPT !.pieces = Append(@, x)] = d
  <2>1. e.pieces = v
    BY <1>1
  <2>2. [e EXCEPT !.pieces = u] = d
    BY <1>1, <1>3
  <2> QED
    BY <1>2, <2>1, <2>2, Zenon
<1>5. PICK k \in Nat : k = Len(q)
  BY LenProperties
<1>6. q \in Seq(Entries)
  OBVIOUS
<1>7. /\ p \in Seq(Entries) /\ Len(p) = k + 1 /\ p[k + 1] = e
      /\ \A i \in 1..k : p[i] = q[i]
  <2>1. p = Append(q, e)
    BY <1>1
  <2> QED
    BY <1>5, <1>6, <2>1, AppendProperties
<1>8. DOMAIN p = 1..(k + 1)
  BY <1>7, LenProperties
<1>9. PICK r : r = [p EXCEPT ![k + 1] = d]
  OBVIOUS
<1>10. [p EXCEPT ![Len(p)].pieces = Append(@, x)] = r
  BY <1>4, <1>7, <1>9
<1>11. PICK s \in Seq(Entries) : s = Append(q, d)
  BY <1>3, <1>6, AppendProperties
<1>12. Len(s) = k + 1 /\ s[k + 1] = d /\ \A i \in 1..k : s[i] = q[i]
  BY <1>3, <1>5, <1>6, <1>11, AppendProperties
<1>13. DOMAIN s = 1..(k + 1) /\ s = [i \in DOMAIN s |-> s[i]]
  BY <1>11, <1>12, LenProperties
<1>14. r = [i \in 1..(k + 1) |-> IF i = k + 1 THEN d ELSE p[i]]
  BY <1>8, <1>9
<1>15. ASSUME NEW i \in 1..(k + 1) PROVE s[i] = IF i = k + 1 THEN d ELSE p[i]
  <2>1. CASE i = k + 1
    BY <1>12, <2>1
  <2>2. CASE i # k + 1
    <3>1. i \in 1..k
      BY <2>2
    <3> QED
      BY <1>7, <1>12, <2>2, <3>1
  <2> QED
    BY <2>1, <2>2
<1>16. r = s
  BY <1>13, <1>14, <1>15
<1> QED
  BY <1>2, <1>3, <1>10, <1>11, <1>16 DEF Grown

\* The same of a long entry.
LEMMA LongEntryGrows ==
  ASSUME NEW q \in Seq(Entries), NEW v \in Seq(Pieces), NEW x \in Pieces,
         NEW p, p = Append(q, Item(Parts, v)), Parts \in Nat
  PROVE  Grown(p, x) = Append(q, Item(Parts, Append(v, x)))
BY LastEntryGrows, Zenon

\* The button starts an empty packet.
LEMMA PollFine ==
  ASSUME Up, PollButton
  PROVE  UpFine'
<1>0. BusType /\ VinFine /\ BlocksFine /\ SweepFine
  BY LiveTypes DEF Up, UpFine
<1>1. /\ livePc = "poll" /\ livePc' = "sweep" /\ UNCHANGED <<carVars, liveVin, livePids>>
      /\ livePid' = 0 /\ packet' = <<>>
  BY DEF PollButton, LiveGo
<1>2. UNCHANGED car /\ Coming' = <<>>
  BY <1>0, <1>1, BusStill DEF SweepFine
<1>3. Before(0) = {}
  BY BlockType DEF Before
<1>4. PICK q : q = packet'
  OBVIOUS
<1>5. Filed(q, Before(0))'
  <2>1. Filed(q, {})
    BY <1>1, <1>4, FiledNone
  <2>2. Filed(q, {})' /\ Before(0)' = {}
    BY <1>2, <1>3, <2>1, FiledKept, CollectedKept
  <2>3. PICK D : D = {}
    OBVIOUS
  <2>4. Filed(q, D)' /\ Before(0)' = D
    BY <2>2, <2>3
  <2> QED
    BY <2>2 DEF Filed
<1>6. SweepFine'
  BY <1>1, <1>2, <1>4, <1>5 DEF SweepFine, LiveRunning
<1>7. BlocksFine'
  BY <1>0, <1>1, <1>2, RunningKept DEF LiveRunning
<1>8. VinFine'
  BY <1>0, <1>1, <1>2, VinKept DEF Identified
<1> QED
  BY <1>6, <1>7, <1>8 DEF UpFine

\* PIDs that main skips have no answer.
LEMMA NoneSkipped ==
  ASSUME Up, LiveRunning, NEW m \in Nat, m >= livePid, m <= PidEnd,
         \A p \in LiveSweepNext : m <= p
  PROVE  Before(livePid) = Before(m)
<1>0. /\ livePid \in Nat /\ MarkedFor(PidEnd, Formats)
  BY LiveTypes DEF Up, UpFine, BlocksFine
<1>1. ASSUME NEW r \in Before(m), ~(r[2] < livePid) PROVE FALSE
  <2>1. /\ r[1] \in Formats /\ r[2] \in 0..(PidEnd - 2) /\ Answers(r[1], r[2]) /\ r[2] < m
    BY DEF Before
  <2>2. PICK p \in Nat : p = r[2] /\ p <= PidEnd /\ p >= livePid /\ p \in 0..(PidEnd - 2)
    BY <1>0, <1>1, <2>1, BlockType
  <2>3. r[1] \in livePids[p]
    BY <1>0, <2>1, <2>2, AnswersMarked, BlockType
  <2>4. p \in LiveSweepNext
    BY <2>2, <2>3 DEF LiveSweepNext
  <2> QED
    BY <2>1, <2>2, <2>4
<1>2. Before(m) \subseteq Before(livePid)
  BY <1>1 DEF Before
<1>3. Before(livePid) \subseteq Before(m)
  <2>1. \A p \in 0..(PidEnd - 2) : p < livePid => p < m
    BY <1>0, BlockType
  <2> QED
    BY <2>1 DEF Before
<1> QED
  BY <1>2, <1>3

\* When no PID is left, the packet is complete.
LEMMA PrintFine ==
  ASSUME Up, PrintPacket
  PROVE  UpFine'
<1>0. BusType /\ VinFine /\ BlocksFine /\ SweepFine /\ livePid \in Nat
  BY LiveTypes DEF Up, UpFine
<1>1. /\ livePc = "sweep" /\ livePc' = "poll" /\ UNCHANGED <<carVars, liveVin, livePids, packet>>
      /\ LiveSweepNext = {}
  BY DEF PrintPacket, LiveGo
<1>2. UNCHANGED car /\ Coming' = <<>>
  BY <1>0, <1>1, BusStill DEF SweepFine
<1>3. PICK q, D : q = packet /\ D = Before(livePid) /\ Filed(q, D)
  BY <1>0, <1>1 DEF SweepFine
<1>4. D = Before(PidEnd)
  <2>1. CASE livePid <= PidEnd
    BY <1>1, <1>3, <2>1, NoneSkipped, BlockType DEF LiveRunning
  <2>2. CASE ~(livePid <= PidEnd)
    <3>1. \A p \in 0..(PidEnd - 2) : p < livePid /\ p < PidEnd
      BY <1>0, <2>2, BlockType
    <3> QED
      BY <1>3, <3>1 DEF Before
  <2> QED
    BY <2>1, <2>2
<1>5. Filed(q, D)' /\ Before(PidEnd)' = D
  BY <1>2, <1>3, <1>4, FiledKept, CollectedKept
<1>6. Filed(packet, Before(PidEnd))'
  BY <1>1, <1>3, <1>5 DEF Filed
<1>7. SweepFine'
  BY <1>1, <1>2, <1>6 DEF SweepFine, LiveRunning
<1>8. BlocksFine'
  BY <1>0, <1>1, <1>2, RunningKept DEF LiveRunning
<1>9. VinFine'
  BY <1>0, <1>1, <1>2, VinKept DEF Identified
<1> QED
  BY <1>7, <1>8, <1>9 DEF UpFine

\* The next PID is asked for on every format that answers it.
LEMMA AskPidFine ==
  ASSUME Up, LiveAskPid, faults' = 0
  PROVE  UpFine'
<1>0. /\ BusType /\ VinFine /\ BlocksFine /\ SweepFine /\ livePid \in Nat
      /\ canUp /\ faults = 0 /\ livePids \in [0..PidEnd -> SUBSET Formats]
  BY LiveTypes DEF Up, UpFine
<1>1. /\ livePc = "sweep" /\ livePc' = "frames" /\ UNCHANGED <<liveVin, livePids, packet>>
      /\ mfl' = 0
  BY DEF LiveAskPid, LiveGo
<1>2. PICK m \in LiveSweepNext : /\ \A p \in LiveSweepNext : m <= p
                                 /\ livePid' = m /\ LiveAsk(livePids[m], m)
  BY DEF LiveAskPid
<1>3. m \in Nat /\ m \in 0..(PidEnd - 2) /\ m <= PidEnd /\ m >= livePid /\ m \in 0..PidEnd /\ m \in Int
  BY <1>0, BlockType DEF LiveSweepNext
<1>4. PICK F \in SUBSET Formats : F = livePids[m]
  BY <1>0, <1>3
<1>5. UNCHANGED car /\ Coming' = Replies(F, m)
  <2>1. Ask(F, m) /\ faults' = faults /\ Coming = <<>>
    BY <1>0, <1>1, <1>2, <1>4 DEF LiveAsk, SweepFine
  <2> QED
    BY <1>0, <1>3, <2>1, AskAnswered
<1>6. MarkedFor(PidEnd, Formats)
  BY <1>0, <1>1 DEF BlocksFine, LiveRunning
<1>7. PICK S \in SUBSET Formats : S = {f \in Formats : Answers(f, m)}
  OBVIOUS
<1>8. Awaits(S, m)'
  <2>1. \A f \in Formats : Answers(f, m) => f \in F
    BY <1>3, <1>4, <1>6, AnswersMarked, BlockType
  <2>2. S = {f \in Formats \cap F : Answers(f, m)}
    BY <1>7, <2>1
  <2>3. Coming' = Replies(S, m)
    BY <1>5, <2>2, RepliesOf
  <2>4. \A f \in S : Answers(f, m)'
    BY <1>5, <1>7, SameCar
  <2> QED
    BY <1>5, <2>3, <2>4, SameCar DEF Awaits
<1>9. PICK q, D : q = packet /\ D = Collected(m, S) /\ Filed(q, D)
  <2>1. Before(livePid) = Before(m)
    BY <1>1, <1>2, <1>3, NoneSkipped DEF LiveRunning
  <2>2. Before(m) = Collected(m, S)
    BY <1>3, <1>7, CollectedIs
  <2> QED
    BY <1>0, <1>1, <2>1, <2>2 DEF SweepFine
<1>10. Filed(q, D)' /\ Collected(m, S)' = D
  BY <1>5, <1>9, FiledKept, CollectedKept
<1>11. BetweenAnswers'
  <2>1. packet' = q /\ livePid' = m
    BY <1>1, <1>2, <1>9
  <2>2. Awaits(S, livePid)' /\ Filed(packet, Collected(livePid, S))'
    BY <1>8, <1>10, <2>1 DEF Filed, Awaits
  <2> QED
    BY <1>1, <2>2 DEF BetweenAnswers
<1>12. SweepFine'
  BY <1>1, <1>2, <1>3, <1>11 DEF SweepFine, LiveRunning
<1>13. BlocksFine'
  BY <1>0, <1>1, <1>5, RunningKept DEF LiveRunning
<1>14. VinFine'
  BY <1>0, <1>1, <1>5, VinKept DEF Identified
<1> QED
  BY <1>12, <1>13, <1>14 DEF UpFine

\* A step that leaves main between two answers.
LEMMA ToBetween ==
  ASSUME UNCHANGED <<car, livePid>>, NEW m, livePid = m, NEW fmts \in SUBSET Formats,
         Awaits(fmts, m)', mfl' = 0, NEW q, packet' = q, Filed(q, Collected(m, fmts))
  PROVE  BetweenAnswers'
<1>1. PICK D : D = Collected(m, fmts)
  OBVIOUS
<1>2. Filed(q, D)
  BY <1>1
<1>3. Filed(q, D)' /\ Collected(m, fmts)' = D
  BY <1>1, <1>2, FiledKept, CollectedKept
<1>4. Awaits(fmts, livePid)' /\ Filed(packet, Collected(livePid, fmts))'
  BY <1>3 DEF Filed, Awaits
<1> QED
  BY <1>4 DEF BetweenAnswers

\* The same inside a long answer.
LEMMA ToInside ==
  ASSUME UNCHANGED <<car, livePid>>, NEW m, livePid = m, NEW f \in Formats, Answers(f, m), IsLong(m),
         NEW k \in 1..(Parts - 1), mfl' = Parts - k, Remains(Coming', f, m, k),
         NEW v \in Seq(Pieces), FirstPieces(v, f, m, k), NEW q, Filed(q, Collected(m, {f})),
         packet' = Append(q, [len |-> Parts, pieces |-> v])
  PROVE  InsideAnswer'
<1>1. PICK D : D = Collected(m, {f})
  OBVIOUS
<1>2. Filed(q, D)
  BY <1>1
<1>3. Filed(q, D)' /\ Collected(m, {f})' = D
  BY <1>1, <1>2, FiledKept, CollectedKept
<1>4. Filed(q, Collected(livePid, {f}))'
  BY <1>3 DEF Filed
<1>5. Answers(f, livePid)' /\ IsLong(livePid)'
  <2>1. Answers(f, m)' /\ IsLong(m)'
    BY SameCar
  <2> QED
    BY <2>1 DEF Answers, IsLong
<1> QED
  BY <1>4, <1>5 DEF InsideAnswer

\* Only one format has a long answer to a PID.
LEMMA LongAlone ==
  ASSUME BusType, Distinguishable, NEW m \in Nat, IsLong(m),
         NEW f \in Formats, Answers(f, m), NEW g \in Formats, Answers(g, m)
  PROVE  f = g
<1>1. m \in car.long /\ m # VIN
  BY DEF IsLong, VIN
<1>2. car.long \cap car.std \cap car.ext = {} /\ car.long \subseteq car.std \cup car.ext
  BY CarBusAssumption DEF Distinguishable, BusType
<1>3. car["std"] \subseteq 1..(PidEnd - 1) /\ car["ext"] \subseteq 1..(PidEnd - 1)
  BY CarFormat DEF Formats
<1>4. m # 0
  BY <1>1, <1>2, <1>3, BlockType
<1>5. m \in car[f] /\ m \in car[g]
  BY <1>1, <1>4 DEF Answers
<1>6. m \notin car["std"] \/ m \notin car["ext"]
  BY <1>1, <1>2
<1> QED
  BY <1>5, <1>6 DEF Formats

\* A frame between two answers.
LEMMA TakeBetween ==
  ASSUME Up, BetweenAnswers, livePid \in 0..(PidEnd - 2), Take, AddFrame(Head(obdMsgq)),
         UNCHANGED livePid,
         IF Head(obdMsgq).kind = "first" /\ canUp
         THEN FlowControl(Head(obdMsgq)) ELSE UNCHANGED onBus
  PROVE  car' = car /\ (BetweenAnswers \/ InsideAnswer)'
<1>0. BusType /\ canUp /\ Distinguishable
  BY LiveTypes DEF Up
<1>1. PICK m \in 0..(PidEnd - 2) : m = livePid
  OBVIOUS
<1>2. m \in Nat /\ m \in Int
  BY <1>1, BlockType
<1>3. PICK fmts \in SUBSET Formats :
        Awaits(fmts, m) /\ mfl = 0 /\ Filed(packet, Collected(m, fmts))
  BY <1>1 DEF BetweenAnswers
<1>4. PICK f \in fmts : Head(obdMsgq) = Opening(f, m)
  <2>1. PICK t : t = Tail(obdMsgq) \o onBus
    OBVIOUS
  <2>2. /\ obdMsgq \in Seq(BusFrame) /\ onBus \in Seq(BusFrame) /\ obdMsgq # <<>>
    BY <1>0 DEF BusType, Take
  <2>3. /\ Tail(obdMsgq) \in Seq(BusFrame) /\ Head(obdMsgq) = Coming[1] /\ FirstTaken(Coming, t)
    BY <2>1, <2>2, HeadTaken DEF Coming
  <2>4. t \in Seq(BusFrame)
    BY <2>1, <2>2, <2>3, ConcatProperties
  <2>5. Coming = Replies(fmts, m) /\ \A g \in fmts : Answers(g, m)
    BY <1>3 DEF Awaits
  <2>6. FirstTaken(Replies(fmts, m), t)
    BY <2>3, <2>5
  <2>7. \E g \in fmts : Replies(fmts, m)[1] = Opening(g, m)
    BY <2>4, <2>5, <2>6, ReplyTaken
  <2> QED
    BY <2>3, <2>5, <2>7
<1>5. /\ Piece(Opening(f, m)) = <<f, m, 1>>
      /\ Head(obdMsgq).kind = IF IsLong(m) THEN "first" ELSE "single"
  BY <1>4, PieceOpens
<1>6. f \in Formats /\ Answers(f, m) /\ \A g \in fmts : Answers(g, m)
  BY <1>3 DEF Awaits
<1>7. PICK v \in Seq(Pieces) : v = <<Piece(Head(obdMsgq))>> /\ FirstPieces(v, f, m, 1)
  <2>1. <<f, m, 1>> \in Pieces
    BY <1>2, <1>6 DEF Pieces
  <2>2. PICK x \in Pieces : x = <<f, m, 1>>
    BY <2>1
  <2>3. <<x>> \in Seq(Pieces) /\ Len(<<x>>) = 1 /\ <<x>>[1] = x
    OBVIOUS
  <2>4. FirstPieces(<<x>>, f, m, 1)
    BY <2>2, <2>3 DEF FirstPieces
  <2>5. <<Piece(Head(obdMsgq))>> = <<x>>
    BY <1>4, <1>5, <2>2
  <2> QED
    BY <2>3, <2>4, <2>5
<1>8. CASE IsLong(m)
  <2>1. FlowControl(Head(obdMsgq))
    BY <1>0, <1>5, <1>8
  <2>2. mfl' = Parts - 1 /\ packet' = Append(packet, [len |-> Parts, pieces |-> v])
    BY <1>5, <1>7, <1>8 DEF AddFrame
  <2>3. fmts = {f}
    BY <1>0, <1>2, <1>6, <1>8, LongAlone
  <2>4. Coming = <<Opening(f, m)>>
    BY <1>3, <2>3, RepliesAre DEF Awaits
  <2>5. UNCHANGED car /\ Remains(Coming', f, m, 1)
    BY <1>0, <1>8, <2>1, <2>4, FlowRemains
  <2>6. 1 \in 1..(Parts - 1)
    BY DEF Parts
  <2>7. PICK q : q = packet
    OBVIOUS
  <2>8. Filed(q, Collected(m, {f})) /\ packet' = Append(q, [len |-> Parts, pieces |-> v])
    BY <1>3, <2>2, <2>3, <2>7
  <2>9. InsideAnswer'
    BY <1>1, <1>6, <1>7, <1>8, <2>2, <2>5, <2>6, <2>8, ToInside
  <2> QED
    BY <2>5, <2>9
<1>9. CASE ~IsLong(m)
  <2>1. UNCHANGED onBus
    BY <1>5, <1>9
  <2>2. mfl' = 0 /\ packet' = Append(packet, [len |-> 1, pieces |-> v])
    BY <1>3, <1>5, <1>7, <1>9 DEF AddFrame
  <2>3. /\ UNCHANGED car
        /\ \E g \in fmts : Head(obdMsgq) = Opening(g, m) /\ Awaits(fmts \ {g}, m)'
    BY <1>0, <1>3, <2>1, TakeAwaited
  <2>4. Awaits(fmts \ {f}, m)'
    <3>1. PICK g \in fmts : Head(obdMsgq) = Opening(g, m) /\ Awaits(fmts \ {g}, m)'
      BY <2>3
    <3>2. Opening(g, m).fmt = g /\ Opening(f, m).fmt = f
      BY PieceOpens
    <3>3. g = f
      BY <1>4, <3>1, <3>2
    <3> QED
      BY <3>1, <3>3, Zenon
  <2>5. PICK q : q = packet'
    OBVIOUS
  <2>6. Filed(q, Collected(m, fmts \ {f}))
    <3>1. /\ <<f, m>> \notin Collected(m, fmts) /\ Collected(m, fmts) \in SUBSET (Formats \X Int)
          /\ Collected(m, fmts \ {f}) = Collected(m, fmts) \cup {<<f, m>>}
          /\ \A x \in Collected(m, fmts) : x[2] <= m
      BY <1>2, <1>6, CollectedIs
    <3>2. PICK r \in Formats \X Int : r = <<f, m>> /\ r[2] = m
      <4>1. <<f, m>> \in Formats \X Int /\ <<f, m>>[2] = m
        BY <1>2, <1>6
      <4> QED
        BY <4>1
    <3>3. EntryOf(r) = [len |-> 1, pieces |-> v]
      BY <1>2, <1>6, <1>7, <1>9, <3>2, EntryType
    <3>4. q = Append(packet, EntryOf(r))
      BY <2>2, <2>5, <3>3
    <3>5. PICK D \in SUBSET (Formats \X Int) : D = Collected(m, fmts)
      BY <3>1
    <3>6. PICK p : p = packet /\ Filed(p, D)
      BY <1>3, <3>5
    <3>7. Filed(q, D \cup {r})
      BY <3>1, <3>2, <3>4, <3>5, <3>6, FiledMore
    <3> QED
      BY <3>1, <3>2, <3>5, <3>7
  <2>7. BetweenAnswers'
    BY <1>1, <2>2, <2>3, <2>4, <2>5, <2>6, ToBetween
  <2> QED
    BY <2>3, <2>7
<1> QED
  BY <1>8, <1>9

\* A frame inside a long answer.
LEMMA TakeInside ==
  ASSUME Up, InsideAnswer, livePid \in 0..(PidEnd - 2), Take, AddFrame(Head(obdMsgq)),
         UNCHANGED livePid,
         IF Head(obdMsgq).kind = "first" /\ canUp
         THEN FlowControl(Head(obdMsgq)) ELSE UNCHANGED onBus
  PROVE  car' = car /\ (BetweenAnswers \/ InsideAnswer)'
<1>0. BusType
  BY LiveTypes DEF Up
<1>1. PICK m \in 0..(PidEnd - 2) : m = livePid
  OBVIOUS
<1>2. m \in Nat /\ m \in Int
  BY <1>1, BlockType
<1>3. PICK f \in Formats, k \in 1..(Parts - 1), v \in Seq(Pieces) :
        /\ Answers(f, m) /\ IsLong(m) /\ mfl = Parts - k /\ Remains(Coming, f, m, k)
        /\ FirstPieces(v, f, m, k)
        /\ \E q : /\ Filed(q, Collected(m, {f}))
                  /\ packet = Append(q, [len |-> Parts, pieces |-> v])
  BY <1>1 DEF InsideAnswer
<1>4. PICK q : /\ Filed(q, Collected(m, {f}))
               /\ packet = Append(q, [len |-> Parts, pieces |-> v])
  BY <1>3
<1>5. k \in 1..2 /\ k \in Nat /\ mfl = 3 - k /\ Parts \in Nat
  BY <1>3 DEF Parts
<1>6. Head(obdMsgq) = Frame(f, m, k + 1, "next")
  <2>1. /\ obdMsgq \in Seq(BusFrame) /\ onBus \in Seq(BusFrame) /\ obdMsgq # <<>>
    BY <1>0 DEF BusType, Take
  <2>2. Head(obdMsgq) = Coming[1]
    BY <2>1, HeadTaken DEF Coming
  <2>3. 1 \in 1..Len(Coming)
    BY <1>3, <1>5 DEF Remains, Parts
  <2> QED
    BY <1>3, <2>2, <2>3 DEF Remains
<1>7. Head(obdMsgq).kind = "next" /\ Piece(Head(obdMsgq)) = <<f, m, k + 1>>
  BY <1>6 DEF Frame, Piece
<1>8. UNCHANGED onBus
  BY <1>7
<1>9. UNCHANGED car /\ Remains(Coming', f, m, k + 1) /\ BusType'
  BY <1>0, <1>3, <1>8, RestTaken
<1>10. /\ mfl' = mfl - 1
       /\ packet' = [packet EXCEPT ![Len(packet)].pieces = Append(@, Piece(Head(obdMsgq)))]
  BY <1>5, <1>7 DEF AddFrame
<1>11. PICK w \in Seq(Pieces) : w = Append(v, <<f, m, k + 1>>) /\ FirstPieces(w, f, m, k + 1)
  <2>1. PICK w : w = Append(v, <<f, m, k + 1>>)
    OBVIOUS
  <2> QED
    BY <1>2, <1>3, <1>5, <2>1, PieceBehind
<1>12. packet' = Append(q, [len |-> Parts, pieces |-> w])
  <2>1. q \in Seq(Entries)
    BY <1>4 DEF Filed, Entries
  <2>2. PICK x \in Pieces : x = <<f, m, k + 1>>
    <3>1. <<f, m, k + 1>> \in Pieces
      BY <1>2, <1>5 DEF Pieces
    <3> QED
      BY <3>1
  <2>3. PICK p : p = packet
    OBVIOUS
  <2>4. packet' = Grown(p, x)
    BY <1>7, <1>10, <2>2, <2>3, Zenon DEF Grown
  <2>5. p = Append(q, Item(Parts, v))
    BY <1>4, <2>3 DEF Item
  <2>6. Grown(p, x) = Append(q, Item(Parts, Append(v, x)))
    <3>1. v \in Seq(Pieces) /\ x \in Pieces /\ Parts \in Nat
      BY <1>5
    <3> QED
      BY <2>1, <2>5, <3>1, LongEntryGrows, Zenon
  <2> QED
    BY <1>11, <2>2, <2>4, <2>6, Zenon DEF Item
<1>13. CASE k = 1
  <2>1. k + 1 \in 1..(Parts - 1) /\ mfl' = Parts - (k + 1)
    BY <1>5, <1>10, <1>13 DEF Parts
  <2>2. PICK n \in 1..(Parts - 1) : n = k + 1 /\ mfl' = Parts - n
    BY <2>1
  <2>3. Remains(Coming', f, m, n) /\ FirstPieces(w, f, m, n)
    BY <1>9, <1>11, <2>2
  <2>4. InsideAnswer'
    BY <1>1, <1>3, <1>4, <1>9, <1>12, <2>2, <2>3, ToInside
  <2> QED
    BY <1>9, <2>4
<1>14. CASE k = 2
  <2>1. k + 1 = Parts /\ mfl' = 0
    BY <1>5, <1>10, <1>14 DEF Parts
  <2>2. Coming' = <<>>
    <3>1. Len(Coming') = 0
      BY <1>9, <2>1 DEF Remains, Parts
    <3>2. Coming' \in Seq(BusFrame)
      BY <1>9, LinkType DEF BusType, Coming
    <3> QED
      BY <3>1, <3>2, EmptySeq
  <2>3. Awaits({}, m)'
    <3>1. Replies({}, m) = <<>>
      BY RepliesAre
    <3>2. Replies({}, m)' = <<>>
      BY <1>9, <3>1, SameCar
    <3> QED
      BY <2>2, <3>2 DEF Awaits
  <2>4. PICK p : p = packet'
    OBVIOUS
  <2>5. Filed(p, Collected(m, {}))
    <3>1. /\ <<f, m>> \notin Collected(m, {f}) /\ Collected(m, {f}) \in SUBSET (Formats \X Int)
          /\ Collected(m, {f} \ {f}) = Collected(m, {f}) \cup {<<f, m>>}
          /\ \A x \in Collected(m, {f}) : x[2] <= m
      <4>1. {f} \in SUBSET Formats /\ \A g \in {f} : Answers(g, m)
        BY <1>3
      <4> QED
        BY <1>2, <4>1, CollectedIs
    <3>2. PICK r \in Formats \X Int : r = <<f, m>> /\ r[2] = m
      <4>1. <<f, m>> \in Formats \X Int /\ <<f, m>>[2] = m
        BY <1>2
      <4> QED
        BY <4>1
    <3>3. EntryOf(r) = [len |-> Parts, pieces |-> w]
      BY <1>2, <1>3, <1>11, <2>1, <3>2, EntryType
    <3>4. p = Append(q, EntryOf(r))
      BY <1>12, <2>4, <3>3
    <3>5. PICK D \in SUBSET (Formats \X Int) : D = Collected(m, {f})
      BY <3>1
    <3>6. Filed(q, D)
      BY <1>4, <3>5
    <3>7. Filed(p, D \cup {r})
      BY <3>1, <3>2, <3>4, <3>5, <3>6, FiledMore
    <3>8. {f} \ {f} = {}
      OBVIOUS
    <3> QED
      BY <3>1, <3>2, <3>5, <3>7, <3>8
  <2>6. BetweenAnswers'
    <3>1. PICK S \in SUBSET Formats : S = {}
      OBVIOUS
    <3>2. Awaits(S, m)' /\ Filed(p, Collected(m, S))
      BY <2>3, <2>5, <3>1
    <3> QED
      BY <1>1, <1>9, <2>1, <2>4, <3>2, ToBetween
  <2> QED
    BY <1>9, <2>6
<1> QED
  BY <1>5, <1>13, <1>14

\* A wait that ends between two answers.
LEMMA SweepOn ==
  ASSUME Up, LiveGo("frames", {"sweep"}), GiveUp, livePid' = livePid + 1,
         UNCHANGED <<mfl, packet>>, faults' = 0
  PROVE  car' = car /\ SweepFine'
<1>0. BusType /\ faults = 0 /\ SweepFine /\ livePc = "frames" /\ livePc' = "sweep"
  BY LiveTypes DEF Up, UpFine, LiveGo
<1>1. UNCHANGED car /\ Coming = <<>> /\ Coming' = <<>>
  BY <1>0, GiveUpEmpty
<1>2. PICK m \in 0..(PidEnd - 2) : m = livePid
  BY <1>0 DEF SweepFine
<1>3. m \in Nat
  BY BlockType
<1>4. ~InsideAnswer
  <2>1. ASSUME NEW f, NEW k \in 1..(Parts - 1), Remains(Coming, f, m, k) PROVE FALSE
    <3>1. Len(Coming) = 3 - k /\ k \in 1..2
      BY <2>1 DEF Remains, Parts
    <3>2. Len(Coming) = 0
      BY <1>1
    <3> QED
      BY <3>1, <3>2
  <2> QED
    BY <1>2, <2>1 DEF InsideAnswer
<1>5. PICK fmts \in SUBSET Formats : Awaits(fmts, m) /\ Filed(packet, Collected(m, fmts))
  BY <1>0, <1>2, <1>4 DEF SweepFine, BetweenAnswers
<1>6. fmts = {}
  BY <1>1, <1>5, RepliesLength DEF Awaits
<1>7. PICK D : D = Collected(m, {}) /\ D = Before(m + 1)
  <2>1. {} \in SUBSET Formats /\ \A f \in {} : Answers(f, m)
    OBVIOUS
  <2> QED
    BY <1>3, <2>1, CollectedIs
<1>8. PICK q, n : q = packet /\ n = m + 1 /\ Filed(q, D)
  BY <1>5, <1>6, <1>7
<1>9. Filed(q, D)' /\ Before(n)' = D
  BY <1>1, <1>7, <1>8, FiledKept, CollectedKept
<1>10. packet' = q /\ livePid' = n
  BY <1>2, <1>8
<1>11. Filed(packet, Before(livePid))'
  BY <1>9, <1>10 DEF Filed
<1> QED
  BY <1>0, <1>1, <1>11 DEF SweepFine, LiveRunning

\* A frame of the answers to a PID, or the end of the wait for them.
LEMMA TakeFramesFine ==
  ASSUME Up, TakeFrames, faults' = 0
  PROVE  UpFine'
<1>0. /\ VinFine /\ BlocksFine /\ SweepFine /\ livePc = "frames"
      /\ UNCHANGED <<liveVin, livePids>>
  BY DEF Up, UpFine, TakeFrames, LiveGo
<1>1. CASE /\ LiveGo("frames", {"frames"})
           /\ Take /\ AddFrame(Head(obdMsgq)) /\ UNCHANGED livePid
           /\ IF Head(obdMsgq).kind = "first" /\ canUp
              THEN FlowControl(Head(obdMsgq)) ELSE UNCHANGED onBus
  <2>1. livePid \in 0..(PidEnd - 2) /\ (BetweenAnswers \/ InsideAnswer)
    BY <1>0 DEF SweepFine
  <2>2. car' = car /\ (BetweenAnswers \/ InsideAnswer)'
    BY <1>1, <2>1, TakeBetween, TakeInside
  <2>3. livePc' = "frames"
    BY <1>1 DEF LiveGo
  <2>4. SweepFine'
    BY <1>1, <2>1, <2>2, <2>3 DEF SweepFine, LiveRunning
  <2>5. BlocksFine'
    BY <1>0, <2>2, <2>3, RunningKept DEF LiveRunning
  <2>6. VinFine'
    BY <1>0, <2>2, <2>3, VinKept DEF Identified
  <2> QED
    BY <2>4, <2>5, <2>6 DEF UpFine
<1>2. CASE /\ LiveGo("frames", {"sweep"})
           /\ GiveUp /\ livePid' = livePid + 1 /\ UNCHANGED <<mfl, packet>>
  <2>1. car' = car /\ SweepFine' /\ livePc' = "sweep"
    BY <1>2, SweepOn DEF LiveGo
  <2>2. BlocksFine'
    BY <1>0, <2>1, RunningKept DEF LiveRunning
  <2>3. VinFine'
    BY <1>0, <2>1, VinKept DEF Identified
  <2> QED
    BY <2>1, <2>2, <2>3 DEF UpFine
<1> QED
  BY <1>1, <1>2 DEF TakeFrames

\* Where main may be.
LivePcs == {"setup", "vin", "vin2", "vinStd", "vinExt", "vinRest", "pids", "bitmaps",
            "poll", "sweep", "frames"}

\* Never more than two frames are coming.
LEMMA FewComing ==
  ASSUME Up, livePc \in LivePcs
  PROVE  Len(Coming) <= 2
<1>0. VinFine /\ BlocksFine /\ SweepFine
  BY DEF Up, UpFine
<1>1. ASSUME Coming = <<>> PROVE Len(Coming) <= 2
  <2>1. Len(Coming) = 0
    BY <1>1
  <2> QED
    BY <2>1
<1>2. ASSUME NEW fmts \in SUBSET Formats, NEW pid, Awaits(fmts, pid) PROVE Len(Coming) <= 2
  <2>1. Coming = Replies(fmts, pid) /\ \A f \in fmts : Answers(f, pid)
    BY <1>2 DEF Awaits
  <2>2. PICK n \in 0..2 : n = Len(Replies(fmts, pid))
    BY <2>1, RepliesLength
  <2>3. Len(Coming) = n
    BY <2>1, <2>2
  <2> QED
    BY <2>3
<1>3. ASSUME NEW f, NEW pid, NEW m \in 1..(Parts - 1), Remains(Coming, f, pid, m)
      PROVE  Len(Coming) <= 2
  BY <1>3 DEF Remains, Parts
<1>4. ASSUME NEW f \in Formats, Coming = Replies({f}, VIN) PROVE Len(Coming) <= 2
  <2>1. CASE Answers(f, VIN)
    <3>1. {f} \in SUBSET Formats /\ Awaits({f}, VIN)
      BY <1>4, <2>1 DEF Awaits
    <3> QED
      BY <1>2, <3>1
  <2>2. CASE ~Answers(f, VIN)
    <3>1. Coming = <<>>
      BY <1>4, <2>2, OneReply
    <3> QED
      BY <1>1, <3>1
  <2> QED
    BY <2>1, <2>2
<1>5. "std" \in Formats /\ "ext" \in Formats
  BY DEF Formats
<1>6. CASE livePc \in {"setup", "vin", "vin2", "pids", "poll", "sweep"}
  BY <1>0, <1>1, <1>6 DEF VinFine, BlocksFine, SweepFine
<1>7. CASE livePc \in {"vinStd", "vinExt"}
  BY <1>0, <1>4, <1>5, <1>7 DEF VinFine
<1>8. CASE livePc = "vinRest"
  BY <1>0, <1>3, <1>8 DEF VinFine
<1>9. CASE livePc = "bitmaps"
  BY <1>0, <1>2, <1>9 DEF BlocksFine
<1>10. CASE livePc = "frames"
  <2>1. CASE BetweenAnswers
    BY <1>2, <2>1 DEF BetweenAnswers
  <2>2. CASE InsideAnswer
    BY <1>3, <2>2 DEF InsideAnswer
  <2> QED
    BY <1>0, <1>10, <2>1, <2>2 DEF SweepFine
<1> QED
  BY <1>0, <1>6, <1>7, <1>8, <1>9, <1>10 DEF LivePcs

\* A step that moves frames only.
LEMMA AllKept ==
  ASSUME Up, BusType', Coming' = Coming,
         UNCHANGED <<car, livePc, liveVin, livePid, livePids, mfl, packet>>
  PROVE  UpFine'
<1>0. VinFine /\ BlocksFine /\ SweepFine
  BY DEF Up, UpFine
<1>1. \A pid : /\ \A f : Answers(f, pid)' = Answers(f, pid)
               /\ \A fmts : Replies(fmts, pid)' = Replies(fmts, pid)
               /\ IsLong(pid)' = IsLong(pid)
  BY SameCar
<1>2. VinFine'
  <2>1. Answers("std", VIN)' = Answers("std", VIN)
    BY <1>1
  <2>2. Replies({"std"}, VIN)' = Replies({"std"}, VIN) /\ Replies({"ext"}, VIN)' = Replies({"ext"}, VIN)
    BY <1>1
  <2>3. livePc \in {"setup", "vin"} => Coming' = <<>>
    BY <1>0 DEF VinFine
  <2>4. livePc = "vinStd" => Coming' = Replies({"std"}, VIN)'
    BY <1>0, <2>2 DEF VinFine
  <2>5. livePc = "vin2" => Coming' = <<>> /\ ~Answers("std", VIN)'
    BY <1>0, <2>1 DEF VinFine
  <2>6. livePc = "vinExt" => Coming' = Replies({"ext"}, VIN)' /\ ~Answers("std", VIN)'
    BY <1>0, <2>1, <2>2 DEF VinFine
  <2>7. ASSUME livePc = "vinRest"
        PROVE  \E f \in Formats, m \in 1..(Parts - 1) :
                 /\ Answers(f, VIN)' /\ FirstPieces(liveVin', f, VIN, m)
                 /\ Remains(Coming', f, VIN, m)
    <3>1. PICK f \in Formats, m \in 1..(Parts - 1) :
            Answers(f, VIN) /\ FirstPieces(liveVin, f, VIN, m) /\ Remains(Coming, f, VIN, m)
      BY <1>0, <2>7 DEF VinFine
    <3>2. PICK s, v : s = Coming /\ s = Coming' /\ v = liveVin /\ v = liveVin'
      OBVIOUS
    <3>3. Answers(f, VIN)' /\ FirstPieces(v, f, VIN, m) /\ Remains(s, f, VIN, m)
      BY <1>1, <3>1, <3>2
    <3> QED
      BY <3>2, <3>3
  <2>8. ASSUME Identified
        PROVE  \E f \in Formats : Answers(f, VIN)' /\ FirstPieces(liveVin', f, VIN, Parts)
    <3>1. PICK f \in Formats : Answers(f, VIN) /\ FirstPieces(liveVin, f, VIN, Parts)
      BY <1>0, <2>8 DEF VinFine
    <3> QED
      BY <1>1, <3>1
  <2>9. Identified' = Identified /\ livePc' = livePc
    BY DEF Identified
  <2> QED
    BY <2>3, <2>4, <2>5, <2>6, <2>7, <2>8, <2>9 DEF VinFine
<1>3. \A m, fmts : Awaits(fmts, m) => Awaits(fmts, m)'
  BY <1>1 DEF Awaits
<1>4. \A b, fmts : MarkedFor(b, fmts) => MarkedFor(b, fmts)'
  BY MarksKept
<1>5. PICK b : b = livePid /\ livePid' = b
  OBVIOUS
<1>6. BlocksFine'
  <2>1. /\ Early => b = 0 /\ MarkedFor(0, Formats)'
        /\ livePc = "pids" => Coming' = <<>> /\ Block(b) /\ MarkedFor(b, Formats)'
        /\ livePc = "bitmaps" => /\ Block(b) /\ b < PidEnd
                                 /\ \E fmts \in SUBSET Formats : Awaits(fmts, b)' /\ MarkedFor(b, fmts)'
        /\ LiveRunning => MarkedFor(PidEnd, Formats)'
    BY <1>0, <1>3, <1>4, <1>5 DEF BlocksFine, Early
  <2>2. /\ Block(livePid)' <=> Block(b)
        /\ \A fmts : /\ MarkedFor(livePid, fmts)' <=> MarkedFor(b, fmts)'
                     /\ Awaits(fmts, livePid)' <=> Awaits(fmts, b)'
    BY <1>5 DEF Block, MarkedFor, Awaits
  <2>3. LiveRunning' = LiveRunning /\ livePc' = livePc
    BY DEF LiveRunning
  <2> QED
    BY <1>5, <2>1, <2>2, <2>3 DEF BlocksFine, Early
<1>7. SweepFine'
  <2>1. LiveRunning' = LiveRunning /\ livePc' = livePc
    BY DEF LiveRunning
  <2>2. PICK q : q = packet /\ packet' = q
    OBVIOUS
  <2>3. \A p, D : Filed(p, D) => Filed(p, D)'
    BY FiledKept
  <2>4. \A n : Before(n)' = Before(n) /\ \A fmts : Collected(n, fmts)' = Collected(n, fmts)
    BY CollectedKept
  <2>5. ASSUME NEW n, Filed(q, Before(n)) PROVE Filed(q, Before(n))'
    <3>1. PICK D : D = Before(n) /\ Before(n)' = D /\ Filed(q, D)
      BY <2>4, <2>5
    <3>2. Filed(q, D)'
      BY <2>3, <3>1
    <3> QED
      BY <3>1, <3>2 DEF Filed
  <2>6. CASE livePc = "poll"
    <3>1. Coming' = <<>> /\ (packet' = <<>> \/ Filed(q, Before(PidEnd))')
      BY <1>0, <2>2, <2>5, <2>6 DEF SweepFine
    <3> QED
      BY <2>1, <2>2, <2>6, <3>1 DEF SweepFine, LiveRunning, Filed
  <2>7. CASE livePc = "sweep"
    <3>1. Coming' = <<>> /\ Filed(q, Before(b))
      BY <1>0, <1>5, <2>2, <2>7 DEF SweepFine
    <3>2. PICK D : D = Before(b) /\ Before(b)' = D /\ Filed(q, D)
      BY <2>4, <3>1
    <3>3. Filed(q, D)'
      BY <2>3, <3>2
    <3>4. Filed(packet, Before(livePid))'
      BY <1>5, <2>2, <3>2, <3>3 DEF Filed
    <3> QED
      BY <2>1, <2>7, <3>1, <3>4 DEF SweepFine, LiveRunning
  <2>8. CASE livePc = "frames"
    <3>1. b \in 0..(PidEnd - 2) /\ (BetweenAnswers \/ InsideAnswer)
      BY <1>0, <1>5, <2>8 DEF SweepFine
    <3>2. ASSUME BetweenAnswers PROVE BetweenAnswers'
      <4>1. PICK fmts \in SUBSET Formats :
              Awaits(fmts, b) /\ mfl = 0 /\ Filed(q, Collected(b, fmts))
        BY <1>5, <2>2, <3>2 DEF BetweenAnswers
      <4>2. Awaits(fmts, b)' /\ mfl' = 0
        BY <1>3, <4>1
      <4> QED
        BY <1>5, <2>2, <4>1, <4>2, ToBetween
    <3>3. ASSUME InsideAnswer PROVE InsideAnswer'
      <4>1. PICK f \in Formats, m \in 1..(Parts - 1), v \in Seq(Pieces) :
              /\ Answers(f, b) /\ IsLong(b)
              /\ mfl = Parts - m /\ Remains(Coming, f, b, m)
              /\ FirstPieces(v, f, b, m)
              /\ \E p : /\ Filed(p, Collected(b, {f}))
                        /\ packet = Append(p, [len |-> Parts, pieces |-> v])
        BY <1>5, <3>3 DEF InsideAnswer
      <4>2. PICK p : /\ Filed(p, Collected(b, {f}))
                     /\ packet = Append(p, [len |-> Parts, pieces |-> v])
        BY <4>1
      <4>3. mfl' = Parts - m /\ Remains(Coming', f, b, m)
            /\ packet' = Append(p, [len |-> Parts, pieces |-> v])
        BY <4>1, <4>2
      <4> QED
        BY <1>5, <4>1, <4>2, <4>3, ToInside
    <3>4. (BetweenAnswers \/ InsideAnswer)'
      BY <3>1, <3>2, <3>3
    <3> QED
      BY <1>5, <2>1, <2>8, <3>1, <3>4 DEF SweepFine, LiveRunning
  <2>9. CASE livePc \notin {"poll", "sweep", "frames"}
    BY <1>0, <2>1, <2>9 DEF SweepFine, LiveRunning
  <2> QED
    BY <2>6, <2>7, <2>8, <2>9
<1> QED
  BY <1>2, <1>6, <1>7 DEF UpFine

\* Faults are never taken back.
LEMMA FaultsGrow ==
  ASSUME BusType, LiveNext, faults' = 0
  PROVE  faults = 0
<1>1. faults \in Nat /\ onBus \in Seq(BusFrame)
  BY FaultsType DEF BusType
<1>2. Take \/ Arrive(LiveQueue) \/ UNCHANGED carVars => faults' = faults
  BY DEF Take, Arrive, carVars
<1>3. ASSUME GiveUp PROVE faults = 0
  <2>1. Len(onBus) \in Nat /\ faults' = faults + Len(onBus)
    BY <1>1, <1>3, LenProperties DEF GiveUp
  <2> QED
    BY <1>1, <2>1
<1>4. ASSUME NEW fmts, NEW pid, LiveAsk(fmts, pid) PROVE faults = 0
  <2>1. faults' = faults \/ faults' = faults + 1
    BY <1>2, <1>4 DEF LiveAsk, Ask
  <2> QED
    BY <1>1, <2>1
<1>5. CASE SetupGpios \/ PressOrRelease \/ GetPidsDone \/ PollButton \/ PrintPacket
  BY <1>2, <1>5 DEF SetupGpios, PressOrRelease, GetPidsDone, PollButton, PrintPacket
<1>6. CASE AskVin \/ LiveAskBlock \/ LiveAskPid
  BY <1>4, <1>6 DEF AskVin, LiveAskBlock, LiveAskPid
<1>7. CASE GetVin \/ TakeBitmaps \/ TakeFrames
  BY <1>2, <1>3, <1>7 DEF GetVin, TakeFirstOfVin, TakeRestOfVin, TakeBitmaps, TakeFrames
<1>8. CASE LiveReceive
  BY <1>2, <1>8 DEF LiveReceive
<1>9. CASE LiveBusOff
  <2>1. faults' = faults + 1
    BY <1>9 DEF LiveBusOff
  <2> QED
    BY <1>1, <2>1
<1> QED
  BY <1>5, <1>6, <1>7, <1>8, <1>9 DEF LiveNext, LiveMain

\* main stays in its program and starts up once.
LEMMA PcStays ==
  ASSUME LiveNext, livePc \in LivePcs
  PROVE  livePc' \in LivePcs \ {"setup"} \/ (livePc = "setup" /\ livePc' = livePc)
<1> USE DEF LiveGo, LivePcs
<1>1. CASE SetupGpios \/ AskVin \/ LiveAskBlock \/ TakeBitmaps
  BY <1>1 DEF SetupGpios, AskVin, LiveAskBlock, TakeBitmaps
<1>2. CASE GetVin
  BY <1>2 DEF GetVin, TakeFirstOfVin, TakeRestOfVin
<1>3. CASE GetPidsDone \/ PollButton \/ LiveAskPid \/ TakeFrames \/ PrintPacket
  BY <1>3 DEF GetPidsDone, PollButton, LiveAskPid, TakeFrames, PrintPacket
<1>4. CASE LiveReceive \/ LiveBusOff \/ PressOrRelease
  BY <1>4 DEF LiveReceive, LiveBusOff, PressOrRelease, liveVars
<1> QED
  BY <1>1, <1>2, <1>3, <1>4 DEF LiveNext, LiveMain

\* While the controller is down, nothing comes and nothing is reported.
LEMMA DownStep ==
  ASSUME BusType, ~canUp, livePc # "setup", Coming = <<>>, packet = <<>>,
         faults = 0, faults' = 0, LiveNext
  PROVE  ~canUp' /\ Coming' = <<>> /\ packet' = <<>>
<1>1. ~Take
  BY NothingToTake
<1>2. GiveUp => Coming' = <<>>
  BY GiveUpEmpty
<1>3. UNCHANGED carVars => Coming' = <<>>
  BY BusStill
<1>4. \A fmts, pid : LiveAsk(fmts, pid) => Coming' = <<>>
  BY <1>3 DEF LiveAsk
<1>5. ~SetupGpios /\ ~LiveReceive /\ ~LiveBusOff
  BY DEF SetupGpios, LiveGo, LiveReceive, LiveBusOff
<1>6. CASE AskVin \/ LiveAskBlock \/ LiveAskPid
  BY <1>4, <1>6 DEF AskVin, LiveAskBlock, LiveAskPid
<1>7. CASE GetVin \/ TakeBitmaps \/ TakeFrames
  BY <1>1, <1>2, <1>7 DEF GetVin, TakeFirstOfVin, TakeRestOfVin, TakeBitmaps, TakeFrames
<1>8. CASE GetPidsDone \/ PollButton \/ PrintPacket \/ PressOrRelease
  BY <1>3, <1>8 DEF GetPidsDone, PollButton, PrintPacket, PressOrRelease
<1> QED
  BY <1>5, <1>6, <1>7, <1>8 DEF LiveNext, LiveMain

\* main sets the controller up.
LEMMA SetupStep ==
  ASSUME BusType, LiveFine, SetupGpios
  PROVE  LiveFine'
<1>1. /\ livePc = "setup" /\ livePc' = "vin"
      /\ UNCHANGED <<carVars, liveVin, livePid, livePids, packet>>
  BY DEF SetupGpios, LiveGo
<1>2. VinFine /\ BlocksFine /\ SweepFine
  BY <1>1 DEF LiveFine
<1>3. UNCHANGED car /\ Coming = <<>> /\ Coming' = <<>> /\ packet' = <<>>
  BY <1>1, <1>2, BusStill DEF VinFine, SweepFine, LiveRunning
<1>4. VinFine'
  BY <1>1, <1>3 DEF VinFine, Identified
<1>5. BlocksFine' /\ SweepFine'
  BY <1>1, <1>2, <1>3, EarlyKept DEF Early
<1> QED
  BY <1>3, <1>4, <1>5 DEF LiveFine

\* Every step while the controller runs.
LEMMA UpStep ==
  ASSUME Up, livePc \in LivePcs, LiveNext, ~SetupGpios, faults' = 0
  PROVE  canUp' = canUp /\ UpFine'
<1>0. BusType /\ faults = 0
  BY LiveTypes DEF Up
<1>1. CASE AskVin
  BY <1>1, AskVinFine DEF AskVin
<1>2. CASE GetVin
  <2>1. UNCHANGED <<canUp, livePid, livePids, packet>> /\ (TakeFirstOfVin \/ TakeRestOfVin)
    BY <1>2 DEF GetVin
  <2> QED
    BY <2>1, TakeFirstFine, TakeRestFine
<1>3. CASE LiveAskBlock
  BY <1>3, AskBlockFine DEF LiveAskBlock
<1>4. CASE TakeBitmaps
  <2>1. UNCHANGED <<canUp, liveVin, packet>>
    BY <1>4 DEF TakeBitmaps
  <2> QED
    BY <1>4, <2>1, TakeBitmapFine, BlockDoneFine DEF TakeBitmaps
<1>5. CASE GetPidsDone
  BY <1>5, PidsDoneFine DEF GetPidsDone
<1>6. CASE PollButton
  BY <1>6, PollFine DEF PollButton
<1>7. CASE LiveAskPid
  BY <1>7, AskPidFine DEF LiveAskPid
<1>8. CASE TakeFrames
  BY <1>8, TakeFramesFine DEF TakeFrames
<1>9. CASE PrintPacket
  BY <1>9, PrintFine DEF PrintPacket
<1>10. CASE LiveReceive
  <2>1. /\ Arrive(LiveQueue)
        /\ UNCHANGED <<livePc, liveVin, livePid, livePids, mfl, packet, canUp>>
    BY <1>10 DEF LiveReceive, liveVars
  <2>2. Len(Coming) <= 2
    BY FewComing
  <2>3. LiveQueue \in Nat /\ LiveQueue >= 2
    BY LiveDataAssumption DEF Up, Distinguishable
  <2>4. BusType' /\ UNCHANGED car /\ Coming' = Coming
    BY <1>0, <2>1, <2>2, <2>3, ArriveFits
  <2> QED
    BY <2>1, <2>4, AllKept
<1>11. CASE LiveBusOff
  <2>1. faults' = faults + 1
    BY <1>11 DEF LiveBusOff
  <2> QED
    BY <1>0, <2>1
<1>12. CASE PressOrRelease
  <2>1. UNCHANGED <<carVars, livePc, liveVin, livePid, livePids, mfl, packet, canUp>>
    BY <1>12 DEF PressOrRelease
  <2>2. BusType' /\ UNCHANGED car /\ Coming' = Coming
    BY <1>0, <2>1, BusStill
  <2> QED
    BY <2>1, <2>2, AllKept
<1> QED
  BY <1>1, <1>2, <1>3, <1>4, <1>5, <1>6, <1>7, <1>8, <1>9, <1>10, <1>11, <1>12
  DEF LiveNext, LiveMain

\* The invariant of car_live_data.
LiveInv == LiveLate /\ livePc \in LivePcs /\ (faults = 0 => LiveFine)

\* Every step keeps it.
LEMMA LiveInvStep ==
  ASSUME LiveInv, Distinguishable, LiveNext
  PROVE  LiveInv'
<1>0. LiveLate /\ BusType /\ livePc \in LivePcs /\ LiveQueue \in Nat
  BY LiveTypes, LiveDataAssumption DEF LiveInv
<1>1. LiveLate'
  BY <1>0, LiveLateStep
<1>2. livePc' \in LivePcs \ {"setup"} \/ (livePc = "setup" /\ livePc' = livePc)
  BY <1>0, PcStays
<1>3. ASSUME faults' = 0 PROVE LiveFine'
  <2>1. faults = 0 /\ LiveFine
    BY <1>0, <1>3, FaultsGrow DEF LiveInv
  <2>2. CASE SetupGpios
    BY <1>0, <2>1, <2>2, SetupStep
  <2>3. CASE canUp /\ ~SetupGpios
    <3>1. Up
      BY <1>0, <2>1, <2>3 DEF Up, UpFine, LiveFine
    <3>2. canUp' /\ UpFine'
      BY <1>0, <1>3, <2>3, <3>1, UpStep
    <3> QED
      BY <3>2 DEF UpFine, LiveFine
  <2>4. CASE ~canUp /\ ~SetupGpios
    <3>1. livePc # "setup"
      <4>1. SUFFICES ASSUME livePc = "setup" PROVE FALSE
        OBVIOUS
      <4>2. ~LiveReceive /\ ~LiveBusOff /\ ~PressOrRelease
        BY <2>4, <4>1 DEF LiveReceive, LiveBusOff, PressOrRelease
      <4>3. ~AskVin /\ ~GetVin /\ ~LiveAskBlock /\ ~TakeBitmaps /\ ~GetPidsDone
        BY <4>1 DEF AskVin, GetVin, TakeFirstOfVin, TakeRestOfVin, LiveAskBlock, TakeBitmaps,
                    GetPidsDone, LiveGo
      <4>4. ~PollButton /\ ~LiveAskPid /\ ~TakeFrames /\ ~PrintPacket
        BY <4>1 DEF PollButton, LiveAskPid, TakeFrames, PrintPacket, LiveGo
      <4> QED
        BY <2>4, <4>2, <4>3, <4>4 DEF LiveNext, LiveMain
    <3>2. Coming = <<>> /\ packet = <<>>
      BY <2>1, <2>4 DEF LiveFine
    <3>3. ~canUp' /\ Coming' = <<>> /\ packet' = <<>>
      BY <1>0, <1>3, <2>1, <2>4, <3>1, <3>2, DownStep
    <3>4. livePc' # "setup"
      BY <1>2, <3>1
    <3> QED
      BY <3>3, <3>4 DEF LiveFine
  <2> QED
    BY <2>2, <2>3, <2>4
<1> QED
  BY <1>0, <1>1, <1>2, <1>3 DEF LiveInv

\* A step of nobody.
LEMMA LiveInvStill ==
  ASSUME LiveInv, Distinguishable, UNCHANGED <<carVars, liveVars>>
  PROVE  LiveInv'
<1>0. LiveLate /\ BusType /\ livePc \in LivePcs
  BY LiveTypes DEF LiveInv
<1>1. UNCHANGED <<car, faults, livePc, canUp, liveVin, livePid, livePids, mfl, packet>>
  BY DEF carVars, liveVars
<1>2. BusType' /\ Coming' = Coming
  BY <1>0, StillLate
<1>3. LiveLate'
  BY <1>0, LiveStill
<1>4. ASSUME faults' = 0 PROVE LiveFine'
  <2>1. faults = 0 /\ LiveFine
    BY <1>1, <1>4 DEF LiveInv
  <2>2. CASE canUp
    <3>1. Up
      BY <1>0, <2>1, <2>2 DEF Up, UpFine, LiveFine
    <3>2. UpFine'
      BY <1>1, <1>2, <3>1, AllKept
    <3> QED
      BY <1>1, <2>2, <3>2 DEF UpFine, LiveFine
  <2>3. CASE ~canUp /\ livePc # "setup"
    BY <1>1, <1>2, <2>1, <2>3 DEF LiveFine
  <2>4. CASE ~canUp /\ livePc = "setup"
    <3>1. /\ Coming = <<>> /\ packet = <<>> /\ VinFine /\ BlocksFine /\ SweepFine
      BY <2>1, <2>4 DEF LiveFine
    <3>2. VinFine'
      BY <1>1, <1>2, <2>4, <3>1 DEF VinFine, Identified
    <3>3. BlocksFine' /\ SweepFine'
      BY <1>1, <2>4, <3>1, EarlyKept DEF Early
    <3> QED
      BY <1>1, <1>2, <3>1, <3>2, <3>3 DEF LiveFine
  <2> QED
    BY <2>2, <2>3, <2>4
<1> QED
  BY <1>0, <1>1, <1>3, <1>4 DEF LiveInv

\* car_live_data starts with nothing on its way.
LEMMA LiveStarts ==
  ASSUME LiveInit
  PROVE  LiveInv
<1>1. /\ car \in Cars /\ onBus = <<>> /\ obdMsgq = <<>> /\ faults = 0 /\ stale = 0
      /\ livePc = "setup" /\ livePid = 0 /\ liveVin = <<>> /\ packet = <<>>
      /\ livePids = [p \in 0..PidEnd |-> IF p = 0 THEN Formats ELSE {}]
  BY DEF LiveInit, LiveIdle, CarInit
<1>2. <<>> \in Seq(BusFrame) /\ <<>> \in Seq(Pieces) /\ Len(<<>>) = 0 /\ <<>> \o <<>> = <<>>
  BY EmptySeq, ConcatEmptySeq
<1>3. BusType /\ Coming = <<>>
  BY <1>1, <1>2, BlockType DEF BusType, Coming
<1>4. Quiet
  BY <1>1, <1>2, <1>3 DEF Quiet, Settled
<1>5. LiveLate
  BY <1>1, <1>2, <1>3, <1>4, QuietLate DEF LiveLate
<1>6. MarkedFor(0, Formats)
  <2>1. 0 \in 0..PidEnd /\ \A p \in 1..PidEnd : p \in 0..PidEnd /\ p # 0 /\ ~(p <= 0)
    BY BlockType
  <2> QED
    BY <1>1, <2>1 DEF MarkedFor
<1>7. LiveFine
  BY <1>1, <1>3, <1>6 DEF LiveFine, VinFine, BlocksFine, SweepFine, Identified, LiveRunning
<1> QED
  BY <1>1, <1>5, <1>7 DEF LiveInv, LivePcs

\* What the invariant says of the results of the program.
LEMMA LiveInvExact ==
  ASSUME LiveInv, Distinguishable
  PROVE  LiveExact
<1>0. /\ BusType /\ liveVin \in Seq(Pieces) /\ livePids \in [0..PidEnd -> SUBSET Formats]
      /\ VIN \in Int
  BY LiveTypes DEF LiveInv, VIN
<1>1. ASSUME LiveRunning, canUp, faults = 0
      PROVE  /\ liveVin \in {Whole(fmt, VIN) : fmt \in {f \in Formats : Answers(f, VIN)}}
             /\ \A p \in 1..PidEnd : livePids[p] = {f \in Formats : p \in car[f]}
  <2>1. VinFine /\ BlocksFine /\ Identified
    BY <1>1 DEF LiveInv, LiveFine, LiveRunning, Identified
  <2>2. PICK f \in Formats : Answers(f, VIN) /\ FirstPieces(liveVin, f, VIN, Parts)
    BY <2>1 DEF VinFine
  <2>3. liveVin = Whole(f, VIN)
    <3>1. IsLong(VIN)
      BY DEF IsLong
    <3>2. EntryOf(<<f, VIN>>) = [len |-> Parts, pieces |-> liveVin]
      BY <1>0, <2>2, <3>1, EntryType
    <3>3. EntryOf(<<f, VIN>>).pieces = Whole(f, VIN)
      BY DEF EntryOf
    <3>4. EntryOf(<<f, VIN>>).pieces = liveVin
      BY <3>2
    <3> QED
      BY <3>3, <3>4
  <2>4. MarkedFor(PidEnd, Formats)
    BY <1>1, <2>1 DEF BlocksFine
  <2>5. ASSUME NEW p \in 1..PidEnd PROVE livePids[p] = {f2 \in Formats : p \in car[f2]}
    <3>1. p \in 0..PidEnd /\ p <= PidEnd
      BY BlockType
    <3>2. livePids[p] \in SUBSET Formats
      BY <1>0, <3>1
    <3>3. \A g \in Formats : g \in livePids[p] <=> p \in car[g]
      BY <2>4, <3>1 DEF MarkedFor
    <3> QED
      BY <3>2, <3>3
  <2> QED
    BY <2>2, <2>3, <2>5
<1>2. ASSUME livePc = "poll", faults = 0, packet # <<>>
      PROVE  /\ \A i \in DOMAIN packet : \E fmt \in Formats, pid \in 0..PidEnd :
                  packet[i] = [len |-> Len(Whole(fmt, pid)), pieces |-> Whole(fmt, pid)]
             /\ \A i, j \in DOMAIN packet :
                  i < j => /\ packet[i].pieces[1][2] <= packet[j].pieces[1][2]
                           /\ packet[i] # packet[j]
             /\ Len(packet) = Cardinality({r \in Formats \X (0..(PidEnd - 2)) : Answers(r[1], r[2])})
  <2>1. SweepFine
    BY <1>2 DEF LiveInv, LiveFine
  <2>2. PICK D : D = Before(PidEnd) /\ Filed(packet, D)
    BY <1>2, <2>1 DEF SweepFine
  <2>3. DOMAIN packet = 1..Len(packet) /\ Len(packet) \in Nat
    BY <2>2, LenProperties DEF Filed
  <2>4. ASSUME NEW i \in 1..Len(packet)
        PROVE  \E fmt \in Formats, pid \in 0..PidEnd :
                 packet[i] = [len |-> Len(Whole(fmt, pid)), pieces |-> Whole(fmt, pid)]
    <3>1. PICK r \in D : packet[i] = EntryOf(r)
      BY <2>2 DEF Filed
    <3>2. r \in Formats \X (0..(PidEnd - 2))
      BY <2>2, <3>1 DEF Before
    <3>3. PICK fmt \in Formats, pid \in 0..PidEnd : fmt = r[1] /\ pid = r[2]
      BY <3>2, BlockType
    <3> QED
      BY <3>1, <3>3 DEF EntryOf
  <2>5. D = {r \in Formats \X (0..(PidEnd - 2)) : Answers(r[1], r[2])}
    <3>1. \A r \in Formats \X (0..(PidEnd - 2)) : r[2] < PidEnd
      BY BlockType
    <3> QED
      BY <2>2, <3>1 DEF Before
  <2>6. Len(packet) = Cardinality(D)
    BY <2>2 DEF Filed
  <2>7. \A i, j \in 1..Len(packet) :
          i < j => packet[i].pieces[1][2] <= packet[j].pieces[1][2] /\ packet[i] # packet[j]
    BY <2>2 DEF Filed
  <2> QED
    BY <2>3, <2>4, <2>5, <2>6, <2>7
<1> QED
  BY <1>1, <1>2 DEF LiveExact, LiveIdentified, PacketFramed

\* Without faults car_live_data finds out the VIN and exactly the PIDs the car supports,
\* and a printed packet holds each of its answers once, whole and in order, whatever the
\* car, the number of PIDs and the size of the queue, as long as the answers can be told
\* from each other.
THEOREM Exact ==
  ASSUME Distinguishable
  PROVE  MCSpec => []LiveExact
<1> DEFINE Inv == /\ program = "car_live_data" => LiveInv
                  /\ program # "car_live_data" => livePc = "off"
<1>1. MCInit => Inv
  BY LiveStarts DEF MCInit, LiveOff
<1>2. Inv /\ [MCNext]_<<program, carVars, canPrograms, mcVars, gnssVars, nmeaVars,
                        mapVars, statVars>> => Inv'
  <2> SUFFICES ASSUME Inv,
                      [MCNext]_<<program, carVars, canPrograms, mcVars, gnssVars, nmeaVars,
                                 mapVars, statVars>>
               PROVE  Inv'
    OBVIOUS
  <2>0. program' = program
    BY DEF MCNext
  <2>1. CASE program = "car_live_data"
    <3>1. LiveInv /\ (LiveNext \/ UNCHANGED <<carVars, liveVars>>)
      BY <2>1 DEF MCNext, canPrograms
    <3> QED
      BY <2>0, <2>1, <3>1, LiveInvStep, LiveInvStill
  <2>2. CASE program # "car_live_data"
    <3>1. UNCHANGED livePc
      BY <2>2 DEF MCNext, canPrograms, liveVars
    <3> QED
      BY <2>0, <2>2, <3>1
  <2> QED
    BY <2>1, <2>2
<1>3. Inv => LiveExact
  BY LiveInvExact DEF LiveExact, LiveIdentified, PacketFramed, LiveRunning
<1> QED
  BY <1>1, <1>2, <1>3, PTL DEF MCSpec

-----------------------------------------------------------------------------
(* The NMEA frames of the prototype and of the GNSS bench program. *)

\* A frame that is queued last, and one that is taken first.
LEMMA QueuedLast ==
  ASSUME NEW q \in Seq(Frames), NEW f \in Frames, IsInjective(q), f \notin Range(q)
  PROVE  /\ Append(q, f) \in Seq(Frames) /\ Len(Append(q, f)) = Len(q) + 1
         /\ Range(Append(q, f)) = Range(q) \cup {f} /\ IsInjective(Append(q, f))
<1> DEFINE r == Append(q, f)
<1>1. /\ r \in Seq(Frames) /\ Len(r) = Len(q) + 1 /\ Len(q) \in Nat
      /\ \A i \in 1..Len(q) : r[i] = q[i]
      /\ r[Len(q) + 1] = f
      /\ DOMAIN q = 1..Len(q) /\ DOMAIN r = 1..(Len(q) + 1)
  BY AppendProperties, LenProperties
<1> HIDE DEF r
<1>2. DOMAIN r = DOMAIN q \cup {Len(q) + 1}
  BY <1>1
<1>3. Range(r) = Range(q) \cup {f}
  BY <1>1, <1>2 DEF Range
<1>4. ASSUME NEW i \in DOMAIN r, NEW j \in DOMAIN r, r[i] = r[j] PROVE i = j
  <2>1. CASE i \in DOMAIN q /\ j \in DOMAIN q
    BY <1>1, <1>4, <2>1 DEF IsInjective
  <2>2. CASE i = Len(q) + 1 /\ j \in DOMAIN q
    BY <1>1, <1>4, <2>2 DEF Range
  <2>3. CASE j = Len(q) + 1 /\ i \in DOMAIN q
    BY <1>1, <1>4, <2>3 DEF Range
  <2> QED
    BY <1>2, <2>1, <2>2, <2>3
<1> QED
  BY <1>1, <1>3, <1>4 DEF r, IsInjective

LEMMA TakenFirst ==
  ASSUME NEW q \in Seq(Frames), q # <<>>, IsInjective(q)
  PROVE  /\ Head(q) \in Frames /\ Tail(q) \in Seq(Frames) /\ Len(Tail(q)) <= Len(q)
         /\ Range(q) = Range(Tail(q)) \cup {Head(q)} /\ Head(q) \notin Range(Tail(q))
         /\ IsInjective(Tail(q))
<1> DEFINE t == Tail(q)
<1>1. /\ t \in Seq(Frames) /\ Len(t) = Len(q) - 1 /\ Len(q) \in Nat /\ Len(q) # 0
      /\ \A i \in 1..Len(t) : t[i] = q[i + 1]
      /\ DOMAIN q = 1..Len(q) /\ DOMAIN t = 1..Len(t)
      /\ Head(q) = q[1] /\ q[1] \in Frames
  BY HeadTailProperties, LenProperties, EmptySeq
<1> HIDE DEF t
<1>2. \A i \in DOMAIN t : i + 1 \in DOMAIN q /\ t[i] = q[i + 1] /\ i + 1 # 1
  BY <1>1
<1>3. \A j \in DOMAIN q : j = 1 \/ (j - 1 \in DOMAIN t /\ t[j - 1] = q[j])
  BY <1>1
<1>4. 1 \in DOMAIN q
  BY <1>1
<1>5. Range(q) = Range(t) \cup {q[1]}
  BY <1>2, <1>3, <1>4 DEF Range
<1>6. q[1] \notin Range(t)
  BY <1>2, <1>4 DEF Range, IsInjective
<1>7. ASSUME NEW i \in DOMAIN t, NEW j \in DOMAIN t, t[i] = t[j] PROVE i = j
  <2>1. i + 1 = j + 1
    BY <1>2, <1>7 DEF IsInjective
  <2> QED
    BY <1>1, <2>1
<1> QED
  BY <1>1, <1>5, <1>6, <1>7 DEF t, IsInjective

Owning == NmeaTypeOK /\ FramesOwned

\* Each step moves one frame from one place to another, if main takes one only with
\* empty hands.
LEMMA OwningStep ==
  ASSUME Owning,
         \/ NmeaMalloc \/ NmeaQueued \/ NmeaNotQueued
         \/ mainFrame = NoFrame /\ NmeaGet
         \/ NmeaFree
  PROVE  Owning'
<1>1. /\ nmeaPtrs \in Seq(Frames) /\ Len(nmeaPtrs) \in Nat /\ IsInjective(nmeaPtrs)
      /\ NoFrame \notin Frames /\ NmeaQueue \in Nat
  BY LenProperties, NmeaAssumption DEF Owning, NmeaTypeOK, FramesOwned, NoFrame, Frames
<1> USE DEF Owning, NmeaTypeOK, FramesOwned
<1>2. CASE NmeaMalloc
  BY <1>1, <1>2 DEF NmeaMalloc
<1>3. CASE NmeaQueued
  <2>1. handlerFrame \in Frames /\ handlerFrame \notin Range(nmeaPtrs)
    BY <1>3 DEF NmeaQueued
  <2>2. /\ nmeaPtrs' \in Seq(Frames) /\ Len(nmeaPtrs') = Len(nmeaPtrs) + 1
        /\ Range(nmeaPtrs') = Range(nmeaPtrs) \cup {handlerFrame} /\ IsInjective(nmeaPtrs')
    BY <1>1, <1>3, <2>1, QueuedLast DEF NmeaQueued
  <2>3. Len(nmeaPtrs') <= NmeaQueue
    BY <1>1, <1>3, <2>2 DEF NmeaQueued
  <2> QED
    BY <1>1, <1>3, <2>1, <2>2, <2>3 DEF NmeaQueued
<1>4. CASE NmeaNotQueued
  BY <1>1, <1>4 DEF NmeaNotQueued
<1>5. CASE mainFrame = NoFrame /\ NmeaGet
  <2>1. /\ mainFrame' \in Frames /\ nmeaPtrs' \in Seq(Frames) /\ Len(nmeaPtrs') <= Len(nmeaPtrs)
        /\ Range(nmeaPtrs) = Range(nmeaPtrs') \cup {mainFrame'} /\ mainFrame' \notin Range(nmeaPtrs')
        /\ IsInjective(nmeaPtrs')
    BY <1>1, <1>5, TakenFirst DEF NmeaGet
  <2>2. Len(nmeaPtrs') <= NmeaQueue
    BY <1>1, <2>1, LenProperties
  <2> QED
    BY <1>1, <1>5, <2>1, <2>2 DEF NmeaGet
<1>6. CASE NmeaFree
  BY <1>1, <1>6 DEF NmeaFree
<1> QED
  BY <1>2, <1>3, <1>4, <1>5, <1>6

LEMMA OwningNothing ==
  ASSUME nmeaMem = {}, nmeaPtrs = <<>>, handlerFrame = NoFrame, mainFrame = NoFrame
  PROVE  Owning
<1>1. <<>> \in Seq(Frames) /\ Len(<<>>) = 0 /\ NmeaQueue \in Nat /\ DOMAIN <<>> = {}
  BY EmptySeq, NmeaAssumption
<1> QED
  BY <1>1 DEF Owning, NmeaTypeOK, FramesOwned, Range, IsInjective

\* Main only has a frame in its hand while it prints it.
FrameInv == Owning /\ (mainFrame # NoFrame => gnssPc = "print")

LEMMA FramesStill == FrameInv /\ UNCHANGED <<nmeaVars, gnssPc>> => FrameInv'
  BY DEF FrameInv, Owning, NmeaTypeOK, FramesOwned, nmeaVars

LEMMA ProtoFrames ==
  ASSUME FrameInv, ProtoNext, UNCHANGED gnssPc
  PROVE  FrameInv'
<1>1. CASE UNCHANGED nmeaVars
  BY <1>1, FramesStill
<1>2. CASE NmeaMalloc \/ NmeaQueued \/ NmeaNotQueued
  <2>1. mainFrame' = mainFrame
    BY <1>2 DEF NmeaMalloc, NmeaQueued, NmeaNotQueued
  <2> QED
    BY <1>2, <2>1, OwningStep DEF FrameInv
<1>3. ProtoMain => UNCHANGED nmeaVars
  BY DEF ProtoMain, ProtoCanInit, ProtoModemInit, ProtoGnssStart, AskBlock, TakeBitmap,
         DiscoveryDone, AskPid, TakeAnswer, SweepEnd, gnssProtoVars
<1>4. ProtoReceive \/ ProtoLteEvent => UNCHANGED nmeaVars
  BY DEF ProtoReceive, ProtoLteEvent, gnssProtoVars
<1>5. ProtoGnssEvent \/ ProtoNmeaDone =>
        UNCHANGED nmeaVars \/ NmeaMalloc \/ NmeaQueued \/ NmeaNotQueued
  BY DEF ProtoGnssEvent, ProtoNmeaDone
<1> QED
  BY <1>1, <1>2, <1>3, <1>4, <1>5 DEF ProtoNext

LEMMA GnssFrames ==
  ASSUME FrameInv, GnssNext
  PROVE  FrameInv'
<1>1. CASE UNCHANGED <<nmeaVars, gnssPc>>
  BY <1>1, FramesStill
<1>2. CASE InitModem \/ FactoryAlmanac \/ StartGnss \/ MainPoll
  <2>1. UNCHANGED nmeaVars /\ gnssPc # "print"
    BY <1>2 DEF InitModem, FactoryAlmanac, StartGnss, MainPoll, SampleGo, outputVars
  <2> QED
    BY <2>1 DEF FrameInv, Owning, NmeaTypeOK, FramesOwned, nmeaVars
<1>3. CASE MainNmea
  <2>1. CASE SampleGo("nmea", {"print"}) /\ NmeaGet
    <3>1. mainFrame = NoFrame /\ gnssPc' = "print"
      BY <2>1 DEF FrameInv, SampleGo
    <3> QED
      BY <2>1, <3>1, OwningStep DEF FrameInv
  <2>2. CASE NmeaFree
    BY <2>2, OwningStep DEF FrameInv, NmeaFree
  <2> QED
    BY <1>3, <2>1, <2>2 DEF MainNmea
<1>4. CASE GnssNmea \/ GnssNmeaDone
  <2>1. /\ NmeaMalloc \/ NmeaQueued \/ NmeaNotQueued
        /\ UNCHANGED gnssPc
    BY <1>4 DEF GnssNmea, GnssNmeaDone, sampleVars
  <2>2. mainFrame' = mainFrame
    BY <2>1 DEF NmeaMalloc, NmeaQueued, NmeaNotQueued
  <2> QED
    BY <2>1, <2>2, OwningStep DEF FrameInv
<1>5. CASE GnssReboot
  <2>1. <<>> \in Seq(Frames) /\ Len(<<>>) = 0 /\ NmeaQueue \in Nat /\ DOMAIN <<>> = {}
    BY EmptySeq, NmeaAssumption
  <2> QED
    BY <1>5, <2>1 DEF GnssReboot, FrameInv, Owning, NmeaTypeOK, FramesOwned, Range, IsInjective
<1>6. GnssWork \/ TtffWork => UNCHANGED <<nmeaVars, gnssPc>>
  BY DEF GnssWork, TtffWork, GotFixWork, Prepare, PrepareAssistance, StartTest, sampleVars, outputVars
<1>7. PvtEvent \/ FixEvent \/ AgpsEvent \/ (\E w \in timers : Timer(w)) => UNCHANGED <<nmeaVars, gnssPc>>
  BY DEF PvtEvent, FixEvent, AgpsEvent, Timer, sampleVars, outputVars
<1> QED
  BY <1>1, <1>2, <1>3, <1>4, <1>5, <1>6, <1>7 DEF GnssNext, GnssMain, GnssEvents, sampleVars

LEMMA FramesAtFirst == MCInit => FrameInv
  BY OwningNothing DEF MCInit, NoFrames, FrameInv

LEMMA FramesStep ==
  FrameInv /\ [MCNext]_<<program, carVars, canPrograms, mcVars, gnssVars, nmeaVars, mapVars, statVars>>
    => FrameInv'
<1> SUFFICES ASSUME FrameInv,
                    [MCNext]_<<program, carVars, canPrograms, mcVars, gnssVars, nmeaVars,
                               mapVars, statVars>>
             PROVE  FrameInv'
  OBVIOUS
<1>1. \/ ProtoNext /\ UNCHANGED gnssVars
      \/ GnssNext
      \/ UNCHANGED <<gnssVars, nmeaVars>>
  BY DEF MCNext, canPrograms
<1>2. UNCHANGED gnssVars => UNCHANGED gnssPc
  BY DEF gnssVars, sampleVars
<1> QED
  BY <1>1, <1>2, FramesStill, ProtoFrames, GnssFrames

\* Every allocated frame is in one place, for every size of the heap and the queue:
\* none is leaked, freed twice or used after it was freed, whichever program runs and
\* wherever the handler interrupts main.
THEOREM Owned == MCSpec => []FramesOwned
<1>1. FrameInv => FramesOwned
  BY DEF FrameInv, Owning
<1> QED
  BY <1>1, FramesAtFirst, FramesStep, PTL DEF MCSpec

-----------------------------------------------------------------------------
(* The types of all the programs and screens. *)

\* What the types rest on: the blocks of PIDs end with PidEnd, the build that is off is
\* one of the builds, what is left of a need without its ephemerides may be asked for as
\* well, and there is a car on the map, but not infinitely many.
Sensible ==
  /\ Block(PidEnd)
  /\ BuildOf("none", FALSE, FALSE, FALSE) \in Builds
  /\ Everything \in Needs
  /\ \A need \in Needs : [need EXCEPT !.ephe = FALSE] \in Needs \cup {Nothing}
  /\ IsFiniteSet(MapCars) /\ MapCars # {}

\* Blocks follow each other without a gap.
LEMMA BlockFits ==
  ASSUME NEW b \in Int, NEW e \in Int, Block(b), Block(e), b < e
  PROVE  b \in Nat /\ b + PidBlock <= e
<1>1. PICK n \in Nat : b = n * PidBlock
  BY DEF Block, Blocks
<1>2. PICK m \in Nat : e = m * PidBlock
  BY DEF Block, Blocks
<1>3. PidBlock \in Nat /\ PidBlock > 0 /\ b \in Nat
  BY <1>1, BlockType
<1>4. n + 1 <= m
  <2>1. SUFFICES ASSUME m <= n PROVE FALSE
    BY <1>1, <1>2
  <2>2. m * PidBlock <= n * PidBlock
    BY <1>3, <2>1
  <2> QED
    BY <1>1, <1>2, <2>2
<1>5. (n + 1) * PidBlock <= m * PidBlock
  BY <1>3, <1>4
<1>6. (n + 1) * PidBlock = n * PidBlock + PidBlock
  BY <1>3
<1> QED
  BY <1>1, <1>2, <1>3, <1>5, <1>6

\* The prototype waits for an answer to one of its PIDs.
ProtoTyped ==
  /\ LagInv /\ ShiftInv /\ ProtoTypeOK
  /\ protoPc \in {"bitmap", "answer"} => protoPid < PidEnd

LEMMA ProtoTypedStep ==
  ASSUME ProtoTyped, Block(PidEnd), ProtoNext
  PROVE  ProtoTyped'
<1>0. /\ BusType /\ ProtoTypeOK /\ protoPid \in Int /\ (Discovering => Block(protoPid))
      /\ PidBlock \in Nat /\ PidBlock > 0 /\ PidEnd \in Nat
  BY BlockType DEF ProtoTyped, LagInv, ShiftInv
<1>1. LagInv' /\ ShiftInv'
  <2>1. PidType
    BY DEF ProtoTyped, ShiftInv, PidType
  <2> QED
    BY <2>1, LagStep, ShiftStep DEF ProtoTyped
<1> SUFFICES ProtoTypeOK' /\ (protoPc' \in {"bitmap", "answer"} => protoPid' < PidEnd)
  BY <1>1 DEF ProtoTyped
<1>2. CASE ProtoCanInit \/ ProtoModemInit \/ ProtoGnssStart
  BY <1>0, <1>2 DEF ProtoCanInit, ProtoModemInit, ProtoGnssStart, ProtoGo, ProtoTypeOK, gnssProtoVars
<1>3. CASE AskBlock
  BY <1>0, <1>3 DEF AskBlock, ProtoGo, ProtoTypeOK, gnssProtoVars
<1>4. CASE TakeBitmap
  <2>1. /\ protoPc = "bitmap" /\ protoPid < PidEnd /\ Block(protoPid)
        /\ protoPc' = "discover" /\ protoPid' = protoPid + PidBlock
        /\ UNCHANGED <<pvtSem, lteSems>>
    BY <1>0, <1>4 DEF ProtoTyped, TakeBitmap, ProtoGo, Discovering, gnssProtoVars
  <2>2. protoPid \in Nat /\ protoPid + PidBlock <= PidEnd
    BY <1>0, <2>1, BlockFits
  <2>3. protoSupported' \subseteq 0..PidEnd
    <3>1. CASE Take /\ protoSupported' = protoSupported \cup Marks(Head(obdMsgq), protoPid)
      <4>1. Head(obdMsgq) \in BusFrame
        BY <1>0, <3>1, HeadTailProperties DEF BusType, Take
      <4>2. Head(obdMsgq).pid \in Int
        BY <4>1 DEF BusFrame
      <4>3. ASSUME NEW q \in Marks(Head(obdMsgq), protoPid) PROVE q \in 0..PidEnd
        <5>1. PICK p \in (Head(obdMsgq).pid + 1)..(Head(obdMsgq).pid + PidBlock) :
                q = protoPid + (p - Head(obdMsgq).pid)
          BY DEF Marks, Announced
        <5> QED
          BY <1>0, <2>2, <4>2, <5>1
      <4> QED
        BY <1>0, <3>1, <4>3 DEF ProtoTypeOK
    <3>2. CASE UNCHANGED protoSupported
      BY <1>0, <3>2 DEF ProtoTypeOK
    <3> QED
      BY <1>4, <3>1, <3>2 DEF TakeBitmap
  <2> QED
    BY <1>0, <2>1, <2>2, <2>3 DEF ProtoTypeOK
<1>5. CASE DiscoveryDone \/ SweepEnd
  <2>1. /\ protoPc' = "sweep" /\ protoPid' = 0
        /\ UNCHANGED <<protoSupported, pvtSem, lteSems>>
    BY <1>5 DEF DiscoveryDone, SweepEnd, ProtoGo, gnssProtoVars
  <2> QED
    BY <1>0, <2>1 DEF ProtoTypeOK
<1>6. CASE AskPid
  BY <1>0, <1>6 DEF AskPid, SweepNext, ProtoGo, ProtoTypeOK, gnssProtoVars
<1>7. CASE TakeAnswer
  BY <1>0, <1>7 DEF ProtoTyped, TakeAnswer, ProtoGo, ProtoTypeOK, gnssProtoVars
<1>8. CASE ProtoReceive
  BY <1>0, <1>8 DEF ProtoTyped, ProtoReceive, protoVars, ProtoTypeOK
<1>9. CASE ProtoGnssEvent
  <2>1. UNCHANGED <<protoPc, protoPid, protoSupported, lteSems>>
    BY <1>9 DEF ProtoGnssEvent
  <2>2. pvtSem' \in 0..1
    BY <1>0, <1>9 DEF ProtoGnssEvent, ProtoTypeOK
  <2> QED
    BY <1>0, <2>1, <2>2 DEF ProtoTyped, ProtoTypeOK
<1>10. CASE ProtoLteEvent
  BY <1>0, <1>10 DEF ProtoTyped, ProtoLteEvent, gnssProtoVars, ProtoTypeOK
<1>11. CASE ProtoNmeaDone
  BY <1>0, <1>11 DEF ProtoTyped, ProtoNmeaDone, protoVars, ProtoTypeOK
<1> QED
  BY <1>2, <1>3, <1>4, <1>5, <1>6, <1>7, <1>8, <1>9, <1>10, <1>11 DEF ProtoNext, ProtoMain

\* So does car_live_data.
LiveTyped ==
  /\ LiveLate /\ LiveTypeOK /\ livePc \in LivePcs
  /\ livePc \in {"bitmaps", "frames"} => livePid < PidEnd

LEMMA LiveTypedStep ==
  ASSUME LiveTyped, LiveNext
  PROVE  LiveTyped'
<1>0. /\ LiveTypeOK /\ livePc \in LivePcs /\ livePid \in Nat /\ mfl \in 0..2
      /\ canUp \in BOOLEAN /\ button \in BOOLEAN
      /\ PidBlock \in Nat /\ PidBlock > 0 /\ PidEnd \in Nat
  BY BlockType DEF LiveTyped, LiveTypeOK, LiveLate, Parts
<1>1. LiveLate' /\ livePc' \in LivePcs
  BY LiveDataAssumption, LiveLateStep, PcStays DEF LiveTyped
<1>2. livePids' \in [0..PidEnd -> SUBSET Formats]
  BY <1>1 DEF LiveLate
<1> SUFFICES /\ canUp' \in BOOLEAN /\ button' \in BOOLEAN /\ mfl' \in 0..2
             /\ livePid' \in 0..(PidEnd + PidBlock)
             /\ livePc' \in {"bitmaps", "frames"} => livePid' < PidEnd
  BY <1>1, <1>2 DEF LiveTyped, LiveTypeOK, LivePcs, Parts
<1>3. livePid \in 0..(PidEnd + PidBlock)
  BY DEF LiveTyped, LiveTypeOK
<1>4. CASE SetupGpios \/ AskVin \/ GetVin \/ GetPidsDone \/ PollButton \/ PrintPacket
  <2>1. UNCHANGED mfl /\ UNCHANGED button /\ livePid' \in {livePid, 0} /\ canUp' \in BOOLEAN
    BY <1>0, <1>4 DEF SetupGpios, AskVin, GetVin, GetPidsDone, PollButton, PrintPacket
  <2>2. livePc' \notin {"bitmaps", "frames"}
    BY <1>4 DEF SetupGpios, AskVin, GetVin, TakeFirstOfVin, TakeRestOfVin, GetPidsDone, PollButton,
                PrintPacket, LiveGo
  <2> QED
    BY <1>0, <1>3, <2>1, <2>2
<1>5. CASE LiveAskBlock
  BY <1>0, <1>3, <1>5 DEF LiveAskBlock
<1>6. CASE TakeBitmaps
  BY <1>0, <1>3, <1>6 DEF LiveTyped, TakeBitmaps, LiveGo
<1>7. CASE LiveAskPid
  BY <1>0, <1>3, <1>7 DEF LiveAskPid, LiveSweepNext
<1>8. CASE TakeFrames
  <2>1. mfl' \in 0..2
    BY <1>0, <1>8 DEF TakeFrames, AddFrame, Parts
  <2>2. livePc = "frames" /\ livePid < PidEnd /\ UNCHANGED <<canUp, button>>
    BY <1>8 DEF LiveTyped, TakeFrames, LiveGo
  <2>3. (livePc' = "frames" /\ livePid' = livePid) \/ (livePc' = "sweep" /\ livePid' = livePid + 1)
    BY <1>8 DEF TakeFrames, LiveGo
  <2> QED
    BY <1>0, <1>3, <2>1, <2>2, <2>3
<1>9. CASE LiveReceive \/ LiveBusOff \/ PressOrRelease
  BY <1>0, <1>3, <1>9 DEF LiveTyped, LiveReceive, LiveBusOff, PressOrRelease, liveVars
<1> QED
  BY <1>4, <1>5, <1>6, <1>7, <1>8, <1>9 DEF LiveNext, LiveMain

\* can_obd, lsm6dsl and imu_can.
LEMMA TestTypedStep ==
  ASSUME TestTypeOK, TestNext
  PROVE  TestTypeOK'
<1> USE DEF TestTypeOK, TestGo, imuVars
<1>1. CASE TestSetup
  BY <1>1 DEF TestSetup, RoundStart, HasCan
<1>2. CASE PrintAccel \/ PrintGyro \/ Trigger
  <2>1. overdue' \in BOOLEAN /\ printSamples' \in BOOLEAN
    BY <1>2 DEF PrintAccel, PrintGyro, Trigger
  <2>2. sampleOut' \in 0..1 /\ printed' \in 0..1
    BY <1>2 DEF PrintAccel, PrintGyro, Trigger
  <2>3. testPc' \in {"off", "setup", "returned", "accel", "gyro", "ask", "drain"}
        /\ UNCHANGED <<testProgram, testUp>>
    BY <1>2 DEF PrintAccel, PrintGyro, Trigger
  <2> QED
    BY <2>1, <2>2, <2>3
<1>3. CASE ObdRequests \/ DrainAnswers
  BY <1>3 DEF ObdRequests, DrainAnswers, RoundStart
<1>4. CASE TestReceive \/ TestBusOff
  BY <1>4 DEF TestReceive, TestBusOff, testVars
<1> QED
  BY <1>1, <1>2, <1>3, <1>4 DEF TestNext, TestMain

\* The MCP2515 prototype.
LEMMA McTypedStep ==
  ASSUME McTypeOK, McNext
  PROVE  McTypeOK'
<1>0. LedQueue \in Nat /\ McTypeOK
  BY LedQueueAssumption
<1> USE DEF McTypeOK, mainVars, ledVars, stateVars
<1>1. CASE McMain \/ Transmitted
  BY <1>0, <1>1 DEF McMain, McStart, SendLed, SendCounter, Transmitted, Poll
<1>2. CASE \E value \in 0..1 : LedFrame(value)
  <2>1. PICK value \in 0..1 : LedFrame(value)
    BY <1>2
  <2>2. Append(ledMsgq, value) \in Seq(0..1) /\ Len(Append(ledMsgq, value)) = Len(ledMsgq) + 1
    BY <1>0, AppendProperties
  <2>3. Len(ledMsgq) \in Nat
    BY <1>0, LenProperties
  <2>4. ledMsgq' \in Seq(0..1) /\ Len(ledMsgq') <= LedQueue
    BY <1>0, <2>1, <2>2, <2>3 DEF LedFrame
  <2> QED
    BY <1>0, <2>1, <2>4 DEF LedFrame
<1>3. CASE CounterFrame \/ RxCounter \/ PollState
  BY <1>0, <1>3 DEF CounterFrame, RxCounter, PollState
<1>4. CASE TakeLed
  <2>1. /\ Head(ledMsgq) \in 0..1 /\ Tail(ledMsgq) \in Seq(0..1)
        /\ Len(Tail(ledMsgq)) = Len(ledMsgq) - 1 /\ Len(ledMsgq) \in Nat
    BY <1>0, <1>4, HeadTailProperties, LenProperties DEF TakeLed
  <2>2. ledMsgq' \in Seq(0..1) /\ Len(ledMsgq') <= LedQueue
    BY <1>0, <1>4, <2>1 DEF TakeLed
  <2> QED
    BY <1>0, <1>4, <2>1, <2>2 DEF TakeLed
<1>5. CASE StartLedWork \/ LedDrained \/ ResubmitPoll
  BY <1>0, <1>5 DEF StartLedWork, LedDrained, ResubmitPoll, Poll
<1>6. CASE StartStateWork \/ Recover
  BY <1>0, <1>6 DEF StartStateWork, Recover, CanStates
<1>7. CASE \E state \in CanStates : StateChange(state)
  BY <1>0, <1>7 DEF StateChange
<1> QED
  BY <1>1, <1>2, <1>3, <1>4, <1>5, <1>6, <1>7 DEF McNext, McWork

\* The GNSS bench program.
GnssTyped == GnssTypeOK /\ QueueInv

\* What was asked for.
KnownNeeds == {lastAgps, agpsNeed, asked} \subseteq Needs \cup {Nothing}

LEMMA NeedsTyped ==
  ASSUME Sensible, KnownNeeds, [GnssNext]_gnssAll
  PROVE  KnownNeeds'
<1> USE DEF KnownNeeds
<1>1. CASE UNCHANGED <<lastAgps, agpsNeed, asked>>
  BY <1>1
<1>2. CASE StoreNeed
  BY <1>2 DEF StoreNeed, configVars
<1>3. CASE MaskEphemerides
  <2>1. lastAgps' = [lastAgps EXCEPT !.ephe = FALSE] /\ UNCHANGED <<agpsNeed, asked>>
    BY <1>3 DEF MaskEphemerides, configVars
  <2>2. [Nothing EXCEPT !.ephe = FALSE] = Nothing
    <3>1. ASSUME NEW n \in [ephe : BOOLEAN, flags : {"none"}], n.ephe = FALSE
          PROVE  [n EXCEPT !.ephe = FALSE] = n
      BY <3>1
    <3>2. Nothing \in [ephe : BOOLEAN, flags : {"none"}] /\ Nothing.ephe = FALSE
      BY DEF Nothing
    <3> QED
      BY <3>1, <3>2
  <2>3. lastAgps' \in Needs \cup {Nothing}
    BY <2>1, <2>2 DEF Sensible
  <2> QED
    BY <2>1, <2>3
<1>4. CASE AgpsEvent
  BY <1>4 DEF AgpsEvent, AgpsRequest
<1>5. CASE PrepareAssistance
  <2>1. /\ lastAgps' \in {lastAgps, Everything} /\ asked' \in {asked, Everything}
        /\ agpsNeed' = agpsNeed
    BY <1>5 DEF PrepareAssistance, restOfAssist
  <2> QED
    BY <2>1 DEF Sensible
<1>6. CASE GnssReboot
  BY <1>6 DEF GnssReboot
<1>7. Bystander \/ UNCHANGED gnssAll => UNCHANGED <<lastAgps, agpsNeed, asked>>
  BY BystanderStep DEF gnssAll, assistVars
<1>8. (\E w \in timers : Timer(w)) \/ LteRegistered \/ PgpsEvent => UNCHANGED <<lastAgps, agpsNeed, asked>>
  BY DEF Timer, LteRegistered, PgpsEvent, configVars
<1>9. GotFixWork \/ Prepare \/ StartTest => UNCHANGED <<lastAgps, agpsNeed, asked>>
  BY DEF GotFixWork, Prepare, StartTest, restOfAssist
<1>10. AssistWork /\ ~StoreNeed /\ ~MaskEphemerides => UNCHANGED <<lastAgps, agpsNeed, asked>>
  BY DEF AssistWork, Dequeue, AgpsDataGet, LteConnect, Begin, StartRest, StartSupl, InjectMinimal,
         FinishRequest, AgpsDone, PgpsWork, configVars
<1> QED
  BY <1>1, <1>2, <1>3, <1>4, <1>5, <1>6, <1>7, <1>8, <1>9, <1>10, GnssSteps

\* Where the work queue's thread is.
WorkTyped == work \in AssistSteps \cup {"gotFix", "prepare", "prepared", "touch", "startTest"}

LEMMA WorkStep ==
  ASSUME QueueInv, WorkTyped, lteReady \in 0..1, [GnssNext]_gnssAll
  PROVE  WorkTyped' /\ lteReady' \in 0..1
<1> USE DEF WorkTyped, AssistSteps, WorkGo
<1>1. CASE UNCHANGED <<work, lteReady>>
  BY <1>1
<1>2. CASE Dequeue
  <2>1. work' = Head(works) /\ lteReady' = lteReady /\ Head(works) \in Works
    BY <1>2, DequeueWaits DEF Dequeue, QueueInv
  <2> QED
    BY <2>1 DEF Works
<1>3. CASE AssistWork /\ ~Dequeue
  BY <1>3 DEF AssistWork, AgpsDataGet, LteConnect, StoreNeed, MaskEphemerides, Begin, StartRest,
              StartSupl, InjectMinimal, FinishRequest, AgpsDone, PgpsWork
<1>4. CASE LteRegistered
  BY <1>4 DEF LteRegistered
<1>5. CASE GotFixWork \/ Prepare \/ PrepareAssistance \/ StartTest
  BY <1>5 DEF GotFixWork, Prepare, Delete, CannotDelete, PrepareAssistance, StartTest, restOfAssist
<1>6. CASE GnssReboot
  BY <1>6 DEF GnssReboot
<1>7. Bystander \/ UNCHANGED gnssAll => UNCHANGED <<work, lteReady>>
  BY BystanderStep DEF gnssAll, assistVars
<1>8. AgpsEvent \/ (\E w \in timers : Timer(w)) \/ PgpsEvent => UNCHANGED <<work, lteReady>>
  BY DEF AgpsEvent, AgpsRequest, Timer, PgpsEvent
<1> QED
  BY <1>1, <1>2, <1>3, <1>4, <1>5, <1>6, <1>7, <1>8, GnssSteps

\* What main prints.
Printable ==
  /\ gnssPc \in {"off", "modem", "sample", "almanac", "checksum", "gnss", "poll", "nmea",
                 "print", "returned"}
  /\ pvtAvail \in 0..1

LEMMA PrintableStep ==
  ASSUME Printable, [GnssNext]_gnssAll
  PROVE  Printable'
<1> USE DEF Printable
<1>1. CASE UNCHANGED <<gnssPc, pvtAvail>>
  BY <1>1
<1>2. CASE InitModem \/ FactoryAlmanac \/ StartGnss
  BY <1>2 DEF InitModem, FactoryAlmanac, StartGnss, SampleGo, outputVars
<1>3. CASE MainPoll \/ MainNmea
  BY <1>3 DEF MainPoll, MainNmea, SampleGo
<1>4. CASE PvtEvent \/ GnssNmea \/ GnssNmeaDone
  BY <1>4 DEF PvtEvent, GnssNmea, GnssNmeaDone, sampleVars
<1>5. CASE GnssReboot
  BY <1>5 DEF GnssReboot
<1>6. FixEvent => UNCHANGED <<gnssPc, pvtAvail>>
  BY DEF FixEvent, outputVars
<1>7. (\E w \in timers : Timer(w)) \/ AgpsEvent \/ UNCHANGED sampleVars \/ UNCHANGED gnssAll
        => UNCHANGED <<gnssPc, pvtAvail>>
  BY DEF Timer, AgpsEvent, sampleVars, gnssAll, outputVars
<1>8. GotFixWork \/ Prepare \/ PrepareAssistance \/ StartTest
        => UNCHANGED <<gnssPc, pvtAvail>>
  BY DEF GotFixWork, Prepare, PrepareAssistance, StartTest, sampleVars, outputVars
<1> QED
  BY <1>1, <1>2, <1>3, <1>4, <1>5, <1>6, <1>7, <1>8, GnssSteps DEF Bystander

LEMMA GnssTypedStep ==
  ASSUME Sensible, GnssTyped, [GnssNext]_gnssAll
  PROVE  GnssTyped'
<1>1. KnownNeeds' /\ WorkTyped' /\ lteReady' \in 0..1 /\ Printable' /\ QueueInv' /\ build' = build
  <2>1. KnownNeeds /\ WorkTyped /\ lteReady \in 0..1 /\ Printable /\ QueueInv
    BY DEF GnssTyped, GnssTypeOK, KnownNeeds, WorkTyped, Printable
  <2> QED
    BY <2>1, NeedsTyped, WorkStep, PrintableStep, QueueStep, BuildFixed
<1>2. build' \in Builds
  BY <1>1 DEF GnssTyped, GnssTypeOK
<1> QED
  BY <1>1, <1>2 DEF GnssTyped, GnssTypeOK, KnownNeeds, WorkTyped, Printable, QueueInv

\* What an insertion leaves of a list of rows.
LEMMA InsertedRow ==
  ASSUME NEW s \in Seq(Row), NEW i \in 1..(Len(s) + 1), NEW r \in Row
  PROVE  /\ InsertAt(s, i, r) \in Seq(Row) /\ Len(InsertAt(s, i, r)) = Len(s) + 1
         /\ \A j \in 1..(Len(s) + 1) :
              InsertAt(s, i, r)[j] = IF j < i THEN s[j] ELSE IF j = i THEN r ELSE s[j - 1]
<1> DEFINE front == SubSeq(s, 1, i - 1)
           back == SubSeq(s, i, Len(s))
<1>0. Len(s) \in Nat /\ i \in Int /\ 1 <= i /\ i <= Len(s) + 1
  BY LenProperties
<1>1. front \in Seq(Row) /\ Len(front) = i - 1 /\ \A j \in 1..(i - 1) : front[j] = s[j]
  <2>1. CASE i = 1
    <3>1. front = <<>>
      BY <1>0, <2>1, SubSeqEmpty
    <3> QED
      BY <2>1, <3>1, EmptySeq
  <2>2. CASE i # 1
    <3>1. 1 \in 1..(Len(s) + 1) /\ i - 1 \in 0..Len(s) /\ i - 1 \in 0..Len(s) + 1
      BY <1>0, <2>2
    <3> QED
      BY <1>0, <2>2, <3>1, SubSeqProperties
  <2> QED
    BY <2>1, <2>2
<1>2. back \in Seq(Row) /\ Len(back) = Len(s) + 1 - i /\ \A j \in 1..(Len(s) + 1 - i) : back[j] = s[i + j - 1]
  <2>1. CASE i = Len(s) + 1
    <3>1. back = <<>>
      BY <1>0, <2>1, SubSeqEmpty
    <3> QED
      BY <1>0, <2>1, <3>1, EmptySeq
  <2>2. CASE i # Len(s) + 1
    BY <1>0, <2>2, SubSeqProperties
  <2> QED
    BY <2>1, <2>2
<1> HIDE DEF front, back
<1>3. front \o <<r>> = Append(front, r)
  BY <1>1, AppendIsConcat
<1> DEFINE head == Append(front, r)
<1>4. /\ head \in Seq(Row) /\ Len(head) = i
      /\ \A j \in 1..i : head[j] = IF j < i THEN s[j] ELSE r
  <2>1. /\ head \in Seq(Row) /\ Len(head) = (i - 1) + 1 /\ head[(i - 1) + 1] = r
        /\ \A j \in 1..(i - 1) : head[j] = front[j]
    BY <1>1, AppendProperties
  <2>2. (i - 1) + 1 = i
    BY <1>0
  <2>3. ASSUME NEW j \in 1..i PROVE head[j] = IF j < i THEN s[j] ELSE r
    <3>1. j \in 1..(i - 1) \/ j = i
      BY <1>0
    <3> QED
      BY <1>0, <1>1, <2>1, <2>2, <3>1
  <2> QED
    BY <2>1, <2>2, <2>3
<1> HIDE DEF head
<1>5. /\ head \o back \in Seq(Row) /\ Len(head \o back) = Len(s) + 1
      /\ \A j \in 1..(Len(s) + 1) : (head \o back)[j] = IF j <= i THEN head[j] ELSE back[j - i]
  <2>1. /\ head \o back \in Seq(Row)
        /\ Len(head \o back) = Len(head) + Len(back)
        /\ \A j \in 1..(Len(head) + Len(back)) :
             (head \o back)[j] = IF j <= Len(head) THEN head[j] ELSE back[j - Len(head)]
    BY <1>2, <1>4, ConcatProperties
  <2>2. Len(head) + Len(back) = Len(s) + 1
    BY <1>0, <1>2, <1>4
  <2> QED
    BY <1>4, <2>1, <2>2
<1>6. InsertAt(s, i, r) = head \o back
  BY <1>3 DEF InsertAt, front, back, head
<1>7. ASSUME NEW j \in 1..(Len(s) + 1)
      PROVE  (head \o back)[j] = IF j < i THEN s[j] ELSE IF j = i THEN r ELSE s[j - 1]
  <2>1. CASE j <= i
    <3>1. j \in 1..i
      BY <1>0, <2>1
    <3> QED
      BY <1>0, <1>4, <1>5, <2>1, <3>1
  <2>2. CASE ~(j <= i)
    <3>1. j - i \in 1..(Len(s) + 1 - i) /\ i + (j - i) - 1 = j - 1 /\ ~(j < i) /\ j # i
      BY <1>0, <2>2
    <3>2. back[j - i] = s[j - 1]
      BY <1>2, <3>1
    <3> QED
      BY <1>5, <2>2, <3>1, <3>2
  <2> QED
    BY <2>1, <2>2
<1> QED
  BY <1>5, <1>6, <1>7

\* No list names a car twice, so that none is longer than there are cars.
Listed(s) == s \in Seq(Row) /\ Apart(s)

LEMMA ListedBound ==
  ASSUME NEW s, Listed(s), IsFiniteSet(MapCars)
  PROVE  Len(s) <= Cardinality(MapCars)
<1> DEFINE f == [i \in 1..Len(s) |-> s[i].car]
<1>1. s \in Seq(Row) /\ Len(s) \in Nat /\ \A i \in 1..Len(s) : s[i] \in Row
  BY LenProperties DEF Listed
<1>2. f \in [1..Len(s) -> MapCars]
  BY <1>1 DEF Row
<1>3. f \in Injection(1..Len(s), MapCars)
  BY <1>1, <1>2 DEF Listed, Apart, Injection, IsInjective
<1>4. Cardinality(1..Len(s)) <= Cardinality(MapCars)
  BY <1>3, FS_Injection
<1>5. Cardinality(1..Len(s)) = Len(s)
  <2>1. PICK n \in Nat : n = Len(s)
    BY <1>1
  <2>2. Cardinality(1..n) = n
    BY FS_Interval
  <2> QED
    BY <2>1, <2>2
<1> QED
  BY <1>4, <1>5

MapTyped ==
  /\ MapTypeOK
  /\ Apart(fleet) /\ Apart(index)
  /\ \A answer \in answers : Apart(answer)

LEMMA MapReportedTyped ==
  ASSUME MapTyped, NEW car0 \in MapCars, NEW place \in Places, Reported(car0, place)
  PROVE  MapTyped'
<1> DEFINE row == [car |-> car0, place |-> place]
<1>0. fleet \in Seq(Row) /\ Len(fleet) \in Nat /\ Apart(fleet) /\ row \in Row
  BY LenProperties DEF MapTyped, MapTypeOK, Row
<1>4. row.car = car0
  OBVIOUS
<1>5. ASSUME NEW x \in Row, x.car = car0 PROVE [x EXCEPT !.place = place] = row
  BY <1>5 DEF Row
<1>6. \A i : InsertAt(fleet, i, [car |-> car0, place |-> place]) = InsertAt(fleet, i, row)
  OBVIOUS
<1> HIDE DEF row
<1>1. fleet' \in Seq(Row) /\ Apart(fleet')
  <2>1. CASE car0 \notin Known
    <3>1. PICK i \in 1..(Len(fleet) + 1) : fleet' = InsertAt(fleet, i, row)
      BY <1>6, <2>1 DEF Reported, Known
    <3>2. /\ fleet' \in Seq(Row) /\ Len(fleet') = Len(fleet) + 1
          /\ \A j \in 1..(Len(fleet) + 1) :
               fleet'[j] = IF j < i THEN fleet[j] ELSE IF j = i THEN row ELSE fleet[j - 1]
      <4> DEFINE longer == InsertAt(fleet, i, row)
      <4>1. /\ longer \in Seq(Row) /\ Len(longer) = Len(fleet) + 1
            /\ \A j \in 1..(Len(fleet) + 1) :
                 longer[j] = IF j < i THEN fleet[j] ELSE IF j = i THEN row ELSE fleet[j - 1]
        BY <1>0, InsertedRow
      <4> HIDE DEF longer
      <4>2. fleet' = longer
        BY <3>1 DEF longer
      <4> QED
        BY <4>1, <4>2
    <3>3. \A j \in 1..Len(fleet) : fleet[j].car # row.car
      BY <1>0, <1>4, <2>1, LenProperties DEF Known
    <3> DEFINE from(j) == IF j < i THEN j ELSE j - 1
    <3>4. ASSUME NEW j \in 1..Len(fleet'), j # i
          PROVE  from(j) \in 1..Len(fleet) /\ fleet'[j] = fleet[from(j)]
      BY <1>0, <3>2, <3>4
    <3>5. ASSUME NEW j \in 1..Len(fleet'), NEW k \in 1..Len(fleet'), fleet'[j].car = fleet'[k].car
          PROVE  j = k
      <4>1. CASE j = i /\ k # i
        <5>1. fleet'[j] = row
          BY <3>2, <4>1
        <5> QED
          BY <3>3, <3>4, <3>5, <4>1, <5>1
      <4>2. CASE j # i /\ k = i
        <5>1. fleet'[k] = row
          BY <3>2, <4>2
        <5> QED
          BY <3>3, <3>4, <3>5, <4>2, <5>1
      <4>3. CASE j # i /\ k # i
        <5>1. fleet[from(j)].car = fleet[from(k)].car
          BY <3>4, <3>5, <4>3
        <5>2. from(j) = from(k)
          BY <1>0, <3>4, <4>3, <5>1 DEF Apart
        <5> QED
          BY <3>2, <4>3, <5>2
      <4> QED
        BY <4>1, <4>2, <4>3
    <3> QED
      BY <3>2, <3>5 DEF Apart
  <2>2. CASE car0 \in Known
    <3>1. PICK i \in 1..Len(fleet) : fleet[i].car = car0 /\ fleet' = [fleet EXCEPT ![i].place = place]
      BY <1>0, <2>2 DEF Reported
    <3>2. fleet[i] \in Row
      BY <1>0
    <3>3. [fleet[i] EXCEPT !.place = place] = row
      BY <1>5, <3>1, <3>2
    <3>4. fleet' = [fleet EXCEPT ![i] = row]
      BY <3>1, <3>3
    <3>5. /\ fleet' \in Seq(Row) /\ Len(fleet') = Len(fleet)
          /\ \A j \in 1..Len(fleet) : fleet'[j] = IF j = i THEN row ELSE fleet[j]
      BY <1>0, <3>4, RowReplaced
    <3>6. \A j \in 1..Len(fleet) : fleet'[j].car = fleet[j].car
      BY <1>4, <3>1, <3>5
    <3> QED
      BY <1>0, <3>5, <3>6 DEF Apart
  <2> QED
    BY <2>1, <2>2
<1>2. visited' \subseteq MapCars \X Places
  <2>1. visited' = visited \cup {<<car0, place>>} /\ visited \subseteq MapCars \X Places
    BY DEF Reported, MapTyped, MapTypeOK
  <2> QED
    BY <2>1
<1>3. UNCHANGED screenVars
  BY DEF Reported
<1> QED
  BY <1>1, <1>2, <1>3 DEF screenVars, MapTyped, MapTypeOK

LEMMA MapAnsweredTyped ==
  ASSUME MapTyped, NEW answer \in answers, Answered(answer)
  PROVE  MapTyped'
<1>1. /\ UNCHANGED <<fleet, visited, screen, selectedCarId, selectedIdx>>
      /\ answers' \subseteq answers /\ index' = answer /\ Apart(answer) /\ answer \in Seq(Row)
      /\ selectedIdx \in 1..Cardinality(MapCars)
  BY DEF Answered, serverVars, MapTyped, MapTypeOK
<1>2. markers' \in Seq(Row)
  <2>1. markers' = <<>> \/ markers' = answer
    BY DEF Answered
  <2> QED
    BY <1>1, <2>1, EmptySeq
<1>3. rawData' \in Row \cup {<<>>}
  <2>1. CASE rawData' = rawData \/ rawData' = <<>>
    BY <2>1 DEF MapTyped, MapTypeOK
  <2>2. CASE answer # <<>> /\ ~(selectedIdx > Len(answer)) /\ rawData' = answer[selectedIdx]
    <3>1. Len(answer) \in Nat /\ selectedIdx \in Nat /\ selectedIdx >= 1
      BY <1>1, LenProperties
    <3>2. selectedIdx \in 1..Len(answer)
      BY <2>2, <3>1
    <3> QED
      BY <1>1, <2>2, <3>2
  <2> QED
    BY <2>1, <2>2 DEF Answered
<1> QED
  BY <1>1, <1>2, <1>3 DEF MapTyped, MapTypeOK

LEMMA MapTapTyped ==
  ASSUME MapTyped, IsFiniteSet(MapCars), NEW m \in DOMAIN screen, Tap(screen[m])
  PROVE  MapTyped'
<1>1. /\ UNCHANGED <<fleet, visited, answers, markers, index, screen>>
      /\ screen \in Seq(Row) /\ index \in Seq(Row) /\ Listed(index)
      /\ selectedIdx \in 1..Cardinality(MapCars) /\ rawData \in Row \cup {<<>>}
      /\ selectedCarId \in MapCars \cup {""}
  BY DEF Tap, serverVars, MapTyped, MapTypeOK, Listed
<1>2. /\ DOMAIN screen = 1..Len(screen) /\ DOMAIN index = 1..Len(index)
      /\ \A i \in 1..Len(screen) : screen[i] \in Row
  BY <1>1, LenProperties
<1>3. screen[m].car \in MapCars
  BY <1>2 DEF Row
<1>4. CASE selectedCarId' = "" /\ rawData' = <<>> /\ UNCHANGED selectedIdx
  BY <1>1, <1>4 DEF MapTyped, MapTypeOK
<1>5. ASSUME NEW i \in At(screen[m].place), selectedIdx' = i,
             IF i \in DOMAIN screen
             THEN selectedCarId' = screen[m].car /\ rawData' = screen[i]
             ELSE UNCHANGED <<selectedCarId, rawData>>
      PROVE  MapTyped'
  <2>1. i \in 1..Len(index)
    BY <1>2 DEF At
  <2>2. Len(index) <= Cardinality(MapCars) /\ Cardinality(MapCars) \in Nat /\ Len(index) \in Nat
    BY <1>1, ListedBound, FS_CardinalityType, LenProperties
  <2>3. selectedIdx' \in 1..Cardinality(MapCars)
    BY <1>5, <2>1, <2>2
  <2>4. selectedCarId' \in MapCars \cup {""} /\ rawData' \in Row \cup {<<>>}
    BY <1>1, <1>2, <1>3, <1>5
  <2> QED
    BY <1>1, <2>3, <2>4 DEF MapTyped, MapTypeOK
<1> QED
  BY <1>4, <1>5 DEF Tap

LEMMA MapTypedStep ==
  ASSUME MapTyped, IsFiniteSet(MapCars), MapNext
  PROVE  MapTyped'
<1>1. CASE Refresh
  BY <1>1 DEF Refresh, serverVars, MapTyped, MapTypeOK
<1>2. CASE Rebuild
  BY <1>2 DEF Rebuild, serverVars, MapTyped, MapTypeOK
<1> QED
  BY <1>1, <1>2, MapReportedTyped, MapAnsweredTyped, MapTapTyped DEF MapNext

\* The statistics screen.
StatTyped == StatInv /\ validVehicleParameters \subseteq Parameters

LEMMA StatTypedStep ==
  ASSUME StatTyped, StatNext
  PROVE  StatTyped'
<1>1. StatInv'
  BY StatStep DEF StatTyped
<1>2. validVehicleParameters' \subseteq Parameters
  <2>1. CASE UNCHANGED validVehicleParameters
    BY <2>1 DEF StatTyped
  <2>2. ASSUME NEW i \in DOMAIN searches, Downloaded(i) PROVE validVehicleParameters' \subseteq Parameters
    <3>1. searches[i].car \in ChartCars
      <4>1. searches[i] \in Fetches
        BY LenProperties, ElementOfSeq DEF StatTyped, StatInv, StatType
      <4> QED
        BY <4>1 DEF Fetches
    <3>2. CarParameters[searches[i].car] \subseteq Parameters
      BY <3>1, StatisticsAssumption
    <3> QED
      BY <2>2, <3>2 DEF Downloaded, Draw, Offer, NoRows
  <2>3. (\E c \in ChartCars : Toggle(c)) \/ (\E p \in Parameters : SelectParameter(p)) \/ Search
          \/ (\E i \in DOMAIN searches : Failed(i)) => UNCHANGED validVehicleParameters
    BY DEF Toggle, SelectParameter, Search, Failed
  <2> QED
    BY <2>1, <2>2, <2>3 DEF StatNext
<1> QED
  BY <1>1, <1>2 DEF StatTyped

\* Each program starts with its types; one that is off keeps them.
LEMMA TypedAtFirst ==
  ASSUME Sensible, MCInit
  PROVE  /\ program = "prototype" => LagInv /\ ShiftInv
         /\ program = "car_live_data" => LiveLate /\ livePc \in LivePcs
         /\ program # "prototype" => protoPc = "off"
         /\ program # "car_live_data" => livePc = "off"
         /\ ProtoTypeOK /\ protoPc \notin {"bitmap", "answer"}
         /\ LiveTypeOK /\ livePc \notin {"bitmaps", "frames"}
         /\ TestTypeOK /\ McTypeOK /\ GnssTyped /\ MapTyped /\ StatTyped
<1>0. PidBlock \in Nat /\ PidEnd \in Nat /\ LedQueue \in Nat
  BY BlockType, LedQueueAssumption
<1>1. ProtoIdle /\ protoPc \in {"off", "can_init"} /\ (program # "prototype" => protoPc = "off")
  BY DEF MCInit, ProtoInit, ProtoOff
<1>2. LiveIdle /\ livePc \in {"off", "setup"} /\ (program # "car_live_data" => livePc = "off")
  BY DEF MCInit, LiveInit, LiveOff
<1>3. TestIdle /\ testPc \in {"off", "setup"}
  BY DEF MCInit, TestInit, TestOff
<1>4. McIdle /\ mcPc \in {"off", "start"} /\ autoRecovery \in BOOLEAN
  BY DEF MCInit, McInit, McOff
<1>5. GnssIdle /\ gnssPc \in {"off", "modem"} /\ build \in Builds
  BY DEF MCInit, GnssInit, GnssOff, Sensible
<1>6. ASSUME program = "prototype" PROVE LagInv /\ ShiftInv
  BY <1>6, ProtoStarts DEF MCInit
<1>7. ASSUME program = "car_live_data" PROVE LiveLate /\ livePc \in LivePcs
  BY <1>7, LiveStarts DEF MCInit, LiveInv
<1>8. ProtoTypeOK
  BY <1>0, <1>1 DEF ProtoIdle, ProtoTypeOK
<1>9. LiveTypeOK
  <2>1. livePids \in [0..PidEnd -> SUBSET Formats]
    BY <1>2 DEF LiveIdle
  <2>2. canUp \in BOOLEAN /\ button \in BOOLEAN
    BY <1>2 DEF LiveIdle
  <2>3. livePid \in 0..(PidEnd + PidBlock) /\ mfl \in 0..(Parts - 1)
    BY <1>0, <1>2 DEF LiveIdle, Parts
  <2> QED
    BY <1>2, <2>1, <2>2, <2>3 DEF LiveTypeOK
<1>10. TestTypeOK
  <2>1. /\ testProgram \in TestPrograms /\ testUp \in BOOLEAN
        /\ printSamples \in BOOLEAN /\ overdue \in BOOLEAN
    BY <1>3 DEF TestIdle
  <2>2. sampleOut \in 0..1 /\ printed \in 0..1
    BY <1>3 DEF TestIdle
  <2> QED
    BY <1>3, <2>1, <2>2 DEF TestTypeOK
<1>11. McTypeOK
  <2>1. ledMsgq \in Seq(0..1) /\ Len(ledMsgq) <= LedQueue
    BY <1>0, <1>4, EmptySeq DEF McIdle
  <2>2. counters \in 0..LedQueue /\ ledPin \in 0..1 /\ lastLed \in 0..1
    BY <1>0, <1>4 DEF McIdle
  <2>3. /\ txBusy \in BOOLEAN /\ stateWork \in BOOLEAN /\ timedOut \in BOOLEAN
        /\ ledWork = "none" /\ workq = "idle"
        /\ {canState, currentState, polled} \subseteq CanStates
    BY <1>4 DEF McIdle, CanStates
  <2> QED
    BY <1>4, <2>1, <2>2, <2>3 DEF McTypeOK
<1>12. GnssTyped
  <2>1. works = <<>> /\ works \in Seq(Works) /\ Len(works) = 0
    BY <1>5, EmptySeq DEF GnssIdle, AssistIdle
  <2>2. QueueInv
    BY <1>5, <2>1 DEF GnssIdle, QueueInv, Distinct
  <2> QED
    BY <1>0, <1>5, <2>2 DEF GnssIdle, AssistIdle, AssistSteps, GnssTyped, GnssTypeOK
<1>13. MapTyped
  <2>1. MapInit
    BY DEF MCInit
  <2>2. <<>> \in Seq(Row) /\ Apart(<<>>)
    BY EmptySeq DEF Apart
  <2>3. Cardinality(MapCars) \in Nat /\ Cardinality(MapCars) # 0
    BY FS_CardinalityType, FS_EmptySet DEF Sensible
  <2>4. 1 \in 1..Cardinality(MapCars)
    BY <2>3
  <2> QED
    BY <2>1, <2>2, <2>4 DEF MapInit, MapTyped, MapTypeOK
<1>14. StatTyped
  <2>1. StatInit
    BY DEF MCInit
  <2>2. StatInv
    BY <2>1, StatStarts
  <2> QED
    BY <2>1, <2>2, StatisticsAssumption DEF StatInit, StatTyped
<1> QED
  BY <1>1, <1>2, <1>6, <1>7, <1>8, <1>9, <1>10, <1>11, <1>12, <1>13, <1>14

\* The two ways to say what the chart's variables are.
LEMMA ChartTyped ==
  ASSUME StatType, validVehicleParameters \subseteq Parameters
  PROVE  StatTypeOK
<1>1. searches \in Seq(Fetches) /\ chartFor \in Selections
  BY Zenon DEF StatType
<1>2. \A i \in DOMAIN searches : searches[i] \in Fetches
  BY <1>1
<1>3. \A i \in DOMAIN searches :
        /\ searches[i].of \in Selections
        /\ searches[i].at \in Nat \ {0} /\ searches[i].car \in ChartCars
  BY <1>2 DEF Fetches
<1>4. {chartFor} \cup {searches[i].of : i \in DOMAIN searches} \subseteq Selections
  BY <1>1, <1>3
<1>5. \A i \in DOMAIN searches : searches[i].at \in Nat \ {0} /\ searches[i].car \in ChartCars
  BY <1>3
<1> QED
  BY <1>4, <1>5, Zenon DEF StatType, StatTypeOK, Selections, Lines

\* Every variable of every program and screen stays in its type, and with it every
\* counter, semaphore and index within its limits, whatever runs and whatever fails.
THEOREM Typed ==
  ASSUME Sensible
  PROVE  MCSpec => []SoloTypeOK
<1> DEFINE allVars == <<program, carVars, canPrograms, mcVars, gnssVars, nmeaVars, mapVars, statVars>>
           ProtoPart == IF program = "prototype" THEN ProtoTyped ELSE ProtoTypeOK
           LivePart == IF program = "car_live_data" THEN LiveTyped ELSE LiveTypeOK
           Inv == ProtoPart /\ LivePart /\ TestTypeOK /\ McTypeOK /\ GnssTyped /\ FrameInv
                  /\ MapTyped /\ StatTyped
<1>1. MCInit => Inv
  BY TypedAtFirst, FramesAtFirst DEF ProtoTyped, LiveTyped
<1>2. Inv /\ [MCNext]_allVars => Inv'
  <2> SUFFICES ASSUME Inv, [MCNext]_allVars PROVE Inv'
    OBVIOUS
  <2>0. program' = program
    BY DEF MCNext
  <2>1. ProtoPart'
    <3>1. CASE program = "prototype"
      <4>1. ProtoNext \/ UNCHANGED <<carVars, protoVars>>
        BY <3>1 DEF MCNext, canPrograms
      <4>2. CASE ProtoNext
        BY <2>0, <3>1, <4>2, ProtoTypedStep DEF Sensible
      <4>3. CASE UNCHANGED <<carVars, protoVars>>
        <5>1. LagInv' /\ ShiftInv'
          BY <3>1, <4>3, ProtoStill DEF ProtoTyped
        <5> QED
          BY <2>0, <3>1, <4>3, <5>1 DEF ProtoTyped, ProtoTypeOK, protoVars
      <4> QED
        BY <4>1, <4>2, <4>3
    <3>2. CASE program # "prototype"
      <4>1. UNCHANGED protoVars
        BY <3>2 DEF MCNext, canPrograms
      <4> QED
        BY <2>0, <3>2, <4>1 DEF protoVars, ProtoTypeOK
    <3> QED
      BY <3>1, <3>2
  <2>2. LivePart'
    <3>1. CASE program = "car_live_data"
      <4>1. LiveNext \/ UNCHANGED <<carVars, liveVars>>
        BY <3>1 DEF MCNext, canPrograms
      <4>2. CASE LiveNext
        BY <2>0, <3>1, <4>2, LiveTypedStep
      <4>3. CASE UNCHANGED <<carVars, liveVars>>
        <5>1. LiveLate'
          BY <3>1, <4>3, LiveStill DEF LiveTyped
        <5> QED
          BY <2>0, <3>1, <4>3, <5>1 DEF LiveTyped, LiveTypeOK, liveVars
      <4> QED
        BY <4>1, <4>2, <4>3
    <3>2. CASE program # "car_live_data"
      <4>1. UNCHANGED liveVars
        BY <3>2 DEF MCNext, canPrograms
      <4> QED
        BY <2>0, <3>2, <4>1 DEF liveVars, LiveTypeOK
    <3> QED
      BY <3>1, <3>2
  <2>3. TestTypeOK'
    <3>1. TestNext \/ UNCHANGED testVars
      BY DEF MCNext, canPrograms
    <3> QED
      BY <3>1, TestTypedStep DEF testVars, TestTypeOK
  <2>4. McTypeOK'
    <3>1. McNext \/ UNCHANGED mcVars
      BY DEF MCNext
    <3> QED
      BY <3>1, McTypedStep DEF mcVars, McTypeOK
  <2>5. GnssTyped'
    <3>1. GnssNext \/ UNCHANGED gnssVars
      BY DEF MCNext
    <3>2. CASE UNCHANGED gnssVars
      <4>1. UNCHANGED <<works, timers, build, gnssPc, pvtAvail, work, lastAgps, agpsNeed, asked, lteReady>>
        BY <3>2 DEF gnssVars, assistVars, sampleVars
      <4> QED
        BY <4>1 DEF GnssTyped, GnssTypeOK, QueueInv
    <3> QED
      BY <3>1, <3>2, GnssTypedStep
  <2>6. MapTyped'
    <3>1. MapNext \/ UNCHANGED mapVars
      BY DEF MCNext
    <3> QED
      BY <3>1, MapTypedStep DEF Sensible, mapVars, MapTyped, MapTypeOK
  <2>7. StatTyped'
    <3>1. StatNext \/ UNCHANGED statVars
      BY DEF MCNext
    <3>2. CASE UNCHANGED statVars
      <4>1. StatInv'
        BY <3>2, StatStep DEF StatTyped
      <4> QED
        BY <3>2, <4>1 DEF statVars, StatTyped
    <3> QED
      BY <3>1, <3>2, StatTypedStep
  <2>8. FrameInv'
    BY FramesStep
  <2> QED
    BY <2>1, <2>2, <2>3, <2>4, <2>5, <2>6, <2>7, <2>8
<1>3. Inv => SoloTypeOK
  <2> SUFFICES ASSUME Inv PROVE SoloTypeOK
    OBVIOUS
  <2>1. ProtoTypeOK /\ LiveTypeOK
    BY DEF ProtoTyped, LiveTyped
  <2>2. StatTypeOK
    BY ChartTyped DEF StatTyped, StatInv
  <2>3. NmeaTypeOK
    BY DEF FrameInv, Owning
  <2>4. TestTypeOK /\ McTypeOK /\ GnssTypeOK /\ MapTypeOK
    BY DEF GnssTyped, MapTyped
  <2> QED
    BY <2>1, <2>2, <2>3, <2>4, Zenon DEF SoloTypeOK
<1> QED
  BY <1>1, <1>2, <1>3, PTL DEF MCSpec
=============================================================================
