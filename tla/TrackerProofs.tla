---------------------------- MODULE TrackerProofs ----------------------------
(***************************************************************************)
(* Proofs about Tracker for every car, buffer size, queue capacity, set of *)
(* copy regions and set of faults; then, behind the refinement of Uplink,  *)
(* those about one sweep of the OBD requests on a punctual bus.            *)
(***************************************************************************)
EXTENDS Tracker, TLAPS

(***************************************************************************)
(* The inductive strengthening: while the datagram is being built, the     *)
(* regions copied so far are as new as the announcement being served, and  *)
(* when nothing is copied because gnss_size was 0, there was nothing to    *)
(* announce.                                                               *)
(***************************************************************************)
CopyInv ==
    /\ gnss_data # 0 => gnss_size = GnssLen
    /\ gnss_ready = 0 /\ pc = "copy" =>
          \A r \in Regions \ uncopied : udp_data[r] >= announced
    /\ \A r \in Regions : sent[r] <= udp_data[r]

IInv == TypeOK /\ CopyInv /\ NoWakeLost /\ FreshDatagram

\* Appending keeps the type of a sequence.
LEMMA AppendType ==
    ASSUME NEW S, NEW s \in Seq(S), NEW e \in S
    PROVE  Append(s, e) \in Seq(S)
OBVIOUS

LEMMA ConcatType ==
    ASSUME NEW S, NEW s \in Seq(S), NEW t \in Seq(S)
    PROVE  s \o t \in Seq(S)
OBVIOUS

\* What the frames the tracker receives look like.
LEMMA AnswerFrameType ==
    ASSUME NEW p \in PIDs, NEW f \in Formats
    PROVE  AnswerFrame(p, f) \in Frame
BY TrackerAssumption DEF AnswerFrame, Frame, Formats, PIDs

LEMMA ConsecutivesType ==
    ASSUME NEW frame \in Frame
    PROVE  Consecutives(frame) \in Seq(Frame)
<1>1. frame.n \div 7 \in Nat
  BY DEF Frame
<1>2. \A i \in 1..(frame.n \div 7) :
        [kind |-> "consecutive", pid |-> frame.pid, ide |-> frame.ide, n |-> 7] \in Frame
  BY DEF Frame
<1> QED
  BY <1>1, <1>2 DEF Consecutives

-----------------------------------------------------------------------------
(* Type correctness. *)

LEMMA InitType == Init => TypeOK
<1> SUFFICES ASSUME Init PROVE TypeOK
  OBVIOUS
<1>1. UplinkType
  BY TrackerAssumption DEF Init, UplinkType
<1>2. SweepType
  BY TrackerAssumption DEF Init, SweepType, PIDs, Sweeping
<1>3. CanType
  BY TrackerAssumption DEF Init, CanType
<1> QED
  BY <1>1, <1>2, <1>3 DEF TypeOK

\* The interrupt handler, the sending half of main, and its end behind a buffer.
LEMMA SendingType ==
    ASSUME TypeOK,
           GnssEventHandler \/ TakeReady \/ CopyRegion \/ AppendVehicle
              \/ SendOk \/ SendFails \/ Overrun
    PROVE  TypeOK'
<1> USE DEF TypeOK, GnssEventHandler
<1>1. SweepType'
  BY DEF SweepType, Sweeping, PvtFix, SleepAfterFix, PeriodicWakeup, TakeReady, CopyRegion,
         AppendVehicle, SendOk, SendFails, Overrun, sweepVars
<1>2. CanType'
  BY DEF CanType, PvtFix, SleepAfterFix, PeriodicWakeup, TakeReady, CopyRegion,
         AppendVehicle, SendOk, SendFails, Overrun, canVars
<1>3. UplinkType'
  <2> USE TrackerAssumption DEF UplinkType
  <2>1. CASE PvtFix
    BY <2>1 DEF PvtFix, udpVars, gnssVars
  <2>2. CASE SleepAfterFix
    BY <2>2 DEF SleepAfterFix, gnssVars, udpVars
  <2>3. CASE PeriodicWakeup
    BY <2>3 DEF PeriodicWakeup, gnssVars, udpVars
  <2>4. CASE TakeReady
    BY <2>4 DEF TakeReady, gnssVars, modemVars
  <2>5. CASE CopyRegion
    BY <2>5 DEF CopyRegion, gnssVars, modemVars
  <2>6. CASE AppendVehicle
    BY <2>6 DEF AppendVehicle, SweepType, gnssVars, modemVars
  <2>7. CASE SendOk
    BY <2>7 DEF SendOk, gnssVars, modemVars, udpVars
  <2>8. CASE SendFails
    BY <2>8 DEF SendFails, gnssVars, modemVars, udpVars
  <2>9. CASE Overrun
    BY <2>9 DEF Overrun, gnssVars, modemVars, udpVars
  <2> QED
    BY <2>1, <2>2, <2>3, <2>4, <2>5, <2>6, <2>7, <2>8, <2>9
<1> QED
  BY <1>1, <1>2, <1>3

\* Whatever a sweep step does, the uplink's variables keep their types: of those it
\* changes only pc and, by the stray length byte, current_msg_size.
LEMMA SweepKeepsUplinkType ==
    ASSUME UplinkType,
           UNCHANGED <<gnss_ready, gnssVars, modemVars, uncopied, udp_data, sent>>,
           pc' \in {"loop", "STANDARD", "EXTENDED", "drain", "halted"},
           current_msg_size' \in Nat
    PROVE  UplinkType'
BY DEF UplinkType, gnssVars, modemVars

\* A received frame has the type of the queue it comes from.
LEMMA HeadType ==
    ASSUME CanType, obd_msgq # <<>>
    PROVE  /\ Head(obd_msgq) \in Frame
           /\ Tail(obd_msgq) \in Seq(Frame)
           /\ Len(Tail(obd_msgq)) <= MsgqSize
BY TrackerAssumption DEF CanType

LEMMA FrameFields ==
    ASSUME NEW frame \in Frame
    PROVE  /\ frame.n \in Nat
           /\ frame.ide \in Formats
           /\ \A bytes \in Nat : Chunk(frame, bytes) \in ChunkSet
BY DEF Frame, Chunk, ChunkSet

LEMMA RequestType ==
    ASSUME TypeOK, RequestStandard \/ RequestExtended
    PROVE  TypeOK'
<1>1. currentPID \in PIDs /\ asked \in Seq(PIDs \X Formats)
  BY DEF RequestStandard, RequestExtended, TypeOK, SweepType, Sweeping
<1>2. ASSUME NEW f \in Formats, Send(f) \/ SkipFormat(f)
      PROVE  bus' \in [Formats -> Seq(Frame)] /\ asked' \in Seq(PIDs \X Formats)
  <2>1. AnswerFrame(currentPID, f) \in Frame
    BY <1>1, AnswerFrameType
  <2>2. bus \in [Formats -> Seq(Frame)]
    BY DEF TypeOK, CanType
  <2>3. Append(bus[f], AnswerFrame(currentPID, f)) \in Seq(Frame)
    BY <1>2, <2>1, <2>2, AppendType
  <2>4. bus' \in [Formats -> Seq(Frame)]
    BY <1>2, <2>2, <2>3 DEF Send, SkipFormat
  <2>5. Append(asked, <<currentPID, f>>) \in Seq(PIDs \X Formats)
    <3>1. <<currentPID, f>> \in PIDs \X Formats
      BY <1>1, <1>2
    <3> QED
      BY <1>1, <3>1, AppendType
  <2>6. asked' \in Seq(PIDs \X Formats)
    BY <1>1, <1>2, <2>5 DEF Send, SkipFormat
  <2> QED
    BY <2>4, <2>6
<1>3. bus' \in [Formats -> Seq(Frame)] /\ asked' \in Seq(PIDs \X Formats)
  BY <1>2 DEF RequestStandard, RequestExtended, Formats
<1>4. UplinkType'
  BY SweepKeepsUplinkType
  DEF RequestStandard, RequestExtended, TypeOK, UplinkType, udpVars
<1>5. SweepType'
  BY <1>1, <1>3 DEF RequestStandard, RequestExtended, TypeOK, SweepType, Sweeping
<1>6. CanType'
  BY <1>3 DEF RequestStandard, RequestExtended, TypeOK, CanType
<1> QED
  BY <1>4, <1>5, <1>6 DEF TypeOK

LEMMA ReceiveType ==
    ASSUME TypeOK, ReceiveFirst \/ ReceiveConsecutive \/ ReceiveSingle
    PROVE  TypeOK'
<1>1. /\ Head(obd_msgq) \in Frame
      /\ Tail(obd_msgq) \in Seq(Frame)
      /\ Len(Tail(obd_msgq)) <= MsgqSize
  BY HeadType DEF ReceiveFirst, ReceiveConsecutive, ReceiveSingle, TypeOK
<1>2. /\ Head(obd_msgq).n \in Nat
      /\ Head(obd_msgq).ide \in Formats
      /\ \A bytes \in Nat : Chunk(Head(obd_msgq), bytes) \in ChunkSet
  BY <1>1, FrameFields
<1>3. /\ vehicle_data \in Seq(ChunkSet) /\ vehicle_size \in Nat /\ MFL \in Int
      /\ current_msg_size \in Nat /\ Cap \in Nat /\ bus \in [Formats -> Seq(Frame)]
      /\ pc = "drain" /\ noise \in 0..MaxNoise
  BY TrackerAssumption
  DEF TypeOK, SweepType, UplinkType, CanType, ReceiveFirst, ReceiveConsecutive, ReceiveSingle
<1>4. ASSUME vehicle_data' \in Seq(ChunkSet), vehicle_size' \in Nat, MFL' \in Int,
             UNCHANGED <<currentPID, asked>>
      PROVE  SweepType'
  BY <1>3, <1>4 DEF TypeOK, SweepType, Sweeping
<1>5. CASE ReceiveFirst
  <2>1. \A c \in ChunkSet : Append(vehicle_data, c) \in Seq(ChunkSet)
    BY <1>3
  <2>2. vehicle_data' \in Seq(ChunkSet)
    BY <1>2, <1>5, <2>1 DEF ReceiveFirst
  <2>3. vehicle_size' \in Nat /\ MFL' \in Int
    BY <1>2, <1>3, <1>5, SMTT(30) DEF ReceiveFirst
  <2>4. SweepType'
    BY <1>4, <1>5, <2>2, <2>3 DEF ReceiveFirst
  <2>5. current_msg_size' \in Nat
    BY <1>3, <1>5, SMTT(30) DEF ReceiveFirst
  <2>6. UplinkType'
    BY <1>3, <1>5, <2>5, SweepKeepsUplinkType DEF ReceiveFirst, TypeOK
  <2>7. bus' \in [Formats -> Seq(Frame)]
    <3>1. bus[Head(obd_msgq).ide] \o Consecutives(Head(obd_msgq)) \in Seq(Frame)
      BY <1>1, <1>2, <1>3, ConsecutivesType, ConcatType
    <3> QED
      BY <1>2, <1>3, <1>5, <3>1 DEF ReceiveFirst
  <2>8. CanType'
    BY <1>1, <1>3, <1>5, <2>7 DEF ReceiveFirst, CanType
  <2> QED
    BY <2>4, <2>6, <2>8 DEF TypeOK
<1>6. CASE ReceiveConsecutive
  <2> DEFINE bytesToGet == IF MFL < 7 THEN MFL ELSE 7
  <2>1. UplinkType' /\ CanType'
    <3>1. UplinkType'
      BY <1>3, <1>6, SweepKeepsUplinkType DEF ReceiveConsecutive, TypeOK, udpVars
    <3>2. CanType'
      BY <1>1, <1>3, <1>6 DEF ReceiveConsecutive, CanType
    <3> QED
      BY <3>1, <3>2
  <2>2. CASE bytesToGet < 0
    <3>1. UNCHANGED <<vehicle_data, vehicle_size, MFL, currentPID, asked>>
      BY <1>6, <2>2 DEF ReceiveConsecutive
    <3> QED
      BY <1>3, <1>4, <2>1, <3>1 DEF TypeOK
  <2>3. CASE ~(bytesToGet < 0)
    <3>1. bytesToGet \in Nat
      BY <1>3, <2>3
    <3>2. /\ vehicle_data' = Append(vehicle_data, Chunk(Head(obd_msgq), bytesToGet))
          /\ vehicle_size' = vehicle_size + bytesToGet
          /\ MFL' = MFL - bytesToGet
          /\ UNCHANGED <<currentPID, asked>>
      BY <1>6, <2>3 DEF ReceiveConsecutive
    <3>3. \A c \in ChunkSet : Append(vehicle_data, c) \in Seq(ChunkSet)
      BY <1>3
    <3> HIDE DEF bytesToGet
    <3>4. vehicle_data' \in Seq(ChunkSet) /\ vehicle_size' \in Nat /\ MFL' \in Int
      BY <1>2, <1>3, <3>1, <3>2, <3>3
    <3> QED
      BY <1>4, <2>1, <3>2, <3>4 DEF TypeOK
  <2> QED
    BY <2>2, <2>3
<1>7. CASE ReceiveSingle
  <2>1. \A c \in ChunkSet : Append(vehicle_data, c) \in Seq(ChunkSet)
    BY <1>3
  <2>2. vehicle_data' \in Seq(ChunkSet)
    BY <1>2, <1>7, <2>1 DEF ReceiveSingle
  <2>3. vehicle_size' \in Nat /\ MFL' \in Int
    BY <1>2, <1>3, <1>7 DEF ReceiveSingle
  <2>4. SweepType'
    BY <1>4, <1>7, <2>2, <2>3 DEF ReceiveSingle
  <2>5. UplinkType'
    BY <1>3, <1>7, SweepKeepsUplinkType DEF ReceiveSingle, TypeOK, udpVars
  <2>6. CanType'
    BY <1>1, <1>3, <1>7 DEF ReceiveSingle, CanType
  <2> QED
    BY <2>4, <2>5, <2>6 DEF TypeOK
<1> QED
  BY <1>5, <1>6, <1>7

\* The start of a sweep and the moves from one PID to the next.
LEMMA SweepMoveType ==
    ASSUME TypeOK, SweepStart \/ SkipPID \/ Timeout
    PROVE  TypeOK'
<1> USE DEF TypeOK
<1>1. UplinkType'
  BY SweepKeepsUplinkType DEF UplinkType, SweepStart, SkipPID, Timeout, Advance, udpVars
<1>2. CanType'
  BY DEF CanType, SweepStart, SkipPID, Timeout, Advance, canVars
<1>3. SweepType'
  <2>1. CASE SweepStart
    BY <2>1, TrackerAssumption DEF SweepStart, SweepType, Sweeping, PIDs, ImuLen
  <2>2. CASE SkipPID \/ Timeout
    BY <2>2, TrackerAssumption DEF SkipPID, Timeout, Advance, SweepType, Sweeping, PIDs
  <2> QED
    BY <2>1, <2>2
<1> QED
  BY <1>1, <1>2, <1>3

\* The CAN driver.
LEMMA CanStepType ==
    ASSUME TypeOK, Can
    PROVE  TypeOK'
<1> USE DEF TypeOK
<1>1. UplinkType' /\ SweepType'
  <2>1. UplinkType'
    BY DEF Can, Deliver, OtherTraffic, UplinkType, gnssVars, modemVars, udpVars
  <2>2. SweepType'
    BY DEF Can, Deliver, OtherTraffic, SweepType, Sweeping, sweepVars
  <2> QED
    BY <2>1, <2>2
<1>2. ASSUME NEW f \in Formats, Deliver(f)
      PROVE  CanType'
  <2>1. Head(bus[f]) \in Frame /\ Tail(bus[f]) \in Seq(Frame)
    BY <1>2 DEF Deliver, CanType
  <2>2. obd_msgq' \in Seq(Frame) /\ Len(obd_msgq') <= MsgqSize
    BY <1>2, <2>1, TrackerAssumption DEF Deliver, CanType
  <2>3. bus' \in [Formats -> Seq(Frame)]
    BY <1>2, <2>1 DEF Deliver, CanType
  <2> QED
    BY <1>2, <2>2, <2>3 DEF Deliver, CanType
<1>3. ASSUME OtherTraffic
      PROVE  CanType'
  BY <1>3, TrackerAssumption DEF OtherTraffic, CanType
<1> QED
  BY <1>1, <1>2, <1>3 DEF Can

LEMMA NextType == TypeOK /\ [Next]_vars => TypeOK'
<1> SUFFICES ASSUME TypeOK, [Next]_vars
             PROVE  TypeOK'
  OBVIOUS
<1>1. CASE UNCHANGED vars
  BY <1>1 DEF TypeOK, UplinkType, SweepType, CanType, Sweeping, vars, gnssVars, modemVars,
              udpVars, sweepVars, canVars
<1>2. CASE Next
  BY <1>2, SendingType, RequestType, ReceiveType, SweepMoveType, CanStepType DEF Next, Main, MainStep
<1> QED
  BY <1>1, <1>2

\* The variables of the tracker stay in their ranges, whatever the car and the modem
\* do (main.c 20-42, 356-471).
THEOREM TypeCorrect == Spec => []TypeOK
BY InitType, NextType, PTL DEF Spec

-----------------------------------------------------------------------------
(* No announcement is lost, and datagrams are fresh. *)

LEMMA InitIInv == Init => IInv
<1> SUFFICES ASSUME Init PROVE IInv
  OBVIOUS
<1>1. TypeOK
  BY InitType
<1>2. CopyInv /\ NoWakeLost /\ FreshDatagram
  BY DEF Init, CopyInv, NoWakeLost, FreshDatagram
<1> QED
  BY <1>1, <1>2 DEF IInv

\* A step of the sweep or of the CAN side touches nothing the argument is about
\* but pc, which it moves only between the loop and the sweep, or to the halt.
LEMMA SweepKeepsIInv ==
    ASSUME IInv, TypeOK',
           UNCHANGED <<gnss_ready, gnss_data, gnss_size, uncopied, udp_data, announced, sent>>,
           \/ pc' = pc
           \/ /\ pc \in {"loop", "STANDARD", "EXTENDED", "drain"}
              /\ pc' \in {"loop", "STANDARD", "EXTENDED", "drain", "halted"}
    PROVE  IInv'
BY DEF IInv, CopyInv, NoWakeLost, FreshDatagram, Copying

LEMMA NextIInv == IInv /\ [Next]_vars => IInv'
<1> SUFFICES ASSUME IInv, [Next]_vars
             PROVE  IInv'
  OBVIOUS
<1>0. TypeOK'
  BY NextType DEF IInv
<1>t. /\ gnss_data \in Nat /\ announced \in Nat /\ announced <= gnss_data
      /\ fixes \in Nat /\ gnss_data <= fixes /\ gnss_ready \in {0, 1}
      /\ \A r \in Regions : udp_data[r] \in Nat /\ udp_data[r] <= gnss_data
      /\ udp_data \in [Regions -> Nat] /\ sent \in [Regions -> Nat]
      /\ GnssLen \in Nat \ {0} /\ uncopied \subseteq Regions
  BY TrackerAssumption DEF IInv, TypeOK, UplinkType
<1> USE DEF IInv, CopyInv
<1>1. CASE UNCHANGED vars
  BY <1>0, <1>1, SweepKeepsIInv DEF vars, gnssVars, modemVars, udpVars
<1>2. CASE PvtFix
  BY <1>0, <1>2, <1>t DEF PvtFix, gnssVars, udpVars, NoWakeLost, FreshDatagram, Copying
<1>3. CASE SleepAfterFix
  BY <1>0, <1>3, <1>t DEF SleepAfterFix, gnssVars, udpVars, NoWakeLost, FreshDatagram
<1>4. CASE PeriodicWakeup
  BY <1>0, <1>4, SweepKeepsIInv DEF PeriodicWakeup, gnssVars, udpVars
<1>5. CASE TakeReady
  <2>1. gnss_size = 0 => announced = 0
    BY <1>t
  <2>2. \A r \in Regions \ uncopied' : udp_data'[r] >= announced'
    BY <1>5, <1>t, <2>1 DEF TakeReady, modemVars
  <2> QED
    BY <1>0, <1>5, <2>2 DEF TakeReady, gnssVars, modemVars, NoWakeLost, FreshDatagram, Copying
<1>6. CASE CopyRegion
  <2>1. PICK r \in uncopied : /\ udp_data' = [udp_data EXCEPT ![r] = gnss_data]
                              /\ uncopied' = uncopied \ {r}
    BY <1>6 DEF CopyRegion
  <2>2. UNCHANGED <<pc, gnss_ready, gnss_data, gnss_size, announced, sent>> /\ pc = "copy"
    BY <1>6 DEF CopyRegion, gnssVars, modemVars
  <2>3. \A s \in Regions : udp_data'[s] >= udp_data[s] /\ udp_data'[s] \in Nat
    BY <1>t, <2>1
  <2>4. gnss_ready = 0 => \A s \in Regions \ uncopied' : udp_data'[s] >= announced
    BY <1>t, <2>1, <2>2, <2>3
  <2>5. \A s \in Regions : sent'[s] <= udp_data'[s]
    BY <1>t, <2>2, <2>3
  <2> QED
    BY <1>0, <2>2, <2>4, <2>5 DEF NoWakeLost, FreshDatagram, Copying
<1>7. CASE AppendVehicle
  BY <1>0, <1>7 DEF AppendVehicle, gnssVars, modemVars, NoWakeLost, FreshDatagram, Copying
<1>8. CASE SendOk
  BY <1>0, <1>8, <1>t DEF SendOk, gnssVars, modemVars, udpVars, NoWakeLost, FreshDatagram,
                          Copying
<1>9. CASE SendFails \/ Overrun
  BY <1>0, <1>9 DEF SendFails, Overrun, gnssVars, modemVars, udpVars, NoWakeLost, FreshDatagram
<1>10. CASE SweepStart \/ RequestStandard \/ RequestExtended \/ ReceiveFirst
              \/ ReceiveSingle \/ SkipPID \/ Timeout
  BY <1>0, <1>10, SweepKeepsIInv
  DEF SweepStart, RequestStandard, RequestExtended, ReceiveFirst, ReceiveSingle, SkipPID,
      Timeout, Advance, gnssVars, modemVars, udpVars
<1>11. CASE ReceiveConsecutive
  <2>1. pc' = pc \/ (pc = "drain" /\ pc' = "halted")
    BY <1>11 DEF ReceiveConsecutive
  <2> QED
    BY <1>0, <1>11, <2>1, SweepKeepsIInv DEF ReceiveConsecutive, gnssVars, modemVars, udpVars
<1>12. CASE Can
  BY <1>0, <1>12, SweepKeepsIInv DEF Can, Deliver, OtherTraffic, gnssVars, modemVars, udpVars
<1> QED
  BY <1>1, <1>2, <1>3, <1>4, <1>5, <1>6, <1>7, <1>8, <1>9, <1>10, <1>11, <1>12
  DEF Next, Main, MainStep, GnssEventHandler

\* Coalescing announcements loses none of them: while main waits, none is newer than
\* the one it served last (main.c 32, 242-244, 356-371).
THEOREM NoneLost == Spec => []NoWakeLost
<1>1. IInv => NoWakeLost
  BY DEF IInv
<1> QED
  BY <1>1, InitIInv, NextIInv, PTL DEF Spec

\* A datagram torn by the interrupt handler is never older than the announcement it
\* answers (main.c 183-199, 358).
THEOREM Freshness == Spec => []FreshDatagram
<1>1. IInv => FreshDatagram
  BY DEF IInv
<1> QED
  BY <1>1, InitIInv, NextIInv, PTL DEF Spec

\* A step never replaces a region of the last datagram by an older fix.
LEMMA StepForward ==
    ASSUME IInv, [Next]_vars
    PROVE  [\A r \in Regions : sent'[r] >= sent[r]]_vars
<1>1. \A r \in Regions : sent[r] \in Nat /\ udp_data[r] \in Nat /\ sent[r] <= udp_data[r]
  BY DEF IInv, TypeOK, UplinkType, CopyInv
<1>2. sent' = sent \/ sent' = udp_data
  BY DEF Next, Main, MainStep, GnssEventHandler, Can, PvtFix, SleepAfterFix, PeriodicWakeup,
         TakeReady, CopyRegion, AppendVehicle, SendOk, SendFails, SweepStart, RequestStandard,
         RequestExtended, ReceiveFirst, ReceiveConsecutive, ReceiveSingle, SkipPID, Timeout,
         Advance, Overrun, Deliver, OtherTraffic, vars
<1> QED
  BY <1>1, <1>2

\* Successive datagrams never go back in time, region by region (main.c 356-371).
THEOREM Monotone == Spec => NeverBackwards
BY InitIInv, NextIInv, StepForward, PTL DEF Spec, NeverBackwards

-----------------------------------------------------------------------------
(* The refinement of Uplink. *)

LEMMA InitRegister == Init => Register!Init
BY DEF Init, Register!Init, Copying

\* A step of the sweep or of the CAN side is a stutter of the register, or its end.
LEMMA SweepStutters ==
    ASSUME UNCHANGED <<gnss_ready, announced, fixes, sent>>,
           \/ pc' = pc
           \/ /\ pc \in {"loop", "STANDARD", "EXTENDED", "drain"}
              /\ pc' \in {"loop", "STANDARD", "EXTENDED", "drain", "halted"}
    PROVE  Register!Stop \/ UNCHANGED Register!uplinkVars
BY DEF Register!Stop, Register!uplinkVars, Copying

LEMMA NextRegister == IInv /\ [Next]_vars => [Register!Next]_(Register!uplinkVars)
<1> SUFFICES ASSUME IInv, [Next]_vars
             PROVE  Register!Next \/ UNCHANGED Register!uplinkVars
  OBVIOUS
<1>t. /\ gnss_data \in Nat /\ announced \in Nat /\ announced <= gnss_data
      /\ fixes \in Nat /\ gnss_data <= fixes /\ gnss_ready \in {0, 1}
      /\ udp_data \in [Regions -> 0..gnss_data]
  BY DEF IInv, TypeOK, UplinkType
<1> USE DEF Register!Next, Copying
<1>1. CASE UNCHANGED vars
  BY <1>1 DEF vars, modemVars, Register!uplinkVars
<1>2. CASE PvtFix
  BY <1>2 DEF PvtFix, Register!Measure
<1>3. CASE SleepAfterFix
  <2>1. announced' \in announced..fixes
    BY <1>3, <1>t DEF SleepAfterFix
  <2> QED
    BY <1>3, <2>1 DEF SleepAfterFix, Register!Announce
<1>4. CASE PeriodicWakeup
  BY <1>4 DEF PeriodicWakeup, Register!uplinkVars
<1>5. CASE TakeReady
  BY <1>5 DEF TakeReady, modemVars, Register!Serve
<1>6. CASE CopyRegion \/ AppendVehicle
  BY <1>6 DEF CopyRegion, AppendVehicle, modemVars, Register!uplinkVars
<1>7. CASE SendOk
  <2>1. sent' = udp_data /\ udp_data \in [Regions -> 0..fixes]
    BY <1>7, <1>t DEF SendOk
  <2>2. \A r \in Regions : udp_data[r] >= sent[r]
    BY <1>t DEF IInv, TypeOK, UplinkType, CopyInv
  <2>3. gnss_ready = 1 \/ \A r \in Regions : udp_data[r] >= announced
    BY <1>7, <1>t DEF SendOk, IInv, FreshDatagram
  <2>4. pc = "send" /\ pc' = "loop" /\ UNCHANGED <<fixes, announced, gnss_ready>>
    BY <1>7 DEF SendOk, modemVars
  <2> QED
    BY <2>1, <2>2, <2>3, <2>4 DEF Register!Show
<1>8. CASE SendFails \/ Overrun
  BY <1>8 DEF SendFails, Overrun, modemVars, Register!Stop
<1>9. CASE SweepStart \/ RequestStandard \/ RequestExtended \/ ReceiveFirst
             \/ ReceiveSingle \/ SkipPID \/ Timeout
  BY <1>9, SweepStutters
  DEF SweepStart, RequestStandard, RequestExtended, ReceiveFirst, ReceiveSingle, SkipPID,
      Timeout, Advance, modemVars
<1>10. CASE ReceiveConsecutive
  <2>1. pc' = pc \/ (pc = "drain" /\ pc' = "halted")
    BY <1>10 DEF ReceiveConsecutive
  <2> QED
    BY <1>10, <2>1, SweepStutters DEF ReceiveConsecutive, modemVars
<1>11. CASE Can
  BY <1>11, SweepStutters DEF Can, Deliver, OtherTraffic, modemVars
<1> QED
  BY <1>1, <1>2, <1>3, <1>4, <1>5, <1>6, <1>7, <1>8, <1>9, <1>10, <1>11
  DEF Next, Main, MainStep, GnssEventHandler

\* The tracker implements Uplink for every car, buffer size, queue size and set of
\* faults: a register that only moves forward and answers every announcement.
THEOREM ImplementsRegister == Spec => ImplementsUplink
BY InitRegister, InitIInv, NextIInv, NextRegister, PTL DEF Spec, ImplementsUplink, Register!Spec

-----------------------------------------------------------------------------
(***************************************************************************)
(* One sweep, for every car, queue capacity and buffer size: on a punctual *)
(* bus each request is answered once in the report, whole, and the report  *)
(* stays within its buffer.                                                *)
(***************************************************************************)


\* Frames of an answer that are in obd_msgq or on their way at a time: a single
\* frame, a first frame, or the consecutive ones main has asked for.
Follow(p) == IF Answer[p] <= 7 THEN 1 ELSE Answer[p] \div 7
Weight(p, f) == IF f \in PID_supported[p] THEN Follow(p) ELSE 0

\* The answers to one PID, on both formats, fit obd_msgq (structures.h 85).
QueueFits == \A p \in PIDs : Weight(p, "STANDARD") + Weight(p, "EXTENDED") <= MsgqSize

\* The bus main.c counts on: no answer comes after the 500 ms, the accept-all filter
\* lets in nothing else, and the driver has room for what is asked at a time.
Punctual == "late" \notin Faults /\ NoiseFrames = {} /\ QueueFits

\* What a PID adds to vehicle_data: length byte and bytes of a single frame, or all
\* bytes of a longer answer.
Bytes(p) == IF Answer[p] <= 7 THEN Answer[p] + 1 ELSE Answer[p]
Share(p, f) == IF f \in PID_supported[p] THEN Bytes(p) ELSE 0

\* room[p] is a bound on the answers to the PIDs up to p, and a datagram with them
\* fits udp_data and vehicle_data.  For a given car it is the sum of the shares.
ReportFits(room) ==
    /\ room \in [0..LastPID -> Nat]
    /\ \A p \in PIDs : room[p - 1] + Share(p, "STANDARD") + Share(p, "EXTENDED") <= room[p]
    /\ \A p \in 0..LastPID : GnssLen + ImuLen + room[p] <= Cap

\* Requests of this sweep that have their answer in vehicle_data; the request of the
\* current PID; one that waits for its answer.
Replied == {Request(i) : i \in Entries}
Current(f) == <<currentPID, f>>
Open(f) == Current(f) \in Requests /\ Current(f) \notin Replied

\* Only supported PIDs up to the current one were asked for; every earlier one has
\* been answered; and nothing was answered that was not asked for.
RequestInv ==
    /\ \A r \in Requests : /\ r[1] \in PIDs /\ r[1] <= currentPID
                           /\ r[2] \in PID_supported[r[1]]
                           /\ r[1] < currentPID => r \in Replied
    /\ Replied \subseteq Requests
    /\ pc \notin {"EXTENDED", "drain", "halted"} => \A f \in Formats : Current(f) \notin Requests
    /\ pc = "EXTENDED" => /\ Current("EXTENDED") \notin Requests
                          /\ Current("STANDARD") \notin Replied

\* The report's entries are in the order of the PIDs, and no two of one request.
InOrder ==
    \A i, j \in Entries : i < j => /\ vehicle_data[i].pid <= vehicle_data[j].pid
                                   /\ Request(i) # Request(j)

\* How often the beginning of an answer of format f occurs in a queue.
IsReply(frame, f) == frame.kind # "consecutive" /\ frame.ide = f
None(q, f) == \A i \in 1..Len(q) : ~IsReply(q[i], f)
One(q, f) == \E i \in 1..Len(q) : /\ IsReply(q[i], f)
                                  /\ \A j \in 1..Len(q) : IsReply(q[j], f) => j = i

\* All that is under way belongs to the current PID.
OfCurrent(frame) ==
    /\ frame.pid = currentPID
    /\ frame.kind # "consecutive" => frame = AnswerFrame(currentPID, frame.ide)
OnlyCurrent ==
    /\ \A i \in 1..Len(obd_msgq) : OfCurrent(obd_msgq[i])
    /\ \A f \in Formats : \A i \in 1..Len(bus[f]) : OfCurrent(bus[f][i]) /\ bus[f][i].ide = f

\* An open request's answer is alone on the bus or once in the queue; no other
\* request has one.
ComesOnce(f) ==
    IF Open(f)
    THEN \/ None(obd_msgq, f) /\ bus[f] = <<AnswerFrame(currentPID, f)>>
         \/ One(obd_msgq, f) /\ bus[f] = <<>>
    ELSE None(obd_msgq, f) /\ None(bus[f], f)

\* Frames under way are at most what the requests may have under way, so that the
\* driver never drops one of them.
OnBus(f) == Len(bus[f])
InFlight == Len(obd_msgq) + OnBus("STANDARD") + OnBus("EXTENDED")
Load(f) == IF Current(f) \notin Requests THEN 0
           ELSE IF Current(f) \notin Replied THEN 1 ELSE Follow(currentPID)
FlightInv ==
    /\ OnlyCurrent
    /\ \A f \in Formats : ComesOnce(f)
    /\ InFlight <= Load("STANDARD") + Load("EXTENDED")

SweepInv == RequestInv /\ InOrder /\ FlightInv

\* The length of a long answer fits the one byte main reads it from.
LengthsFit == \A p \in PIDs : Answer[p] < 256

\* main never waits for a negative number of bytes.
MFLInv == MFL >= 0

\* Frames under way are of formats the current PID was asked on.
Sought ==
    /\ \A i \in 1..Len(obd_msgq) : Current(obd_msgq[i].ide) \in Requests
    /\ \A f \in Formats : bus[f] # <<>> => Current(f) \in Requests

\* The answer of the current PID that main is taking: n pieces of it stand at the end
\* of vehicle_data, the others are all that is under way, and MFL is their length.
Unfinished(i) ==
    /\ pc \in {"drain", "halted"} /\ vehicle_data[i].pid = currentPID
    /\ \E n \in 0..(Pieces(currentPID) - 1) :
          /\ Stands(i, n) /\ Len(vehicle_data) = i + n
          /\ InFlight = Pieces(currentPID) - n
          /\ MFL = Answer[currentPID] - 6 - 7 * n

WholeInv ==
    /\ Sought
    /\ \A i \in Entries : Alone(i) => Stands(i, Pieces(vehicle_data[i].pid)) \/ Unfinished(i)

\* The bytes in the report, those of requests that have none yet, and those of a
\* multi-frame answer still to come have room up to the current PID.
Owed(f) == IF f \in PID_supported[currentPID] /\ Current(f) \notin Replied
           THEN Bytes(currentPID) ELSE 0
SizeInv(room) ==
    /\ pc \in {"loop", "copy", "send"} => vehicle_size <= ImuLen + room[LastPID]
    /\ pc = "halted" => vehicle_size <= Cap
    /\ Sweeping => vehicle_size + Owed("STANDARD") + Owed("EXTENDED")
                     + (IF pc = "drain" THEN MFL ELSE 0) <= ImuLen + room[currentPID]

-----------------------------------------------------------------------------
(* Queues. *)

\* What becomes of a queue that is read from or added to.
LEMMA Queue ==
    ASSUME NEW S, NEW q \in Seq(S)
    PROVE  /\ Len(q) \in Nat
           /\ q = <<>> <=> Len(q) = 0
           /\ q # <<>> =>
                 /\ Head(q) = q[1] /\ Head(q) \in S
                 /\ Tail(q) \in Seq(S) /\ Len(Tail(q)) = Len(q) - 1
                 /\ \A i \in 1..Len(Tail(q)) : Tail(q)[i] = q[i + 1] /\ i + 1 \in 1..Len(q)
           /\ \A x \in S :
                 /\ Append(q, x) \in Seq(S) /\ Len(Append(q, x)) = Len(q) + 1
                 /\ Append(q, x)[Len(q) + 1] = x
                 /\ \A i \in 1..Len(q) : Append(q, x)[i] = q[i]
OBVIOUS

\* What every element of a queue satisfies its elements still satisfy.
LEMMA NoneTail ==
    ASSUME NEW q \in Seq(Frame), q # <<>>, NEW f, None(q, f)
    PROVE  None(Tail(q), f) /\ ~IsReply(Head(q), f)
<1>1. Head(q) = q[1] /\ 1 \in 1..Len(q)
  BY Queue
<1>2. \A i \in 1..Len(Tail(q)) : Tail(q)[i] = q[i + 1] /\ i + 1 \in 1..Len(q)
  BY Queue
<1> QED
  BY <1>1, <1>2 DEF None

\* What taking the head does to a queue that holds one reply.
LEMMA OneTail ==
    ASSUME NEW q \in Seq(Frame), q # <<>>, NEW f, One(q, f)
    PROVE  /\ IsReply(Head(q), f) => None(Tail(q), f)
           /\ ~IsReply(Head(q), f) => One(Tail(q), f)
<1>1. Head(q) = q[1] /\ 1 \in 1..Len(q) /\ Len(q) \in Nat /\ Len(Tail(q)) = Len(q) - 1
  BY Queue
<1>2. \A i \in 1..Len(Tail(q)) : Tail(q)[i] = q[i + 1] /\ i + 1 \in 1..Len(q)
  BY Queue
<1>3. PICK k \in 1..Len(q) : /\ IsReply(q[k], f)
                             /\ \A j \in 1..Len(q) : IsReply(q[j], f) => j = k
  BY DEF One
<1>4. CASE IsReply(Head(q), f)
  <2>1. k = 1
    BY <1>1, <1>3, <1>4
  <2>2. \A i \in 1..Len(Tail(q)) : i + 1 # 1
    BY <1>1
  <2> QED
    BY <1>2, <1>3, <1>4, <2>1, <2>2 DEF None
<1>5. CASE ~IsReply(Head(q), f)
  <2>1. k # 1
    BY <1>1, <1>3, <1>5
  <2>2. k - 1 \in 1..Len(Tail(q)) /\ (k - 1) + 1 = k
    BY <1>1, <2>1
  <2>3. IsReply(Tail(q)[k - 1], f)
    BY <1>2, <1>3, <2>2
  <2>4. \A j \in 1..Len(Tail(q)) : IsReply(Tail(q)[j], f) => j = k - 1
    BY <1>2, <1>3
  <2> QED
    BY <1>5, <2>2, <2>3, <2>4 DEF One
<1> QED
  BY <1>4, <1>5

\* What appending a frame does to a queue that holds no reply.
LEMMA NoneAppend ==
    ASSUME NEW q \in Seq(Frame), NEW f, None(q, f), NEW x \in Frame
    PROVE  /\ ~IsReply(x, f) => None(Append(q, x), f)
           /\ IsReply(x, f) => One(Append(q, x), f)
<1>1. /\ Len(q) \in Nat /\ Len(Append(q, x)) = Len(q) + 1
      /\ Append(q, x)[Len(q) + 1] = x
      /\ \A i \in 1..Len(q) : Append(q, x)[i] = q[i]
  BY Queue
<1>2. \A i \in 1..Len(Append(q, x)) : i \in 1..Len(q) \/ i = Len(q) + 1
  BY <1>1
<1>3. Len(q) + 1 \in 1..Len(Append(q, x))
  BY <1>1
<1> QED
  BY <1>1, <1>2, <1>3 DEF None, One

\* The same for a queue that holds one reply.
LEMMA OneAppend ==
    ASSUME NEW q \in Seq(Frame), NEW f, One(q, f), NEW x \in Frame, ~IsReply(x, f)
    PROVE  One(Append(q, x), f)
<1>1. /\ Len(q) \in Nat /\ Len(Append(q, x)) = Len(q) + 1
      /\ Append(q, x)[Len(q) + 1] = x
      /\ \A i \in 1..Len(q) : Append(q, x)[i] = q[i]
  BY Queue
<1>2. \A i \in 1..Len(Append(q, x)) : i \in 1..Len(q) \/ i = Len(q) + 1
  BY <1>1
<1>3. PICK k \in 1..Len(q) : /\ IsReply(q[k], f)
                             /\ \A j \in 1..Len(q) : IsReply(q[j], f) => j = k
  BY DEF One
<1>4. k \in 1..Len(Append(q, x)) /\ IsReply(Append(q, x)[k], f)
  BY <1>1, <1>3
<1>5. \A j \in 1..Len(Append(q, x)) : IsReply(Append(q, x)[j], f) => j = k
  BY <1>1, <1>2, <1>3
<1> QED
  BY <1>4, <1>5 DEF One

\* There is none in an empty queue, and one in a queue is not none.
LEMMA NoneOrOne ==
    ASSUME NEW q \in Seq(Frame), NEW f
    PROVE  /\ q = <<>> => None(q, f)
           /\ One(q, f) => ~None(q, f) /\ Len(q) >= 1
BY DEF None, One

-----------------------------------------------------------------------------
(* The frames on their way. *)

\* The types of what is under way.
LEMMA FlightTypes ==
    ASSUME TypeOK
    PROVE  /\ obd_msgq \in Seq(Frame) /\ Len(obd_msgq) \in Nat /\ Len(obd_msgq) <= MsgqSize
           /\ \A f \in Formats : bus[f] \in Seq(Frame) /\ OnBus(f) \in Nat
           /\ InFlight \in Nat
           /\ \A f \in Formats : InFlight >= Len(obd_msgq) + OnBus(f)
           /\ InFlight = 0 <=> obd_msgq = <<>> /\ \A f \in Formats : bus[f] = <<>>
<1>1. obd_msgq \in Seq(Frame) /\ Len(obd_msgq) <= MsgqSize /\ bus \in [Formats -> Seq(Frame)]
  BY DEF TypeOK, CanType
<1>2. Len(obd_msgq) \in Nat /\ (obd_msgq = <<>> <=> Len(obd_msgq) = 0)
  BY <1>1, Queue
<1>3. ASSUME NEW f \in Formats
      PROVE  bus[f] \in Seq(Frame) /\ OnBus(f) \in Nat /\ (bus[f] = <<>> <=> OnBus(f) = 0)
  <2>1. bus[f] \in Seq(Frame)
    BY <1>1
  <2> QED
    BY <2>1, Queue DEF OnBus
<1>4. /\ OnBus("STANDARD") \in Nat /\ (bus["STANDARD"] = <<>> <=> OnBus("STANDARD") = 0)
      /\ OnBus("EXTENDED") \in Nat /\ (bus["EXTENDED"] = <<>> <=> OnBus("EXTENDED") = 0)
  BY <1>3 DEF Formats
<1>5. InFlight = 0 <=> obd_msgq = <<>> /\ OnBus("STANDARD") = 0 /\ OnBus("EXTENDED") = 0
  BY <1>2, <1>4 DEF InFlight
<1> QED
  BY <1>1, <1>2, <1>3, <1>4, <1>5 DEF InFlight, Formats

\* What an answer takes up.
LEMMA FollowType ==
    ASSUME NEW p \in PIDs
    PROVE  /\ Follow(p) \in Nat /\ Follow(p) >= 1 /\ Bytes(p) \in Nat /\ Answer[p] \in Nat
           /\ Answer[p] > 7 => Follow(p) = Answer[p] \div 7
<1>1. Answer[p] \in Nat \ {0}
  BY TrackerAssumption
<1> QED
  BY <1>1, SMT DEF Follow, Bytes

\* What the formats of the current PID may have in flight fits the queue.
LEMMA LoadFits ==
    ASSUME TypeOK, RequestInv, QueueFits
    PROVE  /\ Load("STANDARD") \in Nat /\ Load("EXTENDED") \in Nat
           /\ Load("STANDARD") + Load("EXTENDED") <= MsgqSize
<1>0. currentPID \in Nat /\ MsgqSize \in Nat
  BY TrackerAssumption DEF TypeOK, SweepType
<1>1. ASSUME NEW f \in Formats, Current(f) \in Requests
      PROVE  currentPID \in PIDs /\ f \in PID_supported[currentPID]
  BY <1>1 DEF RequestInv, Current
<1>2. CASE currentPID \in PIDs
  <2>1. ASSUME NEW f \in Formats
        PROVE  Load(f) \in Nat /\ Weight(currentPID, f) \in Nat /\ Load(f) <= Weight(currentPID, f)
    BY <1>1, <1>2, FollowType DEF Load, Weight
  <2>2. Weight(currentPID, "STANDARD") + Weight(currentPID, "EXTENDED") <= MsgqSize
    BY <1>2 DEF QueueFits
  <2>3. /\ Load("STANDARD") \in Nat /\ Load("STANDARD") <= Weight(currentPID, "STANDARD")
        /\ Load("EXTENDED") \in Nat /\ Load("EXTENDED") <= Weight(currentPID, "EXTENDED")
        /\ Weight(currentPID, "STANDARD") \in Nat /\ Weight(currentPID, "EXTENDED") \in Nat
    BY <2>1 DEF Formats
  <2> QED
    BY <1>0, <2>2, <2>3
<1>3. CASE currentPID \notin PIDs
  <2>1. Load("STANDARD") = 0 /\ Load("EXTENDED") = 0
    BY <1>1, <1>3 DEF Load, Formats
  <2> QED
    BY <1>0, <2>1
<1> QED
  BY <1>2, <1>3

\* Before its requests and after a PID's timeout nothing is in flight.
LEMMA Empty ==
    ASSUME TypeOK, RequestInv, FlightInv, pc \notin {"EXTENDED", "drain", "halted"}
    PROVE  InFlight = 0
<1>1. Load("STANDARD") = 0 /\ Load("EXTENDED") = 0
  BY DEF RequestInv, Load, Formats
<1>2. InFlight \in Nat
  BY FlightTypes
<1> QED
  BY <1>1, <1>2 DEF FlightInv

\* With nothing in flight every request has been answered.
LEMMA AllReplied ==
    ASSUME TypeOK, RequestInv, FlightInv, InFlight = 0
    PROVE  /\ \A f \in Formats : ~Open(f)
           /\ Replied = Requests
<1>1. obd_msgq = <<>> /\ \A f \in Formats : bus[f] = <<>>
  BY FlightTypes
<1>2. ASSUME NEW f \in Formats PROVE ~Open(f)
  <2>1. ~One(obd_msgq, f)
    BY <1>1 DEF One
  <2>2. bus[f] # <<AnswerFrame(currentPID, f)>>
    BY <1>1
  <2> QED
    BY <2>1, <2>2 DEF FlightInv, ComesOnce
<1>3. ASSUME NEW r \in Requests PROVE r \in Replied
  <2>1. r[1] \in Nat /\ currentPID \in Nat /\ r[1] <= currentPID
    BY DEF RequestInv, TypeOK, SweepType, PIDs
  <2>2. CASE r[1] = currentPID
    <3>1. r \in PIDs \X Formats
      BY DEF Requests, TypeOK, SweepType
    <3>2. r = Current(r[2]) /\ r[2] \in Formats
      BY <2>2, <3>1 DEF Current
    <3> QED
      BY <1>2, <3>2 DEF Open
  <2> QED
    BY <2>1, <2>2 DEF RequestInv
<1> QED
  BY <1>2, <1>3 DEF RequestInv

-----------------------------------------------------------------------------
(* Requests and report. *)

\* A request joins the requests.
LEMMA RequestAdded ==
    ASSUME TypeOK, NEW r \in PIDs \X Formats, asked' = Append(asked, r)
    PROVE  Requests' = Requests \union {r}
<1>1. asked \in Seq(PIDs \X Formats)
  BY DEF TypeOK, SweepType
<1>2. /\ Len(asked) \in Nat /\ Len(asked') = Len(asked) + 1 /\ asked'[Len(asked) + 1] = r
      /\ \A i \in 1..Len(asked) : asked'[i] = asked[i]
      /\ DOMAIN asked = 1..Len(asked) /\ DOMAIN asked' = 1..Len(asked')
  BY <1>1
<1>3. 1..Len(asked') = (1..Len(asked)) \union {Len(asked) + 1}
  BY <1>2
<1> QED
  BY <1>2, <1>3 DEF Requests

\* A report that does not change answers the same requests.
LEMMA ReportKept ==
    ASSUME vehicle_data' = vehicle_data
    PROVE  Replied' = Replied /\ (InOrder => InOrder')
BY DEF Replied, Entries, Request, InOrder

\* A chunk joins the report: a reply, or the continuation of one.
LEMMA ReportGrows ==
    ASSUME TypeOK, NEW c \in ChunkSet, vehicle_data' = Append(vehicle_data, c)
    PROVE  /\ c.kind = "consecutive" => Replied' = Replied /\ (InOrder => InOrder')
           /\ c.kind # "consecutive" =>
                 /\ Replied' = Replied \union {<<c.pid, c.ide>>}
                 /\ InOrder /\ <<c.pid, c.ide>> \notin Replied /\ (\A r \in Replied : r[1] <= c.pid)
                      => InOrder'
<1>1. vehicle_data \in Seq(ChunkSet)
  BY DEF TypeOK, SweepType
<1>0. PICK n \in Nat : n = Len(vehicle_data) + 1
  BY <1>1
<1>2. /\ n \in Nat /\ Len(vehicle_data') = n /\ vehicle_data'[n] = c
      /\ \A i \in 1..Len(vehicle_data) : vehicle_data'[i] = vehicle_data[i] /\ i < n
      /\ DOMAIN vehicle_data = 1..Len(vehicle_data) /\ DOMAIN vehicle_data' = 1..n
      /\ n \notin 1..Len(vehicle_data)
  BY <1>0, <1>1
<1>3. 1..n = (1..Len(vehicle_data)) \union {n}
  BY <1>0, <1>1
<1>4. Entries \subseteq 1..Len(vehicle_data)
  BY <1>2 DEF Entries
<1>5. \A i \in Entries : Request(i)' = Request(i) /\ vehicle_data'[i] = vehicle_data[i]
  BY <1>2, <1>4 DEF Request
<1>6. CASE c.kind = "consecutive"
  <2>1. Entries' = Entries
    BY <1>2, <1>3, <1>6 DEF Entries
  <2>2. Replied' = Replied
    BY <1>5, <2>1 DEF Replied
  <2>3. InOrder => InOrder'
    <3> SUFFICES ASSUME InOrder, NEW i \in Entries', NEW j \in Entries', i < j
                 PROVE  /\ vehicle_data'[i].pid <= vehicle_data'[j].pid
                        /\ Request(i)' # Request(j)'
      BY DEF InOrder
    <3>1. i \in Entries /\ j \in Entries
      BY <2>1
    <3>2. /\ vehicle_data'[i] = vehicle_data[i] /\ Request(i)' = Request(i)
          /\ vehicle_data'[j] = vehicle_data[j] /\ Request(j)' = Request(j)
      BY <1>5, <3>1
    <3>3. vehicle_data[i].pid <= vehicle_data[j].pid /\ Request(i) # Request(j)
      BY <3>1 DEF InOrder
    <3> QED
      BY <3>2, <3>3
  <2> QED
    BY <1>6, <2>2, <2>3
<1>7. CASE c.kind # "consecutive"
  <2>1. Entries' = Entries \union {n}
    BY <1>2, <1>3, <1>7 DEF Entries
  <2>2. Request(n)' = <<c.pid, c.ide>>
    BY <1>2 DEF Request
  <2>3. Replied' = Replied \union {<<c.pid, c.ide>>}
    BY <1>5, <2>1, <2>2 DEF Replied
  <2>4. ASSUME InOrder, <<c.pid, c.ide>> \notin Replied, \A r \in Replied : r[1] <= c.pid,
               NEW i \in Entries', NEW j \in Entries', i < j
        PROVE  vehicle_data'[i].pid <= vehicle_data'[j].pid /\ Request(i)' # Request(j)'
    <3>1. i \in Entries
      <4>1. i # n
        BY <1>2, <1>4, <2>1, <2>4
      <4> QED
        BY <2>1, <4>1
    <3>2. CASE j \in Entries
      BY <1>5, <2>4, <3>1, <3>2 DEF InOrder
    <3>3. CASE j = n
      <4>1. Request(i) \in Replied /\ Request(i)[1] = vehicle_data[i].pid
        BY <3>1 DEF Replied, Request
      <4>2. vehicle_data'[i] = vehicle_data[i] /\ Request(i)' = Request(i)
        BY <1>5, <3>1
      <4> QED
        BY <1>2, <2>2, <2>4, <3>3, <4>1, <4>2
    <3> QED
      BY <2>1, <3>2, <3>3
  <2> QED
    BY <1>7, <2>3, <2>4 DEF InOrder
<1> QED
  BY <1>6, <1>7

-----------------------------------------------------------------------------
(* The steps of a sweep. *)

\* Operators that only read the sweep's variables.
LEMMA SweepKept ==
    ASSUME UNCHANGED <<vehicle_data, currentPID, asked, obd_msgq, bus>>
    PROVE  /\ Requests' = Requests /\ Replied' = Replied
           /\ \A f : Current(f)' = Current(f) /\ Open(f)' = Open(f) /\ Load(f)' = Load(f)
           /\ InFlight' = InFlight
           /\ InOrder => InOrder'
           /\ FlightInv => FlightInv'
<1>1. Requests' = Requests /\ Replied' = Replied /\ (InOrder => InOrder')
  BY ReportKept DEF Requests
<1>2. \A f : Current(f)' = Current(f) /\ Open(f)' = Open(f)
  BY <1>1 DEF Current, Open
<1>3. \A f : Load(f)' = Load(f) /\ OnBus(f)' = OnBus(f)
  BY <1>1, <1>2 DEF Load, OnBus
<1>4. InFlight' = InFlight
  BY <1>3 DEF InFlight
<1>5. OnlyCurrent => OnlyCurrent'
  BY DEF OnlyCurrent, OfCurrent
<1>6. \A f : ComesOnce(f) => ComesOnce(f)'
  BY <1>2 DEF ComesOnce
<1>7. FlightInv => FlightInv'
  BY <1>3, <1>4, <1>5, <1>6 DEF FlightInv
<1> QED
  BY <1>1, <1>2, <1>3, <1>4, <1>7

\* The modem, main outside the sweep, and its end.
LEMMA Elsewhere ==
    ASSUME SweepInv, UNCHANGED <<vehicle_data, currentPID, asked, obd_msgq, bus>>,
           \/ pc' = pc \/ pc' = "halted"
           \/ pc \notin {"EXTENDED", "drain", "halted"} /\ pc' \notin {"EXTENDED", "drain"}
    PROVE  SweepInv'
<1>1. RequestInv'
  BY SweepKept DEF SweepInv, RequestInv
<1>2. InOrder' /\ FlightInv'
  BY SweepKept DEF SweepInv
<1> QED
  BY <1>1, <1>2 DEF SweepInv

\* With nothing in flight, and nothing asked for the PID that is current now.
LEMMA Afresh ==
    ASSUME TypeOK, InFlight = 0, UNCHANGED <<obd_msgq, bus>>,
           \A f \in Formats : (Current(f) \notin Requests)'
    PROVE  FlightInv'
<1>1. obd_msgq' = <<>> /\ \A f \in Formats : bus'[f] = <<>>
  BY FlightTypes
<1>2. OnlyCurrent'
  BY <1>1 DEF OnlyCurrent
<1>3. \A f \in Formats : ComesOnce(f)'
  <2> SUFFICES ASSUME NEW f \in Formats PROVE ComesOnce(f)'
    OBVIOUS
  <2>1. ~Open(f)'
    BY DEF Open
  <2>2. None(obd_msgq', f) /\ None(bus'[f], f)
    BY <1>1 DEF None
  <2> QED
    BY <2>1, <2>2 DEF ComesOnce
<1>4. InFlight' = 0
  BY DEF InFlight, OnBus
<1>5. Load("STANDARD")' = 0 /\ Load("EXTENDED")' = 0
  BY DEF Load, Formats
<1> QED
  BY <1>2, <1>3, <1>4, <1>5 DEF FlightInv

\* A sweep begins without requests and reports.
LEMMA SweepStartKeeps ==
    ASSUME TypeOK, SweepInv, SweepStart
    PROVE  SweepInv'
<1>1. InFlight = 0
  BY Empty DEF SweepInv, SweepStart
<1>2. Requests' = {} /\ Replied' = {} /\ Entries' = {}
  BY DEF SweepStart, Requests, Replied, Entries
<1>3. RequestInv' /\ InOrder'
  BY <1>2 DEF RequestInv, InOrder, SweepStart
<1>4. FlightInv'
  BY <1>1, <1>2, Afresh DEF SweepStart, canVars
<1> QED
  BY <1>3, <1>4 DEF SweepInv

\* On to the next PID.
LEMMA AdvanceKeeps ==
    ASSUME TypeOK, SweepInv, InFlight = 0, Advance
    PROVE  SweepInv'
<1>1. Requests' = Requests /\ Replied' = Replied /\ (InOrder => InOrder')
  BY ReportKept DEF Advance, Requests
<1>2. Replied = Requests
  BY AllReplied DEF SweepInv
<1>3. currentPID \in Nat /\ currentPID' = currentPID + 1
  BY DEF TypeOK, SweepType, Advance
<1>4. \A r \in Requests : r[1] \in Nat /\ r[1] <= currentPID
  BY DEF SweepInv, RequestInv, PIDs
<1>5. \A f : Current(f)' \notin Requests
  BY <1>3, <1>4 DEF Current
<1>6. RequestInv'
  <2>1. \A r \in Requests : r[1] <= currentPID'
    BY <1>3, <1>4
  <2>2. pc' \in {"loop", "STANDARD"}
    BY DEF Advance
  <2> QED
    BY <1>1, <1>2, <1>5, <2>1, <2>2 DEF SweepInv, RequestInv
<1>7. FlightInv'
  BY <1>1, <1>5, Afresh DEF Advance, canVars
<1> QED
  BY <1>1, <1>6, <1>7 DEF SweepInv

\* A PID that is skipped, and one that has been waited for.
LEMMA MoveOnKeeps ==
    ASSUME TypeOK, SweepInv, Punctual, SkipPID \/ Timeout
    PROVE  SweepInv'
<1>1. InFlight = 0
  <2>1. CASE SkipPID
    BY <2>1, Empty DEF SkipPID, SweepInv
  <2>2. CASE Timeout
    BY <2>2, FlightTypes DEF Timeout, Punctual
  <2> QED
    BY <2>1, <2>2
<1> QED
  BY <1>1, AdvanceKeeps DEF SkipPID, Timeout

\* The frames of the next state are of the current PID.
LEMMA StillCurrent ==
    ASSUME currentPID' = currentPID,
           \A i \in 1..Len(obd_msgq') : OfCurrent(obd_msgq'[i]),
           \A f \in Formats : \A i \in 1..Len(bus'[f]) : OfCurrent(bus'[f][i]) /\ bus'[f][i].ide = f
    PROVE  OnlyCurrent'
BY DEF OnlyCurrent, OfCurrent

\* What the two requests have in common.
RequestStep(f) ==
    /\ \/ f \in PID_supported[currentPID] /\ Send(f)
       \/ SkipFormat(f)
    /\ UNCHANGED <<currentPID, vehicle_data, obd_msgq>>

\* Nothing is on the bus of a format when it is asked.
LEMMA BusFree ==
    ASSUME TypeOK, SweepInv, NEW f \in Formats, pc = f
    PROVE  /\ Current(f) \notin Requests /\ Current(f) \notin Replied
           /\ bus[f] = <<>> /\ None(obd_msgq, f)
<1>1. Current(f) \notin Requests /\ Current(f) \notin Replied
  BY DEF SweepInv, RequestInv, Formats
<1>2. None(obd_msgq, f)
  BY <1>1 DEF SweepInv, FlightInv, ComesOnce, Open
<1>3. CASE f = "STANDARD"
  <2>1. InFlight = 0
    BY <1>3, Empty DEF SweepInv
  <2> QED
    BY <1>1, <1>2, <2>1, FlightTypes
<1>4. CASE f = "EXTENDED"
  <2>1. Load("EXTENDED") = 0 /\ Load("STANDARD") \in {0, 1}
    BY <1>1, <1>4 DEF Load, SweepInv, RequestInv
  <2>2. InFlight <= Load("STANDARD")
    BY <2>1 DEF SweepInv, FlightInv
  <2>3. /\ Len(obd_msgq) \in Nat /\ OnBus("STANDARD") \in Nat /\ OnBus("EXTENDED") \in Nat
    BY FlightTypes DEF Formats
  <2>4. CASE Open("STANDARD")
    <3>1. OnBus("STANDARD") = 1 \/ Len(obd_msgq) >= 1
      <4>1. CASE bus["STANDARD"] = <<AnswerFrame(currentPID, "STANDARD")>>
        BY <4>1 DEF OnBus
      <4>2. CASE One(obd_msgq, "STANDARD")
        BY <4>2, FlightTypes, NoneOrOne
      <4> QED
        BY <2>4, <4>1, <4>2 DEF SweepInv, FlightInv, ComesOnce, Formats
    <3>2. OnBus("EXTENDED") = 0
      BY <2>1, <2>2, <2>3, <3>1 DEF InFlight
    <3> QED
      BY <1>1, <1>2, <1>4, <3>2, FlightTypes, Queue DEF OnBus
  <2>5. CASE ~Open("STANDARD")
    <3>1. Load("STANDARD") = 0
      BY <1>4, <2>5 DEF Load, Open, SweepInv, RequestInv
    <3>2. InFlight = 0
      BY <2>2, <3>1, FlightTypes
    <3> QED
      BY <1>1, <1>2, <3>2, FlightTypes
  <2> QED
    BY <2>4, <2>5
<1> QED
  BY <1>3, <1>4 DEF Formats

\* A format that is requested, and one that is not.
LEMMA RequestKeeps ==
    ASSUME TypeOK, SweepInv, NEW f \in Formats, pc = f, currentPID \in PIDs, RequestStep(f)
    PROVE  /\ Replied' = Replied /\ InOrder' /\ FlightInv'
           /\ Requests \subseteq Requests'
           /\ \A r \in Requests' \ Requests : r = Current(f) /\ f \in PID_supported[currentPID]
           /\ (\A f2 \in Formats : ComesOnce(f2))'
<1>1. Replied' = Replied /\ InOrder'
  BY ReportKept DEF RequestStep, SweepInv
<1>2. CASE UNCHANGED <<bus, asked>>
  <2>1. FlightInv' /\ Requests' = Requests
    BY <1>2, SweepKept DEF RequestStep, SweepInv
  <2> QED
    BY <1>1, <2>1 DEF FlightInv
<1>3. CASE /\ f \in PID_supported[currentPID]
           /\ bus' = [bus EXCEPT ![f] = Append(@, AnswerFrame(currentPID, f))]
           /\ asked' = Append(asked, <<currentPID, f>>)
  <2> DEFINE answer == AnswerFrame(currentPID, f)
  <2>1. Requests' = Requests \union {Current(f)}
    BY <1>3, RequestAdded DEF Current
  <2>2. /\ Current(f) \notin Requests /\ Current(f) \notin Replied
        /\ bus[f] = <<>> /\ None(obd_msgq, f)
    BY BusFree
  <2>3. bus'[f] = <<answer>> /\ \A g \in Formats \ {f} : bus'[g] = bus[g]
    <3>1. bus \in [Formats -> Seq(Frame)]
      BY DEF TypeOK, CanType
    <3>2. bus'[f] = Append(<<>>, answer)
      BY <1>3, <2>2, <3>1
    <3> QED
      BY <1>3, <3>1, <3>2
  <2>4. obd_msgq' = obd_msgq /\ currentPID' = currentPID /\ \A g : Current(g)' = Current(g)
    BY DEF RequestStep, Current
  <2>5. Open(f)' /\ \A g \in Formats \ {f} : Open(g)' = Open(g)
    <3>1. \A g \in Formats \ {f} : Current(g) # Current(f)
      BY DEF Current
    <3> QED
      BY <1>1, <2>1, <2>2, <2>4, <3>1 DEF Open
  <2>6. OnlyCurrent'
    <3>1. OfCurrent(answer) /\ answer.ide = f
      BY DEF OfCurrent, AnswerFrame
    <3>2. \A i \in 1..Len(bus'[f]) : bus'[f][i] = answer
      BY <2>3
    <3>3. \A g \in Formats : \A i \in 1..Len(bus'[g]) :
             OfCurrent(bus'[g][i]) /\ bus'[g][i].ide = g
      BY <2>3, <3>1, <3>2 DEF OnlyCurrent, SweepInv, FlightInv
    <3>4. \A i \in 1..Len(obd_msgq) : OfCurrent(obd_msgq[i])
      BY DEF OnlyCurrent, SweepInv, FlightInv
    <3> QED
      BY <2>4, <3>3, <3>4 DEF OnlyCurrent, OfCurrent
  <2>7. (\A g \in Formats : ComesOnce(g))'
    BY <2>2, <2>3, <2>4, <2>5 DEF ComesOnce, SweepInv, FlightInv
  <2>8. InFlight' <= Load("STANDARD")' + Load("EXTENDED")'
    <3>1. OnBus(f) = 0 /\ OnBus(f)' = 1 /\ \A g \in Formats \ {f} : OnBus(g)' = OnBus(g)
      BY <2>2, <2>3 DEF OnBus
    <3>2. Load(f) = 0 /\ Load(f)' = 1 /\ \A g \in Formats \ {f} : Load(g)' = Load(g)
      <4>1. \A g \in Formats \ {f} : Current(g) # Current(f)
        BY DEF Current
      <4> QED
        BY <1>1, <2>1, <2>2, <2>4, <4>1 DEF Load
    <3>3. Len(obd_msgq) \in Nat /\ OnBus("STANDARD") \in Nat /\ OnBus("EXTENDED") \in Nat
      BY FlightTypes DEF Formats
    <3>4. Load("STANDARD") \in Nat /\ Load("EXTENDED") \in Nat
      BY FollowType DEF Load
    <3>5. InFlight <= Load("STANDARD") + Load("EXTENDED")
      BY DEF SweepInv, FlightInv
    <3>6. Len(obd_msgq)' = Len(obd_msgq)
      BY <2>4
    <3>7. CASE f = "STANDARD"
      <4>1. /\ OnBus("STANDARD") = 0 /\ OnBus("STANDARD")' = 1 /\ OnBus("EXTENDED")' = OnBus("EXTENDED")
            /\ Load("STANDARD") = 0 /\ Load("STANDARD")' = 1 /\ Load("EXTENDED")' = Load("EXTENDED")
        BY <3>1, <3>2, <3>7 DEF Formats
      <4> QED
        BY <3>3, <3>4, <3>5, <3>6, <4>1 DEF InFlight
    <3>8. CASE f = "EXTENDED"
      <4>1. /\ OnBus("EXTENDED") = 0 /\ OnBus("EXTENDED")' = 1 /\ OnBus("STANDARD")' = OnBus("STANDARD")
            /\ Load("EXTENDED") = 0 /\ Load("EXTENDED")' = 1 /\ Load("STANDARD")' = Load("STANDARD")
        BY <3>1, <3>2, <3>8 DEF Formats
      <4> QED
        BY <3>3, <3>4, <3>5, <3>6, <4>1 DEF InFlight
    <3> QED
      BY <3>7, <3>8 DEF Formats
  <2> QED
    BY <1>1, <1>3, <2>1, <2>6, <2>7, <2>8 DEF FlightInv
<1> QED
  BY <1>2, <1>3 DEF RequestStep, Send, SkipFormat

\* The two requests, with what each of them sets besides.
LEMMA RequestsKeep ==
    ASSUME TypeOK, SweepInv, RequestStandard \/ RequestExtended
    PROVE  SweepInv'
<1>0. currentPID \in PIDs /\ currentPID \in Nat
  BY DEF RequestStandard, RequestExtended, TypeOK, SweepType, Sweeping, PIDs
<1>1. ASSUME NEW f \in Formats, pc = f, RequestStep(f), pc' \in {"EXTENDED", "drain"},
             pc' = "EXTENDED" => f = "STANDARD"
      PROVE  RequestInv'
  <2>1. /\ Replied' = Replied /\ Requests \subseteq Requests'
        /\ \A r \in Requests' \ Requests : r = Current(f) /\ f \in PID_supported[currentPID]
    BY <1>0, <1>1, RequestKeeps
  <2>2. currentPID' = currentPID /\ \A g : Current(g)' = Current(g)
    BY <1>1 DEF RequestStep, Current
  <2>3. \A r \in Requests' : /\ r[1] \in PIDs /\ r[1] <= currentPID
                             /\ r[2] \in PID_supported[r[1]]
                             /\ r[1] < currentPID => r \in Replied
    BY <1>0, <2>1 DEF Current, SweepInv, RequestInv
  <2>4. \/ Current("STANDARD") \notin Replied /\ Current("EXTENDED") \notin Requests
        \/ pc' # "EXTENDED"
    BY <1>1 DEF SweepInv, RequestInv, Formats
  <2>5. Replied \subseteq Requests
    BY DEF SweepInv, RequestInv
  <2>6. pc' = "EXTENDED" => Current("EXTENDED") \notin Requests'
    <3>1. Current("STANDARD") # Current("EXTENDED")
      BY DEF Current
    <3> QED
      BY <1>1, <2>1, <2>4, <3>1
  <2>7. pc' \in {"EXTENDED", "drain"}
    BY <1>1
  <2> QED
    BY <2>1, <2>2, <2>3, <2>4, <2>5, <2>6, <2>7 DEF RequestInv
<1>2. CASE RequestStandard
  <2>1. /\ RequestStep("STANDARD") /\ pc = "STANDARD" /\ pc' = "EXTENDED"
        /\ "STANDARD" \in Formats
    BY <1>2 DEF RequestStandard, RequestStep, Formats
  <2>2. RequestInv'
    BY <1>1, <2>1
  <2>3. InOrder' /\ FlightInv'
    BY <1>0, <2>1, RequestKeeps
  <2> QED
    BY <2>2, <2>3 DEF SweepInv
<1>3. CASE RequestExtended
  <2>1. /\ RequestStep("EXTENDED") /\ pc = "EXTENDED" /\ pc' = "drain"
        /\ "EXTENDED" \in Formats
    BY <1>3 DEF RequestExtended, RequestStep, Formats
  <2>2. RequestInv'
    BY <1>1, <2>1
  <2>3. InOrder' /\ FlightInv'
    BY <1>0, <2>1, RequestKeeps
  <2> QED
    BY <2>2, <2>3 DEF SweepInv
<1> QED
  BY <1>2, <1>3

\* Whose answer main takes from the queue.
LEMMA Taken ==
    ASSUME TypeOK, SweepInv, pc = "drain", obd_msgq # <<>>
    PROVE  /\ Head(obd_msgq) \in Frame /\ Head(obd_msgq).ide \in Formats
           /\ OfCurrent(Head(obd_msgq)) /\ currentPID \in PIDs
           /\ Head(obd_msgq).kind # "consecutive" =>
                 LET f == Head(obd_msgq).ide IN
                 /\ Open(f) /\ One(obd_msgq, f) /\ bus[f] = <<>>
                 /\ Head(obd_msgq) = AnswerFrame(currentPID, f)
<1>1. obd_msgq \in Seq(Frame)
  BY FlightTypes
<1>2. Head(obd_msgq) = obd_msgq[1] /\ Head(obd_msgq) \in Frame /\ 1 \in 1..Len(obd_msgq)
  BY <1>1, Queue
<1>3. OfCurrent(Head(obd_msgq)) /\ Head(obd_msgq).ide \in Formats
  BY <1>2 DEF SweepInv, FlightInv, OnlyCurrent, Frame
<1>4. currentPID \in PIDs
  BY DEF TypeOK, SweepType, Sweeping
<1>5. ASSUME Head(obd_msgq).kind # "consecutive", NEW f, f = Head(obd_msgq).ide
      PROVE  /\ Open(f) /\ One(obd_msgq, f) /\ bus[f] = <<>>
             /\ Head(obd_msgq) = AnswerFrame(currentPID, f)
  <2>1. ~None(obd_msgq, f)
    BY <1>2, <1>5 DEF None, IsReply
  <2>2. f \in Formats
    BY <1>3, <1>5
  <2>3. Open(f) /\ One(obd_msgq, f) /\ bus[f] = <<>>
    BY <2>1, <2>2 DEF SweepInv, FlightInv, ComesOnce
  <2> QED
    BY <1>3, <1>5, <2>3 DEF OfCurrent
<1> QED
  BY <1>2, <1>3, <1>4, <1>5

\* The rest of an answer: consecutive frames of the current PID.
Rest(frames, f) ==
    /\ frames \in Seq(Frame)
    /\ \A i \in 1..Len(frames) : /\ frames[i].kind = "consecutive"
                                 /\ frames[i].pid = currentPID /\ frames[i].ide = f

\* Main takes an answer of format f, upon which the car sends the rest of it.
TakesReply(f, rest, bytes) ==
    /\ pc = "drain" /\ obd_msgq # <<>>
    /\ Head(obd_msgq).kind # "consecutive" /\ f = Head(obd_msgq).ide
    /\ Rest(rest, f) /\ Len(rest) <= Follow(currentPID) /\ bytes \in Nat
    /\ obd_msgq' = Tail(obd_msgq) /\ bus' = [bus EXCEPT ![f] = rest]
    /\ vehicle_data' = Append(vehicle_data, Chunk(Head(obd_msgq), bytes))
    /\ UNCHANGED <<pc, currentPID, asked>>

\* What taking a reply does to the requests, and to what is under way.
LEMMA ReplyTaken ==
    ASSUME TypeOK, SweepInv, NEW f, NEW rest, NEW bytes, TakesReply(f, rest, bytes)
    PROVE  /\ Replied' = Replied \union {Current(f)}
           /\ RequestInv' /\ InOrder' /\ FlightInv'
           /\ InFlight' = (InFlight - 1) + Len(rest)
<1> DEFINE x == Head(obd_msgq)
<1>0. /\ pc = "drain" /\ obd_msgq # <<>>
      /\ Head(obd_msgq).kind # "consecutive" /\ f = Head(obd_msgq).ide
      /\ Rest(rest, f) /\ Len(rest) <= Follow(currentPID) /\ bytes \in Nat
      /\ obd_msgq' = Tail(obd_msgq) /\ bus' = [bus EXCEPT ![f] = rest]
      /\ vehicle_data' = Append(vehicle_data, Chunk(Head(obd_msgq), bytes))
      /\ pc' = pc /\ currentPID' = currentPID /\ asked' = asked
  BY DEF TakesReply
<1>1. /\ x \in Frame /\ f \in Formats /\ OfCurrent(x) /\ currentPID \in PIDs
      /\ Open(f) /\ One(obd_msgq, f) /\ bus[f] = <<>> /\ x = AnswerFrame(currentPID, f)
      /\ IsReply(x, f)
  BY <1>0, Taken DEF IsReply
<1>2. Current(f) \in Requests /\ Current(f) \notin Replied
  BY <1>0, <1>1 DEF Open
<1>3. Requests' = Requests /\ \A g : Current(g)' = Current(g)
  BY <1>0 DEF Requests, Current
<1>4. /\ Chunk(x, bytes) \in ChunkSet /\ Chunk(x, bytes).kind # "consecutive"
      /\ <<Chunk(x, bytes).pid, Chunk(x, bytes).ide>> = Current(f)
      /\ Chunk(x, bytes).pid = currentPID
  <2>1. Chunk(x, bytes) \in ChunkSet
    BY <1>0, <1>1, FrameFields
  <2> QED
    BY <1>0, <1>1, <2>1 DEF Chunk, Current, OfCurrent
<1>5. \A r \in Replied : r[1] <= currentPID
  BY <1>0 DEF SweepInv, RequestInv
<1>6. Replied' = Replied \union {Current(f)} /\ InOrder'
  BY <1>0, <1>2, <1>4, <1>5, ReportGrows DEF SweepInv
<1>7. RequestInv'
  BY <1>0, <1>2, <1>3, <1>6 DEF SweepInv, RequestInv
<1>8. bus'[f] = rest /\ \A g \in Formats \ {f} : bus'[g] = bus[g]
  BY <1>0, <1>1 DEF TypeOK, CanType
<1>9. ~Open(f)' /\ \A g \in Formats \ {f} : Open(g)' = Open(g)
  <2>1. \A g \in Formats \ {f} : Current(g) # Current(f)
    BY <1>0 DEF Current
  <2> QED
    BY <1>0, <1>3, <1>6, <2>1 DEF Open
<1>10. obd_msgq \in Seq(Frame)
  BY <1>0, FlightTypes
<1>11. OnlyCurrent'
  <2>1. \A i \in 1..Len(Tail(obd_msgq)) : OfCurrent(Tail(obd_msgq)[i])
    <3>1. \A i \in 1..Len(Tail(obd_msgq)) : Tail(obd_msgq)[i] = obd_msgq[i + 1] /\ i + 1 \in 1..Len(obd_msgq)
      BY <1>0, <1>10, Queue
    <3> QED
      BY <1>0, <3>1 DEF SweepInv, FlightInv, OnlyCurrent
  <2>2. \A i \in 1..Len(rest) : OfCurrent(rest[i]) /\ rest[i].ide = f
    BY <1>0 DEF Rest, OfCurrent
  <2>3. \A g \in Formats : \A i \in 1..Len(bus'[g]) : OfCurrent(bus'[g][i]) /\ bus'[g][i].ide = g
    BY <1>0, <1>8, <2>2 DEF SweepInv, FlightInv, OnlyCurrent
  <2>4. \A frame : OfCurrent(frame)' <=> OfCurrent(frame)
    BY <1>0 DEF OfCurrent
  <2>5. \A i \in 1..Len(obd_msgq') : OfCurrent(obd_msgq'[i])
    BY <1>0, <2>1
  <2> QED
    BY <1>0, <2>3, <2>5 DEF OnlyCurrent, OfCurrent
<1>12. (\A g \in Formats : ComesOnce(g))'
  <2>1. None(Tail(obd_msgq), f) /\ None(rest, f)
    <3>1. None(rest, f)
      BY <1>0 DEF Rest, None, IsReply
    <3> QED
      BY <1>0, <1>1, <1>10, <3>1, OneTail
  <2>2. ASSUME NEW g \in Formats \ {f}
        PROVE  /\ None(obd_msgq, g) => None(Tail(obd_msgq), g)
               /\ One(obd_msgq, g) => One(Tail(obd_msgq), g)
    <3>1. ~IsReply(x, g)
      BY <1>0 DEF IsReply
    <3> QED
      BY <1>0, <1>10, <3>1, NoneTail, OneTail
  <2>3. ComesOnce(f)'
    BY <1>0, <1>8, <1>9, <2>1 DEF ComesOnce
  <2>4. ASSUME NEW g \in Formats \ {f} PROVE ComesOnce(g)'
    BY <1>0, <1>8, <1>9, <2>2 DEF ComesOnce, SweepInv, FlightInv
  <2> QED
    BY <1>0, <2>3, <2>4
<1>13. /\ Len(obd_msgq)' = Len(obd_msgq) - 1 /\ Len(obd_msgq) \in Nat
       /\ OnBus(f) = 0 /\ OnBus(f)' = Len(rest) /\ Len(rest) \in Nat
       /\ \A g \in Formats \ {f} : OnBus(g)' = OnBus(g)
  <2>1. Len(Tail(obd_msgq)) = Len(obd_msgq) - 1 /\ Len(obd_msgq) \in Nat
    BY <1>0, <1>10, Queue
  <2>2. Len(rest) \in Nat
    BY <1>0, Queue DEF Rest
  <2> QED
    BY <1>0, <1>1, <1>8, <2>1, <2>2 DEF OnBus
<1>14. /\ Load(f) = 1 /\ Load(f)' = Follow(currentPID)
       /\ \A g \in Formats \ {f} : Load(g)' = Load(g)
  <2>1. \A g \in Formats \ {f} : Current(g) # Current(f)
    BY <1>0 DEF Current
  <2>2. Follow(currentPID)' = Follow(currentPID)
    BY <1>0 DEF Follow
  <2> QED
    BY <1>0, <1>2, <1>3, <1>6, <2>1, <2>2 DEF Load
<1>16. Follow(currentPID) \in Nat
  BY <1>0, <1>1, FollowType
<1>17. PICK g \in Formats : g # f
  BY <1>0 DEF Formats
<1>18. /\ OnBus(g) \in Nat /\ Load(g) \in Nat
       /\ OnBus(g)' = OnBus(g) /\ Load(g)' = Load(g)
  BY <1>0, <1>1, <1>13, <1>14, <1>17, FlightTypes, FollowType DEF Load
<1>19. /\ InFlight = Len(obd_msgq) + OnBus(f) + OnBus(g)
       /\ InFlight' = Len(obd_msgq)' + OnBus(f)' + OnBus(g)'
       /\ Load("STANDARD") + Load("EXTENDED") = Load(f) + Load(g)
       /\ Load("STANDARD")' + Load("EXTENDED")' = Load(f)' + Load(g)'
  <2>1. CASE f = "STANDARD" /\ g = "EXTENDED"
    BY <1>0, <2>1 DEF InFlight
  <2>2. CASE f = "EXTENDED" /\ g = "STANDARD"
    <3>1. InFlight = Len(obd_msgq) + OnBus(f) + OnBus(g)
      <4>1. PICK q, a, b \in Nat : q = Len(obd_msgq) /\ a = OnBus(f) /\ b = OnBus(g)
        <5>1. Len(obd_msgq) \in Nat /\ OnBus(f) \in Nat /\ OnBus(g) \in Nat
          BY <1>13, <1>18
        <5> QED
          BY <5>1
      <4>2. InFlight = q + b + a
        BY <2>2, <4>1 DEF InFlight
      <4> QED
        BY <4>1, <4>2
    <3>2. InFlight' = Len(obd_msgq)' + OnBus(f)' + OnBus(g)'
      <4>1. PICK q, a, b \in Int : q = Len(obd_msgq)' /\ a = OnBus(f)' /\ b = OnBus(g)'
        BY <1>13, <1>18
      <4>2. InFlight' = q + b + a
        BY <2>2, <4>1 DEF InFlight
      <4> QED
        BY <4>1, <4>2
    <3>3. /\ Load("STANDARD") + Load("EXTENDED") = Load(f) + Load(g)
          /\ Load("STANDARD")' + Load("EXTENDED")' = Load(f)' + Load(g)'
      BY <1>14, <1>16, <1>18, <2>2
    <3> QED
      BY <3>1, <3>2, <3>3
  <2> QED
    BY <1>0, <1>1, <1>17, <2>1, <2>2 DEF Formats
<1>20. /\ InFlight' = (InFlight - 1) + Len(rest)
       /\ InFlight' <= Load(f)' + Load(g)'
  <2>1. InFlight <= Load(f) + Load(g)
    BY <1>0, <1>19 DEF SweepInv, FlightInv
  <2>2. InFlight' = (InFlight - 1) + Len(rest)
    <3>1. InFlight' = (Len(obd_msgq) - 1) + Len(rest) + OnBus(g)
      BY <1>0, <1>13, <1>18, <1>19
    <3>2. InFlight = Len(obd_msgq) + 0 + OnBus(g)
      BY <1>0, <1>13, <1>19
    <3>3. PICK q, r, b \in Nat : q = Len(obd_msgq) /\ r = Len(rest) /\ b = OnBus(g)
      <4>1. Len(obd_msgq) \in Nat /\ Len(rest) \in Nat /\ OnBus(g) \in Nat
        BY <1>13, <1>18
      <4> QED
        BY <4>1
    <3>4. InFlight' = (q - 1) + r + b
      BY <3>1, <3>3
    <3>5. InFlight = q + b
      BY <3>2, <3>3
    <3>6. (q - 1) + r + b = ((q + b) - 1) + r
      BY <3>3
    <3> QED
      BY <3>3, <3>4, <3>5, <3>6
  <2>3. InFlight' <= Load(f)' + Load(g)'
    <3>1. PICK n, l, r, k \in Nat : n = InFlight /\ l = Load(g) /\ r = Len(rest) /\ k = Follow(currentPID)
      <4>1. InFlight \in Nat /\ Load(g) \in Nat /\ Len(rest) \in Nat /\ Follow(currentPID) \in Nat
        BY <1>13, <1>16, <1>18, FlightTypes
      <4> QED
        BY <4>1
    <3>2. r <= k
      BY <1>0, <3>1 DEF TakesReply
    <3>3. n <= 1 + l
      BY <1>14, <2>1, <3>1
    <3>4. InFlight' = (n - 1) + r /\ Load(f)' = k /\ Load(g)' = l
      BY <1>14, <1>18, <2>2, <3>1
    <3>5. (n - 1) + r <= k + l
      BY <3>1, <3>2, <3>3
    <3> QED
      BY <3>4, <3>5
  <2> QED
    BY <1>0, <2>2, <2>3
<1> QED
  BY <1>0, <1>6, <1>7, <1>11, <1>12, <1>19, <1>20 DEF FlightInv

\* Behind a first frame come as many frames as its answer's follow.
LEMMA FirstAnnounces ==
    ASSUME TypeOK, currentPID \in PIDs, NEW f, Answer[currentPID] > 7,
           NEW frame, frame = AnswerFrame(currentPID, f), frame \in Frame
    PROVE  /\ Rest(Consecutives(frame), f)
           /\ Len(Consecutives(frame)) = Follow(currentPID)
<1>1. /\ frame.n = Answer[currentPID] /\ frame.pid = currentPID /\ frame.ide = f
  BY DEF AnswerFrame
<1>2. /\ Follow(currentPID) \in Nat /\ Follow(currentPID) = Answer[currentPID] \div 7
      /\ Answer[currentPID] \in Nat
  BY FollowType
<1>3. Consecutives(frame) \in Seq(Frame)
  BY ConsecutivesType
<1>4. /\ Len(Consecutives(frame)) = Follow(currentPID)
      /\ \A i \in 1..Follow(currentPID) :
            Consecutives(frame)[i] = [kind |-> "consecutive", pid |-> frame.pid,
                                      ide |-> frame.ide, n |-> 7]
  BY <1>1, <1>2 DEF Consecutives
<1>5. Rest(Consecutives(frame), f)
  BY <1>1, <1>3, <1>4 DEF Rest
<1> QED
  BY <1>4, <1>5

\* Nothing follows a single frame.
LEMMA NothingMore == ASSUME NEW f PROVE Rest(<<>>, f) /\ Len(<<>>) = 0
BY DEF Rest

\* An answer of one frame is taken, with its length byte.
LEMMA SingleTaken ==
    ASSUME TypeOK, SweepInv, ReceiveSingle, NEW f, f = Head(obd_msgq).ide
    PROVE  /\ f \in Formats /\ currentPID \in PIDs /\ Answer[currentPID] <= 7
           /\ Head(obd_msgq).n = Answer[currentPID]
           /\ TakesReply(f, <<>>, Answer[currentPID] + 1)
<1> DEFINE x == Head(obd_msgq)
<1>0. pc = "drain" /\ obd_msgq # <<>> /\ x.kind = "single"
  BY DEF ReceiveSingle
<1>1. /\ f \in Formats /\ currentPID \in PIDs
      /\ bus[f] = <<>> /\ x = AnswerFrame(currentPID, f)
  BY <1>0, Taken
<1>2. bus = [bus EXCEPT ![f] = <<>>]
  BY <1>1 DEF TypeOK, CanType
<1>3. Answer[currentPID] \in Nat /\ Follow(currentPID) \in Nat
  BY <1>1, FollowType
<1>4. x.n = Answer[currentPID] /\ x.kind = IF Answer[currentPID] <= 7 THEN "single" ELSE "first"
  BY <1>1 DEF AnswerFrame
<1>5. Answer[currentPID] <= 7
  <2> HIDE DEF x
  <2> QED
    BY <1>0, <1>3, <1>4
<1>6. Rest(<<>>, f) /\ Len(<<>>) = 0
  BY NothingMore
<1>7. /\ obd_msgq' = Tail(obd_msgq) /\ bus' = [bus EXCEPT ![f] = <<>>]
      /\ vehicle_data' = Append(vehicle_data, Chunk(x, Answer[currentPID] + 1))
      /\ UNCHANGED <<pc, currentPID, asked>>
  BY <1>2, <1>4 DEF ReceiveSingle
<1> QED
  BY <1>0, <1>1, <1>3, <1>4, <1>5, <1>6, <1>7 DEF TakesReply

\* The first frame of a long answer is taken, and the car sends the rest of it unless
\* the flow control is refused.
LEMMA FirstTaken ==
    ASSUME TypeOK, SweepInv, ReceiveFirst, NEW f, f = Head(obd_msgq).ide
    PROVE  /\ f \in Formats /\ currentPID \in PIDs /\ Answer[currentPID] > 7
           /\ Head(obd_msgq).n = Answer[currentPID]
           /\ \E rest :
                 /\ TakesReply(f, rest, 6)
                 /\ "refused" \notin Faults => Len(rest) = Follow(currentPID)
<1> DEFINE x == Head(obd_msgq)
<1>0. pc = "drain" /\ obd_msgq # <<>> /\ x.kind = "first"
  BY DEF ReceiveFirst
<1>1. /\ f \in Formats /\ currentPID \in PIDs /\ x \in Frame
      /\ bus[f] = <<>> /\ x = AnswerFrame(currentPID, f)
  BY <1>0, Taken
<1>2. bus = [bus EXCEPT ![f] = <<>>]
  BY <1>1 DEF TypeOK, CanType
<1>3. Answer[currentPID] \in Nat /\ Follow(currentPID) \in Nat
  BY <1>1, FollowType
<1>4. x.n = Answer[currentPID] /\ x.kind = IF Answer[currentPID] <= 7 THEN "single" ELSE "first"
  BY <1>1 DEF AnswerFrame
<1>5. Answer[currentPID] > 7
  <2> HIDE DEF x
  <2> QED
    BY <1>0, <1>3, <1>4
<1>6. Rest(Consecutives(x), f) /\ Len(Consecutives(x)) = Follow(currentPID)
  BY <1>1, <1>5, FirstAnnounces
<1>7. /\ obd_msgq' = Tail(obd_msgq)
      /\ vehicle_data' = Append(vehicle_data, Chunk(x, 6))
      /\ UNCHANGED <<pc, currentPID, asked>>
  BY DEF ReceiveFirst
<1>8. \/ bus' = [bus EXCEPT ![f] = Consecutives(x)]
      \/ "refused" \in Faults /\ bus' = [bus EXCEPT ![f] = <<>>]
  <2>1. bus[f] \o Consecutives(x) = Consecutives(x)
    BY <1>1, <1>6 DEF Rest
  <2>2. \/ bus' = [bus EXCEPT ![f] = bus[f] \o Consecutives(x)]
        \/ "refused" \in Faults /\ UNCHANGED bus
    BY DEF ReceiveFirst
  <2> QED
    BY <1>2, <2>1, <2>2
<1>9. CASE bus' = [bus EXCEPT ![f] = Consecutives(x)]
  <2>1. TakesReply(f, Consecutives(x), 6)
    BY <1>0, <1>3, <1>6, <1>7, <1>9 DEF TakesReply
  <2> QED
    BY <1>1, <1>4, <1>5, <1>6, <2>1
<1>10. CASE "refused" \in Faults /\ bus' = [bus EXCEPT ![f] = <<>>]
  <2>1. Rest(<<>>, f) /\ Len(<<>>) = 0
    BY NothingMore
  <2>2. TakesReply(f, <<>>, 6)
    BY <1>0, <1>3, <1>7, <1>10, <2>1 DEF TakesReply
  <2> QED
    BY <1>1, <1>4, <1>5, <1>10, <2>2
<1> QED
  BY <1>8, <1>9, <1>10

\* Both keep what is said of the sweep.
LEMMA ReplyKeeps ==
    ASSUME TypeOK, SweepInv, ReceiveFirst \/ ReceiveSingle
    PROVE  SweepInv'
<1>1. PICK f : f = Head(obd_msgq).ide
  OBVIOUS
<1>2. PICK rest, bytes : TakesReply(f, rest, bytes)
  BY <1>1, SingleTaken, FirstTaken
<1> QED
  BY <1>2, ReplyTaken DEF SweepInv

\* A consecutive frame is appended, or it stops main.
LEMMA ConsecutiveTaken ==
    ASSUME TypeOK, SweepInv, ReceiveConsecutive
    PROVE  /\ Replied' = Replied /\ InOrder' /\ Requests' = Requests
           /\ \A g : Current(g)' = Current(g)
           /\ pc = "drain" /\ pc' \in {"drain", "halted"}
<1> DEFINE x == Head(obd_msgq)
           b == IF MFL < 7 THEN MFL ELSE 7
<1>0. pc = "drain" /\ obd_msgq # <<>> /\ x.kind = "consecutive"
  BY DEF ReceiveConsecutive
<1>1. x \in Frame /\ MFL \in Int
  BY <1>0, Taken DEF TypeOK, SweepType
<1>2. Replied' = Replied /\ InOrder'
  <2>1. CASE b < 0
    BY <2>1, ReportKept DEF ReceiveConsecutive, SweepInv
  <2>2. CASE ~(b < 0)
    <3>1. b \in Nat /\ vehicle_data' = Append(vehicle_data, Chunk(x, b))
      BY <1>1, <2>2 DEF ReceiveConsecutive
    <3> HIDE DEF b
    <3>2. Chunk(x, b) \in ChunkSet /\ Chunk(x, b).kind = "consecutive"
      BY <1>0, <1>1, <3>1, FrameFields DEF Chunk
    <3> QED
      BY <3>1, <3>2, ReportGrows DEF SweepInv
  <2> QED
    BY <2>1, <2>2
<1>3. Requests' = Requests /\ \A g : Current(g)' = Current(g)
  BY DEF ReceiveConsecutive, Requests, Current
<1> QED
  BY <1>0, <1>2, <1>3 DEF ReceiveConsecutive

LEMMA ConsecutiveKeeps ==
    ASSUME TypeOK, SweepInv, ReceiveConsecutive
    PROVE  SweepInv' /\ InFlight' = InFlight - 1
<1> DEFINE x == Head(obd_msgq)
<1>0. /\ pc = "drain" /\ obd_msgq # <<>> /\ x.kind = "consecutive"
      /\ obd_msgq' = Tail(obd_msgq) /\ bus' = bus /\ currentPID' = currentPID /\ asked' = asked
  BY DEF ReceiveConsecutive
<1>1. x \in Frame /\ obd_msgq \in Seq(Frame)
  BY <1>0, Taken, FlightTypes
<1>2. /\ Replied' = Replied /\ InOrder' /\ Requests' = Requests
      /\ \A g : Current(g)' = Current(g)
      /\ pc' \in {"drain", "halted"}
  BY ConsecutiveTaken
<1>3. RequestInv'
  BY <1>0, <1>2 DEF SweepInv, RequestInv
<1>4. \A g : Open(g)' = Open(g) /\ Load(g)' = Load(g) /\ OnBus(g)' = OnBus(g)
  BY <1>0, <1>2 DEF Open, Load, OnBus
<1>5. InFlight' = InFlight - 1
  <2>1. Len(Tail(obd_msgq)) = Len(obd_msgq) - 1 /\ Len(obd_msgq) \in Nat
    BY <1>0, <1>1, Queue
  <2>2. OnBus("STANDARD") \in Nat /\ OnBus("EXTENDED") \in Nat
    BY FlightTypes DEF Formats
  <2>3. InFlight' = (Len(obd_msgq) - 1) + OnBus("STANDARD") + OnBus("EXTENDED")
    BY <1>0, <1>4, <2>1 DEF InFlight
  <2> QED
    BY <2>1, <2>2, <2>3 DEF InFlight
<1>6. OnlyCurrent'
  <2>1. \A i \in 1..Len(Tail(obd_msgq)) :
           Tail(obd_msgq)[i] = obd_msgq[i + 1] /\ i + 1 \in 1..Len(obd_msgq)
    BY <1>0, <1>1, Queue
  <2>2. \A i \in 1..Len(obd_msgq') : OfCurrent(obd_msgq'[i])
    BY <1>0, <2>1 DEF SweepInv, FlightInv, OnlyCurrent
  <2> QED
    BY <1>0, <2>2 DEF OnlyCurrent, OfCurrent, SweepInv, FlightInv
<1>7. ASSUME NEW g \in Formats PROVE ComesOnce(g)'
  <2>1. ~IsReply(x, g)
    BY <1>0 DEF IsReply
  <2>2. /\ None(obd_msgq, g) => None(Tail(obd_msgq), g)
        /\ One(obd_msgq, g) => One(Tail(obd_msgq), g)
    BY <1>0, <1>1, <2>1, NoneTail, OneTail
  <2> QED
    BY <1>0, <1>4, <2>2 DEF ComesOnce, SweepInv, FlightInv
<1>8. InFlight' <= Load("STANDARD")' + Load("EXTENDED")'
  <2>1. currentPID \in PIDs
    BY <1>0, Taken
  <2>2. Load("STANDARD") \in Nat /\ Load("EXTENDED") \in Nat /\ InFlight \in Nat
    BY <2>1, FollowType, FlightTypes DEF Load
  <2> QED
    BY <1>4, <1>5, <2>2 DEF SweepInv, FlightInv
<1> QED
  BY <1>2, <1>3, <1>5, <1>6, <1>7, <1>8 DEF SweepInv, FlightInv

\* The driver finds room for every answer.
LEMMA DeliverKeeps ==
    ASSUME TypeOK, SweepInv, Punctual, NEW f \in Formats, Deliver(f)
    PROVE  SweepInv' /\ InFlight' = InFlight /\ obd_msgq' = Append(obd_msgq, Head(bus[f]))
<1> DEFINE x == Head(bus[f])
<1>0. /\ bus[f] # <<>> /\ bus' = [bus EXCEPT ![f] = Tail(bus[f])]
      /\ pc' = pc /\ asked' = asked /\ vehicle_data' = vehicle_data
      /\ currentPID' = currentPID
  BY DEF Deliver, sweepVars
<1>1. /\ obd_msgq \in Seq(Frame) /\ Len(obd_msgq) \in Nat
      /\ bus[f] \in Seq(Frame) /\ OnBus(f) \in Nat /\ bus \in [Formats -> Seq(Frame)]
  BY FlightTypes DEF TypeOK, CanType
<1>2. /\ x \in Frame /\ x = bus[f][1] /\ 1 \in 1..Len(bus[f]) /\ Tail(bus[f]) \in Seq(Frame)
      /\ Len(Tail(bus[f])) = OnBus(f) - 1 /\ OnBus(f) >= 1
      /\ \A i \in 1..Len(Tail(bus[f])) : Tail(bus[f])[i] = bus[f][i + 1] /\ i + 1 \in 1..Len(bus[f])
  BY <1>0, <1>1, Queue DEF OnBus
<1>3. obd_msgq' = Append(obd_msgq, x)
  <2>1. InFlight <= MsgqSize
    <3>1. /\ Load("STANDARD") \in Nat /\ Load("EXTENDED") \in Nat
          /\ Load("STANDARD") + Load("EXTENDED") <= MsgqSize
      BY LoadFits DEF SweepInv, Punctual
    <3> QED
      BY <3>1, FlightTypes, TrackerAssumption DEF SweepInv, FlightInv
  <2>2. Len(obd_msgq) < MsgqSize
    BY <1>1, <1>2, <2>1, FlightTypes, TrackerAssumption
  <2> QED
    BY <2>2 DEF Deliver
<1>4. OfCurrent(x) /\ x.ide = f
  BY <1>2 DEF SweepInv, FlightInv, OnlyCurrent
<1>5. bus'[f] = Tail(bus[f]) /\ \A g \in Formats \ {f} : bus'[g] = bus[g]
  BY <1>0, <1>1
<1>6. /\ Requests' = Requests /\ Replied' = Replied /\ InOrder'
      /\ \A g : Current(g)' = Current(g)
  BY <1>0, ReportKept DEF Requests, Current, SweepInv
<1>7. RequestInv'
  BY <1>0, <1>6 DEF SweepInv, RequestInv
<1>8. \A g : Open(g)' = Open(g) /\ Load(g)' = Load(g)
  BY <1>0, <1>6 DEF Open, Load, Follow
<1>9. /\ Len(obd_msgq)' = Len(obd_msgq) + 1
      /\ \A i \in 1..Len(obd_msgq) : obd_msgq'[i] = obd_msgq[i]
      /\ obd_msgq'[Len(obd_msgq) + 1] = x
  BY <1>1, <1>2, <1>3, Queue
<1>10. InFlight' = InFlight
  <2>1. OnBus(f)' = OnBus(f) - 1 /\ \A g \in Formats \ {f} : OnBus(g)' = OnBus(g)
    BY <1>2, <1>5 DEF OnBus
  <2>2. OnBus("STANDARD") \in Nat /\ OnBus("EXTENDED") \in Nat
    BY FlightTypes DEF Formats
  <2>3. \A q, a, b \in Int : (q + 1) + (a - 1) + b = q + a + b /\ (q + 1) + a + (b - 1) = q + a + b
    OBVIOUS
  <2>4. CASE f = "STANDARD"
    <3>1. InFlight' = (Len(obd_msgq) + 1) + (OnBus("STANDARD") - 1) + OnBus("EXTENDED")
      BY <1>9, <2>1, <2>4 DEF InFlight, Formats
    <3> QED
      BY <1>1, <2>2, <2>3, <3>1 DEF InFlight
  <2>5. CASE f = "EXTENDED"
    <3>1. InFlight' = (Len(obd_msgq) + 1) + OnBus("STANDARD") + (OnBus("EXTENDED") - 1)
      BY <1>9, <2>1, <2>5 DEF InFlight, Formats
    <3> QED
      BY <1>1, <2>2, <2>3, <3>1 DEF InFlight
  <2> QED
    BY <2>4, <2>5 DEF Formats
<1>11. OnlyCurrent'
  <2>1. \A i \in 1..Len(obd_msgq') : OfCurrent(obd_msgq'[i])
    <3>1. \A i \in 1..Len(obd_msgq') : i \in 1..Len(obd_msgq) \/ i = Len(obd_msgq) + 1
      BY <1>1, <1>9
    <3> QED
      BY <1>4, <1>9, <3>1 DEF SweepInv, FlightInv, OnlyCurrent
  <2>2. \A g \in Formats : \A i \in 1..Len(bus'[g]) : OfCurrent(bus'[g][i]) /\ bus'[g][i].ide = g
    <3>1. \A g \in Formats : \A i \in 1..Len(bus[g]) : OfCurrent(bus[g][i]) /\ bus[g][i].ide = g
      BY DEF SweepInv, FlightInv, OnlyCurrent
    <3>2. \A i \in 1..Len(bus'[f]) : OfCurrent(bus'[f][i]) /\ bus'[f][i].ide = f
      BY <1>2, <1>5, <3>1
    <3>3. ASSUME NEW g \in Formats \ {f}
          PROVE  \A i \in 1..Len(bus'[g]) : OfCurrent(bus'[g][i]) /\ bus'[g][i].ide = g
      BY <1>5, <3>1
    <3> QED
      BY <3>2, <3>3
  <2> QED
    BY <1>0, <2>1, <2>2, StillCurrent
<1>12. (\A g \in Formats : ComesOnce(g))'
  <2>1. ASSUME NEW g \in Formats \ {f} PROVE ComesOnce(g)'
    <3>1. ~IsReply(x, g)
      BY <1>4 DEF IsReply
    <3>2. /\ None(obd_msgq, g) => None(Append(obd_msgq, x), g)
          /\ One(obd_msgq, g) => One(Append(obd_msgq, x), g)
      BY <1>1, <1>2, <3>1, NoneAppend, OneAppend
    <3>3. ComesOnce(g) /\ bus'[g] = bus[g] /\ (Open(g)' <=> Open(g))
      BY <1>5, <1>8 DEF SweepInv, FlightInv
    <3>4. AnswerFrame(currentPID, g)' = AnswerFrame(currentPID, g)
      BY <1>0
    <3>5. CASE Open(g)
      BY <1>3, <3>2, <3>3, <3>4, <3>5 DEF ComesOnce
    <3>6. CASE ~Open(g)
      BY <1>3, <3>2, <3>3, <3>6 DEF ComesOnce
    <3> QED
      BY <3>5, <3>6
  <2>2. ComesOnce(f)'
    <3>1. CASE Open(f)
      <4>1. None(obd_msgq, f) /\ bus[f] = <<AnswerFrame(currentPID, f)>>
        BY <1>0, <3>1 DEF SweepInv, FlightInv, ComesOnce
      <4>2. x = AnswerFrame(currentPID, f) /\ Tail(bus[f]) = <<>>
        BY <4>1
      <4>3. IsReply(x, f)
        BY <4>2 DEF IsReply, AnswerFrame
      <4>4. One(Append(obd_msgq, x), f)
        BY <1>1, <1>2, <4>1, <4>3, NoneAppend
      <4> QED
        BY <1>3, <1>5, <1>8, <3>1, <4>2, <4>4 DEF ComesOnce
    <3>2. CASE ~Open(f)
      <4>1. None(obd_msgq, f) /\ None(bus[f], f)
        BY <3>2 DEF SweepInv, FlightInv, ComesOnce
      <4>2. None(Tail(bus[f]), f) /\ ~IsReply(x, f)
        BY <1>0, <1>1, <4>1, NoneTail
      <4>3. None(Append(obd_msgq, x), f)
        BY <1>1, <1>2, <4>1, <4>2, NoneAppend
      <4> QED
        BY <1>3, <1>5, <1>8, <3>2, <4>2, <4>3 DEF ComesOnce
    <3> QED
      BY <3>1, <3>2
  <2> QED
    BY <2>1, <2>2
<1>13. FlightInv'
  BY <1>8, <1>10, <1>11, <1>12 DEF FlightInv, SweepInv
<1> QED
  BY <1>3, <1>6, <1>7, <1>10, <1>13 DEF SweepInv

\* Every step keeps the invariant.
LEMMA NextSweepInv ==
    ASSUME TypeOK, SweepInv, Punctual, [Next]_vars
    PROVE  SweepInv'
<1>1. CASE GnssEventHandler \/ UNCHANGED vars
  BY <1>1, Elsewhere
  DEF GnssEventHandler, PvtFix, SleepAfterFix, PeriodicWakeup, sweepVars, canVars, vars
<1>2. CASE TakeReady \/ CopyRegion \/ AppendVehicle \/ SendOk \/ SendFails \/ Overrun
  BY <1>2, Elsewhere
  DEF TakeReady, CopyRegion, AppendVehicle, SendOk, SendFails, Overrun, sweepVars, canVars
<1>3. CASE SweepStart
  BY <1>3, SweepStartKeeps
<1>4. CASE RequestStandard \/ RequestExtended
  BY <1>4, RequestsKeep
<1>5. CASE ReceiveFirst \/ ReceiveSingle
  BY <1>5, ReplyKeeps
<1>6. CASE ReceiveConsecutive
  BY <1>6, ConsecutiveKeeps
<1>7. CASE SkipPID \/ Timeout
  BY <1>7, MoveOnKeeps
<1>8. CASE \E f \in Formats : Deliver(f)
  BY <1>8, DeliverKeeps
<1>9. CASE OtherTraffic
  BY <1>9 DEF OtherTraffic, Punctual
<1> QED
  BY <1>1, <1>2, <1>3, <1>4, <1>5, <1>6, <1>7, <1>8, <1>9 DEF Next, Main, MainStep, Can

\* Nothing is asked for or under way in the initial state.
LEMMA InitSweepInv == Init => SweepInv
<1> SUFFICES ASSUME Init PROVE SweepInv
  OBVIOUS
<1>1. Requests = {} /\ Entries = {} /\ Replied = {}
  BY DEF Init, Requests, Entries, Replied
<1>2. RequestInv /\ InOrder
  BY <1>1 DEF RequestInv, InOrder, Init
<1>3. FlightInv
  <2>1. obd_msgq = <<>> /\ \A f \in Formats : bus[f] = <<>> /\ ~Open(f)
    BY <1>1 DEF Init, Open
  <2>2. OnlyCurrent /\ \A f \in Formats : ComesOnce(f)
    BY <2>1 DEF OnlyCurrent, ComesOnce, None
  <2>3. OnBus("STANDARD") = 0 /\ OnBus("EXTENDED") = 0 /\ Len(obd_msgq) = 0
    BY <2>1 DEF OnBus, Formats
  <2>4. Load("STANDARD") = 0 /\ Load("EXTENDED") = 0
    BY <1>1 DEF Load
  <2> QED
    BY <2>2, <2>3, <2>4 DEF FlightInv, InFlight
<1> QED
  BY <1>2, <1>3 DEF SweepInv

\* Between sweeps vehicle_data holds one answer to each request that reached the
\* bus, in order and none besides, whatever the interleaving of main, driver, car
\* and modem and whichever sends fail (main.c 374, 407-467).
THEOREM Complete == ASSUME Punctual PROVE Spec => []SweepComplete
<1>1. Init => TypeOK /\ SweepInv
  BY InitType, InitSweepInv
<1>2. TypeOK /\ SweepInv /\ [Next]_vars => TypeOK' /\ SweepInv'
  BY NextType, NextSweepInv
<1>3. TypeOK /\ SweepInv => SweepComplete
  <2> SUFFICES ASSUME TypeOK, SweepInv, ~Sweeping, pc # "halted" PROVE SweepComplete
    BY DEF SweepComplete
  <2>1. InFlight = 0
    BY Empty DEF SweepInv, Sweeping
  <2>2. Replied = Requests
    BY <2>1, AllReplied DEF SweepInv
  <2> QED
    BY <2>2 DEF SweepComplete, Replied, SweepInv, InOrder
<1> QED
  BY <1>1, <1>2, <1>3, PTL DEF Spec

-----------------------------------------------------------------------------
(* Long answers. *)

\* What a first frame leaves in MFL.
LEMMA FirstMFL ==
    ASSUME TypeOK, SweepInv, LengthsFit, ReceiveFirst
    PROVE  MFL' = Answer[currentPID] - 6 /\ Answer[currentPID] > 7 /\ Answer[currentPID] \in Nat
<1>1. /\ currentPID \in PIDs /\ Answer[currentPID] > 7 /\ Head(obd_msgq).n = Answer[currentPID]
  BY FirstTaken
<1>2. Answer[currentPID] \in Nat /\ Answer[currentPID] < 256
  BY <1>1, FollowType DEF LengthsFit
<1>3. MFL' = (Head(obd_msgq).n % 256) - 6
  BY DEF ReceiveFirst
<1>4. Answer[currentPID] % 256 = Answer[currentPID]
  BY <1>2
<1> QED
  BY <1>1, <1>2, <1>3, <1>4

\* main never counts below zero.
LEMMA NextMFL ==
    ASSUME TypeOK, SweepInv, MFLInv, LengthsFit, [Next]_vars
    PROVE  MFLInv'
<1>0. MFL \in Int /\ MFL >= 0
  BY DEF TypeOK, SweepType, MFLInv
<1>1. CASE ReceiveFirst
  BY <1>1, FirstMFL DEF MFLInv
<1>2. CASE ReceiveConsecutive
  BY <1>0, <1>2 DEF MFLInv, ReceiveConsecutive
<1>3. CASE ~ReceiveFirst /\ ~ReceiveConsecutive
  <2>1. MFL' = MFL \/ MFL' = 0
    BY <1>3
    DEF Next, Main, MainStep, GnssEventHandler, Can, PvtFix, SleepAfterFix, PeriodicWakeup,
        TakeReady, CopyRegion, AppendVehicle, SendOk, SendFails, SweepStart, RequestStandard,
        RequestExtended, ReceiveSingle, SkipPID, Timeout, Advance, Overrun, Deliver,
        OtherTraffic, vars, sweepVars
  <2> QED
    BY <1>0, <2>1 DEF MFLInv
<1> QED
  BY <1>1, <1>2, <1>3

\* What stands in the report stays there when a chunk is appended.
LEMMA StandsGrows ==
    ASSUME TypeOK, NEW c,
           vehicle_data' = vehicle_data \/ vehicle_data' = Append(vehicle_data, c)
    PROVE  /\ \A j \in DOMAIN vehicle_data : j \in DOMAIN vehicle_data'
                                             /\ vehicle_data'[j] = vehicle_data[j]
           /\ \A i \in Entries : \A n : Stands(i, n) => Stands(i, n)'
<1>1. \A j \in DOMAIN vehicle_data : j \in DOMAIN vehicle_data' /\ vehicle_data'[j] = vehicle_data[j]
  <2>1. vehicle_data \in Seq(ChunkSet)
    BY DEF TypeOK, SweepType
  <2>2. DOMAIN vehicle_data = 1..Len(vehicle_data) /\ Len(vehicle_data) \in Nat
    BY <2>1
  <2>3. CASE vehicle_data' = Append(vehicle_data, c)
    BY <2>1, <2>2, <2>3
  <2> QED
    BY <2>3
<1>2. Entries \subseteq DOMAIN vehicle_data
  BY DEF Entries
<1> QED
  BY <1>1, <1>2 DEF Stands

\* A chunk that continues an answer is no entry; one that begins an answer is the last.
LEMMA EntriesGrow ==
    ASSUME TypeOK, NEW c \in ChunkSet, vehicle_data' = Append(vehicle_data, c)
    PROVE  /\ c.kind = "consecutive" => Entries' = Entries
           /\ c.kind # "consecutive" => Entries' = Entries \union {Len(vehicle_data) + 1}
           /\ Len(vehicle_data) \in Nat /\ Len(vehicle_data') = Len(vehicle_data) + 1
           /\ vehicle_data'[Len(vehicle_data) + 1] = c
           /\ Len(vehicle_data) + 1 \in DOMAIN vehicle_data'
<1>1. vehicle_data \in Seq(ChunkSet)
  BY DEF TypeOK, SweepType
<1>0. PICK n \in Nat : n = Len(vehicle_data) + 1
  BY <1>1
<1>2. /\ Len(vehicle_data') = n /\ vehicle_data'[n] = c
      /\ \A i \in 1..Len(vehicle_data) : vehicle_data'[i] = vehicle_data[i]
      /\ DOMAIN vehicle_data = 1..Len(vehicle_data) /\ DOMAIN vehicle_data' = 1..n
  BY <1>0, <1>1
<1>3. 1..n = (1..Len(vehicle_data)) \union {n} /\ n \in 1..n
  BY <1>0, <1>1
<1>4. CASE c.kind = "consecutive"
  BY <1>0, <1>1, <1>2, <1>3, <1>4 DEF Entries
<1>5. CASE c.kind # "consecutive"
  BY <1>0, <1>1, <1>2, <1>3, <1>5 DEF Entries
<1> QED
  BY <1>4, <1>5

\* An answer that stood whole still does.
LEMMA StandsStill ==
    ASSUME TypeOK, WholeInv, NEW c,
           vehicle_data' = vehicle_data \/ vehicle_data' = Append(vehicle_data, c),
           Requests \subseteq Requests',
           NEW i \in Entries, Alone(i)', ~(Alone(i) /\ Unfinished(i))
    PROVE  Stands(i, Pieces(vehicle_data[i].pid))'
<1>1. i \in DOMAIN vehicle_data
  BY DEF Entries
<1>2. vehicle_data'[i] = vehicle_data[i]
  BY <1>1, StandsGrows
<1>3. Alone(i)
  BY <1>2 DEF Alone
<1>4. Stands(i, Pieces(vehicle_data[i].pid))
  BY <1>3 DEF WholeInv
<1>5. PICK m : m = Pieces(vehicle_data[i].pid)
  OBVIOUS
<1>6. Stands(i, m)'
  BY <1>4, <1>5, StandsGrows
<1>7. m = Pieces(vehicle_data'[i].pid)
  BY <1>2, <1>5
<1> QED
  BY <1>6, <1>7 DEF Stands

\* The modem, main outside the sweep, and its end.
LEMMA WholeElsewhere ==
    ASSUME TypeOK, WholeInv,
           UNCHANGED <<vehicle_data, currentPID, asked, obd_msgq, bus, MFL>>,
           pc' = pc \/ pc' = "halted" \/ pc \notin {"drain", "halted"}
    PROVE  WholeInv'
<1>1. /\ Requests' = Requests /\ InFlight' = InFlight /\ \A f : Current(f)' = Current(f)
  BY SweepKept
<1>2. Sought'
  BY <1>1 DEF WholeInv, Sought
<1>3. Entries' = Entries
  BY DEF Entries
<1>4. ASSUME NEW i \in Entries, Alone(i)'
      PROVE  Stands(i, Pieces(vehicle_data[i].pid))' \/ Unfinished(i)'
  <2>1. CASE Unfinished(i)
    <3>1. pc' \in {"drain", "halted"} /\ vehicle_data'[i].pid = currentPID'
      BY <2>1 DEF Unfinished
    <3>2. PICK n \in 0..(Pieces(currentPID) - 1) :
             /\ Stands(i, n) /\ Len(vehicle_data) = i + n
             /\ InFlight = Pieces(currentPID) - n
             /\ MFL = Answer[currentPID] - 6 - 7 * n
      BY <2>1 DEF Unfinished
    <3>3. Stands(i, n)'
      BY <3>2 DEF Stands
    <3>4. /\ Pieces(currentPID') = Pieces(currentPID) /\ Len(vehicle_data') = i + n
          /\ InFlight' = Pieces(currentPID) - n /\ MFL' = Answer[currentPID'] - 6 - 7 * n
      BY <1>1, <3>2
    <3> QED
      BY <3>1, <3>2, <3>3, <3>4 DEF Unfinished
  <2>2. CASE ~Unfinished(i)
    BY <1>1, <1>4, <2>2, StandsStill
  <2> QED
    BY <2>1, <2>2
<1> QED
  BY <1>2, <1>3, <1>4 DEF WholeInv

\* No answer is unfinished when nothing is under way, or before main waits.
LEMMA NothingUnfinished ==
    ASSUME TypeOK, InFlight = 0 \/ pc \notin {"drain", "halted"}, NEW i \in Entries, Alone(i)
    PROVE  ~Unfinished(i)
<1>1. CASE pc \notin {"drain", "halted"}
  BY <1>1 DEF Unfinished
<1>2. CASE InFlight = 0
  <2> SUFFICES ASSUME Unfinished(i) PROVE FALSE
    OBVIOUS
  <2>1. currentPID \in PIDs
    BY DEF Unfinished, Alone
  <2>2. Pieces(currentPID) \in Nat
    BY <2>1, FollowType DEF Pieces
  <2>3. PICK n \in 0..(Pieces(currentPID) - 1) : InFlight = Pieces(currentPID) - n
    BY DEF Unfinished
  <2> QED
    BY <1>2, <2>2, <2>3
<1> QED
  BY <1>1, <1>2

\* The start of a sweep, and the moves from one PID to the next.
LEMMA WholeMoves ==
    ASSUME TypeOK, SweepInv, WholeInv, Punctual, SweepStart \/ SkipPID \/ Timeout
    PROVE  WholeInv'
<1>1. InFlight = 0
  <2>1. CASE SweepStart \/ SkipPID
    BY <2>1, Empty DEF SweepStart, SkipPID, SweepInv
  <2>2. CASE Timeout
    BY <2>2, FlightTypes DEF Timeout, Punctual
  <2> QED
    BY <2>1, <2>2
<1>2. obd_msgq' = <<>> /\ \A f \in Formats : bus'[f] = <<>>
  BY <1>1, FlightTypes DEF SweepStart, SkipPID, Timeout, Advance, canVars
<1>3. Sought'
  BY <1>2 DEF Sought
<1>4. CASE SweepStart
  <2>1. Entries' = {}
    BY <1>4 DEF SweepStart, Entries
  <2> QED
    BY <1>3, <2>1 DEF WholeInv
<1>5. CASE SkipPID \/ Timeout
  <2>1. vehicle_data' = vehicle_data /\ Requests' = Requests /\ Entries' = Entries
    BY <1>5 DEF SkipPID, Timeout, Advance, Requests, Entries
  <2>2. \A i \in Entries : Alone(i)' => Stands(i, Pieces(vehicle_data[i].pid))'
    BY <1>1, <2>1, NothingUnfinished, StandsStill
  <2> QED
    BY <1>3, <2>1, <2>2 DEF WholeInv
<1> QED
  BY <1>4, <1>5

\* The requests.
LEMMA WholeRequests ==
    ASSUME TypeOK, SweepInv, WholeInv, RequestStandard \/ RequestExtended
    PROVE  WholeInv'
<1>1. PICK f \in Formats : pc = f /\ RequestStep(f)
  BY DEF RequestStandard, RequestExtended, RequestStep, Formats
<1>2. currentPID \in PIDs
  BY DEF RequestStandard, RequestExtended, TypeOK, SweepType, Sweeping
<1>3. Requests \subseteq Requests'
  BY <1>1, <1>2, RequestKeeps
<1>4. /\ vehicle_data' = vehicle_data /\ obd_msgq' = obd_msgq /\ currentPID' = currentPID
      /\ Entries' = Entries /\ \A g : Current(g)' = Current(g)
  BY <1>1 DEF RequestStep, Entries, Current
<1>5. ASSUME NEW g \in Formats, bus'[g] # <<>>
      PROVE  Current(g) \in Requests'
  <2>1. CASE bus'[g] = bus[g]
    BY <1>3, <1>5, <2>1 DEF WholeInv, Sought
  <2>2. CASE bus'[g] # bus[g]
    <3>1. /\ bus' = [bus EXCEPT ![f] = Append(@, AnswerFrame(currentPID, f))]
          /\ asked' = Append(asked, <<currentPID, f>>)
      BY <1>1, <2>2 DEF RequestStep, Send, SkipFormat
    <3>2. g = f
      BY <2>2, <3>1 DEF TypeOK, CanType
    <3>3. Requests' = Requests \union {<<currentPID, f>>}
      BY <1>2, <3>1, RequestAdded
    <3> QED
      BY <3>2, <3>3 DEF Current
  <2> QED
    BY <2>1, <2>2
<1>6. Sought'
  BY <1>3, <1>4, <1>5 DEF WholeInv, Sought
<1>7. \A i \in Entries : Alone(i)' => Stands(i, Pieces(vehicle_data[i].pid))'
  <2>1. pc \notin {"drain", "halted"}
    BY <1>1 DEF Formats
  <2> QED
    BY <1>3, <1>4, <2>1, NothingUnfinished, StandsStill
<1> QED
  BY <1>4, <1>6, <1>7 DEF WholeInv

\* An answer is taken while an earlier one of its PID is unfinished only if the PID was
\* asked on both formats.
LEMMA ReplyFinds ==
    ASSUME TypeOK, SweepInv, NEW f, f = Head(obd_msgq).ide, f \in Formats, Open(f),
           NEW i \in Entries, Alone(i)
    PROVE  ~Unfinished(i)
<1> SUFFICES ASSUME vehicle_data[i].pid = currentPID
             PROVE  FALSE
  BY DEF Unfinished
<1>1. Request(i) \in Replied /\ Request(i) = Current(vehicle_data[i].ide)
  BY DEF Replied, Request, Current
<1>2. vehicle_data[i].ide # f
  BY <1>1 DEF Open
<1>3. Current(f) \notin Requests
  BY <1>2 DEF Alone, Current
<1> QED
  BY <1>3 DEF Open

\* The first frame of an answer that is alone: nothing else is under way.
LEMMA AloneInFlight ==
    ASSUME TypeOK, SweepInv, obd_msgq # <<>>, NEW f \in Formats, Open(f), currentPID \in PIDs,
           \A g \in Formats \ {f} : <<currentPID, g>> \notin Requests
    PROVE  InFlight = 1
<1>1. Load(f) = 1
  BY DEF Open, Load
<1>2. \A g \in Formats \ {f} : Load(g) = 0
  BY DEF Load, Current
<1>3. Load("STANDARD") + Load("EXTENDED") = 1
  <2>1. CASE f = "STANDARD"
    BY <1>1, <1>2, <2>1 DEF Formats
  <2>2. CASE f = "EXTENDED"
    BY <1>1, <1>2, <2>2 DEF Formats
  <2> QED
    BY <2>1, <2>2 DEF Formats
<1>4. InFlight \in Nat /\ InFlight # 0
  BY FlightTypes
<1> QED
  BY <1>3, <1>4 DEF SweepInv, FlightInv

\* Replies.
LEMMA WholeReply ==
    ASSUME TypeOK, SweepInv, WholeInv, LengthsFit, "refused" \notin Faults,
           ReceiveFirst \/ ReceiveSingle
    PROVE  WholeInv'
<1> DEFINE x == Head(obd_msgq)
<1>1. PICK f : f = x.ide
  OBVIOUS
<1>2. PICK rest, bytes :
         /\ TakesReply(f, rest, bytes)
         /\ Answer[currentPID] > 7 =>
               /\ Len(rest) = Follow(currentPID) /\ bytes = 6
               /\ MFL' = Answer[currentPID] - 6
  <2>1. CASE ReceiveFirst
    BY <1>1, <2>1, FirstTaken, FirstMFL
  <2>2. CASE ReceiveSingle
    <3>1. Answer[currentPID] <= 7 /\ Answer[currentPID] \in Nat
          /\ TakesReply(f, <<>>, Answer[currentPID] + 1)
      BY <1>1, <2>2, SingleTaken, FollowType
    <3> QED
      BY <3>1
  <2> QED
    BY <2>1, <2>2
<1>3. /\ pc = "drain" /\ obd_msgq # <<>> /\ x.kind # "consecutive" /\ bytes \in Nat
      /\ Rest(rest, f) /\ obd_msgq' = Tail(obd_msgq) /\ bus' = [bus EXCEPT ![f] = rest]
      /\ vehicle_data' = Append(vehicle_data, Chunk(x, bytes))
      /\ pc' = pc /\ currentPID' = currentPID /\ asked' = asked
  BY <1>2 DEF TakesReply
<1>4. /\ x \in Frame /\ f \in Formats /\ OfCurrent(x) /\ currentPID \in PIDs /\ Open(f)
      /\ x = AnswerFrame(currentPID, f)
  BY <1>1, <1>3, Taken
<1>5. InFlight' = (InFlight - 1) + Len(rest)
  BY <1>2, ReplyTaken
<1>6. Requests' = Requests /\ \A g : Current(g)' = Current(g)
  BY <1>3 DEF Requests, Current
<1>7. Sought'
  <2>1. \A i \in 1..Len(Tail(obd_msgq)) :
           Tail(obd_msgq)[i] = obd_msgq[i + 1] /\ i + 1 \in 1..Len(obd_msgq)
    BY <1>3, FlightTypes, Queue
  <2>2. \A i \in 1..Len(obd_msgq') : Current(obd_msgq'[i].ide) \in Requests
    BY <1>3, <2>1 DEF WholeInv, Sought
  <2>3. \A g \in Formats : bus'[g] # <<>> => Current(g) \in Requests
    <3>1. \A g \in Formats \ {f} : bus'[g] = bus[g]
      BY <1>3 DEF TypeOK, CanType
    <3> QED
      BY <1>4, <3>1 DEF WholeInv, Sought, Open
  <2> QED
    BY <1>3, <1>6, <2>2, <2>3 DEF Sought, Current
<1>8. \A i \in Entries : Alone(i)' => Stands(i, Pieces(vehicle_data[i].pid))'
  <2>1. \A i \in Entries : ~(Alone(i) /\ Unfinished(i))
    BY <1>1, <1>4, ReplyFinds
  <2> QED
    BY <1>3, <1>6, <2>1, StandsStill
<1>9. PICK last : last = Len(vehicle_data) + 1
  OBVIOUS
<1>10. /\ Entries' = Entries \union {last}
       /\ Len(vehicle_data') = last /\ vehicle_data'[last] = Chunk(x, bytes) /\ last \in Nat
  <2>1. Chunk(x, bytes) \in ChunkSet /\ Chunk(x, bytes).kind # "consecutive"
    BY <1>3, <1>4, FrameFields DEF Chunk
  <2> QED
    BY <1>3, <1>9, <2>1, EntriesGrow
<1>11. ASSUME Alone(last)' PROVE Unfinished(last)'
  <2>1. /\ vehicle_data'[last].pid = currentPID /\ vehicle_data'[last].ide = f
        /\ vehicle_data'[last].kind = x.kind /\ vehicle_data'[last].bytes = bytes
    BY <1>1, <1>4, <1>10 DEF Chunk, OfCurrent
  <2>2. /\ Answer[currentPID] > 7
        /\ \A g \in Formats \ {f} : <<currentPID, g>> \notin Requests
    BY <1>6, <1>11, <2>1 DEF Alone
  <2>3. /\ Answer[currentPID] \in Nat /\ Follow(currentPID) = Answer[currentPID] \div 7
        /\ Follow(currentPID) \in Nat /\ Follow(currentPID) >= 1
    BY <1>4, <2>2, FollowType
  <2>4. x.kind = "first"
    BY <1>4, <2>2, <2>3 DEF AnswerFrame
  <2>5. InFlight = 1
    BY <1>3, <1>4, <2>2, AloneInFlight
  <2>6. InFlight' = Pieces(currentPID)
    BY <1>2, <1>5, <2>2, <2>3, <2>5 DEF Pieces
  <2>7. Stands(last, 0)'
    BY <1>2, <2>1, <2>2, <2>4 DEF Stands
  <2>8. 0 \in 0..(Pieces(currentPID) - 1)
    BY <2>3 DEF Pieces
  <2>9. /\ Len(vehicle_data') = last + 0 /\ InFlight' = Pieces(currentPID') - 0
        /\ MFL' = Answer[currentPID'] - 6 - 7 * 0
    BY <1>2, <1>3, <1>10, <2>2, <2>3, <2>6 DEF Pieces
  <2>10. pc' = "drain" /\ vehicle_data'[last].pid = currentPID'
    BY <1>3, <2>1
  <2>11. 0 \in 0..(Pieces(currentPID') - 1)
    BY <1>3, <2>8
  <2> QED
    BY <2>7, <2>9, <2>10, <2>11 DEF Unfinished
<1> QED
  BY <1>7, <1>8, <1>10, <1>11 DEF WholeInv

\* The pieces of an answer of a bytes and what is left of it after n of them.
LEMMA LeftOver ==
    ASSUME NEW a \in Nat, NEW q \in Nat, 7 * q <= a, a < 7 * q + 7, NEW n \in 0..(q - 1)
    PROVE  /\ n \in Nat /\ n < q
           /\ a - 6 - 7 * n \in Int /\ a - 6 - 7 * n >= 1
           /\ n + 1 < q => a - 6 - 7 * n >= 7
           /\ n + 1 # q => n + 1 \in 0..(q - 1) /\ n + 1 < q
           /\ (q - n) - 1 = q - (n + 1) /\ (a - 6 - 7 * n) - 7 = a - 6 - 7 * (n + 1)
  OBVIOUS

\* The next piece of an unfinished answer.
LEMMA PieceTaken ==
    ASSUME TypeOK, SweepInv, WholeInv, ReceiveConsecutive,
           NEW i \in Entries, Alone(i), Unfinished(i)
    PROVE  Stands(i, Pieces(vehicle_data[i].pid))' \/ Unfinished(i)'
<1> DEFINE x == Head(obd_msgq)
           b == IF MFL < 7 THEN MFL ELSE 7
           p == currentPID
           f == vehicle_data[i].ide
<1>0. /\ pc = "drain" /\ obd_msgq # <<>> /\ x.kind = "consecutive"
      /\ currentPID' = currentPID
  BY DEF ReceiveConsecutive
<1>1. /\ p \in PIDs /\ Answer[p] > 7 /\ vehicle_data[i].pid = p
      /\ \A g \in Formats \ {f} : Current(g) \notin Requests
  BY DEF Alone, Unfinished, Current
<1>2. PICK a, q \in Nat : a = Answer[p] /\ q = Pieces(p) /\ 7 * q <= a /\ a < 7 * q + 7
  <2>1. Answer[p] \in Nat
    BY <1>1, FollowType
  <2>2. PICK a \in Nat : a = Answer[p]
    BY <2>1
  <2>3. a \div 7 \in Nat /\ 7 * (a \div 7) <= a /\ a < 7 * (a \div 7) + 7
    BY <2>2
  <2> QED
    BY <2>2, <2>3 DEF Pieces
<1>3. PICK n \in 0..(q - 1) : /\ Stands(i, n) /\ Len(vehicle_data) = i + n
                              /\ InFlight = q - n /\ MFL = a - 6 - 7 * n
  BY <1>2 DEF Unfinished
<1>4. MFL \in Int /\ MFL >= 1 /\ (n + 1 < q => MFL >= 7)
  BY <1>2, <1>3, LeftOver
<1>5. b \in Nat /\ ~(b < 0) /\ (n + 1 < q => b = 7)
  BY <1>4
<1>6. vehicle_data' = Append(vehicle_data, Chunk(x, b)) /\ MFL' = MFL - b /\ pc' = pc
  BY <1>5 DEF ReceiveConsecutive
<1>7. x \in Frame /\ x.pid = p /\ x.ide = f
  <2>1. x \in Frame /\ x.ide \in Formats /\ OfCurrent(x)
    BY <1>0, Taken
  <2>2. Current(x.ide) \in Requests
    <3>1. x = obd_msgq[1] /\ 1 \in 1..Len(obd_msgq)
      BY <1>0, FlightTypes, Queue
    <3> QED
      BY <3>1 DEF WholeInv, Sought
  <2> QED
    BY <1>1, <2>1, <2>2 DEF OfCurrent
<1>8. Chunk(x, b) = Piece(p, f, n + 1)
  <2>1. Answer[p] - 6 - 7 * ((n + 1) - 1) = MFL
    BY <1>2, <1>3
  <2> QED
    BY <1>0, <1>7, <2>1 DEF Chunk, Piece
<1> HIDE DEF b
<1>9. /\ Chunk(x, b) \in ChunkSet /\ Chunk(x, b).kind = "consecutive"
  BY <1>0, <1>5, <1>7, FrameFields DEF Chunk
<1>10. i \in Nat /\ n \in Nat /\ i \in DOMAIN vehicle_data
  <2>1. vehicle_data \in Seq(ChunkSet)
    BY DEF TypeOK, SweepType
  <2> QED
    BY <1>2, <1>3, <2>1 DEF Entries
<1>11. /\ Len(vehicle_data') = i + (n + 1) /\ vehicle_data'[i + (n + 1)] = Piece(p, f, n + 1)
       /\ i + (n + 1) \in DOMAIN vehicle_data'
  <2>1. /\ Len(vehicle_data') = Len(vehicle_data) + 1
        /\ vehicle_data'[Len(vehicle_data) + 1] = Chunk(x, b)
        /\ Len(vehicle_data) + 1 \in DOMAIN vehicle_data'
    BY <1>6, <1>9, EntriesGrow
  <2>2. Len(vehicle_data) + 1 = i + (n + 1)
    BY <1>3, <1>10
  <2> QED
    BY <1>8, <2>1, <2>2
<1>12. vehicle_data'[i] = vehicle_data[i] /\ Stands(i, n)'
  BY <1>3, <1>6, <1>10, StandsGrows
<1>13. Stands(i, n + 1)'
  <2>1. \A k \in 1..(n + 1) : k \in 1..n \/ k = n + 1
    BY <1>10
  <2> QED
    BY <1>1, <1>11, <1>12, <2>1 DEF Stands
<1>14. CASE n + 1 = q
  <2>1. Pieces(vehicle_data'[i].pid) = n + 1
    BY <1>1, <1>2, <1>12, <1>14
  <2> QED
    BY <1>13, <2>1 DEF Stands
<1>15. CASE n + 1 # q
  <2>1. n + 1 \in 0..(q - 1) /\ n + 1 < q
    BY <1>2, <1>15, LeftOver
  <2>2. InFlight' = q - (n + 1)
    <3>1. InFlight' = InFlight - 1
      BY ConsecutiveKeeps
    <3> QED
      BY <1>2, <1>3, <3>1, LeftOver
  <2>3. MFL' = a - 6 - 7 * (n + 1)
    <3>1. b = 7 /\ MFL' = (a - 6 - 7 * n) - 7
      BY <1>3, <1>5, <1>6, <2>1
    <3> QED
      BY <1>2, <3>1, LeftOver
  <2>4. /\ n + 1 \in 0..(Pieces(currentPID') - 1) /\ InFlight' = Pieces(currentPID') - (n + 1)
        /\ MFL' = Answer[currentPID'] - 6 - 7 * (n + 1)
    BY <1>0, <1>2, <2>1, <2>2, <2>3
  <2>5. pc' = "drain" /\ vehicle_data'[i].pid = currentPID'
    BY <1>0, <1>1, <1>6, <1>12
  <2> QED
    BY <1>11, <1>13, <2>4, <2>5 DEF Unfinished
<1> QED
  BY <1>14, <1>15

\* Consecutive frames.
LEMMA WholeConsecutive ==
    ASSUME TypeOK, SweepInv, WholeInv, ReceiveConsecutive
    PROVE  WholeInv'
<1> DEFINE x == Head(obd_msgq)
           b == IF MFL < 7 THEN MFL ELSE 7
<1>0. /\ pc = "drain" /\ obd_msgq # <<>> /\ x.kind = "consecutive"
      /\ obd_msgq' = Tail(obd_msgq) /\ bus' = bus /\ currentPID' = currentPID
  BY DEF ReceiveConsecutive
<1>1. Requests' = Requests /\ \A g : Current(g)' = Current(g)
  BY ConsecutiveTaken
<1>2. Sought'
  <2>1. \A i \in 1..Len(Tail(obd_msgq)) :
           Tail(obd_msgq)[i] = obd_msgq[i + 1] /\ i + 1 \in 1..Len(obd_msgq)
    BY <1>0, FlightTypes, Queue
  <2>2. \A i \in 1..Len(obd_msgq') : Current(obd_msgq'[i].ide) \in Requests
    BY <1>0, <2>1 DEF WholeInv, Sought
  <2> QED
    BY <1>0, <1>1, <2>2 DEF WholeInv, Sought, Current
<1>3. /\ Entries' = Entries
      /\ \E c : vehicle_data' = vehicle_data \/ vehicle_data' = Append(vehicle_data, c)
  <2>1. CASE b < 0
    BY <2>1 DEF ReceiveConsecutive, Entries
  <2>2. CASE ~(b < 0)
    <3>1. b \in Nat /\ vehicle_data' = Append(vehicle_data, Chunk(x, b))
      BY <2>2 DEF ReceiveConsecutive, TypeOK, SweepType
    <3> HIDE DEF b
    <3>2. Chunk(x, b) \in ChunkSet /\ Chunk(x, b).kind = "consecutive"
      BY <1>0, <3>1, Taken, FrameFields DEF Chunk
    <3> QED
      BY <3>1, <3>2, EntriesGrow
  <2> QED
    BY <2>1, <2>2
<1>4. ASSUME NEW i \in Entries, Alone(i)'
      PROVE  Stands(i, Pieces(vehicle_data[i].pid))' \/ Unfinished(i)'
  <2>1. CASE Alone(i) /\ Unfinished(i)
    BY <2>1, PieceTaken
  <2>2. CASE ~(Alone(i) /\ Unfinished(i))
    BY <1>1, <1>3, <1>4, <2>2, StandsStill
  <2> QED
    BY <2>1, <2>2
<1> QED
  BY <1>2, <1>3, <1>4 DEF WholeInv

\* The driver.
LEMMA WholeDeliver ==
    ASSUME TypeOK, SweepInv, WholeInv, Punctual, NEW f \in Formats, Deliver(f)
    PROVE  WholeInv'
<1>1. /\ InFlight' = InFlight /\ obd_msgq' = Append(obd_msgq, Head(bus[f]))
      /\ bus[f] # <<>> /\ bus' = [bus EXCEPT ![f] = Tail(bus[f])]
      /\ UNCHANGED <<pc, vehicle_data, currentPID, asked, MFL>>
  BY DeliverKeeps DEF Deliver, sweepVars
<1>2. Requests' = Requests /\ Entries' = Entries /\ \A g : Current(g)' = Current(g)
  BY <1>1 DEF Requests, Entries, Current
<1>3. Sought'
  <2>1. /\ obd_msgq \in Seq(Frame) /\ bus[f] \in Seq(Frame) /\ Head(bus[f]) = bus[f][1]
        /\ 1 \in 1..Len(bus[f]) /\ Head(bus[f]) \in Frame
    BY <1>1, FlightTypes, Queue
  <2>2. Head(bus[f]).ide = f /\ Current(f) \in Requests
    BY <1>1, <2>1 DEF SweepInv, FlightInv, OnlyCurrent, WholeInv, Sought
  <2>3. \A i \in 1..Len(obd_msgq') : \/ i \in 1..Len(obd_msgq) /\ obd_msgq'[i] = obd_msgq[i]
                                     \/ obd_msgq'[i] = Head(bus[f])
    BY <1>1, <2>1
  <2>4. \A i \in 1..Len(obd_msgq') : Current(obd_msgq'[i].ide) \in Requests
    BY <2>2, <2>3 DEF WholeInv, Sought
  <2>5. \A g \in Formats : bus'[g] # <<>> => Current(g) \in Requests
    <3>1. \A g \in Formats \ {f} : bus'[g] = bus[g]
      BY <1>1 DEF TypeOK, CanType
    <3> QED
      BY <2>2, <3>1 DEF WholeInv, Sought
  <2> QED
    BY <1>1, <1>2, <2>4, <2>5 DEF Sought, Current
<1>4. ASSUME NEW i \in Entries, Alone(i)'
      PROVE  Stands(i, Pieces(vehicle_data[i].pid))' \/ Unfinished(i)'
  <2>1. CASE Unfinished(i)
    <3>1. PICK n \in 0..(Pieces(currentPID) - 1) :
             /\ Stands(i, n) /\ Len(vehicle_data) = i + n
             /\ InFlight = Pieces(currentPID) - n
             /\ MFL = Answer[currentPID] - 6 - 7 * n
      BY <2>1 DEF Unfinished
    <3>2. Stands(i, n)'
      BY <1>1, <3>1 DEF Stands
    <3>3. /\ Pieces(currentPID') = Pieces(currentPID) /\ Len(vehicle_data') = i + n
          /\ InFlight' = Pieces(currentPID) - n /\ MFL' = Answer[currentPID'] - 6 - 7 * n
          /\ pc' \in {"drain", "halted"} /\ vehicle_data'[i].pid = currentPID'
      BY <1>1, <2>1, <3>1 DEF Unfinished
    <3> QED
      BY <3>1, <3>2, <3>3 DEF Unfinished
  <2>2. CASE ~Unfinished(i)
    BY <1>1, <1>2, <1>4, <2>2, StandsStill
  <2> QED
    BY <2>1, <2>2
<1> QED
  BY <1>2, <1>3, <1>4 DEF WholeInv

\* Every step.
LEMMA NextWhole ==
    ASSUME TypeOK, SweepInv, WholeInv, Punctual, LengthsFit, "refused" \notin Faults, [Next]_vars
    PROVE  WholeInv'
<1>1. CASE GnssEventHandler \/ UNCHANGED vars
  BY <1>1, WholeElsewhere
  DEF GnssEventHandler, PvtFix, SleepAfterFix, PeriodicWakeup, sweepVars, canVars, vars
<1>2. CASE TakeReady \/ CopyRegion \/ AppendVehicle \/ SendOk \/ SendFails \/ Overrun
  BY <1>2, WholeElsewhere
  DEF TakeReady, CopyRegion, AppendVehicle, SendOk, SendFails, Overrun, sweepVars, canVars
<1>3. CASE SweepStart \/ SkipPID \/ Timeout
  BY <1>3, WholeMoves
<1>4. CASE RequestStandard \/ RequestExtended
  BY <1>4, WholeRequests
<1>5. CASE ReceiveFirst \/ ReceiveSingle
  BY <1>5, WholeReply
<1>6. CASE ReceiveConsecutive
  BY <1>6, WholeConsecutive
<1>7. CASE \E f \in Formats : Deliver(f)
  BY <1>7, WholeDeliver
<1>8. CASE OtherTraffic
  BY <1>8 DEF OtherTraffic, Punctual
<1> QED
  BY <1>1, <1>2, <1>3, <1>4, <1>5, <1>6, <1>7, <1>8 DEF Next, Main, MainStep, Can

\* Every long answer of a PID asked on one format stands whole in the report, for every
\* length that fits a byte and whatever the answers of other PIDs do to one another
\* (main.c 411-464).
THEOREM Whole ==
    ASSUME Punctual, LengthsFit, "refused" \notin Faults
    PROVE  Spec => []MultiFrameWhole
<1>1. Init => TypeOK /\ SweepInv /\ WholeInv
  <2>1. Init => WholeInv
    BY DEF Init, WholeInv, Sought, Entries
  <2> QED
    BY <2>1, InitType, InitSweepInv
<1>2. TypeOK /\ SweepInv /\ WholeInv /\ [Next]_vars => TypeOK' /\ SweepInv' /\ WholeInv'
  BY NextType, NextSweepInv, NextWhole
<1>3. TypeOK /\ SweepInv /\ WholeInv => MultiFrameWhole
  <2> SUFFICES ASSUME TypeOK, WholeInv, ~Sweeping, pc # "halted", NEW i \in Entries, Alone(i)
               PROVE  Stands(i, Pieces(vehicle_data[i].pid))
    BY DEF MultiFrameWhole
  <2>1. ~Unfinished(i)
    BY DEF Unfinished, Sweeping
  <2> QED
    BY <2>1 DEF WholeInv
<1> QED
  BY <1>1, <1>2, <1>3, PTL DEF Spec

-----------------------------------------------------------------------------
(* The buffers. *)

\* What is still owed of a PID is at most its share of the report.
LEMMA OwedType ==
    ASSUME currentPID \in PIDs
    PROVE  \A f \in Formats : /\ Owed(f) \in Nat /\ Share(currentPID, f) \in Nat
                              /\ Owed(f) <= Share(currentPID, f)
BY FollowType DEF Owed, Share

\* Within its share, the report fits the buffer.
LEMMA SizeFits ==
    ASSUME TypeOK, MFLInv, NEW room, ReportFits(room), SizeInv(room)
    PROVE  /\ vehicle_size <= Cap
           /\ ~Sweeping /\ pc # "halted" => GnssLen + vehicle_size <= Cap
<1>0. vehicle_size \in Nat /\ GnssLen \in Nat /\ Cap \in Nat /\ LastPID \in 0..LastPID
  BY TrackerAssumption DEF TypeOK, SweepType
<1>1. CASE pc = "halted"
  BY <1>1 DEF SizeInv
<1>2. CASE ~Sweeping /\ pc # "halted"
  <2>1. vehicle_size <= ImuLen + room[LastPID] /\ GnssLen + ImuLen + room[LastPID] <= Cap
    BY <1>0, <1>2 DEF SizeInv, ReportFits, TypeOK, UplinkType, Sweeping
  <2>2. room[LastPID] \in Nat
    BY <1>0 DEF ReportFits
  <2> QED
    BY <1>0, <2>1, <2>2 DEF ImuLen
<1>3. CASE Sweeping
  <2>1. currentPID \in PIDs /\ currentPID \in 0..LastPID
    BY <1>0, <1>3 DEF TypeOK, SweepType, PIDs
  <2>2. /\ Owed("STANDARD") \in Nat /\ Owed("EXTENDED") \in Nat
        /\ room[currentPID] \in Nat /\ MFL \in Int /\ MFL >= 0
    BY <2>1, OwedType DEF Formats, ReportFits, MFLInv, TypeOK, SweepType
  <2>3. PICK m \in Nat : m = IF pc = "drain" THEN MFL ELSE 0
    BY <2>2
  <2>4. /\ vehicle_size + Owed("STANDARD") + Owed("EXTENDED") + m <= ImuLen + room[currentPID]
        /\ GnssLen + ImuLen + room[currentPID] <= Cap
    BY <1>3, <2>1, <2>3 DEF SizeInv, ReportFits
  <2> QED
    BY <1>0, <1>3, <2>2, <2>4 DEF ImuLen, Sweeping
<1> QED
  BY <1>1, <1>2, <1>3

\* A step that leaves the sweep's report alone.
LEMMA SizeKept ==
    ASSUME NEW room, SizeInv(room),
           UNCHANGED <<vehicle_data, vehicle_size, currentPID>>,
           \/ pc' = pc /\ UNCHANGED MFL
           \/ pc \in {"loop", "copy", "send"} /\ pc' \in {"loop", "copy", "send"}
           \/ Sweeping /\ pc' = "EXTENDED" /\ pc # "drain"
           \/ Sweeping /\ pc' = "drain" /\ pc # "drain" /\ MFL' = 0
    PROVE  SizeInv(room)'
<1>1. \A f : Owed(f)' = Owed(f)
  BY ReportKept DEF Owed, Current
<1> QED
  BY <1>1 DEF SizeInv, Sweeping

\* A PID begins with all of its share owed.
LEMMA NextShare ==
    ASSUME NEW room, ReportFits(room), NEW p \in PIDs, currentPID' = p, pc' = "STANDARD",
           vehicle_size' \in Nat, vehicle_size' <= ImuLen + room[p - 1]
    PROVE  SizeInv(room)'
<1>1. /\ room[p - 1] \in Nat /\ room[p] \in Nat
      /\ room[p - 1] + Share(p, "STANDARD") + Share(p, "EXTENDED") <= room[p]
  BY TrackerAssumption DEF ReportFits, PIDs
<1>2. \A f \in Formats : Owed(f)' \in Nat /\ Owed(f)' <= Share(p, f) /\ Share(p, f) \in Nat
  BY FollowType DEF Owed, Share
<1>3. /\ Owed("STANDARD")' \in Nat /\ Owed("STANDARD")' <= Share(p, "STANDARD")
      /\ Owed("EXTENDED")' \in Nat /\ Owed("EXTENDED")' <= Share(p, "EXTENDED")
      /\ Share(p, "STANDARD") \in Nat /\ Share(p, "EXTENDED") \in Nat
  BY <1>2 DEF Formats
<1>4. vehicle_size' + Owed("STANDARD")' + Owed("EXTENDED")' <= ImuLen + room[p]
  BY <1>1, <1>3 DEF ImuLen
<1>5. vehicle_size' + Owed("STANDARD")' + Owed("EXTENDED")' + 0 <= ImuLen + room[p]
  BY <1>3, <1>4
<1> QED
  BY <1>5 DEF SizeInv, Sweeping

\* The next PID begins with its share, or the sweep ends.
LEMMA AdvanceFits ==
    ASSUME TypeOK, MFLInv, NEW room, ReportFits(room), SizeInv(room), Sweeping, Advance
    PROVE  SizeInv(room)'
<1>1. /\ currentPID \in PIDs /\ vehicle_size \in Nat /\ MFL \in Int /\ MFL >= 0
      /\ room[currentPID] \in Nat /\ LastPID \in Nat
  BY TrackerAssumption DEF TypeOK, SweepType, MFLInv, ReportFits, PIDs
<1>2. vehicle_size <= ImuLen + room[currentPID]
  <2>1. /\ Owed("STANDARD") \in Nat /\ Owed("EXTENDED") \in Nat
    BY <1>1, OwedType DEF Formats
  <2>2. vehicle_size + Owed("STANDARD") + Owed("EXTENDED")
          + (IF pc = "drain" THEN MFL ELSE 0) <= ImuLen + room[currentPID]
    BY DEF SizeInv
  <2> QED
    BY <1>1, <2>1, <2>2 DEF ImuLen
<1>3. CASE currentPID = LastPID
  BY <1>2, <1>3 DEF Advance, SizeInv, Sweeping
<1>4. CASE currentPID # LastPID
  <2>1. /\ currentPID + 1 \in PIDs /\ (currentPID + 1) - 1 = currentPID
        /\ currentPID' = currentPID + 1 /\ pc' = "STANDARD" /\ vehicle_size' = vehicle_size
    BY <1>1, <1>4 DEF Advance, PIDs
  <2> QED
    BY <1>1, <1>2, <2>1, NextShare
<1> QED
  BY <1>3, <1>4

\* An answer's bytes are no longer owed: they are in the report or in MFL.
LEMMA ReplyFits ==
    ASSUME TypeOK, SweepInv, MFLInv, LengthsFit, NEW room, SizeInv(room),
           ReceiveFirst \/ ReceiveSingle, room[currentPID] \in Nat
    PROVE  SizeInv(room)'
<1> DEFINE x == Head(obd_msgq)
<1>0. pc = "drain" /\ obd_msgq # <<>> /\ x.kind # "consecutive"
  BY DEF ReceiveFirst, ReceiveSingle
<1>1. PICK f \in Formats : f = x.ide
  BY <1>0, Taken
<1>2. /\ x \in Frame /\ x.n \in Nat /\ currentPID \in PIDs /\ Open(f)
      /\ x = AnswerFrame(currentPID, f) /\ x.pid = currentPID /\ x.n = Answer[currentPID]
      /\ \A bytes \in Nat : Chunk(x, bytes) \in ChunkSet
  BY <1>0, <1>1, Taken, FrameFields DEF AnswerFrame
<1>3. Current(f) \notin Replied /\ f \in PID_supported[currentPID]
  BY <1>2 DEF Open, SweepInv, RequestInv, Current
<1>4. PICK bytes \in Nat : vehicle_data' = Append(vehicle_data, Chunk(x, bytes))
  <2>1. x.n + 1 \in Nat
    BY <1>2
  <2> QED
    BY <2>1 DEF ReceiveFirst, ReceiveSingle
<1>5. Replied' = Replied \union {Current(f)}
  <2>1. /\ Chunk(x, bytes).kind # "consecutive"
        /\ <<Chunk(x, bytes).pid, Chunk(x, bytes).ide>> = Current(f)
    BY <1>0, <1>1, <1>2 DEF Chunk, Current
  <2> QED
    BY <1>2, <1>4, <2>1, ReportGrows
<1>6. pc' = "drain" /\ currentPID' = currentPID /\ \A g : Current(g)' = Current(g)
  BY DEF ReceiveFirst, ReceiveSingle, Current
<1>7. /\ Owed(f) = Bytes(currentPID) /\ Owed(f)' = 0
      /\ \A g \in Formats \ {f} : Owed(g)' = Owed(g)
  <2>1. \A g \in Formats \ {f} : Current(g) # Current(f)
    BY DEF Current
  <2> QED
    BY <1>3, <1>5, <1>6, <2>1 DEF Owed, Bytes
<1>8. PICK g \in Formats : g # f /\ \A h \in Formats : h = f \/ h = g
  BY DEF Formats
<1>9. /\ Owed(g) \in Nat /\ Owed(g)' = Owed(g) /\ Bytes(currentPID) \in Nat
      /\ vehicle_size \in Nat /\ MFL \in Int /\ MFL >= 0
  BY <1>2, <1>7, <1>8, OwedType, FollowType DEF TypeOK, SweepType, MFLInv
<1>10. /\ Owed("STANDARD") + Owed("EXTENDED") = Owed(f) + Owed(g)
       /\ Owed("STANDARD")' + Owed("EXTENDED")' = Owed(f)' + Owed(g)'
  <2>1. CASE f = "STANDARD" /\ g = "EXTENDED"
    BY <2>1
  <2>2. CASE f = "EXTENDED" /\ g = "STANDARD"
    BY <1>7, <1>9, <2>2
  <2> QED
    BY <1>8, <2>1, <2>2 DEF Formats
<1>11. vehicle_size + (Bytes(currentPID) + Owed(g)) + MFL <= ImuLen + room[currentPID]
  <2>1. /\ Owed("STANDARD") \in Nat /\ Owed("EXTENDED") \in Nat
        /\ Owed("STANDARD") + Owed("EXTENDED") = Bytes(currentPID) + Owed(g)
    BY <1>2, <1>7, <1>10, OwedType DEF Formats
  <2>2. vehicle_size + Owed("STANDARD") + Owed("EXTENDED") + MFL <= ImuLen + room[currentPID]
    BY <1>0 DEF SizeInv, Sweeping
  <2> QED
    BY <1>9, <2>1, <2>2
<1>12. vehicle_size' + MFL' <= vehicle_size + Bytes(currentPID) + MFL
       /\ vehicle_size' \in Nat /\ MFL' \in Int
  <2>0. Answer[currentPID] \in Nat
    BY <1>2, FollowType
  <2>1. CASE ReceiveSingle
    <3>1. vehicle_size' = vehicle_size + x.n + 1 /\ MFL' = MFL /\ x.kind = "single"
      BY <2>1 DEF ReceiveSingle
    <3>2. Answer[currentPID] <= 7
      BY <1>2, <3>1 DEF AnswerFrame
    <3>3. Bytes(currentPID) = Answer[currentPID] + 1 /\ x.n = Answer[currentPID]
      BY <1>2, <3>2 DEF Bytes
    <3> HIDE DEF x
    <3> QED
      BY <1>9, <2>0, <3>1, <3>3
  <2>2. CASE ReceiveFirst
    <3>1. vehicle_size' = vehicle_size + 6
      BY <2>2 DEF ReceiveFirst
    <3>2. MFL' = Answer[currentPID] - 6 /\ ~(Answer[currentPID] <= 7)
      BY <2>0, <2>2, FirstMFL
    <3>3. Bytes(currentPID) = Answer[currentPID]
      BY <3>2 DEF Bytes
    <3> HIDE DEF x
    <3> QED
      BY <1>9, <2>0, <3>1, <3>2, <3>3
  <2> QED
    BY <2>1, <2>2
<1>13. vehicle_size' + Owed("STANDARD")' + Owed("EXTENDED")' + MFL' <= ImuLen + room[currentPID]
  <2>1. /\ Owed("STANDARD")' \in Nat /\ Owed("EXTENDED")' \in Nat
    BY <1>7, <1>8, <1>9 DEF Formats
  <2>2. Owed("STANDARD")' + Owed("EXTENDED")' = Owed(g)
    BY <1>7, <1>9, <1>10
  <2> QED
    BY <1>9, <1>11, <1>12, <2>1, <2>2 DEF ImuLen
<1> QED
  BY <1>6, <1>13 DEF SizeInv, Sweeping

\* A consecutive frame moves bytes from MFL to the report.
LEMMA ConsecutiveFits ==
    ASSUME TypeOK, SweepInv, MFLInv, NEW room, SizeInv(room), ReceiveConsecutive
    PROVE  SizeInv(room)'
<1> DEFINE b == IF MFL < 7 THEN MFL ELSE 7
<1>1. MFL \in Int /\ MFL >= 0 /\ vehicle_size \in Nat
  BY DEF MFLInv, TypeOK, SweepType
<1>2. b \in Nat /\ ~(b < 0)
  BY <1>1
<1>3. /\ vehicle_data' = Append(vehicle_data, Chunk(Head(obd_msgq), b))
      /\ MFL' = MFL - b /\ vehicle_size' = vehicle_size + b
      /\ pc' = pc /\ pc = "drain" /\ currentPID' = currentPID
  BY <1>2 DEF ReceiveConsecutive
<1> HIDE DEF b
<1>4. Replied' = Replied
  <2>1. Chunk(Head(obd_msgq), b) \in ChunkSet /\ Chunk(Head(obd_msgq), b).kind = "consecutive"
    BY <1>2, Taken, FrameFields DEF Chunk, ReceiveConsecutive
  <2> QED
    BY <1>3, <2>1, ReportGrows
<1>5. \A f : Owed(f)' = Owed(f)
  BY <1>3, <1>4 DEF Owed, Current
<1>6. currentPID \in PIDs
  BY <1>3 DEF TypeOK, SweepType, Sweeping
<1>7. Owed("STANDARD") \in Nat /\ Owed("EXTENDED") \in Nat
  BY <1>6, OwedType DEF Formats
<1>8. vehicle_size' + Owed("STANDARD")' + Owed("EXTENDED")' + MFL'
        = vehicle_size + Owed("STANDARD") + Owed("EXTENDED") + MFL
  BY <1>1, <1>2, <1>3, <1>5, <1>7
<1>9. vehicle_size + Owed("STANDARD") + Owed("EXTENDED") + MFL <= ImuLen + room[currentPID]
  BY <1>3 DEF SizeInv, Sweeping
<1> QED
  BY <1>3, <1>8, <1>9 DEF SizeInv, Sweeping

\* Every step keeps the report within its bound.
LEMMA NextSizeInv ==
    ASSUME TypeOK, SweepInv, MFLInv, Punctual, LengthsFit,
           NEW room, ReportFits(room), SizeInv(room), [Next]_vars
    PROVE  SizeInv(room)'
<1>1. CASE GnssEventHandler \/ UNCHANGED vars
  BY <1>1, SizeKept
  DEF GnssEventHandler, PvtFix, SleepAfterFix, PeriodicWakeup, sweepVars, udpVars, vars
<1>2. CASE TakeReady \/ CopyRegion \/ AppendVehicle \/ SendOk
  <2>1. pc \in {"loop", "copy", "send"} /\ (pc' = pc \/ pc' \in {"loop", "copy", "send"})
    BY <1>2 DEF TakeReady, CopyRegion, AppendVehicle, SendOk
  <2> QED
    BY <1>2, <2>1, SizeKept DEF TakeReady, CopyRegion, AppendVehicle, SendOk, sweepVars
<1>3. CASE SendFails \/ Overrun
  <2>1. pc' = "halted" /\ vehicle_size' = vehicle_size
    BY <1>3 DEF SendFails, Overrun, sweepVars
  <2> QED
    BY <2>1, SizeFits DEF SizeInv, Sweeping
<1>4. CASE SweepStart
  <2>1. /\ currentPID' = 1 /\ pc' = "STANDARD" /\ vehicle_size' = ImuLen /\ 1 \in PIDs
    BY <1>4, TrackerAssumption DEF SweepStart, PIDs
  <2>2. room[0] \in Nat
    BY TrackerAssumption DEF ReportFits
  <2>3. ImuLen \in Nat /\ ImuLen <= ImuLen + room[1 - 1]
    BY <2>2 DEF ImuLen
  <2> QED
    BY <2>1, <2>3, NextShare
<1>5. CASE RequestStandard \/ RequestExtended
  BY <1>5, SizeKept DEF RequestStandard, RequestExtended, Sweeping
<1>6. CASE ReceiveFirst \/ ReceiveSingle
  <2>1. currentPID \in PIDs
    BY <1>6 DEF ReceiveFirst, ReceiveSingle, TypeOK, SweepType, Sweeping
  <2>2. room[currentPID] \in Nat
    BY <2>1, TrackerAssumption DEF ReportFits, PIDs
  <2> QED
    BY <1>6, <2>2, ReplyFits
<1>7. CASE ReceiveConsecutive
  BY <1>7, ConsecutiveFits
<1>8. CASE SkipPID \/ Timeout
  BY <1>8, AdvanceFits DEF SkipPID, Timeout, Sweeping
<1>9. CASE Can
  BY <1>9, SizeKept DEF Can, Deliver, OtherTraffic, sweepVars, udpVars
<1> QED
  BY <1>1, <1>2, <1>3, <1>4, <1>5, <1>6, <1>7, <1>8, <1>9 DEF Next, Main, MainStep

\* The sweep, what main counts, and the size of its report.
SizedInv(room) == TypeOK /\ SweepInv /\ MFLInv /\ SizeInv(room)

LEMMA InitSized ==
    ASSUME NEW room, ReportFits(room)
    PROVE  Init => SizedInv(room)
<1>1. room[LastPID] \in Nat
  BY TrackerAssumption DEF ReportFits
<1>2. Init => MFLInv /\ SizeInv(room)
  BY <1>1 DEF Init, MFLInv, SizeInv, Sweeping, ImuLen
<1> QED
  BY <1>2, InitType, InitSweepInv DEF SizedInv

LEMMA NextSized ==
    ASSUME Punctual, LengthsFit, NEW room, ReportFits(room), SizedInv(room), [Next]_vars
    PROVE  SizedInv(room)'
BY NextType, NextSweepInv, NextMFL, NextSizeInv DEF SizedInv

\* vehicle_data never outgrows its buffer, long answers included, for every car whose
\* answers fit (main.c 374-464); the length bytes of long answers go elsewhere.
THEOREM ReportBounded ==
    ASSUME Punctual, LengthsFit, NEW room, ReportFits(room)
    PROVE  Spec => [](vehicle_size <= Cap)
<1>1. Init => SizedInv(room)
  BY InitSized
<1>2. SizedInv(room) /\ [Next]_vars => SizedInv(room)'
  BY NextSized
<1>3. SizedInv(room) => vehicle_size <= Cap
  BY SizeFits DEF SizedInv
<1> QED
  BY <1>1, <1>2, <1>3, PTL DEF Spec

\* A car whose answers are single frames never has main write behind vehicle_data or
\* udp_data, if a datagram of its answers fits them (main.c 35-42, 358-362, 451-464).
THEOREM Bounded ==
    ASSUME Punctual, \A p \in PIDs : Answer[p] <= 7, NEW room, ReportFits(room)
    PROVE  Spec => []InBounds
<1> DEFINE I == SizedInv(room) /\ current_msg_size <= Cap
<1>0. LengthsFit
  <2>1. \A p \in PIDs : Answer[p] \in Nat
    BY TrackerAssumption
  <2> QED
    BY <2>1 DEF LengthsFit
<1>1. Init => I
  BY InitSized, TrackerAssumption DEF Init
<1>2. I /\ [Next]_vars => I'
  <2> SUFFICES ASSUME I, [Next]_vars PROVE I'
    OBVIOUS
  <2>1. SizedInv(room)'
    BY <1>0, NextSized
  <2>2. CASE AppendVehicle
    <3>1. GnssLen + vehicle_size <= Cap
      BY <2>2, SizeFits DEF AppendVehicle, SizedInv, Sweeping
    <3>2. /\ gnss_size \in {0, GnssLen} /\ GnssLen \in Nat /\ Cap \in Nat
          /\ vehicle_size \in Nat
      BY TrackerAssumption DEF SizedInv, TypeOK, UplinkType, SweepType
    <3>3. current_msg_size' = gnss_size + vehicle_size
      BY <2>2 DEF AppendVehicle
    <3> QED
      BY <2>1, <3>1, <3>2, <3>3
  <2>3. CASE ReceiveFirst
    <3>1. currentPID \in PIDs /\ Answer[currentPID] > 7 /\ Answer[currentPID] \in Nat
      BY <1>0, <2>3, FirstMFL, FirstTaken DEF SizedInv
    <3> QED
      BY <3>1
  <2>4. CASE ~AppendVehicle /\ ~ReceiveFirst
    <3>1. current_msg_size' = current_msg_size
      BY <2>4
      DEF Next, Main, MainStep, GnssEventHandler, Can, PvtFix, SleepAfterFix, PeriodicWakeup,
          TakeReady, CopyRegion, SendOk, SendFails, SweepStart, RequestStandard,
          RequestExtended, ReceiveConsecutive, ReceiveSingle, SkipPID, Timeout, Advance,
          Overrun, Deliver, OtherTraffic, vars, udpVars
    <3> QED
      BY <2>1, <3>1
  <2> QED
    BY <2>2, <2>3, <2>4
<1>3. I => InBounds
  BY SizeFits DEF SizedInv, InBounds
<1> HIDE DEF I
<1> QED
  BY <1>1, <1>2, <1>3, PTL DEF Spec
=============================================================================
