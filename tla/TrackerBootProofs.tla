-------------------------- MODULE TrackerBootProofs --------------------------
(***************************************************************************)
(* The proofs about the tracker's start-up. On a bus without faults the    *)
(* VIN is one control unit's and the PIDs discovered are the car's, for    *)
(* every block size, modulus, car, and interleaving of the two formats.    *)
(***************************************************************************)
EXTENDS TrackerBoot, SequenceTheorems, TLAPS

Frame == [kind : {"none", "vin", "pids"}, ide : Formats, part : 0..3, bits : SUBSET (1..Block)]
Multiple(b) == b \in Nat /\ b % Block = 0

BeforeVIN == {"modem", "waitLte", "gpio", "vinStandard", "waitStandard", "vinExtended",
              "waitExtended"}
Connecting == {"resolve", "connect", "gnss"}
Discovering == {"STANDARD", "EXTENDED", "drain"}

PCs == Booting \union Connecting \union Discovering \union {"run", "halted"}
Pieces == (Formats \union {"underscore"}) \X (0..3)

\* The types of every variable, and how much of the VIN has been read.
CarType == [car |-> car, faults |-> faults] \in Buses /\ vinOn \subseteq Formats
FlagType ==
  /\ lte_connected \in 0..1 /\ attaching \in BOOLEAN
  /\ canStarted \in BOOLEAN /\ IMEI \in {"unread", "underscore", "imei"}
FrameType ==
  /\ obd_msgq \in Seq(Frame) /\ Len(obd_msgq) <= MsgqSize
  /\ bus \in [Formats -> Seq(Frame)] /\ response_frame \in Frame
VINType ==
  /\ VIN \in Seq(Pieces) /\ Len(VIN) <= 3
  /\ pc \in BeforeVIN => VIN = <<>>
  /\ pc = "vin2" => Len(VIN) = 1
  /\ pc = "vin3" => Len(VIN) = 2
PIDType ==
  /\ PID_supported \in [0..Wrap -> SUBSET Formats]
  /\ checkPID < Wrap /\ Multiple(checkPID)

TypeInv ==
  pc \in PCs /\ CarType /\ FlagType /\ FrameType /\ VINType /\ PIDType

Quiet == obd_msgq = <<>> /\ \A f \in Formats : bus[f] = <<>>

\* What main will read: frames, all of format f and not yet read.
Coming(f, frames) ==
  obd_msgq \o bus[f] = frames /\ \A g \in Formats \ {f} : bus[g] = <<>>

\* The format of the control unit that identifies the car.
Identifier == IF "STANDARD" \in vinOn THEN "STANDARD" ELSE "EXTENDED"
FirstOf(f) == IF f \in vinOn THEN <<VinFrame(f, 1)>> ELSE <<>>
Whole == IF canStarted /\ vinOn # {}
         THEN << <<Identifier, 1>>, <<Identifier, 2>>, <<Identifier, 3>> >>
         ELSE NoVIN

\* While the car is identified, what is on its way is what main has not read of it.
VINInv ==
  /\ pc \in (Booting \ {"waitStandard", "waitExtended", "vin2", "vin3"}) \union Connecting
       => Quiet
  /\ pc = "waitStandard" => canStarted /\ Coming("STANDARD", FirstOf("STANDARD"))
  /\ pc = "vinExtended" => (canStarted => "STANDARD" \notin vinOn)
  /\ pc = "waitExtended" =>
       canStarted /\ "STANDARD" \notin vinOn /\ Coming("EXTENDED", FirstOf("EXTENDED"))
  /\ pc \in {"vin2", "vin3"} => canStarted /\ vinOn # {}
  /\ pc = "vin2" =>
       /\ VIN = << <<Identifier, 1>> >>
       /\ Coming(Identifier, <<VinFrame(Identifier, 2), VinFrame(Identifier, 3)>>)
  /\ pc = "vin3" =>
       /\ VIN = << <<Identifier, 1>>, <<Identifier, 2>> >>
       /\ Coming(Identifier, <<VinFrame(Identifier, 3)>>)
  /\ pc \notin (Booting \ {"imei"}) \union {"halted"} => VIN = Whole

\* The formats PID_supported has to hold for p in the end.
Base(p) == ((p - 1) \div Block) * Block
Exact(p) == {f \in Formats : canStarted /\ p \in car[f] /\ Reaches(f, Base(p))}

\* An answer to the requests of this block; it is on its way; it has been stored.
Genuine(frame) ==
  canStarted /\ Reaches(frame.ide, checkPID) /\ frame = Bitmap(frame.ide, checkPID)
Pending(f) == bus[f] # <<>> \/ \E i \in 1..Len(obd_msgq) : obd_msgq[i].ide = f
Stored(f) == \A o \in 1..Block : checkPID + o \in car[f] => f \in PID_supported[checkPID + o]

InFlight == Len(obd_msgq) + Len(bus["STANDARD"]) + Len(bus["EXTENDED"])

\* Nothing wrong is marked; everything is marked up to b; every frame answers a
\* request of this block; what was requested is marked or on its way.
Sound == PID_supported[0] = BOTH /\ \A p \in 1..Wrap : PID_supported[p] \subseteq Exact(p)
Complete(b) == \A p \in 1..b : Exact(p) \subseteq PID_supported[p]
OnlyAnswers ==
  /\ \A i \in 1..Len(obd_msgq) : Genuine(obd_msgq[i])
  /\ \A f \in Formats : \A i \in 1..Len(bus[f]) : Genuine(bus[f][i]) /\ bus[f][i].ide = f
NoneMissing(f) == canStarted /\ Reaches(f, checkPID) => Pending(f) \/ Stored(f)

DiscoveryInv ==
  /\ pc \in Booting \union Connecting =>
       checkPID = 0 /\ \A p \in 0..Wrap : PID_supported[p] = {}
  /\ pc \in Discovering \union {"run"} => Sound /\ Complete(checkPID)
  /\ pc \in Discovering => OnlyAnswers
  /\ pc = "STANDARD" => InFlight = 0
  /\ pc = "EXTENDED" => InFlight <= 1 /\ NoneMissing("STANDARD")
  /\ pc = "drain" => InFlight <= 2 /\ NoneMissing("STANDARD") /\ NoneMissing("EXTENDED")
  /\ pc = "run" => checkPID # 0 /\ PID_supported[checkPID] = {}

BootInv == TypeInv /\ (faults = {} => VINInv /\ DiscoveryInv)

-----------------------------------------------------------------------------
(* Blocks: multiples of Block. *)

\* Division with remainder.
LEMMA Divides == ASSUME NEW a \in Nat, NEW b \in Nat \ {0}
  PROVE  a = b * (a \div b) + (a % b) /\ a \div b \in Nat
  BY SMT

\* A product is a multiple.
LEMMA Factor == ASSUME NEW a \in Nat, NEW b \in Nat \ {0}
  PROVE  (b * a) % b = 0
  BY SMT

\* Products of one factor are that factor apart.
LEMMA Order == ASSUME NEW a \in Nat, NEW c \in Nat, NEW b \in Nat \ {0}, b * a < b * c
  PROVE  b * a + b <= b * c
  BY SMT

\* What the assumption says of the two numbers.
LEMMA BlockType == Block \in Nat \ {0} /\ Wrap \in Nat /\ Block \in Nat /\ Block >= 2
  BY TrackerBootAssumption

\* A multiple of Block has a quotient.
LEMMA Quotient == ASSUME NEW b, Multiple(b)
  PROVE  \E k \in Nat : b = Block * k
  <1>1. b \in Nat /\ b % Block = 0
    BY DEF Multiple
  <1>2. b = Block * (b \div Block) + (b % Block) /\ b \div Block \in Nat
    BY <1>1, BlockType, Divides
  <1>3. Block * (b \div Block) \in Nat
    BY <1>2, BlockType
  <1>4. b = Block * (b \div Block)
    BY <1>1, <1>2, <1>3
  <1> QED
    BY <1>2, <1>4

\* The next block.
LEMMA BlockAfter == ASSUME NEW b, Multiple(b)
  PROVE  Multiple(b + Block)
  <1>1. PICK k \in Nat : b = Block * k
    BY Quotient
  <1>2. b + Block = Block * (k + 1)
    BY <1>1, BlockType
  <1>3. (Block * (k + 1)) % Block = 0
    BY Factor, BlockType
  <1> QED
    BY <1>2, <1>3, BlockType DEF Multiple

\* There is no multiple between two blocks.
LEMMA BlocksApart == ASSUME NEW b, Multiple(b), NEW m, Multiple(m), b < m
  PROVE  b + Block <= m
  <1>1. PICK k \in Nat : b = Block * k
    BY Quotient
  <1>2. PICK l \in Nat : m = Block * l
    BY Quotient
  <1> QED
    BY <1>1, <1>2, Order, BlockType

\* The block of a PID announced by b is b.
LEMMA BaseOfBlock == ASSUME NEW b, Multiple(b), NEW o \in 1..Block
  PROVE  Base(b + o) = b
  BY TrackerBootAssumption, SMT DEF Multiple, Base

\* Every PID lies in its block.
LEMMA InBlock == ASSUME NEW p \in Nat \ {0}
  PROVE  /\ Multiple(Base(p)) /\ Base(p) < p
       /\ p <= Base(p) + Block
  BY TrackerBootAssumption, SMT DEF Multiple, Base

\* checkPID moves to the next block, or back to 0 after the last.
LEMMA NextBlock == ASSUME NEW b, Multiple(b), b < Wrap
  PROVE  (b + Block) % Wrap = IF b + Block = Wrap THEN 0 ELSE b + Block
  <1>1. b + Block <= Wrap
    BY BlocksApart, TrackerBootAssumption DEF Multiple
  <1>2. (b + Block = Wrap) => (b + Block) % Wrap = 0
    BY TrackerBootAssumption, SMT
  <1>3. b + Block < Wrap => (b + Block) % Wrap = b + Block
    BY TrackerBootAssumption, SMT DEF Multiple, Base
  <1> QED BY <1>1, <1>2, <1>3, TrackerBootAssumption DEF Multiple

-----------------------------------------------------------------------------
(* Types. *)

\* What becomes of a queue that is read from or added to.
LEMMA Queue == ASSUME NEW S, NEW q \in Seq(S)
  PROVE  /\ Len(q) \in Nat
         /\ q # <<>> => Head(q) \in S /\ Tail(q) \in Seq(S) /\ Len(Tail(q)) = Len(q) - 1
         /\ \A x \in S : Append(q, x) \in Seq(S) /\ Len(Append(q, x)) = Len(q) + 1
  OBVIOUS

\* The frames of the model are frames, and every frame holds a piece.
LEMMA Frames ==
  /\ \A f \in Formats, part \in 0..3 : VinFrame(f, part) \in Frame
  /\ \A f \in Formats, b \in Nat : Bitmap(f, b) \in Frame
  /\ \A frame \in Frame : Piece(frame) \in Pieces /\ frame.ide \in Formats
  <1>1. \A f \in Formats, part \in 0..3 : VinFrame(f, part) \in Frame
    BY DEF VinFrame, Frame
  <1>2. \A f \in Formats, b \in Nat : Bitmap(f, b) \in Frame
    BY DEF Bitmap, Frame
  <1>3. \A frame \in Frame : Piece(frame) \in Pieces /\ frame.ide \in Formats
    BY DEF Frame, Piece, Pieces, Formats
  <1> QED
    BY <1>1, <1>2, <1>3

\* One more frame of a format on the bus.
LEMMA Sent ==
  ASSUME FrameType, NEW f \in Formats, NEW s \in Seq(Frame), bus' = [bus EXCEPT ![f] = s]
  PROVE  bus' \in [Formats -> Seq(Frame)]
  BY DEF FrameType

LEMMA FrameTypeStep == ASSUME TypeInv, [Next]_vars PROVE FrameType'
  <1>a. /\ obd_msgq \in Seq(Frame) /\ Len(obd_msgq) <= MsgqSize
        /\ bus \in [Formats -> Seq(Frame)] /\ response_frame \in Frame
        /\ Multiple(checkPID)
    BY DEF TypeInv, FrameType, PIDType
  <1>b. obd_msgq # <<>> =>
          /\ Head(obd_msgq) \in Frame /\ Tail(obd_msgq) \in Seq(Frame)
          /\ Len(Tail(obd_msgq)) <= MsgqSize
    BY <1>a, Queue DEF MsgqSize
  <1>1. ASSUME NEW f \in Formats, NEW here, NEW wait, NEW otherwise,
               RequestVIN(f, here, wait, otherwise)
        PROVE  FrameType'
    <2>1. bus[f] \in Seq(Frame) /\ Append(bus[f], VinFrame(f, 1)) \in Seq(Frame)
      BY <1>a, Frames, Queue
    <2>2. bus' \in [Formats -> Seq(Frame)]
      BY <1>1, <1>a, <2>1 DEF RequestVIN
    <2> QED
      BY <1>1, <1>a, <2>2 DEF RequestVIN, FrameType
  <1>2. ASSUME NEW f \in Formats, NEW wait, FirstVINFrame(f, wait)
        PROVE  FrameType'
    <2>1. VinFrame(f, 2) \in Frame /\ VinFrame(f, 3) \in Frame
      BY Frames
    <2>2. bus[f] \o <<VinFrame(f, 2), VinFrame(f, 3)>> \in Seq(Frame)
      <3>1. <<VinFrame(f, 2), VinFrame(f, 3)>> \in Seq(Frame)
        BY <2>1
      <3>2. bus[f] \in Seq(Frame)
        BY <1>a
      <3> QED
        BY <3>1, <3>2, ConcatProperties
    <2>3. bus' \in [Formats -> Seq(Frame)]
      BY <1>2, <1>a, <2>2 DEF FirstVINFrame
    <2> QED
      BY <1>2, <1>b, <2>3 DEF FirstVINFrame, FrameType
  <1>3. CASE NextVINFrame
    BY <1>3, <1>a, <1>b DEF NextVINFrame, FrameType
  <1>4. ASSUME NEW f \in Formats, NEW next, Request(f, next) PROVE FrameType'
    <2>1. bus[f] \in Seq(Frame) /\ Bitmap(f, checkPID) \in Frame
      BY <1>a, Frames DEF Multiple
    <2>2. Append(bus[f], Bitmap(f, checkPID)) \in Seq(Frame)
      BY <2>1, Queue
    <2>3. bus' \in [Formats -> Seq(Frame)]
      BY <1>4, <1>a, <2>1, <2>2 DEF Request
    <2> QED
      BY <1>4, <1>a, <2>3 DEF Request, FrameType, idVars
  <1>5. CASE Drain
    BY <1>5, <1>a, <1>b DEF Drain, FrameType
  <1>6. ASSUME NEW f \in Formats, Deliver(f) PROVE FrameType'
    <2>1. bus[f] \in Seq(Frame) /\ bus[f] # <<>>
      BY <1>6, <1>a DEF Deliver
    <2>2. Head(bus[f]) \in Frame /\ Tail(bus[f]) \in Seq(Frame)
      BY <2>1, Queue
    <2>3. bus' \in [Formats -> Seq(Frame)]
      BY <1>6, <1>a, <2>2 DEF Deliver
    <2>4. Append(obd_msgq, Head(bus[f])) \in Seq(Frame)
          /\ Len(Append(obd_msgq, Head(bus[f]))) = Len(obd_msgq) + 1 /\ Len(obd_msgq) \in Nat
      BY <1>a, <2>2, Queue
    <2> QED
      BY <1>6, <1>a, <2>3, <2>4 DEF Deliver, FrameType, MsgqSize, idVars
  <1>7. CASE UNCHANGED <<response_frame, canVars>>
    BY <1>7, <1>a DEF FrameType, canVars
  <1>8. CASE RequestVINStandard \/ RequestVINExtended
    BY <1>8, <1>1 DEF RequestVINStandard, RequestVINExtended, Formats
  <1>9. CASE FirstVINFrame("STANDARD", "waitStandard") \/ FirstVINFrame("EXTENDED", "waitExtended")
    BY <1>9, <1>2 DEF Formats
  <1>10. CASE RequestStandard \/ RequestExtended
    BY <1>10, <1>4 DEF RequestStandard, RequestExtended, Formats
  <1> QED
    BY <1>3, <1>5, <1>6, <1>7, <1>8, <1>9, <1>10
    DEF Next, Main, GetID, Discover, vars, idVars, ModemConfigure, LteRegistered, TakeLte,
        SetupGPIO, VINTimeout, ReadIMEI, ServerResolve, ServerConnect, Step, GnssInitAndStart,
        DrainTimeout

LEMMA VINTypeStep == ASSUME TypeInv, [Next]_vars PROVE VINType'
  <1>a. /\ VIN \in Seq(Pieces) /\ Len(VIN) <= 3
        /\ pc \in BeforeVIN => VIN = <<>>
        /\ pc = "vin2" => Len(VIN) = 1
        /\ pc = "vin3" => Len(VIN) = 2
        /\ obd_msgq \in Seq(Frame) /\ response_frame \in Frame
    BY DEF TypeInv, FrameType, VINType
  <1>b. NoVIN \in Seq(Pieces) /\ Len(NoVIN) = 1
    <2>1. <<"underscore", 0>> \in Pieces
      BY DEF Pieces, Formats
    <2>2. << <<"underscore", 0>> >> \in Seq(Pieces) /\ Len(<< <<"underscore", 0>> >>) = 1
      BY <2>1
    <2> QED
      BY <2>2 DEF NoVIN
  <1>1. CASE RequestVINStandard
    BY <1>1, <1>a DEF RequestVINStandard, RequestVIN, VINType, BeforeVIN
  <1>2. CASE RequestVINExtended
    <2>1. (UNCHANGED VIN /\ pc' = "waitExtended" /\ pc = "vinExtended")
          \/ (VIN' = NoVIN /\ pc' = "imei")
      BY <1>2 DEF RequestVINExtended, RequestVIN, VinNotFound
    <2>2. CASE VIN' = NoVIN /\ pc' = "imei"
      BY <2>2, <1>b DEF VINType, BeforeVIN
    <2> QED
      BY <2>1, <2>2, <1>a DEF VINType, BeforeVIN
  <1>3. ASSUME NEW f, NEW wait, FirstVINFrame(f, wait) PROVE VINType'
    <2>1. Head(obd_msgq) \in Frame
      BY <1>3, <1>a, Queue DEF FirstVINFrame
    <2>2. Piece(Head(obd_msgq)) \in Pieces
      BY <2>1, Frames
    <2>3. VIN' \in Seq(Pieces) /\ Len(VIN') = 1 /\ pc' = "vin2"
      BY <1>3, <2>2 DEF FirstVINFrame
    <2> QED
      BY <2>3 DEF VINType, BeforeVIN
  <1>4. CASE VINTimeout
    <2>1. (UNCHANGED VIN /\ pc' = "vinExtended" /\ pc = "waitStandard")
          \/ (VIN' = NoVIN /\ pc' = "imei")
      BY <1>4 DEF VINTimeout, VinNotFound
    <2>2. CASE VIN' = NoVIN /\ pc' = "imei"
      BY <2>2, <1>b DEF VINType, BeforeVIN
    <2> QED
      BY <2>1, <2>2, <1>a DEF VINType, BeforeVIN
  <1>5. CASE NextVINFrame
    <2>1. response_frame' \in Frame
      BY <1>5, <1>a, Queue DEF NextVINFrame
    <2>2. Piece(response_frame') \in Pieces
      BY <2>1, Frames
    <2>3. VIN' \in Seq(Pieces) /\ Len(VIN') = Len(VIN) + 1
      BY <1>5, <1>a, <2>2, Queue DEF NextVINFrame
    <2> QED
      BY <1>5, <1>a, <2>3 DEF NextVINFrame, VINType, BeforeVIN
  <1>6. CASE UNCHANGED <<pc, VIN>>
    BY <1>6, <1>a DEF VINType
  <1>7. CASE /\ UNCHANGED VIN
             /\ pc' \in BeforeVIN => pc \in BeforeVIN
             /\ pc' \notin {"vin2", "vin3"}
    BY <1>7, <1>a DEF VINType
  <1>8. CASE ModemConfigure \/ TakeLte \/ SetupGPIO
    BY <1>8, <1>7 DEF ModemConfigure, TakeLte, SetupGPIO, BeforeVIN, idVars
  <1>9. CASE ReadIMEI \/ ServerResolve \/ ServerConnect \/ GnssInitAndStart
    BY <1>9, <1>7 DEF ReadIMEI, ServerResolve, ServerConnect, Step, GnssInitAndStart, BeforeVIN, idVars
  <1>10. CASE Discover
    BY <1>10, <1>7, <1>6 DEF Discover, RequestStandard, RequestExtended, Request, Drain,
                       DrainTimeout, BeforeVIN, idVars
  <1> QED
    BY <1>1, <1>2, <1>3, <1>4, <1>5, <1>6, <1>7, <1>8, <1>9, <1>10
    DEF Next, Main, GetID, vars, idVars, Deliver, LteRegistered

LEMMA PIDTypeStep == ASSUME TypeInv, [Next]_vars PROVE PIDType'
  <1>a. /\ PID_supported \in [0..Wrap -> SUBSET Formats]
        /\ checkPID < Wrap /\ Multiple(checkPID)
    BY DEF TypeInv, PIDType
  <1>1. CASE GnssInitAndStart
    <2>1. PID_supported' \in [0..Wrap -> SUBSET Formats]
      BY <1>1, <1>a DEF GnssInitAndStart, BOTH
    <2> QED
      BY <1>1, <1>a, <2>1 DEF GnssInitAndStart, PIDType, Multiple
  <1>2. CASE Drain
    <2>1. Head(obd_msgq) \in Frame
      BY <1>2, Queue DEF Drain, TypeInv, FrameType
    <2>2. {Head(obd_msgq).ide} \subseteq Formats
      BY <2>1, Frames
    <2>3. PID_supported' \in [0..Wrap -> SUBSET Formats]
      BY <1>2, <1>a, <2>2 DEF Drain
    <2> QED
      BY <1>2, <1>a, <2>3 DEF Drain, PIDType, Multiple
  <1>3. CASE DrainTimeout
    <2>1. Multiple(Wrap) /\ Multiple(checkPID + Block)
      BY <1>a, BlockAfter, TrackerBootAssumption DEF Multiple
    <2>2. checkPID + Block <= Wrap
      BY <1>a, <2>1, BlocksApart
    <2>3. checkPID' = IF checkPID + Block = Wrap THEN 0 ELSE checkPID + Block
      BY <1>3, <1>a, NextBlock DEF DrainTimeout
    <2>4. checkPID' < Wrap /\ Multiple(checkPID')
      BY <2>1, <2>2, <2>3, TrackerBootAssumption DEF Multiple
    <2> QED
      BY <1>3, <1>a, <2>4 DEF DrainTimeout, PIDType
  <1>4. CASE UNCHANGED pidVars
    BY <1>4, <1>a DEF PIDType, pidVars, Multiple
  <1> QED
    BY <1>1, <1>2, <1>3, <1>4
    DEF Next, Main, GetID, Discover, vars, ModemConfigure, LteRegistered, TakeLte, SetupGPIO,
        RequestVINStandard, RequestVINExtended, RequestVIN, FirstVINFrame, VINTimeout,
        NextVINFrame, ReadIMEI, ServerResolve, ServerConnect, Step, RequestStandard,
        RequestExtended, Request, Deliver

LEMMA OtherTypeStep == ASSUME TypeInv, [Next]_vars PROVE pc' \in PCs /\ CarType' /\ FlagType'
  <1>1. UNCHANGED carVars
    BY DEF Next, Main, GetID, Discover, vars, ModemConfigure, LteRegistered, TakeLte, SetupGPIO,
        RequestVINStandard, RequestVINExtended, RequestVIN, FirstVINFrame, VINTimeout,
        NextVINFrame, ReadIMEI, ServerResolve, ServerConnect, Step, GnssInitAndStart,
        RequestStandard, RequestExtended, Request, Drain, DrainTimeout, Deliver
  <1>2. CarType'
    BY <1>1 DEF TypeInv, CarType, carVars
  <1>3. pc' \in PCs
    <2>1. pc \in PCs
      BY DEF TypeInv
    <2>2. CASE ModemConfigure \/ LteRegistered \/ TakeLte \/ SetupGPIO \/ ReadIMEI
      BY <2>1, <2>2 DEF ModemConfigure, LteRegistered, TakeLte, SetupGPIO, ReadIMEI, PCs,
                        Booting, Connecting
    <2>3. CASE RequestVINStandard \/ RequestVINExtended
      BY <2>3 DEF RequestVINStandard, RequestVINExtended, RequestVIN, VinNotFound, PCs, Booting
    <2>4. CASE \/ FirstVINFrame("STANDARD", "waitStandard")
               \/ FirstVINFrame("EXTENDED", "waitExtended")
               \/ VINTimeout \/ NextVINFrame
      BY <2>4 DEF FirstVINFrame, VINTimeout, VinNotFound, NextVINFrame, PCs, Booting
    <2>5. CASE ServerResolve \/ ServerConnect \/ GnssInitAndStart
      BY <2>5 DEF ServerResolve, ServerConnect, Step, GnssInitAndStart, PCs, Connecting,
                  Discovering
    <2>6. CASE Discover
      BY <2>1, <2>6 DEF Discover, RequestStandard, RequestExtended, Request, Drain, DrainTimeout,
                        PCs, Discovering
    <2> QED
      BY <2>1, <2>2, <2>3, <2>4, <2>5, <2>6 DEF Next, Main, GetID, vars, Deliver
  <1>4. FlagType'
    <2>1. /\ lte_connected' \in {lte_connected, 0, 1}
          /\ attaching' \in {attaching} \union BOOLEAN
          /\ canStarted' \in {canStarted} \union BOOLEAN
          /\ IMEI' \in {IMEI, "underscore", "imei"}
      BY DEF Next, Main, GetID, Discover, vars, lteVars, idVars,
        ModemConfigure, LteRegistered, TakeLte, SetupGPIO,
        RequestVINStandard, RequestVINExtended, RequestVIN, FirstVINFrame, VINTimeout,
        NextVINFrame, ReadIMEI, ServerResolve, ServerConnect, Step, GnssInitAndStart,
        RequestStandard, RequestExtended, Request, Drain, DrainTimeout, Deliver
    <2> QED
      BY <2>1 DEF TypeInv, FlagType
  <1> QED
    BY <1>2, <1>3, <1>4

LEMMA TypeStep == TypeInv /\ [Next]_vars => TypeInv'
  BY FrameTypeStep, VINTypeStep, PIDTypeStep, OtherTypeStep DEF TypeInv

LEMMA TypeInit == Init => TypeInv
  <1> SUFFICES ASSUME Init PROVE TypeInv
    OBVIOUS
  <1>1. pc \in PCs
    BY DEF Init, PCs, Booting
  <1>6. FlagType
    <2>1. lte_connected = 0 /\ ~attaching /\ ~canStarted /\ IMEI = "unread"
          /\ attaching \in BOOLEAN /\ canStarted \in BOOLEAN
      BY DEF Init
    <2> QED
      BY <2>1 DEF FlagType
  <1>2. CarType
    <2>1. PICK b \in Buses : car = b.car /\ faults = b.faults
      BY DEF Init
    <2>2. b = [car |-> car, faults |-> faults]
      BY <2>1, TrackerBootAssumption
    <2> QED
      BY <2>1, <2>2 DEF Init, CarType
  <1>3. FrameType
    BY DEF Init, FrameType, MsgqSize, NoFrame, Frame, Formats
  <1>4. VINType
    BY DEF Init, VINType
  <1>5. PIDType
    BY BlockType, TrackerBootAssumption DEF Init, PIDType, Multiple
  <1> QED
    BY <1>1, <1>2, <1>3, <1>4, <1>5, <1>6 DEF TypeInv

\* Every variable stays in its range, the uint8_t checkPID on a block and the queue
\* within its capacity, whatever the bus does (main.c 308-345).
THEOREM BootTypeCorrect == Spec => []TypeOK
  <1>1. TypeInv => TypeOK
    <2> SUFFICES ASSUME TypeInv PROVE TypeOK
      OBVIOUS
    <2>1. pc \in Booting \union {"resolve", "connect", "gnss", "STANDARD", "EXTENDED",
                                "drain", "run", "halted"}
      BY DEF TypeInv, PCs, Connecting, Discovering
    <2>2. checkPID \in {b \in 0..(Wrap - 1) : b % Block = 0}
      BY BlockType DEF TypeInv, PIDType, Multiple
    <2>3. VIN \in Seq((Formats \union {"underscore"}) \X (0..3)) /\ Len(VIN) <= 3
      BY DEF TypeInv, VINType, Pieces
    <2>4. PID_supported \in [0..Wrap -> SUBSET Formats]
      BY DEF TypeInv, PIDType
    <2> QED
      BY <2>1, <2>2, <2>3, <2>4 DEF TypeInv, TypeOK, CarType, FlagType, FrameType
  <1> QED
    BY <1>1, TypeInit, TypeStep, PTL DEF Spec

-----------------------------------------------------------------------------
(* The VIN. *)

\* A frame that moves from the bus to the queue stays in the order main reads.
LEMMA Moves ==
  ASSUME NEW S, NEW q \in Seq(S), NEW b \in Seq(S), b # <<>>
  PROVE  Append(q, Head(b)) \o Tail(b) = q \o b
  OBVIOUS

\* Reading takes the first of what is coming.
LEMMA Reads ==
  ASSUME NEW S, NEW q \in Seq(S), NEW b \in Seq(S), q # <<>>
  PROVE  Head(q) = (q \o b)[1] /\ Tail(q) \o b = Tail(q \o b)
  OBVIOUS

\* A piece is added to the VIN.
LEMMA Pieced == ASSUME NEW S, NEW a \in S, NEW b \in S, NEW c \in S
  PROVE  Append(<<a>>, b) = <<a, b>> /\ Append(<<a, b>>, c) = <<a, b, c>>
  <1>1. /\ <<a>> \in Seq(S) /\ <<a, b>> \in Seq(S) /\ <<a, b, c>> \in Seq(S)
        /\ Len(<<a>>) = 1 /\ Len(<<a, b>>) = 2 /\ Len(<<a, b, c>>) = 3
    OBVIOUS
  <1>2. /\ Append(<<a>>, b) \in Seq(S) /\ Len(Append(<<a>>, b)) = 2
        /\ Append(<<a, b>>, c) \in Seq(S) /\ Len(Append(<<a, b>>, c)) = 3
    BY <1>1
  <1>3. /\ \A i \in 1..2 : Append(<<a>>, b)[i] = <<a, b>>[i]
        /\ \A i \in 1..3 : Append(<<a, b>>, c)[i] = <<a, b, c>>[i]
    BY <1>1, AppendProperties
  <1> QED
    BY <1>1, <1>2, <1>3, SeqEqual

\* Where nothing is coming, both parts are empty.
LEMMA BothEmpty ==
  ASSUME NEW S, NEW q \in Seq(S), NEW b \in Seq(S), q \o b = <<>>
  PROVE  q = <<>> /\ b = <<>>
  <1>1. Len(q \o b) = 0
    OBVIOUS
  <1> QED
    BY <1>1

\* Neither empty sequence adds anything.
LEMMA NothingComing ==
  ASSUME NEW S, NEW q \in Seq(S), NEW b \in Seq(S)
  PROVE  /\ q = <<>> => q \o b = b
         /\ b = <<>> => q \o b = q
         /\ Len(q \o b) = Len(q) + Len(b)
  OBVIOUS

\* A delivery changes nothing about what is coming: at most two frames fit the queue.
LEMMA ComingStays ==
  ASSUME TypeInv, NEW f \in Formats, NEW g \in Formats, NEW frames \in Seq(Frame),
         Len(frames) <= 2, Coming(g, frames), Deliver(f)
  PROVE  obd_msgq' \o bus'[g] = frames /\ \A h \in Formats \ {g} : bus'[h] = <<>>
  <1>a. /\ obd_msgq \in Seq(Frame) /\ bus[f] \in Seq(Frame) /\ bus[f] # <<>>
        /\ bus \in [Formats -> Seq(Frame)]
    BY DEF TypeInv, FrameType, Deliver
  <1>1. f = g
    BY <1>a DEF Coming
  <1>2. Len(obd_msgq) + Len(bus[f]) <= 2 /\ Len(obd_msgq) \in Nat /\ Len(bus[f]) \in Nat
    BY <1>a, <1>1, NothingComing DEF Coming
  <1>3. obd_msgq' = Append(obd_msgq, Head(bus[f])) /\ bus' = [bus EXCEPT ![f] = Tail(bus[f])]
    BY <1>2 DEF Deliver, MsgqSize
  <1>4. obd_msgq' \o bus'[f] = frames
    BY <1>a, <1>1, <1>3, Moves DEF Coming
  <1> QED
    BY <1>a, <1>1, <1>3, <1>4 DEF Coming

\* Without faults a wait only times out when nothing is coming.
LEMMA TimeoutIsQuiet ==
  ASSUME faults = {}, CanTimeOut
  PROVE  Quiet
  BY DEF CanTimeOut, Quiet

\* What a read leaves of what is coming.
LEMMA ReadOne ==
  ASSUME TypeInv, NEW f \in Formats, NEW frames \in Seq(Frame), frames # <<>>,
         Coming(f, frames), obd_msgq # <<>>
  PROVE  Head(obd_msgq) = Head(frames) /\ Tail(obd_msgq) \o bus[f] = Tail(frames)
  <1>1. obd_msgq \in Seq(Frame) /\ bus[f] \in Seq(Frame)
    BY DEF TypeInv, FrameType
  <1>2. obd_msgq \o bus[f] = frames /\ Head(frames) = frames[1]
    BY DEF Coming
  <1> QED
    BY <1>1, <1>2, Reads

LEMMA VINUntouched ==
  ASSUME VINInv, UNCHANGED <<pc, vinOn, canStarted, VIN, canVars>>
  PROVE  VINInv'
  BY DEF VINInv, Quiet, Coming, FirstOf, Identifier, Whole, canVars, VinFrame

\* The request on one format, and the wait for its answer.
LEMMA VINRequested ==
  ASSUME TypeInv, Quiet, NEW f \in Formats, NEW here, NEW wait, NEW otherwise,
         RequestVIN(f, here, wait, otherwise), pc' = wait, Accepted, UNCHANGED VIN,
         bus' = [bus EXCEPT ![f] = IF f \in vinOn THEN Append(@, VinFrame(f, 1)) ELSE @]
  PROVE  Coming(f, FirstOf(f))'
  <1>1. bus \in [Formats -> Seq(Frame)] /\ bus[f] = <<>> /\ obd_msgq' = <<>>
        /\ \A g \in Formats : bus[g] = <<>>
    BY DEF TypeInv, FrameType, Quiet, RequestVIN
  <1>2. VinFrame(f, 1) \in Frame
    BY Frames
  <1>3. bus'[f] = FirstOf(f) /\ bus'[f] \in Seq(Frame) /\ FirstOf(f)' = FirstOf(f)
    BY <1>1, <1>2 DEF FirstOf, RequestVIN, carVars, VinFrame
  <1>4. obd_msgq' \o bus'[f] = FirstOf(f)
    BY <1>1, <1>3
  <1> QED
    BY <1>1, <1>3, <1>4 DEF Coming

LEMMA VINStep == ASSUME TypeInv, faults = {}, VINInv, [Next]_vars PROVE VINInv'
  <1>a. /\ obd_msgq \in Seq(Frame) /\ bus \in [Formats -> Seq(Frame)]
        /\ vinOn \subseteq Formats /\ pc \in PCs
    BY DEF TypeInv, FrameType, CarType
  <1>b. Identifier \in Formats
    BY DEF Identifier, Formats
  <1>c. \A f \in Formats : FirstOf(f) \in Seq(Frame) /\ Len(FirstOf(f)) <= 1
    <2> SUFFICES ASSUME NEW f \in Formats PROVE FirstOf(f) \in Seq(Frame) /\ Len(FirstOf(f)) <= 1
      OBVIOUS
    <2>1. VinFrame(f, 1) \in Frame
      BY Frames
    <2>2. <<VinFrame(f, 1)>> \in Seq(Frame) /\ Len(<<VinFrame(f, 1)>>) = 1
      BY <2>1
    <2> QED
      BY <2>2 DEF FirstOf
  <1>1. CASE ModemConfigure \/ TakeLte \/ SetupGPIO
    <2>1. Quiet
      BY <1>1 DEF VINInv, ModemConfigure, TakeLte, SetupGPIO, Booting
    <2>2. Quiet' /\ pc' \in {"modem", "waitLte", "gpio", "vinStandard"}
      BY <1>1, <2>1 DEF ModemConfigure, TakeLte, SetupGPIO, Quiet, canVars
    <2> QED
      BY <2>2 DEF VINInv, Booting
  <1>2. CASE RequestVINStandard
    <2>1. Quiet /\ pc = "vinStandard"
      BY <1>2 DEF VINInv, RequestVINStandard, RequestVIN, Booting
    <2>2. CASE pc' = "waitStandard"
      <3>1. Coming("STANDARD", FirstOf("STANDARD"))' /\ canStarted'
        BY <1>2, <2>1, <2>2, VINRequested
        DEF RequestVINStandard, RequestVIN, Accepted, Formats
      <3> QED
        BY <2>2, <3>1 DEF VINInv, Booting, Connecting
    <2>3. CASE pc' # "waitStandard"
      <3>1. Quiet' /\ pc' = "vinExtended" /\ ~canStarted'
        BY <1>2, <2>1, <2>3 DEF RequestVINStandard, RequestVIN, Refused, Quiet
      <3> QED
        BY <3>1 DEF VINInv, Booting
    <2> QED
      BY <2>2, <2>3
  <1>3. CASE RequestVINExtended
    <2>1. Quiet /\ pc = "vinExtended" /\ (canStarted => "STANDARD" \notin vinOn)
      BY <1>3 DEF VINInv, RequestVINExtended, RequestVIN, Booting
    <2>2. CASE pc' = "waitExtended"
      <3>1. Coming("EXTENDED", FirstOf("EXTENDED"))' /\ canStarted' /\ "STANDARD" \notin vinOn'
        BY <1>3, <2>1, <2>2, VINRequested
        DEF RequestVINExtended, RequestVIN, VinNotFound, Accepted, Formats, carVars
      <3> QED
        BY <2>2, <3>1 DEF VINInv, Booting, Connecting
    <2>3. CASE pc' # "waitExtended"
      <3>1. Quiet' /\ pc' = "imei" /\ ~canStarted' /\ VIN' = NoVIN
        BY <1>3, <2>1, <2>3 DEF RequestVINExtended, RequestVIN, VinNotFound, Refused, Quiet
      <3> QED
        BY <3>1 DEF VINInv, Booting, Whole
    <2> QED
      BY <2>2, <2>3
  <1>4. ASSUME NEW f \in Formats, NEW wait, FirstVINFrame(f, wait),
               canStarted, Coming(f, FirstOf(f)), f = Identifier
        PROVE  VINInv'
    <2>1. obd_msgq # <<>> /\ obd_msgq' = Tail(obd_msgq) /\ pc' = "vin2"
          /\ VIN' = <<Piece(Head(obd_msgq))>> /\ UNCHANGED <<canStarted, vinOn>>
      BY <1>4 DEF FirstVINFrame, carVars
    <2>2. f \in vinOn /\ FirstOf(f) = <<VinFrame(f, 1)>>
      <3>1. Len(obd_msgq) # 0 /\ Len(FirstOf(f)) = Len(obd_msgq) + Len(bus[f])
            /\ Len(obd_msgq) \in Nat /\ Len(bus[f]) \in Nat
        BY <1>4, <1>a, <2>1, NothingComing DEF Coming
      <3> QED
        BY <3>1 DEF FirstOf
    <2>3. Head(obd_msgq) = VinFrame(f, 1) /\ Tail(obd_msgq) \o bus[f] = <<>>
      BY <1>4, <1>c, <2>1, <2>2, ReadOne
    <2>4. Tail(obd_msgq) = <<>> /\ bus[f] = <<>>
      <3>1. Tail(obd_msgq) \in Seq(Frame) /\ bus[f] \in Seq(Frame)
        BY <1>a, <2>1, Queue
      <3> QED
        BY <2>3, <3>1, BothEmpty
    <2>5. bus' = [bus EXCEPT ![f] = <<VinFrame(f, 2), VinFrame(f, 3)>>]
      <3>1. Head(obd_msgq).ide = f /\ Head(obd_msgq).part = 1
        BY <2>3 DEF VinFrame
      <3>2. <<VinFrame(f, 2), VinFrame(f, 3)>> \in Seq(Frame)
        BY Frames
      <3>3. bus[f] \o <<VinFrame(f, 2), VinFrame(f, 3)>> = <<VinFrame(f, 2), VinFrame(f, 3)>>
        BY <2>4, <3>2
      <3> QED
        BY <1>4, <2>4, <3>1, <3>3 DEF FirstVINFrame, Refused
    <2>6. /\ obd_msgq' \o bus'[f] = <<VinFrame(f, 2), VinFrame(f, 3)>>
          /\ \A g \in Formats \ {f} : bus'[g] = <<>>
      <3>1. <<VinFrame(f, 2), VinFrame(f, 3)>> \in Seq(Frame)
        BY Frames
      <3>2. obd_msgq' = <<>> /\ bus'[f] = <<VinFrame(f, 2), VinFrame(f, 3)>>
            /\ \A g \in Formats \ {f} : bus'[g] = bus[g]
        BY <1>a, <2>1, <2>4, <2>5
      <3>3. obd_msgq' \o bus'[f] = <<VinFrame(f, 2), VinFrame(f, 3)>>
        BY <3>1, <3>2
      <3> QED
        BY <1>4, <3>2, <3>3 DEF Coming
    <2>7. VIN' = << <<f, 1>> >> /\ Identifier' = f
      BY <1>4, <2>1, <2>3 DEF Piece, VinFrame, Identifier
    <2> QED
      BY <1>4, <2>1, <2>2, <2>6, <2>7 DEF VINInv, Coming, Booting, Connecting, VinFrame
  <1>5. CASE FirstVINFrame("STANDARD", "waitStandard")
    <2>1. canStarted /\ Coming("STANDARD", FirstOf("STANDARD")) /\ obd_msgq # <<>>
      BY <1>5 DEF FirstVINFrame, VINInv
    <2>2. "STANDARD" \in vinOn
      <3>1. Len(obd_msgq) # 0 /\ Len(FirstOf("STANDARD")) = Len(obd_msgq) + Len(bus["STANDARD"])
            /\ Len(obd_msgq) \in Nat /\ Len(bus["STANDARD"]) \in Nat
        BY <1>a, <2>1, NothingComing DEF Coming, Formats
      <3> QED
        BY <3>1 DEF FirstOf
    <2> QED
      BY <1>4, <1>5, <2>1, <2>2 DEF Identifier, Formats
  <1>6. CASE FirstVINFrame("EXTENDED", "waitExtended")
    BY <1>4, <1>6 DEF FirstVINFrame, VINInv, Identifier, Formats
  <1>7. CASE VINTimeout
    <2>1. Quiet /\ Quiet'
      BY <1>7, TimeoutIsQuiet DEF VINTimeout, Quiet, canVars
    <2>2. CASE pc = "waitStandard"
      <3>1. FirstOf("STANDARD") = <<>>
        BY <1>7, <2>1, <2>2, <1>a DEF VINInv, Coming, Quiet, Formats
      <3>2. "STANDARD" \notin vinOn
        BY <3>1 DEF FirstOf
      <3> QED
        BY <1>7, <2>1, <2>2, <3>2 DEF VINTimeout, VINInv, carVars, Booting
    <2>3. CASE pc = "waitExtended"
      <3>1. FirstOf("EXTENDED") = <<>> /\ "STANDARD" \notin vinOn
        BY <1>7, <2>1, <2>3, <1>a DEF VINInv, Coming, Quiet, Formats
      <3>2. vinOn = {}
        BY <1>a, <3>1 DEF FirstOf, Formats
      <3>3. pc' = "imei" /\ VIN' = NoVIN /\ vinOn' = {}
        BY <1>7, <2>3, <3>2 DEF VINTimeout, VinNotFound, carVars
      <3> QED
        BY <2>1, <3>3 DEF VINInv, Booting, Whole
    <2> QED
      BY <1>7, <2>2, <2>3 DEF VINTimeout
  <1>8. ASSUME NEW frames \in Seq(Frame), frames # <<>>, Head(frames).ide = Identifier,
               NextVINFrame, Coming(Identifier, frames)
        PROVE  /\ VIN' = Append(VIN, Piece(Head(frames)))
               /\ Coming(Identifier, Tail(frames))' /\ Identifier' = Identifier
               /\ UNCHANGED <<canStarted, vinOn>>
    <2>1. obd_msgq # <<>>
      <3>1. ~Quiet
        BY <1>8, <1>a, <1>b DEF Coming, Quiet
      <3> QED
        BY <1>8, <3>1, TimeoutIsQuiet DEF NextVINFrame
    <2>2. obd_msgq' = Tail(obd_msgq) /\ response_frame' = Head(obd_msgq)
          /\ VIN' = Append(VIN, Piece(response_frame')) /\ bus' = bus
          /\ UNCHANGED <<canStarted, vinOn>>
      BY <1>8, <2>1 DEF NextVINFrame, CanTimeOut, carVars
    <2>3. Head(obd_msgq) = Head(frames) /\ Tail(obd_msgq) \o bus[Identifier] = Tail(frames)
      BY <1>8, <1>b, <2>1, ReadOne
    <2>4. Identifier' = Identifier
      BY <2>2 DEF Identifier
    <2> QED
      BY <1>8, <2>2, <2>3, <2>4 DEF Coming
  <1>9. CASE NextVINFrame /\ pc = "vin2"
    <2> DEFINE f == Identifier
               frames == <<VinFrame(f, 2), VinFrame(f, 3)>>
    <2>1. /\ frames \in Seq(Frame) /\ frames # <<>> /\ Tail(frames) = <<VinFrame(f, 3)>>
          /\ Head(frames) = VinFrame(f, 2)
      <3>1. VinFrame(f, 2) \in Frame /\ VinFrame(f, 3) \in Frame
        BY <1>b, Frames
      <3> QED
        BY <3>1
    <2>2. Head(frames).ide = f /\ Piece(Head(frames)) = <<f, 2>>
      BY <2>1 DEF Piece, VinFrame
    <2>3. VIN = << <<f, 1>> >> /\ Coming(f, frames) /\ canStarted /\ vinOn # {}
      BY <1>9 DEF VINInv
    <2>4. /\ VIN' = Append(VIN, <<f, 2>>) /\ Coming(f, <<VinFrame(f, 3)>>)'
          /\ f' = f /\ UNCHANGED <<canStarted, vinOn>>
      BY <1>8, <1>9, <2>1, <2>2, <2>3
    <2>5. VIN' = << <<f, 1>>, <<f, 2>> >> /\ pc' = "vin3"
      <3>1. <<f, 1>> \in Pieces /\ <<f, 2>> \in Pieces /\ <<f, 3>> \in Pieces
        BY <1>b DEF Pieces
      <3> QED
        BY <1>9, <2>3, <2>4, <3>1, Pieced DEF NextVINFrame
    <2>6. VinFrame(f', 3) = VinFrame(f, 3)'
      BY DEF VinFrame
    <2> QED
      BY <2>3, <2>4, <2>5, <2>6 DEF VINInv, Booting, Connecting
  <1>10. CASE NextVINFrame /\ pc = "vin3"
    <2> DEFINE f == Identifier
               frames == <<VinFrame(f, 3)>>
    <2>1. /\ frames \in Seq(Frame) /\ frames # <<>> /\ Tail(frames) = <<>>
          /\ Head(frames) = VinFrame(f, 3)
      <3>1. VinFrame(f, 3) \in Frame
        BY <1>b, Frames
      <3> QED
        BY <3>1
    <2>2. Head(frames).ide = f /\ Piece(Head(frames)) = <<f, 3>>
      BY <2>1 DEF Piece, VinFrame
    <2>3. VIN = << <<f, 1>>, <<f, 2>> >> /\ Coming(f, frames) /\ canStarted /\ vinOn # {}
      BY <1>10 DEF VINInv
    <2>4. /\ VIN' = Append(VIN, <<f, 3>>) /\ Coming(f, <<>>)'
          /\ f' = f /\ UNCHANGED <<canStarted, vinOn>>
      BY <1>8, <1>10, <2>1, <2>2, <2>3
    <2>5. VIN' = << <<f, 1>>, <<f, 2>>, <<f, 3>> >> /\ pc' = "imei"
      <3>1. <<f, 1>> \in Pieces /\ <<f, 2>> \in Pieces /\ <<f, 3>> \in Pieces
        BY <1>b DEF Pieces
      <3> QED
        BY <1>10, <2>3, <2>4, <3>1, Pieced DEF NextVINFrame
    <2>6. Quiet'
      <3>1. obd_msgq' \in Seq(Frame) /\ bus' \in [Formats -> Seq(Frame)]
        BY TypeStep DEF TypeInv, FrameType
      <3>2. obd_msgq' \o bus'[f] = <<>> /\ \A g \in Formats \ {f} : bus'[g] = <<>>
        BY <2>4 DEF Coming
      <3>3. obd_msgq' = <<>> /\ bus'[f] = <<>>
        BY <3>1, <3>2, <1>b, BothEmpty
      <3> QED
        BY <3>2, <3>3 DEF Quiet
    <2>7. VIN' = Whole'
      BY <2>3, <2>4, <2>5 DEF Whole
    <2> QED
      BY <2>5, <2>6, <2>7 DEF VINInv, Booting, Connecting
  <1>11. CASE ReadIMEI \/ ServerResolve \/ ServerConnect
    <2>1. Quiet' /\ pc' \in {"resolve", "connect", "gnss", "halted"} /\ UNCHANGED VIN
          /\ Whole' = Whole /\ VIN = Whole
      BY <1>11 DEF ReadIMEI, ServerResolve, ServerConnect, Step, VINInv, Booting, Connecting,
                   Quiet, Whole, Identifier, carVars, idVars, canVars
    <2> QED
      BY <2>1 DEF VINInv, Booting, Connecting
  <1>12. CASE GnssInitAndStart \/ Discover
    <2>1. UNCHANGED VIN /\ Whole' = Whole /\ VIN = Whole
      BY <1>12 DEF GnssInitAndStart, Discover, RequestStandard, RequestExtended, Request, Drain,
                   DrainTimeout, VINInv, Booting, Whole, Identifier, carVars, idVars
    <2>2. pc' \in Discovering \union {"run", "halted"}
      BY <1>12 DEF GnssInitAndStart, Discover, RequestStandard, RequestExtended, Request, Drain,
                   DrainTimeout, Discovering
    <2> QED
      BY <2>1, <2>2 DEF VINInv, Booting, Connecting, Discovering
  <1>13. ASSUME NEW f \in Formats, Deliver(f) PROVE VINInv'
    <2>1. ~Quiet /\ UNCHANGED <<pc, vinOn, canStarted, VIN>>
      BY <1>13 DEF Deliver, Quiet, carVars, idVars
    <2>2. Whole' = Whole /\ Identifier' = Identifier
          /\ \A g \in Formats : FirstOf(g)' = FirstOf(g)
      BY <2>1 DEF Whole, Identifier, FirstOf, VinFrame
    <2>3. CASE pc = "waitStandard"
      <3>1. Coming("STANDARD", FirstOf("STANDARD"))'
        BY <1>13, <1>c, <2>2, <2>3, ComingStays DEF VINInv, Formats, Coming
      <3> QED
        BY <2>1, <2>3, <3>1 DEF VINInv, Booting, Connecting
    <2>4. CASE pc = "waitExtended"
      <3>1. Coming("EXTENDED", FirstOf("EXTENDED"))'
        BY <1>13, <1>c, <2>2, <2>4, ComingStays DEF VINInv, Formats, Coming
      <3> QED
        BY <2>1, <2>4, <3>1 DEF VINInv, Booting, Connecting
    <2>5. CASE pc = "vin2"
      <3>1. VinFrame(Identifier, 2) \in Frame /\ VinFrame(Identifier, 3) \in Frame
        BY <1>b, Frames
      <3>2. <<VinFrame(Identifier, 2), VinFrame(Identifier, 3)>> \in Seq(Frame)
            /\ Len(<<VinFrame(Identifier, 2), VinFrame(Identifier, 3)>>) = 2
        BY <3>1
      <3>3. Coming(Identifier, <<VinFrame(Identifier, 2), VinFrame(Identifier, 3)>>)'
        <4>1. /\ obd_msgq' \o bus'[Identifier] = <<VinFrame(Identifier, 2), VinFrame(Identifier, 3)>>
              /\ \A h \in Formats \ {Identifier} : bus'[h] = <<>>
          <5>1. PICK frames \in Seq(Frame) : frames = <<VinFrame(Identifier, 2), VinFrame(Identifier, 3)>>
            BY <3>2
          <5>2. PICK g \in Formats : g = Identifier
            BY <1>b
          <5>3. Coming(g, frames) /\ Len(frames) <= 2
            BY <2>5, <3>2, <5>1, <5>2 DEF VINInv
          <5>4. obd_msgq' \o bus'[g] = frames /\ \A h \in Formats \ {g} : bus'[h] = <<>>
            BY <1>13, <5>3, ComingStays
          <5> QED
            BY <5>1, <5>2, <5>4
        <4> QED
          BY <2>2, <4>1 DEF Coming, VinFrame
      <3> QED
        BY <2>1, <2>2, <2>5, <3>3 DEF VINInv, Booting, Connecting
    <2>6. CASE pc = "vin3"
      <3>1. <<VinFrame(Identifier, 3)>> \in Seq(Frame) /\ Len(<<VinFrame(Identifier, 3)>>) = 1
        BY <1>b, Frames
      <3>2. Coming(Identifier, <<VinFrame(Identifier, 3)>>)'
        <4>1. /\ obd_msgq' \o bus'[Identifier] = <<VinFrame(Identifier, 3)>>
              /\ \A h \in Formats \ {Identifier} : bus'[h] = <<>>
          <5>1. PICK frames \in Seq(Frame) : frames = <<VinFrame(Identifier, 3)>>
            BY <3>1
          <5>2. PICK g \in Formats : g = Identifier
            BY <1>b
          <5>3. Coming(g, frames) /\ Len(frames) <= 2
            BY <2>6, <3>1, <5>1, <5>2 DEF VINInv
          <5>4. obd_msgq' \o bus'[g] = frames /\ \A h \in Formats \ {g} : bus'[h] = <<>>
            BY <1>13, <5>3, ComingStays
          <5> QED
            BY <5>1, <5>2, <5>4
        <4> QED
          BY <2>2, <4>1 DEF Coming, VinFrame
      <3> QED
        BY <2>1, <2>2, <2>6, <3>2 DEF VINInv, Booting, Connecting
    <2>7. CASE pc \notin {"waitStandard", "waitExtended", "vin2", "vin3"}
      <3>1. pc \notin Booting \union Connecting
        BY <2>1, <2>7 DEF VINInv, Booting
      <3> QED
        BY <2>1, <2>2, <3>1 DEF VINInv, Booting
    <2> QED
      BY <2>3, <2>4, <2>5, <2>6, <2>7
  <1>14. CASE LteRegistered \/ UNCHANGED vars
    BY <1>14, VINUntouched DEF LteRegistered, vars, carVars, idVars
  <1> QED
    BY <1>1, <1>2, <1>3, <1>5, <1>6, <1>7, <1>9, <1>10, <1>11, <1>12, <1>13, <1>14
    DEF Next, Main, GetID, NextVINFrame

-----------------------------------------------------------------------------
(* Discovery. *)

\* A format reaches the next block by supporting the PID that announces it.
LEMMA ReachesNext ==
  ASSUME NEW f \in Formats, NEW b, Multiple(b)
  PROVE  Reaches(f, b + Block) <=> Reaches(f, b) /\ b + Block \in car[f]
  <1>a. b \in Nat /\ Block \in Nat \ {0} /\ (b + Block) % Block = 0
    BY BlockType, BlockAfter DEF Multiple
  <1>1. ASSUME NEW m \in 1..(b + Block), m % Block = 0 PROVE m \in 1..b \/ m = b + Block
    <2>1. b < m => b + Block <= m
      BY <1>a, <1>1, BlocksApart DEF Multiple
    <2> QED
      BY <1>a, <2>1
  <1>2. b + Block \in 1..(b + Block) /\ 1..b \subseteq 1..(b + Block)
    BY <1>a
  <1> QED
    BY <1>a, <1>1, <1>2 DEF Reaches

\* A block is announced by a PID of the block before it.
LEMMA BlockBefore ==
  ASSUME NEW b, Multiple(b), b # 0
  PROVE  Multiple(Base(b)) /\ b = Base(b) + Block
  <1>1. b \in Nat \ {0} /\ Block \in Nat \ {0}
    BY BlockType DEF Multiple
  <1>2. Multiple(Base(b)) /\ Base(b) < b /\ b <= Base(b) + Block
    BY <1>1, InBlock
  <1>3. Base(b) + Block <= b
    BY <1>2, BlocksApart
  <1> QED
    BY <1>1, <1>2, <1>3 DEF Multiple

LEMMA CarRange ==
  ASSUME TypeInv
  PROVE  \A f \in Formats : car[f] \subseteq 1..Wrap
  <1>1. [car |-> car, faults |-> faults] \in
          [car : [Formats -> SUBSET (1..Wrap)], faults : SUBSET {"late", "refused"}]
    BY TrackerBootAssumption DEF TypeInv, CarType
  <1>2. car \in [Formats -> SUBSET (1..Wrap)]
    BY <1>1
  <1> QED
    BY <1>2

\* A format is asked about a block, and answers, exactly if it reaches the block.
LEMMA AsksWhatIsReached ==
  ASSUME TypeInv, Sound, Complete(checkPID), canStarted, NEW f \in Formats
  PROVE  f \in PID_supported[checkPID] /\ Answers(f, checkPID) <=> Reaches(f, checkPID)
  <1>a. Multiple(checkPID) /\ checkPID \in Nat /\ checkPID < Wrap
    BY DEF TypeInv, PIDType, Multiple
  <1>1. CASE checkPID = 0
    BY <1>1 DEF Sound, BOTH, Answers, Reaches
  <1>2. CASE checkPID # 0
    <2>1. Multiple(Base(checkPID)) /\ checkPID = Base(checkPID) + Block
      BY <1>a, <1>2, BlockBefore
    <2>2. checkPID \in 1..Wrap /\ checkPID \in 1..checkPID
      BY <1>a, <1>2, BlockType
    <2>3. PID_supported[checkPID] = Exact(checkPID)
      BY <2>2 DEF Sound, Complete
    <2>4. f \in Exact(checkPID) <=> checkPID \in car[f] /\ Reaches(f, Base(checkPID))
      BY DEF Exact
    <2>5. Reaches(f, checkPID) <=> Reaches(f, Base(checkPID)) /\ checkPID \in car[f]
      BY <2>1, ReachesNext
    <2> QED
      BY <1>2, <2>3, <2>4, <2>5 DEF Answers
  <1> QED
    BY <1>1, <1>2

\* Exact and Reaches speak of the car and the controller only.
LEMMA ExactStays ==
  ASSUME UNCHANGED <<car, canStarted>>
  PROVE  /\ \A p : Exact(p)' = Exact(p)
         /\ \A f, b : Reaches(f, b)' = Reaches(f, b)
         /\ \A f, b : Bitmap(f, b)' = Bitmap(f, b)
  BY DEF Exact, Reaches, Bitmap, Base

\* The sums below.
LEMMA Sums ==
  /\ \A a, b, c \in Nat : a + b <= c /\ b >= 2 => a < c - 1
  /\ \A a, b, c \in Nat : a + b + c \in Nat /\ (a + b + c <= 2 => a <= 2)
  /\ \A a, b, c \in Nat : /\ a + (b + 1) + c = (a + b + c) + 1
                         /\ a + b + (c + 1) = (a + b + c) + 1
                         /\ (a + 1) + (b - 1) + c = a + b + c
                         /\ (a + 1) + b + (c - 1) = a + b + c
  BY SMT

\* The request of one format (RequestStandard, RequestExtended).
LEMMA Requests ==
  ASSUME TypeInv, faults = {}, Sound, Complete(checkPID), OnlyAnswers, InFlight <= 1,
         NEW f \in Formats, NEW next, Request(f, next)
  PROVE  /\ Sound' /\ Complete(checkPID)' /\ OnlyAnswers' /\ NoneMissing(f)'
         /\ InFlight' \in {InFlight, InFlight + 1}
         /\ \A g \in Formats \ {f} : NoneMissing(g) => NoneMissing(g)'
  <1>a. /\ obd_msgq \in Seq(Frame) /\ bus \in [Formats -> Seq(Frame)]
        /\ bus[f] \in Seq(Frame) /\ checkPID \in Nat
    BY DEF TypeInv, FrameType, PIDType, Multiple
  <1>b. UNCHANGED <<car, canStarted, PID_supported, checkPID, obd_msgq>>
    BY DEF Request, carVars, pidVars
  <1>c. /\ Sound' /\ Complete(checkPID)' /\ \A g \in Formats : Stored(g)' = Stored(g)
        /\ \A g \in Formats : Reaches(g, checkPID)' = Reaches(g, checkPID)
        /\ \A frame : Genuine(frame)' = Genuine(frame)
    BY <1>b, ExactStays DEF Sound, Complete, Stored, Genuine
  <1>d. Bitmap(f, checkPID) \in Frame /\ Bitmap(f, checkPID).ide = f
    BY <1>a, Frames DEF Bitmap
  <1>1. CASE /\ canStarted /\ Reaches(f, checkPID)
             /\ bus' = [bus EXCEPT ![f] = Append(@, Bitmap(f, checkPID))]
    <2>1. /\ bus'[f] = Append(bus[f], Bitmap(f, checkPID)) /\ bus'[f] # <<>>
          /\ Len(bus'[f]) = Len(bus[f]) + 1 /\ Len(bus[f]) \in Nat
          /\ \A i \in 1..Len(bus[f]) : bus'[f][i] = bus[f][i]
          /\ bus'[f][Len(bus[f]) + 1] = Bitmap(f, checkPID)
          /\ \A g \in Formats \ {f} : bus'[g] = bus[g]
      <3>1. bus'[f] = Append(bus[f], Bitmap(f, checkPID))
            /\ \A g \in Formats \ {f} : bus'[g] = bus[g]
        BY <1>a, <1>1
      <3> QED
        BY <1>a, <1>d, <3>1, AppendProperties
    <2>2. Genuine(Bitmap(f, checkPID))
      BY <1>1, <1>d DEF Genuine
    <2>3. \A i \in 1..Len(bus'[f]) : Genuine(bus'[f][i]) /\ bus'[f][i].ide = f
      BY <1>d, <2>1, <2>2 DEF OnlyAnswers
    <2>4. OnlyAnswers'
      <3>1. \A g \in Formats : \A i \in 1..Len(bus'[g]) :
              Genuine(bus'[g][i]) /\ bus'[g][i].ide = g
        BY <2>1, <2>3 DEF OnlyAnswers
      <3>2. \A i \in 1..Len(obd_msgq') : Genuine(obd_msgq'[i])
        BY <1>b DEF OnlyAnswers
      <3> QED
        BY <1>c, <3>1, <3>2 DEF OnlyAnswers
    <2>5. NoneMissing(f)'
      BY <2>1 DEF NoneMissing, Pending
    <2>6. \A g \in Formats \ {f} : NoneMissing(g) => NoneMissing(g)'
      BY <1>b, <1>c, <2>1 DEF NoneMissing, Pending
    <2>7. InFlight' = InFlight + 1
      <3>1. /\ bus["STANDARD"] \in Seq(Frame) /\ bus["EXTENDED"] \in Seq(Frame)
        BY <1>a DEF Formats
      <3>2. Len(obd_msgq) \in Nat /\ Len(bus["STANDARD"]) \in Nat /\ Len(bus["EXTENDED"]) \in Nat
        BY <1>a, <3>1, Queue
      <3>3. CASE f = "STANDARD"
        <4>1. bus'["EXTENDED"] = bus["EXTENDED"]
          BY <2>1, <3>3 DEF Formats
        <4>2. Len(bus'["STANDARD"]) = Len(bus["STANDARD"]) + 1
          BY <2>1, <3>3
        <4> QED
          <5>1. InFlight' = Len(obd_msgq) + (Len(bus["STANDARD"]) + 1) + Len(bus["EXTENDED"])
            BY <1>b, <4>1, <4>2 DEF InFlight
          <5> QED
            BY <3>2, <5>1, Sums DEF InFlight
      <3>4. CASE f = "EXTENDED"
        <4>1. bus'["STANDARD"] = bus["STANDARD"]
          BY <2>1, <3>4 DEF Formats
        <4>2. Len(bus'["EXTENDED"]) = Len(bus["EXTENDED"]) + 1
          BY <2>1, <3>4
        <4> QED
          <5>1. InFlight' = Len(obd_msgq) + Len(bus["STANDARD"]) + (Len(bus["EXTENDED"]) + 1)
            BY <1>b, <4>1, <4>2 DEF InFlight
          <5> QED
            BY <3>2, <5>1, Sums DEF InFlight
      <3> QED
        BY <3>3, <3>4 DEF Formats
    <2> QED
      BY <1>c, <2>4, <2>5, <2>6, <2>7
  <1>2. CASE bus' = bus /\ ~(canStarted /\ Reaches(f, checkPID))
    <2>1. NoneMissing(f)'
      BY <1>2, <1>b, <1>c DEF NoneMissing
    <2>2. OnlyAnswers' /\ InFlight' = InFlight
          /\ \A g \in Formats \ {f} : NoneMissing(g) => NoneMissing(g)'
      BY <1>2, <1>b, <1>c DEF OnlyAnswers, InFlight, NoneMissing, Pending
    <2> QED
      BY <1>c, <2>1, <2>2
  <1>3. CASE canStarted /\ f \in PID_supported[checkPID]
    <2>1. bus' = [bus EXCEPT ![f] = IF Answers(f, checkPID)
                                    THEN Append(@, Bitmap(f, checkPID)) ELSE @]
      BY <1>3 DEF Request, Accepted, Refused
    <2>2. Answers(f, checkPID) <=> Reaches(f, checkPID)
      BY <1>3, AsksWhatIsReached
    <2>3. CASE Answers(f, checkPID)
      BY <1>1, <1>3, <2>1, <2>2, <2>3
    <2>4. CASE ~Answers(f, checkPID)
      <3>1. bus' = bus
        BY <1>a, <2>1, <2>4
      <3> QED
        BY <1>2, <2>2, <2>4, <3>1
    <2> QED
      BY <2>3, <2>4
  <1>4. CASE ~(canStarted /\ f \in PID_supported[checkPID])
    <2>1. bus' = bus
      BY <1>4 DEF Request, Accepted, Refused
    <2>2. canStarted => ~Reaches(f, checkPID)
      BY <1>4, AsksWhatIsReached
    <2> QED
      BY <1>2, <2>1, <2>2
  <1> QED
    BY <1>3, <1>4

\* One answer is stored, in the block and for the format it belongs to.
LEMMA Drains ==
  ASSUME TypeInv, Sound, Complete(checkPID), OnlyAnswers, Drain
  PROVE  /\ Sound' /\ Complete(checkPID)' /\ OnlyAnswers' /\ InFlight' <= InFlight
         /\ \A f \in Formats : NoneMissing(f) => NoneMissing(f)'
  <1> DEFINE head == Head(obd_msgq)
  <1>a. /\ obd_msgq \in Seq(Frame) /\ bus \in [Formats -> Seq(Frame)] /\ obd_msgq # <<>>
        /\ PID_supported \in [0..Wrap -> SUBSET Formats]
        /\ Multiple(checkPID) /\ checkPID \in Nat /\ checkPID < Wrap
    BY DEF TypeInv, FrameType, PIDType, Multiple, Drain
  <1>b. /\ UNCHANGED <<car, canStarted, checkPID, bus>> /\ obd_msgq' = Tail(obd_msgq)
    BY DEF Drain, carVars
  <1>c. /\ \A p : Exact(p)' = Exact(p)
        /\ \A g \in Formats : Reaches(g, checkPID)' = Reaches(g, checkPID)
        /\ \A frame : Genuine(frame)' = Genuine(frame)
    BY <1>b, ExactStays DEF Genuine
  <1>d. /\ Len(obd_msgq) \in Nat \ {0} /\ head = obd_msgq[1] /\ Len(Tail(obd_msgq)) = Len(obd_msgq) - 1
        /\ \A i \in 1..Len(Tail(obd_msgq)) : Tail(obd_msgq)[i] = obd_msgq[i + 1]
        /\ head \in Frame
    BY <1>a
  <1>1. Genuine(head) /\ head.ide \in Formats
    BY <1>d, Frames DEF OnlyAnswers
  <1>2. head.kind = "pids" /\ head.bits = {o \in 1..Block : checkPID + o \in car[head.ide]}
        /\ canStarted /\ Reaches(head.ide, checkPID)
    <2>1. head = Bitmap(head.ide, checkPID) /\ canStarted /\ Reaches(head.ide, checkPID)
      BY <1>1 DEF Genuine
    <2> QED
      BY <2>1 DEF Bitmap
  <1>3. PID_supported' = [p \in 0..Wrap |->
              IF p - checkPID \in head.bits THEN PID_supported[p] \union {head.ide}
              ELSE PID_supported[p]]
    BY <1>2 DEF Drain
  <1>4. \A p \in 0..Wrap : PID_supported[p] \subseteq PID_supported'[p]
    BY <1>3
  <1>5. Sound'
    <2>1. PID_supported'[0] = PID_supported[0]
      <3>1. 0 - checkPID \notin head.bits /\ 0 \in 0..Wrap
        BY <1>2, <1>a, BlockType
      <3> QED
        BY <1>3, <3>1
    <2>2. ASSUME NEW p \in 1..Wrap, p - checkPID \in head.bits PROVE head.ide \in Exact(p)
      <3>1. p - checkPID \in 1..Block /\ p = checkPID + (p - checkPID) /\ p \in car[head.ide]
        BY <1>2, <1>a, <2>2
      <3>2. Base(p) = checkPID
        BY <1>a, <3>1, BaseOfBlock
      <3> QED
        BY <1>1, <1>2, <3>1, <3>2 DEF Exact
    <2>3. \A p \in 1..Wrap : PID_supported'[p] \subseteq Exact(p)
      BY <1>3, <2>2, BlockType DEF Sound
    <2> QED
      BY <1>c, <2>1, <2>3 DEF Sound
  <1>6. Complete(checkPID)'
    BY <1>a, <1>b, <1>c, <1>4, BlockType DEF Complete
  <1>7. OnlyAnswers'
    <2>1. \A i \in 1..Len(obd_msgq') : Genuine(obd_msgq'[i])
      BY <1>b, <1>d DEF OnlyAnswers
    <2> QED
      BY <1>b, <1>c, <2>1 DEF OnlyAnswers
  <1>8. InFlight' <= InFlight
    <2>1. /\ bus["STANDARD"] \in Seq(Frame) /\ bus["EXTENDED"] \in Seq(Frame)
      BY <1>a DEF Formats
    <2>2. Len(bus["STANDARD"]) \in Nat /\ Len(bus["EXTENDED"]) \in Nat
      BY <2>1, Queue
    <2> QED
      BY <1>b, <1>d, <2>2 DEF InFlight
  <1>9. ASSUME NEW f \in Formats, NoneMissing(f) PROVE NoneMissing(f)'
    <2>1. CASE f = head.ide
      <3>1. ASSUME NEW o \in 1..Block, checkPID + o \in car[f]
            PROVE  f \in PID_supported'[checkPID + o]
        <4>1. o \in head.bits
          BY <1>2, <2>1, <3>1
        <4>3. (checkPID + o) - checkPID = o
          BY <1>a, BlockType
        <4>2. checkPID + o \in 0..Wrap
          BY <3>1, CarRange, BlockType
        <4> QED
          BY <1>3, <2>1, <4>1, <4>2, <4>3
      <3>2. Stored(f)'
        BY <1>b, <3>1 DEF Stored
      <3> QED
        BY <3>2 DEF NoneMissing
    <2>2. CASE f # head.ide
      <3>1. Stored(f) => Stored(f)'
        <4>1. \A o \in 1..Block : checkPID + o \in car[f] => checkPID + o \in 0..Wrap
          BY CarRange, BlockType
        <4> QED
          BY <1>b, <1>4, <4>1 DEF Stored
      <3>2. Pending(f) => Pending(f)'
        <4>1. ASSUME NEW i \in 1..Len(obd_msgq), obd_msgq[i].ide = f
              PROVE  \E j \in 1..Len(obd_msgq') : obd_msgq'[j].ide = f
          <5>1. i # 1
            BY <1>d, <2>2, <4>1
          <5>2. i - 1 \in 1..Len(obd_msgq') /\ obd_msgq'[i - 1] = obd_msgq[i]
            BY <1>b, <1>d, <5>1
          <5> QED
            BY <4>1, <5>2
        <4> QED
          BY <1>b, <4>1 DEF Pending
      <3> QED
        BY <1>9, <1>b, <1>c, <3>1, <3>2 DEF NoneMissing
    <2> QED
      BY <2>1, <2>2
  <1> QED
    BY <1>5, <1>6, <1>7, <1>8, <1>9

\* A frame reaches the queue: at most two are under way and none is dropped.
LEMMA Delivers ==
  ASSUME TypeInv, Sound, Complete(checkPID), OnlyAnswers, InFlight <= 2,
         NEW f \in Formats, Deliver(f)
  PROVE  /\ Sound' /\ Complete(checkPID)' /\ OnlyAnswers' /\ InFlight' = InFlight
         /\ \A g \in Formats : NoneMissing(g) => NoneMissing(g)'
  <1> DEFINE head == Head(bus[f])
  <1>a. /\ obd_msgq \in Seq(Frame) /\ bus \in [Formats -> Seq(Frame)]
        /\ bus[f] \in Seq(Frame) /\ bus[f] # <<>>
    BY DEF TypeInv, FrameType, Deliver
  <1>b. UNCHANGED <<car, canStarted, PID_supported, checkPID>>
    BY DEF Deliver, carVars, pidVars
  <1>c. /\ Sound' /\ Complete(checkPID)' /\ \A g \in Formats : Stored(g)' = Stored(g)
        /\ \A g \in Formats : Reaches(g, checkPID)' = Reaches(g, checkPID)
        /\ \A frame : Genuine(frame)' = Genuine(frame)
    BY <1>b, ExactStays DEF Sound, Complete, Stored, Genuine
  <1>d. /\ Len(bus[f]) \in Nat \ {0} /\ head = bus[f][1] /\ head \in Frame
        /\ Tail(bus[f]) \in Seq(Frame) /\ Len(Tail(bus[f])) = Len(bus[f]) - 1
        /\ \A i \in 1..Len(Tail(bus[f])) : Tail(bus[f])[i] = bus[f][i + 1]
    BY <1>a
  <1>e. Len(obd_msgq) \in Nat /\ Len(bus["STANDARD"]) \in Nat /\ Len(bus["EXTENDED"]) \in Nat
    <2>1. /\ bus["STANDARD"] \in Seq(Frame) /\ bus["EXTENDED"] \in Seq(Frame)
      BY <1>a DEF Formats
    <2> QED
      BY <1>a, <2>1, Queue
  <1>1. obd_msgq' = Append(obd_msgq, head)
    <2>1. Len(obd_msgq) < MsgqSize
      <3>1. Len(obd_msgq) + Len(bus["STANDARD"]) + Len(bus["EXTENDED"]) <= 2
        BY DEF InFlight
      <3>2. Len(obd_msgq) <= 2
        BY <1>e, <3>1, Sums
      <3> QED
        BY <1>e, <3>2 DEF MsgqSize
    <2> QED
      BY <2>1 DEF Deliver
  <1>2. /\ Len(obd_msgq') = Len(obd_msgq) + 1
        /\ \A i \in 1..Len(obd_msgq) : obd_msgq'[i] = obd_msgq[i]
        /\ obd_msgq'[Len(obd_msgq) + 1] = head
    BY <1>a, <1>d, <1>1, AppendProperties
  <1>3. bus'[f] = Tail(bus[f]) /\ \A g \in Formats \ {f} : bus'[g] = bus[g]
    BY <1>a DEF Deliver
  <1>4. Genuine(head) /\ head.ide = f
    BY <1>d DEF OnlyAnswers
  <1>5. OnlyAnswers'
    <2>1. \A g \in Formats : \A i \in 1..Len(bus'[g]) :
            Genuine(bus'[g][i]) /\ bus'[g][i].ide = g
      <3> SUFFICES ASSUME NEW g \in Formats, NEW i \in 1..Len(bus'[g])
                   PROVE  Genuine(bus'[g][i]) /\ bus'[g][i].ide = g
        OBVIOUS
      <3>1. CASE g = f
        <4>1. i \in 1..Len(Tail(bus[f])) /\ bus'[f][i] = bus[f][i + 1]
          BY <1>d, <1>3, <3>1
        <4>2. i + 1 \in 1..Len(bus[f])
          BY <1>d, <4>1
        <4> QED
          BY <3>1, <4>1, <4>2 DEF OnlyAnswers
      <3>2. CASE g # f
        BY <1>3, <3>2 DEF OnlyAnswers
      <3> QED
        BY <3>1, <3>2
    <2>2. \A i \in 1..Len(obd_msgq') : Genuine(obd_msgq'[i])
      BY <1>e, <1>2, <1>4 DEF OnlyAnswers
    <2> QED
      BY <1>c, <2>1, <2>2 DEF OnlyAnswers
  <1>6. InFlight' = InFlight
    <2>1. CASE f = "STANDARD"
      <3>1. bus'["EXTENDED"] = bus["EXTENDED"]
        BY <1>3, <2>1 DEF Formats
      <3>2. Len(bus'["STANDARD"]) = Len(bus["STANDARD"]) - 1
        BY <1>d, <1>3, <2>1
      <3> QED
        <4>1. InFlight' = (Len(obd_msgq) + 1) + (Len(bus["STANDARD"]) - 1) + Len(bus["EXTENDED"])
          BY <1>2, <3>1, <3>2 DEF InFlight
        <4> QED
          BY <1>e, <4>1, Sums DEF InFlight
    <2>2. CASE f = "EXTENDED"
      <3>1. bus'["STANDARD"] = bus["STANDARD"]
        BY <1>3, <2>2 DEF Formats
      <3>2. Len(bus'["EXTENDED"]) = Len(bus["EXTENDED"]) - 1
        BY <1>d, <1>3, <2>2
      <3> QED
        <4>1. InFlight' = (Len(obd_msgq) + 1) + Len(bus["STANDARD"]) + (Len(bus["EXTENDED"]) - 1)
          BY <1>2, <3>1, <3>2 DEF InFlight
        <4> QED
          BY <1>e, <4>1, Sums DEF InFlight
    <2> QED
      BY <2>1, <2>2 DEF Formats
  <1>7. ASSUME NEW g \in Formats, NoneMissing(g) PROVE NoneMissing(g)'
    <2>1. Pending(g) => Pending(g)'
      <3>1. CASE g = f
        <4>1. Len(obd_msgq) + 1 \in 1..Len(obd_msgq')
          BY <1>e, <1>2
        <4> QED
          BY <1>2, <1>4, <3>1, <4>1 DEF Pending
      <3>2. CASE g # f
        <4>1. 1..Len(obd_msgq) \subseteq 1..Len(obd_msgq')
          BY <1>e, <1>2
        <4> QED
          BY <1>2, <1>3, <3>2, <4>1 DEF Pending
      <3> QED
        BY <3>1, <3>2
    <2> QED
      BY <1>7, <1>b, <1>c, <2>1 DEF NoneMissing
  <1> QED
    BY <1>c, <1>5, <1>6, <1>7

\* 100 ms of silence: the block is complete, and only a block that nobody announced
\* ends discovery.
LEMMA TimesOut ==
  ASSUME TypeInv, faults = {}, Sound, Complete(checkPID), OnlyAnswers,
         \A f \in Formats : NoneMissing(f), DrainTimeout
  PROVE  /\ Quiet' /\ Sound' /\ Complete(checkPID)'
         /\ pc' \in {"STANDARD", "run"}
         /\ pc' = "run" => checkPID' # 0 /\ PID_supported'[checkPID'] = {}
  <1>a. /\ Multiple(checkPID) /\ checkPID \in Nat /\ checkPID < Wrap
        /\ Block \in Nat \ {0, 1} /\ Wrap \in Nat /\ Multiple(Wrap)
    BY TrackerBootAssumption DEF TypeInv, PIDType, Multiple
  <1>b. UNCHANGED <<car, canStarted, PID_supported, obd_msgq, bus>>
    BY DEF DrainTimeout, carVars, canVars
  <1>1. Quiet
    BY TimeoutIsQuiet DEF DrainTimeout
  <1>2. Complete(checkPID + Block)
    <2> SUFFICES ASSUME NEW p \in 1..(checkPID + Block), NEW f \in Exact(p)
                 PROVE  f \in PID_supported[p]
      BY DEF Complete
    <2>1. CASE p <= checkPID
      BY <1>a, <2>1 DEF Complete
    <2>2. CASE p > checkPID
      <3>1. p - checkPID \in 1..Block /\ p = checkPID + (p - checkPID)
        BY <1>a, <2>2
      <3>2. Base(p) = checkPID
        BY <1>a, <3>1, BaseOfBlock
      <3>3. f \in Formats /\ canStarted /\ p \in car[f] /\ Reaches(f, checkPID)
        BY <3>2 DEF Exact
      <3>4. ~Pending(f)
        <4>1. Len(obd_msgq) = 0
          BY <1>1 DEF Quiet
        <4> QED
          BY <1>1, <3>3, <4>1 DEF Quiet, Pending
      <3>5. Stored(f)
        BY <3>3, <3>4 DEF NoneMissing
      <3> QED
        BY <3>1, <3>3, <3>5 DEF Stored
    <2> QED
      BY <1>a, <2>1, <2>2
  <1>3. checkPID' \in {0, checkPID + Block} /\ checkPID' < Wrap /\ Multiple(checkPID')
    <2>1. checkPID' = IF checkPID + Block = Wrap THEN 0 ELSE checkPID + Block
      BY <1>a, NextBlock DEF DrainTimeout
    <2> QED
      BY <2>1, TypeStep DEF TypeInv, PIDType, Next, Main, Discover
  <1>4. Sound' /\ Complete(checkPID)'
    <2>1. Sound'
      BY <1>b, ExactStays DEF Sound
    <2>2. Complete(0) /\ Complete(checkPID')
      BY <1>2, <1>3 DEF Complete
    <2> QED
      BY <2>1, <2>2, <1>b, ExactStays DEF Complete
  <1>5. checkPID' < Wrap - 1
    <2>1. checkPID' + Block <= Wrap /\ checkPID' \in Nat
      BY <1>3, <1>a, BlocksApart DEF Multiple
    <2>2. Block \in Nat /\ Block >= 2 /\ Wrap \in Nat
      BY BlockType
    <2> QED
      BY <2>1, <2>2, Sums
  <1>6. pc' = "run" => PID_supported[checkPID'] = {}
    BY <1>5 DEF DrainTimeout
  <1>7. PID_supported[0] # {}
    BY DEF Sound, BOTH, Formats
  <1> QED
    BY <1>b, <1>1, <1>4, <1>6, <1>7 DEF DrainTimeout, Quiet

\* Before discovery nothing has been marked, and nothing marks anything.
LEMMA DiscoveryStep == ASSUME TypeInv, faults = {}, VINInv, DiscoveryInv, [Next]_vars
                       PROVE  DiscoveryInv'
  <1>a. pc \in PCs
    BY DEF TypeInv
  <1>1. CASE \/ ModemConfigure \/ TakeLte \/ SetupGPIO \/ RequestVINStandard
             \/ RequestVINExtended \/ FirstVINFrame("STANDARD", "waitStandard")
             \/ FirstVINFrame("EXTENDED", "waitExtended") \/ VINTimeout \/ NextVINFrame
             \/ ReadIMEI \/ ServerResolve \/ ServerConnect
    <2>1. UNCHANGED pidVars
      BY <1>1 DEF ModemConfigure, TakeLte, SetupGPIO, RequestVINStandard, RequestVINExtended,
                  RequestVIN, FirstVINFrame, VINTimeout, NextVINFrame, ReadIMEI, ServerResolve,
                  ServerConnect, Step
    <2>2. pc \in Booting \union Connecting
      BY <1>1 DEF ModemConfigure, TakeLte, SetupGPIO, RequestVINStandard, RequestVINExtended,
                  RequestVIN, FirstVINFrame, VINTimeout, NextVINFrame, ReadIMEI, ServerResolve,
                  ServerConnect, Step, Booting, Connecting
    <2>3. pc' \in Booting \union Connecting \union {"halted"}
      <3>1. CASE ModemConfigure \/ TakeLte \/ SetupGPIO \/ ReadIMEI \/ ServerResolve
                 \/ ServerConnect
        BY <3>1 DEF ModemConfigure, TakeLte, SetupGPIO, ReadIMEI, ServerResolve, ServerConnect,
                    Step, Booting, Connecting
      <3>2. CASE RequestVINStandard \/ RequestVINExtended
        BY <3>2 DEF RequestVINStandard, RequestVINExtended, RequestVIN, VinNotFound, Booting
      <3>3. CASE \/ FirstVINFrame("STANDARD", "waitStandard")
                 \/ FirstVINFrame("EXTENDED", "waitExtended") \/ VINTimeout \/ NextVINFrame
        BY <3>3 DEF FirstVINFrame, VINTimeout, VinNotFound, NextVINFrame, Booting
      <3> QED
        BY <1>1, <3>1, <3>2, <3>3
    <2>4. checkPID' = 0 /\ \A p \in 0..Wrap : PID_supported'[p] = {}
      BY <2>1, <2>2 DEF DiscoveryInv, pidVars
    <2> QED
      BY <2>3, <2>4 DEF DiscoveryInv, Discovering, Booting, Connecting
  <1>2. CASE GnssInitAndStart
    <2>1. pc = "gnss" /\ Quiet /\ checkPID = 0 /\ \A p \in 0..Wrap : PID_supported[p] = {}
      BY <1>2 DEF GnssInitAndStart, VINInv, DiscoveryInv, Connecting
    <2>2. CASE pc' = "halted"
      BY <2>2 DEF DiscoveryInv, Discovering, Booting, Connecting
    <2>3. CASE pc' = "STANDARD"
      <3>1. PID_supported' = [PID_supported EXCEPT ![0] = BOTH] /\ checkPID' = 0 /\ Quiet'
        BY <1>2, <2>1, <2>3 DEF GnssInitAndStart, canVars, Quiet
      <3>2. PID_supported'[0] = BOTH /\ \A p \in 1..Wrap : PID_supported'[p] = {}
        <4>1. PID_supported \in [0..Wrap -> SUBSET Formats] /\ 0 \in 0..Wrap
              /\ \A p \in 1..Wrap : p \in 0..Wrap /\ p # 0
          BY BlockType DEF TypeInv, PIDType
        <4> QED
          BY <2>1, <3>1, <4>1
      <3>3. Sound' /\ Complete(checkPID)'
        BY <3>1, <3>2 DEF Sound, Complete
      <3>4. OnlyAnswers' /\ InFlight' = 0
        <4>1. /\ Len(obd_msgq') = 0 /\ \A f \in Formats : Len(bus'[f]) = 0
          BY <3>1 DEF Quiet
        <4>2. OnlyAnswers'
          BY <4>1 DEF OnlyAnswers
        <4>3. Len(obd_msgq') = 0 /\ Len(bus'["STANDARD"]) = 0 /\ Len(bus'["EXTENDED"]) = 0
          BY <4>1 DEF Formats
        <4>4. InFlight' = 0 + 0 + 0
          BY <4>3 DEF InFlight
        <4> QED
          BY <4>2, <4>4
      <3> QED
        BY <2>3, <3>3, <3>4 DEF DiscoveryInv, Discovering, Booting, Connecting
    <2> QED
      BY <1>2, <2>2, <2>3 DEF GnssInitAndStart
  <1>3. CASE RequestStandard
    <2>1. /\ Request("STANDARD", "EXTENDED") /\ pc' = "EXTENDED"
          /\ Sound /\ Complete(checkPID) /\ OnlyAnswers /\ InFlight = 0
      BY <1>3 DEF RequestStandard, Request, DiscoveryInv, Discovering
    <2>2. /\ Sound' /\ Complete(checkPID)' /\ OnlyAnswers' /\ NoneMissing("STANDARD")'
          /\ InFlight' \in {InFlight, InFlight + 1}
      BY <2>1, Requests DEF Formats
    <2> QED
      BY <2>1, <2>2 DEF DiscoveryInv, Discovering, Booting, Connecting
  <1>4. CASE RequestExtended
    <2>1. /\ Request("EXTENDED", "drain") /\ pc' = "drain" /\ NoneMissing("STANDARD")
          /\ Sound /\ Complete(checkPID) /\ OnlyAnswers /\ InFlight <= 1 /\ InFlight \in Nat
      <3>1. /\ obd_msgq \in Seq(Frame) /\ bus["STANDARD"] \in Seq(Frame)
            /\ bus["EXTENDED"] \in Seq(Frame)
        BY DEF TypeInv, FrameType, Formats
      <3>2. InFlight \in Nat
        BY <3>1, Queue, Sums DEF InFlight
      <3> QED
        BY <1>4, <3>2 DEF RequestExtended, Request, DiscoveryInv, Discovering
    <2>2. /\ Sound' /\ Complete(checkPID)' /\ OnlyAnswers' /\ NoneMissing("EXTENDED")'
          /\ InFlight' \in {InFlight, InFlight + 1} /\ NoneMissing("STANDARD")'
      BY <2>1, Requests DEF Formats
    <2>3. InFlight' <= 2
      BY <2>1, <2>2
    <2> QED
      BY <2>1, <2>2, <2>3 DEF DiscoveryInv, Discovering, Booting, Connecting
  <1>5. CASE Drain
    <2>1. /\ pc = "drain" /\ pc' = pc /\ Sound /\ Complete(checkPID) /\ OnlyAnswers
          /\ InFlight <= 2 /\ \A f \in Formats : NoneMissing(f)
      BY <1>5 DEF Drain, DiscoveryInv, Discovering, Formats
    <2>2. /\ Sound' /\ Complete(checkPID)' /\ OnlyAnswers' /\ InFlight' <= 2
          /\ \A f \in Formats : NoneMissing(f)'
      <3>1. InFlight \in Nat /\ InFlight' \in Nat
        <4>1. /\ obd_msgq \in Seq(Frame) /\ bus["STANDARD"] \in Seq(Frame)
              /\ bus["EXTENDED"] \in Seq(Frame)
          BY DEF TypeInv, FrameType, Formats
        <4>2. /\ obd_msgq' \in Seq(Frame) /\ bus'["STANDARD"] \in Seq(Frame)
              /\ bus'["EXTENDED"] \in Seq(Frame)
          BY TypeStep DEF TypeInv, FrameType, Formats
        <4> QED
          <5>1. Len(obd_msgq) \in Nat /\ Len(bus["STANDARD"]) \in Nat /\ Len(bus["EXTENDED"]) \in Nat
            BY <4>1, Queue
          <5>2. Len(obd_msgq') \in Nat /\ Len(bus'["STANDARD"]) \in Nat /\ Len(bus'["EXTENDED"]) \in Nat
            BY <4>2, Queue
          <5>3. InFlight = Len(obd_msgq) + Len(bus["STANDARD"]) + Len(bus["EXTENDED"])
                /\ InFlight' = Len(obd_msgq') + Len(bus'["STANDARD"]) + Len(bus'["EXTENDED"])
            BY DEF InFlight
          <5> QED
            BY <5>1, <5>2, <5>3, Sums
      <3>2. InFlight' <= InFlight
        BY <1>5, <2>1, Drains
      <3> QED
        BY <1>5, <2>1, <3>1, <3>2, Drains
    <2> QED
      BY <2>1, <2>2 DEF DiscoveryInv, Discovering, Booting, Connecting, Formats
  <1>6. CASE DrainTimeout
    <2>1. /\ Sound /\ Complete(checkPID) /\ OnlyAnswers /\ \A f \in Formats : NoneMissing(f)
      BY <1>6 DEF DrainTimeout, DiscoveryInv, Discovering, Formats
    <2>2. /\ Quiet' /\ Sound' /\ Complete(checkPID)' /\ pc' \in {"STANDARD", "run"}
          /\ pc' = "run" => checkPID' # 0 /\ PID_supported'[checkPID'] = {}
      BY <1>6, <2>1, TimesOut
    <2>3. OnlyAnswers' /\ InFlight' = 0
      <3>1. /\ Len(obd_msgq') = 0 /\ \A f \in Formats : Len(bus'[f]) = 0
        BY <2>2 DEF Quiet
      <3>2. OnlyAnswers'
        BY <3>1 DEF OnlyAnswers
      <3>3. Len(obd_msgq') = 0 /\ Len(bus'["STANDARD"]) = 0 /\ Len(bus'["EXTENDED"]) = 0
        BY <3>1 DEF Formats
      <3>4. InFlight' = 0 + 0 + 0
        BY <3>3 DEF InFlight
      <3> QED
        BY <3>2, <3>4
    <2> QED
      BY <2>2, <2>3 DEF DiscoveryInv, Discovering, Booting, Connecting
  <1>7. ASSUME NEW f \in Formats, Deliver(f) PROVE DiscoveryInv'
    <2>1. UNCHANGED <<pc, car, canStarted, PID_supported, checkPID>>
      BY <1>7 DEF Deliver, carVars, pidVars
    <2>2. CASE pc \in Discovering
      <3>1. Sound /\ Complete(checkPID) /\ OnlyAnswers /\ InFlight <= 2
        <4>1. Sound /\ Complete(checkPID) /\ OnlyAnswers
          BY <2>2 DEF DiscoveryInv
        <4>2. InFlight = 0 \/ InFlight <= 1 \/ InFlight <= 2
          BY <2>2 DEF DiscoveryInv, Discovering
        <4>3. /\ obd_msgq \in Seq(Frame) /\ bus["STANDARD"] \in Seq(Frame)
              /\ bus["EXTENDED"] \in Seq(Frame)
          BY DEF TypeInv, FrameType, Formats
        <4>4. InFlight \in Nat
          BY <4>3, Queue, Sums DEF InFlight
        <4> QED
          BY <4>1, <4>2, <4>4
      <3>2. /\ Sound' /\ Complete(checkPID)' /\ OnlyAnswers' /\ InFlight' = InFlight
            /\ \A g \in Formats : NoneMissing(g) => NoneMissing(g)'
        BY <1>7, <3>1, Delivers
      <3> QED
        BY <2>1, <2>2, <3>2 DEF DiscoveryInv, Discovering, Booting, Connecting, Formats
    <2>3. CASE pc \notin Discovering
      BY <2>1, <2>3, ExactStays DEF DiscoveryInv, Discovering, Sound, Complete
    <2> QED
      BY <2>2, <2>3
  <1>8. CASE LteRegistered \/ UNCHANGED vars
    <2>1. UNCHANGED <<pc, car, canStarted, PID_supported, checkPID, obd_msgq, bus>>
      BY <1>8 DEF LteRegistered, vars, carVars, pidVars, canVars
    <2>2. /\ Sound' = Sound /\ Complete(checkPID)' = Complete(checkPID)
          /\ OnlyAnswers' = OnlyAnswers /\ InFlight' = InFlight
          /\ \A g \in Formats : NoneMissing(g)' = NoneMissing(g)
      BY <2>1 DEF Sound, Complete, OnlyAnswers, InFlight, NoneMissing, Exact, Reaches, Base,
                  Genuine, Bitmap, Pending, Stored
    <2> QED
      BY <2>1, <2>2 DEF DiscoveryInv, Formats
  <1> QED
    BY <1>1, <1>2, <1>3, <1>4, <1>5, <1>6, <1>7, <1>8
    DEF Next, Main, GetID, Discover

LEMMA BootStep == BootInv /\ [Next]_vars => BootInv'
  <1> SUFFICES ASSUME BootInv, [Next]_vars PROVE BootInv'
    OBVIOUS
  <1>1. TypeInv'
    BY TypeStep DEF BootInv
  <1>2. faults' = faults
    BY DEF Next, Main, GetID, Discover, vars, carVars, ModemConfigure, LteRegistered, TakeLte,
        SetupGPIO, RequestVINStandard, RequestVINExtended, RequestVIN, FirstVINFrame, VINTimeout,
        NextVINFrame, ReadIMEI, ServerResolve, ServerConnect, Step, GnssInitAndStart,
        RequestStandard, RequestExtended, Request, Drain, DrainTimeout, Deliver
  <1> QED
    BY <1>1, <1>2, VINStep, DiscoveryStep DEF BootInv

LEMMA BootInit == Init => BootInv
  <1> SUFFICES ASSUME Init PROVE BootInv
    OBVIOUS
  <1>1. VINInv
    BY DEF Init, VINInv, Quiet, Booting, Connecting, Formats
  <1>2. DiscoveryInv
    BY DEF Init, DiscoveryInv, Booting, Connecting, Discovering
  <1> QED
    BY <1>1, <1>2, TypeInit DEF BootInv

\* On a bus without faults the VIN the tracker reports is the three pieces of one control
\* unit in order, and "_" exactly when none could be asked (functions.h 111-155).
THEOREM Identified == Spec => []VINWhole
  <1>1. BootInv => VINWhole
    <2> SUFFICES ASSUME BootInv, faults = {}, pc \notin Booting \union {"halted"} PROVE VIN = Whole
      BY DEF VINWhole, Whole, Identifier
    <2> QED
      BY DEF BootInv, VINInv
  <1> QED
    BY <1>1, BootInit, BootStep, PTL DEF Spec

\* What the end of discovery implies: every block after the last one asked about is out of
\* reach for every format.
LEMMA NothingBeyond ==
  ASSUME BootInv, faults = {}, pc = "run", NEW f \in Formats, canStarted,
         NEW b, Multiple(b), Reaches(f, b)
  PROVE  b < checkPID
  <1>a. /\ Multiple(checkPID) /\ checkPID \in Nat \ {0} /\ checkPID < Wrap /\ b \in Nat
        /\ PID_supported[checkPID] = {} /\ Complete(checkPID)
    BY DEF BootInv, TypeInv, PIDType, DiscoveryInv, Multiple
  <1> SUFFICES ASSUME checkPID <= b PROVE FALSE
    BY <1>a
  <1>1. checkPID \in 1..b /\ checkPID % Block = 0 /\ checkPID \in 1..checkPID
    BY <1>a DEF Multiple
  <1>2. Multiple(Base(checkPID)) /\ Base(checkPID) <= b /\ Base(checkPID) \in Nat
    BY <1>a, BlockBefore, BlockType DEF Multiple
  <1>3. Reaches(f, Base(checkPID)) /\ checkPID \in car[f]
    <2>1. 1..Base(checkPID) \subseteq 1..b
      BY <1>a, <1>2
    <2> QED
      BY <1>1, <2>1 DEF Reaches
  <1>4. f \in Exact(checkPID)
    BY <1>3 DEF Exact
  <1> QED
    BY <1>a, <1>1, <1>4 DEF Complete

\* When the main loop is entered on a bus without faults, PID_supported holds exactly the
\* formats on which the car supports each PID (main.c 314-345).
THEOREM Discovered == Spec => []DiscoveryExact
  <1>1. BootInv => DiscoveryExact
    <2> SUFFICES ASSUME BootInv, faults = {}, pc = "run", NEW p \in 1..Wrap
                 PROVE  PID_supported[p] = Exact(p)
      BY DEF DiscoveryExact, Exact, Base
    <2>a. Sound /\ Complete(checkPID) /\ checkPID \in Nat /\ p \in Nat \ {0}
      BY BlockType DEF BootInv, DiscoveryInv, TypeInv, PIDType, Multiple
    <2>1. CASE p <= checkPID
      <3>1. p \in 1..checkPID
        BY <2>a, <2>1
      <3> QED
        BY <2>a, <3>1 DEF Sound, Complete
    <2>2. CASE p > checkPID
      <3>1. Multiple(Base(p)) /\ Base(p) < p /\ p <= Base(p) + Block /\ Multiple(checkPID)
        BY <2>a, InBlock DEF BootInv, TypeInv, PIDType
      <3>2. ~(Base(p) < checkPID)
        <4>1. Base(p) < checkPID => Base(p) + Block <= checkPID
          BY <3>1, BlocksApart
        <4> QED
          BY <2>a, <2>2, <3>1, <4>1, BlockType DEF Multiple
      <3>3. Exact(p) = {}
        BY <3>1, <3>2, NothingBeyond DEF Exact
      <3> QED
        BY <2>a, <3>3 DEF Sound
    <2> QED
      BY <2>a, <2>1, <2>2
  <1> QED
    BY <1>1, BootInit, BootStep, PTL DEF Spec

\* On a bus without faults, a car that supports the PID announcing the last block keeps
\* the tracker in discovery for ever: the uint8_t checkPID wraps to 0 (main.c 309, 341).
THEOREM Endless == Spec => [](faults = {} /\ ReachesLastBlock => pc # "run")
  <1>1. BootInv => (faults = {} /\ ReachesLastBlock => pc # "run")
    <2> SUFFICES ASSUME BootInv, faults = {}, ReachesLastBlock, pc = "run" PROVE FALSE
      OBVIOUS
    <2>a. /\ Multiple(checkPID) /\ checkPID \in Nat /\ checkPID < Wrap
      BY DEF BootInv, TypeInv, PIDType, Multiple
    <2>b. Multiple(Wrap) /\ Wrap # 0 /\ Wrap \in Nat /\ Block \in Nat
      BY TrackerBootAssumption DEF Multiple
    <2>1. Multiple(Wrap - Block)
      <3>1. Multiple(Base(Wrap)) /\ Wrap = Base(Wrap) + Block
        BY <2>b, BlockBefore
      <3>2. Base(Wrap) = Wrap - Block
        BY <2>b, <3>1 DEF Multiple
      <3> QED
        BY <3>1, <3>2
    <2>2. Wrap - Block < checkPID
      BY <2>1, NothingBeyond DEF ReachesLastBlock
    <2>3. checkPID + Block <= Wrap
      BY <2>a, <2>b, BlocksApart
    <2> QED
      BY <2>a, <2>b, <2>2, <2>3
  <1> QED
    BY <1>1, BootInit, BootStep, PTL DEF Spec
=============================================================================
