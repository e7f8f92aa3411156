----------------------------- MODULE TrackerBoot -----------------------------
(***************************************************************************)
(* The tracker's start-up (Firmware/tracker/src/main.c, main() up to its   *)
(* endless loop, with functions.h): attach to LTE, set the peripherals up, *)
(* read the car's VIN and the modem's IMEI, open the socket, start GNSS,   *)
(* and discover which OBD-II PIDs the car supports on which frame format.  *)
(*                                                                         *)
(* main runs concurrently with the LTE event handler and with the car,     *)
(* whose answers reach it through obd_msgq in whatever order the two       *)
(* formats interleave, possibly after main has stopped waiting for them.   *)
(***************************************************************************)
EXTENDS Integers, Sequences, FiniteSets

CONSTANTS
    Block,   \* PIDs one discovery answer covers: 0x20 in the code
    Wrap,    \* modulus of the uint8_t checkPID: 0x100 in the code
    Buses,   \* what the tracker may be plugged into: a car (per format, the set of
             \* PIDs its control unit supports), and which of "late" and "refused"
             \* happens on its CAN bus
    MaxInFlight \* bound: answers of one format not yet delivered

Formats == {"STANDARD", "EXTENDED"}
BOTH == Formats
MsgqSize == 5

ASSUME TrackerBootAssumption ==
    /\ Block \in Nat \ {0, 1}
    /\ Wrap \in Nat
    /\ Wrap % Block = 0
    /\ Wrap > Block
    /\ Buses \subseteq [car : [Formats -> SUBSET (1..Wrap)], faults : SUBSET {"late", "refused"}]
    /\ MaxInFlight \in Nat \ {0}

VARIABLES
    pc,
    car,            \* the car this boot is connected to
    faults,         \* what goes wrong on its bus
    vinOn,          \* formats on which the car answers a VIN request
    lte_connected,  \* semaphore, 0 or 1
    attaching,      \* lte_lc_init_and_connect_async was accepted
    canStarted,     \* filters installed and controller started
    VIN,            \* the pieces copied into system_state.VIN
    IMEI,
    response_frame, \* the last frame read, kept when a later read times out
    PID_supported,  \* index Wrap is the word behind the array
    checkPID,
    obd_msgq,
    bus             \* per format, frames sent and not yet received

lteVars == <<lte_connected, attaching>>
idVars == <<VIN, IMEI, response_frame>>
pidVars == <<PID_supported, checkPID>>
canVars == <<obd_msgq, bus>>
carVars == <<car, faults, vinOn>>
vars == <<pc, carVars, lteVars, canStarted, idVars, pidVars, canVars>>

\* The identity "_", when none was found.
NoVIN == << <<"underscore", 0>> >>
NoFrame == [kind |-> "none", ide |-> "STANDARD", part |-> 0, bits |-> {}]

Init ==
    /\ pc = "modem"
    /\ \E b \in Buses : car = b.car /\ faults = b.faults
    /\ vinOn \in SUBSET {f \in Formats : car[f] # {}}
    /\ lte_connected = 0
    /\ attaching = FALSE
    /\ canStarted = FALSE
    /\ VIN = <<>>
    /\ IMEI = "unread"
    /\ response_frame = NoFrame
    /\ PID_supported = [p \in 0..Wrap |-> {}]
    /\ checkPID = 0
    /\ obd_msgq = <<>>
    /\ bus = [f \in Formats |-> <<>>]

-----------------------------------------------------------------------------
(* modem_configure and the LTE event handler. *)

\* A failing lte_lc_init_and_connect_async is logged and boot goes on without
\* waiting for the network.
ModemConfigure ==
    /\ pc = "modem"
    /\ \/ attaching' = TRUE /\ pc' = "waitLte"
       \/ attaching' = FALSE /\ pc' = "gpio"
    /\ UNCHANGED <<carVars, lte_connected, canStarted, idVars, pidVars, canVars>>

\* LTE_LC_EVT_NW_REG_STATUS with home or roaming registration, at any later time.
LteRegistered ==
    /\ attaching
    /\ lte_connected' = 1
    /\ UNCHANGED <<pc, carVars, attaching, canStarted, idVars, pidVars, canVars>>

TakeLte ==
    /\ pc = "waitLte"
    /\ lte_connected = 1
    /\ lte_connected' = 0
    /\ pc' = "gpio"
    /\ UNCHANGED <<carVars, attaching, canStarted, idVars, pidVars, canVars>>

-----------------------------------------------------------------------------
(* setup_GPIO and get_ID. *)

\* setup_GPIO returns early when a LED or a button is not ready, before the CAN
\* filters are installed and the controller is started; can_start may also fail.
SetupGPIO ==
    /\ pc = "gpio"
    /\ canStarted' \in BOOLEAN
    /\ pc' = "vinStandard"
    /\ UNCHANGED <<carVars, lteVars, idVars, pidVars, canVars>>

VinFrame(f, part) == [kind |-> "vin", ide |-> f, part |-> part, bits |-> {}]

\* can_send succeeds only on a started controller, and may then still be refused.
Accepted == canStarted
Refused == ~canStarted \/ "refused" \in faults

RequestVIN(f, here, wait, otherwise) ==
    /\ pc = here
    /\ \/ /\ Accepted
          /\ bus' = [bus EXCEPT ![f] = IF f \in vinOn THEN Append(@, VinFrame(f, 1)) ELSE @]
          /\ pc' = wait
          /\ UNCHANGED VIN
       \/ /\ Refused
          /\ otherwise
          /\ UNCHANGED bus
    /\ UNCHANGED <<carVars, lteVars, canStarted, IMEI, response_frame, pidVars, obd_msgq>>

VinNotFound == VIN' = NoVIN /\ pc' = "imei"

RequestVINStandard ==
    RequestVIN("STANDARD", "vinStandard", "waitStandard", pc' = "vinExtended" /\ UNCHANGED VIN)
RequestVINExtended ==
    RequestVIN("EXTENDED", "vinExtended", "waitExtended", VinNotFound)

Piece(frame) == <<frame.ide, frame.part>>

\* The first answer, whoever sent it: answer it with a flow-control frame on the
\* format that was asked, and copy its piece of the VIN.
FirstVINFrame(f, wait) ==
    /\ pc = wait
    /\ obd_msgq # <<>>
    /\ response_frame' = Head(obd_msgq)
    /\ obd_msgq' = Tail(obd_msgq)
    /\ \/ /\ Accepted
          /\ bus' = [bus EXCEPT ![f] =
                       IF Head(obd_msgq).ide = f /\ Head(obd_msgq).part = 1
                       THEN @ \o <<VinFrame(f, 2), VinFrame(f, 3)>>
                       ELSE @]
       \/ Refused /\ UNCHANGED bus
    /\ VIN' = <<Piece(Head(obd_msgq))>>
    /\ pc' = "vin2"
    /\ UNCHANGED <<carVars, lteVars, canStarted, IMEI, pidVars>>

\* A wait on obd_msgq can time out when the queue is empty; a car whose answers are
\* never late has nothing in flight by then.
CanTimeOut == obd_msgq = <<>> /\ ("late" \in faults \/ \A f \in Formats : bus[f] = <<>>)

VINTimeout ==
    /\ pc \in {"waitStandard", "waitExtended"}
    /\ CanTimeOut
    /\ IF pc = "waitStandard" THEN pc' = "vinExtended" /\ UNCHANGED VIN ELSE VinNotFound
    /\ UNCHANGED <<carVars, lteVars, canStarted, IMEI, response_frame, pidVars, canVars>>

\* Mutant: the remaining pieces are read without waiting for them.
NextVINFrameNoWait ==
    /\ pc \in {"vin2", "vin3"}
    /\ \/ /\ obd_msgq # <<>>
          /\ response_frame' = Head(obd_msgq)
          /\ obd_msgq' = Tail(obd_msgq)
       \/ obd_msgq = <<>> /\ UNCHANGED <<response_frame, obd_msgq>>
    /\ VIN' = Append(VIN, Piece(response_frame'))
    /\ pc' = IF pc = "vin2" THEN "vin3" ELSE "imei"
    /\ UNCHANGED <<carVars, lteVars, canStarted, IMEI, pidVars, bus>>

\* The two remaining pieces.  The result of k_msgq_get is not looked at: after a
\* timeout the piece of the previous frame is copied once more.
NextVINFrame ==
    /\ pc \in {"vin2", "vin3"}
    /\ \/ /\ obd_msgq # <<>>
          /\ response_frame' = Head(obd_msgq)
          /\ obd_msgq' = Tail(obd_msgq)
       \/ CanTimeOut /\ UNCHANGED <<response_frame, obd_msgq>>
    /\ VIN' = Append(VIN, Piece(response_frame'))
    /\ pc' = IF pc = "vin2" THEN "vin3" ELSE "imei"
    /\ UNCHANGED <<carVars, lteVars, canStarted, IMEI, pidVars, bus>>

ReadIMEI ==
    /\ pc = "imei"
    /\ IMEI' \in {"underscore", "imei"}
    /\ pc' = "resolve"
    /\ UNCHANGED <<carVars, lteVars, canStarted, VIN, response_frame, pidVars, canVars>>

-----------------------------------------------------------------------------
(* server_resolve, server_connect and gnss_init_and_start: each failure ends main. *)

Step(here, next) ==
    /\ pc = here
    /\ pc' \in {next, "halted"}
    /\ UNCHANGED <<carVars, lteVars, canStarted, idVars, pidVars, canVars>>

ServerResolve == Step("resolve", "connect")
ServerConnect == Step("connect", "gnss")

\* After the GNSS start PID_supported[0] is set, and discovery begins.
GnssInitAndStart ==
    /\ pc = "gnss"
    /\ \/ /\ pc' = "STANDARD"
          /\ PID_supported' = [PID_supported EXCEPT ![0] = BOTH]
       \/ pc' = "halted" /\ UNCHANGED PID_supported
    /\ UNCHANGED <<carVars, lteVars, canStarted, idVars, checkPID, canVars>>

-----------------------------------------------------------------------------
(* PID discovery. *)

\* The control unit of a format answers the request for a PID it supports (and the
\* request for 0 if it is there at all) with the next Block PIDs it supports.
Bitmap(f, base) == [kind |-> "pids", ide |-> f, part |-> 0,
                    bits |-> {o \in 1..Block : base + o \in car[f]}]
Answers(f, base) == IF base = 0 THEN car[f] # {} ELSE base \in car[f]

\* can_send for one format; its result is overwritten and never looked at.
Request(f, next) ==
    /\ pc = f
    /\ \/ /\ f \in PID_supported[checkPID]
          /\ Accepted
          /\ Len(bus[f]) < MaxInFlight
          /\ bus' = [bus EXCEPT ![f] = IF Answers(f, checkPID)
                                       THEN Append(@, Bitmap(f, checkPID)) ELSE @]
       \/ f \notin PID_supported[checkPID] /\ UNCHANGED bus
       \/ Refused /\ UNCHANGED bus
    /\ pc' = next
    /\ UNCHANGED <<carVars, lteVars, canStarted, idVars, pidVars, obd_msgq>>

RequestStandard == Request("STANDARD", "EXTENDED")
RequestExtended == Request("EXTENDED", "drain")

\* Mutant: the frame format of the answer is not looked at.
DrainAsStandard ==
    /\ pc = "drain"
    /\ obd_msgq # <<>>
    /\ response_frame' = Head(obd_msgq)
    /\ obd_msgq' = Tail(obd_msgq)
    /\ PID_supported' = [p \in 0..Wrap |->
              IF p - checkPID \in Head(obd_msgq).bits THEN PID_supported[p] \union {"STANDARD"}
              ELSE PID_supported[p]]
    /\ UNCHANGED <<pc, carVars, lteVars, canStarted, VIN, IMEI, checkPID, bus>>

\* Whatever arrives is read as a bitmap for the block being checked: neither the
\* service nor the PID of the answer is compared with the request.  The bytes of a
\* left-over VIN frame can be any bitmap.
Drain ==
    /\ pc = "drain"
    /\ obd_msgq # <<>>
    /\ response_frame' = Head(obd_msgq)
    /\ obd_msgq' = Tail(obd_msgq)
    /\ \E bits \in IF Head(obd_msgq).kind = "vin" THEN SUBSET (1..Block)
                   ELSE {Head(obd_msgq).bits} :
          PID_supported' = [p \in 0..Wrap |->
              IF p - checkPID \in bits THEN PID_supported[p] \union {Head(obd_msgq).ide}
              ELSE PID_supported[p]]
    /\ UNCHANGED <<pc, carVars, lteVars, canStarted, VIN, IMEI, checkPID, bus>>

\* Mutant: checkPID does not wrap.
DrainTimeoutInt ==
    /\ pc = "drain"
    /\ CanTimeOut
    /\ checkPID' = checkPID + Block
    /\ pc' = IF checkPID' < Wrap - 1 /\ PID_supported[checkPID'] # {}
             THEN "STANDARD" ELSE "run"
    /\ UNCHANGED <<carVars, lteVars, canStarted, idVars, PID_supported, canVars>>

\* Mutant: every block is asked for, supported or not.
DrainTimeoutAlways ==
    /\ pc = "drain"
    /\ CanTimeOut
    /\ checkPID' = (checkPID + Block) % Wrap
    /\ pc' = IF checkPID' < Wrap - 1 THEN "STANDARD" ELSE "run"
    /\ UNCHANGED <<carVars, lteVars, canStarted, idVars, PID_supported, canVars>>

\* 100 ms without a frame: the next block.  checkPID is a uint8_t and wraps.
DrainTimeout ==
    /\ pc = "drain"
    /\ CanTimeOut
    /\ checkPID' = (checkPID + Block) % Wrap
    /\ pc' = IF checkPID' < Wrap - 1 /\ PID_supported[checkPID'] # {}
             THEN "STANDARD" ELSE "run"
    /\ UNCHANGED <<carVars, lteVars, canStarted, idVars, PID_supported, canVars>>

-----------------------------------------------------------------------------
(* The CAN driver: a full queue drops the frame. *)

Deliver(f) ==
    /\ bus[f] # <<>>
    /\ bus' = [bus EXCEPT ![f] = Tail(@)]
    /\ obd_msgq' = IF Len(obd_msgq) < MsgqSize THEN Append(obd_msgq, Head(bus[f]))
                   ELSE obd_msgq
    /\ UNCHANGED <<pc, carVars, lteVars, canStarted, idVars, pidVars>>

-----------------------------------------------------------------------------
GetID ==
    \/ RequestVINStandard \/ RequestVINExtended
    \/ FirstVINFrame("STANDARD", "waitStandard") \/ FirstVINFrame("EXTENDED", "waitExtended")
    \/ VINTimeout \/ NextVINFrame \/ ReadIMEI

Discover == RequestStandard \/ RequestExtended \/ Drain \/ DrainTimeout

Main ==
    \/ ModemConfigure \/ TakeLte \/ SetupGPIO \/ GetID
    \/ ServerResolve \/ ServerConnect \/ GnssInitAndStart \/ Discover

Next == Main \/ LteRegistered \/ \E f \in Formats : Deliver(f)

Spec == Init /\ [][Next]_vars

\* main is scheduled again, its waits time out, and frames on the bus arrive.
\* Nothing is assumed of the network.
FairSpec == Spec /\ WF_vars(Main) /\ \A f \in Formats : WF_vars(Deliver(f))

-----------------------------------------------------------------------------
(* What boot promises. *)

Booting == {"modem", "waitLte", "gpio", "vinStandard", "waitStandard", "vinExtended",
            "waitExtended", "vin2", "vin3", "imei"}

\* Every variable in its range, the uint8_t checkPID and the queue capacity included
\* (main.c 308-345, structures.h 13-18, 85).
TypeOK ==
    /\ pc \in Booting \union {"resolve", "connect", "gnss", "STANDARD", "EXTENDED",
                              "drain", "run", "halted"}
    /\ [car |-> car, faults |-> faults] \in Buses
    /\ lte_connected \in 0..1
    /\ attaching \in BOOLEAN /\ canStarted \in BOOLEAN
    /\ VIN \in Seq((Formats \union {"underscore"}) \X (0..3)) /\ Len(VIN) <= 3
    /\ IMEI \in {"unread", "underscore", "imei"}
    /\ PID_supported \in [0..Wrap -> SUBSET Formats]
    /\ checkPID \in {b \in 0..(Wrap - 1) : b % Block = 0}
    /\ Len(obd_msgq) <= MsgqSize

\* The VIN the tracker identifies itself with is, on a bus without faults, the three
\* pieces of one control unit in order, the standard one before the extended one, and
\* "_" exactly when neither can be asked (functions.h 111-155).
VINWhole ==
    faults = {} /\ pc \notin Booting \union {"halted"} =>
        VIN = IF canStarted /\ vinOn # {}
              THEN LET f == IF "STANDARD" \in vinOn THEN "STANDARD" ELSE "EXTENDED"
                   IN  << <<f, 1>>, <<f, 2>>, <<f, 3>> >>
              ELSE NoVIN

\* The blocks of a car that can be asked about: 0, and each block announced by the
\* bitmap of the block before it.
Reaches(f, base) ==
    car[f] # {} /\ \A b \in 1..base : b % Block = 0 => b \in car[f]

\* When the main loop is entered on a bus without faults, PID_supported holds exactly
\* the formats on which the car supports each PID of a block that can be asked about:
\* answers were attributed to the right block and format (main.c 314-345).
DiscoveryExact ==
    faults = {} /\ pc = "run" =>
        \A p \in 1..Wrap :
            PID_supported[p] =
                {f \in Formats : /\ canStarted
                                 /\ p \in car[f]
                                 /\ Reaches(f, ((p - 1) \div Block) * Block)}

ReachesLastBlock == canStarted /\ \E f \in Formats : Reaches(f, Wrap - Block)

\* On a bus without faults, discovery ends unless the car supports the PID that
\* announces the last block, and then it never ends: checkPID wraps to 0, whose entry
\* is BOTH (main.c 309, 314).
DiscoveryOutcome ==
    /\ (faults = {} /\ pc = "STANDARD" /\ ~ReachesLastBlock) ~> pc = "run"
    /\ [](faults = {} /\ ReachesLastBlock => pc # "run")

\* With late or refused frames too: late answers may be attributed to a later block; still,
\* discovery can only fail to end once the last block has been marked supported
\* (main.c 314, 324, 341).
DiscoveryEndsOrWraps ==
    (pc = "STANDARD") ~> (pc = "run" \/ PID_supported[Wrap - Block] # {})

\* "attempts name resolution to api.datadrivenucsb.com, on failure fallback to hardcoded IP"
\* (Firmware/tracker/README.md 5): resolution never ends the program.
ResolveFallsBack == [][pc = "resolve" => pc' # "halted"]_vars
=============================================================================
