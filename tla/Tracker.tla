------------------------------- MODULE Tracker -------------------------------
(***************************************************************************)
(* The tracker's steady state (Firmware/tracker/src/main.c, the endless    *)
(* loop of main() and the GNSS event handler): a thread that alternates    *)
(* between sweeping the car's OBD-II parameters into vehicle_data and, when *)
(* the modem has announced a fix, sending one UDP datagram made of         *)
(* gnss_data and vehicle_data.                                             *)
(*                                                                         *)
(* Three parties run concurrently:                                         *)
(*  - the GNSS modem, whose events run gnss_event_handler in interrupt     *)
(*    context: the handler is atomic with respect to main, never the other *)
(*    way round;                                                           *)
(*  - the CAN side: control units answer requests, the driver puts what    *)
(*    the receive filters accept into obd_msgq and drops what does not fit;*)
(*  - main, one action per step between two points where the others can be *)
(*    observed.                                                            *)
(***************************************************************************)
EXTENDS Integers, Sequences

CONSTANTS
    Regions,       \* the parts of gnss_data a memcpy can be interrupted between
    LastPID,       \* supported PIDs are renumbered 1..LastPID
    PID_supported, \* [1..LastPID -> SUBSET Formats], what discovery left
    Answer,        \* [1..LastPID -> Nat], bytes of the car's answer to a PID
    MsgqSize,      \* capacity of obd_msgq (5 in structures.h)
    GnssLen,       \* bytes of a complete gnss_data
    Cap,           \* bytes of udp_data and of vehicle_data
    Faults,        \* which of "late", "refused", "unread" may happen
    NoiseFrames,   \* other CAN traffic the accept-all filter lets in
    MaxFix,        \* bound: fixes the modem obtains
    MaxNoise,      \* bound: frames of other traffic
    MaxInFlight    \* bound: answers of one format not yet delivered

Formats == {"STANDARD", "EXTENDED"}
ImuLen == 24
PIDs == 1..LastPID

Frame == [kind : {"single", "first", "consecutive"},
          pid : Nat, ide : Formats, n : Nat]

ASSUME TrackerAssumption ==
    /\ Regions # {}
    /\ LastPID \in Nat \ {0}
    /\ PID_supported \in [PIDs -> SUBSET Formats]
    /\ Answer \in [PIDs -> Nat \ {0}]
    /\ MsgqSize \in Nat \ {0}
    /\ GnssLen \in Nat \ {0}
    /\ Cap \in Nat
    /\ GnssLen <= Cap
    /\ Faults \subseteq {"late", "refused", "unread"}
    /\ NoiseFrames \subseteq Frame
    /\ MaxFix \in Nat
    /\ MaxNoise \in Nat
    /\ MaxInFlight \in Nat

VARIABLES
    pc,               \* where main is
    gnss_ready,       \* semaphore, 0 or 1
    gnss_data,        \* number of the fix gnss_data holds, 0 before the first
    gnss_size,        \* 0 before the first fix
    uncopied,         \* regions of gnss_data the memcpy has still to copy
    udp_data,         \* number of the fix each region of udp_data comes from
    current_msg_size,
    vehicle_data,     \* the chunks appended by the last sweep, in order
    vehicle_size,
    currentPID,
    MFL,              \* bytes of a multi-frame answer still to come
    obd_msgq,         \* frames the driver has queued
    bus,              \* per format, frames sent and not yet received
    noise,            \* frames of other traffic so far
    modem,            \* the modem's phase
    fixes,            \* fixes the modem has obtained so far
    announced,        \* fix held by gnss_data when the modem last went to sleep
    sent,             \* per region, the fix carried by the last datagram
    asked             \* requests of this sweep that reached the bus, in order

gnssVars == <<gnss_data, gnss_size>>
modemVars == <<modem, fixes, announced>>
udpVars == <<uncopied, udp_data, current_msg_size>>
sweepVars == <<vehicle_data, vehicle_size, currentPID, MFL, asked>>
canVars == <<obd_msgq, bus, noise>>
vars == <<pc, gnss_ready, gnssVars, modemVars, udpVars, sweepVars, canVars, sent>>

Init ==
    /\ pc = "loop"
    /\ gnss_ready = 0
    /\ gnss_data = 0
    /\ gnss_size = 0
    /\ uncopied = {}
    /\ udp_data = [r \in Regions |-> 0]
    /\ current_msg_size = 0
    /\ vehicle_data = <<>>
    /\ vehicle_size = 0
    /\ currentPID = 1
    /\ MFL = 0
    /\ obd_msgq = <<>>
    /\ bus = [f \in Formats |-> <<>>]
    /\ noise = 0
    /\ modem = "searching"
    /\ fixes = 0
    /\ announced = 0
    /\ sent = [r \in Regions |-> 0]
    /\ asked = <<>>

-----------------------------------------------------------------------------
(* gnss_event_handler, in interrupt context. *)

\* Mutant: the handler clears gnss_data before it knows that it can read the fix.
PvtFixClears ==
    /\ modem = "searching"
    /\ fixes < MaxFix
    /\ modem' = "fixed"
    /\ fixes' = fixes + 1
    /\ gnss_size' = GnssLen
    /\ gnss_data' = fixes + 1 \/ ("unread" \in Faults /\ gnss_data' = 0)
    /\ UNCHANGED <<pc, gnss_ready, announced, udpVars, sweepVars, canVars, sent>>

\* NRF_MODEM_GNSS_EVT_PVT with a valid fix: print_fix_data rewrites gnss_data
\* and gnss_size.  A failing nrf_modem_gnss_read returns before that.
PvtFix ==
    /\ modem = "searching"
    /\ fixes < MaxFix
    /\ modem' = "fixed"
    /\ fixes' = fixes + 1
    /\ \/ gnss_data' = fixes + 1 /\ gnss_size' = GnssLen
       \/ "unread" \in Faults /\ UNCHANGED gnssVars
    /\ UNCHANGED <<pc, gnss_ready, announced, udpVars, sweepVars, canVars, sent>>

\* Mutant: a semaphore without a limit.
SleepAfterFixCounts ==
    /\ modem = "fixed"
    /\ modem' = "asleep"
    /\ gnss_ready' = gnss_ready + 1
    /\ announced' = gnss_data
    /\ UNCHANGED <<pc, fixes, gnssVars, udpVars, sweepVars, canVars, sent>>

\* Mutant: only the first fix is announced.
SleepAfterFixOnce ==
    /\ modem = "fixed"
    /\ modem' = "asleep"
    /\ gnss_ready' = IF announced = 0 THEN 1 ELSE gnss_ready
    /\ announced' = gnss_data
    /\ UNCHANGED <<pc, fixes, gnssVars, udpVars, sweepVars, canVars, sent>>

\* NRF_MODEM_GNSS_EVT_SLEEP_AFTER_FIX: k_sem_give saturates at the limit of 1.
SleepAfterFix ==
    /\ modem = "fixed"
    /\ modem' = "asleep"
    /\ gnss_ready' = 1
    /\ announced' = gnss_data
    /\ UNCHANGED <<pc, fixes, gnssVars, udpVars, sweepVars, canVars, sent>>

\* NRF_MODEM_GNSS_EVT_PERIODIC_WAKEUP: only a LED, and the search resumes.
PeriodicWakeup ==
    /\ modem = "asleep"
    /\ modem' = "searching"
    /\ UNCHANGED <<pc, gnss_ready, fixes, announced, gnssVars, udpVars, sweepVars,
                   canVars, sent>>

-----------------------------------------------------------------------------
(* main: a fix has been announced, build and send the datagram. *)

\* Mutant: gnss_data is copied into the datagram only once.
TakeReadyCopiesOnce ==
    /\ pc = "loop"
    /\ gnss_ready = 1
    /\ gnss_ready' = 0
    /\ uncopied' = {r \in Regions : gnss_size # 0 /\ udp_data[r] = 0}
    /\ pc' = "copy"
    /\ UNCHANGED <<gnssVars, modemVars, udp_data, current_msg_size, sweepVars,
                   canVars, sent>>

\* The size argument of the memcpy is read now: nothing is copied while
\* gnss_size is still 0.
TakeReady ==
    /\ pc = "loop"
    /\ gnss_ready = 1
    /\ gnss_ready' = 0
    /\ uncopied' = IF gnss_size = 0 THEN {} ELSE Regions
    /\ pc' = "copy"
    /\ UNCHANGED <<gnssVars, modemVars, udp_data, current_msg_size, sweepVars,
                   canVars, sent>>

\* memcpy(udp_data, gnss_data, gnss_size), interruptible between regions.
CopyRegion ==
    /\ pc = "copy"
    /\ \E r \in uncopied :
          /\ udp_data' = [udp_data EXCEPT ![r] = gnss_data]
          /\ uncopied' = uncopied \ {r}
    /\ UNCHANGED <<pc, gnss_ready, gnssVars, modemVars, current_msg_size, sweepVars,
                   canVars, sent>>

\* current_msg_size = gnss_size, then vehicle_data is appended behind it.
\* Nobody else writes vehicle_data, so that copy is one step.
AppendVehicle ==
    /\ pc = "copy"
    /\ uncopied = {}
    /\ current_msg_size' = gnss_size + vehicle_size
    /\ pc' = "send"
    /\ UNCHANGED <<gnss_ready, gnssVars, modemVars, uncopied, udp_data, sweepVars,
                   canVars, sent>>

\* Mutant: the announcement is cleared after the send instead of before the copy.
SendOkResets ==
    /\ pc = "send"
    /\ sent' = udp_data
    /\ gnss_ready' = 0
    /\ pc' = "loop"
    /\ UNCHANGED <<gnssVars, modemVars, udpVars, sweepVars, canVars>>

SendOk ==
    /\ pc = "send"
    /\ sent' = udp_data
    /\ pc' = "loop"
    /\ UNCHANGED <<gnss_ready, gnssVars, modemVars, udpVars, sweepVars, canVars>>

\* err < 0: main returns, for good.
SendFails ==
    /\ pc = "send"
    /\ pc' = "halted"
    /\ UNCHANGED <<gnss_ready, gnssVars, modemVars, udpVars, sweepVars, canVars, sent>>

-----------------------------------------------------------------------------
(* main: no fix announced, sweep the IMU and the OBD-II parameters. *)

SweepStart ==
    /\ pc = "loop"
    /\ gnss_ready = 0
    /\ vehicle_data' = <<>>
    /\ vehicle_size' = ImuLen
    /\ currentPID' = 1
    /\ asked' = <<>>
    /\ pc' = "STANDARD"
    /\ UNCHANGED <<gnss_ready, gnssVars, modemVars, udpVars, MFL, canVars, sent>>

\* What the car puts on the bus for a request: one single frame, or the first
\* frame of a longer answer (the rest waits for the flow-control frame).
AnswerFrame(p, f) ==
    [kind |-> IF Answer[p] <= 7 THEN "single" ELSE "first",
     pid |-> p, ide |-> f, n |-> Answer[p]]

\* can_send on one format; its error code is ignored.  The car answers an
\* accepted request.
Send(f) ==
    \/ /\ Len(bus[f]) < MaxInFlight
       /\ bus' = [bus EXCEPT ![f] = Append(@, AnswerFrame(currentPID, f))]
       /\ asked' = Append(asked, <<currentPID, f>>)
    \/ /\ "refused" \in Faults \/ Len(bus[f]) >= MaxInFlight
       /\ UNCHANGED <<bus, asked>>

SkipFormat(f) ==
    /\ f \notin PID_supported[currentPID]
    /\ UNCHANGED <<bus, asked>>

RequestStandard ==
    /\ pc = "STANDARD"
    /\ PID_supported[currentPID] # {}
    /\ \/ "STANDARD" \in PID_supported[currentPID] /\ Send("STANDARD")
       \/ SkipFormat("STANDARD")
    /\ pc' = "EXTENDED"
    /\ UNCHANGED <<gnss_ready, gnssVars, modemVars, udpVars, vehicle_data, vehicle_size,
                   currentPID, MFL, obd_msgq, noise, sent>>

RequestExtended ==
    /\ pc = "EXTENDED"
    /\ \/ "EXTENDED" \in PID_supported[currentPID] /\ Send("EXTENDED")
       \/ SkipFormat("EXTENDED")
    /\ MFL' = 0
    /\ pc' = "drain"
    /\ UNCHANGED <<gnss_ready, gnssVars, modemVars, udpVars, vehicle_data, vehicle_size,
                   currentPID, obd_msgq, noise, sent>>

Chunk(frame, bytes) == [kind |-> frame.kind, pid |-> frame.pid, ide |-> frame.ide,
                        bytes |-> bytes]

\* Bytes of an answer of length L that follow its first frame come seven at a time.
Consecutives(frame) ==
    [i \in 1..(frame.n \div 7) |->
        [kind |-> "consecutive", pid |-> frame.pid, ide |-> frame.ide, n |-> 7]]

\* Mutant: the six bytes of the first frame are not subtracted.
ReceiveFirstForgets ==
    /\ pc = "drain"
    /\ obd_msgq # <<>>
    /\ Head(obd_msgq).kind = "first"
    /\ LET frame == Head(obd_msgq) IN
          /\ \/ bus' = [bus EXCEPT ![frame.ide] = @ \o Consecutives(frame)]
             \/ "refused" \in Faults /\ UNCHANGED bus
          /\ vehicle_data' = Append(vehicle_data, Chunk(frame, 6))
          /\ MFL' = frame.n % 256
    /\ vehicle_size' = vehicle_size + 6
    /\ current_msg_size' = current_msg_size + 1
    /\ obd_msgq' = Tail(obd_msgq)
    /\ UNCHANGED <<pc, gnss_ready, gnssVars, modemVars, uncopied, udp_data, currentPID,
                   noise, sent, asked>>

\* First frame: flow control, the length byte goes to udp_data[current_msg_size]
\* (not to vehicle_data), six bytes of payload are kept.  The length is read from
\* one byte: longer answers are taken modulo 256, and MFL may become negative.
ReceiveFirst ==
    /\ pc = "drain"
    /\ obd_msgq # <<>>
    /\ Head(obd_msgq).kind = "first"
    /\ LET frame == Head(obd_msgq) IN
          /\ \/ bus' = [bus EXCEPT ![frame.ide] = @ \o Consecutives(frame)]
             \/ "refused" \in Faults /\ UNCHANGED bus
          /\ vehicle_data' = Append(vehicle_data, Chunk(frame, 6))
          /\ MFL' = (frame.n % 256) - 6
    /\ vehicle_size' = vehicle_size + 6
    /\ current_msg_size' = current_msg_size + 1
    /\ obd_msgq' = Tail(obd_msgq)
    /\ UNCHANGED <<pc, gnss_ready, gnssVars, modemVars, uncopied, udp_data, currentPID,
                   noise, sent, asked>>

\* Consecutive frame: Z_MIN(MFL, 7) bytes.  A negative count is a memcpy over
\* the whole address space, which the processor stops with a fault.
ReceiveConsecutive ==
    /\ pc = "drain"
    /\ obd_msgq # <<>>
    /\ Head(obd_msgq).kind = "consecutive"
    /\ LET bytesToGet == IF MFL < 7 THEN MFL ELSE 7 IN
          IF bytesToGet < 0
          THEN pc' = "halted" /\ UNCHANGED <<vehicle_data, vehicle_size, MFL>>
          ELSE /\ vehicle_data' = Append(vehicle_data, Chunk(Head(obd_msgq), bytesToGet))
               /\ vehicle_size' = vehicle_size + bytesToGet
               /\ MFL' = MFL - bytesToGet
               /\ UNCHANGED pc
    /\ obd_msgq' = Tail(obd_msgq)
    /\ UNCHANGED <<gnss_ready, gnssVars, modemVars, udpVars, currentPID, asked, bus,
                   noise, sent>>

\* Mutant: one answer per PID is read (an if where the code has a while).
ReceiveSingleAdvances ==
    /\ pc = "drain"
    /\ obd_msgq # <<>>
    /\ Head(obd_msgq).kind = "single"
    /\ vehicle_data' = Append(vehicle_data, Chunk(Head(obd_msgq), Head(obd_msgq).n + 1))
    /\ vehicle_size' = vehicle_size + Head(obd_msgq).n + 1
    /\ obd_msgq' = Tail(obd_msgq)
    /\ currentPID' = currentPID + 1
    /\ pc' = IF currentPID = LastPID THEN "loop" ELSE "STANDARD"
    /\ UNCHANGED <<gnss_ready, gnssVars, modemVars, udpVars, MFL, asked, bus, noise, sent>>

ReceiveSingle ==
    /\ pc = "drain"
    /\ obd_msgq # <<>>
    /\ Head(obd_msgq).kind = "single"
    /\ LET frame == Head(obd_msgq) IN
          /\ vehicle_data' = Append(vehicle_data, Chunk(frame, frame.n + 1))
          /\ vehicle_size' = vehicle_size + frame.n + 1
    /\ obd_msgq' = Tail(obd_msgq)
    /\ UNCHANGED <<pc, gnss_ready, gnssVars, modemVars, udpVars, currentPID, MFL, asked,
                   bus, noise, sent>>

Advance ==
    /\ currentPID' = currentPID + 1
    /\ pc' = IF currentPID = LastPID THEN "loop" ELSE "STANDARD"
    /\ UNCHANGED <<gnss_ready, gnssVars, modemVars, udpVars, vehicle_data, vehicle_size,
                   MFL, asked, canVars, sent>>

\* An unsupported PID is neither requested nor waited for.
SkipPID ==
    /\ pc = "STANDARD"
    /\ PID_supported[currentPID] = {}
    /\ Advance

\* k_msgq_get times out after 500 ms of an empty queue.  A car whose answers are
\* never late has nothing in flight by then.
Timeout ==
    /\ pc = "drain"
    /\ obd_msgq = <<>>
    /\ "late" \in Faults \/ \A f \in Formats : bus[f] = <<>>
    /\ Advance

-----------------------------------------------------------------------------
(* The CAN driver and the car. *)

\* The driver puts a received frame into obd_msgq, or drops it when full.
Deliver(f) ==
    /\ bus[f] # <<>>
    /\ bus' = [bus EXCEPT ![f] = Tail(@)]
    /\ obd_msgq' = IF Len(obd_msgq) < MsgqSize
                   THEN Append(obd_msgq, Head(bus[f]))
                   ELSE obd_msgq
    /\ UNCHANGED <<pc, gnss_ready, gnssVars, modemVars, udpVars, sweepVars, noise, sent>>

\* The standard filter has mask 0: any other traffic of the car gets in too.
OtherTraffic ==
    /\ noise < MaxNoise
    /\ noise' = noise + 1
    /\ \E frame \in NoiseFrames :
          obd_msgq' = IF Len(obd_msgq) < MsgqSize THEN Append(obd_msgq, frame)
                      ELSE obd_msgq
    /\ UNCHANGED <<pc, gnss_ready, gnssVars, modemVars, udpVars, sweepVars, bus, sent>>

-----------------------------------------------------------------------------
GnssEventHandler == PvtFix \/ SleepAfterFix \/ PeriodicWakeup

\* Nothing has been written behind vehicle_data[512] or udp_data[512]: neither by the
\* entries of a report, nor by a datagram, nor by the length bytes of first frames,
\* which go behind the last datagram (main.c 35-42, 358-362, 439-462).
InBounds == vehicle_size <= Cap /\ current_msg_size <= Cap

\* A write behind a buffer has no defined effect: main is followed no further.
Overrun ==
    /\ ~InBounds
    /\ pc # "halted"
    /\ pc' = "halted"
    /\ UNCHANGED <<gnss_ready, gnssVars, modemVars, udpVars, sweepVars, canVars, sent>>

MainStep ==
    \/ TakeReady \/ CopyRegion \/ AppendVehicle \/ SendOk \/ SendFails
    \/ SweepStart \/ RequestStandard \/ RequestExtended
    \/ ReceiveFirst \/ ReceiveConsecutive \/ ReceiveSingle
    \/ SkipPID \/ Timeout

Main == (InBounds /\ MainStep) \/ Overrun

Can == (\E f \in Formats : Deliver(f)) \/ OtherTraffic

Next == GnssEventHandler \/ Main \/ Can

Spec == Init /\ [][Next]_vars

\* The scheduler always runs main again, timeouts expire, and frames on the bus
\* arrive.  Nothing is assumed of the modem.
FairSpec ==
    /\ Spec
    /\ WF_vars(Main)
    /\ \A f \in Formats : WF_vars(Deliver(f))

-----------------------------------------------------------------------------
(* What the tracker promises. *)

Copying == pc \in {"copy", "send"}
Sweeping == pc \in {"STANDARD", "EXTENDED", "drain"}

ChunkSet == [kind : {"single", "first", "consecutive"}, pid : Nat, ide : Formats,
             bytes : Nat]

UplinkType ==
    /\ pc \in {"loop", "copy", "send", "STANDARD", "EXTENDED", "drain", "halted"}
    /\ gnss_ready \in 0..1
    /\ gnss_data \in 0..fixes
    /\ gnss_size \in {0, GnssLen}
    /\ uncopied \subseteq Regions
    /\ udp_data \in [Regions -> 0..gnss_data]
    /\ current_msg_size \in Nat
    /\ modem \in {"searching", "fixed", "asleep"}
    /\ fixes \in 0..MaxFix
    /\ announced \in 0..gnss_data
    /\ sent \in [Regions -> 0..gnss_data]

SweepType ==
    /\ vehicle_data \in Seq(ChunkSet)
    /\ vehicle_size \in Nat
    /\ currentPID \in 1..(LastPID + 1)
    /\ Sweeping => currentPID \in PIDs
    /\ MFL \in Int
    /\ asked \in Seq(PIDs \X Formats)

CanType ==
    /\ obd_msgq \in Seq(Frame)
    /\ Len(obd_msgq) <= MsgqSize
    /\ bus \in [Formats -> Seq(Frame)]
    /\ noise \in 0..MaxNoise

\* The variables stay in their ranges: the semaphore within its limit, the queue
\* within its capacity, no datagram from a fix the modem has not obtained, and a
\* request only for a PID of the table (main.c 20-42, structures.h 13-27, 85).
TypeOK == UplinkType /\ SweepType /\ CanType

\* gnss_ready has a limit of 1, so announcements made during a sweep coalesce
\* (main.c 32, 244, 357).  None is lost: when no announcement is pending and
\* none is being served, the last datagram is at least as new, in every region,
\* as the fix announced last.
NoWakeLost ==
    gnss_ready = 0 /\ ~Copying /\ pc # "halted"
        => \A r \in Regions : sent[r] >= announced

\* The handler may rewrite gnss_data in the middle of main's memcpy (main.c 183-199
\* against 358): the datagram is then a mix, but no region of it is older than
\* the announcement it answers.
FreshDatagram ==
    pc = "send" /\ gnss_ready = 0 => \A r \in Regions : udp_data[r] >= announced

\* Successive datagrams never go back in time, region by region (main.c 356-371).
NeverBackwards == [][\A r \in Regions : sent'[r] >= sent[r]]_vars

\* The tracker implements the register of Uplink: whatever is swept, interrupted,
\* coalesced or lost on the way, a datagram mixes no fixes older than those of the
\* last datagram or than the announcement it answers, and none that was not
\* measured (main.c 183-199, 242-244, 356-371).
Register == INSTANCE Uplink WITH
    measured <- fixes, owed <- announced, pending <- gnss_ready = 1,
    serving <- Copying, stopped <- pc = "halted", shown <- sent
ImplementsUplink == Register!Spec

\* Every announced fix is eventually sent, by itself or by a newer one, unless
\* main has stopped (main.c 242-244, 356-371).
WakeServed ==
    \A k \in 1..MaxFix :
        announced = k ~> (pc = "halted" \/ \A r \in Regions : sent[r] >= k)

\* The requests of this sweep, the entries of its report, and the request an entry
\* answers.
Requests == {asked[i] : i \in DOMAIN asked}
Entries == {i \in DOMAIN vehicle_data : vehicle_data[i].kind # "consecutive"}
Request(i) == <<vehicle_data[i].pid, vehicle_data[i].ide>>

\* Between sweeps vehicle_data holds one answer to each request of the last sweep, in
\* request order up to the two formats of a PID, and none besides: no answer is
\* lost, duplicated or left over from another sweep (main.c 374, 407-467).
SweepComplete ==
    ~Sweeping /\ pc # "halted" =>
        /\ {Request(i) : i \in Entries} = Requests
        /\ \A i, j \in Entries :
              i < j => /\ vehicle_data[i].pid <= vehicle_data[j].pid
                       /\ Request(i) # Request(j)

\* A long answer is a first chunk of six bytes and pieces of up to seven.
Pieces(p) == Answer[p] \div 7
Piece(p, f, k) ==
    [kind |-> "consecutive", pid |-> p, ide |-> f,
     bytes |-> LET left == Answer[p] - 6 - 7 * (k - 1) IN IF left < 7 THEN left ELSE 7]

\* Entry i of the report is a first chunk with its first n pieces behind it, and
\* nothing between them.
Stands(i, n) ==
    /\ vehicle_data[i].kind = "first" /\ vehicle_data[i].bytes = 6
    /\ \A k \in 1..n : /\ i + k \in DOMAIN vehicle_data
                       /\ vehicle_data[i + k] = Piece(vehicle_data[i].pid, vehicle_data[i].ide, k)

\* Entry i belongs to a long answer, whose PID was asked on one format only.
Alone(i) ==
    /\ vehicle_data[i].pid \in PIDs /\ Answer[vehicle_data[i].pid] > 7
    /\ \A f \in Formats \ {vehicle_data[i].ide} : <<vehicle_data[i].pid, f>> \notin Requests

\* Between sweeps every long answer of a PID that was asked on one format stands in
\* vehicle_data with all its bytes, in order and in one piece, even if a PID asked on
\* both formats gives two long answers, which share MFL and lose bytes of one another
\* (main.c 411-464).
MultiFrameWhole ==
    ~Sweeping /\ pc # "halted" =>
        \A i \in Entries : Alone(i) => Stands(i, Pieces(vehicle_data[i].pid))
=============================================================================
