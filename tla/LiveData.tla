------------------------------ MODULE LiveData ------------------------------
(***************************************************************************)
(* The bench program car_live_data: VIN and PID discovery as in the        *)
(* tracker, then a sweep for each press of the button into one packet.     *)
(* Unlike the prototype it takes every frame that comes until the bus is   *)
(* quiet. A packet is a sequence of entries: what the length byte          *)
(* announces, and the pieces of answers copied behind it.                  *)
(***************************************************************************)
EXTENDS CarBus

CONSTANT LiveQueue   \* obd_msgq: 10

ASSUME LiveDataAssumption == LiveQueue \in Nat

VARIABLES
  livePc,      \* where main is
  canUp,       \* the controller is started, filtered and not bus-off
  liveVin,     \* pieces copied to VIN
  livePid,     \* checkPID, later currentPID
  livePids,    \* PID_supported: for each PID the formats it is marked for
  mfl,         \* MFL: pieces of a long answer still to come
  packet,      \* UDP_Packet behind its prefix
  button       \* sw0 is pressed

liveVars == <<livePc, canUp, liveVin, livePid, livePids, mfl, packet, button>>

LiveGo(from, to) == livePc = from /\ livePc' \in to

Piece(frame) == <<frame.fmt, frame.pid, frame.part>>

\* Requests only reach the car while the controller runs; otherwise can_send
\* returns its error, which nobody looks at.
LiveAsk(fmts, pid) ==
  \/ canUp /\ Ask(fmts, pid)
  \/ ~canUp /\ UNCHANGED carVars

\* setup_gpios returns at the first LED, button or CAN call that fails, and main
\* goes on in any case.
SetupGpios ==
  /\ LiveGo("setup", {"vin"})
  /\ canUp' \in BOOLEAN
  /\ UNCHANGED <<carVars, liveVin, livePid, livePids, mfl, packet, button>>

\* can_state_change_callback: bus-off loses what is in transit; recovery may
\* time out, and nothing tries again.
LiveBusOff ==
  /\ canUp /\ livePc \notin {"off", "setup"}
  /\ faults < MaxFaults /\ faults' = faults + 1
  /\ canUp' \in BOOLEAN
  /\ onBus' = <<>>
  /\ UNCHANGED <<car, obdMsgq, stale, livePc, liveVin, livePid, livePids, mfl, packet, button>>

\* getVIN asks on the standard format and, if nothing comes, on the extended one.
AskVin ==
  /\ \/ LiveGo("vin", {"vinStd"}) /\ LiveAsk({"std"}, VIN)
     \/ LiveGo("vin2", {"vinExt"}) /\ LiveAsk({"ext"}, VIN)
  /\ UNCHANGED <<canUp, liveVin, livePid, livePids, mfl, packet, button>>

TakeFirstOfVin ==
  \/ /\ LiveGo("vinStd", {"vinRest"}) \/ LiveGo("vinExt", {"vinRest"})
     /\ Take
     /\ IF /\ canUp /\ Head(obdMsgq).kind = "first"
           /\ Head(obdMsgq).fmt = (IF livePc = "vinStd" THEN "std" ELSE "ext")
        THEN FlowControl(Head(obdMsgq)) ELSE UNCHANGED onBus
     /\ liveVin' = <<Piece(Head(obdMsgq))>>
  \/ /\ LiveGo("vinStd", {"vin2"}) \/ LiveGo("vinExt", {"pids"})
     /\ GiveUp /\ UNCHANGED liveVin

\* The second and third frame: a wait that fails leaves the previous frame in
\* obd_response_frame, and its bytes are copied once more.
TakeRestOfVin ==
  /\ LiveGo("vinRest", IF Len(liveVin) = Parts - 1 THEN {"pids"} ELSE {"vinRest"})
  /\ \/ Take /\ liveVin' = Append(liveVin, Piece(Head(obdMsgq))) /\ UNCHANGED onBus
     \/ GiveUp /\ liveVin' = Append(liveVin, Last(liveVin))

GetVin == /\ TakeFirstOfVin \/ TakeRestOfVin
          /\ UNCHANGED <<canUp, livePid, livePids, mfl, packet, button>>

\* getPIDs: blocks are asked for on the formats their first PID is marked for;
\* every frame that comes is a bitmap of that block.
LiveAskBlock ==
  /\ LiveGo("pids", {"bitmaps"})
  /\ livePid < PidEnd /\ livePids[livePid] # {}
  /\ LiveAsk(livePids[livePid], livePid)
  /\ UNCHANGED <<canUp, liveVin, livePid, livePids, mfl, packet, button>>

\* The bits of a frame, moved to the block asked for; a late frame of the VIN has
\* letters where a bitmap has its bits.
Bits(frame) ==
  IF IsBlock(frame.pid)
  THEN {{livePid + (p - frame.pid) : p \in Announced(frame.fmt, frame.pid)}}
  ELSE SUBSET ((livePid + 1)..(livePid + PidBlock))

MarkBitmap(frame) ==
  \E bits \in Bits(frame) :
    livePids' = [p \in DOMAIN livePids |->
                   livePids[p] \cup (IF p \in bits THEN {frame.fmt} ELSE {})]

TakeBitmaps ==
  /\ \/ /\ LiveGo("bitmaps", {"bitmaps"})
        /\ Take /\ UNCHANGED <<onBus, livePid>>
        /\ MarkBitmap(Head(obdMsgq))
     \/ /\ LiveGo("bitmaps", {"pids"})
        /\ GiveUp /\ livePid' = livePid + PidBlock /\ UNCHANGED livePids
  /\ UNCHANGED <<canUp, liveVin, mfl, packet, button>>

GetPidsDone ==
  /\ LiveGo("pids", {"poll"})
  /\ livePid >= PidEnd \/ livePids[livePid] = {}
  /\ UNCHANGED <<carVars, canUp, liveVin, livePid, livePids, mfl, packet, button>>

\* The main loop reads the level of the button and starts a packet.
PollButton ==
  /\ LiveGo("poll", {"sweep"})
  /\ button
  /\ livePid' = 0 /\ packet' = <<>>
  /\ UNCHANGED <<carVars, canUp, liveVin, livePids, mfl, button>>

LiveSweepNext == {p \in 0..(PidEnd - 2) : p >= livePid /\ livePids[p] # {}}

LiveAskPid ==
  /\ LiveGo("sweep", {"frames"})
  /\ \E pid \in LiveSweepNext : /\ \A p \in LiveSweepNext : pid <= p
                                /\ livePid' = pid /\ LiveAsk(livePids[pid], pid)
  /\ mfl' = 0
  /\ UNCHANGED <<canUp, liveVin, livePids, packet, button>>

\* Mutant: a first frame does not set MFL.
AddFrameForgets(frame) ==
  \/ /\ frame.kind = "first"
     /\ packet' = Append(packet, [len |-> Parts, pieces |-> <<Piece(frame)>>])
     /\ UNCHANGED mfl
  \/ frame.kind = "next" /\ UNCHANGED <<mfl, packet>>
  \/ /\ frame.kind = "single"
     /\ packet' = Append(packet, [len |-> 1, pieces |-> <<Piece(frame)>>])
     /\ UNCHANGED mfl

\* The three kinds of frames. A consecutive frame is copied behind whatever was
\* copied last, as far as MFL allows.
AddFrame(frame) ==
  \/ /\ frame.kind = "first"
     /\ mfl' = Parts - 1
     /\ packet' = Append(packet, [len |-> Parts, pieces |-> <<Piece(frame)>>])
  \/ /\ frame.kind = "next" /\ mfl > 0
     /\ mfl' = mfl - 1
     /\ packet' = [packet EXCEPT ![Len(packet)].pieces = Append(@, Piece(frame))]
  \/ frame.kind = "next" /\ mfl = 0 /\ UNCHANGED <<mfl, packet>>
  \/ /\ frame.kind = "single"
     /\ packet' = Append(packet, [len |-> 1, pieces |-> <<Piece(frame)>>])
     /\ UNCHANGED mfl

\* Mutant: one frame per request, as in the prototype.
TakeOneFrame ==
  /\ LiveGo("frames", {"sweep"})
  /\ \/ Take /\ AddFrame(Head(obdMsgq)) /\ UNCHANGED onBus
     \/ GiveUp /\ UNCHANGED <<mfl, packet>>
  /\ livePid' = livePid + 1
  /\ UNCHANGED <<canUp, liveVin, livePids, button>>

TakeFrames ==
  /\ \/ /\ LiveGo("frames", {"frames"})
        /\ Take /\ AddFrame(Head(obdMsgq)) /\ UNCHANGED livePid
        /\ IF Head(obdMsgq).kind = "first" /\ canUp
           THEN FlowControl(Head(obdMsgq)) ELSE UNCHANGED onBus
     \/ /\ LiveGo("frames", {"sweep"})
        /\ GiveUp /\ livePid' = livePid + 1 /\ UNCHANGED <<mfl, packet>>
  /\ UNCHANGED <<canUp, liveVin, livePids, button>>

PrintPacket ==
  /\ LiveGo("sweep", {"poll"})
  /\ LiveSweepNext = {}
  /\ UNCHANGED <<carVars, canUp, liveVin, livePid, livePids, mfl, packet, button>>

PressOrRelease ==
  /\ livePc \in {"poll", "sweep", "frames"}
  /\ button' = ~button
  /\ UNCHANGED <<carVars, livePc, canUp, liveVin, livePid, livePids, mfl, packet>>

LiveReceive ==
  /\ livePc # "off" /\ canUp
  /\ Arrive(LiveQueue)
  /\ UNCHANGED liveVars

LiveMain == \/ SetupGpios \/ AskVin \/ GetVin
            \/ LiveAskBlock \/ TakeBitmaps \/ GetPidsDone
            \/ PollButton \/ LiveAskPid \/ TakeFrames \/ PrintPacket

LiveNext == LiveMain \/ LiveReceive \/ LiveBusOff \/ PressOrRelease

\* main marks PID 0 for both formats before it calls getPIDs.
LiveIdle == /\ canUp = FALSE /\ liveVin = <<>> /\ livePid = 0 /\ mfl = 0
            /\ livePids = [p \in 0..PidEnd |-> IF p = 0 THEN Formats ELSE {}]
            /\ packet = <<>> /\ button = FALSE
LiveInit == CarInit /\ livePc = "setup" /\ LiveIdle
LiveSpec == LiveInit /\ [][LiveNext]_<<carVars, liveVars>>
-----------------------------------------------------------------------------
LiveTypeOK ==
  /\ livePc \in {"off", "setup", "vin", "vin2", "vinStd", "vinExt", "vinRest", "pids",
                 "bitmaps", "poll", "sweep", "frames"}
  /\ canUp \in BOOLEAN /\ button \in BOOLEAN
  /\ livePid \in 0..(PidEnd + PidBlock) /\ mfl \in 0..(Parts - 1)
  /\ livePids \in [0..PidEnd -> SUBSET Formats]

LiveRunning == livePc \in {"poll", "sweep", "frames"}
Whole(fmt, pid) == [k \in 1..(IF IsLong(pid) THEN Parts ELSE 1) |-> <<fmt, pid, k>>]

\* Without faults the three pieces of the VIN come from one format, in order, and
\* discovery marks exactly what the car supports, no entry past the array.
LiveIdentified ==
  (LiveRunning /\ canUp /\ faults = 0) =>
    /\ liveVin \in {Whole(fmt, VIN) : fmt \in {f \in Formats : Answers(f, VIN)}}
    /\ \A p \in 1..PidEnd : livePids[p] = {f \in Formats : p \in car[f]}

\* Without faults a printed packet holds each answer once, whole, behind a length
\* that is true, in the order of the PIDs.
PacketFramed ==
  (livePc = "poll" /\ faults = 0 /\ packet # <<>>) =>
    /\ \A i \in DOMAIN packet : \E fmt \in Formats, pid \in 0..PidEnd :
         packet[i] = [len |-> Len(Whole(fmt, pid)), pieces |-> Whole(fmt, pid)]
    /\ \A i, j \in DOMAIN packet :
         i < j => /\ packet[i].pieces[1][2] <= packet[j].pieces[1][2]
                  /\ packet[i] # packet[j]
    /\ Len(packet) = Cardinality({r \in Formats \X (0..(PidEnd - 2)) : Answers(r[1], r[2])})

\* A late answer is taken for another one's once and is gone: draining the queue
\* after every request keeps the program in step, whatever happened before.
LateOnce == stale <= faults
=============================================================================
