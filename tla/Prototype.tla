------------------------------ MODULE Prototype ------------------------------
(***************************************************************************)
(* Firmware/firmware: one main thread that asks for one PID at a time and  *)
(* takes one frame per request, and two modem handlers whose products it   *)
(* never collects. The block that would publish a position is guarded by   *)
(* num_gnss_frames % 10 == 0; the counter starts at 1 and only that block  *)
(* increments it, so SweepEnd always goes on with the next sweep.          *)
(***************************************************************************)
EXTENDS CarBus, NmeaFrames

CONSTANT ProtoQueue  \* obd_msgq: 2

ASSUME PrototypeAssumption == ProtoQueue \in Nat \ {0}

VARIABLES
  protoPc,         \* where main is
  protoPid,        \* checkPID, later current_pid
  protoSupported,  \* PID_supported; the index PidEnd is past its end
  protoLag,        \* age of the answer printed last
  pvtSem,          \* pvt_data_sem
  lteSems          \* which of lte_connected and lte_idle are available

protoVars == <<protoPc, protoPid, protoSupported, protoLag, pvtSem, lteSems>>
gnssProtoVars == <<pvtSem, nmeaVars>>

\* One step of main from one point of its text to one of several others.
ProtoGo(from, to) == protoPc = from /\ protoPc' \in to

\* can_init, modem_init and gnss_init_and_start: every call may fail, and main
\* returns on the first failure.
ProtoCanInit == /\ ProtoGo("can_init", {"modem_init", "returned"})
                /\ UNCHANGED <<carVars, protoPid, protoSupported, protoLag, gnssProtoVars, lteSems>>

ProtoModemInit == /\ ProtoGo("modem_init", {"gnss_init", "returned"})
                  /\ UNCHANGED <<carVars, protoPid, protoSupported, protoLag, gnssProtoVars, lteSems>>

ProtoGnssStart == /\ ProtoGo("gnss_init", {"discover", "returned"})
                  /\ UNCHANGED <<carVars, protoPid, protoSupported, protoLag, gnssProtoVars, lteSems>>

\* Every block is asked for, supported or not; a failing can_send skips it.
AskBlock ==
  /\ protoPid < PidEnd
  /\ \/ ProtoGo("discover", {"bitmap"}) /\ Ask({"std"}, protoPid) /\ UNCHANGED protoPid
     \/ /\ ProtoGo("discover", {"discover"}) /\ protoPid' = protoPid + PidBlock
        /\ Refused
  /\ UNCHANGED <<protoSupported, protoLag, gnssProtoVars, lteSems>>

\* Mutant: checkPID is advanced before the bitmap is stored.
MarksNext(frame, block) ==
  {block + PidBlock + (p - frame.pid) : p \in Announced(frame.fmt, frame.pid)}

\* Whatever frame comes is read as the bitmap of the block asked for last.
Marks(frame, block) ==
  {block + (p - frame.pid) : p \in Announced(frame.fmt, frame.pid)}

TakeBitmap ==
  /\ ProtoGo("bitmap", {"discover"})
  /\ \/ /\ Take
        /\ protoSupported' = protoSupported \cup Marks(Head(obdMsgq), protoPid)
        /\ UNCHANGED onBus
     \/ GiveUp /\ UNCHANGED protoSupported
  /\ protoPid' = protoPid + PidBlock
  /\ UNCHANGED <<protoLag, gnssProtoVars, lteSems>>

DiscoveryDone ==
  /\ ProtoGo("discover", {"sweep"})
  /\ protoPid >= PidEnd /\ protoPid' = 0
  /\ UNCHANGED <<carVars, protoSupported, protoLag, gnssProtoVars, lteSems>>

\* The next supported PID of the sweep; PID_supported has no entry PidEnd.
SweepNext == {p \in protoSupported : p >= protoPid /\ p < PidEnd}

\* A failing can_send does not keep main from waiting for an answer.
AskPid ==
  /\ ProtoGo("sweep", {"answer"})
  /\ \E pid \in SweepNext : /\ \A p \in SweepNext : pid <= p
                            /\ protoPid' = pid
                            /\ Ask({"std"}, pid) \/ Refused
  /\ UNCHANGED <<protoSupported, protoLag, gnssProtoVars, lteSems>>

TakeAnswer ==
  /\ ProtoGo("answer", {"sweep"})
  /\ \/ Take /\ protoLag' = Head(obdMsgq).age /\ UNCHANGED onBus
     \/ GiveUp /\ UNCHANGED protoLag
  /\ protoPid' = protoPid + 1
  /\ UNCHANGED <<protoSupported, gnssProtoVars, lteSems>>

SweepEnd ==
  /\ ProtoGo("sweep", {"sweep"})
  /\ SweepNext = {} /\ protoPid' = 0
  /\ UNCHANGED <<carVars, protoSupported, protoLag, gnssProtoVars, lteSems>>

\* gnss_event_handler; main never takes a frame from the queue.
ProtoGnssEvent ==
  /\ protoPc \in {"discover", "bitmap", "sweep", "answer"}
  /\ \/ pvtSem' = 1 /\ UNCHANGED nmeaVars
     \/ NmeaMalloc /\ UNCHANGED pvtSem
  /\ UNCHANGED <<carVars, protoPc, protoPid, protoSupported, protoLag, lteSems>>

ProtoNmeaDone == (NmeaQueued \/ NmeaNotQueued) /\ UNCHANGED <<carVars, protoVars>>

\* lte_handler, once lte_lc_connect_async has registered it.
ProtoLteEvent ==
  /\ protoPc \notin {"off", "can_init", "modem_init", "returned"}
  /\ \E sem \in {"lte_connected", "lte_idle"} : lteSems' = lteSems \cup {sem}
  /\ UNCHANGED <<carVars, protoPc, protoPid, protoSupported, protoLag, gnssProtoVars>>

ProtoReceive ==
  /\ protoPc # "off"
  /\ Arrive(ProtoQueue)
  /\ UNCHANGED <<protoVars, nmeaVars>>

ProtoMain == \/ ProtoCanInit \/ ProtoModemInit \/ ProtoGnssStart
             \/ AskBlock \/ TakeBitmap \/ DiscoveryDone
             \/ AskPid \/ TakeAnswer \/ SweepEnd

\* Nothing else runs while the handler has a frame.
ProtoNext ==
  \/ handlerFrame = NoFrame /\ (ProtoMain \/ ProtoReceive \/ ProtoGnssEvent \/ ProtoLteEvent)
  \/ ProtoNmeaDone

ProtoIdle == /\ protoPid = 0 /\ protoSupported = {} /\ protoLag = 0
             /\ pvtSem = 0 /\ lteSems = {}
ProtoInit == CarInit /\ protoPc = "can_init" /\ ProtoIdle /\ NoFrames
ProtoSpec == ProtoInit /\ [][ProtoNext]_<<carVars, protoVars, nmeaVars>>
-----------------------------------------------------------------------------
ProtoTypeOK ==
  /\ protoPc \in {"off", "can_init", "modem_init", "gnss_init", "discover", "bitmap",
                  "sweep", "answer", "returned"}
  /\ protoPid \in 0..(PidEnd + PidBlock)
  /\ protoSupported \subseteq 0..PidEnd
  /\ pvtSem \in 0..1
  /\ lteSems \subseteq {"lte_connected", "lte_idle"}

\* An answer printed for a PID was requested at most as many requests ago as
\* frames came late or requests went unanswered so far: one late answer is taken
\* for the next PID's, and so are all that follow, but never more than that.
LagBounded == protoLag <= faults

\* A PID is only marked where the car's bitmap has it, moved up by at most one
\* block per fault; without faults no entry past the array is written, and
\* discovery ends having marked exactly what the car supports.
DiscoveryShifts ==
  /\ \A p \in protoSupported : \E k \in 0..faults : p - k * PidBlock \in car.std
  /\ (faults = 0 /\ protoPc = "answer") => protoSupported = car.std
=============================================================================
