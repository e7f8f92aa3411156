------------------------------- MODULE CarBus -------------------------------
(***************************************************************************)
(* The CAN link between a car and the prototype and bench programs: what   *)
(* the car answers, the way to the board, and the driver's receive         *)
(* callback, which drops what the program's message queue cannot hold.     *)
(* A car is a record: the PIDs it supports on each format, and those whose *)
(* answer takes several frames. A block of PIDs is announced by its first. *)
(***************************************************************************)
EXTENDS Integers, Sequences, SequencesExt, FiniteSets

CONSTANTS
  PidBlock,   \* PIDs announced by one bitmap: 0x20
  PidEnd,     \* first number past the last block: 0x100
  Cars,       \* cars the board may be plugged into
  MaxFaults   \* bound on the faults below

\* The first PID of a later block is among those of the block before it.
Chained(pids) == \A b \in {k * PidBlock : k \in 1..(PidEnd \div PidBlock)} :
                   (\E p \in pids : p > b) => b \in pids

ASSUME CarBusAssumption ==
  /\ PidBlock \in Nat \ {0} /\ PidEnd \in Nat /\ MaxFaults \in Nat
  /\ \A c \in Cars : /\ c.std \subseteq 1..(PidEnd - 1)
                     /\ c.ext \subseteq 1..(PidEnd - 1)
                     /\ c.long \subseteq c.std \cup c.ext
                     /\ Chained(c.std) /\ Chained(c.ext)

VARIABLES
  car,      \* the car on the bus
  onBus,    \* frames the car sent that the controller has not received yet
  obdMsgq,  \* obd_msgq
  faults,   \* history: late frames, refused or unanswered requests, bus-off
  stale     \* history: answers taken although a newer request had been sent

carVars == <<car, onBus, obdMsgq, faults, stale>>

Formats == {"std", "ext"}
VIN == -1                    \* the request of service 09 for the VIN
Parts == 3                   \* frames of a long answer, 6 + 7 + 7 bytes

\* age: the number of requests sent since the one this frame answers.
Frame(fmt, pid, part, kind) ==
  [fmt |-> fmt, pid |-> pid, part |-> part, kind |-> kind, age |-> 0]

IsBlock(pid) == pid >= 0 /\ pid % PidBlock = 0
Announced(fmt, block) == car[fmt] \cap (block + 1)..(block + PidBlock)

\* A control unit answers what it supports, and PID 0 and the VIN if it speaks
\* the format at all.
Answers(fmt, pid) == IF pid \in {VIN, 0} THEN car[fmt] # {} ELSE pid \in car[fmt]

IsLong(pid) == pid = VIN \/ pid \in car.long

Answer(fmt, pid) ==
  IF ~Answers(fmt, pid) THEN <<>>
  ELSE <<Frame(fmt, pid, 1, IF IsLong(pid) THEN "first" ELSE "single")>>

\* Both histories stop counting one above MaxFaults.
Counted(n) == IF n > MaxFaults THEN n ELSE n + 1
Older(queue) == [i \in DOMAIN queue |-> [queue[i] EXCEPT !.age = Counted(@)]]

\* The requests for pid leave on the formats fmts, in one transmission order
\* each; the car may fail to answer.
Ask(fmts, pid) ==
  LET answer == (IF "std" \in fmts THEN Answer("std", pid) ELSE <<>>)
                \o (IF "ext" \in fmts THEN Answer("ext", pid) ELSE <<>>)
  IN  /\ obdMsgq' = Older(obdMsgq)
      /\ \/ onBus' = Older(onBus) \o answer /\ UNCHANGED faults
         \/ /\ answer # <<>> /\ faults < MaxFaults
            /\ onBus' = Older(onBus)
            /\ faults' = faults + 1
      /\ UNCHANGED <<car, stale>>

\* can_send fails and no request leaves.
Refused == /\ faults < MaxFaults
           /\ faults' = faults + 1
           /\ UNCHANGED <<car, onBus, obdMsgq, stale>>

\* k_msgq_get finds a frame.
Take == /\ obdMsgq # <<>>
        /\ obdMsgq' = Tail(obdMsgq)
        /\ stale' = IF Head(obdMsgq).age > 0 /\ Head(obdMsgq).kind # "next"
                    THEN Counted(stale) ELSE stale
        /\ UNCHANGED <<car, faults>>

\* k_msgq_get gives up: nothing is on its way, or what is comes too late.
GiveUp == /\ obdMsgq = <<>>
          /\ faults + Len(onBus) <= MaxFaults
          /\ faults' = faults + Len(onBus)
          /\ UNCHANGED <<car, onBus, obdMsgq, stale>>

\* After flow control the car sends the other frames of a long answer.
FlowControl(frame) ==
  onBus' = onBus \o [i \in 1..(Parts - 1) |->
                       [frame EXCEPT !.part = i + 1, !.kind = "next"]]

\* The driver's callback for one received frame.
Arrive(size) ==
  /\ onBus # <<>>
  /\ onBus' = Tail(onBus)
  /\ obdMsgq' = IF Len(obdMsgq) < size THEN Append(obdMsgq, Head(onBus)) ELSE obdMsgq
  /\ UNCHANGED <<car, faults, stale>>

CarInit == /\ car \in Cars
           /\ onBus = <<>> /\ obdMsgq = <<>>
           /\ faults = 0 /\ stale = 0
=============================================================================
