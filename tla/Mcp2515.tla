------------------------------ MODULE Mcp2515 ------------------------------
(***************************************************************************)
(* Firmware/mcp2515: an LED that follows frames from the bus, and counter  *)
(* frames sent in turn with LED frames. One system work queue runs the LED *)
(* handler, which polls change_led_msgq, and the handler of controller     *)
(* state changes; the driver submits work for either at any time. Counter  *)
(* values are left out.                                                    *)
(***************************************************************************)
EXTENDS Integers, Sequences, SequencesExt

CONSTANT LedQueue      \* change_led_msgq and counter_msgq: 2

ASSUME LedQueueAssumption == LedQueue \in Nat \ {0}

VARIABLES
  mcPc,          \* where main is
  autoRecovery,  \* the build has CONFIG_CAN_AUTO_BUS_OFF_RECOVERY
  txBusy,        \* the transmit buffer holds a frame
  ledMsgq,       \* change_led_msgq: 1 to set the LED, 0 to reset it
  counters,      \* frames in counter_msgq
  ledPin,        \* the LED
  lastLed,       \* history: the last LED frame that found room
  ledWork,       \* change_led_work
  stateWork,     \* state_change_work is submitted
  workq,         \* what the system work queue runs
  canState,      \* state of the controller
  currentState,  \* current_state
  polled,        \* state_prev of the polling thread
  timedOut       \* history: the last recovery timed out

mcVars == <<mcPc, autoRecovery, txBusy, ledMsgq, counters, ledPin, lastLed, ledWork,
            stateWork, workq, canState, currentState, polled, timedOut>>
mainVars == <<mcPc, txBusy>>
ledVars == <<ledMsgq, ledPin, lastLed, ledWork>>
stateVars == <<stateWork, canState, currentState, timedOut>>

CanStates == {"error-active", "error-passive", "bus-off"}

\* A poll event that finds data in the queue submits the work at once.
Poll(queue) == IF queue = <<>> THEN "armed" ELSE "submitted"

\* main up to its loop: device, mode, LED and filter, then polling, threads and
\* callback; a failure ends it. Frames pass the filter before they are polled for.
McStart ==
  /\ \/ mcPc = "start" /\ mcPc' = "filtered" /\ UNCHANGED ledWork
     \/ mcPc = "filtered" /\ mcPc' = "sendLed" /\ ledWork' = Poll(ledMsgq)
     \/ mcPc \in {"start", "filtered"} /\ mcPc' = "returned" /\ UNCHANGED ledWork
  /\ UNCHANGED <<autoRecovery, txBusy, ledMsgq, counters, ledPin, lastLed, workq, stateVars, polled>>

\* can_send waits for the transmit buffer without a limit for an LED frame...
SendLed ==
  /\ mcPc = "sendLed" /\ ~txBusy
  /\ mcPc' = "sendCounter" /\ txBusy' = TRUE
  /\ UNCHANGED <<autoRecovery, counters, workq, ledVars, stateVars, polled>>

\* ...100 ms for a counter frame, and then until that frame is out.
SendCounter ==
  /\ \/ mcPc = "sendCounter" /\ ~txBusy /\ txBusy' = TRUE /\ mcPc' = "counterOut"
     \/ mcPc = "sendCounter" /\ txBusy /\ mcPc' = "sendLed" /\ UNCHANGED txBusy
     \/ mcPc = "counterOut" /\ ~txBusy /\ mcPc' = "sendLed" /\ UNCHANGED txBusy
  /\ UNCHANGED <<autoRecovery, counters, workq, ledVars, stateVars, polled>>

Transmitted ==
  /\ txBusy /\ canState # "bus-off"
  /\ txBusy' = FALSE
  /\ UNCHANGED <<mcPc, autoRecovery, counters, workq, ledVars, stateVars, polled>>

\* The driver puts a received LED frame into its queue, if there is room, and
\* with it raises the poll event.
LedFrame(value) ==
  /\ mcPc \notin {"off", "start", "returned"} /\ canState # "bus-off"
  /\ IF Len(ledMsgq) < LedQueue
     THEN /\ ledMsgq' = Append(ledMsgq, value) /\ lastLed' = value
          /\ ledWork' = IF ledWork = "armed" THEN "submitted" ELSE ledWork
     ELSE UNCHANGED <<ledMsgq, lastLed, ledWork>>
  /\ UNCHANGED <<mainVars, autoRecovery, counters, ledPin, workq, stateVars, polled>>

CounterFrame ==
  /\ mcPc \notin {"off", "start", "filtered", "returned"} /\ canState # "bus-off"
  /\ counters' = IF counters < LedQueue THEN counters + 1 ELSE counters
  /\ UNCHANGED <<mainVars, autoRecovery, workq, ledVars, stateVars, polled>>

\* rx_thread
RxCounter ==
  /\ counters > 0 /\ counters' = counters - 1
  /\ UNCHANGED <<mainVars, autoRecovery, workq, ledVars, stateVars, polled>>

\* change_led_work_handler: every queued frame, then the poll again, which may
\* fail and is then never tried again.
StartLedWork ==
  /\ workq = "idle" /\ ledWork = "submitted"
  /\ workq' = "led" /\ ledWork' = "running"
  /\ UNCHANGED <<mainVars, autoRecovery, ledMsgq, counters, ledPin, lastLed, stateVars, polled>>

TakeLed ==
  /\ workq = "led" /\ ledMsgq # <<>>
  /\ ledPin' = Head(ledMsgq) /\ ledMsgq' = Tail(ledMsgq)
  /\ UNCHANGED <<mainVars, autoRecovery, counters, lastLed, ledWork, workq, stateVars, polled>>

LedDrained ==
  /\ workq = "led" /\ ledMsgq = <<>>
  /\ workq' = "resubmit"
  /\ UNCHANGED <<mainVars, autoRecovery, counters, ledVars, stateVars, polled>>

\* Mutant: polling for a frame to come, without a look into the queue.
ResubmitBlindly ==
  /\ workq = "resubmit"
  /\ workq' = "idle" /\ ledWork' = "armed"
  /\ UNCHANGED <<mainVars, autoRecovery, ledMsgq, counters, ledPin, lastLed, stateVars, polled>>

ResubmitPoll ==
  /\ workq = "resubmit"
  /\ workq' = "idle" /\ ledWork' \in {Poll(ledMsgq), "failed"}
  /\ UNCHANGED <<mainVars, autoRecovery, ledMsgq, counters, ledPin, lastLed, stateVars, polled>>

\* Mutant: the state is handed over with the work, which is not submitted twice.
StateChangeKeepsFirst(state) ==
  /\ mcPc \in {"sendLed", "sendCounter", "counterOut"}
  /\ state # canState /\ (canState = "bus-off" => autoRecovery)
  /\ canState' = state
  /\ currentState' = IF stateWork THEN currentState ELSE state
  /\ stateWork' = TRUE
  /\ UNCHANGED <<mainVars, autoRecovery, counters, workq, ledVars, timedOut, polled>>

\* state_change_callback, for a controller that changes its state; it only
\* leaves bus-off by itself if the build recovers automatically. Submitting work
\* that is submitted already changes nothing.
StateChange(state) ==
  /\ mcPc \in {"sendLed", "sendCounter", "counterOut"}
  /\ state # canState /\ (canState = "bus-off" => autoRecovery)
  /\ canState' = state /\ currentState' = state
  /\ stateWork' = TRUE
  /\ UNCHANGED <<mainVars, autoRecovery, counters, workq, ledVars, timedOut, polled>>

\* state_change_work_handler: it recovers from the state current_state has by then.
StartStateWork ==
  /\ workq = "idle" /\ stateWork
  /\ stateWork' = FALSE
  /\ workq' = IF currentState = "bus-off" /\ ~autoRecovery THEN "recover" ELSE "idle"
  /\ UNCHANGED <<mainVars, autoRecovery, counters, ledVars, canState, currentState, timedOut, polled>>

\* can_recover waits 100 ms; when the controller is back, the driver reports it.
Recover ==
  /\ workq = "recover" /\ workq' = "idle"
  /\ \/ canState = "bus-off" /\ timedOut' = TRUE
        /\ UNCHANGED <<canState, currentState, stateWork>>
     \/ /\ timedOut' = FALSE
        /\ canState' = IF canState = "bus-off" THEN "error-active" ELSE canState
        /\ currentState' = canState'
        /\ stateWork' = (stateWork \/ canState' # canState)
  /\ UNCHANGED <<mainVars, autoRecovery, counters, ledVars, polled>>

\* poll_state_thread prints each state it finds changed; can_get_state may fail.
PollState ==
  /\ mcPc \notin {"off", "start", "filtered", "returned"}
  /\ polled' = canState
  /\ UNCHANGED <<mainVars, autoRecovery, counters, workq, ledVars, stateVars>>

McMain == McStart \/ SendLed \/ SendCounter
McWork == StartLedWork \/ TakeLed \/ LedDrained \/ ResubmitPoll \/ StartStateWork \/ Recover

McNext == \/ McMain \/ McWork \/ RxCounter \/ PollState
          \/ Transmitted \/ CounterFrame
          \/ \E value \in 0..1 : LedFrame(value)
          \/ \E state \in CanStates : StateChange(state)

McIdle == /\ txBusy = FALSE /\ ledMsgq = <<>> /\ counters = 0
          /\ ledPin = 1 /\ lastLed = 1 /\ ledWork = "none"
          /\ stateWork = FALSE /\ workq = "idle"
          /\ canState = "error-active" /\ currentState = "error-active"
          /\ polled = "error-active" /\ timedOut = FALSE
McInit == mcPc = "start" /\ autoRecovery \in BOOLEAN /\ McIdle
McSpec == McInit /\ [][McNext]_mcVars
-----------------------------------------------------------------------------
McTypeOK ==
  /\ mcPc \in {"off", "start", "filtered", "sendLed", "sendCounter", "counterOut", "returned"}
  /\ autoRecovery \in BOOLEAN /\ txBusy \in BOOLEAN
  /\ ledMsgq \in Seq(0..1) /\ Len(ledMsgq) <= LedQueue
  /\ counters \in 0..LedQueue
  /\ ledPin \in 0..1 /\ lastLed \in 0..1
  /\ ledWork \in {"none", "armed", "submitted", "running", "failed"}
  /\ stateWork \in BOOLEAN /\ timedOut \in BOOLEAN
  /\ workq \in {"idle", "led", "resubmit", "recover"}
  /\ {canState, currentState, polled} \subseteq CanStates

\* While nothing is under way the LED shows the last frame that found room: no
\* frame that comes between the last look into the queue and the next poll is
\* left lying, and none is applied out of order.
LedLatest == ledWork = "armed" => ledMsgq = <<>> /\ ledPin = lastLed

\* A controller that is bus-off and that nobody is about to recover is one whose
\* last recovery timed out: no change is missed though changes coalesce.
BusOffHandled ==
  (canState = "bus-off" /\ ~autoRecovery /\ ~stateWork /\ workq # "recover") => timedOut
=============================================================================
