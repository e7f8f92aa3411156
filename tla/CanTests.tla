------------------------------ MODULE CanTests ------------------------------
(***************************************************************************)
(* The bench programs can_obd, lsm6dsl and imu_can. Each round of can_obd  *)
(* asks both formats for PID 0 and prints what has come when the bus is    *)
(* quiet; a round of lsm6dsl prints a sample, which the sensor's trigger   *)
(* handler writes when print_samples lets it; imu_can does both. The       *)
(* handler runs at a higher priority: it may run between any two steps of  *)
(* main and never stops half-way.                                          *)
(***************************************************************************)
EXTENDS CarBus

CONSTANT TestQueue   \* obd_msgq: 10

ASSUME CanTestsAssumption == TestQueue \in Nat

VARIABLES
  testProgram,   \* which of the three it is
  testPc,        \* where its main is
  testUp,        \* the CAN controller runs
  printSamples,  \* print_samples
  overdue,       \* history: a round began before its sample was there
  sampleOut,     \* which trigger wrote accel_*_out and gyro_*_out, 0 or 1
  printed        \* the accelerometer values printed in this round

testVars == <<testProgram, testPc, testUp, printSamples, overdue, sampleOut, printed>>
imuVars == <<printSamples, overdue, sampleOut, printed>>

TestPrograms == {"can_obd", "lsm6dsl", "imu_can"}
HasImu == testProgram # "can_obd"
HasCan == testProgram # "lsm6dsl"
RoundStart == IF HasImu THEN "accel" ELSE "ask"

TestGo(from, to) == testPc = from /\ testPc' \in to

\* The sensor and CAN calls before the loop; the first that fails ends main.
TestSetup == /\ TestGo("setup", {RoundStart, "returned"})
             /\ testUp' = (HasCan /\ testPc' # "returned")
             /\ UNCHANGED <<carVars, testProgram, imuVars>>

\* Mutant: the handler stores every sample.
TriggerAlways ==
  /\ HasImu /\ testPc # "setup"
  /\ printSamples' = FALSE
  /\ sampleOut' = 1 - sampleOut
  /\ UNCHANGED <<carVars, testProgram, testPc, testUp, overdue, printed>>

\* lsm6dsl_trigger_handler: a new sample only when main has asked for one.
Trigger ==
  /\ HasImu /\ testPc # "setup"
  /\ printSamples
  /\ printSamples' = FALSE
  /\ sampleOut' = 1 - sampleOut
  /\ UNCHANGED <<carVars, testProgram, testPc, testUp, overdue, printed>>

\* At least a second has passed since print_samples was set; the sensor samples
\* at 104 Hz.
PrintAccel ==
  /\ TestGo("accel", {"gyro"})
  /\ printed' = sampleOut
  /\ overdue' = (overdue \/ printSamples)
  /\ UNCHANGED <<carVars, testProgram, testUp, printSamples, sampleOut>>

PrintGyro ==
  /\ TestGo("gyro", {IF HasCan THEN "ask" ELSE "accel"})
  /\ printSamples' = TRUE
  /\ UNCHANGED <<carVars, testProgram, testUp, overdue, sampleOut, printed>>

ObdRequests ==
  /\ TestGo("ask", {"drain"})
  /\ \/ testUp /\ Ask(Formats, 0)
     \/ ~testUp /\ UNCHANGED carVars
  /\ UNCHANGED <<testProgram, testUp, imuVars>>

DrainAnswers ==
  /\ \/ TestGo("drain", {"drain"}) /\ Take /\ UNCHANGED onBus
     \/ TestGo("drain", {RoundStart}) /\ GiveUp
  /\ UNCHANGED <<testProgram, testUp, imuVars>>

\* can_state_change_callback with CAN_STATE_BUS_OFF; recovery may time out.
TestBusOff ==
  /\ testUp
  /\ faults < MaxFaults /\ faults' = faults + 1
  /\ testUp' \in BOOLEAN
  /\ onBus' = <<>>
  /\ UNCHANGED <<car, obdMsgq, stale, testProgram, testPc, imuVars>>

TestReceive == /\ testUp
               /\ Arrive(TestQueue)
               /\ UNCHANGED testVars

TestMain == TestSetup \/ PrintAccel \/ PrintGyro \/ ObdRequests \/ DrainAnswers

TestNext == TestMain \/ Trigger \/ TestReceive \/ TestBusOff

TestIdle == /\ testProgram \in TestPrograms /\ testUp = FALSE
            /\ printSamples = FALSE /\ overdue = FALSE /\ sampleOut = 0 /\ printed = 0
TestInit == CarInit /\ testPc = "setup" /\ TestIdle
TestSpec == TestInit /\ [][TestNext]_<<carVars, testVars>>
-----------------------------------------------------------------------------
TestTypeOK ==
  /\ testProgram \in TestPrograms
  /\ testPc \in {"off", "setup", "returned", "accel", "gyro", "ask", "drain"}
  /\ testUp \in BOOLEAN
  /\ printSamples \in BOOLEAN /\ overdue \in BOOLEAN
  /\ sampleOut \in 0..1 /\ printed \in 0..1

\* The acceleration and the rotation printed in one round belong to one trigger,
\* if the sensor never misses a whole round: the copy is not locked, but
\* print_samples is only set when both lines are out.
SampleWhole == (testPc = "gyro" /\ ~overdue) => printed = sampleOut
=============================================================================
