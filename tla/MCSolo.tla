------------------------------- MODULE MCSolo -------------------------------
(***************************************************************************)
(* The programs that run by themselves: one of Programs is started, all    *)
(* others stay off. Their state spaces add up and do not multiply.         *)
(***************************************************************************)
EXTENDS Prototype, LiveData, CanTests, Mcp2515, GnssSample, MapScreen, Statistics

CONSTANT Programs
VARIABLE program

\* Cars on one or both formats, with and without a second block or a long answer.
CarOf(std, ext, long) == [std |-> std, ext |-> ext, long |-> long]
MCCars == {CarOf({1, 2, 3}, {}, {3}), CarOf({1}, {1}, {}), CarOf({}, {1, 2, 3}, {1}),
           CarOf({2, 3}, {1}, {1}), CarOf({1, 2, 3}, {2, 3}, {})}

BuildOf(assist, onDemand, ttff, cold) ==
  [assist |-> assist, onDemand |-> onDemand, ttff |-> ttff, cold |-> cold]
MCBuilds == {BuildOf("none", FALSE, TRUE, TRUE), BuildOf("none", FALSE, FALSE, FALSE),
             BuildOf("agps", FALSE, FALSE, FALSE), BuildOf("agps", TRUE, TRUE, TRUE),
             BuildOf("pgps", FALSE, FALSE, FALSE), BuildOf("both", FALSE, FALSE, FALSE),
             BuildOf("supl", TRUE, TRUE, FALSE), BuildOf("minimal", TRUE, TRUE, TRUE)}
MCNeeds == {Everything, [ephe |-> FALSE, flags |-> "time"],
            [ephe |-> TRUE, flags |-> "none"], [ephe |-> FALSE, flags |-> "integrity"]}

MCParameters == [c \in ChartCars |-> IF c = "a" THEN {"speed", "rpm"} ELSE {"rpm"}]

ProtoOff == protoPc = "off" /\ ProtoIdle
LiveOff == livePc = "off" /\ LiveIdle
TestOff == testPc = "off" /\ testProgram = "can_obd" /\ TestIdle
McOff == mcPc = "off" /\ autoRecovery = FALSE /\ McIdle
GnssOff == gnssPc = "off" /\ build = BuildOf("none", FALSE, FALSE, FALSE) /\ GnssIdle
NoCar == CarInit /\ car = CarOf({1}, {1}, {})

MCInit ==
  /\ program \in Programs
  /\ IF program = "prototype" THEN ProtoInit ELSE ProtoOff
  /\ IF program = "car_live_data" THEN LiveInit ELSE LiveOff
  /\ IF program = "can tests" THEN TestInit ELSE TestOff
  /\ IF program = "mcp2515" THEN McInit ELSE McOff
  /\ IF program = "gnss" THEN GnssInit ELSE GnssOff
  /\ program \in {"prototype", "car_live_data", "can tests"} \/ NoCar
  /\ NoFrames /\ MapInit /\ StatInit

canPrograms == <<protoVars, liveVars, testVars>>
gnssVars == <<assistVars, sampleVars>>

MCNext ==
  /\ UNCHANGED program
  /\ \/ /\ program = "prototype" /\ ProtoNext
        /\ UNCHANGED <<liveVars, testVars, mcVars, gnssVars, mapVars, statVars>>
     \/ /\ program = "car_live_data" /\ LiveNext
        /\ UNCHANGED <<protoVars, testVars, mcVars, gnssVars, nmeaVars, mapVars, statVars>>
     \/ /\ program = "can tests" /\ TestNext
        /\ UNCHANGED <<protoVars, liveVars, mcVars, gnssVars, nmeaVars, mapVars, statVars>>
     \/ /\ program = "mcp2515" /\ McNext
        /\ UNCHANGED <<carVars, canPrograms, gnssVars, nmeaVars, mapVars, statVars>>
     \/ /\ program = "gnss" /\ GnssNext
        /\ UNCHANGED <<carVars, canPrograms, mcVars, mapVars, statVars>>
     \/ /\ program = "map" /\ MapNext
        /\ UNCHANGED <<carVars, canPrograms, mcVars, gnssVars, nmeaVars, statVars>>
     \/ /\ program = "statistics" /\ StatNext
        /\ UNCHANGED <<carVars, canPrograms, mcVars, gnssVars, nmeaVars, mapVars>>

MCSpec == MCInit /\ [][MCNext]_<<program, carVars, canPrograms, mcVars, gnssVars, nmeaVars,
                                  mapVars, statVars>>

\* Bounds: nothing is claimed of the screens once these hold.
StillClear == ~confusing /\ ~disturbed

\* The type invariants of all programs.
SoloTypeOK == ProtoTypeOK /\ LiveTypeOK /\ TestTypeOK /\ McTypeOK /\ GnssTypeOK
              /\ NmeaTypeOK /\ MapTypeOK /\ StatTypeOK

\* Late answers shift what the prototype discovers and reports, and never by more
\* than there were late answers.
ProtoDrift == LagBounded /\ DiscoveryShifts

\* The programs that drain their queue take a late answer for another one's once;
\* the prototype, which does not, stays behind.
DrainedOnce == program # "prototype" => LateOnce

\* Without faults car_live_data identifies the car and frames its packets.
LiveExact == LiveIdentified /\ PacketFramed
=============================================================================
