----------------------------- MODULE GnssSample -----------------------------
(***************************************************************************)
(* The GNSS bench program: initialisation, the modem's event handler, the  *)
(* main loop that prints positions and NMEA sentences, and the test mode   *)
(* that measures the time to a first fix again and again. A power cycle    *)
(* may come at any time; the factory almanac in the modem and the checksum *)
(* in flash survive it.                                                    *)
(***************************************************************************)
EXTENDS GnssAssist, NmeaFrames

VARIABLES
  gnssPc,     \* where main is
  gnssOn,     \* the receiver runs
  pvtAvail,   \* pvt_data_sem
  timers,     \* delayed works that are scheduled
  failed,     \* history: a call of the test mode failed and ended it
  almanac,    \* the modem has the factory almanac
  checksum    \* flash says that it has been written

sampleVars == <<gnssPc, gnssOn, pvtAvail, timers, failed, almanac, checksum>>
outputVars == <<pvtAvail, nmeaVars>>
flashVars == <<almanac, checksum>>

GnssLoop == {"poll", "nmea", "print"}
SampleGo(from, to) == gnssPc = from /\ gnssPc' \in to

\* modem_init, and assistance_init up to loading the settings; a failure ends main.
InitModem ==
  /\ \/ SampleGo("modem", {"sample", "returned"})
     \/ SampleGo("sample", {IF build.assist = "minimal" THEN "almanac" ELSE "gnss", "returned"})
  /\ UNCHANGED <<assistVars, gnssOn, outputVars, timers, failed, flashVars>>

\* Mutant: the checksum is saved before the almanac is written.
ChecksumFirst ==
  /\ \/ checksum /\ SampleGo("almanac", {"gnss"}) /\ UNCHANGED flashVars
     \/ /\ ~checksum /\ SampleGo("almanac", {"checksum"})
        /\ checksum' = TRUE /\ UNCHANGED almanac
     \/ SampleGo("checksum", {"gnss"}) /\ almanac' = TRUE /\ UNCHANGED checksum
  /\ UNCHANGED <<assistVars, gnssOn, outputVars, timers, failed>>

\* factory_almanac_write: the modem's file first, then the checksum; a failure of
\* either is only logged.
FactoryAlmanac ==
  /\ \/ checksum /\ SampleGo("almanac", {"gnss"}) /\ UNCHANGED flashVars
     \/ ~checksum /\ SampleGo("almanac", {"gnss"}) /\ UNCHANGED flashVars
     \/ /\ ~checksum /\ SampleGo("almanac", {"checksum"})
        /\ almanac' = TRUE /\ UNCHANGED checksum
     \/ SampleGo("checksum", {"gnss"}) /\ checksum' \in BOOLEAN /\ UNCHANGED almanac
  /\ UNCHANGED <<assistVars, gnssOn, outputVars, timers, failed>>

\* gnss_init_and_start
StartGnss ==
  /\ \/ SampleGo("gnss", {"returned"}) /\ UNCHANGED <<gnssOn, timers>>
     \/ /\ SampleGo("gnss", {"poll"})
        /\ IF build.ttff THEN timers' = {"prepare"} /\ UNCHANGED gnssOn
           ELSE gnssOn' = TRUE /\ UNCHANGED timers
  /\ UNCHANGED <<assistVars, outputVars, failed, flashVars>>

\* The main loop: k_poll, then a position if there is one, then a sentence if
\* k_poll reported one.
MainPoll ==
  /\ pvtAvail = 1 \/ nmeaPtrs # <<>>
  /\ SampleGo("poll", {IF nmeaPtrs # <<>> THEN "nmea" ELSE "poll"})
  /\ pvtAvail' = 0
  /\ UNCHANGED <<assistVars, gnssOn, nmeaVars, timers, failed, flashVars>>

\* The sentence is printed between the two.
MainNmea ==
  /\ \/ SampleGo("nmea", {"print"}) /\ NmeaGet
     \/ SampleGo("print", {"poll"}) /\ NmeaFree
  /\ UNCHANGED <<assistVars, gnssOn, pvtAvail, timers, failed, flashVars>>

\* Mutant: a semaphore without a limit.
PvtEventCounts == /\ gnssOn /\ pvtAvail' = pvtAvail + 1
                  /\ UNCHANGED <<assistVars, gnssPc, gnssOn, nmeaVars, timers, failed, flashVars>>

\* gnss_event_handler.
PvtEvent == /\ gnssOn /\ pvtAvail' = 1
            /\ UNCHANGED <<assistVars, gnssPc, gnssOn, nmeaVars, timers, failed, flashVars>>

GnssNmea == gnssOn /\ NmeaMalloc /\ UNCHANGED <<assistVars, sampleVars>>
GnssNmeaDone == (NmeaQueued \/ NmeaNotQueued) /\ UNCHANGED <<assistVars, sampleVars>>

\* Mutant: a fix without a successor.
FixEventEnds == /\ gnssOn /\ gnssOn' = FALSE
                /\ build.ttff /\ work # "touch"
                /\ timers' = timers \cup {"gotFix"}
                /\ UNCHANGED <<assistVars, gnssPc, outputVars, failed, flashVars>>

\* In the test mode the receiver stops by itself after its single fix.
FixEvent == /\ gnssOn /\ gnssOn' = FALSE
            /\ build.ttff /\ work # "touch"
            /\ timers' = timers \cup {"gotFix", "prepare"}
            /\ UNCHANGED <<assistVars, gnssPc, outputVars, failed, flashVars>>

AgpsEvent == /\ gnssOn
             /\ \E need \in Needs : AgpsRequest(need)
             /\ UNCHANGED <<sampleVars, nmeaVars>>

Timer(w) == /\ w \in timers /\ timers' = timers \ {w}
            /\ works' = Submit(works, w)
            /\ UNCHANGED <<configVars, work, lastAgps, agpsNeed, requesting, active, lteReady,
                           suplFd, notified, loading, assisted>>
            /\ UNCHANGED <<gnssPc, gnssOn, outputVars, failed, flashVars>>

restOfAssist == <<requesting, active, agpsNeed, lteReady, suplFd, notified, loading, build>>

GotFixWork == /\ WorkGo("gotFix", "idle")
              /\ UNCHANGED <<restOfAssist, works, lastAgps, asked, overlapped, assisted,
                             sampleVars, nmeaVars>>

\* ttff_test_prepare_work_fn stops the receiver and deletes its data for a cold
\* start; with minimal assistance the factory almanac stays.
Delete == /\ WorkGo("prepare", "prepared") /\ gnssOn' = FALSE
          /\ almanac' = (almanac /\ (build.cold => build.assist = "minimal"))
          /\ assisted' = (assisted /\ ~build.cold)
          /\ UNCHANGED failed

CannotDelete == /\ build.cold /\ WorkGo("prepare", "idle") /\ gnssOn' = FALSE
                /\ failed' = TRUE
                /\ UNCHANGED <<almanac, assisted>>

Prepare ==
  /\ Delete \/ CannotDelete
  /\ UNCHANGED <<restOfAssist, works, lastAgps, asked, overlapped, gnssPc, outputVars, timers,
                 checksum>>

\* Mutant: the start of the test is submitted first.
PrepareStartsFirst ==
  /\ WorkGo("prepared", "idle") /\ build.assist # "none" /\ build.cold
  /\ lastAgps' = Everything /\ asked' = Everything /\ overlapped' = FALSE
  /\ works' = Submit(Submit(works, "startTest"), "agps")
  /\ UNCHANGED <<gnssOn, restOfAssist, assisted, gnssPc, outputVars, timers, failed, flashVars>>

\* Everything is requested before a cold start; before another one the receiver
\* runs for a moment and asks for what it misses.
PrepareAssistance ==
  /\ \/ /\ WorkGo("prepared", "idle") /\ build.assist = "none"
        /\ works' = Submit(works, "startTest")
        /\ UNCHANGED <<lastAgps, asked, overlapped, gnssOn>>
     \/ /\ WorkGo("prepared", "idle") /\ build.assist # "none" /\ build.cold
        /\ lastAgps' = Everything /\ asked' = Everything /\ overlapped' = FALSE
        /\ works' = Submit(Submit(works, "agps"), "startTest")
        /\ UNCHANGED gnssOn
     \/ /\ WorkGo("prepared", "touch") /\ build.assist # "none" /\ ~build.cold
        /\ gnssOn' = TRUE /\ UNCHANGED <<works, lastAgps, asked, overlapped>>
     \/ /\ WorkGo("touch", "idle") /\ gnssOn' = FALSE
        /\ works' = Submit(works, "startTest") /\ UNCHANGED <<lastAgps, asked, overlapped>>
  /\ UNCHANGED <<restOfAssist, assisted, gnssPc, outputVars, timers, failed, flashVars>>

StartTest ==
  /\ WorkGo("startTest", "idle")
  /\ \/ gnssOn' = TRUE /\ UNCHANGED failed
     \/ failed' = TRUE /\ UNCHANGED gnssOn
  /\ UNCHANGED <<restOfAssist, works, lastAgps, asked, overlapped, assisted, gnssPc, outputVars,
                 timers, flashVars>>

\* The board is powered off and on again.
GnssReboot ==
  /\ gnssPc # "off"
  /\ gnssPc' = "modem" /\ gnssOn' = FALSE /\ pvtAvail' = 0
  /\ nmeaMem' = {} /\ nmeaPtrs' = <<>> /\ handlerFrame' = NoFrame /\ mainFrame' = NoFrame
  /\ timers' = {} /\ failed' = FALSE
  /\ works' = <<>> /\ work' = "idle" /\ requesting' = FALSE /\ active' = FALSE
  /\ lastAgps' = Nothing /\ agpsNeed' = Nothing /\ asked' = Nothing
  /\ lteReady' = 0 /\ suplFd' = FALSE /\ notified' = FALSE /\ loading' = FALSE
  /\ overlapped' = FALSE /\ assisted' = FALSE
  /\ UNCHANGED <<build, flashVars>>

GnssMain == InitModem \/ FactoryAlmanac \/ StartGnss \/ MainPoll \/ MainNmea
GnssWork == AssistWork /\ UNCHANGED <<sampleVars, nmeaVars>>
TtffWork == GotFixWork \/ Prepare \/ PrepareAssistance \/ StartTest
GnssEvents == \/ PvtEvent \/ GnssNmea \/ FixEvent \/ AgpsEvent
              \/ \E w \in timers : Timer(w)
              \/ /\ gnssPc \in GnssLoop /\ (LteRegistered \/ PgpsEvent)
                 /\ UNCHANGED <<sampleVars, nmeaVars>>

\* Nothing else runs while the handler has a frame.
GnssNext == \/ handlerFrame = NoFrame /\ (GnssMain \/ GnssWork \/ TtffWork \/ GnssEvents)
            \/ GnssNmeaDone \/ GnssReboot

GnssIdle == /\ AssistIdle
            /\ gnssOn = FALSE /\ pvtAvail = 0
            /\ timers = {} /\ failed = FALSE /\ almanac = FALSE /\ checksum = FALSE
GnssInit == gnssPc = "modem" /\ build \in Builds /\ GnssIdle /\ NoFrames
GnssSpec == GnssInit /\ [][GnssNext]_<<assistVars, sampleVars, nmeaVars>>
-----------------------------------------------------------------------------
GnssTypeOK ==
  /\ gnssPc \in {"off", "modem", "sample", "almanac", "checksum", "gnss", "poll", "nmea",
                 "print", "returned"}
  /\ build \in Builds
  /\ work \in AssistSteps \cup {"gotFix", "prepare", "prepared", "touch", "startTest"}
  /\ {lastAgps, agpsNeed, asked} \subseteq Needs \cup {Nothing}
  /\ lteReady \in 0..1 /\ pvtAvail \in 0..1
  /\ timers \subseteq {"gotFix", "prepare"}

\* Flash never claims that the modem has the factory almanac when it has not:
\* not after a power cycle between the two writes, nor after a cold start.
AlmanacKept == (build.assist = "minimal" /\ checksum) => almanac

\* In cold-start tests the receiver only starts once everything was requested
\* since its data was deleted: the works are served in the order of submission.
ColdStartAssisted ==
  (build.ttff /\ build.cold /\ build.assist # "none" /\ gnssOn) => assisted

\* The test mode goes on unless one of its calls failed.
TestGoesOn ==
  (build.ttff /\ gnssPc \in GnssLoop /\ ~failed) =>
    \/ gnssOn \/ "prepare" \in timers \/ work \in {"prepare", "prepared", "touch", "startTest"}
    \/ Contains(works, "prepare") \/ Contains(works, "startTest")
=============================================================================
