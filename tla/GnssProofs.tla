----------------------------- MODULE GnssProofs -----------------------------
(***************************************************************************)
(* Proofs about the GNSS bench program for every set of builds and needs,  *)
(* and every queue and heap size: no work leaves the output paused, flash  *)
(* never claims an almanac that is not there, predictions are for the last *)
(* need, and the test mode goes on and starts assisted.                    *)
(***************************************************************************)
EXTENDS GnssSample, SequenceTheorems, TLAPS

gnssAll == <<assistVars, sampleVars, nmeaVars>>

\* Steps that touch neither the assistance nor its work queue.
Bystander == InitModem \/ FactoryAlmanac \/ StartGnss \/ MainPoll \/ MainNmea
             \/ PvtEvent \/ GnssNmea \/ GnssNmeaDone \/ FixEvent

LEMMA BystanderStep == Bystander => UNCHANGED assistVars
  BY DEF Bystander, InitModem, FactoryAlmanac, StartGnss, MainPoll, MainNmea, PvtEvent,
         GnssNmea, GnssNmeaDone, FixEvent

\* All steps, by the parts of the state they work on.
LEMMA GnssSteps ==
  ASSUME [GnssNext]_gnssAll
  PROVE  \/ Bystander
         \/ AssistWork /\ UNCHANGED sampleVars
         \/ AgpsEvent
         \/ gnssPc \in GnssLoop /\ (LteRegistered \/ PgpsEvent) /\ UNCHANGED sampleVars
         \/ \E w \in timers : Timer(w)
         \/ GotFixWork \/ Prepare \/ PrepareAssistance \/ StartTest
         \/ GnssReboot
         \/ UNCHANGED gnssAll
  BY DEF Bystander, GnssNext, GnssMain, GnssWork, TtffWork, GnssEvents

\* The build never changes.
LEMMA AssistFixed == AssistWork => build' = build
  BY DEF AssistWork, Dequeue, AgpsDataGet, LteConnect, StoreNeed, MaskEphemerides, Begin,
     StartRest, StartSupl, InjectMinimal, FinishRequest, AgpsDone, PgpsWork, configVars

LEMMA BuildFixed == [GnssNext]_gnssAll => build' = build
<1> SUFFICES ASSUME [GnssNext]_gnssAll PROVE build' = build
  OBVIOUS
<1>1. CASE AssistWork
  BY <1>1, AssistFixed
<1>2. CASE AgpsEvent \/ LteRegistered \/ PgpsEvent \/ \E w \in timers : Timer(w)
  BY <1>2 DEF AgpsEvent, AgpsRequest, LteRegistered, PgpsEvent, Timer, configVars
<1>3. CASE GotFixWork \/ Prepare \/ PrepareAssistance \/ StartTest
  BY <1>3 DEF GotFixWork, Prepare, PrepareAssistance, StartTest, restOfAssist
<1>4. CASE GnssReboot \/ UNCHANGED gnssAll
  BY <1>4 DEF GnssReboot, gnssAll, assistVars
<1>5. CASE Bystander
  BY <1>5, BystanderStep DEF assistVars
<1> QED
  BY <1>1, <1>2, <1>3, <1>4, <1>5, GnssSteps

-----------------------------------------------------------------------------
(* The flags that pause the output. *)

\* Each flag belongs to the steps that may leave it set; loading predictions, which
\* is not a work, may set assistance_active as well.
FlagInv ==
  /\ requesting => work \in {"connect", "await", "request", "mask", "rest", "session", "done"}
  /\ active => loading \/ work \in {"rest", "session", "fetch", "inject"}
  /\ suplFd => work = "session"

flagVars == <<requesting, active, suplFd, loading, work>>

LEMMA FlagStep == FlagInv /\ [GnssNext]_gnssAll => FlagInv'
<1> SUFFICES ASSUME FlagInv, [GnssNext]_gnssAll PROVE FlagInv'
  OBVIOUS
<1> USE DEF FlagInv, WorkGo
<1>1. CASE Dequeue \/ AgpsDataGet \/ LteConnect
  BY <1>1 DEF Dequeue, AgpsDataGet, LteConnect
<1>2. CASE StoreNeed \/ MaskEphemerides
  BY <1>2 DEF StoreNeed, MaskEphemerides
<1>3. CASE StartRest \/ StartSupl \/ InjectMinimal
  BY <1>3 DEF StartRest, StartSupl, InjectMinimal, Begin
<1>4. CASE FinishRequest \/ AgpsDone \/ PgpsWork
  BY <1>4 DEF FinishRequest, AgpsDone, PgpsWork
<1>5. CASE PgpsEvent
  BY <1>5 DEF PgpsEvent
<1>6. CASE GotFixWork \/ Prepare \/ PrepareAssistance \/ StartTest
  BY <1>6 DEF GotFixWork, Prepare, Delete, CannotDelete, PrepareAssistance, StartTest, restOfAssist
<1>7. CASE GnssReboot
  BY <1>7 DEF GnssReboot
<1>8. CASE UNCHANGED flagVars
  BY <1>8 DEF flagVars
<1>9. Bystander \/ UNCHANGED gnssAll => UNCHANGED flagVars
  BY BystanderStep DEF gnssAll, assistVars, flagVars
<1>10. AgpsEvent \/ LteRegistered \/ (\E w \in timers : Timer(w)) => UNCHANGED flagVars
  BY DEF AgpsEvent, AgpsRequest, LteRegistered, Timer, flagVars
<1> QED
  BY <1>1, <1>2, <1>3, <1>4, <1>5, <1>6, <1>7, <1>8, <1>9, <1>10, GnssSteps DEF AssistWork

\* Whatever fails in whatever work, the output is not paused and no socket is open
\* once the thread is idle and no predictions are loaded.
THEOREM Resumes == GnssSpec => []OutputResumes
<1>1. GnssInit => FlagInv
  BY DEF GnssInit, GnssIdle, AssistIdle, FlagInv
<1>2. FlagInv => OutputResumes
  BY DEF FlagInv, OutputResumes, OutputPaused
<1> QED
  BY <1>1, <1>2, FlagStep, PTL DEF GnssSpec, gnssAll

-----------------------------------------------------------------------------
(* The factory almanac and the checksum that vouches for it. *)

AlmanacInv ==
  (build.assist = "minimal" /\ (checksum \/ gnssPc = "checksum")) => almanac

LEMMA AlmanacStep == AlmanacInv /\ [GnssNext]_gnssAll => AlmanacInv'
<1> SUFFICES ASSUME AlmanacInv, [GnssNext]_gnssAll PROVE AlmanacInv'
  OBVIOUS
<1> USE BuildFixed DEF AlmanacInv, flashVars
<1>1. CASE InitModem \/ StartGnss \/ MainPoll \/ MainNmea
  BY <1>1 DEF InitModem, StartGnss, MainPoll, MainNmea, SampleGo
<1>2. CASE FactoryAlmanac
  BY <1>2 DEF FactoryAlmanac, SampleGo
<1>3. CASE Prepare
  BY <1>3 DEF Prepare, Delete, CannotDelete
<1>4. CASE GnssReboot
  BY <1>4 DEF GnssReboot
<1>5. CASE UNCHANGED <<gnssPc, flashVars>>
  BY <1>5
<1>6. PvtEvent \/ GnssNmea \/ GnssNmeaDone \/ FixEvent => UNCHANGED <<gnssPc, flashVars>>
  BY DEF PvtEvent, GnssNmea, GnssNmeaDone, sampleVars, FixEvent
<1>7. AgpsEvent \/ UNCHANGED sampleVars => UNCHANGED <<gnssPc, flashVars>>
  BY DEF AgpsEvent, sampleVars
<1>8. (\E w \in timers : Timer(w)) \/ GotFixWork => UNCHANGED <<gnssPc, flashVars>>
  BY DEF Timer, GotFixWork, sampleVars
<1>9. PrepareAssistance \/ StartTest => UNCHANGED <<gnssPc, flashVars>>
  BY DEF PrepareAssistance, StartTest
<1>10. UNCHANGED gnssAll => UNCHANGED sampleVars
  BY DEF gnssAll
<1> QED
  BY <1>1, <1>2, <1>3, <1>4, <1>5, <1>6, <1>7, <1>8, <1>9, <1>10, GnssSteps DEF Bystander

\* Neither a power cycle between the two writes, nor a failing write, nor a cold
\* start leaves the checksum without the almanac.
THEOREM AlmanacThere == GnssSpec => []AlmanacKept
<1>1. GnssInit => AlmanacInv
  BY DEF GnssInit, GnssIdle, AlmanacInv
<1>2. AlmanacInv => AlmanacKept
  BY DEF AlmanacInv, AlmanacKept
<1> QED
  BY <1>1, <1>2, AlmanacStep, PTL DEF GnssSpec, gnssAll

-----------------------------------------------------------------------------
(* The work queue. *)

Works == {"agps", "getPgps", "injectPgps", "gotFix", "prepare", "startTest"}

LEMMA WorkNames == \A w \in {"agps", "getPgps", "injectPgps", "gotFix", "prepare", "startTest"} : w \in Works
  BY DEF Works

\* No work waits twice.
Distinct(q) == \A i, j \in 1..Len(q) : q[i] = q[j] => i = j

LEMMA SubmitWaits ==
  ASSUME NEW q \in Seq(Works), Distinct(q), NEW w \in Works
  PROVE  /\ Submit(q, w) \in Seq(Works) /\ Distinct(Submit(q, w))
         /\ \A x : Contains(Submit(q, w), x) <=> Contains(q, x) \/ x = w
<1>1. CASE Contains(q, w)
  BY <1>1 DEF Submit
<1>2. CASE ~Contains(q, w)
  <2>1. Submit(q, w) = Append(q, w) /\ Submit(q, w) \in Seq(Works)
    BY <1>2, AppendProperties DEF Submit
  <2>2. Len(Append(q, w)) = Len(q) + 1 /\ Append(q, w)[Len(q) + 1] = w /\ Len(q) \in Nat
    BY AppendProperties
  <2>3. \A i \in 1..Len(q) : Append(q, w)[i] = q[i]
    BY AppendProperties
  <2>4. Distinct(Append(q, w))
    BY <1>2, <2>2, <2>3 DEF Distinct, Contains
  <2>5. ASSUME NEW x PROVE Contains(Append(q, w), x) <=> Contains(q, x) \/ x = w
    BY <2>2, <2>3 DEF Contains
  <2> QED
    BY <2>1, <2>4, <2>5
<1> QED
  BY <1>1, <1>2

LEMMA DequeueWaits ==
  ASSUME NEW q \in Seq(Works), Distinct(q), q # <<>>
  PROVE  /\ Tail(q) \in Seq(Works) /\ Distinct(Tail(q)) /\ Head(q) \in Works
         /\ Contains(q, Head(q))
         /\ \A x : Contains(Tail(q), x) <=> Contains(q, x) /\ x # Head(q)
<1>1. Tail(q) \in Seq(Works) /\ Len(Tail(q)) = Len(q) - 1 /\ Head(q) = q[1] /\ Head(q) \in Works
  BY HeadTailProperties, EmptySeq
<1>2. \A i \in 1..Len(Tail(q)) : Tail(q)[i] = q[i + 1]
  BY HeadTailProperties
<1>3. Len(q) \in Nat \ {0}
  BY EmptySeq
<1>4. Distinct(Tail(q))
  BY <1>1, <1>2, <1>3 DEF Distinct
<1>5. Contains(q, Head(q))
  BY <1>1, <1>3 DEF Contains
<1>6. ASSUME NEW x, Contains(Tail(q), x) PROVE Contains(q, x) /\ x # Head(q)
  <2>1. PICK i \in 1..Len(Tail(q)) : Tail(q)[i] = x
    BY <1>6 DEF Contains
  <2>2. i + 1 \in 1..Len(q) /\ q[i + 1] = x /\ i + 1 # 1 /\ 1 \in 1..Len(q)
    BY <1>1, <1>2, <1>3, <2>1
  <2> QED
    BY <1>1, <2>2 DEF Contains, Distinct
<1>7. ASSUME NEW x, Contains(q, x), x # Head(q) PROVE Contains(Tail(q), x)
  <2>1. PICK i \in 1..Len(q) : q[i] = x
    BY <1>7 DEF Contains
  <2>2. i - 1 \in 1..Len(Tail(q)) /\ Tail(q)[i - 1] = x
    BY <1>1, <1>2, <1>3, <1>7, <2>1
  <2> QED
    BY <2>2 DEF Contains
<1> QED
  BY <1>1, <1>4, <1>5, <1>6, <1>7

QueueInv == works \in Seq(Works) /\ Distinct(works) /\ timers \subseteq {"gotFix", "prepare"}

\* How a step changes the queue: it takes the head, or submits works, or is a reboot.
LEMMA QueueStep ==
  ASSUME QueueInv, [GnssNext]_gnssAll
  PROVE  QueueInv'
<1> USE SubmitWaits, WorkNames DEF QueueInv
<1>1. CASE Dequeue /\ UNCHANGED timers
  BY <1>1, DequeueWaits DEF Dequeue
<1>2. CASE PgpsEvent /\ UNCHANGED timers
  <2>1. \/ works' = works
        \/ works' = Submit(works, "injectPgps")
        \/ works' = Submit(works, "getPgps")
    BY <1>2 DEF PgpsEvent
  <2>2. /\ Submit(works, "injectPgps") \in Seq(Works) /\ Submit(works, "getPgps") \in Seq(Works)
        /\ Distinct(Submit(works, "injectPgps")) /\ Distinct(Submit(works, "getPgps"))
    OBVIOUS
  <2>3. timers' = timers
    BY <1>2
  <2>4. works' \in Seq(Works)
    BY <2>1, <2>2
  <2>5. Distinct(works')
    BY <2>1, <2>2
  <2> QED
    BY <2>3, <2>4, <2>5
<1>3. CASE AgpsEvent
  BY <1>3 DEF AgpsEvent, AgpsRequest, sampleVars
<1>4. CASE \E w \in timers : Timer(w)
  <2> PICK w \in timers : Timer(w)
    BY <1>4
  <2>1. w \in Works /\ works' = Submit(works, w) /\ timers' \subseteq timers
    BY DEF Timer
  <2> QED
    BY <2>1
<1>5. CASE PrepareAssistance
  <2>1. \/ works' = works
        \/ works' = Submit(works, "startTest")
        \/ works' = Submit(Submit(works, "agps"), "startTest")
    BY <1>5 DEF PrepareAssistance
  <2>2. timers' = timers
    BY <1>5 DEF PrepareAssistance
  <2>3. \A w \in Works : Submit(works, w) \in Seq(Works) /\ Distinct(Submit(works, w))
    OBVIOUS
  <2>4. /\ Submit(Submit(works, "agps"), "startTest") \in Seq(Works)
        /\ Distinct(Submit(Submit(works, "agps"), "startTest"))
    BY <2>3
  <2> QED
    BY <2>1, <2>2, <2>3, <2>4
<1>6. CASE GnssReboot
  BY <1>6 DEF GnssReboot, Distinct
<1>7. CASE UNCHANGED works /\ timers' \in {timers, {"prepare"}, timers \cup {"gotFix", "prepare"}}
  BY <1>7
<1>8. ASSUME Bystander \/ UNCHANGED gnssAll
      PROVE UNCHANGED works /\ timers' \in {timers, {"prepare"}, timers \cup {"gotFix", "prepare"}}
  BY <1>8, BystanderStep DEF Bystander, gnssAll, assistVars, sampleVars, InitModem, FactoryAlmanac,
     StartGnss, MainPoll, MainNmea, PvtEvent, GnssNmea, GnssNmeaDone, FixEvent
<1>9. GotFixWork \/ Prepare \/ StartTest => UNCHANGED <<works, timers>>
  BY DEF GotFixWork, Prepare, StartTest, sampleVars
<1>10. UNCHANGED sampleVars => UNCHANGED timers
  BY DEF sampleVars
<1>11. LteRegistered => UNCHANGED works
  BY DEF LteRegistered
<1>12. AssistWork /\ ~Dequeue => UNCHANGED works
  BY DEF AssistWork, AgpsDataGet, LteConnect, StoreNeed, MaskEphemerides, Begin,
     StartRest, StartSupl, InjectMinimal, FinishRequest, AgpsDone, PgpsWork
<1> QED
  BY <1>1, <1>2, <1>3, <1>4, <1>5, <1>6, <1>7, <1>8, <1>9, <1>10, <1>11, <1>12, GnssSteps

LEMMA QueueAlways == GnssSpec => []QueueInv
<1>1. GnssInit => QueueInv
  BY DEF GnssInit, GnssIdle, AssistIdle, QueueInv, Distinct
<1> QED
  BY <1>1, QueueStep, PTL DEF GnssSpec, gnssAll

-----------------------------------------------------------------------------
(* The need that predictions are injected for. *)

\* The steps of the work up to the point where P-GPS has taken the need over, and
\* the one behind it where the need is masked for A-GPS.
Taking == {"agps", "request"}

NeedInv ==
  /\ Pgps => work \notin {"connect", "await"} /\ ~build.onDemand
  /\ (Pgps /\ ~overlapped) =>
       /\ Contains(works, "agps") => lastAgps = asked /\ work \notin Taking \cup {"mask"}
       /\ work \in Taking => lastAgps = asked
       /\ ~Contains(works, "agps") /\ work \notin Taking => agpsNeed = asked

needVars == <<build, work, works, lastAgps, agpsNeed, asked, overlapped>>

LEMMA NeedStep ==
  ASSUME QueueInv, NeedInv, [GnssNext]_gnssAll
  PROVE  NeedInv'
<1> USE BuildFixed DEF NeedInv, Pgps, Taking, WorkGo, configVars
<1>1. CASE Dequeue
  <2>1. /\ work = "idle" /\ work' = Head(works)
        /\ \A x : Contains(works', x) <=> Contains(works, x) /\ x # Head(works)
        /\ Contains(works, Head(works)) /\ Head(works) \in Works
    BY <1>1, DequeueWaits DEF Dequeue, QueueInv
  <2>2. UNCHANGED <<build, lastAgps, agpsNeed, asked, overlapped>>
    BY <1>1 DEF Dequeue
  <2> QED
    BY <2>1, <2>2 DEF Works
<1>2. CASE AgpsDataGet \/ LteConnect
  BY <1>2 DEF AgpsDataGet, LteConnect, Ignored
<1>3. CASE StoreNeed
  BY <1>3 DEF StoreNeed
<1>4. CASE MaskEphemerides
  BY <1>4 DEF MaskEphemerides
<1>5. CASE StartRest \/ StartSupl \/ InjectMinimal
  BY <1>5 DEF StartRest, StartSupl, InjectMinimal, Begin
<1>6. CASE FinishRequest \/ AgpsDone \/ PgpsWork
  BY <1>6 DEF FinishRequest, AgpsDone, PgpsWork
<1>7. CASE AgpsEvent
  <2>1. PICK need \in Needs : AgpsRequest(need)
    BY <1>7 DEF AgpsEvent
  <2>2. Contains(works', "agps")
    BY <2>1, SubmitWaits, WorkNames DEF AgpsRequest, QueueInv
  <2> QED
    BY <2>1, <2>2 DEF AgpsRequest
<1>8. CASE PgpsEvent
  <2>1. works' = works \/ works' = Submit(works, "injectPgps") \/ works' = Submit(works, "getPgps")
    BY <1>8 DEF PgpsEvent
  <2>2. /\ Contains(Submit(works, "injectPgps"), "agps") <=> Contains(works, "agps")
        /\ Contains(Submit(works, "getPgps"), "agps") <=> Contains(works, "agps")
    BY SubmitWaits, WorkNames DEF QueueInv
  <2>3. Contains(works', "agps") <=> Contains(works, "agps")
    BY <2>1, <2>2
  <2> QED
    BY <1>8, <2>3 DEF PgpsEvent
<1>9. CASE \E w \in timers : Timer(w)
  <2>1. PICK w \in timers : Timer(w)
    BY <1>9
  <2>2. w \in Works /\ w # "agps" /\ works' = Submit(works, w)
    BY <2>1, WorkNames DEF Timer, QueueInv
  <2>3. Contains(works', "agps") <=> Contains(works, "agps")
    BY <2>2, SubmitWaits DEF QueueInv
  <2> QED
    BY <2>1, <2>3 DEF Timer
<1>10. CASE PrepareAssistance
  <2>1. \/ works' = works
        \/ works' = Submit(works, "startTest")
        \/ works' = Submit(Submit(works, "agps"), "startTest") /\ lastAgps' = asked'
    BY <1>10 DEF PrepareAssistance
  <2>2. /\ Submit(works, "agps") \in Seq(Works) /\ Distinct(Submit(works, "agps"))
        /\ Contains(Submit(works, "agps"), "agps")
        /\ Contains(Submit(works, "startTest"), "agps") <=> Contains(works, "agps")
    BY SubmitWaits, WorkNames DEF QueueInv
  <2>3. Contains(Submit(Submit(works, "agps"), "startTest"), "agps")
    BY <2>2, SubmitWaits, WorkNames
  <2> QED
    BY <1>10, <2>1, <2>2, <2>3 DEF PrepareAssistance, restOfAssist
<1>11. CASE GnssReboot
  BY <1>11 DEF GnssReboot
<1>12. CASE GotFixWork \/ Prepare \/ StartTest
  BY <1>12 DEF GotFixWork, Prepare, Delete, CannotDelete, StartTest, restOfAssist
<1>13. CASE UNCHANGED needVars
  BY <1>13 DEF needVars
<1>14. Bystander \/ LteRegistered \/ UNCHANGED gnssAll => UNCHANGED needVars
  BY BystanderStep DEF LteRegistered, gnssAll, assistVars, needVars
<1> QED
  BY <1>1, <1>2, <1>3, <1>4, <1>5, <1>6, <1>7, <1>8, <1>9, <1>10, <1>11, <1>12, <1>13, <1>14,
     GnssSteps DEF AssistWork

\* The last need of the modem is the one stored for P-GPS, although it is passed
\* through a variable that the event handler and the work both write.
THEOREM NeedNotLost == GnssSpec => []NeedKept
<1>1. GnssInit => NeedInv
  BY BuildsAssumption DEF GnssInit, GnssIdle, AssistIdle, NeedInv, Pgps, Taking, Contains
<1>2. NeedInv => NeedKept
  BY DEF NeedInv, NeedKept, Taking
<1> QED
  BY <1>1, <1>2, QueueAlways, NeedStep, PTL DEF GnssSpec, gnssAll

-----------------------------------------------------------------------------
(* The test mode goes on, and starts assisted. *)

\* What a step does to the works of the test mode.
LEMMA DequeueTest ==
  ASSUME QueueInv, Dequeue
  PROVE  /\ work = "idle" /\ work' = Head(works) /\ works' = Tail(works) /\ works # <<>>
         /\ \A x : Contains(works', x) <=> Contains(works, x) /\ x # Head(works)
         /\ Contains(works, Head(works)) /\ Head(works) \in Works
  BY DequeueWaits DEF Dequeue, QueueInv

LEMMA OthersWait ==
  ASSUME QueueInv,
         PgpsEvent \/ AgpsEvent \/ (LteRegistered /\ UNCHANGED sampleVars)
  PROVE  \A x \in {"prepare", "startTest"} : Contains(works', x) <=> Contains(works, x)
<1>1. /\ "injectPgps" \in Works /\ "getPgps" \in Works /\ "agps" \in Works
  BY WorkNames
<1>2. \A w \in Works : \A x : Contains(Submit(works, w), x) <=> Contains(works, x) \/ x = w
  BY SubmitWaits DEF QueueInv
<1>3. \/ works' = works \/ works' = Submit(works, "injectPgps")
      \/ works' = Submit(works, "getPgps") \/ works' = Submit(works, "agps")
  BY DEF PgpsEvent, AgpsEvent, AgpsRequest, LteRegistered
<1>4. ASSUME NEW x \in {"prepare", "startTest"}
      PROVE  Contains(works', x) <=> Contains(works, x)
  <2>1. x # "injectPgps" /\ x # "getPgps" /\ x # "agps"
    BY <1>4
  <2>2. CASE works' = works
    BY <2>2
  <2>3. CASE works' = Submit(works, "injectPgps")
    BY <2>3, <2>1, <1>1, <1>2
  <2>4. CASE works' = Submit(works, "getPgps")
    BY <2>4, <2>1, <1>1, <1>2
  <2>5. CASE works' = Submit(works, "agps")
    BY <2>5, <2>1, <1>1, <1>2
  <2> QED
    BY <1>3, <2>2, <2>3, <2>4, <2>5
<1> QED
  BY <1>4

LEMMA TimerWaits ==
  ASSUME QueueInv, NEW w \in timers, Timer(w)
  PROVE  /\ w \in {"gotFix", "prepare"} /\ timers' = timers \ {w}
         /\ \A x : Contains(works', x) <=> Contains(works, x) \/ x = w
         /\ UNCHANGED <<build, work, lastAgps, assisted, gnssPc, gnssOn, failed>>
<1>1. w \in {"gotFix", "prepare"} /\ w \in Works /\ works' = Submit(works, w)
  BY WorkNames DEF Timer, QueueInv
<1> QED
  BY <1>1, SubmitWaits DEF Timer, QueueInv, configVars

LEMMA GoesOnStep ==
  ASSUME QueueInv, TestGoesOn, [GnssNext]_gnssAll
  PROVE  TestGoesOn'
<1> USE BuildFixed DEF TestGoesOn, WorkGo, GnssLoop
<1>1. CASE Dequeue /\ UNCHANGED sampleVars
  BY <1>1, DequeueTest DEF sampleVars
<1>2. CASE AssistWork /\ ~Dequeue /\ UNCHANGED sampleVars
  <2>1. UNCHANGED works /\ work \notin {"prepare", "prepared", "touch", "startTest"}
    BY <1>2 DEF AssistWork, AgpsDataGet, LteConnect, StoreNeed, MaskEphemerides, Begin,
       StartRest, StartSupl, InjectMinimal, FinishRequest, AgpsDone, PgpsWork
  <2> QED
    BY <1>2, <2>1 DEF sampleVars
<1>3. CASE (PgpsEvent \/ LteRegistered) /\ UNCHANGED sampleVars
  <2>1. work' = work
    BY <1>3 DEF PgpsEvent, LteRegistered
  <2> QED
    BY <1>3, <2>1, OthersWait DEF sampleVars
<1>4. CASE AgpsEvent
  <2>1. work' = work
    BY <1>4 DEF AgpsEvent, AgpsRequest
  <2> QED
    BY <1>4, <2>1, OthersWait DEF AgpsEvent, sampleVars
<1>5. CASE \E w \in timers : Timer(w)
  <2> PICK w \in timers : Timer(w)
    BY <1>5
  <2> QED
    BY TimerWaits
<1>6. CASE InitModem \/ FactoryAlmanac \/ StartGnss \/ MainPoll \/ MainNmea
  BY <1>6 DEF InitModem, FactoryAlmanac, StartGnss, MainPoll, MainNmea, SampleGo, assistVars
<1>7. CASE PvtEvent \/ GnssNmea \/ GnssNmeaDone \/ FixEvent
  BY <1>7 DEF PvtEvent, GnssNmea, GnssNmeaDone, sampleVars, FixEvent, assistVars
<1>8. CASE GotFixWork \/ Prepare \/ StartTest
  BY <1>8 DEF GotFixWork, Prepare, Delete, CannotDelete, StartTest, restOfAssist, sampleVars
<1>9. CASE PrepareAssistance
  <2>1. /\ Contains(Submit(works, "startTest"), "startTest")
        /\ Submit(works, "agps") \in Seq(Works) /\ Distinct(Submit(works, "agps"))
    BY SubmitWaits, WorkNames DEF QueueInv
  <2>2. Contains(Submit(Submit(works, "agps"), "startTest"), "startTest")
    BY <2>1, SubmitWaits, WorkNames
  <2>3. \/ work' = "touch"
        \/ works' = Submit(works, "startTest")
        \/ works' = Submit(Submit(works, "agps"), "startTest")
    BY <1>9 DEF PrepareAssistance
  <2>4. CASE work' = "touch"
    BY <2>4
  <2>5. CASE Contains(works', "startTest")
    BY <2>5, Zenon
  <2> QED
    BY <2>1, <2>2, <2>3, <2>4, <2>5
<1>10. CASE GnssReboot
  BY <1>10 DEF GnssReboot
<1>11. CASE UNCHANGED gnssAll
  BY <1>11 DEF gnssAll, assistVars, sampleVars
<1> QED
  BY <1>1, <1>2, <1>3, <1>4, <1>5, <1>6, <1>7, <1>8, <1>9, <1>10, <1>11, GnssSteps DEF Bystander

\* As long as its calls succeed the test mode never comes to a stop: the receiver
\* runs, or a timer or a work that leads to its next start is there.
THEOREM KeepsTesting == GnssSpec => []TestGoesOn
<1>1. GnssInit => TestGoesOn
  BY DEF GnssInit, TestGoesOn, GnssLoop
<1> QED
  BY <1>1, QueueAlways, GoesOnStep, PTL DEF GnssSpec, gnssAll

-----------------------------------------------------------------------------
\* Every start of the test waits behind a request.
Ahead(q) == \A j \in 1..Len(q) : q[j] = "startTest" => \E i \in 1..Len(q) : i < j /\ q[i] = "agps"

LEMMA AheadSubmit ==
  ASSUME NEW q \in Seq(Works), NEW w \in Works, Ahead(q),
         w = "startTest" => Contains(q, "agps")
  PROVE  Ahead(Submit(q, w))
<1>1. CASE Contains(q, w)
  BY <1>1 DEF Submit
<1>2. CASE ~Contains(q, w)
  <2>1. /\ Submit(q, w) = Append(q, w) /\ Len(Append(q, w)) = Len(q) + 1 /\ Len(q) \in Nat
        /\ Append(q, w)[Len(q) + 1] = w
        /\ \A i \in 1..Len(q) : Append(q, w)[i] = q[i]
    BY <1>2, AppendProperties DEF Submit
  <2> SUFFICES ASSUME NEW j \in 1..(Len(q) + 1), Append(q, w)[j] = "startTest"
               PROVE  \E i \in 1..(Len(q) + 1) : i < j /\ Append(q, w)[i] = "agps"
    BY <2>1 DEF Ahead
  <2>2. CASE j = Len(q) + 1
    BY <2>1, <2>2 DEF Contains
  <2>3. CASE j \in 1..Len(q)
    BY <2>1, <2>3 DEF Ahead
  <2> QED
    BY <2>1, <2>2, <2>3
<1> QED
  BY <1>1, <1>2

LEMMA AheadDequeue ==
  ASSUME NEW q \in Seq(Works), q # <<>>, Ahead(q)
  PROVE  /\ Head(q) # "startTest"
         /\ Head(q) # "agps" => Ahead(Tail(q))
<1>1. /\ Len(q) \in Nat \ {0} /\ Head(q) = q[1] /\ Len(Tail(q)) = Len(q) - 1
      /\ \A i \in 1..Len(Tail(q)) : Tail(q)[i] = q[i + 1]
  BY HeadTailProperties, EmptySeq
<1>2. Head(q) # "startTest"
  BY <1>1 DEF Ahead
<1>3. ASSUME Head(q) # "agps", NEW j \in 1..Len(Tail(q)), Tail(q)[j] = "startTest"
      PROVE  \E i \in 1..Len(Tail(q)) : i < j /\ Tail(q)[i] = "agps"
  <2>1. j + 1 \in 1..Len(q) /\ q[j + 1] = "startTest"
    BY <1>1, <1>3
  <2>2. PICK i \in 1..Len(q) : i < j + 1 /\ q[i] = "agps"
    BY <2>1 DEF Ahead
  <2>3. i # 1
    BY <1>1, <1>3, <2>2
  <2>4. i - 1 \in 1..Len(Tail(q)) /\ i - 1 < j /\ Tail(q)[i - 1] = "agps"
    BY <1>1, <2>2, <2>3
  <2> QED
    BY <2>4
<1> QED
  BY <1>2, <1>3 DEF Ahead

Cold == build.ttff /\ build.cold /\ build.assist # "none"
Looping == gnssPc \in GnssLoop
TestWork == work \in {"prepare", "prepared", "touch", "startTest"}
TestWaits == Contains(works, "prepare") \/ Contains(works, "startTest")

\* The way to a request of everything: its work has begun, or waits ahead.
OnTheWay == /\ lastAgps = Everything
            /\ \/ work \in {"agps", "connect", "await", "request"}
               \/ work # "mask" /\ Ahead(works)

\* In cold-start tests exactly one thing leads to the next start: the receiver, a
\* timer, a waiting work, or the running one; and a start that is not assisted yet
\* has a request on the way.
ColdInv == Cold =>
  /\ ~Looping => ~gnssOn /\ timers = {} /\ works = <<>> /\ work = "idle"
  /\ gnssOn => "prepare" \notin timers /\ ~TestWaits /\ ~TestWork /\ assisted
  /\ "prepare" \in timers => ~TestWaits /\ ~TestWork
  /\ TestWaits => ~TestWork /\ ~(Contains(works, "prepare") /\ Contains(works, "startTest"))
  /\ work # "touch"
  /\ work = "startTest" => assisted
  /\ Contains(works, "startTest") => assisted \/ OnTheWay

LEMMA ColdDequeue ==
  ASSUME QueueInv, ColdInv, Dequeue, UNCHANGED sampleVars
  PROVE  ColdInv'
<1> SUFFICES ASSUME Cold PROVE ColdInv'
  BY DEF ColdInv, Cold, Dequeue, configVars
<1> DEFINE w == Head(works)
<1>1. /\ work = "idle" /\ work' = w /\ w \in Works /\ Contains(works, w)
      /\ \A x : Contains(works', x) <=> Contains(works, x) /\ x # w
      /\ works' = Tail(works) /\ works # <<>>
  BY DequeueTest
<1>2. /\ UNCHANGED <<gnssOn, gnssPc, timers, lastAgps, assisted>>
  BY DEF Dequeue, sampleVars
<1>3. w # "touch" /\ w # "mask" /\ w # "prepared"
  BY <1>1 DEF Works
<1>4. Looping
  BY <1>1 DEF ColdInv
<1>5. Contains(works, "startTest") /\ ~assisted =>
        /\ lastAgps = Everything /\ w # "startTest"
        /\ w = "agps" \/ Ahead(works')
  BY <1>1, AheadDequeue DEF ColdInv, OnTheWay, QueueInv
<1>6. OnTheWay' \/ assisted \/ ~Contains(works', "startTest")
  BY <1>1, <1>2, <1>3, <1>5 DEF OnTheWay
<1>7. w = "startTest" => assisted
  BY <1>1, <1>5
<1>8. gnssOn \/ "prepare" \in timers => w # "prepare" /\ w # "startTest"
  BY <1>1 DEF ColdInv, TestWaits
<1>9. w \in {"prepare", "startTest"} => ~TestWaits'
  BY <1>1 DEF ColdInv, TestWaits
<1>10. TestWaits' => TestWaits
  BY <1>1 DEF TestWaits
<1>11. TestWork' <=> w \in {"prepare", "startTest"}
  BY <1>1, <1>3 DEF TestWork
<1> QED
  BY <1>1, <1>2, <1>3, <1>4, <1>6, <1>7, <1>8, <1>9, <1>10, <1>11
  DEF ColdInv, Looping, GnssLoop, TestWaits

\* The other steps of the work submit nothing, and those that begin a request of
\* everything make the start assisted.
LEMMA ColdWork ==
  ASSUME QueueInv, ColdInv, AssistWork, ~Dequeue, UNCHANGED sampleVars
  PROVE  ColdInv'
<1> SUFFICES ASSUME Cold, build' = build PROVE ColdInv'
  BY AssistFixed DEF ColdInv, Cold
<1>1. UNCHANGED <<works, gnssOn, gnssPc, timers>> /\ ~TestWork /\ work # "idle"
  BY DEF AssistWork, AgpsDataGet, LteConnect, StoreNeed, MaskEphemerides, Begin, StartRest,
     StartSupl, InjectMinimal, FinishRequest, AgpsDone, PgpsWork, WorkGo, TestWork, sampleVars
<1>4. assisted => assisted'
  BY DEF AssistWork, AgpsDataGet, LteConnect, StoreNeed, MaskEphemerides, Begin, StartRest,
     StartSupl, InjectMinimal, FinishRequest, AgpsDone, PgpsWork
<1>2. ~TestWork' /\ work' # "touch"
  BY DEF AssistWork, AgpsDataGet, LteConnect, StoreNeed, MaskEphemerides, Begin, StartRest,
     StartSupl, InjectMinimal, FinishRequest, AgpsDone, PgpsWork, WorkGo, TestWork
<1>3. OnTheWay => assisted' \/ OnTheWay'
  <2> SUFFICES ASSUME OnTheWay PROVE assisted' \/ OnTheWay'
    OBVIOUS
  <2> USE <1>1 DEF OnTheWay, WorkGo
  <2>1. CASE AgpsDataGet
    BY <2>1 DEF AgpsDataGet, Ignored, Everything
  <2>2. CASE LteConnect
    BY <2>2 DEF LteConnect
  <2>3. CASE StoreNeed
    BY <2>3 DEF StoreNeed, Cold
  <2>4. CASE MaskEphemerides
    BY <2>4 DEF MaskEphemerides
  <2>5. CASE StartRest \/ StartSupl \/ InjectMinimal
    BY <2>5 DEF StartRest, StartSupl, InjectMinimal, Begin, Cold
  <2>6. CASE FinishRequest \/ AgpsDone \/ PgpsWork
    BY <2>6 DEF FinishRequest, AgpsDone, PgpsWork
  <2> QED
    BY <2>1, <2>2, <2>3, <2>4, <2>5, <2>6 DEF AssistWork
<1> QED
  BY <1>1, <1>2, <1>3, <1>4 DEF ColdInv, Looping, GnssLoop, TestWaits, TestWork

\* Events of the modem, the network and the P-GPS library.
LEMMA ColdEvent ==
  ASSUME QueueInv, ColdInv,
         AgpsEvent \/ ((LteRegistered \/ PgpsEvent) /\ Looping /\ UNCHANGED sampleVars)
  PROVE  ColdInv'
<1> SUFFICES ASSUME Cold, build' = build PROVE ColdInv'
  BY DEF ColdInv, Cold, AgpsEvent, AgpsRequest, LteRegistered, PgpsEvent, configVars
<1>1. UNCHANGED <<gnssOn, gnssPc, timers, work, assisted>>
  BY DEF AgpsEvent, AgpsRequest, LteRegistered, PgpsEvent, sampleVars
<1>2. \A x \in {"prepare", "startTest"} : Contains(works', x) <=> Contains(works, x)
  BY OthersWait
<1>3. Looping
  BY DEF ColdInv, AgpsEvent
<1>4. AgpsEvent => gnssOn
  BY DEF AgpsEvent
<1>5. ASSUME ~AgpsEvent, OnTheWay PROVE OnTheWay'
  <2>1. \/ works' = works
        \/ works' = Submit(works, "injectPgps")
        \/ works' = Submit(works, "getPgps")
    BY <1>5 DEF PgpsEvent, LteRegistered
  <2>2. Ahead(works) => /\ Ahead(Submit(works, "injectPgps"))
                        /\ Ahead(Submit(works, "getPgps"))
    BY AheadSubmit, WorkNames DEF QueueInv
  <2>3. Ahead(works) => Ahead(works')
    BY <2>1, <2>2
  <2>4. lastAgps' = lastAgps
    BY <1>5 DEF PgpsEvent, LteRegistered
  <2> QED
    BY <1>1, <1>5, <2>3, <2>4 DEF OnTheWay
<1> QED
  BY <1>1, <1>2, <1>3, <1>4, <1>5 DEF ColdInv, Looping, GnssLoop, TestWaits, TestWork

\* A timer turns into a waiting work.
LEMMA ColdTimer ==
  ASSUME QueueInv, ColdInv, NEW w \in timers, Timer(w)
  PROVE  ColdInv'
<1> SUFFICES ASSUME Cold, build' = build PROVE ColdInv'
  BY DEF ColdInv, Cold, Timer, configVars
<1>1. /\ w \in {"gotFix", "prepare"} /\ timers' = timers \ {w}
      /\ \A x : Contains(works', x) <=> Contains(works, x) \/ x = w
      /\ UNCHANGED <<work, lastAgps, assisted, gnssPc, gnssOn>>
  BY TimerWaits
<1>2. Ahead(works) => Ahead(works')
  <2>1. works' = Submit(works, w) /\ w # "startTest" /\ w \in Works
    BY <1>1, WorkNames DEF Timer
  <2> QED
    BY <2>1, AheadSubmit DEF QueueInv
<1>3. Looping
  BY DEF ColdInv
<1>4. OnTheWay => OnTheWay'
  BY <1>1, <1>2 DEF OnTheWay
<1> QED
  BY <1>1, <1>3, <1>4 DEF ColdInv, Looping, GnssLoop, TestWaits, TestWork

\* main and the events that leave the assistance alone.
LEMMA ColdBystander ==
  ASSUME QueueInv, ColdInv, Bystander
  PROVE  ColdInv'
<1> SUFFICES ASSUME Cold PROVE ColdInv'
  BY BystanderStep DEF ColdInv, Cold, assistVars
<1>1. UNCHANGED <<build, works, work, lastAgps, assisted>>
  BY BystanderStep DEF assistVars
<1> USE <1>1 DEF ColdInv, Cold, Looping, GnssLoop, TestWaits, TestWork, OnTheWay
<1>2. CASE InitModem \/ FactoryAlmanac
  BY <1>2 DEF InitModem, FactoryAlmanac, SampleGo
<1>3. CASE StartGnss
  BY <1>3 DEF StartGnss, SampleGo, Contains
<1>4. CASE MainPoll \/ MainNmea
  BY <1>4 DEF MainPoll, MainNmea, SampleGo
<1>5. CASE PvtEvent \/ GnssNmea \/ GnssNmeaDone
  BY <1>5 DEF PvtEvent, GnssNmea, GnssNmeaDone, sampleVars
<1>6. CASE FixEvent
  BY <1>6 DEF FixEvent
<1> QED
  BY <1>2, <1>3, <1>4, <1>5, <1>6 DEF Bystander

\* The test mode's own works.
LEMMA ColdTest ==
  ASSUME QueueInv, ColdInv, GotFixWork \/ Prepare \/ StartTest
  PROVE  ColdInv'
<1> SUFFICES ASSUME Cold, build' = build PROVE ColdInv'
  BY DEF ColdInv, Cold, GotFixWork, Prepare, StartTest, restOfAssist
<1>1. UNCHANGED <<works, lastAgps, gnssPc, timers>> /\ work # "idle"
  BY DEF GotFixWork, Prepare, Delete, CannotDelete, StartTest, WorkGo, sampleVars
<1>2. Looping
  BY <1>1 DEF ColdInv
<1>3. OnTheWay => OnTheWay'
  BY <1>1 DEF OnTheWay, GotFixWork, Prepare, Delete, CannotDelete, StartTest, WorkGo
<1> USE <1>1, <1>2, <1>3 DEF ColdInv, Looping, GnssLoop, TestWaits, TestWork, WorkGo
<1>4. CASE GotFixWork
  BY <1>4 DEF GotFixWork, sampleVars
<1>5. CASE Prepare
  BY <1>5 DEF Prepare, Delete, CannotDelete
<1>6. CASE StartTest
  BY <1>6 DEF StartTest
<1> QED
  BY <1>4, <1>5, <1>6

\* The request of everything is submitted ahead of the start.
LEMMA ColdPrepare ==
  ASSUME QueueInv, ColdInv, PrepareAssistance
  PROVE  ColdInv'
<1> SUFFICES ASSUME Cold, build' = build PROVE ColdInv'
  BY DEF ColdInv, Cold, PrepareAssistance, restOfAssist
<1> DEFINE asking == Submit(works, "agps")
           starting == Submit(asking, "startTest")
<1>1. /\ work = "prepared" /\ work' = "idle" /\ works' = starting /\ lastAgps' = Everything
      /\ UNCHANGED <<gnssOn, timers, gnssPc, assisted>>
  BY DEF ColdInv, PrepareAssistance, WorkGo, Cold
<1>2. Looping /\ ~gnssOn /\ "prepare" \notin timers /\ ~TestWaits
  BY <1>1 DEF ColdInv, TestWork
<1>3. /\ asking \in Seq(Works) /\ Distinct(asking)
      /\ \A x : Contains(asking, x) <=> Contains(works, x) \/ x = "agps"
  BY SubmitWaits, WorkNames DEF QueueInv
<1>4. \A x : Contains(starting, x) <=> Contains(asking, x) \/ x = "startTest"
  BY <1>3, SubmitWaits, WorkNames
<1>5. ~Contains(works', "prepare")
  BY <1>1, <1>2, <1>3, <1>4 DEF TestWaits
<1>6. Ahead(works)
  BY <1>2 DEF TestWaits, Ahead, Contains
<1>7. Ahead(works')
  <2>1. Ahead(asking)
    BY <1>6, AheadSubmit, WorkNames DEF QueueInv
  <2> QED
    BY <1>1, <1>3, <2>1, AheadSubmit, WorkNames
<1>8. OnTheWay'
  BY <1>1, <1>7 DEF OnTheWay
<1> QED
  BY <1>1, <1>2, <1>5, <1>8 DEF ColdInv, Looping, GnssLoop, TestWaits, TestWork

LEMMA ColdStep ==
  ASSUME QueueInv, ColdInv, [GnssNext]_gnssAll
  PROVE  ColdInv'
<1>1. CASE GnssReboot
  BY <1>1 DEF GnssReboot, ColdInv, Looping, GnssLoop, TestWaits, TestWork, Contains
<1>2. CASE UNCHANGED gnssAll
  BY <1>2 DEF gnssAll, assistVars, sampleVars, ColdInv, Cold, Looping, TestWaits, TestWork,
              OnTheWay
<1> QED
  BY <1>1, <1>2, GnssSteps, ColdDequeue, ColdWork, ColdEvent, ColdTimer, ColdBystander, ColdTest,
     ColdPrepare DEF AssistWork, Looping, GnssLoop

\* No cold start is measured without the assistance that was requested for it: the
\* receiver starts behind a request made since its data was deleted.
THEOREM StartsAssisted == GnssSpec => []ColdStartAssisted
<1>1. GnssInit => ColdInv
  BY DEF GnssInit, GnssIdle, AssistIdle, ColdInv, Looping, GnssLoop, TestWaits, TestWork, Contains
<1>2. ColdInv => ColdStartAssisted
  BY DEF ColdInv, Cold, ColdStartAssisted
<1> QED
  BY <1>1, <1>2, QueueAlways, ColdStep, PTL DEF GnssSpec, gnssAll
=============================================================================
