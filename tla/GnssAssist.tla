----------------------------- MODULE GnssAssist -----------------------------
(***************************************************************************)
(* Assistance data of the GNSS bench program: the work queue gnss_work_q,  *)
(* the work that answers the modem's requests, and the four backends one   *)
(* of which is built in: A-GPS and P-GPS of nRF Cloud (one or both), SUPL, *)
(* and the minimal one. The modem overwrites last_agps in its event        *)
(* handler, at any step of the work. A request is reduced to whether       *)
(* ephemerides are needed and to the class of its flags; the data itself,  *)
(* its transport and the table of countries are left out.                  *)
(***************************************************************************)
EXTENDS Integers, Sequences, SequencesExt

CONSTANTS
  Builds,   \* configurations: the backend, and three Kconfig options
  Needs     \* what the modem may ask for

Backends == {"none", "agps", "pgps", "both", "supl", "minimal"}
\* Classes of data_flags: none, satellite integrity only, or time or position as well.
Flags == {"none", "integrity", "time"}

\* Kconfig: minimal assistance selects LTE on demand, P-GPS excludes it.
ASSUME BuildsAssumption ==
  /\ Builds \subseteq [assist : Backends, onDemand : BOOLEAN, ttff : BOOLEAN, cold : BOOLEAN]
  /\ \A b \in Builds : /\ b.assist = "minimal" => b.onDemand
                       /\ b.assist \in {"none", "pgps", "both"} => ~b.onDemand
  /\ Needs \subseteq [ephe : BOOLEAN, flags : Flags]

VARIABLES
  build,        \* the configuration
  works,        \* works submitted to gnss_work_q, oldest first
  work,         \* what its thread runs, and where in it
  lastAgps,     \* last_agps
  agpsNeed,     \* agps_need
  requesting,   \* requesting_assistance
  active,       \* assistance_active
  lteReady,     \* lte_ready
  suplFd,       \* a SUPL socket is open
  notified,     \* the P-GPS library has been told that a prediction is wanted
  loading,      \* the P-GPS library loads predictions
  asked,        \* history: the newest need of the modem
  overlapped,   \* history: it came while the work already ran for an older one
  assisted      \* history: before a cold start, everything was requested

assistVars == <<build, works, work, lastAgps, agpsNeed, requesting, active, lteReady,
                suplFd, notified, loading, asked, overlapped, assisted>>
configVars == <<build, asked, overlapped>>

Pgps == build.assist \in {"pgps", "both"}
Everything == [ephe |-> TRUE, flags |-> "time"]
Nothing == [ephe |-> FALSE, flags |-> "none"]

\* k_work_submit_to_queue: work that waits already is not queued twice.
Submit(queue, w) == IF Contains(queue, w) THEN queue ELSE Append(queue, w)

WorkGo(from, to) == work = from /\ work' = to

Dequeue ==
  /\ work = "idle" /\ works # <<>>
  /\ work' = Head(works) /\ works' = Tail(works)
  /\ UNCHANGED <<configVars, lastAgps, agpsNeed, requesting, active, lteReady, suplFd,
                 notified, loading, assisted>>

\* agps_data_get_work_fn: SUPL and minimal assistance ignore what they cannot give.
Ignored == \/ build.assist = "supl" /\ lastAgps = [ephe |-> FALSE, flags |-> "integrity"]
           \/ build.assist = "minimal" /\ lastAgps.flags # "time"

AgpsDataGet ==
  /\ \/ Ignored /\ WorkGo("agps", "idle") /\ UNCHANGED requesting
     \/ /\ ~Ignored /\ requesting' = TRUE
        /\ WorkGo("agps", IF build.onDemand THEN "connect" ELSE "request")
  /\ UNCHANGED <<configVars, works, lastAgps, agpsNeed, active, lteReady, suplFd, notified,
                 loading, assisted>>

\* lte_connect: a failing activation is not waited for.
LteConnect ==
  /\ \/ WorkGo("connect", "await") /\ UNCHANGED lteReady
     \/ WorkGo("connect", "request") /\ UNCHANGED lteReady
     \/ WorkGo("await", "request") /\ lteReady = 1 /\ lteReady' = 0
  /\ UNCHANGED <<configVars, works, lastAgps, agpsNeed, requesting, active, suplFd, notified,
                 loading, assisted>>

\* lte_lc_event_handler: each registration, also a later one, makes it available.
LteRegistered ==
  /\ build.onDemand /\ lteReady' = 1
  /\ UNCHANGED <<configVars, works, work, lastAgps, agpsNeed, requesting, active, suplFd,
                 notified, loading, assisted>>

\* Mutant: the need is stored without the ephemerides.
StoreMaskedNeed ==
  /\ Pgps /\ agpsNeed' = [lastAgps EXCEPT !.ephe = FALSE]
  /\ IF build.assist = "pgps" \/ lastAgps.flags = "none"
     THEN WorkGo("request", "done") /\ notified' = TRUE
     ELSE WorkGo("request", "mask") /\ UNCHANGED notified
  /\ assisted' = (assisted \/ (build.cold /\ lastAgps = Everything))
  /\ UNCHANGED <<configVars, works, lastAgps, requesting, active, lteReady, suplFd, loading>>

\* assistance_request with P-GPS stores the need; without anything for A-GPS to
\* do it notifies at once.
StoreNeed ==
  /\ Pgps /\ agpsNeed' = lastAgps
  /\ IF build.assist = "pgps" \/ lastAgps.flags = "none"
     THEN WorkGo("request", "done") /\ notified' = TRUE
     ELSE WorkGo("request", "mask") /\ UNCHANGED notified
  /\ assisted' = (assisted \/ (build.cold /\ lastAgps = Everything))
  /\ UNCHANGED <<configVars, works, lastAgps, requesting, active, lteReady, suplFd, loading>>

\* P-GPS handles ephemerides, so A-GPS skips those, in last_agps itself.
MaskEphemerides ==
  /\ WorkGo("mask", "rest")
  /\ lastAgps' = [lastAgps EXCEPT !.ephe = FALSE]
  /\ active' = TRUE
  /\ UNCHANGED <<configVars, works, agpsNeed, requesting, lteReady, suplFd, notified, loading,
                 assisted>>

\* Without P-GPS the request itself begins.
Begin == /\ assisted' = (assisted \/ (build.cold /\ lastAgps = Everything))
         /\ UNCHANGED <<configVars, works, lastAgps, agpsNeed, requesting, lteReady, notified,
                        loading>>

StartRest == /\ build.assist = "agps" /\ WorkGo("request", "rest")
             /\ active' = TRUE /\ UNCHANGED suplFd
             /\ Begin

\* A socket is opened for one address after the other; those that fail are closed.
StartSupl == /\ build.assist = "supl"
             /\ \/ WorkGo("request", "session") /\ active' = TRUE /\ suplFd' = TRUE
                \/ WorkGo("request", "done") /\ UNCHANGED <<active, suplFd>>
             /\ Begin

\* Time and position are injected or not, and leave nothing behind.
InjectMinimal == /\ build.assist = "minimal" /\ WorkGo("request", "done")
                 /\ UNCHANGED <<active, suplFd>>
                 /\ Begin

\* The REST request or the SUPL session, failing or not. In both cases P-GPS is
\* notified, and the socket is closed.
FinishRequest ==
  /\ WorkGo("rest", "done") \/ WorkGo("session", "done")
  /\ active' = FALSE /\ suplFd' = FALSE
  /\ notified' = (notified \/ build.assist = "both")
  /\ UNCHANGED <<configVars, works, lastAgps, agpsNeed, requesting, lteReady, loading, assisted>>

\* lte_disconnect on demand, and the end of the work.
AgpsDone ==
  /\ WorkGo("done", "idle") /\ requesting' = FALSE
  /\ UNCHANGED <<configVars, works, lastAgps, agpsNeed, active, lteReady, suplFd, notified,
                 loading, assisted>>

\* Mutant: an error returns with the flag set.
PgpsWorkReturns ==
  /\ \/ WorkGo("getPgps", "fetch") /\ active' = TRUE
     \/ WorkGo("injectPgps", "inject") /\ active' = TRUE
     \/ work \in {"fetch", "inject"} /\ work' = "idle" /\ active' \in BOOLEAN
  /\ UNCHANGED <<configVars, works, lastAgps, agpsNeed, requesting, lteReady, suplFd, notified,
                 loading, assisted>>

\* get_pgps_data_work_fn and inject_pgps_data_work_fn; each of their calls may fail.
PgpsWork ==
  /\ \/ WorkGo("getPgps", "fetch") /\ active' = TRUE
     \/ WorkGo("injectPgps", "inject") /\ active' = TRUE
     \/ work \in {"fetch", "inject"} /\ work' = "idle" /\ active' = FALSE
  /\ UNCHANGED <<configVars, works, lastAgps, agpsNeed, requesting, lteReady, suplFd, notified,
                 loading, assisted>>

\* pgps_event_handler: a prediction that was wanted, a request for predictions,
\* and the begin and end of loading them.
PgpsEvent ==
  /\ Pgps
  /\ \/ /\ notified /\ notified' = FALSE
        /\ works' = Submit(works, "injectPgps") /\ UNCHANGED <<active, loading>>
     \/ works' = Submit(works, "getPgps") /\ UNCHANGED <<active, loading, notified>>
     \/ loading' = ~loading /\ active' = loading' /\ UNCHANGED <<works, notified>>
  /\ UNCHANGED <<configVars, work, lastAgps, agpsNeed, requesting, lteReady, suplFd, assisted>>

\* gnss_event_handler, NRF_MODEM_GNSS_EVT_AGPS_REQ. If it cannot be read, the
\* request is lost.
AgpsRequest(need) ==
  /\ build.assist # "none"
  /\ lastAgps' = need /\ asked' = need
  /\ overlapped' = (Pgps /\ work \in {"agps", "request", "mask"})
  /\ works' = Submit(works, "agps")
  /\ UNCHANGED <<build, work, agpsNeed, requesting, active, lteReady, suplFd, notified, loading,
                 assisted>>

AssistWork == \/ Dequeue \/ AgpsDataGet \/ LteConnect \/ StoreNeed \/ MaskEphemerides
              \/ StartRest \/ StartSupl \/ InjectMinimal \/ FinishRequest \/ AgpsDone \/ PgpsWork

\* output_paused: the main loop prints nothing meanwhile.
OutputPaused == requesting \/ active

AssistIdle == /\ works = <<>> /\ work = "idle"
              /\ lastAgps = Nothing /\ agpsNeed = Nothing /\ asked = Nothing
              /\ requesting = FALSE /\ active = FALSE /\ lteReady = 0
              /\ suplFd = FALSE /\ notified = FALSE /\ loading = FALSE
              /\ overlapped = FALSE /\ assisted = FALSE
-----------------------------------------------------------------------------
AssistSteps == {"idle", "agps", "connect", "await", "request", "mask", "rest", "session", "done",
                "getPgps", "fetch", "injectPgps", "inject"}

\* Output is never left paused, and no socket open, when nothing is under way:
\* the flags that several activities share are cleared by whichever ends last.
OutputResumes ==
  (work = "idle" /\ ~loading) => ~OutputPaused /\ ~suplFd

\* The last need of the modem is the one predictions are injected for, unless it
\* came while the work already ran for an older one.
NeedKept == (Pgps /\ work = "idle" /\ ~Contains(works, "agps") /\ ~overlapped)
              => agpsNeed = asked
=============================================================================
