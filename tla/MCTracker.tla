------------------------------ MODULE MCTracker ------------------------------
(* Small instances of Tracker for TLC. *)
EXTENDS Tracker

MCTwoRegions == {"header", "position"}
Both == {"STANDARD", "EXTENDED"}

\* A PID on both formats, an unsupported one, one on the extended format only, and
\* another on both.
MCSupported == <<Both, {}, {"EXTENDED"}, Both>>
\* The first PID answers with two long answers, which share MFL; the third with a
\* first frame and two consecutive ones; the last with single frames.  Each of them
\* fills a queue of two.
MCMulti == <<8, 3, 18, 3>>
\* Room for that car, and for the length bytes of a few sweeps.
MCCap == 20 + ImuLen + 8 + 8 + 18 + 4 + 4 + 4

\* One PID on both formats.
MCOneBoth == <<Both>>
MCThree == <<3>>

\* Other traffic that looks like a first frame too short for the code, and a stray
\* consecutive frame.
MCNoise == {[kind |-> "first", pid |-> 0, ide |-> "STANDARD", n |-> 3],
            [kind |-> "consecutive", pid |-> 0, ide |-> "STANDARD", n |-> 7]}
NoNoise == {}
=============================================================================
