----------------------------- MODULE MCTrackerBoot -----------------------------
(* Small instances of TrackerBoot: three blocks of two PIDs, so that bases 0, 2  *)
(* and 4 play the roles of 0x00, 0x20 .. and 0xE0.                               *)
EXTENDS TrackerBoot

MCCars ==
    {[f \in Formats |-> IF f = "STANDARD" THEN s ELSE e] :
        s \in SUBSET {1, 2, 4, 5}, e \in {{}, {2, 3}, {1, 2, 4, 6}}}

\* Cars that speak one format only and do not support the last block.
MCFewCars ==
    {[f \in Formats |-> IF f = "STANDARD" THEN s ELSE {}] : s \in {{1}, {2, 3}}}

MCFaulty == [car : MCFewCars, faults : {{"late", "refused"}}]
MCBuses == [car : MCCars, faults : {{}}] \union MCFaulty
=============================================================================
