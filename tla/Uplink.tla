------------------------------- MODULE Uplink -------------------------------
(***************************************************************************)
(* What a tracker promises to whoever receives its datagrams: a register,  *)
(* part by part, of the fix it was told last. A fix may be skipped, and a  *)
(* value may mix several fixes; but no part goes back in time or shows a   *)
(* fix that was not measured, and an announcement stays pending until a    *)
(* value at least as new has been shown, unless the tracker has stopped.   *)
(***************************************************************************)
EXTENDS Integers

CONSTANT Regions   \* the parts of a value

VARIABLES
  measured,   \* fixes so far
  owed,       \* the fix announced last
  pending,    \* an announcement nobody serves yet
  serving,    \* a value is being prepared
  stopped,    \* the tracker has ended
  shown       \* for each part, the fix shown

uplinkVars == <<measured, owed, pending, serving, stopped, shown>>

Measure == /\ measured' = measured + 1
           /\ UNCHANGED <<owed, pending, serving, stopped, shown>>

Announce == /\ owed' \in owed..measured /\ pending' = TRUE
            /\ UNCHANGED <<measured, serving, stopped, shown>>

Serve == /\ pending /\ pending' = FALSE
         /\ ~serving /\ serving' = TRUE
         /\ ~stopped /\ UNCHANGED <<measured, owed, stopped, shown>>

\* The announcement served is the last one, unless another is pending.
Show == /\ serving /\ serving' = FALSE
        /\ shown' \in [Regions -> 0..measured]
        /\ \A r \in Regions : /\ shown'[r] >= shown[r]
                              /\ ~pending => shown'[r] >= owed
        /\ UNCHANGED <<measured, owed, pending, stopped>>

Stop == /\ ~stopped /\ stopped' = TRUE
        /\ serving' = FALSE
        /\ UNCHANGED <<measured, owed, pending, shown>>

Init == /\ measured = 0 /\ owed = 0 /\ shown = [r \in Regions |-> 0]
        /\ pending = FALSE /\ serving = FALSE /\ stopped = FALSE

Next == Measure \/ Announce \/ Serve \/ Show \/ Stop

Spec == Init /\ [][Next]_uplinkVars
=============================================================================
