------------------------------ MODULE MCTelemetry ------------------------------
(* Small instances of Telemetry: two cars, so that a reply is made of two reads *)
(* with a commit of the listener between them.  Undecodable datagrams, and in   *)
(* one of the runs columns, are left out: they are MCListener's question.       *)
EXTENDS Telemetry

MCNoColumns == {}
MCGood == {"good"}
MCLoseOnly == {"lose"}
MCNoFaults == {}
=============================================================================
