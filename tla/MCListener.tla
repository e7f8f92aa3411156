------------------------------ MODULE MCListener ------------------------------
(* Small instances of Listener.  Three datagrams of two clients are enough for  *)
(* a table to be created, for a second datagram of the same client not to fit   *)
(* it, and for another client's table to be written in between.                 *)
EXTENDS Listener, TLC

MCAllKinds == {"good", "short", "nan"}
MCAllFaults == {"lose", "duplicate", "reorder"}
MCSymmetry == Permutations(Clients)
=============================================================================
