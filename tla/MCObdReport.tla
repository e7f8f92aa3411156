------------------------------ MODULE MCObdReport ------------------------------
(* Small instances of ObdReport: engine speed (0x0C, data bytes 1 and 2), fuel type   *)
(* (0x51, nothing is read) and intake air temperature (0x68, bytes 2 and 3, each if   *)
(* its bit of byte 1 is set).  Answers are too short, exact or too long for them, with *)
(* no, one or both bits set, and there are answers of two frames (seven bytes, as 0x68 *)
(* has) and of three.                                                                  *)
EXTENDS ObdReport

MCPIDs == {12, 81, 104}
MCParameters == {[pid |-> 12, flag |-> 0, from |-> 1, to |-> 2],
                 [pid |-> 104, flag |-> 1, from |-> 2, to |-> 2],
                 [pid |-> 104, flag |-> 2, from |-> 3, to |-> 3]}
MCData == {<<0>>, <<3>>, <<1, 70>>, <<3, 71, 72>>, <<0, 73, 74, 75, 76>>,
           <<3, 11, 12, 13, 14, 15, 16>>,
           <<2, 21, 22, 23, 24, 25, 26, 27, 28, 29, 30, 31, 32, 33>>}
=============================================================================
