---------------------------- MODULE MCReceiveLoop ----------------------------
(* TLC instance of ReceiveLoop. *)
EXTENDS ReceiveLoop

MCBoot == [rows |-> 200, rate |-> 20000, imu |-> 1000, run |-> 1, source |-> 1]
NoCommands == {}
=============================================================================
