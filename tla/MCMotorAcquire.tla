--------------------------- MODULE MCMotorAcquire ---------------------------
(* TLC instances of MotorAcquire. *)
EXTENDS MotorAcquire

MCBoot == [rows |-> 200, rate |-> 20000, imu |-> 1000, run |-> 1, source |-> 1]

SetConfig(n, p) ==
  [seq |-> n, op |-> "SET_CONFIG", crcOk |-> TRUE, schemaOk |-> TRUE, payload |-> p]

\* Transport run: commands that configure nothing do not matter to the order of
\* frames; a foreign schema and the other opcodes.
OtherCommands ==
  {[SetConfig(1, MCBoot) EXCEPT !.schemaOk = FALSE],
   [SetConfig(1, MCBoot) EXCEPT !.op = "OTHER"],
   [SetConfig(1, MCBoot) EXCEPT !.op = "PING"]}

\* Service run: every field changed and changed back until a stop is carried out,
\* a rate left alone, and a source the board does not know.
Faster == [MCBoot EXCEPT !.rows = 100, !.rate = 10000, !.imu = 10]
SlowAgainAndStop == [MCBoot EXCEPT !.rate = 0, !.run = 0]

MCCommands ==
  {SetConfig(1, Faster), SetConfig(2, SlowAgainAndStop),
   SetConfig(2, [MCBoot EXCEPT !.source = 0])}

\* The divergence: two changes of one field are enough.
TwoChanges == {SetConfig(1, Faster), SetConfig(2, MCBoot)}
=============================================================================
