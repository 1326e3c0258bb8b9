----------------------------- MODULE ConfigFile -----------------------------
(***************************************************************************)
(* config_load_file of config.c: which stm tiers a configuration file can  *)
(* produce.  A file is what the loader finds in it: whether it can be read *)
(* and parsed, whether its pi tier passes, and one JSON value per field of *)
(* the stm tier.  Loads(file) is the set of outcomes: empty when the file  *)
(* is rejected, more than one where a cast of the code is undefined.       *)
(***************************************************************************)
EXTENDS MotorWire

CONSTANTS
  UintMax,    \* 2^32 - 1 in the code
  IntMax      \* 2^31 - 1 in the code

ASSUME WidthAssumption ==
  /\ IntMax \in Nat /\ UintMax \in Nat
  /\ MaxRate <= IntMax /\ IntMax <= UintMax

\* A JSON value, as far as the loader looks at it; numbers are whole.
Words == {"adc", "run", "stop", "another"}
Value == [kind : {"absent", "other"}] \cup [kind : {"number"}, number : Int]
           \cup [kind : {"word"}, word : Words]

File == [parses : BOOLEAN, piOk : BOOLEAN,
         rows : Value, rate : Value, imu : Value, run : Value, source : Value]

\* CONFIG_DEFAULTS.stm
Defaults == [rows |-> 200, rate |-> 20 * 1000, imu |-> 1000, run |-> 1, source |-> 1]

\* Casting a number that does not fit is undefined: any value can come out, and
\* the range check that follows lets one through when it lies in the range.
Cast(n, lowest, highest, range) ==
  IF n \in lowest..highest THEN {n} \cap range ELSE range

\* j_uint: a number that is not negative and lies in the range.
Unsigned(v, default, range) ==
  IF v.kind = "absent" THEN {default}
  ELSE IF v.kind = "number" /\ v.number >= 0 THEN Cast(v.number, 0, UintMax, range)
  ELSE {}

\* j_source, j_run_state: a number of the range or one of a few words.
Integer(v, range) ==
  IF v.kind = "number" THEN Cast(v.number, -IntMax - 1, IntMax, range) ELSE {}
Means(v, word, value) ==
  IF v.kind = "word" /\ v.word = word THEN {value} ELSE {}

\* Zero leaves a rate alone; below the lowest rate the file is rejected.
AnyRate(r, lowest) == TRUE   \* mutant
NotTooLow(r, lowest) == r = 0 \/ r >= lowest

RateRange == 0..MaxRate
ImuRange  == 0..1000

Rows(v)  == Unsigned(v, Defaults.rows, 1..MaxRows)
Rates(v) == {r \in Unsigned(v, Defaults.rate, RateRange) : NotTooLow(r, 100)}
Imus(v)  == {r \in Unsigned(v, Defaults.imu, ImuRange) : NotTooLow(r, 10)}

RunStates(v) ==
  IF v.kind = "absent" THEN {Defaults.run}
  ELSE Integer(v, {0, 1}) \cup Means(v, "run", 1) \cup Means(v, "stop", 0)

Sources(v) ==
  IF v.kind = "absent" THEN {Defaults.source}
  ELSE Integer(v, {1}) \cup Means(v, "adc", 1)

StmTier(file) ==
  [rows : Rows(file.rows), rate : Rates(file.rate), imu : Imus(file.imu),
   run : RunStates(file.run), source : Sources(file.source)]

Loads(file) == IF file.parses /\ file.piOk THEN StmTier(file) ELSE {}

\* main: a file that is rejected at start leaves the compiled defaults.
LoadsAtStart(file) == IF Loads(file) = {} THEN {Defaults} ELSE Loads(file)
=============================================================================
