----------------------------- MODULE Tachometer -----------------------------
(***************************************************************************)
(* The shaft speed of motor_acquire.c: the capture interrupt of TIM4       *)
(* stores it, the block composer, an interrupt of higher priority, reads   *)
(* it and ages it out, and the main loop stops and starts the capture.     *)
(*                                                                         *)
(* Time advances in units, each far longer than an interrupt handler.  A   *)
(* speed is the period it was computed from (s_rpm is 60000000 / period),  *)
(* 0 when s_rpm is 0.  Ages stop counting at Forever.                      *)
(***************************************************************************)
EXTENDS Integers

CONSTANTS
  Wrap,     \* period of the 16-bit counter of TIM4, 65.5 ms
  Stale,    \* RPM_STALE_MS
  BlockGap  \* the longest time between two blocks of a running ADC

ASSUME TachAssumption ==
  /\ Wrap \in Nat /\ Wrap > 1
  /\ Stale \in Nat /\ Wrap <= Stale     \* 200 ms against 65.5 ms
  /\ BlockGap \in Nat \ {0}

VARIABLES
  running,    \* whether motor_acquire_start has been called
  counter,    \* TIM4
  speed,      \* s_rpm
  seen,       \* s_capture_seen
  last,       \* s_last_capture
  age,        \* HAL_GetTick() - s_rpm_last_ms
  pc,         \* where HAL_TIM_IC_CaptureCallback stands, "idle" outside of it
  row,        \* rpm in the rows of the last block
  sinceBlock, \* time since the last block
  quiet,      \* history: time since the last edge that was captured
  period,     \* history: true time between the two edges speed was computed from
  stopped,    \* history: the capture was stopped since the last captured edge
  across,     \* history: and it was so when speed was computed
  torn        \* history: the age-out ran inside the capture that then stored speed

shaft   == <<speed, seen, last, age>>
history == <<quiet, period, stopped, across, torn>>
vars == <<running, counter, shaft, pc, row, sinceBlock, history>>

Forever == Stale + BlockGap + 1
Older(t) == IF t < Forever THEN t + 1 ELSE Forever

Init ==
  /\ running = TRUE /\ counter = 0
  /\ speed = 0 /\ seen = FALSE /\ last = 0 /\ age = 0
  /\ pc = "idle" /\ row = 0 /\ sinceBlock = 0
  /\ quiet = Forever /\ period = 0 /\ stopped = FALSE
  /\ across = FALSE /\ torn = FALSE
-----------------------------------------------------------------------------
(* Time.  A running ADC raises its block interrupt every BlockGap at the   *)
(* latest; motor_acquire_stop halts TIM4 with its only channel.            *)

Tick ==
  /\ pc = "idle"
  /\ running => sinceBlock < BlockGap
  /\ counter' = IF running THEN (counter + 1) % Wrap ELSE counter
  /\ sinceBlock' = IF running THEN sinceBlock + 1 ELSE 0
  /\ age' = Older(age) /\ quiet' = Older(quiet)
  /\ UNCHANGED <<running, speed, seen, last, pc, row, period, stopped, across, torn>>
-----------------------------------------------------------------------------
(* HAL_TIM_IC_CaptureCallback, one access per step *)

\* A rising edge on PB8: the callback has read the captured value and tests
\* s_capture_seen.
Edge ==
  /\ running /\ pc = "idle"
  /\ pc' = IF seen THEN "measure" ELSE "mark"
  /\ UNCHANGED <<running, counter, shaft, row, sinceBlock, history>>

\* period_us, in 16 bits.
PeriodUs == (counter - last) % Wrap

\* A period of whole turns of the counter leaves s_rpm alone.
Measure ==
  /\ pc = "measure" /\ pc' = "stamp"
  /\ IF PeriodUs # 0
       THEN speed' = PeriodUs /\ period' = quiet /\ across' = stopped /\ torn' = ~seen
       ELSE UNCHANGED <<speed, period, across, torn>>
  /\ UNCHANGED <<running, counter, seen, last, age, row, sinceBlock, quiet, stopped>>

Mark ==
  /\ pc = "mark" /\ pc' = "stamp"
  /\ seen' = TRUE /\ torn' = FALSE
  /\ UNCHANGED <<running, counter, speed, last, age, row, sinceBlock,
                 quiet, period, stopped, across>>

StampTimeOnly ==   \* mutant
  /\ pc = "stamp" /\ pc' = "idle"
  /\ age' = 0 /\ quiet' = 0 /\ stopped' = FALSE
  /\ last' = IF seen THEN last ELSE counter
  /\ UNCHANGED <<running, counter, speed, seen, row, sinceBlock, period, across, torn>>

\* s_last_capture is the interrupt's own; s_rpm_last_ms is what the age-out reads.
Stamp ==
  /\ pc = "stamp" /\ pc' = "idle"
  /\ last' = counter /\ age' = 0
  /\ quiet' = 0 /\ stopped' = FALSE
  /\ UNCHANGED <<running, counter, speed, seen, row, sinceBlock, period, across, torn>>
-----------------------------------------------------------------------------
(* fill_rows, whose interrupt preempts the capture *)

NeverAgedOut == FALSE   \* mutant

AgedOut == seen /\ age > Stale

FillRows ==
  /\ running
  /\ IF AgedOut THEN speed' = 0 /\ seen' = FALSE ELSE UNCHANGED <<speed, seen>>
  /\ row' = speed'
  /\ sinceBlock' = 0
  /\ UNCHANGED <<running, counter, last, age, pc, history>>
-----------------------------------------------------------------------------
(* motor_acquire_stop and motor_acquire_start, from the main loop *)

Stop ==
  /\ running /\ pc = "idle"
  /\ running' = FALSE /\ stopped' = TRUE
  /\ UNCHANGED <<counter, shaft, pc, row, sinceBlock, quiet, period, across, torn>>

Start ==
  /\ ~running
  /\ running' = TRUE /\ sinceBlock' = 0
  /\ UNCHANGED <<counter, shaft, pc, row, history>>

Next ==
  \/ Tick \/ Edge \/ Measure \/ Mark \/ Stamp \/ FillRows \/ Stop \/ Start

Spec == Init /\ [][Next]_vars
-----------------------------------------------------------------------------
(* Properties *)

\* A speed is the true one, or the shaft turned so slowly that the counter came
\* round, and then it is shown for no longer a period than the age-out allows:
\* a slower shaft reads 0.  A capture that was stopped between the two edges is
\* the one exception: s_capture_seen outlives motor_acquire_stop.
SpeedIsTrue ==
  speed # 0 /\ ~across =>
    speed = period \/ (Wrap < period /\ period <= Stale + BlockGap)

\* A block composed more than RPM_STALE_MS after the last captured edge carries the
\* speed 0, unless the age-out ran inside a capture that had already decided to
\* store a speed.
QuietReadsZero == [][FillRows /\ quiet > Stale => row' = 0 \/ torn]_vars
=============================================================================
