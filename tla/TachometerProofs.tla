-------------------------- MODULE TachometerProofs --------------------------
(***************************************************************************)
(* The speed that the board reports, for every period of the counter,      *)
(* every age-out and every block rate that the assumption allows.          *)
(***************************************************************************)
EXTENDS Tachometer, TLAPS

\* The 16-bit subtraction, for operands of 16 bits.
LEMMA Difference ==
  ASSUME NEW x \in 0..Wrap - 1, NEW y \in 0..Wrap - 1
  PROVE  (x - y) % Wrap = IF x >= y THEN x - y ELSE x - y + Wrap
BY TachAssumption

\* One turn of the counter.
LEMMA Turn ==
  ASSUME NEW x \in 0..Wrap - 1
  PROVE  (x + 1) % Wrap = IF x + 1 < Wrap THEN x + 1 ELSE 0
BY TachAssumption
-----------------------------------------------------------------------------
(* The inductive invariant *)

FlagsInv ==
  /\ running \in BOOLEAN /\ seen \in BOOLEAN
  /\ stopped \in BOOLEAN /\ across \in BOOLEAN /\ torn \in BOOLEAN

TypeInv ==
  /\ FlagsInv
  /\ counter \in 0..Wrap - 1 /\ last \in 0..Wrap - 1 /\ speed \in 0..Wrap - 1
  /\ age \in 0..Forever /\ quiet \in 0..Forever /\ period \in 0..Forever
  /\ sinceBlock \in 0..BlockGap
  /\ pc \in {"idle", "measure", "mark", "stamp"}

\* The capture is handled while it runs; before the first one is stamped no speed is
\* stored, and from then on its age is the time since the last edge.
AgeInv ==
  /\ ~running => stopped /\ pc = "idle"
  /\ age = quiet \/ (speed = 0 /\ pc # "measure" /\ (seen => pc = "stamp"))

\* Within one turn, the counter is where the last edge and the time since put it.
CounterInv ==
  ~stopped =>
    /\ quiet < Wrap => counter = IF last + quiet < Wrap THEN last + quiet
                                                        ELSE last + quiet - Wrap
    /\ quiet = Wrap => counter = last

\* An edge that is measured against is no older than the age-out and a block.
LateInv ==
  /\ seen /\ ~stopped /\ pc # "stamp" => quiet <= Stale + sinceBlock
  /\ pc = "measure" => stopped \/ quiet <= Stale + BlockGap

\* A speed that nothing will age out was stored by a capture that was preempted.
ZeroInv == seen \/ speed = 0 \/ torn

IInv == TypeInv /\ AgeInv /\ CounterInv /\ LateInv /\ ZeroInv /\ SpeedIsTrue

LEMMA Starts == Init => IInv
<1> SUFFICES ASSUME Init PROVE IInv
  OBVIOUS
<1>1. TypeInv
  <2>1. FlagsInv
    BY Zenon DEF Init, FlagsInv
  <2>2. 0 \in 0..Wrap - 1 /\ 0 \in 0..Forever /\ Forever \in 0..Forever /\ 0 \in 0..BlockGap
    BY TachAssumption DEF Forever
  <2>3. QED
    BY <2>1, <2>2 DEF Init, TypeInv
<1>2. CounterInv
  BY TachAssumption DEF Init, CounterInv, Forever
<1>3. AgeInv /\ LateInv /\ ZeroInv /\ SpeedIsTrue
  BY DEF Init, AgeInv, LateInv, ZeroInv, SpeedIsTrue
<1>4. QED
  BY <1>1, <1>2, <1>3 DEF IInv

LEMMA Keeps == IInv /\ [Next]_vars => IInv'
<1> SUFFICES ASSUME IInv, [Next]_vars PROVE IInv'
  OBVIOUS
<1> USE TachAssumption DEF IInv, TypeInv
<1>0. FlagsInv'
  BY Zenon
  DEF Next, FlagsInv, Tick, Edge, Measure, Mark, Stamp, FillRows, Stop, Start, vars,
      shaft, history
<1>1. CASE Tick
  <2>1. counter' \in 0..Wrap - 1
    BY <1>1, Turn DEF Tick
  <2>2. TypeInv'
    BY <1>1, <1>0, <2>1 DEF Tick, Older, Forever
  <2>3. AgeInv'
    BY <1>1 DEF Tick, AgeInv, Older
  <2>4. CounterInv'
    <3> SUFFICES ASSUME ~stopped PROVE CounterInv'
      BY <1>1 DEF Tick, CounterInv
    <3>1. running /\ counter' = IF counter + 1 < Wrap THEN counter + 1 ELSE 0
      BY <1>1, Turn DEF Tick, AgeInv
    <3>2. quiet' = IF quiet < Forever THEN quiet + 1 ELSE Forever
      BY <1>1 DEF Tick, Older
    <3>3. Wrap < Forever
      BY DEF Forever
    <3>4. last' = last /\ stopped' = stopped
      BY <1>1 DEF Tick
    <3>5. QED
      BY <3>1, <3>2, <3>3, <3>4 DEF CounterInv, Forever
  <2>5. LateInv'
    BY <1>1 DEF Tick, LateInv, AgeInv, Older, Forever
  <2>6. ZeroInv' /\ SpeedIsTrue'
    BY <1>1 DEF Tick, ZeroInv, SpeedIsTrue
  <2>7. QED
    BY <2>2, <2>3, <2>4, <2>5, <2>6
<1>2. CASE Edge
  BY <1>2, <1>0
  DEF Edge, shaft, history, AgeInv, CounterInv, LateInv, ZeroInv, SpeedIsTrue
<1>3. CASE Measure
  <2>1. PeriodUs = IF counter >= last THEN counter - last ELSE counter - last + Wrap
    BY Difference DEF PeriodUs
  <2>2. PeriodUs \in 0..Wrap - 1
    BY <2>1
  <2>3. TypeInv' /\ AgeInv' /\ CounterInv' /\ LateInv' /\ ZeroInv'
    BY <1>3, <1>0, <2>2 DEF Measure, AgeInv, CounterInv, LateInv, ZeroInv
  <2>4. ~stopped /\ quiet < Wrap => PeriodUs = quiet
    BY <2>1 DEF CounterInv
  <2>5. ~stopped /\ quiet = Wrap => PeriodUs = 0
    BY <2>1 DEF CounterInv
  <2>6. stopped \/ quiet <= Stale + BlockGap
    BY <1>3 DEF Measure, LateInv
  <2>7. CASE PeriodUs # 0
    <3>1. speed' = PeriodUs /\ period' = quiet /\ across' = stopped
      BY <1>3, <2>7 DEF Measure
    <3>2. SpeedIsTrue'
      BY <2>4, <2>5, <2>6, <2>7, <3>1 DEF SpeedIsTrue
    <3>3. QED
      BY <2>3, <3>2
  <2>8. CASE PeriodUs = 0
    BY <1>3, <2>3, <2>8 DEF Measure, SpeedIsTrue
  <2>9. QED
    BY <2>7, <2>8
<1>4. CASE Mark
  BY <1>4, <1>0 DEF Mark, AgeInv, CounterInv, LateInv, ZeroInv, SpeedIsTrue
<1>5. CASE Stamp
  <2>1. TypeInv'
    <3>1. 0 \in 0..Forever
      BY DEF Forever
    <3>2. QED
      BY <1>5, <1>0, <3>1 DEF Stamp
  <2>2. AgeInv' /\ ZeroInv' /\ SpeedIsTrue'
    BY <1>5 DEF Stamp, AgeInv, ZeroInv, SpeedIsTrue
  <2>3. CounterInv'
    BY <1>5 DEF Stamp, CounterInv
  <2>4. LateInv'
    BY <1>5 DEF Stamp, LateInv
  <2>5. QED
    BY <2>1, <2>2, <2>3, <2>4
<1>6. CASE FillRows
  <2>1. CASE AgedOut
    <3>1. speed' = 0 /\ seen' = FALSE
      BY <1>6, <2>1 DEF FillRows
    <3>2. TypeInv'
      BY <1>6, <1>0, <3>1 DEF FillRows, history
    <3>3. AgeInv' /\ ZeroInv' /\ SpeedIsTrue'
      BY <1>6, <3>1 DEF FillRows, history, AgeInv, ZeroInv, SpeedIsTrue
    <3>4. CounterInv' /\ LateInv'
      BY <1>6, <3>1 DEF FillRows, history, CounterInv, LateInv
    <3>5. QED
      BY <3>2, <3>3, <3>4
  <2>2. CASE ~AgedOut
    BY <1>6, <1>0, <2>2
    DEF FillRows, AgedOut, history, AgeInv, CounterInv, LateInv, ZeroInv, SpeedIsTrue
  <2>3. QED
    BY <2>1, <2>2
<1>7. CASE Stop
  BY <1>7, <1>0 DEF Stop, shaft, AgeInv, CounterInv, LateInv, ZeroInv, SpeedIsTrue
<1>8. CASE Start
  BY <1>8, <1>0 DEF Start, shaft, history, AgeInv, CounterInv, LateInv, ZeroInv, SpeedIsTrue
<1>9. CASE UNCHANGED vars
  BY <1>9, <1>0
  DEF vars, shaft, history, AgeInv, CounterInv, LateInv, ZeroInv, SpeedIsTrue
<1>10. QED
  BY <1>1, <1>2, <1>3, <1>4, <1>5, <1>6, <1>7, <1>8, <1>9 DEF Next

LEMMA Always == Spec => []IInv
BY Starts, Keeps, PTL DEF Spec
-----------------------------------------------------------------------------
(* The theorems *)

\* A speed that fill_rows can report is that of two successive edges, or of a shaft too
\* slow for the counter and shown no longer than the age-out allows.
THEOREM SpeedStaysTrue == Spec => []SpeedIsTrue
<1>1. IInv => SpeedIsTrue
  BY DEF IInv
<1>2. QED
  BY <1>1, Always, PTL

\* fill_rows reports a shaft without edges as standing, but for the preemption that
\* torn names.
THEOREM QuietShaftReadsZero == Spec => QuietReadsZero
<1>1. IInv /\ [Next]_vars => [FillRows /\ quiet > Stale => row' = 0 \/ torn]_vars
  <2> SUFFICES ASSUME IInv, FillRows, quiet > Stale PROVE row' = 0 \/ torn
    OBVIOUS
  <2>1. CASE AgedOut
    BY <2>1 DEF FillRows
  <2>2. CASE ~AgedOut
    <3>1. row' = speed
      BY <2>2 DEF FillRows
    <3>2. ~seen \/ age <= Stale
      BY <2>2, TachAssumption DEF AgedOut, IInv, TypeInv, Forever
    <3>3. CASE age = quiet
      BY <3>1, <3>2, <3>3, TachAssumption DEF IInv, TypeInv, ZeroInv, Forever
    <3>4. CASE age # quiet
      BY <3>1, <3>4 DEF IInv, AgeInv
    <3>5. QED
      BY <3>3, <3>4
  <2>3. QED
    BY <2>1, <2>2
<1>2. QED
  BY <1>1, Always, PTL DEF Spec, QuietReadsZero
=============================================================================
