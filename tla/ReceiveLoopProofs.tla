-------------------------- MODULE ReceiveLoopProofs --------------------------
(***************************************************************************)
(* The receive path for every bound, limit and stall budget, over missed   *)
(* edges, stale pulses, failed and damaged exchanges and resets of the     *)
(* board: what the controller publishes goes forward, every block counts   *)
(* once, and no reset is seen that was none.                               *)
(***************************************************************************)
EXTENDS ReceiveLoop, MotorSendProofs

\* The numbers that are compared lie within half the range of the sequence number.
HalfRange == 2 * MaxSeq < SeqMod
-----------------------------------------------------------------------------
(* The inductive invariant *)

CountTypes ==
  /\ haveLast \in BOOLEAN /\ broken \in BOOLEAN
  /\ lastSeq \in Nat /\ ok \in Nat /\ drops \in Nat /\ dups \in Nat /\ backs \in Nat
  /\ before \in Nat /\ resets \in 0..MaxResets
  /\ shown \in Nat \cup {-1} /\ first \in Nat \cup {-1}

LoopTypes ==
  /\ loop \in {"wait", "level", "exchange"} /\ pulses \in Nat
  /\ misses \in 0..MissLimit /\ bad \in 0..(BadLimit - 1)
  /\ CountTypes

\* The board reset while the baseline held, and nothing was published since.
Stepped == haveLast /\ shown = -1

\* What is published is what the wire brought; a baseline is the last frame published,
\* unless the board reset since.
BaselineInv ==
  /\ shown <= lastSent
  /\ haveLast => lastSeq < MaxSeq
  /\ haveLast /\ ~Stepped => lastSeq = shown

\* Blocks are counted up to the baseline, or up to the last frame clocked out when
\* there is none.  Behind a reset only a frame that happens to have the number of the
\* baseline counts, and none can come before it again.
Counted == ok + drops + dups
CountInv ==
  /\ ~haveLast => Counted <= before + lastSent + 1
  /\ haveLast /\ ~Stepped => Counted <= before + shown + 1
  /\ Stepped => Counted <= before + (IF lastSent < lastSeq THEN 0 ELSE 1)

\* A step back uses up one reset of the board.
ResetInv == backs + (IF Stepped THEN 1 ELSE 0) <= resets

\* As long as the baseline was never dropped, the counts reach from the first frame
\* to the baseline.
SpanInv ==
  ~broken => IF haveLast THEN /\ ~Stepped /\ first >= 0 /\ ok > 0
                              /\ ok + drops = lastSeq - first + 1
             ELSE ok = 0 /\ drops = 0 /\ first = -1

OrderedInv == BaselineInv /\ CountInv /\ ResetInv /\ SpanInv
LoopInv == LinkInv /\ LoopTypes
IInv == LoopInv /\ OrderInv /\ OrderedInv
-----------------------------------------------------------------------------
(* What each step does to the board *)

\* Every exchange ends the transfer of the frame in flight; its number is later than
\* all before it.
LEMMA Exchanged ==
  ASSUME LinkInv, NEW armed \in BOOLEAN, NEW abort \in BOOLEAN,
         TxRxCplt(NoCmd, armed, abort)
  PROVE  /\ LinkInv' /\ seq' = seq
         /\ dma \in 0..1 /\ frame[dma].seq \in Nat /\ lastSent' = frame[dma].seq
<1>1. NoCmd \in Commands \cup {NoCmd}
  OBVIOUS
<1>2. LinkInv'
  BY <1>1, LinkComplete
<1>3. dma \in 0..1 /\ lastSent' = dmaSeq /\ seq' = seq
  BY DEF LinkInv, TypeOK, TxRxCplt
<1>4. dmaSeq = frame[dma].seq /\ frame[dma].seq \in Nat
  BY <1>3 DEF LinkInv, TypeOK, InFlightIntact, Frame
<1>5. QED
  BY <1>2, <1>3, <1>4

LEMMA ExchangedInOrder ==
  ASSUME LinkInv, OrderInv, NEW armed \in BOOLEAN, NEW abort \in BOOLEAN,
         TxRxCplt(NoCmd, armed, abort)
  PROVE  OrderInv' /\ lastSent < lastSent' /\ lastSent' < MaxSeq
<1>1. NoCmd \in Commands \cup {NoCmd}
  OBVIOUS
<1>2. OrderInv'
  BY <1>1, OrderComplete
<1>3. lastSent < lastSent'
  BY <1>1, Delivered
<1>4. seq' <= MaxSeq /\ lastSent' < seq'
  BY <1>2 DEF OrderInv
<1>5. seq' \in Nat /\ lastSent' \in Nat
  BY Exchanged DEF LinkInv, TypeOK
<1>6. QED
  BY <1>2, <1>3, <1>4, <1>5, SeqAssumption

LEMMA IdleLink ==
  ASSUME LinkInv, BoardIdle
  PROVE  LinkInv' /\ seq' = seq /\ lastSent' = lastSent /\ (OrderInv => OrderInv')
<1>1. UNCHANGED vars
  BY DEF BoardIdle
<1>2. LinkInv' /\ seq' = seq /\ lastSent' = lastSent
  BY <1>1, LinkOther DEF vars, txVars
<1>3. OrderInv => OrderInv'
  BY <1>1, OrderOther
<1>4. QED
  BY <1>2, <1>3

\* A failed exchange may or may not reach the board.
LEMMA LostLink ==
  ASSUME LinkInv, NEW armed \in BOOLEAN, NEW abort \in BOOLEAN, NEW heard \in BOOLEAN,
         FrameLost(armed, abort, heard)
  PROVE  LinkInv' /\ seq' = seq /\ (OrderInv => OrderInv' /\ lastSent <= lastSent')
<1>1. CASE BoardIdle
  BY <1>1, IdleLink DEF LinkInv, TypeOK
<1>2. CASE TxRxCplt(NoCmd, armed, abort)
  <2>1. LinkInv' /\ seq' = seq
    BY <1>2, Exchanged
  <2>2. lastSent \in Int /\ lastSent' \in Int
    BY <2>1 DEF LinkInv, TypeOK
  <2>3. OrderInv => OrderInv' /\ lastSent < lastSent'
    BY <1>2, ExchangedInOrder
  <2>4. QED
    BY <2>1, <2>2, <2>3
<1>3. QED
  BY <1>1, <1>2 DEF FrameLost

LEMMA BoardStepLink ==
  ASSUME LinkInv, NEW heard \in BOOLEAN, BoardStep(heard)
  PROVE  LinkInv'
BY LinkBlock, LinkOther DEF BoardStep

LEMMA BoardStepInOrder ==
  ASSUME NoWrap, LinkInv, OrderInv, NEW heard \in BOOLEAN, BoardStep(heard)
  PROVE  OrderInv' /\ lastSent' = lastSent
<1>1. ASSUME NEW armed \in BOOLEAN, BlockReady(armed)
      PROVE  OrderInv' /\ lastSent' = lastSent
  BY <1>1, OrderBlock DEF BlockReady
<1>2. CASE ErrorCallback
  BY <1>2, OrderOther
<1>3. QED
  BY <1>1, <1>2 DEF BoardStep

LEMMA ResetLink ==
  ASSUME LinkInv, BoardReset
  PROVE  LinkInv' /\ OrderInv' /\ lastSent' = -1
<1> USE StallAssumption, SeqAssumption
<1>1. BlankFrame \in Frame
  BY DEF BlankFrame, Frame, Answers
<1>2. /\ pending' \in BOOLEAN /\ dr' \in BOOLEAN /\ ~dr' /\ ~pending'
  BY Zenon DEF BoardReset
<1>3. TypeOK'
  BY <1>1, <1>2 DEF BoardReset, LinkInv, TypeOK, ackVars
<1>4. Handshake' /\ InFlightIntact'
  BY <1>2 DEF BoardReset, Handshake, InFlightIntact
<1>5. OrderInv' /\ lastSent' = -1
  BY <1>2 DEF BoardReset, OrderInv
<1>6. QED
  BY <1>3, <1>4, <1>5 DEF LinkInv
-----------------------------------------------------------------------------
(* Types *)

LEMMA SameCounts ==
  ASSUME CountTypes, UNCHANGED <<countVars, history>>
  PROVE  CountTypes'
BY DEF CountTypes, countVars, history

LEMMA EdgeTypes ==
  ASSUME pulses \in Nat, NEW heard, Edge(heard)
  PROVE  pulses' \in Nat
BY DEF Edge

LEMMA LostEdge ==
  ASSUME pulses \in Nat, NEW armed, NEW abort, NEW heard, FrameLost(armed, abort, heard)
  PROVE  pulses' \in Nat
BY EdgeTypes DEF FrameLost

LEMMA DropTypes ==
  ASSUME CountTypes, DropBaseline
  PROVE  CountTypes'
<1>1. haveLast' \in BOOLEAN /\ broken' \in BOOLEAN
  BY Zenon DEF CountTypes, DropBaseline
<1>2. QED
  BY <1>1 DEF CountTypes, DropBaseline

\* The difference of two numbers is an integer, and within half the range of the
\* modulus it is their difference.
LEMMA DiffType ==
  ASSUME NEW a \in Nat, NEW b \in Nat
  PROVE  SeqDiff(a, b) \in Int
BY SeqAssumption DEF SeqDiff

LEMMA DiffExact ==
  ASSUME HalfRange, NEW a \in Nat, NEW b \in Nat, a < MaxSeq, b < MaxSeq
  PROVE  SeqDiff(a, b) = a - b
<1> DEFINE d == (a - b) % SeqMod
<1>1. SeqMod \in Nat \ {0} /\ 2 * MaxSeq < SeqMod /\ MaxSeq \in Nat
  BY SeqAssumption DEF HalfRange
<1>2. CASE a >= b
  <2>1. d = a - b
    BY <1>1, <1>2
  <2>2. QED
    BY <1>1, <1>2, <2>1 DEF SeqDiff
<1>3. CASE a < b
  <2>1. d = a - b + SeqMod
    BY <1>1, <1>3
  <2>2. QED
    BY <1>1, <1>3, <2>1 DEF SeqDiff
<1>4. QED
  BY <1>2, <1>3

LEMMA PublishTypes ==
  ASSUME CountTypes, NEW s \in Nat, PublishFrame(s), drops' \in Nat, backs' \in Nat,
         broken' \in BOOLEAN
  PROVE  CountTypes'
<1>1. haveLast' \in BOOLEAN
  BY Zenon DEF PublishFrame
<1>2. QED
  BY <1>1 DEF CountTypes, PublishFrame

LEMMA FrameTypes ==
  ASSUME CountTypes, NEW s \in Nat, NEW acked \in BOOLEAN,
         FirstFrame(s, acked) \/ NextFrame(s, acked) \/ Duplicate(s, acked)
  PROVE  CountTypes'
<1>1. CASE FirstFrame(s, acked)
  <2>1. broken' \in BOOLEAN
    BY <1>1, Zenon DEF FirstFrame, CountTypes
  <2>2. drops' \in Nat /\ backs' \in Nat
    BY <1>1 DEF FirstFrame, CountTypes
  <2>3. QED
    BY <1>1, <2>1, <2>2, PublishTypes DEF FirstFrame
<1>2. CASE NextFrame(s, acked)
  <2>1. SeqDiff(s, lastSeq) \in Int
    BY DiffType DEF CountTypes
  <2>2. Missing(s) \in Nat
    BY <2>1 DEF Missing
  <2>3. drops' \in Nat /\ backs' \in Nat
    BY <1>2, <2>2 DEF NextFrame, CountTypes
  <2>4. broken' \in BOOLEAN
    BY <1>2, Zenon DEF NextFrame, CountTypes
  <2>5. QED
    BY <1>2, <2>3, <2>4, PublishTypes DEF NextFrame
<1>3. CASE Duplicate(s, acked)
  BY <1>3 DEF Duplicate, CountTypes, history
<1>4. QED
  BY <1>1, <1>2, <1>3

LEMMA FailureTypes ==
  ASSUME CountTypes, bad \in 0..(BadLimit - 1), CountFailure \/ Interrupted
  PROVE  CountTypes' /\ bad' \in 0..(BadLimit - 1)
<1>1. CASE CountFailure /\ bad + 1 >= BadLimit
  BY <1>1, DropTypes, LimitsAssumption DEF CountFailure
<1>2. CASE CountFailure /\ ~(bad + 1 >= BadLimit)
  BY <1>2, SameCounts, LimitsAssumption DEF CountFailure
<1>3. CASE Interrupted
  BY <1>3, SameCounts DEF Interrupted
<1>4. QED
  BY <1>1, <1>2, <1>3
-----------------------------------------------------------------------------
LEMMA LoopStarts == LoopInit => IInv
<1> SUFFICES ASSUME LoopInit PROVE IInv
  OBVIOUS
<1>1. LinkInv /\ OrderInv
  BY LinkInit, OrderInit DEF LoopInit
<1>2. haveLast \in BOOLEAN /\ broken \in BOOLEAN /\ ~haveLast /\ ~broken
  BY Zenon DEF LoopInit
<1>3. LoopTypes
  BY <1>2, LimitsAssumption DEF LoopInit, LoopTypes, CountTypes
<1>4. lastSent = -1 /\ seq = 0
  BY DEF LoopInit, Init
<1>5. OrderedInv
  BY <1>2, <1>4
  DEF LoopInit, OrderedInv, BaselineInv, CountInv, Counted, ResetInv, SpanInv, Stepped
<1>6. QED
  BY <1>1, <1>3, <1>5 DEF IInv, LoopInv

\* What a wait leaves alone.
LEMMA WaitStep ==
  ASSUME LoopInv, TakePulse \/ Timeout \/ TakeLevel \/ WaitAgain
  PROVE  LoopInv'
<1> USE LimitsAssumption
<1>1. BoardIdle /\ UNCHANGED <<bad, countVars, history>>
  BY DEF TakePulse, Timeout, TakeLevel, WaitAgain
<1>2. LinkInv'
  BY <1>1, IdleLink DEF LoopInv
<1>3. CountTypes' /\ bad' = bad
  BY <1>1, SameCounts DEF LoopInv, LoopTypes
<1>4. LoopTypes'
  BY <1>3 DEF LoopInv, LoopTypes, TakePulse, Timeout, TakeLevel, WaitAgain
<1>5. QED
  BY <1>2, <1>4 DEF LoopInv

LEMMA FailedStep ==
  ASSUME LoopInv, NEW armed \in BOOLEAN, NEW abort \in BOOLEAN, NEW heard \in BOOLEAN,
         ExchangeFails(armed, abort, heard) \/ InvalidFrame(armed, abort, heard)
  PROVE  LoopInv'
<1>1. /\ loop' = "wait" /\ misses' = misses /\ FrameLost(armed, abort, heard)
      /\ \/ bad' = 0 /\ DropBaseline
         \/ CountFailure \/ Interrupted
  BY DEF ExchangeFails, InvalidFrame
<1>2. LinkInv'
  BY <1>1, LostLink DEF LoopInv
<1>3. pulses' \in Nat
  BY <1>1, LostEdge DEF LoopInv, LoopTypes
<1>4. CountTypes' /\ bad' \in 0..(BadLimit - 1)
  <2>1. CASE bad' = 0 /\ DropBaseline
    BY <2>1, DropTypes, LimitsAssumption DEF LoopInv, LoopTypes
  <2>2. CASE CountFailure \/ Interrupted
    BY <2>2, FailureTypes DEF LoopInv, LoopTypes
  <2>3. QED
    BY <1>1, <2>1, <2>2
<1>5. QED
  BY <1>1, <1>2, <1>3, <1>4 DEF LoopInv, LoopTypes

LEMMA ValidStep ==
  ASSUME LoopInv, NEW armed \in BOOLEAN, NEW abort \in BOOLEAN, NEW heard \in BOOLEAN,
         NEW acked \in BOOLEAN, ValidFrame(armed, abort, heard, acked)
  PROVE  LoopInv'
<1> DEFINE s == frame[dma].seq
<1>1. /\ loop' = "wait" /\ misses' = misses /\ TxRxCplt(NoCmd, armed, abort)
      /\ Edge(heard) /\ bad' = 0
      /\ FirstFrame(s, acked) \/ NextFrame(s, acked) \/ Duplicate(s, acked)
  BY DEF ValidFrame
<1>2. LinkInv' /\ s \in Nat
  BY <1>1, Exchanged DEF LoopInv
<1>3. pulses' \in Nat
  BY <1>1, EdgeTypes DEF LoopInv, LoopTypes
<1> HIDE DEF s
<1>4. CountTypes'
  BY <1>1, <1>2, FrameTypes DEF LoopInv, LoopTypes
<1>5. QED
  BY <1>1, <1>2, <1>3, <1>4, LimitsAssumption DEF LoopInv, LoopTypes

LEMMA OtherStep ==
  ASSUME LoopInv,
         \/ ReopenBus \/ BoardReset \/ UNCHANGED loopVars
         \/ \E heard \in BOOLEAN : BoardStep(heard)
  PROVE  LoopInv'
<1>1. CASE ReopenBus
  <2>1. LinkInv'
    BY <1>1, IdleLink DEF ReopenBus, LoopInv
  <2>2. CountTypes'
    BY <1>1, DropTypes DEF ReopenBus, LoopInv, LoopTypes
  <2>3. QED
    BY <1>1, <2>1, <2>2 DEF ReopenBus, LoopInv, LoopTypes, waitVars
<1>2. CASE BoardReset
  <2>1. LinkInv'
    BY <1>2, ResetLink DEF LoopInv
  <2>2. broken' \in BOOLEAN
    BY <1>2, Zenon DEF BoardReset
  <2>3. before' \in Nat
    BY <1>2 DEF BoardReset, LoopInv, LinkInv, TypeOK, LoopTypes, CountTypes
  <2>4. resets' \in 0..MaxResets
    BY <1>2, LimitsAssumption DEF BoardReset, LoopInv, LoopTypes, CountTypes
  <2>5. QED
    BY <1>2, <2>1, <2>2, <2>3, <2>4
    DEF BoardReset, LoopInv, LoopTypes, CountTypes, waitVars, countVars
<1>3. CASE UNCHANGED loopVars
  <2>1. LinkInv'
    BY <1>3, IdleLink DEF loopVars, BoardIdle, LoopInv
  <2>2. CountTypes'
    BY <1>3, SameCounts DEF loopVars, LoopInv, LoopTypes
  <2>3. QED
    BY <1>3, <2>1, <2>2 DEF loopVars, waitVars, LoopInv, LoopTypes
<1>4. ASSUME NEW heard \in BOOLEAN, BoardStep(heard)
      PROVE  LoopInv'
  <2>1. LinkInv'
    BY <1>4, BoardStepLink DEF LoopInv
  <2>2. CountTypes' /\ pulses' \in Nat
    BY <1>4, SameCounts, EdgeTypes DEF BoardStep, LoopInv, LoopTypes
  <2>3. QED
    BY <1>4, <2>1, <2>2 DEF BoardStep, LoopInv, LoopTypes
<1>5. QED
  BY <1>1, <1>2, <1>3, <1>4

LEMMA LoopKept == LoopInv /\ [LoopNext]_loopVars => LoopInv'
<1> SUFFICES ASSUME LoopInv, [LoopNext]_loopVars PROVE LoopInv'
  OBVIOUS
<1>1. CASE Loop
  BY <1>1, WaitStep, FailedStep, ValidStep DEF Loop
<1>2. CASE ~Loop
  BY <1>2, OtherStep DEF LoopNext
<1>3. QED
  BY <1>1, <1>2

\* Controller and board keep their types together, for every limit, stall budget and
\* number of resets, also when the sequence number wraps.
THEOREM LoopTypeCorrect == LoopSpec => []LoopTypeOK
<1>1. LoopInit => LoopInv
  BY LoopStarts DEF IInv
<1>2. LoopInv /\ [LoopNext]_loopVars => LoopInv'
  BY LoopKept
<1>3. LoopInv => LoopTypeOK
  BY DEF LoopInv, LinkInv, LoopTypes, CountTypes, LoopTypeOK
<1>4. QED
  BY <1>1, <1>2, <1>3, PTL DEF LoopSpec
-----------------------------------------------------------------------------
(* Order and counts *)

SentTypes == lastSent \in Nat \cup {-1} /\ lastSent' \in Nat \cup {-1}

\* The numbers that are compared are integers.
LEMMA Numbers ==
  ASSUME CountTypes, SentTypes
  PROVE  /\ lastSent \in Int /\ lastSent >= -1 /\ lastSent' \in Int
         /\ shown \in Int /\ shown >= -1 /\ first \in Int
         /\ Counted \in Int /\ before \in Int /\ lastSeq \in Nat
BY DEF CountTypes, SentTypes, Counted

\* Whatever the baseline, no more is counted than was clocked out.
LEMMA CountedBySent ==
  ASSUME CountTypes, lastSent \in Nat \cup {-1}, OrderedInv
  PROVE  Counted <= before + lastSent + 1
<1>1. /\ lastSent \in Int /\ lastSent >= -1 /\ shown \in Int
      /\ Counted \in Int /\ before \in Int /\ lastSeq \in Nat /\ shown <= lastSent
  BY DEF CountTypes, Counted, OrderedInv, BaselineInv
<1>2. CASE ~haveLast
  BY <1>2 DEF OrderedInv, CountInv
<1>3. CASE Stepped
  <2>1. Counted <= before + (IF lastSent < lastSeq THEN 0 ELSE 1)
    BY <1>3 DEF OrderedInv, CountInv
  <2>2. QED
    BY <1>1, <2>1
<1>4. CASE haveLast /\ ~Stepped
  <2>1. Counted <= before + shown + 1
    BY <1>4 DEF OrderedInv, CountInv
  <2>2. QED
    BY <1>1, <2>1
<1>5. QED
  BY <1>2, <1>3, <1>4 DEF Stepped

\* A frame that is clocked out in vain only makes the later ones later.
LEMMA KeptCounts ==
  ASSUME CountTypes, SentTypes, OrderedInv, NEW n \in Int, lastSent' = n, lastSent <= n,
         UNCHANGED <<countVars, history>>
  PROVE  OrderedInv'
<1>0. /\ lastSent \in Int /\ shown \in Int
      /\ Counted \in Int /\ before \in Int /\ lastSeq \in Int
  BY Numbers
<1>1. /\ UNCHANGED <<haveLast, lastSeq, ok, drops, dups, backs>>
      /\ UNCHANGED <<resets, before, shown, first, broken>>
  BY DEF countVars, history
<1>2. BaselineInv'
  BY <1>0, <1>1 DEF OrderedInv, BaselineInv, Stepped
<1>3. CountInv'
  <2>1. Counted' = Counted /\ (Stepped' <=> Stepped)
    BY <1>1 DEF Counted, Stepped
  <2>2. ~haveLast => Counted <= before + n + 1
    <3>1. ~haveLast => Counted <= before + lastSent + 1
      BY DEF OrderedInv, CountInv
    <3>2. QED
      BY <1>0, <3>1
  <2>3. Stepped => Counted <= before + (IF n < lastSeq THEN 0 ELSE 1)
    <3>1. Stepped => Counted <= before + (IF lastSent < lastSeq THEN 0 ELSE 1)
      BY DEF OrderedInv, CountInv
    <3>2. QED
      BY <1>0, <3>1
  <2>4. haveLast /\ ~Stepped => Counted <= before + shown + 1
    BY DEF OrderedInv, CountInv
  <2>5. QED
    BY <1>1, <2>1, <2>2, <2>3, <2>4 DEF CountInv
<1>4. ResetInv' /\ SpanInv'
  BY <1>1 DEF OrderedInv, ResetInv, SpanInv, Stepped
<1>5. QED
  BY <1>2, <1>3, <1>4 DEF OrderedInv

LEMMA DroppedCounts ==
  ASSUME CountTypes, SentTypes, OrderedInv, NEW n \in Int, lastSent' = n, lastSent <= n,
         DropBaseline
  PROVE  OrderedInv'
<1>0. lastSent \in Int /\ shown \in Int /\ Counted \in Int /\ before \in Int
  BY Numbers
<1>1. ~haveLast' /\ (~broken' => ~broken /\ ~haveLast)
  BY Zenon DEF DropBaseline
<1>2. UNCHANGED <<lastSeq, ok, drops, dups, backs, resets, before, shown, first>>
  BY DEF DropBaseline
<1>3. BaselineInv'
  BY <1>0, <1>1, <1>2 DEF OrderedInv, BaselineInv
<1>4. ~Stepped'
  BY <1>1, Zenon DEF Stepped
<1>5. CountInv'
  <2>1. Counted' = Counted
    BY <1>2 DEF Counted
  <2>2. Counted <= before + n + 1
    BY <1>0, CountedBySent DEF SentTypes
  <2>3. QED
    BY <1>1, <1>2, <1>4, <2>1, <2>2 DEF CountInv
<1>6. ResetInv'
  BY <1>2, <1>4 DEF OrderedInv, ResetInv, CountTypes
<1>7. SpanInv'
  BY <1>1, <1>2 DEF OrderedInv, SpanInv
<1>8. QED
  BY <1>3, <1>5, <1>6, <1>7 DEF OrderedInv

\* A frame that is clocked out is later than every one before.
LEMMA FirstCounts ==
  ASSUME CountTypes, SentTypes, OrderedInv, NEW s \in Nat, lastSent' = s,
         lastSent < s, s < MaxSeq, NEW acked \in BOOLEAN, FirstFrame(s, acked)
  PROVE  OrderedInv'
<1>0. lastSent \in Int /\ shown \in Int /\ Counted \in Int /\ before \in Int
  BY Numbers
<1>1. haveLast' /\ (~broken' => ~broken /\ ~haveLast)
  BY Zenon DEF FirstFrame, PublishFrame
<1>2. /\ ok' = ok + 1 /\ lastSeq' = s /\ shown' = s
      /\ UNCHANGED <<drops, backs, dups, resets, before>>
      /\ first' = IF first = -1 THEN s ELSE first
  BY DEF FirstFrame, PublishFrame
<1>3. ~Stepped'
  BY <1>0, <1>2 DEF Stepped
<1>4. BaselineInv'
  BY <1>0, <1>2, <1>3 DEF BaselineInv
<1>5. Counted + 1 <= before + s + 1
  BY <1>0, CountedBySent DEF SentTypes
<1>6. CountInv'
  <2>1. Counted' = Counted + 1
    BY <1>2 DEF Counted, CountTypes
  <2>2. QED
    BY <1>1, <1>2, <1>3, <1>5, <2>1 DEF CountInv
<1>7. ResetInv'
  BY <1>2, <1>3 DEF OrderedInv, ResetInv, CountTypes
<1>8. SpanInv'
  <2> SUFFICES ASSUME ~broken'
               PROVE  first' >= 0 /\ ok' > 0 /\ ok' + drops' = lastSeq' - first' + 1
    BY <1>1, <1>3 DEF SpanInv
  <2>1. ok = 0 /\ drops = 0 /\ first = -1
    BY <1>1 DEF OrderedInv, SpanInv
  <2>2. ok' = 1 /\ drops' = 0 /\ first' = s /\ lastSeq' = s
    BY <1>2, <2>1
  <2>3. QED
    BY <2>2
<1>9. QED
  BY <1>4, <1>6, <1>7, <1>8 DEF OrderedInv

LEMMA NextCounts ==
  ASSUME HalfRange, CountTypes, SentTypes, OrderedInv, NEW s \in Nat,
         lastSent' = s, lastSent < s, s < MaxSeq, NEW acked \in BOOLEAN, NextFrame(s, acked)
  PROVE  OrderedInv'
<1>0. lastSeq \in Nat /\ lastSeq < MaxSeq /\ haveLast
  BY DEF CountTypes, NextFrame, OrderedInv, BaselineInv
<1>1. SeqDiff(s, lastSeq) = s - lastSeq
  BY <1>0, DiffExact
<1>2. haveLast' /\ broken' = broken
  BY Zenon DEF NextFrame, PublishFrame
<1> DEFINE diff == SeqDiff(s, lastSeq)
<1> HIDE DEF diff
<1>d. diff = s - lastSeq
  BY <1>1 DEF diff
<1>3. /\ ok' = ok + 1 /\ lastSeq' = s /\ shown' = s
      /\ UNCHANGED <<dups, resets, before>>
      /\ first' = IF first = -1 THEN s ELSE first
      /\ drops' = drops + Missing(s)
      /\ backs' = IF s < lastSeq THEN backs + 1 ELSE backs
      /\ s # lastSeq
  <2>1. (diff < 0 <=> s < lastSeq) /\ (diff # 0 => s # lastSeq)
    BY <1>0, <1>d
  <2>2. QED
    BY <2>1 DEF NextFrame, PublishFrame, diff
<1>4. Missing(s) = IF s > lastSeq THEN s - lastSeq - 1 ELSE 0
  <2>1. Missing(s) = IF diff > 1 THEN diff - 1 ELSE 0
    BY DEF Missing, diff
  <2>2. QED
    BY <1>0, <1>d, <2>1
<1>5. ~Stepped' /\ ~Stepped => lastSeq < s
  <2>1. ~Stepped => lastSeq = shown /\ shown <= lastSent
    BY <1>0 DEF OrderedInv, BaselineInv
  <2>2. lastSent \in Int /\ shown \in Int
    BY Numbers
  <2>3. QED
    BY <1>0, <2>1, <2>2
<1>6. ~Stepped'
  BY <1>0, <1>3 DEF Stepped
<1>7. BaselineInv'
  BY <1>0, <1>3, <1>6 DEF BaselineInv
<1>8. Counted' <= before + s + 1
  <2>1. Counted' = Counted + 1 + (IF s > lastSeq THEN s - lastSeq - 1 ELSE 0)
    BY <1>0, <1>3, <1>4 DEF Counted, CountTypes
  <2>2. Counted \in Int /\ before \in Int /\ lastSent \in Int /\ lastSent >= -1
    BY Numbers
  <2>3. CASE Stepped
    <3>1. Counted <= before + (IF lastSent < lastSeq THEN 0 ELSE 1)
      BY <2>3 DEF OrderedInv, CountInv
    <3>2. QED
      BY <1>0, <2>1, <2>2, <3>1
  <2>4. CASE ~Stepped
    <3>1. Counted <= before + lastSeq + 1 /\ lastSeq < s
      BY <1>0, <1>5, <1>6, <2>4 DEF OrderedInv, CountInv, BaselineInv
    <3>2. QED
      BY <1>0, <2>1, <2>2, <3>1
  <2>5. QED
    BY <2>3, <2>4
<1>9. CountInv'
  BY <1>2, <1>3, <1>6, <1>8 DEF CountInv
<1>10. ResetInv'
  <2>1. backs' <= resets
    <3>1. CASE Stepped
      BY <1>3, <3>1 DEF OrderedInv, ResetInv, CountTypes
    <3>2. CASE ~Stepped
      BY <1>0, <1>3, <1>5, <1>6, <3>2 DEF OrderedInv, ResetInv, CountTypes
    <3>3. QED
      BY <3>1, <3>2
  <2>2. backs' \in Nat
    BY <1>3 DEF CountTypes
  <2>3. QED
    BY <1>3, <1>6, <2>1, <2>2 DEF ResetInv
<1>11. SpanInv'
  <2> SUFFICES ASSUME ~broken
               PROVE  first' >= 0 /\ ok' > 0 /\ ok' + drops' = lastSeq' - first' + 1
    BY <1>2, <1>6 DEF SpanInv
  <2>1. ~Stepped /\ first \in Nat /\ ok > 0 /\ ok + drops = lastSeq - first + 1
    BY <1>0 DEF OrderedInv, SpanInv, CountTypes
  <2>2. lastSeq < s /\ first' = first
    BY <1>3, <1>5, <1>6, <2>1
  <2>3. QED
    BY <1>0, <1>3, <1>4, <2>1, <2>2 DEF CountTypes
<1>12. QED
  BY <1>7, <1>9, <1>10, <1>11 DEF OrderedInv

\* Only the first frame behind a reset can have the number of the baseline.
LEMMA DuplicateCounts ==
  ASSUME HalfRange, CountTypes, SentTypes, OrderedInv, NEW s \in Nat,
         lastSent' = s, lastSent < s, s < MaxSeq, NEW acked \in BOOLEAN, Duplicate(s, acked)
  PROVE  OrderedInv'
<1>0. lastSeq \in Nat /\ lastSeq < MaxSeq /\ haveLast
  BY DEF CountTypes, Duplicate, OrderedInv, BaselineInv
<1>1. s = lastSeq
  BY <1>0, DiffExact DEF Duplicate
<1>2. /\ dups' = dups + 1 /\ UNCHANGED <<haveLast, lastSeq, ok, drops, backs>>
      /\ UNCHANGED <<resets, before, shown, first, broken>>
  BY DEF Duplicate, history
<1>3. Stepped
  <2>1. lastSent \in Int /\ shown \in Int
    BY Numbers
  <2>2. ~Stepped => lastSeq = shown /\ shown <= lastSent
    BY <1>0 DEF OrderedInv, BaselineInv
  <2>3. QED
    BY <1>1, <2>1, <2>2
<1>4. Stepped'
  BY <1>2, <1>3 DEF Stepped
<1>5. BaselineInv'
  <2>1. lastSent \in Int /\ shown \in Int /\ shown <= lastSent
    BY Numbers DEF OrderedInv, BaselineInv
  <2>2. shown' <= lastSent'
    BY <1>2, <2>1
  <2>3. lastSeq' < MaxSeq
    BY <1>0, <1>2
  <2>4. QED
    BY <1>4, <2>2, <2>3 DEF BaselineInv
<1>6. CountInv'
  <2>1. Counted <= before
    <3>1. Counted <= before + (IF lastSent < lastSeq THEN 0 ELSE 1)
      BY <1>3 DEF OrderedInv, CountInv
    <3>2. lastSent < lastSeq /\ Counted \in Int /\ before \in Int
      BY <1>1, Numbers
    <3>3. QED
      BY <3>1, <3>2
  <2>2. Counted' = Counted + 1 /\ Counted \in Int /\ before \in Int
    BY <1>2, Numbers DEF Counted, CountTypes
  <2>3. ~(lastSent' < lastSeq')
    BY <1>1, <1>2
  <2>4. QED
    BY <1>2, <1>4, <2>1, <2>2, <2>3 DEF CountInv, Stepped
<1>7. ResetInv'
  BY <1>2, <1>3, <1>4 DEF OrderedInv, ResetInv
<1>8. SpanInv'
  BY <1>0, <1>2, <1>3, <1>4 DEF OrderedInv, SpanInv
<1>9. QED
  BY <1>5, <1>6, <1>7, <1>8 DEF OrderedInv

LEMMA ResetCounts ==
  ASSUME CountTypes, SentTypes, seq \in Nat, lastSent < seq, OrderedInv, BoardReset,
         lastSent' = -1
  PROVE  OrderedInv'
<1>1. /\ UNCHANGED <<haveLast, lastSeq, ok, drops, dups, backs, first>>
      /\ resets' = resets + 1 /\ before' = before + seq /\ shown' = -1
  BY DEF BoardReset, countVars
<1>2. broken'
  BY Zenon DEF BoardReset
<1>3. BaselineInv'
  BY <1>1 DEF OrderedInv, BaselineInv, Stepped
<1>4. Counted' <= before'
  BY <1>1
  DEF OrderedInv, BaselineInv, CountInv, Counted, Stepped, CountTypes, SentTypes
<1>5. CountInv'
  BY <1>1, <1>4 DEF CountInv, Stepped, CountTypes, Counted
<1>6. ResetInv'
  BY <1>1 DEF OrderedInv, ResetInv, Stepped, CountTypes
<1>7. SpanInv'
  BY <1>2 DEF SpanInv
<1>8. QED
  BY <1>3, <1>5, <1>6, <1>7 DEF OrderedInv

LEMMA QuietStep ==
  ASSUME LoopInv, LinkInv', OrderedInv, lastSent <= lastSent',
         UNCHANGED <<countVars, history>> \/ DropBaseline
  PROVE  OrderedInv'
<1>1. SentTypes /\ CountTypes /\ lastSent' \in Int
  BY DEF LoopInv, LoopTypes, LinkInv, TypeOK, SentTypes
<1>2. QED
  BY <1>1, KeptCounts, DroppedCounts

LEMMA ValidFrameInOrder ==
  ASSUME HalfRange, LoopInv, OrderInv, OrderedInv, LoopInv',
         NEW armed \in BOOLEAN, NEW abort \in BOOLEAN, NEW heard \in BOOLEAN,
         NEW acked \in BOOLEAN, ValidFrame(armed, abort, heard, acked)
  PROVE  OrderInv' /\ OrderedInv'
<1> DEFINE s == frame[dma].seq
<1>1. /\ TxRxCplt(NoCmd, armed, abort)
      /\ FirstFrame(s, acked) \/ NextFrame(s, acked) \/ Duplicate(s, acked)
  BY DEF ValidFrame
<1>2. s \in Nat /\ lastSent' = s
  BY <1>1, Exchanged DEF LoopInv
<1>3. OrderInv' /\ lastSent < s /\ s < MaxSeq
  BY <1>1, <1>2, ExchangedInOrder DEF LoopInv
<1> HIDE DEF s
<1>4. SentTypes /\ CountTypes
  BY DEF LoopInv, LoopTypes, LinkInv, TypeOK, SentTypes
<1>5. OrderedInv'
  BY <1>1, <1>2, <1>3, <1>4, FirstCounts, NextCounts, DuplicateCounts
<1>6. QED
  BY <1>3, <1>5

LEMMA LoopStepInOrder ==
  ASSUME HalfRange, LoopInv, LoopInv', OrderInv, OrderedInv, Loop
  PROVE  OrderInv' /\ OrderedInv'
<1>0. LinkInv /\ LinkInv' /\ lastSent \in Int /\ lastSent' \in Int
  BY DEF LoopInv, LinkInv, TypeOK
<1>1. CASE TakePulse \/ Timeout \/ TakeLevel \/ WaitAgain
  <2>1. BoardIdle /\ UNCHANGED <<countVars, history>>
    BY <1>1 DEF TakePulse, Timeout, TakeLevel, WaitAgain
  <2>2. OrderInv' /\ lastSent' = lastSent
    BY <1>0, <2>1, IdleLink
  <2>3. lastSent <= lastSent'
    BY <1>0, <2>2
  <2>4. QED
    BY <1>0, <2>1, <2>2, <2>3, QuietStep
<1>2. ASSUME NEW armed \in BOOLEAN, NEW abort \in BOOLEAN, NEW heard \in BOOLEAN,
             ExchangeFails(armed, abort, heard) \/ InvalidFrame(armed, abort, heard)
      PROVE  OrderInv' /\ OrderedInv'
  <2>1. FrameLost(armed, abort, heard)
    BY <1>2 DEF ExchangeFails, InvalidFrame
  <2>2. OrderInv' /\ lastSent <= lastSent'
    BY <1>0, <2>1, LostLink
  <2>3. UNCHANGED <<countVars, history>> \/ DropBaseline
    BY <1>2 DEF ExchangeFails, InvalidFrame, CountFailure, Interrupted
  <2>4. QED
    BY <1>0, <2>2, <2>3, QuietStep
<1>3. QED
  BY <1>1, <1>2, ValidFrameInOrder DEF Loop

LEMMA OtherStepInOrder ==
  ASSUME HalfRange, LoopInv, LoopInv', OrderInv, OrderedInv,
         \/ ReopenBus \/ BoardReset \/ UNCHANGED loopVars
         \/ \E heard \in BOOLEAN : BoardStep(heard)
  PROVE  OrderInv' /\ OrderedInv'
<1>0. LinkInv /\ LinkInv' /\ lastSent \in Int /\ lastSent' \in Int /\ seq \in Nat
  BY DEF LoopInv, LinkInv, TypeOK
<1>1. CASE ReopenBus \/ UNCHANGED loopVars
  <2>1. BoardIdle /\ (UNCHANGED <<countVars, history>> \/ DropBaseline)
    BY <1>1 DEF ReopenBus, BoardIdle, loopVars
  <2>2. OrderInv' /\ lastSent' = lastSent
    BY <1>0, <2>1, IdleLink
  <2>3. lastSent <= lastSent'
    BY <1>0, <2>2
  <2>4. QED
    BY <1>0, <2>1, <2>2, <2>3, QuietStep
<1>2. CASE BoardReset
  <2>1. OrderInv' /\ lastSent' = -1
    BY <1>0, <1>2, ResetLink
  <2>2. SentTypes /\ CountTypes /\ lastSent < seq
    BY <1>0 DEF LoopInv, LoopTypes, LinkInv, TypeOK, SentTypes, OrderInv
  <2>3. QED
    BY <1>0, <1>2, <2>1, <2>2, ResetCounts
<1>3. ASSUME NEW heard \in BOOLEAN, BoardStep(heard)
      PROVE  OrderInv' /\ OrderedInv'
  <2>1. NoWrap
    BY SeqAssumption DEF HalfRange, NoWrap
  <2>2. OrderInv' /\ lastSent' = lastSent
    BY <1>0, <1>3, <2>1, BoardStepInOrder
  <2>3. lastSent <= lastSent' /\ UNCHANGED <<countVars, history>>
    BY <1>0, <1>3, <2>2 DEF BoardStep
  <2>4. QED
    BY <1>0, <2>2, <2>3, QuietStep
<1>4. QED
  BY <1>1, <1>2, <1>3

LEMMA ReceiveInvariant == ASSUME HalfRange PROVE LoopSpec => []IInv
<1>1. LoopInit => IInv
  BY LoopStarts
<1>2. IInv /\ [LoopNext]_loopVars => IInv'
  <2> SUFFICES ASSUME IInv, [LoopNext]_loopVars PROVE IInv'
    OBVIOUS
  <2>1. LoopInv /\ LoopInv' /\ OrderInv /\ OrderedInv
    BY LoopKept DEF IInv
  <2>2. CASE Loop
    BY <2>1, <2>2, LoopStepInOrder, HalfRange DEF IInv
  <2>3. CASE ~Loop
    BY <2>1, <2>3, OtherStepInOrder, HalfRange DEF IInv, LoopNext
  <2>4. QED
    BY <2>2, <2>3
<1>3. QED
  BY <1>1, <1>2, PTL DEF LoopSpec
-----------------------------------------------------------------------------
\* No block counts twice over damaged frames, dropped baselines and resets, and none
\* is left out while the baseline holds.
THEOREM EveryBlockCounts == ASSUME HalfRange PROVE LoopSpec => []EveryBlockCountsOnce
<1>1. IInv => EveryBlockCountsOnce
  <2> SUFFICES ASSUME IInv PROVE EveryBlockCountsOnce
    OBVIOUS
  <2>1. CountTypes /\ OrderedInv /\ lastSent \in Nat \cup {-1} /\ seq \in Nat /\ lastSent < seq
    BY DEF IInv, LoopInv, LoopTypes, LinkInv, TypeOK, OrderInv
  <2>2. ok + drops + dups <= before + seq
    <3>1. ok + drops + dups <= before + lastSent + 1
      BY <2>1, CountedBySent DEF Counted
    <3>2. QED
      BY <2>1, <3>1 DEF CountTypes
  <2>3. ~broken /\ ok > 0 => ok + drops = lastSeq - first + 1
    BY <2>1 DEF OrderedInv, SpanInv, CountTypes
  <2>4. QED
    BY <2>2, <2>3 DEF EveryBlockCountsOnce
<1>2. QED
  BY <1>1, ReceiveInvariant, HalfRange, PTL

\* A step back is seen only where the board was reset.
THEOREM NoResetIsInvented == ASSUME HalfRange PROVE LoopSpec => []NoFalseReset
<1>1. IInv => NoFalseReset
  BY DEF IInv, LoopInv, LoopTypes, CountTypes, OrderedInv, ResetInv, NoFalseReset
<1>2. QED
  BY <1>1, ReceiveInvariant, HalfRange, PTL

\* Between two resets of the board a frame is published only behind all that were
\* published before it.
THEOREM PublishedGoesForward == ASSUME HalfRange PROVE LoopSpec => PublishedInOrder
<1>1. IInv /\ [LoopNext]_loopVars => [ok' # ok => shown' > shown]_loopVars
  <2> SUFFICES ASSUME IInv, LoopNext, ok' # ok PROVE shown' > shown
    BY DEF IInv
  <2>1. PICK armed, abort, heard, acked \in BOOLEAN : ValidFrame(armed, abort, heard, acked)
    <3>1. ~(\/ TakePulse \/ Timeout \/ TakeLevel \/ WaitAgain \/ ReopenBus \/ BoardReset
            \/ \E heard \in BOOLEAN : BoardStep(heard))
      BY DEF TakePulse, Timeout, TakeLevel, WaitAgain, ReopenBus, BoardReset, BoardStep,
             DropBaseline, countVars
    <3>2. ASSUME NEW armed, NEW abort, NEW heard,
                 ExchangeFails(armed, abort, heard) \/ InvalidFrame(armed, abort, heard)
          PROVE  FALSE
      BY <3>2 DEF ExchangeFails, InvalidFrame, CountFailure, Interrupted, DropBaseline,
                  countVars
    <3>3. QED
      BY <3>1, <3>2 DEF LoopNext, Loop
  <2> DEFINE s == frame[dma].seq
  <2>2. /\ TxRxCplt(NoCmd, armed, abort)
        /\ FirstFrame(s, acked) \/ NextFrame(s, acked) \/ Duplicate(s, acked)
    BY <2>1 DEF ValidFrame
  <2>3. s \in Nat /\ lastSent' = s
    BY <2>2, Exchanged DEF IInv, LoopInv
  <2>4. lastSent < s
    BY <2>2, <2>3, ExchangedInOrder DEF IInv, LoopInv
  <2> HIDE DEF s
  <2>5. shown' = s
    BY <2>2 DEF FirstFrame, NextFrame, Duplicate, PublishFrame
  <2>6. shown <= lastSent /\ shown \in Int /\ lastSent \in Int
    BY DEF IInv, LoopInv, LoopTypes, CountTypes, LinkInv, TypeOK, OrderedInv, BaselineInv
  <2>7. QED
    BY <2>3, <2>4, <2>5, <2>6
<1>2. QED
  BY <1>1, ReceiveInvariant, HalfRange, PTL DEF LoopSpec, PublishedInOrder
=============================================================================
