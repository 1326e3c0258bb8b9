-------------------------- MODULE ConfigLinkProofs --------------------------
(***************************************************************************)
(* What an acknowledgement means to the controller, over a link that       *)
(* damages whatever it likes, for every set of files, retry budget and     *)
(* stall budget, as long as one controller process runs; and that the      *)
(* configurations it sends are ones the board accepts.                     *)
(***************************************************************************)
EXTENDS ConfigLink, TLAPS

\* A restarted controller numbers its commands from 1 again.
OneRun == MaxRestarts = 0

\* The frames the board can still send, and the answer it will put in the next one:
\* a positive answer is never to a command later than the last one applied.
Truthful(ack, s, applied) == s \in Nat /\ (ack = "ok" => s <= applied)

AnswerInv ==
  /\ Truthful(ackFlags, ackSeq, lastApplied)
  /\ DOMAIN frame = 0..1
  /\ \A i \in 0..1 : Truthful(frame[i].ack, frame[i].ackSeq, lastApplied)
  /\ txIdx \in -1..1 /\ dma \in -1..1

\* The board is behind the controller: it applied no command that was not queued, and
\* the one that waits in its slot, damaged or not, is between the two.
Queued(c) ==
  /\ c.seq \in Nat /\ c.op = "SET_CONFIG"
  /\ lastApplied <= c.seq /\ c.seq <= cmdSeq
  /\ c.seq = cmdSeq => c.payload = cmdPayload

OrderInv ==
  /\ cmdSeq \in Nat /\ lastApplied \in Nat \cup {-1}
  /\ lastApplied <= cmdSeq
  /\ lastApplied = cmdSeq => active = cmdPayload
  /\ cmdSlot # NoCmd => Queued(cmdSlot)

OneRunInv == restarts = 0 /\ (piActive # NoConfig => ackedSeq \in Nat)

IInv == AnswerInv /\ OrderInv /\ OneRunInv /\ AckMeansApplied

LEMMA Starts == LinkInit => IInv
<1> SUFFICES ASSUME LinkInit PROVE IInv
  OBVIOUS
<1>1. AnswerInv
  BY DEF LinkInit, AcquireInit, Init, AnswerInv, Truthful, BlankFrame
<1>2. OrderInv /\ OneRunInv /\ AckMeansApplied
  BY DEF LinkInit, AcquireInit, Init, StartController, OrderInv, OneRunInv, AckMeansApplied
<1>3. QED
  BY <1>1, <1>2 DEF IInv
-----------------------------------------------------------------------------
(* The board's steps *)

\* A command moves the board to its own number and configuration, or nowhere; what
\* the board answers is true of the one or the other.
LEMMA CommandStep ==
  ASSUME IInv, ProcessPendingCmd \/ NoPendingCmd
  PROVE  /\ Truthful(ackFlags', ackSeq', lastApplied')
         /\ lastApplied' \in Nat \cup {-1}
         /\ cmdSlot' = NoCmd
         /\ \/ UNCHANGED <<lastApplied, active>>
            \/ /\ lastApplied < lastApplied' /\ lastApplied' <= cmdSeq
               /\ lastApplied' = cmdSeq => active' = cmdPayload
<1>1. Truthful(ackFlags, ackSeq, lastApplied) /\ lastApplied \in Nat \cup {-1} /\ cmdSeq \in Nat
  BY DEF IInv, AnswerInv, OrderInv
<1>2. CASE NoPendingCmd
  BY <1>1, <1>2 DEF NoPendingCmd
<1>3. CASE ProcessPendingCmd
  <2>1. cmdSlot' = NoCmd /\ Queued(cmdSlot)
    BY <1>3 DEF ProcessPendingCmd, IInv, OrderInv
  <2>2. CASE NackCrc(cmdSlot)
    BY <2>1, <2>2, <1>1 DEF NackCrc, Answer, Truthful
  <2>3. CASE NackSchema(cmdSlot) \/ NackCmd(cmdSlot) \/ NackRange(cmdSlot)
    BY <2>1, <2>3, <1>1
    DEF NackSchema, NackCmd, NackRange, Refuse, Answer, Truthful, Queued
  <2>4. ~Ping(cmdSlot)
    BY <2>1 DEF Ping, Queued
  <2>5. CASE Repeat(cmdSlot)
    BY <2>1, <2>5, <1>1 DEF Repeat, IsRepeat, Refuse, Answer, Truthful, Queued
  <2>6. CASE ApplyConfig(cmdSlot)
    <3>1. /\ lastApplied' = cmdSlot.seq /\ ackSeq' = cmdSlot.seq
          /\ active' = cmdSlot.payload
          /\ ~(lastApplied >= 0 /\ cmdSlot.seq = lastApplied)
      BY <2>6 DEF ApplyConfig, IsRepeat
    <3>2. QED
      BY <2>1, <3>1, <1>1 DEF Truthful, Queued
  <2>7. QED
    BY <1>3, <2>2, <2>3, <2>4, <2>5, <2>6 DEF ProcessPendingCmd
<1>4. QED
  BY <1>2, <1>3

\* A frame carries the answer that is latched.
LEMMA Assembled ==
  ASSUME IInv, NEW i \in 0..1, AssembleFrame(i)
  PROVE  /\ DOMAIN frame' = 0..1
         /\ \A j \in 0..1 : Truthful(frame'[j].ack, frame'[j].ackSeq, lastApplied)
BY DEF IInv, AnswerInv, AssembleFrame, Truthful

LEMMA BlockStep ==
  ASSUME IInv, NEW ok \in BOOLEAN, BlockReady(ok), UNCHANGED <<piVars, bounds>>
  PROVE  IInv'
<1>1. /\ Truthful(ackFlags', ackSeq', lastApplied')
      /\ lastApplied' \in Nat \cup {-1} /\ cmdSlot' = NoCmd
      /\ \/ UNCHANGED <<lastApplied, active>>
         \/ /\ lastApplied < lastApplied' /\ lastApplied' <= cmdSeq
            /\ lastApplied' = cmdSeq => active' = cmdPayload
  BY CommandStep DEF BlockReady
<1>2. lastApplied \in Nat \cup {-1} /\ lastApplied <= lastApplied'
  BY <1>1 DEF IInv, OrderInv
<1>3. /\ DOMAIN frame' = 0..1
      /\ \A j \in 0..1 : Truthful(frame'[j].ack, frame'[j].ackSeq, lastApplied)
      /\ txIdx' \in -1..1 /\ dma' \in -1..1
  <2>1. txIdx \in -1..1 /\ dma \in -1..1 /\ Other(txIdx) \in 0..1
    BY DEF IInv, AnswerInv, Other
  <2>2. CASE IdleBlock(ok) \/ StalledBlock(ok)
    <3>1. AssembleFrame(0) /\ txIdx' \in {-1, 0} /\ dma' = txIdx'
      BY <2>2 DEF IdleBlock, StalledBlock, ArmTx
    <3>2. QED
      BY <3>1, Assembled
  <2>3. CASE QueuedBlock
    <3>1. AssembleFrame(Other(txIdx)) /\ UNCHANGED <<txIdx, dma>>
      BY <2>3 DEF QueuedBlock
    <3>2. QED
      BY <2>1, <3>1, Assembled
  <2>4. QED
    BY <2>2, <2>3 DEF BlockReady
<1>4. AnswerInv'
  BY <1>1, <1>2, <1>3 DEF AnswerInv, Truthful
<1>5. UNCHANGED <<cmdSeq, cmdPayload, piActive, ackedSeq, restarts>>
  BY DEF piVars, bounds
<1>6. OrderInv'
  BY <1>1, <1>2, <1>5 DEF IInv, OrderInv
<1>7. OneRunInv' /\ AckMeansApplied'
  BY <1>1, <1>2, <1>5 DEF IInv, OneRunInv, AckMeansApplied
<1>8. QED
  BY <1>4, <1>6, <1>7 DEF IInv

\* The service is part of the main loop: it never touches what the handlers keep.
LEMMA ServiceIsQuiet == ServiceStep => MainLoopOnly
BY DEF ServiceStep, ReadRate, ReadRows, ReadImu, ReadRun, ClearRate, ClearRows,
       ClearImu, ClearRun, Read, Clear, StopAdc, ProgramAdc, StartAdc, ProgramImu, Switch

LEMMA QuietBoardStep ==
  ASSUME IInv, ErrorCallback \/ MainLoopOnly, UNCHANGED <<piVars, bounds>>
  PROVE  IInv'
<1>1. UNCHANGED <<frame, cmdSlot, ackFlags, ackSeq, lastApplied, active>>
  BY DEF ErrorCallback, MainLoopOnly, ackVars, txVars
<1>2. txIdx' \in -1..1 /\ dma' \in -1..1
  BY DEF ErrorCallback, Disarm, MainLoopOnly, txVars, IInv, AnswerInv
<1>3. UNCHANGED <<cmdSeq, cmdPayload, piActive, ackedSeq, restarts>>
  BY DEF piVars, bounds
<1>4. AnswerInv' /\ OrderInv' /\ OneRunInv' /\ AckMeansApplied'
  BY <1>1, <1>2, <1>3
  DEF IInv, AnswerInv, OrderInv, Queued, OneRunInv, AckMeansApplied
<1>5. QED
  BY <1>4 DEF IInv
-----------------------------------------------------------------------------
(* An exchange, and what the controller makes of the frame *)

\* The board gets the command that is pending now, or nothing.
LEMMA Arrives ==
  ASSUME IInv, NEW rx \in Arrivals, rx # NoCmd
  PROVE  Queued(rx)
<1>1. rx \in {Command(TRUE), Command(FALSE)}
  BY DEF Arrivals, Outgoing
<1>2. rx.seq = cmdSeq /\ rx.op = "SET_CONFIG" /\ rx.payload = cmdPayload
  BY <1>1 DEF Command
<1>3. QED
  BY <1>2 DEF IInv, OrderInv, Queued

\* An answer that the controller takes for the ACK of its command is one: the board
\* has applied that command and none since.
LEMMA AckIsTrue ==
  ASSUME IInv, dma >= 0, AckOk(frame[dma])
  PROVE  lastApplied = cmdSeq /\ active = cmdPayload
<1>1. dma \in 0..1
  BY DEF IInv, AnswerInv
<1>2. frame[dma].ackSeq = cmdSeq /\ frame[dma].ack = "ok"
  BY DEF AckOk
<1>3. cmdSeq <= lastApplied
  BY <1>1, <1>2 DEF IInv, AnswerInv, Truthful
<1>4. QED
  BY <1>3 DEF IInv, OrderInv

LEMMA ExchangeStep ==
  ASSUME IInv, NEW rx \in Arrivals, NEW received \in BOOLEAN,
         NEW ok \in BOOLEAN, NEW abort \in BOOLEAN, Exchange(rx, received, ok, abort)
  PROVE  IInv'
<1>1. /\ dma >= 0 /\ restarts' = restarts
      /\ UNCHANGED <<frame, ackFlags, ackSeq, lastApplied, active>>
      /\ cmdSlot' = IF cmdSlot = NoCmd THEN rx ELSE cmdSlot
  BY DEF Exchange, SpiDone, TxRxCplt, ackVars, bounds
<1>2. txIdx' \in -1..1 /\ dma' \in -1..1
  <2>1. Other(txIdx) \in 0..1
    BY DEF Other
  <2>2. CASE Disarm
    BY <2>2 DEF Disarm
  <2>3. CASE ArmTx(Other(txIdx), ok, FALSE)
    BY <2>1, <2>3 DEF ArmTx
  <2>4. QED
    BY <2>2, <2>3 DEF Exchange, SpiDone, TxRxCplt
<1>3. UNCHANGED <<cmdSeq, cmdPayload>>
  BY DEF Exchange, Observe, Ignore, piVars
<1>4. AnswerInv'
  BY <1>1, <1>2 DEF IInv, AnswerInv
<1>5. cmdSlot' # NoCmd => Queued(cmdSlot')
  BY <1>1, Arrives DEF IInv, OrderInv
<1>6. OrderInv'
  BY <1>1, <1>3, <1>5 DEF IInv, OrderInv, Queued
<1>7. OneRunInv' /\ AckMeansApplied'
  <2>1. CASE UNCHANGED <<piActive, ackedSeq>>
    BY <1>1, <2>1 DEF IInv, OneRunInv, AckMeansApplied
  <2>2. CASE AckOk(frame[dma])
    <3>1. piActive' = cmdPayload /\ ackedSeq' = cmdSeq
      BY <2>2 DEF AckOk
    <3>2. QED
      BY <1>1, <2>2, <3>1, AckIsTrue DEF IInv, OrderInv, OneRunInv, AckMeansApplied
  <2>3. QED
    BY <2>1, <2>2 DEF Exchange, Observe, Ignore, NoMatch, AckNack, piVars
<1>8. QED
  BY <1>4, <1>6, <1>7 DEF IInv
-----------------------------------------------------------------------------
(* The controller's own steps *)

LEMMA ReloadStep ==
  ASSUME IInv, NEW p, Reload(p)
  PROVE  IInv'
<1>1. /\ cmdSeq' = cmdSeq + 1
      /\ UNCHANGED <<frame, cmdSlot, ackFlags, ackSeq, lastApplied, active, txIdx, dma,
                     piActive, ackedSeq, restarts>>
  BY DEF Reload, QueueSetConfig, allVars, vars, txVars, ackVars, bounds
<1>2. AnswerInv' /\ OneRunInv' /\ AckMeansApplied'
  BY <1>1 DEF IInv, AnswerInv, OneRunInv, AckMeansApplied
<1>3. OrderInv'
  BY <1>1 DEF IInv, OrderInv, Queued
<1>4. QED
  BY <1>2, <1>3 DEF IInv

LEMMA ReloadWireStep ==
  ASSUME IInv, ReloadWire
  PROVE  IInv'
<1>1. UNCHANGED <<frame, cmdSlot, ackFlags, ackSeq, lastApplied, active, txIdx, dma,
                  piActive, ackedSeq, restarts, cmdSeq, cmdPayload>>
  BY DEF ReloadWire, allVars, vars, txVars, ackVars
<1>2. QED
  BY <1>1 DEF IInv, AnswerInv, OrderInv, Queued, OneRunInv, AckMeansApplied

LEMMA Keeps ==
  ASSUME OneRun
  PROVE  IInv /\ [LinkNext]_linkVars => IInv'
<1> SUFFICES ASSUME IInv, [LinkNext]_linkVars PROVE IInv'
  OBVIOUS
<1>1. CASE BoardStep
  BY <1>1, BlockStep, QuietBoardStep, ServiceIsQuiet DEF BoardStep, AdcBlock, SpiError
<1>2. CASE \E rx \in Arrivals, received \in IF Lossy THEN BOOLEAN ELSE {TRUE},
              ok, abort \in BOOLEAN : Exchange(rx, received, ok, abort)
  BY <1>2, ExchangeStep
<1>3. CASE \E p \in Configs : Reload(p)
  BY <1>3, ReloadStep
<1>4. CASE ReloadWire
  BY <1>4, ReloadWireStep
<1>5. ~(\E p \in ConfigsAtStart : Restart(p))
  BY DEF Restart, OneRun, IInv, OneRunInv
<1>6. CASE UNCHANGED linkVars
  BY <1>6
  DEF linkVars, allVars, vars, txVars, ackVars, piVars, bounds, IInv, AnswerInv, OrderInv,
      Queued, OneRunInv, AckMeansApplied
<1>7. QED
  BY <1>1, <1>2, <1>3, <1>4, <1>5, <1>6 DEF LinkNext

\* As long as one controller runs, no damaged, late or misattributed answer is taken
\* for an ACK: what the controller holds for acknowledged the board applied.
THEOREM AcksAreTrue ==
  ASSUME OneRun
  PROVE  LinkSpec => []AckMeansApplied
<1>1. IInv => AckMeansApplied
  BY DEF IInv
<1>2. QED
  BY <1>1, Starts, Keeps, PTL DEF LinkSpec
-----------------------------------------------------------------------------
(* What the loader accepts, the board accepts.                              *)

\* What a cast can produce and the range check lets through lies in the range.
LEMMA CastInRange ==
  ASSUME NEW n, NEW lowest, NEW highest, NEW range
  PROVE  Cast(n, lowest, highest, range) \subseteq range
BY DEF Cast

\* j_uint yields the default or a value of its range.
LEMMA UnsignedInRange ==
  ASSUME NEW v, NEW default, NEW range
  PROVE  Unsigned(v, default, range) \subseteq range \cup {default}
BY CastInRange DEF Unsigned

\* The three numbers of the stm tier.
LEMMA RowsInRange ==
  ASSUME NEW v, NEW n \in Rows(v)
  PROVE  n \in Nat /\ n \in 1..MaxRows
<1>1. n \in 1..MaxRows \cup {Defaults.rows}
  BY UnsignedInRange, Zenon DEF Rows
<1> QED BY <1>1, SMT DEF MaxRows, Defaults

LEMMA RatesInRange ==
  ASSUME NEW v, NEW n \in Rates(v)
  PROVE  n \in Nat /\ (n = 0 \/ n \in RateBand)
<1>1. n \in Unsigned(v, Defaults.rate, RateRange) /\ NotTooLow(n, 100)
  BY SMT DEF Rates
<1>2. n \in RateRange \cup {Defaults.rate}
  BY <1>1, UnsignedInRange, Zenon
<1>3. MaxRate \in Nat /\ Defaults.rate \in Nat /\ Defaults.rate <= MaxRate
  BY SMT DEF MaxRate, Defaults
<1>4. n \in 0..MaxRate
  BY <1>2, <1>3, SMT DEF RateRange
<1>5. n = 0 \/ n >= 100
  BY <1>1, SMT DEF NotTooLow
<1> QED BY <1>3, <1>4, <1>5, SMT DEF RateBand

LEMMA ImusInRange ==
  ASSUME NEW v, NEW n \in Imus(v)
  PROVE  n \in Nat /\ (n = 0 \/ n \in ImuBand)
<1>1. n \in Unsigned(v, Defaults.imu, ImuRange) /\ NotTooLow(n, 10)
  BY SMT DEF Imus
<1>2. n \in ImuRange \cup {Defaults.imu}
  BY <1>1, UnsignedInRange, Zenon
<1> QED BY <1>1, <1>2, SMT DEF NotTooLow, Defaults, ImuBand, ImuRange

\* A run state is run or stop, and the only source is the ADC.
LEMMA WordsInRange ==
  ASSUME NEW v
  PROVE  RunStates(v) \subseteq {0, 1} /\ Sources(v) \subseteq {1}
<1>1. Integer(v, {0, 1}) \subseteq {0, 1} /\ Integer(v, {1}) \subseteq {1}
  BY CastInRange, Zenon DEF Integer
<1> QED BY <1>1, SMT DEF RunStates, Sources, Means, Defaults

\* The fields of a payload taken from five sets.
LEMMA PayloadFields ==
  ASSUME NEW R, NEW S, NEW I, NEW U, NEW O,
         NEW p \in [rows : R, rate : S, imu : I, run : U, source : O]
  PROVE  /\ p.rows \in R /\ p.rate \in S /\ p.imu \in I /\ p.run \in U /\ p.source \in O
         /\ p = [rows |-> p.rows, rate |-> p.rate, imu |-> p.imu, run |-> p.run,
                 source |-> p.source]
BY SMT

\* Every stm tier that config_load_file can produce, from any file and whatever an
\* undefined cast yields, passes the range check of the board's
\* process_pending_cmd: a NACK_RANGE can only come from damage or another sender.
THEOREM LoadedIsInRange ==
  ASSUME NEW file
  PROVE  LoadsAtStart(file) \subseteq {p \in Payload : InRange(p)}
<1>1. ASSUME NEW p \in StmTier(file)
      PROVE  p \in Payload /\ InRange(p)
  <2>1. /\ p.rows \in Rows(file.rows) /\ p.rate \in Rates(file.rate)
        /\ p.imu \in Imus(file.imu)
        /\ p.run \in RunStates(file.run) /\ p.source \in Sources(file.source)
        /\ p = [rows |-> p.rows, rate |-> p.rate, imu |-> p.imu, run |-> p.run,
                source |-> p.source]
    BY <1>1, PayloadFields, SMT DEF StmTier
  <2>2. p.rows \in Nat /\ p.rows \in 1..MaxRows
    BY <2>1, RowsInRange, Zenon
  <2>3. p.rate \in Nat /\ (p.rate = 0 \/ p.rate \in RateBand)
    BY <2>1, RatesInRange, Zenon
  <2>4. p.imu \in Nat /\ (p.imu = 0 \/ p.imu \in ImuBand)
    BY <2>1, ImusInRange, Zenon
  <2>5. p.run \in {0, 1} /\ p.source = 1
    BY <2>1, WordsInRange, SMT
  <2>6. InRange(p)
    BY <2>2, <2>3, <2>4, <2>5, SMT DEF InRange
  <2>7. p.run \in Nat /\ p.source \in Nat
    BY <2>5, SMT
  <2>8. p \in Payload
    BY <2>1, <2>2, <2>3, <2>4, <2>7, SMT DEF Payload
  <2> QED BY <2>6, <2>8
<1>2. Defaults \in Payload /\ InRange(Defaults)
  BY SMT DEF Defaults, Payload, InRange, MaxRows, RateBand, ImuBand, MaxRate
<1> QED BY <1>1, <1>2, SMT DEF LoadsAtStart, Loads
-----------------------------------------------------------------------------
(* A link that damages nothing: the answer is back within five exchanges.  *)

\* The smallest budget that is enough; CMD_MAX_RETRIES is 200.
FiveTries == Retries >= 5

\* Without damage the board only ever answers OK.
Positive(a, s) == s \in Nat /\ (a = "ok" \/ (a = "none" /\ s = 0))
Sound(c) ==
  /\ c.crcOk /\ c.schemaOk /\ c.op = "SET_CONFIG" /\ InRange(c.payload) /\ c.seq \in Nat

\* While a command waits in the slot no frame is pending: the block that would have
\* queued one takes the command out.
BoardInv ==
  /\ txIdx = dma /\ dma \in -1..1 /\ DOMAIN frame = 0..1
  /\ pending => dma >= 0
  /\ cmdSlot # NoCmd => ~pending /\ Sound(cmdSlot)
  /\ Positive(ackFlags, ackSeq)
  /\ \A i \in 0..1 : Positive(frame[i].ack, frame[i].ackSeq)

ControllerInv ==
  /\ cmdSeq \in 0..MaxCmdSeq /\ cmdRetries \in Nat
  /\ cmdState = "PENDING" => cmdSeq >= 1 /\ cmdPayload \in Configs
  /\ CleanLinkDelivers

\* How many exchanges it takes at most until the answer to the pending command is in.
\* A frame of an earlier block goes before the answer, and so does one queued behind
\* it; a command waits for the next block, and one that finds the slot taken by an
\* earlier command is lost.
Carries(i) == frame[i].ackSeq = cmdSeq
Foreign == cmdSlot # NoCmd /\ cmdSlot.seq # cmdSeq

NeededInFlight ==
  IF pending /\ ~Carries(Other(dma)) THEN 3
  ELSE IF dma >= 0 /\ ~Carries(dma) THEN 2 ELSE 1

Needed ==
  IF Foreign THEN (IF dma >= 0 THEN 5 ELSE 4)
  ELSE IF ackSeq = cmdSeq THEN NeededInFlight
  ELSE IF cmdSlot = NoCmd THEN 4
  ELSE IF dma >= 0 THEN 3 ELSE 2

BudgetInv == cmdState = "PENDING" => cmdRetries >= Needed

CleanInv == BoardInv /\ ControllerInv /\ BudgetInv

LEMMA CleanStarts == FiveTries /\ LinkInit => CleanInv
<1> SUFFICES ASSUME FiveTries, LinkInit PROVE CleanInv
  OBVIOUS
<1>1. BoardInv
  BY DEF LinkInit, AcquireInit, Init, BoardInv, Positive, BlankFrame
<1>2. ControllerInv /\ BudgetInv
  BY BoundsAssumption
  DEF LinkInit, StartController, ControllerInv, BudgetInv, CleanLinkDelivers
<1>3. QED
  BY <1>1, <1>2 DEF CleanInv

\* Five exchanges are enough wherever the board is, and with nothing armed four.
LEMMA NeededBounds ==
  /\ Needed \in 1..5 /\ Needed' \in 1..5
  /\ ~Foreign' => Needed' <= 4
BY DEF Needed, NeededInFlight

\* What the controller sends is a command that the board will take.
LEMMA SendsSound ==
  ASSUME ControllerInv, cmdState = "PENDING"
  PROVE  Outgoing # NoCmd /\ Sound(Outgoing) /\ Outgoing.seq = cmdSeq
<1>1. cmdSeq \in 1..MaxCmdSeq /\ cmdPayload \in Configs
  BY BoundsAssumption DEF ControllerInv
<1>2. Outgoing = Command(TRUE)
  BY DEF Outgoing
<1>3. Outgoing # NoCmd
  <2>1. Command(TRUE) \in [seq : 1..MaxCmdSeq, op : {"SET_CONFIG"}, crcOk : BOOLEAN,
                           schemaOk : {TRUE}, payload : Configs]
    BY <1>1 DEF Command
  <2>2. QED
    BY <1>2, <2>1, SentAssumption, NoCmdAssumption
<1>4. InRange(cmdPayload)
  <2>1. PICK file \in Files : cmdPayload \in Loads(file)
    BY <1>1 DEF Configs
  <2>2. cmdPayload \in LoadsAtStart(file)
    BY <2>1 DEF LoadsAtStart
  <2>3. QED
    BY <2>2, LoadedIsInRange
<1>5. QED
  BY <1>1, <1>2, <1>3, <1>4 DEF Command, Sound

\* What the board's command processor does with such a command.
LEMMA Confirms ==
  ASSUME BoardInv, ProcessPendingCmd \/ NoPendingCmd
  PROVE  /\ cmdSlot' = NoCmd
         /\ Positive(ackFlags', ackSeq')
         /\ ackSeq' = IF cmdSlot = NoCmd THEN ackSeq ELSE cmdSlot.seq
<1>1. CASE NoPendingCmd
  BY <1>1 DEF NoPendingCmd, BoardInv
<1>2. CASE ProcessPendingCmd
  <2>1. cmdSlot # NoCmd /\ cmdSlot' = NoCmd /\ Sound(cmdSlot)
    BY <1>2 DEF ProcessPendingCmd, BoardInv
  <2>2. Repeat(cmdSlot) \/ ApplyConfig(cmdSlot)
    BY <1>2, <2>1
    DEF ProcessPendingCmd, Sound, NackCrc, NackSchema, NackCmd, Ping, NackRange
  <2>3. ackFlags' = "ok" /\ ackSeq' = cmdSlot.seq
    BY <2>2 DEF Repeat, ApplyConfig, Refuse, Answer
  <2>4. QED
    BY <2>1, <2>3 DEF Positive, Sound
<1>3. QED
  BY <1>1, <1>2

\* Where a new block goes: nowhere, to an idle DMA, or behind the frame in flight.
LEMMA Places ==
  ASSUME BoardInv, NEW ok \in BOOLEAN, IdleBlock(ok) \/ QueuedBlock \/ StalledBlock(ok)
  PROVE  /\ txIdx' = dma' /\ dma' \in -1..1 /\ DOMAIN frame' = 0..1
         /\ \A i \in 0..1 : Positive(frame'[i].ack, frame'[i].ackSeq)
         /\ \/ dma' = -1 /\ ~pending'
            \/ dma' = 0 /\ ~pending' /\ frame'[0].ackSeq = ackSeq
            \/ /\ dma >= 0 /\ dma' = dma /\ pending'
               /\ frame'[dma].ackSeq = frame[dma].ackSeq
               /\ frame'[Other(dma)].ackSeq = ackSeq
<1>0. /\ txIdx = dma /\ dma \in -1..1 /\ DOMAIN frame = 0..1 /\ Positive(ackFlags, ackSeq)
      /\ \A i \in 0..1 : Positive(frame[i].ack, frame[i].ackSeq)
  BY DEF BoardInv
<1>1. ASSUME NEW j \in 0..1, AssembleFrame(j)
      PROVE  /\ DOMAIN frame' = 0..1 /\ frame'[j].ackSeq = ackSeq
             /\ \A i \in 0..1 \ {j} : frame'[i] = frame[i]
             /\ \A i \in 0..1 : Positive(frame'[i].ack, frame'[i].ackSeq)
  BY <1>0, <1>1 DEF AssembleFrame
<1>2. CASE IdleBlock(ok)
  <2>1. AssembleFrame(0) /\ txIdx' \in {-1, 0} /\ dma' = txIdx' /\ txIdx < 0
    BY <1>2 DEF IdleBlock, ArmTx
  <2>2. ~pending'
    <3>1. ~pending
      BY <1>0, <2>1 DEF BoardInv
    <3>2. pending' = pending
      BY <1>2 DEF IdleBlock
    <3>3. QED
      BY <3>1, <3>2
  <2>3. QED
    BY <1>1, <2>1, <2>2
<1>3. CASE StalledBlock(ok)
  <2>1. AssembleFrame(0) /\ txIdx' \in {-1, 0} /\ dma' = txIdx'
    BY <1>3 DEF StalledBlock, ArmTx
  <2>2. ~pending'
    BY <1>3, Zenon DEF StalledBlock
  <2>3. QED
    BY <1>1, <2>1, <2>2
<1>4. CASE QueuedBlock
  <2>1. AssembleFrame(Other(dma)) /\ txIdx' = txIdx /\ dma' = dma /\ dma >= 0
    BY <1>0, <1>4 DEF QueuedBlock
  <2>2. pending'
    BY <1>4, Zenon DEF QueuedBlock
  <2>3. Other(dma) \in 0..1 /\ Other(dma) # dma /\ dma \in 0..1
    BY <1>0, <2>1 DEF Other
  <2>4. QED
    BY <1>0, <1>1, <2>1, <2>2, <2>3
<1>5. QED
  BY <1>2, <1>3, <1>4

LEMMA CleanBlock ==
  ASSUME CleanInv, NEW ok \in BOOLEAN, BlockReady(ok), UNCHANGED piVars
  PROVE  CleanInv'
<1>0. BoardInv /\ ControllerInv /\ BudgetInv
  BY DEF CleanInv
<1>1. /\ cmdSlot' = NoCmd /\ Positive(ackFlags', ackSeq')
      /\ ackSeq' = IF cmdSlot = NoCmd THEN ackSeq ELSE cmdSlot.seq
  BY <1>0, Confirms DEF BlockReady
<1>2. /\ txIdx' = dma' /\ dma' \in -1..1 /\ DOMAIN frame' = 0..1
      /\ \A i \in 0..1 : Positive(frame'[i].ack, frame'[i].ackSeq)
      /\ \/ dma' = -1 /\ ~pending'
         \/ dma' = 0 /\ ~pending' /\ frame'[0].ackSeq = ackSeq
         \/ /\ dma >= 0 /\ dma' = dma /\ pending'
            /\ frame'[dma].ackSeq = frame[dma].ackSeq
            /\ frame'[Other(dma)].ackSeq = ackSeq
  BY <1>0, Places DEF BlockReady
<1>3. BoardInv'
  BY <1>1, <1>2 DEF BoardInv
<1>4. /\ UNCHANGED <<cmdState, cmdSeq, cmdRetries, cmdPayload, outcome>>
  BY DEF piVars
<1>5. ControllerInv'
  BY <1>0, <1>4 DEF ControllerInv, CleanLinkDelivers
<1>6. Needed' <= Needed
  <2>1. ~Foreign'
    BY <1>1 DEF Foreign
  <2>2. CASE Foreign
    <3>1. Needed >= 4
      BY <2>2 DEF Needed
    <3>2. Needed' <= 4
      BY <2>1, NeededBounds
    <3>3. QED
      BY <3>1, <3>2, NeededBounds
  <2>3. CASE ~Foreign /\ ackSeq = cmdSeq
    <3>1. ackSeq' = cmdSeq'
      BY <1>1, <1>4, <2>3 DEF Foreign
    <3>2. Needed = NeededInFlight /\ Needed' = NeededInFlight'
      BY <2>1, <2>3, <3>1 DEF Needed
    <3>3. NeededInFlight' <= NeededInFlight
      BY <1>0, <1>2, <1>4, <2>3 DEF NeededInFlight, Carries, Other, BoardInv
    <3>4. QED
      BY <3>2, <3>3
  <2>4. CASE ~Foreign /\ ackSeq # cmdSeq /\ cmdSlot = NoCmd
    <3>1. Needed = 4 /\ Needed' = 4
      BY <1>1, <1>4, <2>1, <2>4 DEF Needed
    <3>2. QED
      BY <3>1
  <2>5. CASE ~Foreign /\ ackSeq # cmdSeq /\ cmdSlot # NoCmd
    <3>1. ackSeq' = cmdSeq'
      BY <1>1, <1>4, <2>5 DEF Foreign
    <3>2. Needed = (IF dma >= 0 THEN 3 ELSE 2) /\ Needed' = NeededInFlight'
      BY <2>1, <2>5, <3>1 DEF Needed
    <3>3. NeededInFlight' <= (IF dma >= 0 THEN 3 ELSE 2)
      BY <1>2 DEF NeededInFlight
    <3>4. QED
      BY <3>2, <3>3
  <2>6. QED
    BY <2>2, <2>3, <2>4, <2>5
<1>7. BudgetInv'
  <2>1. Needed \in 1..5 /\ Needed' \in 1..5 /\ cmdRetries \in Nat
    BY <1>0, NeededBounds DEF ControllerInv
  <2>2. QED
    BY <1>0, <1>4, <1>6, <2>1 DEF BudgetInv
<1>8. QED
  BY <1>3, <1>5, <1>7 DEF CleanInv

\* What an exchange does to the board.
LEMMA Clocks ==
  ASSUME BoardInv, ControllerInv, NEW ok \in BOOLEAN, NEW abort \in BOOLEAN,
         TxRxCplt(Outgoing, ok, abort)
  PROVE  /\ BoardInv' /\ dma \in 0..1 /\ ~pending'
         /\ UNCHANGED <<frame, ackFlags, ackSeq>>
         /\ cmdSlot' = IF cmdSlot = NoCmd THEN Outgoing ELSE cmdSlot
         /\ dma' = -1 \/ (pending /\ dma' = Other(dma))
<1>1. /\ dma \in 0..1 /\ txIdx = dma
      /\ UNCHANGED <<frame, ackFlags, ackSeq>>
      /\ cmdSlot' = IF cmdSlot = NoCmd THEN Outgoing ELSE cmdSlot
  BY DEF TxRxCplt, ackVars, BoardInv
<1>2. ~pending'
  BY Zenon DEF TxRxCplt
<1>3. txIdx' = dma' /\ (dma' = -1 \/ (pending /\ dma' = Other(dma)))
  <2>1. CASE pending /\ ~abort
    BY <1>1, <2>1 DEF TxRxCplt, ArmTx
  <2>2. CASE ~(pending /\ ~abort)
    BY <2>2 DEF TxRxCplt, Disarm
  <2>3. QED
    BY <2>1, <2>2
<1>4. cmdSlot' # NoCmd => Sound(cmdSlot')
  <2>1. CASE cmdState = "PENDING"
    BY <1>1, <2>1, SendsSound DEF BoardInv
  <2>2. CASE cmdState # "PENDING"
    BY <1>1, <2>2 DEF Outgoing, BoardInv
  <2>3. QED
    BY <2>1, <2>2
<1>5. BoardInv'
  BY <1>1, <1>2, <1>3, <1>4 DEF BoardInv, Other
<1>6. QED
  BY <1>1, <1>2, <1>3, <1>5

\* An exchange brings the answer closer, or in.
LEMMA Closer ==
  ASSUME BoardInv, ControllerInv, cmdState = "PENDING", cmdSeq' = cmdSeq,
         NEW ok \in BOOLEAN, NEW abort \in BOOLEAN, TxRxCplt(Outgoing, ok, abort)
  PROVE  /\ Needed' <= Needed
         /\ ~Carries(dma) => Needed' <= Needed - 1
<1>1. /\ dma \in 0..1 /\ ~pending' /\ UNCHANGED <<frame, ackSeq>>
      /\ cmdSlot' = IF cmdSlot = NoCmd THEN Outgoing ELSE cmdSlot
      /\ dma' = -1 \/ (pending /\ dma' = Other(dma))
  BY Clocks
<1>2. Outgoing # NoCmd /\ Outgoing.seq = cmdSeq
  BY SendsSound
<1>3. Foreign' <=> Foreign
  BY <1>1, <1>2 DEF Foreign
<1>4. CASE Foreign
  <2>1. dma' = -1
    BY <1>1, <1>4 DEF BoardInv, Foreign
  <2>2. Needed = 5 /\ Needed' = 4
    BY <1>1, <1>3, <1>4, <2>1 DEF Needed
  <2>3. QED
    BY <2>2
<1>5. CASE ~Foreign /\ ackSeq = cmdSeq
  <2>1. Needed = NeededInFlight /\ Needed' = NeededInFlight'
    BY <1>1, <1>3, <1>5 DEF Needed
  <2>2. CASE pending /\ ~Carries(Other(dma))
    <3>1. NeededInFlight = 3
      BY <2>2 DEF NeededInFlight
    <3>2. NeededInFlight' \in {1, 2}
      BY <1>1 DEF NeededInFlight
    <3>3. QED
      BY <2>1, <3>1, <3>2
  <2>3. CASE ~(pending /\ ~Carries(Other(dma)))
    <3>1. dma' >= 0 => (frame'[dma'].ackSeq = cmdSeq')
      BY <1>1, <2>3 DEF Carries
    <3>2. NeededInFlight' = 1
      BY <1>1, <3>1 DEF NeededInFlight, Carries
    <3>3. NeededInFlight = IF Carries(dma) THEN 1 ELSE 2
      BY <1>1, <2>3 DEF NeededInFlight
    <3>4. QED
      BY <2>1, <3>2, <3>3
  <2>4. QED
    BY <2>2, <2>3
<1>6. CASE ~Foreign /\ ackSeq # cmdSeq
  <2>1. cmdSlot' # NoCmd /\ ackSeq' # cmdSeq'
    BY <1>1, <1>2, <1>6
  <2>2. Needed' = IF dma' >= 0 THEN 3 ELSE 2
    BY <1>3, <1>6, <2>1 DEF Needed
  <2>3. CASE cmdSlot = NoCmd
    <3>1. Needed = 4
      BY <1>6, <2>3 DEF Needed
    <3>2. QED
      BY <2>2, <3>1
  <2>4. CASE cmdSlot # NoCmd
    <3>1. Needed = 3
      BY <1>1, <1>6, <2>4 DEF Needed
    <3>2. dma' = -1
      BY <1>1, <2>4 DEF BoardInv
    <3>3. QED
      BY <2>2, <3>1, <3>2
  <2>5. QED
    BY <2>3, <2>4
<1>7. QED
  BY <1>4, <1>5, <1>6

LEMMA CleanExchangeStep ==
  ASSUME CleanInv, NEW ok \in BOOLEAN, NEW abort \in BOOLEAN,
         Exchange(Outgoing, TRUE, ok, abort)
  PROVE  CleanInv'
<1> DEFINE f == frame[dma]
<1>0. BoardInv /\ ControllerInv /\ BudgetInv /\ TxRxCplt(Outgoing, ok, abort)
  BY DEF CleanInv, Exchange, SpiDone
<1>1. BoardInv' /\ dma \in 0..1 /\ Positive(f.ack, f.ackSeq)
  BY <1>0, Clocks DEF BoardInv
<1>2. CASE UNCHANGED piVars
  <2>1. UNCHANGED <<cmdState, cmdSeq, cmdRetries, cmdPayload, outcome>>
    BY <1>2 DEF piVars
  <2>2. ControllerInv'
    BY <1>0, <2>1 DEF ControllerInv, CleanLinkDelivers
  <2>3. cmdState = "PENDING" => Needed' <= Needed
    BY <1>0, <2>1, Closer
  <2>4. BudgetInv'
    BY <1>0, <2>1, <2>3, NeededBounds DEF BudgetInv, ControllerInv
  <2>5. QED
    BY <1>1, <2>2, <2>4 DEF CleanInv
<1>3. CASE Observe(f)
  <2>1. /\ cmdState = "PENDING" /\ UNCHANGED <<cmdSeq, cmdPayload>>
        /\ cmdRetries' = IF cmdRetries > 0 THEN cmdRetries - 1 ELSE 0
        /\ NoMatch(f) \/ AckOk(f) \/ AckNack(f)
    BY <1>3 DEF Observe, CountAttempt
  <2>2. cmdSeq >= 1 /\ cmdSeq \in Nat /\ cmdRetries \in Nat /\ cmdRetries >= Needed
    BY <1>0, <2>1, BoundsAssumption DEF ControllerInv, BudgetInv
  <2>3. ~AckNack(f)
    BY <1>1 DEF AckNack, Positive
  <2>4. CASE AckOk(f)
    <3>1. cmdState' = "IDLE" /\ outcome' = "ack"
      BY <2>4 DEF AckOk, EndCommand
    <3>2. ControllerInv' /\ BudgetInv'
      BY <1>0, <2>1, <2>2, <3>1 DEF ControllerInv, BudgetInv, CleanLinkDelivers
    <3>3. QED
      BY <1>1, <3>2 DEF CleanInv
  <2>5. CASE NoMatch(f)
    <3>1. Needed' <= Needed - 1
      BY <1>0, <2>1, <2>5, Closer DEF NoMatch, Carries
    <3>2. cmdRetries' >= Needed' /\ cmdRetries' \in Nat /\ cmdRetries' # 0
      BY <2>1, <2>2, <3>1, NeededBounds
    <3>3. UNCHANGED <<cmdState, outcome>>
      BY <2>5, <3>2 DEF NoMatch
    <3>4. ControllerInv' /\ BudgetInv'
      BY <1>0, <2>1, <3>2, <3>3 DEF ControllerInv, BudgetInv, CleanLinkDelivers
    <3>5. QED
      BY <1>1, <3>4 DEF CleanInv
  <2>6. QED
    BY <2>1, <2>3, <2>4, <2>5
<1>4. QED
  BY <1>2, <1>3 DEF Exchange, Ignore

LEMMA CleanQuietBoard ==
  ASSUME CleanInv, ErrorCallback \/ MainLoopOnly, UNCHANGED piVars
  PROVE  CleanInv'
<1>0. BoardInv /\ ControllerInv /\ BudgetInv
  BY DEF CleanInv
<1>1. /\ UNCHANGED <<frame, cmdSlot, ackFlags, ackSeq>>
      /\ UNCHANGED <<cmdState, cmdSeq, cmdRetries, cmdPayload, outcome>>
  BY DEF ErrorCallback, MainLoopOnly, ackVars, txVars, piVars
<1>2. ControllerInv'
  BY <1>0, <1>1 DEF ControllerInv, CleanLinkDelivers
<1>3. BoardInv' /\ Needed' <= Needed
  <2>1. CASE ErrorCallback
    <3>1. txIdx' = -1 /\ dma' = -1
      BY <2>1 DEF ErrorCallback, Disarm
    <3>2. ~pending'
      BY <2>1, Zenon DEF ErrorCallback
    <3>3. BoardInv'
      BY <1>0, <1>1, <3>1, <3>2 DEF BoardInv
    <3>4. NeededInFlight' <= NeededInFlight
      BY <3>1, <3>2 DEF NeededInFlight
    <3>5. Needed' <= Needed
      BY <1>1, <3>1, <3>4 DEF Needed, Foreign
    <3>6. QED
      BY <3>3, <3>5
  <2>2. CASE MainLoopOnly
    <3>1. UNCHANGED <<txIdx, dma, pending>>
      BY <2>2 DEF MainLoopOnly, txVars
    <3>2. BoardInv'
      BY <1>0, <1>1, <3>1 DEF BoardInv
    <3>3. Needed' = Needed
      BY <1>1, <3>1 DEF Needed, NeededInFlight, Foreign, Carries, Other
    <3>4. QED
      BY <3>2, <3>3, NeededBounds
  <2>3. QED
    BY <2>1, <2>2
<1>4. BudgetInv'
  BY <1>0, <1>1, <1>3, NeededBounds DEF BudgetInv, ControllerInv
<1>5. QED
  BY <1>2, <1>3, <1>4 DEF CleanInv

\* Reloads and restarts leave the board alone, and hand out a full budget or end the
\* command.
LEMMA CleanControllerStep ==
  ASSUME FiveTries, CleanInv,
         \/ \E p \in Configs : Reload(p)
         \/ ReloadWire
         \/ \E p \in ConfigsAtStart : Restart(p)
         \/ UNCHANGED linkVars
  PROVE  CleanInv'
<1>0. BoardInv /\ ControllerInv /\ BudgetInv
  BY DEF CleanInv
<1>1. UNCHANGED vars
  BY DEF Reload, ReloadWire, Restart, linkVars, allVars
<1>2. UNCHANGED <<frame, txIdx, dma, pending, cmdSlot, ackFlags, ackSeq>>
  BY <1>1 DEF vars, txVars, ackVars
<1>3. BoardInv'
  BY <1>0, <1>2 DEF BoardInv
<1>4. CASE \E p \in Configs : Reload(p)
  <2>1. /\ cmdSeq < MaxCmdSeq /\ cmdSeq' = cmdSeq + 1 /\ cmdPayload' \in Configs
        /\ cmdState' = "PENDING" /\ cmdRetries' = Retries /\ outcome' = "none"
    BY <1>4 DEF Reload, QueueSetConfig
  <2>2. ControllerInv'
    BY <1>0, <2>1, RetriesAssumption, BoundsAssumption DEF ControllerInv, CleanLinkDelivers
  <2>3. BudgetInv'
    BY <2>1, RetriesAssumption, NeededBounds DEF BudgetInv, FiveTries
  <2>4. QED
    BY <1>3, <2>2, <2>3 DEF CleanInv
<1>5. CASE ReloadWire
  <2>1. cmdRetries' = Retries /\ UNCHANGED <<cmdSeq, cmdPayload, cmdState, outcome>>
    BY <1>5 DEF ReloadWire
  <2>2. ControllerInv'
    BY <1>0, <2>1, RetriesAssumption DEF ControllerInv, CleanLinkDelivers
  <2>3. BudgetInv'
    BY <2>1, RetriesAssumption, NeededBounds DEF BudgetInv, FiveTries
  <2>4. QED
    BY <1>3, <2>2, <2>3 DEF CleanInv
<1>6. CASE \E p \in ConfigsAtStart : Restart(p)
  <2>1. cmdState' = "IDLE" /\ cmdSeq' = 0 /\ cmdRetries' = 0 /\ outcome' = "none"
    BY <1>6 DEF Restart
  <2>2. ControllerInv' /\ BudgetInv'
    BY <2>1, BoundsAssumption DEF ControllerInv, BudgetInv, CleanLinkDelivers
  <2>3. QED
    BY <1>3, <2>2 DEF CleanInv
<1>7. CASE UNCHANGED linkVars
  <2>1. UNCHANGED <<cmdSeq, cmdRetries, cmdPayload, cmdState, outcome>>
    BY <1>7 DEF linkVars, piVars
  <2>2. ControllerInv'
    BY <1>0, <2>1 DEF ControllerInv, CleanLinkDelivers
  <2>3. Needed' = Needed
    BY <1>2, <2>1 DEF Needed, NeededInFlight, Foreign, Carries, Other
  <2>4. BudgetInv'
    BY <1>0, <2>1, <2>3 DEF BudgetInv
  <2>5. QED
    BY <1>3, <2>2, <2>4 DEF CleanInv
<1>8. QED
  BY <1>4, <1>5, <1>6, <1>7

\* Over a link that damages nothing, whatever is overwritten, aborted, stalled,
\* reloaded or restarted meanwhile: no command is rejected, and any budget of five
\* attempts or more, which the 200 of CMD_MAX_RETRIES is, brings the answer back.
THEOREM FiveTriesDeliver ==
  ASSUME ~Lossy, FiveTries
  PROVE  LinkSpec => []CleanLinkDelivers
<1>1. CleanInv /\ [LinkNext]_linkVars => CleanInv'
  <2> SUFFICES ASSUME CleanInv, [LinkNext]_linkVars PROVE CleanInv'
    OBVIOUS
  <2>1. CASE BoardStep
    BY <2>1, CleanBlock, CleanQuietBoard, ServiceIsQuiet DEF BoardStep, AdcBlock, SpiError
  <2>2. CASE \E rx \in Arrivals, received \in IF Lossy THEN BOOLEAN ELSE {TRUE},
                ok, abort \in BOOLEAN : Exchange(rx, received, ok, abort)
    <3>1. Arrivals = {Outgoing}
      BY DEF Arrivals
    <3>2. \E ok, abort \in BOOLEAN : Exchange(Outgoing, TRUE, ok, abort)
      BY <2>2, <3>1
    <3>3. QED
      BY <3>2, CleanExchangeStep
  <2>3. CASE \/ \E p \in Configs : Reload(p)
             \/ ReloadWire
             \/ \E p \in ConfigsAtStart : Restart(p)
             \/ UNCHANGED linkVars
    BY <2>3, CleanControllerStep, FiveTries
  <2>4. QED
    BY <2>1, <2>2, <2>3 DEF LinkNext
<1>2. CleanInv => CleanLinkDelivers
  BY DEF CleanInv, ControllerInv
<1>3. QED
  BY <1>1, <1>2, CleanStarts, FiveTries, PTL DEF LinkSpec
=============================================================================
