--------------------------- MODULE MotorSendProofs ---------------------------
(***************************************************************************)
(* Safety of the STM32 board for every value of its constants, with the    *)
(* service routine of the acquisition one access per step against every    *)
(* interrupt handler.  Of the transmitter: its types, the data-ready       *)
(* handshake, the integrity of the buffer in flight and, until the         *)
(* sequence number wraps, the exactness of the watchdog and the            *)
(* implementation of a FrameChannel.  Of the acquisition: the block        *)
(* composer splits the ADC buffer by the number of rows its DMA was        *)
(* started with.  Of the commands: each is applied whole or not at all,    *)
(* and reaches the hardware unless its request was cleared unread.         *)
(***************************************************************************)
EXTENDS MotorAcquire, TLAPS

\* A block either leaves the command slot alone or empties it; in both cases
\* the answer it latches is well typed.
CommandStep == ProcessPendingCmd \/ NoPendingCmd

LEMMA CommandTypes ==
  ASSUME TypeOK, CommandStep
  PROVE  /\ cmdSlot' \in Commands \cup {NoCmd}
         /\ ackFlags' \in Answers /\ ackSeq' \in Nat
         /\ appliedLatch' \in BOOLEAN /\ lastApplied' \in Nat \cup {-1}
         /\ active' \in Payload /\ req' \in Request
<1>1. CASE NoPendingCmd
  BY <1>1 DEF TypeOK, NoPendingCmd
<1>2. CASE ProcessPendingCmd
  <2>1. /\ cmdSlot \in Commands /\ cmdSlot \in CommandFrame
        /\ cmdSlot' = NoCmd
    BY <1>2, CommandsAssumption DEF TypeOK, ProcessPendingCmd
  <2>2. cmdSlot.seq \in Nat /\ cmdSlot.payload \in Payload
    BY <2>1 DEF CommandFrame
  <2>3. CASE NackCrc(cmdSlot)
    BY <2>1, <2>3 DEF TypeOK, NackCrc, Answer, Answers
  <2>4. ASSUME NEW reason \in Answers, Refuse(cmdSlot, reason)
        PROVE  /\ ackFlags' \in Answers /\ ackSeq' \in Nat
               /\ appliedLatch' \in BOOLEAN /\ lastApplied' \in Nat \cup {-1}
               /\ active' \in Payload /\ req' \in Request
    BY <2>2, <2>4 DEF TypeOK, Refuse, Answer
  <2>5. CASE \/ NackSchema(cmdSlot) \/ NackCmd(cmdSlot) \/ Ping(cmdSlot)
             \/ Repeat(cmdSlot) \/ NackRange(cmdSlot)
    BY <2>1, <2>4, <2>5
    DEF NackSchema, NackCmd, Ping, Repeat, NackRange, Answers
  <2>6. CASE ApplyConfig(cmdSlot)
    <3>1. Requested(cmdSlot.payload) \in Request
      <4>1. cmdSlot.payload.rows \in Nat /\ cmdSlot.payload.rate \in Nat /\ cmdSlot.payload.imu \in Nat
        BY <2>2 DEF Payload
      <4>2. cmdSlot.payload.run \in {0, 1}
        BY <2>6 DEF ApplyConfig, InRange
      <4>3. req.rows \in Nat /\ req.rate \in Nat /\ req.imu \in Nat /\ req.run \in {0, 1, NoRun}
        BY DEF TypeOK, Request
      <4>4. QED
        BY <4>1, <4>2, <4>3 DEF Requested, Request
    <3>2. QED
      BY <2>1, <2>2, <2>6, <3>1 DEF TypeOK, ApplyConfig, Answer, Answers
  <2>7. QED
    BY <1>2, <2>3, <2>5, <2>6 DEF ProcessPendingCmd
<1>3. QED
  BY <1>1, <1>2 DEF CommandStep
-----------------------------------------------------------------------------
\* What holds of the transmitter whatever the width of the sequence number.
LinkInv == TypeOK /\ Handshake /\ InFlightIntact

\* The part of it that arming and disarming the DMA decide.
ArmedPart ==
  /\ txIdx \in -1..1 /\ dma \in -1..1 /\ dr \in BOOLEAN
  /\ dmaSeq \in Nat \cup {-1}
  /\ Handshake /\ InFlightIntact

LEMMA AssembledFrames ==
  ASSUME TypeOK, NEW i \in 0..1, AssembleFrame(i)
  PROVE  /\ frame' \in [0..1 -> Frame]
         /\ frame'[i].seq = seq
         /\ \A j \in 0..1 : j # i => frame'[j] = frame[j]
BY DEF TypeOK, AssembleFrame, Frame, Payload

LEMMA ArmedLink ==
  ASSUME NEW i \in 0..1, NEW ok \in BOOLEAN,
         frame' \in [0..1 -> Frame], ArmTx(i, ok, FALSE)
  PROVE  ArmedPart'
<1>1. frame'[i].seq \in Nat
  BY DEF Frame
<1>2. /\ txIdx' \in {-1, i} /\ dma' = txIdx' /\ dmaSeq' \in Nat \cup {-1}
      /\ InFlightIntact' /\ (dma' >= 0 <=> ok)
  BY <1>1 DEF ArmTx, InFlightIntact
<1>3. dr' \in BOOLEAN /\ (dr' <=> ok)
  BY Zenon DEF ArmTx
<1>4. QED
  BY <1>2, <1>3 DEF ArmedPart, Handshake

LEMMA DisarmedLink ==
  ASSUME Disarm
  PROVE  ArmedPart'
<1>1. dr' \in BOOLEAN /\ ~dr'
  BY Zenon DEF Disarm
<1>2. txIdx' = -1 /\ dma' = -1 /\ dmaSeq' = -1 /\ ~(dma' >= 0)
  BY DEF Disarm
<1>3. QED
  BY <1>1, <1>2 DEF ArmedPart, Handshake, InFlightIntact

LEMMA LinkInit == Init => LinkInv
<1> SUFFICES ASSUME Init PROVE LinkInv
  OBVIOUS
<1>1. BlankFrame \in Frame /\ NoRequest \in Request
  BY DEF BlankFrame, NoRequest, Frame, Answers, Request
<1>2. pending \in BOOLEAN /\ dr \in BOOLEAN /\ appliedLatch \in BOOLEAN /\ ~dr
  BY Zenon DEF Init
<1>3. TypeOK
  BY <1>1, <1>2, StallAssumption, BootAssumption DEF Init, TypeOK, Answers
<1>4. dma = -1 /\ txIdx = -1
  BY DEF Init
<1>5. QED
  BY <1>2, <1>3, <1>4 DEF LinkInv, Handshake, InFlightIntact

LEMMA LinkBlock ==
  ASSUME LinkInv, NEW ok \in BOOLEAN, BlockReady(ok)
  PROVE  LinkInv'
<1> USE StallAssumption, SeqAssumption
<1>0. 0 \in 0..1
  OBVIOUS
<1>1. TypeOK /\ Handshake /\ InFlightIntact
  BY DEF LinkInv
<1>2. seq' \in Nat /\ prog' \in Payload /\ lastSent' \in Nat \cup {-1}
  BY <1>1 DEF TypeOK, BlockReady
<1>3. CommandStep
  BY DEF BlockReady, CommandStep
<1>4. /\ frame' \in [0..1 -> Frame] /\ pending' \in BOOLEAN
      /\ inflight' \in 0..(StallBlocks - 1) /\ ArmedPart'
  <2>1. CASE IdleBlock(ok)
    <3>1. AssembleFrame(0) /\ pending' = pending /\ inflight' = 0 /\ txIdx < 0
      BY <2>1 DEF IdleBlock
    <3>2. dr = FALSE
      BY <1>1, <3>1 DEF Handshake, TypeOK
    <3>3. ArmTx(0, ok, FALSE)
      BY <2>1, <3>2, Zenon DEF IdleBlock
    <3>4. frame' \in [0..1 -> Frame]
      BY <1>1, <3>1, AssembledFrames
    <3>5. pending' \in BOOLEAN /\ inflight' \in 0..(StallBlocks - 1)
      BY <1>1, <3>1 DEF TypeOK
    <3>6. ArmedPart'
      BY <3>3, <3>4, <1>0, ArmedLink, Zenon
    <3>7. QED
      BY <3>4, <3>5, <3>6
  <2>2. CASE QueuedBlock
    <3>1. /\ txIdx \in 0..1 /\ Other(txIdx) \in 0..1 /\ Other(txIdx) # txIdx
          /\ AssembleFrame(Other(txIdx))
      BY <1>1, <2>2 DEF QueuedBlock, TypeOK, Other
    <3>2. frame' \in [0..1 -> Frame] /\ frame'[txIdx] = frame[txIdx]
      BY <1>1, <3>1, AssembledFrames
    <3>3. inflight + 1 \in 0..(StallBlocks - 1)
      BY <1>1, <2>2 DEF QueuedBlock, Stalled, TypeOK
    <3>4. QED
      BY <1>1, <2>2, <3>2, <3>3
      DEF QueuedBlock, TypeOK, ArmedPart, Handshake, InFlightIntact
  <2>3. CASE StalledBlock(ok)
    <3>1. AssembleFrame(0) /\ pending' = FALSE /\ inflight' = 0 /\ ArmTx(0, ok, FALSE)
      BY <2>3 DEF StalledBlock
    <3>2. frame' \in [0..1 -> Frame]
      BY <1>1, <3>1, AssembledFrames
    <3>3. pending' \in BOOLEAN
      BY <3>1, Zenon
    <3>4. inflight' \in 0..(StallBlocks - 1)
      BY <3>1
    <3>5. ArmedPart'
      BY <3>1, <3>2, <1>0, ArmedLink, Zenon
    <3>6. QED
      BY <3>2, <3>3, <3>4, <3>5
  <2>4. QED
    BY <2>1, <2>2, <2>3 DEF BlockReady
<1>5. QED
  BY <1>1, <1>2, <1>3, <1>4, CommandTypes DEF LinkInv, TypeOK, ArmedPart

LEMMA LinkComplete ==
  ASSUME LinkInv, NEW rx \in Commands \cup {NoCmd}, NEW ok \in BOOLEAN,
         NEW abort \in BOOLEAN, TxRxCplt(rx, ok, abort)
  PROVE  LinkInv'
<1> USE StallAssumption
<1>1. TypeOK /\ Handshake /\ InFlightIntact
  BY DEF LinkInv
<1>2. /\ seq' = seq /\ frame' = frame /\ frame' \in [0..1 -> Frame]
      /\ lastSent' \in Nat \cup {-1} /\ inflight' \in 0..(StallBlocks - 1)
      /\ pending' = FALSE /\ cmdSlot' \in Commands \cup {NoCmd}
  BY <1>1 DEF TxRxCplt, ResetStallBudget, TypeOK
<1>3. ArmedPart'
  <2>1. CASE pending /\ ~abort
    <3>1. Other(txIdx) \in 0..1
      BY DEF Other
    <3>2. ArmTx(Other(txIdx), ok, FALSE)
      BY <2>1, Zenon DEF TxRxCplt, ResetStallBudget
    <3>3. QED
      BY <1>2, <3>1, <3>2, ArmedLink, Zenon
  <2>2. CASE ~(pending /\ ~abort)
    <3>1. Disarm
      BY <2>2, Zenon DEF TxRxCplt, ResetStallBudget
    <3>2. QED
      BY <3>1, DisarmedLink
  <2>3. QED
    BY <2>1, <2>2
<1>4. QED
  BY <1>1, <1>2, <1>3 DEF TxRxCplt, ResetStallBudget, LinkInv, TypeOK, ArmedPart, ackVars

LEMMA LinkOther ==
  ASSUME LinkInv, ErrorCallback \/ UNCHANGED vars
  PROVE  LinkInv'
<1> USE StallAssumption
<1>1. CASE ErrorCallback
  <2>1. Disarm /\ inflight' = 0 /\ pending' = FALSE
    BY <1>1 DEF ErrorCallback
  <2>2. pending' \in BOOLEAN
    BY <2>1, Zenon
  <2>3. inflight' \in 0..(StallBlocks - 1)
    BY <2>1
  <2>4. QED
    BY <1>1, <2>1, <2>2, <2>3, DisarmedLink
    DEF LinkInv, ErrorCallback, TypeOK, ArmedPart, ackVars
<1>2. CASE UNCHANGED vars
  BY <1>2 DEF LinkInv, TypeOK, Handshake, InFlightIntact, vars, txVars, ackVars
<1>3. QED
  BY <1>1, <1>2
-----------------------------------------------------------------------------
(* The deferred service of the acquisition *)

\* The service leaves the DMA stopped while it reprograms the number of rows, and
\* programs only an IMU rate and a run state that were requested.
ServiceInv ==
  /\ pc \in Steps /\ new \in Request /\ adcRows \in Nat /\ unread \subseteq Fields
  /\ pc \in {"clearRun", "switch"} => new.run \in {0, 1}
  /\ pc \in {"programAdc", "startAdc"} => adcRows = 0
  /\ pc \in {"clearImu", "programImu"} => new.imu # 0
  /\ DmaMatchesRows

AcquireInv == LinkInv /\ ServiceInv

LEMMA AcquireStarts == AcquireInit => AcquireInv
<1> SUFFICES ASSUME AcquireInit PROVE AcquireInv
  OBVIOUS
<1>1. LinkInv
  BY LinkInit DEF AcquireInit
<1>2. BootConfig.rows \in Nat /\ BootConfig.run = 1 /\ prog = BootConfig
  BY BootAssumption DEF Payload, AcquireInit, Init
<1>3. NoRequest \in Request
  BY DEF NoRequest, Request
<1>4. QED
  BY <1>1, <1>2, <1>3
  DEF AcquireInit, AcquireInv, ServiceInv, Steps, DmaMatchesRows
-----------------------------------------------------------------------------
(* Interrupts: none of them programs the acquisition. *)

LEMMA InterruptLink ==
  ASSUME LinkInv, Interrupt
  PROVE  LinkInv'
<1>1. ASSUME NEW ok \in BOOLEAN, AdcBlock(ok) PROVE LinkInv'
  BY <1>1, LinkBlock DEF AdcBlock
<1>2. ASSUME NEW rx \in Commands \cup {NoCmd}, NEW ok \in BOOLEAN,
             NEW abort \in BOOLEAN, SpiDone(rx, ok, abort)
      PROVE  LinkInv'
  BY <1>2, LinkComplete DEF SpiDone
<1>3. CASE SpiError
  BY <1>3, LinkOther DEF SpiError
<1>4. QED
  BY <1>1, <1>2, <1>3 DEF Interrupt

LEMMA InterruptLeavesService ==
  ASSUME Interrupt
  PROVE  UNCHANGED <<prog, pc, new, adcRows>> /\ unread' \subseteq unread
BY DEF Interrupt, AdcBlock, BlockReady, SpiDone, TxRxCplt, SpiError, ErrorCallback, acqVars
-----------------------------------------------------------------------------
(* The service: it never touches the transmitter. *)

\* What a step of the service writes stays well typed.
LEMMA ServiceTypes ==
  ASSUME TypeOK, ServiceInv, ServiceStep
  PROVE  /\ prog' \in Payload /\ req' \in Request /\ new' \in Request
         /\ MainLoopOnly /\ unread' \subseteq Fields
<1>1. /\ prog \in Payload /\ req \in Request /\ new \in Request
      /\ NoRequest \in Request /\ unread \subseteq Fields
  BY DEF TypeOK, ServiceInv, NoRequest, Request
<1>2. ASSUME NEW f \in Fields, NEW here, NEW there,
             Read(f, here, there) \/ Clear(f, here, there)
      PROVE  /\ prog' \in Payload /\ req' \in Request /\ new' \in Request
             /\ MainLoopOnly /\ unread' \subseteq Fields
  <2>1. [new EXCEPT ![f] = req[f]] \in Request /\ [req EXCEPT ![f] = NoRequest[f]] \in Request
    BY <1>1 DEF Fields, Request
  <2>2. QED
    BY <1>1, <1>2, <2>1 DEF Read, Clear, Locals
<1>3. CASE \/ ReadRate \/ ReadRows \/ ReadImu \/ ReadRun
           \/ ClearRate \/ ClearRows \/ ClearImu \/ ClearRun
  BY <1>2, <1>3 DEF ReadRate, ReadRows, ReadImu, ReadRun,
                    ClearRate, ClearRows, ClearImu, ClearRun, Fields
<1>4. CASE StopAdc \/ StartAdc
  BY <1>1, <1>4 DEF StopAdc, StartAdc
<1>5. CASE ProgramAdc
  BY <1>1, <1>5 DEF ProgramAdc, Payload, Request
<1>6. CASE ProgramImu
  BY <1>1, <1>6 DEF ProgramImu, Payload, Request
<1>7. CASE Switch
  <2>1. new.run \in Nat
    BY <1>7 DEF ServiceInv, Switch, Goto
  <2>2. QED
    BY <1>1, <1>7, <2>1 DEF Switch, Locals, Payload
<1>8. QED
  BY <1>3, <1>4, <1>5, <1>6, <1>7 DEF ServiceStep

LEMMA ServiceLink ==
  ASSUME AcquireInv, ServiceStep
  PROVE  LinkInv'
<1>1. TypeOK /\ Handshake /\ InFlightIntact /\ ServiceInv
  BY DEF AcquireInv, LinkInv
<1>2. prog' \in Payload /\ req' \in Request /\ MainLoopOnly
  BY <1>1, ServiceTypes
<1>3. QED
  BY <1>1, <1>2
  DEF MainLoopOnly, txVars, ackVars, LinkInv, TypeOK, Handshake, InFlightIntact

\* Only programAdc and the switch change what the DMA has to agree with, and both
\* find it stopped or leave it agreeing.
LEMMA ServiceKeeps ==
  ASSUME TypeOK, ServiceInv, ServiceStep
  PROVE  ServiceInv'
<1>1. new' \in Request /\ prog' \in Payload /\ unread' \subseteq Fields
  BY ServiceTypes
<1>2. /\ prog.rows \in Nat /\ prog.run \in Nat
      /\ req.run \in {0, 1, NoRun} /\ req.imu \in Nat
  BY DEF TypeOK, Payload, Request
<1>3. CASE ReadRate \/ ReadRows \/ ClearRate \/ ClearRows \/ ClearRun
  BY <1>1, <1>3
  DEF ReadRate, ReadRows, ClearRate, ClearRows, ClearRun, Read, Clear, Locals,
      Goto, AdcGroup, ServiceInv, Steps, DmaMatchesRows
<1>4. CASE ReadImu
  <2>1. /\ pc' = IF req.imu # 0 THEN "clearImu" ELSE "readRun"
        /\ new'.imu = req.imu
        /\ UNCHANGED <<prog, adcRows>>
    BY <1>4 DEF ReadImu, Read, Locals, Goto, ServiceInv, Request
  <2>2. QED
    BY <1>1, <1>2, <2>1 DEF ServiceInv, Steps, DmaMatchesRows
<1>5. CASE ReadRun \/ ClearImu
  <2>1. CASE ReadRun
    <3>1. /\ pc' = IF req.run # NoRun THEN "clearRun" ELSE "readRate"
          /\ req.run # NoRun => new'.run = req.run
          /\ UNCHANGED <<prog, adcRows>>
      BY <2>1 DEF ReadRun, Read, Locals, Goto, ServiceInv, Request
    <3>2. QED
      BY <1>1, <1>2, <3>1 DEF ServiceInv, Steps, DmaMatchesRows
  <2>2. CASE ClearImu
    <3>1. pc = "clearImu" /\ pc' = "programImu" /\ UNCHANGED <<new, prog, adcRows>>
      BY <2>2 DEF ClearImu, Clear, Goto
    <3>2. QED
      BY <1>1, <3>1 DEF ServiceInv, Steps, DmaMatchesRows
  <2>3. QED
    BY <1>5, <2>1, <2>2
<1>6. CASE StopAdc
  BY <1>1, <1>6 DEF StopAdc, Goto, ServiceInv, Steps, DmaMatchesRows
<1>7. CASE ProgramAdc
  BY <1>1, <1>7 DEF ProgramAdc, Goto, ServiceInv, Steps, DmaMatchesRows
<1>8. CASE StartAdc
  BY <1>1, <1>2, <1>8 DEF StartAdc, Goto, ServiceInv, Steps, DmaMatchesRows
<1>9. CASE ProgramImu
  <2>1. /\ pc' = "readRun" /\ adcRows' = adcRows
        /\ prog'.rows = prog.rows /\ prog'.run = prog.run
    BY <1>9 DEF ProgramImu, Goto, TypeOK, Payload
  <2>2. QED
    BY <1>1, <2>1 DEF ServiceInv, Steps, DmaMatchesRows
<1>10. CASE Switch
  <2>1. /\ pc' = "readRate" /\ new.run \in {0, 1}
        /\ prog'.rows = prog.rows /\ prog'.run = new.run
        /\ adcRows' = IF new.run = 0 THEN 0
                      ELSE IF prog.run = 0 THEN prog.rows ELSE adcRows
    BY <1>10 DEF Switch, Goto, TypeOK, Payload, ServiceInv
  <2>2. QED
    BY <1>1, <1>2, <2>1 DEF ServiceInv, Steps, DmaMatchesRows
<1>11. QED
  BY <1>3, <1>4, <1>5, <1>6, <1>7, <1>8, <1>9, <1>10 DEF ServiceStep
-----------------------------------------------------------------------------
THEOREM AcquireInvariant == AcquireSpec => []AcquireInv
<1>1. AcquireInit => AcquireInv
  BY AcquireStarts
<1>2. AcquireInv /\ [AcquireNext]_allVars => AcquireInv'
  <2> SUFFICES ASSUME AcquireInv, [AcquireNext]_allVars PROVE AcquireInv'
    OBVIOUS
  <2>1. CASE Interrupt
    <3>1. UNCHANGED <<prog, pc, new, adcRows>> /\ unread' \subseteq unread
      BY <2>1, InterruptLeavesService
    <3>2. ServiceInv'
      BY <3>1 DEF AcquireInv, ServiceInv, DmaMatchesRows
    <3>3. QED
      BY <2>1, <3>2, InterruptLink DEF AcquireInv
  <2>2. CASE ServiceStep
    BY <2>2, ServiceLink, ServiceKeeps DEF AcquireInv, LinkInv
  <2>3. CASE UNCHANGED allVars
    <3>1. UNCHANGED vars /\ UNCHANGED acqVars
      BY <2>3 DEF allVars
    <3>2. LinkInv'
      BY <3>1, LinkOther DEF AcquireInv
    <3>3. ServiceInv'
      BY <3>1 DEF vars, acqVars, AcquireInv, ServiceInv, DmaMatchesRows
    <3>4. QED
      BY <3>2, <3>3 DEF AcquireInv
  <2>4. QED
    BY <2>1, <2>2, <2>3 DEF AcquireNext
<1>3. QED
  BY <1>1, <1>2, PTL DEF AcquireSpec

\* Every variable of the transmitter keeps its type for all sizes of the stall
\* budget, the sequence number and the command alphabet.
THEOREM TypeCorrect == AcquireSpec => []TypeOK
<1>1. AcquireInv => TypeOK
  BY DEF AcquireInv, LinkInv
<1>2. QED
  BY <1>1, AcquireInvariant, PTL

\* Data-ready is high exactly while a DMA is armed on the buffer in flight.
THEOREM HandshakeHolds == AcquireSpec => []Handshake
<1>1. AcquireInv => Handshake
  BY DEF AcquireInv, LinkInv
<1>2. QED
  BY <1>1, AcquireInvariant, PTL

\* No step writes the buffer that the DMA is sending.
THEOREM InFlightIsIntact == AcquireSpec => []InFlightIntact
<1>1. AcquireInv => InFlightIntact
  BY DEF AcquireInv, LinkInv
<1>2. QED
  BY <1>1, AcquireInvariant, PTL

\* Every variable of the acquisition and of the transmitter under it keeps its type.
THEOREM AcquireTypeCorrect == AcquireSpec => []AcquireTypeOK
<1>1. AcquireInv => AcquireTypeOK
  BY DEF AcquireInv, LinkInv, ServiceInv, AcquireTypeOK
<1>2. QED
  BY <1>1, AcquireInvariant, PTL

\* Wherever an interrupt lands in the reconfiguration, the composer splits the
\* buffer of a running DMA by the rows it was started with.
THEOREM DmaAlwaysMatches == AcquireSpec => []DmaMatchesRows
<1>1. AcquireInv => DmaMatchesRows
  BY DEF AcquireInv, ServiceInv
<1>2. QED
  BY <1>1, AcquireInvariant, PTL
-----------------------------------------------------------------------------
(* Order on the wire, for as long as the sequence number does not wrap.    *)

NoWrap == MaxSeq < SeqMod

\* The age of the frame in flight is what the watchdog counted, the pending
\* block is younger, and both are younger than what has been delivered.
OrderInv ==
  /\ seq <= MaxSeq /\ lastSent < seq
  /\ txIdx >= 0 => /\ lastSent < frame[txIdx].seq
                   /\ seq = frame[txIdx].seq + 1 + inflight
  /\ pending => /\ txIdx >= 0 /\ inflight >= 1
                /\ seq = frame[Other(txIdx)].seq + 1

LEMMA ModSmall ==
  ASSUME NEW m \in Nat \ {0}, NEW a \in Nat, a < m
  PROVE  a % m = a
OBVIOUS

LEMMA OrderInit == Init => OrderInv
BY SeqAssumption DEF Init, OrderInv

LEMMA NextSeq ==
  ASSUME NoWrap, TypeOK, NEW ok \in BOOLEAN, BlockReady(ok)
  PROVE  seq' = seq + 1 /\ seq' <= MaxSeq /\ lastSent' = lastSent
<1>1. seq + 1 \in Nat /\ seq + 1 < SeqMod /\ seq + 1 <= MaxSeq
  BY SeqAssumption DEF NoWrap, TypeOK, BlockReady
<1>2. (seq + 1) % SeqMod = seq + 1
  BY <1>1, SeqAssumption, ModSmall
<1>3. QED
  BY <1>1, <1>2 DEF BlockReady

LEMMA OrderBlock ==
  ASSUME NoWrap, LinkInv, OrderInv, NEW ok \in BOOLEAN, BlockReady(ok)
  PROVE  OrderInv'
<1> USE StallAssumption, SeqAssumption
<1>1. TypeOK
  BY DEF LinkInv
<1>2. seq' = seq + 1 /\ seq' <= MaxSeq /\ lastSent' = lastSent
  BY <1>1, NextSeq
<1>3. seq \in Nat /\ lastSent \in Nat \cup {-1} /\ lastSent < seq
  BY <1>1 DEF TypeOK, OrderInv
<1>4. ASSUME AssembleFrame(0), ArmTx(0, ok, FALSE), inflight' = 0, ~pending'
      PROVE  OrderInv'
  <2>1. frame'[0].seq = seq
    BY <1>1, <1>4, AssembledFrames
  <2>2. txIdx' \in {-1, 0}
    BY <1>4 DEF ArmTx
  <2>3. QED
    BY <1>2, <1>3, <1>4, <2>1, <2>2 DEF OrderInv
<1>5. CASE IdleBlock(ok)
  <2>1. AssembleFrame(0) /\ inflight' = 0 /\ pending' = pending /\ txIdx < 0
    BY <1>5 DEF IdleBlock
  <2>2. dr = FALSE
    BY <2>1 DEF LinkInv, TypeOK, Handshake
  <2>3. ArmTx(0, ok, FALSE)
    BY <1>5, <2>2, Zenon DEF IdleBlock
  <2>4. ~pending'
    BY <1>1, <2>1 DEF OrderInv, TypeOK
  <2>5. QED
    BY <1>4, <2>1, <2>3, <2>4
<1>6. CASE QueuedBlock
  <2>1. /\ txIdx \in 0..1 /\ Other(txIdx) \in 0..1 /\ Other(txIdx) # txIdx
        /\ AssembleFrame(Other(txIdx))
    BY <1>1, <1>6 DEF QueuedBlock, TypeOK, Other
  <2>2. frame'[Other(txIdx)].seq = seq /\ frame'[txIdx] = frame[txIdx]
    BY <1>1, <2>1, AssembledFrames
  <2>3. txIdx' = txIdx /\ inflight' = inflight + 1
    BY <1>6 DEF QueuedBlock
  <2>4. Other(txIdx') = Other(txIdx)
    BY <2>3
  <2>5. frame[txIdx].seq \in Nat /\ inflight \in Nat
    BY <1>1, <2>1 DEF TypeOK, Frame
  <2>6. QED
    BY <1>2, <1>3, <2>1, <2>2, <2>3, <2>4, <2>5 DEF OrderInv
<1>7. CASE StalledBlock(ok)
  BY <1>4, <1>7 DEF StalledBlock
<1>8. QED
  BY <1>5, <1>6, <1>7 DEF BlockReady

\* What a completed transfer puts on the wire is the frame in flight.
LEMMA Delivered ==
  ASSUME LinkInv, OrderInv, NEW rx \in Commands \cup {NoCmd},
         NEW ok \in BOOLEAN, NEW abort \in BOOLEAN, TxRxCplt(rx, ok, abort)
  PROVE  /\ txIdx \in 0..1 /\ lastSent' = frame[txIdx].seq
         /\ seq = lastSent' + 1 + inflight
         /\ lastSent' \in Nat /\ lastSent < lastSent' /\ seq' = seq
<1>1. /\ txIdx \in 0..1 /\ dma = txIdx /\ frame[txIdx].seq \in Nat
  BY DEF LinkInv, TypeOK, Handshake, TxRxCplt, ResetStallBudget, Frame
<1>2. lastSent' = frame[txIdx].seq
  BY <1>1 DEF LinkInv, InFlightIntact, TxRxCplt, ResetStallBudget
<1>3. QED
  BY <1>1, <1>2 DEF OrderInv, TxRxCplt, ResetStallBudget

LEMMA OrderComplete ==
  ASSUME LinkInv, OrderInv, NEW rx \in Commands \cup {NoCmd},
         NEW ok \in BOOLEAN, NEW abort \in BOOLEAN, TxRxCplt(rx, ok, abort)
  PROVE  OrderInv'
<1> USE SeqAssumption
<1>1. /\ txIdx \in 0..1 /\ lastSent' \in Nat /\ seq' = seq /\ seq \in Nat
      /\ seq = lastSent' + 1 + inflight /\ inflight \in Nat
  BY Delivered, StallAssumption DEF LinkInv, TypeOK
<1>2. inflight' = 0 /\ ~pending' /\ frame' = frame
  BY DEF TxRxCplt, ResetStallBudget
<1>3. CASE pending /\ ~abort
  <2>1. ArmTx(Other(txIdx), ok, FALSE)
    BY <1>3, Zenon DEF TxRxCplt, ResetStallBudget
  <2>2. /\ txIdx' \in {-1, Other(txIdx)} /\ inflight >= 1
        /\ seq = frame'[Other(txIdx)].seq + 1
    BY <1>2, <1>3, <2>1 DEF ArmTx, OrderInv
  <2>3. Other(txIdx) \in 0..1 /\ frame'[Other(txIdx)].seq \in Nat
    BY <1>2 DEF Other, LinkInv, TypeOK, Frame
  <2>4. QED
    BY <1>1, <1>2, <2>2, <2>3 DEF OrderInv
<1>4. CASE ~(pending /\ ~abort)
  <2>1. Disarm
    BY <1>4, Zenon DEF TxRxCplt, ResetStallBudget
  <2>2. ~(txIdx' >= 0)
    BY <2>1 DEF Disarm
  <2>3. seq' <= MaxSeq /\ lastSent' < seq'
    BY <1>1 DEF OrderInv
  <2>4. QED
    BY <1>2, <2>2, <2>3 DEF OrderInv
<1>5. QED
  BY <1>3, <1>4

LEMMA OrderOther ==
  ASSUME LinkInv, OrderInv, ErrorCallback \/ MainLoopOnly \/ UNCHANGED vars
  PROVE  OrderInv' /\ UNCHANGED <<seq, lastSent>>
<1>1. CASE ErrorCallback
  <2>1. txIdx' = -1 /\ ~pending' /\ seq' = seq /\ lastSent' = lastSent
    BY <1>1 DEF ErrorCallback, Disarm
  <2>2. QED
    BY <2>1 DEF OrderInv
<1>2. CASE MainLoopOnly
  BY <1>2 DEF MainLoopOnly, txVars, OrderInv, Other
<1>3. CASE UNCHANGED vars
  BY <1>3 DEF vars, txVars, OrderInv, Other
<1>4. QED
  BY <1>1, <1>2, <1>3

\* The steps of the board, as the transmitter sees them.
LEMMA BoardSteps ==
  ASSUME AcquireInv, [AcquireNext]_allVars
  PROVE  \/ \E ok \in BOOLEAN : AdcBlock(ok)
         \/ \E rx \in Commands \cup {NoCmd}, ok, abort \in BOOLEAN : TxRxCplt(rx, ok, abort)
         \/ ErrorCallback
         \/ ServiceStep /\ MainLoopOnly
         \/ UNCHANGED vars
<1>1. ServiceStep => MainLoopOnly
  BY ServiceTypes DEF AcquireInv, LinkInv
<1>2. CASE Interrupt
  BY <1>2 DEF Interrupt, SpiDone, SpiError
<1>3. QED
  BY <1>1, <1>2 DEF AcquireNext, allVars

LEMMA OrderInvariant ==
  ASSUME NoWrap PROVE AcquireSpec => [](AcquireInv /\ OrderInv)
<1>1. AcquireInit => OrderInv
  BY OrderInit DEF AcquireInit
<1>2. AcquireInv /\ OrderInv /\ [AcquireNext]_allVars => OrderInv'
  <2> SUFFICES ASSUME AcquireInv, OrderInv, [AcquireNext]_allVars PROVE OrderInv'
    OBVIOUS
  <2>1. LinkInv
    BY DEF AcquireInv
  <2>2. QED
    BY <2>1, NoWrap, BoardSteps, OrderBlock, OrderComplete, OrderOther DEF AdcBlock
<1>3. QED
  BY <1>1, <1>2, AcquireInvariant, PTL DEF AcquireSpec

\* The watchdog's count is the age of the transfer in flight, for every stall
\* budget, as long as the sequence number does not wrap.
THEOREM WatchdogIsExact == ASSUME NoWrap PROVE AcquireSpec => []WatchdogExact
<1>1. AcquireInv /\ OrderInv => WatchdogExact
  <2> SUFFICES ASSUME LinkInv, OrderInv, txIdx >= 0
               PROVE  seq = (frame[txIdx].seq + 1 + inflight) % SeqMod
    BY DEF WatchdogExact, AcquireInv
  <2>1. seq \in Nat /\ seq < SeqMod /\ seq = frame[txIdx].seq + 1 + inflight
    BY SeqAssumption DEF LinkInv, TypeOK, OrderInv, NoWrap
  <2>2. seq % SeqMod = seq
    BY <2>1, SeqAssumption, ModSmall
  <2>3. QED
    BY <2>1, <2>2
<1>2. QED
  BY <1>1, OrderInvariant, PTL

\* A pending block is always the newest one, behind a transfer in flight.
THEOREM PendingStaysNewest == ASSUME NoWrap PROVE AcquireSpec => []PendingIsNewest
<1>1. AcquireInv /\ OrderInv => PendingIsNewest
  <2> SUFFICES ASSUME LinkInv, OrderInv, pending
               PROVE  /\ txIdx >= 0
                      /\ seq = (frame[Other(txIdx)].seq + 1) % SeqMod
    BY DEF PendingIsNewest, AcquireInv
  <2>1. /\ seq \in Nat /\ seq < SeqMod /\ txIdx >= 0
        /\ seq = frame[Other(txIdx)].seq + 1
    BY SeqAssumption DEF LinkInv, TypeOK, OrderInv, NoWrap
  <2>2. seq % SeqMod = seq
    BY <2>1, SeqAssumption, ModSmall
  <2>3. QED
    BY <2>1, <2>2
<1>2. QED
  BY <1>1, OrderInvariant, PTL

\* The transmitter implements the lossy, ordered channel of bounded age: no
\* interleaving of blocks, completions, stalls and errors makes the wire go
\* backwards, repeat a block, or carry one older than the stall budget.
THEOREM TransmitterIsChannel == ASSUME NoWrap PROVE AcquireSpec => ImplementsChannel
<1>1. AcquireInit => Channel!Init
  BY DEF AcquireInit, Init, Channel!Init
<1>2. AcquireInv /\ OrderInv /\ [AcquireNext]_allVars => [Channel!Next]_<<seq, lastSent>>
  <2> SUFFICES ASSUME AcquireInv, LinkInv, OrderInv, [AcquireNext]_allVars
               PROVE  [Channel!Next]_<<seq, lastSent>>
    BY DEF AcquireInv
  <2>1. ASSUME NEW ok \in BOOLEAN, BlockReady(ok)
        PROVE  Channel!Produce
    BY <2>1, NextSeq DEF LinkInv, Channel!Produce
  <2>2. ASSUME NEW rx \in Commands \cup {NoCmd}, NEW ok \in BOOLEAN,
               NEW abort \in BOOLEAN, TxRxCplt(rx, ok, abort)
        PROVE  Channel!Deliver
    <3>1. /\ seq = lastSent' + 1 + inflight /\ lastSent' \in Nat
          /\ lastSent < lastSent' /\ seq' = seq
      BY <2>2, Delivered
    <3>2. /\ inflight \in Nat /\ inflight + 1 <= StallBlocks
          /\ seq \in Nat /\ lastSent \in Int
      BY StallAssumption DEF LinkInv, TypeOK
    <3>3. /\ seq - lastSent' = inflight + 1
          /\ lastSent' \in (lastSent + 1)..(seq - 1)
      <4> DEFINE n == lastSent'
      <4> HIDE DEF n
      <4>1. n \in Nat /\ seq = n + 1 + inflight /\ lastSent < n
        BY <3>1 DEF n
      <4>2. seq - n = inflight + 1 /\ n \in (lastSent + 1)..(seq - 1)
        BY <3>2, <4>1
      <4>3. QED
        BY <4>2 DEF n
    <3>4. QED
      BY <3>1, <3>2, <3>3 DEF Channel!Deliver
  <2>3. CASE ErrorCallback \/ MainLoopOnly \/ UNCHANGED vars
    BY <2>3, OrderOther
  <2>4. QED
    BY <2>1, <2>2, <2>3, BoardSteps DEF AdcBlock, Channel!Next
<1>3. QED
  BY <1>1, <1>2, OrderInvariant, PTL DEF AcquireSpec, ImplementsChannel, Channel!Spec
-----------------------------------------------------------------------------
(* The command processor for every command alphabet: a command is applied *)
(* whole or not at all, and what is acknowledged is what the hardware runs *)
(* or will run unless its request was cleared unread.                      *)

\* What a command that passed every check carries.
LEMMA AcceptedPayload ==
  ASSUME NEW p \in Payload, InRange(p)
  PROVE  /\ p.rows \in Nat /\ p.rows # 0 /\ p.run \in {0, 1} /\ p.run # NoRun
         /\ p.rate \in Nat /\ p.imu \in Nat
BY DEF Payload, InRange, MaxRows, NoRun

\* Every verdict but one leaves the configuration and the requests alone.
Untouched == UNCHANGED <<active, req>>

LEMMA Verdicts ==
  ASSUME TypeOK, CommandStep
  PROVE  Untouched \/ (cmdSlot \in CommandFrame /\ ApplyConfig(cmdSlot))
<1>1. CASE NoPendingCmd
  BY <1>1 DEF NoPendingCmd, Untouched
<1>2. CASE ProcessPendingCmd
  <2>1. cmdSlot \in CommandFrame
    BY <1>2, CommandsAssumption DEF TypeOK, ProcessPendingCmd
  <2>2. CASE NackCrc(cmdSlot)
    BY <2>2 DEF NackCrc, Untouched
  <2>3. ASSUME NEW reason, Refuse(cmdSlot, reason)
        PROVE  Untouched
    BY <2>3 DEF Refuse, Untouched
  <2>4. CASE \/ NackSchema(cmdSlot) \/ NackCmd(cmdSlot) \/ Ping(cmdSlot)
             \/ Repeat(cmdSlot) \/ NackRange(cmdSlot)
    BY <2>3, <2>4 DEF NackSchema, NackCmd, Ping, Repeat, NackRange
  <2>5. QED
    BY <1>2, <2>1, <2>2, <2>4 DEF ProcessPendingCmd
<1>3. QED
  BY <1>1, <1>2 DEF CommandStep
-----------------------------------------------------------------------------
(* From the acknowledgement to the hardware *)

LEMMA RecordFacts ==
  /\ NoRequest["rows"] = 0 /\ NoRequest["rate"] = 0 /\ NoRequest["imu"] = 0
  /\ NoRequest["run"] = NoRun
  /\ Taken["rate"] = {"clearRows", "stopAdc", "programAdc"}
  /\ Taken["rows"] = {"stopAdc", "programAdc"}
  /\ Taken["imu"] = {"programImu"} /\ Taken["run"] = {"switch"}
BY DEF NoRequest, Taken

\* What ActiveReachesHardware says of one field.
Reaches(f) == WillBe(f) = active[f] \/ (f \in {"rate", "imu"} /\ active[f] = 0)

\* A step outside the stretch between a clear and its programming.
LEMMA OutsideService ==
  ASSUME NEW f, pc \notin Taken[f], pc' \notin Taken[f],
         req'[f] = req[f], prog'[f] = prog[f]
  PROVE  WillBe(f)' = WillBe(f)
BY DEF WillBe

\* A step that keeps what the service has in hand.
LEMMA WithinService ==
  ASSUME NEW f, pc \in Taken[f] <=> pc' \in Taken[f],
         req'[f] = req[f], prog'[f] = prog[f], new'[f] = new[f]
  PROVE  WillBe(f)' = WillBe(f)
BY DEF WillBe

\* Clearing a request that was read puts it in hand.
LEMMA ClearedService ==
  ASSUME NEW f, pc \notin Taken[f], pc' \in Taken[f], req[f] = new[f],
         req'[f] = NoRequest[f], prog'[f] = prog[f], new'[f] = new[f]
  PROVE  WillBe(f)' = WillBe(f)
BY DEF WillBe

\* Programming what is in hand.
LEMMA ProgrammedService ==
  ASSUME NEW f, pc \in Taken[f], pc' \notin Taken[f], req'[f] = req[f],
         prog'[f] = IF new[f] # NoRequest[f] THEN new[f] ELSE prog[f]
  PROVE  WillBe(f)' = WillBe(f)
BY DEF WillBe

\* A step of the service leaves what the hardware will run as it is, in every field
\* whose request it does not clear unread.
LEMMA ServiceWillBe ==
  ASSUME TypeOK, ServiceInv, ServiceStep, NEW f \in Fields, f \notin unread'
  PROVE  f \notin unread /\ WillBe(f)' = WillBe(f)
<1> USE RecordFacts
<1>1. /\ DOMAIN req = Fields /\ DOMAIN prog = Fields \cup {"source"} /\ DOMAIN new = Fields
      /\ new.rate \in Nat /\ new.rows \in Nat
  BY DEF TypeOK, ServiceInv, Request, Payload, Fields
<1>2. ASSUME NEW g, NEW here, NEW there, Read(g, here, there),
             here \notin Taken[f], there \notin Taken[f]
      PROVE  f \notin unread /\ WillBe(f)' = WillBe(f)
  BY <1>2, OutsideService DEF Read, Goto
<1>3. CASE ReadRate \/ ReadRows \/ ReadImu \/ ReadRun
  <2>1. {"readRate", "readRows", "readImu", "readRun", "clearRate", "clearImu", "clearRun"}
          \cap Taken[f] = {}
    BY DEF Fields
  <2>2. CASE ReadRate
    BY <1>2, <2>1, <2>2 DEF ReadRate
  <2>3. CASE ReadRows
    BY <1>2, <2>1, <2>3 DEF ReadRows, AdcGroup
  <2>4. CASE ReadImu
    BY <1>2, <2>1, <2>4 DEF ReadImu
  <2>5. CASE ReadRun
    BY <1>2, <2>1, <2>5 DEF ReadRun
  <2>6. QED
    BY <1>3, <2>2, <2>3, <2>4, <2>5
<1>4. ASSUME NEW g \in Fields, NEW here, NEW there, Clear(g, here, there),
             IF g = f THEN here \notin Taken[f] /\ there \in Taken[f]
                      ELSE here \in Taken[f] <=> there \in Taken[f]
      PROVE  f \notin unread /\ WillBe(f)' = WillBe(f)
  <2>1. /\ pc = here /\ pc' = there /\ prog' = prog /\ new' = new
        /\ req' = [req EXCEPT ![g] = NoRequest[g]]
        /\ unread' = IF req[g] # new[g] THEN unread \cup {g} ELSE unread
    BY <1>4 DEF Clear, Goto
  <2>2. CASE g = f
    <3>1. f \notin unread /\ req[f] = new[f] /\ req'[f] = NoRequest[f]
      BY <1>1, <2>1, <2>2
    <3>2. QED
      BY <1>4, <2>1, <2>2, <3>1, ClearedService
  <2>3. CASE g # f
    <3>1. f \notin unread /\ req'[f] = req[f]
      BY <1>1, <2>1, <2>3
    <3>2. QED
      BY <1>4, <2>1, <2>3, <3>1, WithinService
  <2>4. QED
    BY <2>2, <2>3
<1>5. CASE ClearRate \/ ClearRows \/ ClearImu \/ ClearRun
  <2>1. CASE ClearRate
    BY <1>4, <2>1 DEF ClearRate, Fields
  <2>2. CASE ClearRows
    BY <1>4, <2>2 DEF ClearRows, Fields
  <2>3. CASE ClearImu
    BY <1>4, <2>3 DEF ClearImu, Fields
  <2>4. CASE ClearRun
    BY <1>4, <2>4 DEF ClearRun, Fields
  <2>5. QED
    BY <1>5, <2>1, <2>2, <2>3, <2>4
<1>6. CASE StopAdc
  <2>1. /\ pc = "stopAdc" /\ pc' = "programAdc"
        /\ UNCHANGED <<req, prog, new, unread>>
    BY <1>6 DEF StopAdc, Goto
  <2>2. pc \in Taken[f] <=> pc' \in Taken[f]
    BY <2>1 DEF Fields
  <2>3. QED
    BY <2>1, <2>2, WithinService
<1>7. CASE StartAdc
  <2>1. /\ pc = "startAdc" /\ pc' = "readImu"
        /\ UNCHANGED <<req, prog, new, unread>>
    BY <1>7 DEF StartAdc, Goto
  <2>2. pc \notin Taken[f] /\ pc' \notin Taken[f]
    BY <2>1 DEF Fields
  <2>3. QED
    BY <2>1, <2>2, OutsideService
<1>8. CASE ProgramAdc
  <2>1. /\ pc = "programAdc" /\ pc' = "startAdc" /\ UNCHANGED <<req, new, unread>>
        /\ prog' = [prog EXCEPT !.rate = IF new.rate # 0 THEN new.rate ELSE @,
                                !.rows = IF new.rows # 0 THEN new.rows ELSE @]
    BY <1>8 DEF ProgramAdc, Goto
  <2>2. CASE f \in {"rate", "rows"}
    <3>1. pc \in Taken[f] /\ pc' \notin Taken[f]
      BY <2>1, <2>2
    <3>2. prog'[f] = IF new[f] # NoRequest[f] THEN new[f] ELSE prog[f]
      <4>1. CASE f = "rate"
        BY <1>1, <2>1, <4>1 DEF Fields
      <4>2. CASE f = "rows"
        BY <1>1, <2>1, <4>2 DEF Fields
      <4>3. QED
        BY <2>2, <4>1, <4>2
    <3>3. QED
      BY <2>1, <3>1, <3>2, ProgrammedService
  <2>3. CASE f \in {"imu", "run"}
    <3>1. pc \notin Taken[f] /\ pc' \notin Taken[f]
      BY <2>1, <2>3
    <3>2. prog'[f] = prog[f]
      <4>1. CASE f = "imu"
        BY <1>1, <2>1, <4>1 DEF Fields
      <4>2. CASE f = "run"
        BY <1>1, <2>1, <4>2 DEF Fields
      <4>3. QED
        BY <2>3, <4>1, <4>2
    <3>3. QED
      BY <2>1, <3>1, <3>2, OutsideService
  <2>4. QED
    BY <2>2, <2>3 DEF Fields
<1>9. CASE ProgramImu
  <2>1. /\ pc = "programImu" /\ pc' = "readRun" /\ UNCHANGED <<req, new, unread>>
        /\ prog' = [prog EXCEPT !.imu = new.imu] /\ new.imu # 0
    BY <1>9 DEF ProgramImu, Goto, ServiceInv
  <2>2. CASE f = "imu"
    <3>1. pc \in Taken[f] /\ pc' \notin Taken[f]
      BY <2>1, <2>2
    <3>2. prog'[f] = IF new[f] # NoRequest[f] THEN new[f] ELSE prog[f]
      BY <1>1, <2>1, <2>2 DEF Fields
    <3>3. QED
      BY <2>1, <3>1, <3>2, ProgrammedService
  <2>3. CASE f # "imu"
    <3>1. pc \notin Taken[f] /\ pc' \notin Taken[f] /\ prog'[f] = prog[f]
      BY <1>1, <2>1, <2>3 DEF Fields
    <3>2. QED
      BY <2>1, <3>1, OutsideService
  <2>4. QED
    BY <2>2, <2>3
<1>10. CASE Switch
  <2>1. /\ pc = "switch" /\ pc' = "readRate" /\ UNCHANGED <<req, unread>>
        /\ prog' = [prog EXCEPT !.run = new.run] /\ new.run # NoRun
    BY <1>10 DEF Switch, Goto, ServiceInv, NoRun
  <2>2. CASE f = "run"
    <3>1. pc \in Taken[f] /\ pc' \notin Taken[f]
      BY <2>1, <2>2
    <3>2. prog'[f] = IF new[f] # NoRequest[f] THEN new[f] ELSE prog[f]
      BY <1>1, <2>1, <2>2 DEF Fields
    <3>3. QED
      BY <2>1, <3>1, <3>2, ProgrammedService
  <2>3. CASE f # "run"
    <3>1. pc \notin Taken[f] /\ pc' \notin Taken[f] /\ prog'[f] = prog[f]
      BY <1>1, <2>1, <2>3 DEF Fields
    <3>2. QED
      BY <2>1, <3>1, OutsideService
  <2>4. QED
    BY <2>2, <2>3
<1>11. QED
  BY <1>3, <1>5, <1>6, <1>7, <1>8, <1>9, <1>10 DEF ServiceStep

\* The setters are called for the fields that differ from the active configuration:
\* a field that a command changes is requested, the others are left alone.
LEMMA AppliedField ==
  ASSUME TypeOK, NEW c \in CommandFrame, ApplyConfig(c), NEW f \in Fields
  PROVE  \/ active'[f] = active[f] /\ req'[f] = req[f]
         \/ req'[f] = active'[f] /\ req'[f] # NoRequest[f]
         \/ f \in {"rate", "imu"} /\ active'[f] = 0
<1> DEFINE p == c.payload
<1>1. p \in Payload /\ InRange(p)
  BY DEF CommandFrame, ApplyConfig
<1>2. /\ p.rows \in Nat /\ p.rows # 0 /\ p.run \in {0, 1} /\ p.run # NoRun
      /\ p.rate \in Nat /\ p.imu \in Nat
  BY <1>1, AcceptedPayload
<1>3. /\ req'.rows = IF p.rows # active.rows THEN p.rows ELSE req.rows
      /\ req'.rate = IF p.rate \notin {0, active.rate} THEN p.rate ELSE req.rate
      /\ req'.imu = IF p.imu \notin {0, active.imu} THEN p.imu ELSE req.imu
      /\ req'.run = IF p.run # active.run THEN p.run ELSE req.run
      /\ active' = p
  BY DEF ApplyConfig, Requested
<1> HIDE DEF p
<1>4. CASE f = "rows"
  BY <1>2, <1>3, <1>4, RecordFacts
<1>5. CASE f = "rate"
  BY <1>2, <1>3, <1>5, RecordFacts
<1>6. CASE f = "imu"
  BY <1>2, <1>3, <1>6, RecordFacts
<1>7. CASE f = "run"
  BY <1>2, <1>3, <1>7, RecordFacts
<1>8. QED
  BY <1>4, <1>5, <1>6, <1>7 DEF Fields

LEMMA BlockReaches ==
  ASSUME TypeOK, ActiveReachesHardware, NEW ok \in BOOLEAN, AdcBlock(ok),
         NEW f \in Fields, f \notin unread'
  PROVE  Reaches(f)'
<1>1. /\ prog' = prog /\ pc' = pc /\ new' = new /\ CommandStep
      /\ f \in unread => active'[f] # active[f]
  BY DEF AdcBlock, BlockReady, CommandStep
<1>2. CASE active'[f] = active[f] /\ req'[f] = req[f]
  <2>1. Reaches(f)
    BY <1>1, <1>2 DEF ActiveReachesHardware, Reaches
  <2>2. QED
    BY <1>1, <1>2, <2>1 DEF Reaches, WillBe
<1>3. CASE req'[f] = active'[f] /\ req'[f] # NoRequest[f]
  BY <1>3 DEF Reaches, WillBe
<1>4. CASE f \in {"rate", "imu"} /\ active'[f] = 0
  BY <1>4 DEF Reaches
<1>5. Untouched => active'[f] = active[f] /\ req'[f] = req[f]
  BY DEF Untouched
<1>6. QED
  BY <1>1, <1>2, <1>3, <1>4, <1>5, Verdicts, AppliedField

\* No accepted change is lost or overwritten between the acknowledgement and the
\* hardware, whatever commands come before it is carried out and wherever they fall
\* in the service, unless its request was stored in the gap between a read and a clear.
THEOREM ActiveReaches == AcquireSpec => []ActiveReachesHardware
<1>1. AcquireInit => ActiveReachesHardware
  <2> SUFFICES ASSUME AcquireInit, NEW f \in Fields PROVE WillBe(f) = active[f]
    BY DEF ActiveReachesHardware
  <2>1. pc = "readRate" /\ req = NoRequest /\ prog = active
    BY DEF AcquireInit, Init
  <2>2. QED
    BY <2>1, RecordFacts DEF WillBe, Fields
<1>2. AcquireInv /\ ActiveReachesHardware /\ [AcquireNext]_allVars => ActiveReachesHardware'
  <2> SUFFICES ASSUME AcquireInv, ActiveReachesHardware, [AcquireNext]_allVars,
                      NEW f \in Fields, f \notin unread'
               PROVE  Reaches(f)'
    BY DEF ActiveReachesHardware, Reaches
  <2>1. TypeOK /\ ServiceInv
    BY DEF AcquireInv, LinkInv
  <2>2. ASSUME NEW ok \in BOOLEAN, AdcBlock(ok) PROVE Reaches(f)'
    BY <2>1, <2>2, BlockReaches
  <2>3. CASE ServiceStep
    <3>1. f \notin unread /\ WillBe(f)' = WillBe(f)
      BY <2>1, <2>3, ServiceWillBe
    <3>2. active' = active
      BY <2>1, <2>3, ServiceTypes DEF MainLoopOnly, ackVars
    <3>3. QED
      BY <3>1, <3>2 DEF ActiveReachesHardware, Reaches
  <2>4. ASSUME UNCHANGED <<active, req, prog, pc, new, unread>> PROVE Reaches(f)'
    BY <2>4 DEF ActiveReachesHardware, Reaches, WillBe
  <2>5. ASSUME NEW rx \in Commands \cup {NoCmd}, NEW ok \in BOOLEAN,
               NEW abort \in BOOLEAN, SpiDone(rx, ok, abort)
        PROVE  Reaches(f)'
    BY <2>4, <2>5 DEF SpiDone, TxRxCplt, ackVars, acqVars
  <2>6. CASE SpiError
    BY <2>4, <2>6 DEF SpiError, ErrorCallback, ackVars, acqVars
  <2>7. CASE UNCHANGED allVars
    BY <2>4, <2>7 DEF allVars, vars, ackVars, acqVars
  <2>8. QED
    BY <2>2, <2>3, <2>5, <2>6, <2>7 DEF AcquireNext, Interrupt
<1>3. QED
  BY <1>1, <1>2, AcquireInvariant, PTL DEF AcquireSpec
-----------------------------------------------------------------------------
\* The acknowledgement that goes with an applied command.
AppliedWhole ==
  /\ ackFlags' = "ok" /\ ackSeq' = cmdSlot.seq
  /\ lastApplied' = cmdSlot.seq /\ lastApplied' # lastApplied
  /\ InRange(active')

LEMMA ApplyIsWhole ==
  ASSUME TypeOK, cmdSlot \in CommandFrame, ApplyConfig(cmdSlot)
  PROVE  AppliedWhole
<1>1. cmdSlot.seq \in Nat /\ lastApplied \in Nat \cup {-1}
  BY DEF TypeOK, CommandFrame
<1>2. cmdSlot.seq # lastApplied
  BY <1>1 DEF ApplyConfig, IsRepeat
<1>3. QED
  BY <1>2 DEF ApplyConfig, Answer, AppliedWhole

\* The service makes no request, it only clears them.
LEMMA ServiceRequests ==
  ASSUME TypeOK, ServiceStep
  PROVE  ~NewRequest
<1>1. \/ req' = req
      \/ \E f \in Fields : req' = [req EXCEPT ![f] = NoRequest[f]]
  BY DEF ServiceStep, ReadRate, ReadRows, ReadImu, ReadRun, ClearRate, ClearRows,
         ClearImu, ClearRun, Read, Clear, StopAdc, ProgramAdc, StartAdc, ProgramImu,
         Switch, Fields
<1>2. DOMAIN req = Fields /\ DOMAIN NoRequest = Fields
  BY DEF TypeOK, Request, NoRequest, Fields
<1>3. QED
  BY <1>1, <1>2 DEF NewRequest

\* A configuration change or a request to the acquisition only ever happens as the
\* whole of one command, new, in range and acknowledged under its own number.
THEOREM CommandsAreAtomic == AcquireSpec => AppliedOrNothing
<1>1. AcquireInv /\ [AcquireNext]_allVars
        => [active' # active \/ NewRequest => AppliedWhole]_vars
  <2> SUFFICES ASSUME AcquireInv, [AcquireNext]_allVars, active' # active \/ NewRequest
               PROVE  AppliedWhole
    BY DEF vars
  <2>1. TypeOK
    BY DEF AcquireInv, LinkInv
  <2>2. ASSUME NEW ok \in BOOLEAN, BlockReady(ok) PROVE AppliedWhole
    <3>1. CommandStep
      BY <2>2 DEF BlockReady, CommandStep
    <3>2. ~Untouched
      BY DEF Untouched, NewRequest
    <3>3. QED
      BY <2>1, <3>1, <3>2, Verdicts, ApplyIsWhole
  <2>3. ASSUME UNCHANGED <<active, req>> PROVE FALSE
    BY <2>3 DEF NewRequest
  <2>4. ASSUME ServiceStep, MainLoopOnly PROVE FALSE
    <3>1. active' = active
      BY <2>4 DEF MainLoopOnly, ackVars
    <3>2. ~NewRequest
      BY <2>1, <2>4, ServiceRequests
    <3>3. QED
      BY <3>1, <3>2
  <2>5. ASSUME NEW rx \in Commands \cup {NoCmd}, NEW ok \in BOOLEAN,
               NEW abort \in BOOLEAN, TxRxCplt(rx, ok, abort)
        PROVE  FALSE
    BY <2>3, <2>5 DEF TxRxCplt, ackVars
  <2>6. CASE ErrorCallback \/ UNCHANGED vars
    BY <2>3, <2>6 DEF ErrorCallback, vars, ackVars
  <2>7. QED
    BY <2>2, <2>4, <2>5, <2>6, BoardSteps DEF AdcBlock
<1>2. QED
  BY <1>1, AcquireInvariant, PTL DEF AcquireSpec, AppliedOrNothing, AppliedWhole
=============================================================================
