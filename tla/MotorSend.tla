------------------------------ MODULE MotorSend ------------------------------
(***************************************************************************)
(* The STM32 side of the link (motor_send.c): two frame buffers, one SPI   *)
(* slave DMA, the data-ready line, a watchdog over stalled transfers, and  *)
(* the command processor that answers SET_CONFIG and PING.                 *)
(*                                                                         *)
(* The block producer and the SPI callbacks run at one interrupt priority, *)
(* so each handler is one step.  The acquisition is here only as what the  *)
(* handlers see of it: the configuration it runs (prog) and the requests   *)
(* they leave for it (req).  The main-loop routine that turns one into the *)
(* other, and the specification of the whole board, are in MotorAcquire;   *)
(* ReceiveLoop uses the handlers without commands, where nothing is ever   *)
(* requested.                                                              *)
(***************************************************************************)
EXTENDS MotorWire

CONSTANTS
  StallBlocks,   \* TX_STALL_BLOCKS
  SeqMod,        \* s_seq wraps at this modulus (2^32 in the firmware)
  MaxSeq,        \* bound: no block is produced once s_seq has reached it
  BootConfig     \* what motor_send_init and motor_acquire_init program

ASSUME StallAssumption == StallBlocks \in Nat \ {0}
ASSUME SeqAssumption == SeqMod \in Nat \ {0} /\ MaxSeq \in Nat
ASSUME BootAssumption ==
  /\ BootConfig \in Payload /\ InRange(BootConfig)
  /\ BootConfig.run = 1 /\ BootConfig.rate # 0 /\ BootConfig.imu # 0

VARIABLES
  seq,           \* s_seq
  frame,         \* s_frame[0..1]
  txIdx,         \* s_tx_idx, -1 when nothing is in flight
  pending,       \* s_pending
  inflight,      \* s_inflight_blocks
  dr,            \* the data-ready line PB0
  dma,           \* the buffer the SPI DMA is armed on, -1 when disarmed
  cmdSlot,       \* s_pending_cmd, NoCmd when s_cmd_pending is 0
  ackFlags,      \* s_latched_ack_flags
  ackSeq,        \* s_latched_cmd_seq
  appliedLatch,  \* s_config_applied_latch
  lastApplied,   \* s_last_applied_seq, -1 while s_have_last_applied is 0
  active,        \* s_active_config
  req,           \* motor_acquire's s_pending_* fields
  prog,          \* motor_acquire's programmed configuration
  dmaSeq,        \* history: seq of the frame the DMA was armed with, or -1
  lastSent       \* history: seq of the last frame completely clocked out

txVars   == <<seq, frame, txIdx, pending, inflight, dr, dma, dmaSeq, lastSent>>
ackVars  == <<ackFlags, ackSeq, appliedLatch, lastApplied, active>>
vars     == <<txVars, cmdSlot, ackVars, req, prog>>

NoRun == 255   \* 0xFF in s_pending_run_state; 0 in the other requests
NoRequest == [rows |-> 0, rate |-> 0, imu |-> 0, run |-> NoRun]
BlankFrame == [seq |-> 0, rows |-> 0, ack |-> "none", applied |-> FALSE, ackSeq |-> 0]

Init ==
  /\ seq = 0 /\ frame = [i \in 0..1 |-> BlankFrame]
  /\ txIdx = -1 /\ pending = FALSE /\ inflight = 0
  /\ dr = FALSE /\ dma = -1
  /\ cmdSlot = NoCmd
  /\ ackFlags = "none" /\ ackSeq = 0 /\ appliedLatch = FALSE /\ lastApplied = -1
  /\ active = BootConfig /\ prog = BootConfig /\ req = NoRequest
  /\ dmaSeq = -1 /\ lastSent = -1
-----------------------------------------------------------------------------
(* Transmission *)

AlwaysFirstBuffer(i) == 0   \* mutant: builds over the transfer in flight
Other(i) == IF i = 0 THEN 1 ELSE 0

\* assemble_frame into buffer i, from the state before this block's command.
AssembleFrame(i) ==
  frame' = [frame EXCEPT ![i] =
    [seq |-> seq, rows |-> prog.rows, ack |-> ackFlags,
     applied |-> appliedLatch, ackSeq |-> ackSeq]]

\* arm_tx: success points the DMA at buffer i and raises data-ready; when all
\* attempts fail nothing is in flight and data-ready keeps the level drNow.
ArmTx(i, ok, drNow) ==
  /\ txIdx' = IF ok THEN i ELSE -1
  /\ dma' = txIdx'
  /\ dmaSeq' = IF ok THEN frame'[i].seq ELSE -1
  /\ dr' = (ok \/ drNow)

LeaveDataReadyHigh == txIdx' = -1 /\ dma' = -1 /\ dmaSeq' = -1 /\ dr' = dr   \* mutant
Disarm == txIdx' = -1 /\ dma' = -1 /\ dmaSeq' = -1 /\ dr' = FALSE

StalledTooLate == txIdx >= 0 /\ inflight + 1 > StallBlocks   \* mutant
NeverStalled == FALSE                                       \* mutant
Stalled == txIdx >= 0 /\ inflight + 1 >= StallBlocks

IdleBlock(ok) ==
  /\ txIdx < 0
  /\ inflight' = 0
  /\ AssembleFrame(0)
  /\ ArmTx(0, ok, dr)
  /\ UNCHANGED pending

QueuedBlock ==
  /\ txIdx >= 0 /\ ~Stalled
  /\ inflight' = inflight + 1
  /\ AssembleFrame(Other(txIdx))
  /\ pending' = TRUE
  /\ UNCHANGED <<txIdx, dma, dmaSeq, dr>>

\* tx_recover tears the stalled transfer down, then the block is armed.
StalledBlock(ok) ==
  /\ Stalled
  /\ inflight' = 0
  /\ pending' = FALSE
  /\ AssembleFrame(0)
  /\ ArmTx(0, ok, FALSE)
-----------------------------------------------------------------------------
(* process_pending_cmd: exactly one of the cases below holds of a command. *)

Answer(a, latch) == ackFlags' = a /\ appliedLatch' = latch

\* A frame that fails its CRC does not move the ACK target.
NackCrc(c) ==
  /\ ~c.crcOk
  /\ Answer("crc", FALSE)
  /\ UNCHANGED <<ackSeq, lastApplied, active, req>>

Refuse(c, reason) ==
  /\ Answer(reason, FALSE) /\ ackSeq' = c.seq
  /\ UNCHANGED <<lastApplied, active, req>>

IsRepeat(c) == lastApplied >= 0 /\ c.seq = lastApplied
IsSetConfig(c) == c.crcOk /\ c.schemaOk /\ c.op = "SET_CONFIG"

NackSchema(c) == c.crcOk /\ ~c.schemaOk /\ Refuse(c, "ver")
NackCmd(c)    == c.crcOk /\ c.schemaOk /\ c.op = "OTHER" /\ Refuse(c, "cmd")
Ping(c)       == c.crcOk /\ c.schemaOk /\ c.op = "PING" /\ Refuse(c, "ok")
Repeat(c) == IsSetConfig(c) /\ IsRepeat(c) /\ Refuse(c, "ok")
NackRangeHalfApplied(c) ==   \* mutant
  /\ IsSetConfig(c) /\ ~IsRepeat(c) /\ ~InRange(c.payload)
  /\ Answer("range", FALSE) /\ ackSeq' = c.seq
  /\ req' = [req EXCEPT !.rows = c.payload.rows]
  /\ UNCHANGED <<lastApplied, active>>
NackRange(c)  == /\ IsSetConfig(c) /\ ~IsRepeat(c) /\ ~InRange(c.payload)
                 /\ Refuse(c, "range")

RequestedAgainstHardware(p) ==   \* mutant: compares with prog
  [rows |-> IF p.rows # prog.rows THEN p.rows ELSE req.rows,
   rate |-> IF p.rate \notin {0, prog.rate} THEN p.rate ELSE req.rate,
   imu  |-> IF p.imu \notin {0, prog.imu} THEN p.imu ELSE req.imu,
   run  |-> IF p.run # prog.run THEN p.run ELSE req.run]
\* The motor_acquire setters called for the fields that differ from active.
Requested(p) ==
  [rows |-> IF p.rows # active.rows THEN p.rows ELSE req.rows,
   rate |-> IF p.rate \notin {0, active.rate} THEN p.rate ELSE req.rate,
   imu  |-> IF p.imu \notin {0, active.imu} THEN p.imu ELSE req.imu,
   run  |-> IF p.run # active.run THEN p.run ELSE req.run]

ApplyConfig(c) ==
  /\ IsSetConfig(c) /\ ~IsRepeat(c) /\ InRange(c.payload)
  /\ req' = Requested(c.payload)
  /\ active' = c.payload
  /\ lastApplied' = c.seq /\ ackSeq' = c.seq
  /\ Answer("ok", TRUE)

ProcessPendingCmd ==
  /\ cmdSlot # NoCmd
  /\ cmdSlot' = NoCmd
  /\ \/ NackCrc(cmdSlot) \/ NackSchema(cmdSlot) \/ NackCmd(cmdSlot)
     \/ Ping(cmdSlot) \/ Repeat(cmdSlot) \/ NackRange(cmdSlot)
     \/ ApplyConfig(cmdSlot)

NoPendingCmd ==
  /\ cmdSlot = NoCmd
  /\ appliedLatch' = FALSE
  /\ UNCHANGED <<cmdSlot, ackFlags, ackSeq, lastApplied, active, req>>
-----------------------------------------------------------------------------
(* The handlers *)

\* motor_on_block_ready, called for every block while the ADC runs.  The frame
\* is assembled (which consumes the one-shot latch) before the command runs.
BlockReady(ok) ==
  /\ prog.run = 1 /\ seq < MaxSeq
  /\ seq' = (seq + 1) % SeqMod
  /\ IdleBlock(ok) \/ QueuedBlock \/ StalledBlock(ok)
  /\ ProcessPendingCmd \/ NoPendingCmd
  /\ UNCHANGED <<prog, lastSent>>

KeepStallBudget == inflight' = inflight   \* mutant
ResetStallBudget == inflight' = 0

\* HAL_SPI_TxRxCpltCallback: the master has clocked out a whole frame and left
\* rx in the receive buffer.  When the DMAStop in it raises an error at once
\* (abort), the nested HAL_SPI_ErrorCallback discards the pending block.
TxRxCplt(rx, ok, abort) ==
  /\ dma >= 0
  /\ UNCHANGED <<seq, frame, ackVars, req, prog>>
  /\ lastSent' = dmaSeq
  /\ ResetStallBudget
  /\ cmdSlot' = IF cmdSlot = NoCmd THEN rx ELSE cmdSlot
  /\ pending' = FALSE
  /\ IF pending /\ ~abort
       THEN ArmTx(Other(txIdx), ok, FALSE)
       ELSE Disarm

ErrorKeepsPending ==   \* mutant
  /\ txIdx >= 0
  /\ Disarm
  /\ inflight' = 0
  /\ UNCHANGED <<pending, seq, frame, lastSent, cmdSlot, ackVars, req, prog>>

\* HAL_SPI_ErrorCallback; with nothing in flight it only counts the error.
ErrorCallback ==
  /\ txIdx >= 0
  /\ Disarm
  /\ inflight' = 0 /\ pending' = FALSE
  /\ UNCHANGED <<seq, frame, lastSent, cmdSlot, ackVars, req, prog>>
-----------------------------------------------------------------------------
(* Properties *)

Request == [rows : Nat, rate : Nat, imu : Nat, run : {0, 1, NoRun}]

TypeOK ==
  /\ seq \in Nat /\ frame \in [0..1 -> Frame]
  /\ txIdx \in -1..1 /\ pending \in BOOLEAN /\ inflight \in 0..(StallBlocks - 1)
  /\ dr \in BOOLEAN /\ dma \in -1..1
  /\ cmdSlot \in Commands \cup {NoCmd}
  /\ ackFlags \in Answers /\ ackSeq \in Nat
  /\ appliedLatch \in BOOLEAN /\ lastApplied \in Nat \cup {-1}
  /\ active \in Payload /\ prog \in Payload /\ req \in Request
  /\ dmaSeq \in Nat \cup {-1} /\ lastSent \in Nat \cup {-1}

\* Data-ready is high exactly while a DMA is armed on the buffer s_tx_idx names,
\* so a master that starts on the line never clocks an unarmed slave.
Handshake == dma = txIdx /\ (dr <=> dma >= 0)

\* The buffer handed to the DMA is not written while it is in flight, whatever
\* blocks, stalls and errors come in between.
InFlightIntact == dma >= 0 => frame[dma].seq = dmaSeq

\* A block is pending only behind a transfer, in the other buffer, and it is
\* the newest block: the completion can never resurrect an older one.
PendingIsNewest ==
  pending => /\ txIdx >= 0
             /\ seq = (frame[Other(txIdx)].seq + 1) % SeqMod

\* The watchdog counts exactly the blocks produced since the transfer was armed:
\* never more (a healthy link is not torn down), never fewer (a frame on the
\* wire is less than StallBlocks blocks old).
WatchdogExact ==
  txIdx >= 0 => seq = (frame[txIdx].seq + 1 + inflight) % SeqMod

\* Until the sequence number wraps, the transmitter is a FrameChannel of depth
\* StallBlocks: blocks may be lost to a full queue, an error or a stall, but what
\* is clocked out is in assembly order, never repeated and never older than that.
Channel == INSTANCE FrameChannel
             WITH Depth <- StallBlocks, produced <- seq, delivered <- lastSent

ImplementsChannel == Channel!Spec

\* A command is applied whole or not at all: a change of the active configuration
\* or a new request to the acquisition comes with an ACK_OK that carries that
\* command's sequence number, and a command is never applied twice in a row.
NewRequest == \E f \in DOMAIN NoRequest : req'[f] \notin {req[f], NoRequest[f]}

AppliedOrNothing ==
  [][active' # active \/ NewRequest =>
       /\ ackFlags' = "ok" /\ ackSeq' = cmdSlot.seq
       /\ lastApplied' = cmdSlot.seq /\ lastApplied' # lastApplied
       /\ InRange(active')]_vars

\* A transfer the master abandons is torn down: no frame stays armed for ever while
\* blocks are produced (the last StallBlocks frames before the bound MaxSeq apart).
StallRecovered ==
  \A s \in 0..(MaxSeq - StallBlocks - 1) : (dmaSeq = s) ~> (dmaSeq # s)
=============================================================================
