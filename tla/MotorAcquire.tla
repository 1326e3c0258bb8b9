---------------------------- MODULE MotorAcquire ----------------------------
(***************************************************************************)
(* The deferred-service pattern of motor_acquire.c.  Interrupt handlers    *)
(* store requests; motor_acquire_service, called from the main loop of the *)
(* firmware, reads, clears and programs them one access at a time, and any *)
(* interrupt handler of MotorSend can run between two accesses: a request  *)
(* it stores between the read and the clear of its field is cleared unread.*)
(* AcquireSpec is the whole board.                                         *)
(***************************************************************************)
EXTENDS MotorSend

VARIABLES
  pc,        \* the access of motor_acquire_service that comes next
  new,       \* its locals new_rate, new_rows, new_imu and r
  adcRows,   \* rows per half of the circular DMA the ADC runs on, 0 if stopped
  unread     \* history: the fields whose last request was cleared unread

acqVars == <<pc, new, adcRows, unread>>
allVars == <<vars, acqVars>>

AcquireInit ==
  /\ Init
  /\ pc = "readRate" /\ new = NoRequest /\ adcRows = BootConfig.rows
  /\ unread = {}
-----------------------------------------------------------------------------
(* motor_acquire_service, one access to shared state per step *)

Fields == {"rows", "rate", "imu", "run"}

Goto(here, there) == pc = here /\ pc' = there

\* What every step of the service leaves alone: the transmitter and the commands.
MainLoopOnly == UNCHANGED <<txVars, cmdSlot, ackVars>>

\* The locals are gone once the routine has returned.
Locals(there, l) == new' = IF there = "readRate" THEN NoRequest ELSE l

Read(f, here, there) ==
  /\ Goto(here, there)
  /\ Locals(there, [new EXCEPT ![f] = req[f]])
  /\ MainLoopOnly /\ UNCHANGED <<req, prog, adcRows, unread>>

Clear(f, here, there) ==
  /\ Goto(here, there)
  /\ req' = [req EXCEPT ![f] = NoRequest[f]]
  /\ unread' = IF req[f] # new[f] THEN unread \cup {f} ELSE unread
  /\ MainLoopOnly /\ UNCHANGED <<prog, new, adcRows>>

AdcGroupNeedsBoth ==   \* mutant
  IF new.rate # 0 /\ req.rows # 0 THEN "clearRate" ELSE "readImu"

\* The ADC group runs when a rate or a number of rows was read.
AdcGroup == IF new.rate # 0 \/ req.rows # 0 THEN "clearRate" ELSE "readImu"

ReadRate  == Read("rate", "readRate", "readRows")
ReadRows  == Read("rows", "readRows", AdcGroup)
ClearRate == Clear("rate", "clearRate", "clearRows")
ClearRows == Clear("rows", "clearRows", "stopAdc")

KeepAdcRunning ==   \* mutant
  /\ Goto("stopAdc", "programAdc")
  /\ MainLoopOnly /\ UNCHANGED <<req, prog, new, adcRows, unread>>

StopAdc ==
  /\ Goto("stopAdc", "programAdc")
  /\ adcRows' = 0
  /\ MainLoopOnly /\ UNCHANGED <<req, prog, new, unread>>

ProgramAdc ==
  /\ Goto("programAdc", "startAdc")
  /\ prog' = [prog EXCEPT !.rate = IF new.rate # 0 THEN new.rate ELSE @,
                          !.rows = IF new.rows # 0 THEN new.rows ELSE @]
  /\ MainLoopOnly /\ UNCHANGED <<req, new, adcRows, unread>>

StartAdc ==
  /\ Goto("startAdc", "readImu")
  /\ adcRows' = IF prog.run = 1 THEN prog.rows ELSE 0
  /\ MainLoopOnly /\ UNCHANGED <<req, prog, new, unread>>

ReadImu  == Read("imu", "readImu", IF req.imu # 0 THEN "clearImu" ELSE "readRun")
ClearImu == Clear("imu", "clearImu", "programImu")

ProgramImu ==
  /\ Goto("programImu", "readRun")
  /\ prog' = [prog EXCEPT !.imu = new.imu]
  /\ MainLoopOnly /\ UNCHANGED <<req, new, adcRows, unread>>

ReadRun  == Read("run", "readRun", IF req.run # NoRun THEN "clearRun" ELSE "readRate")
ClearRun == Clear("run", "clearRun", "switch")

\* motor_acquire_start and motor_acquire_stop, which do nothing when repeated.
Switch ==
  /\ Goto("switch", "readRate")
  /\ prog' = [prog EXCEPT !.run = new.run]
  /\ adcRows' = IF new.run = 0 THEN 0
                ELSE IF prog.run = 0 THEN prog.rows ELSE adcRows
  /\ Locals("readRate", new)
  /\ MainLoopOnly /\ UNCHANGED <<req, unread>>

ServiceStep ==
  \/ ReadRate \/ ReadRows \/ ClearRate \/ ClearRows \/ StopAdc \/ ProgramAdc
  \/ StartAdc \/ ReadImu \/ ClearImu \/ ProgramImu \/ ReadRun \/ ClearRun \/ Switch
-----------------------------------------------------------------------------
(* The interrupt handlers *)

\* A half or full transfer of the ADC's circular DMA: fill_rows composes
\* s_block_rows rows and hands them to motor_on_block_ready.
AdcBlock(ok) ==
  /\ adcRows # 0
  /\ BlockReady(ok)
  /\ unread' = {f \in unread : active'[f] = active[f]}
  /\ UNCHANGED <<pc, new, adcRows>>

SpiDone(rx, ok, abort) == TxRxCplt(rx, ok, abort) /\ UNCHANGED acqVars

SpiError == ErrorCallback /\ UNCHANGED acqVars

Interrupt ==
  \/ \E ok \in BOOLEAN : AdcBlock(ok)
  \/ \E rx \in Commands \cup {NoCmd}, ok, abort \in BOOLEAN : SpiDone(rx, ok, abort)
  \/ SpiError

AcquireNext == ServiceStep \/ Interrupt
AcquireSpec == AcquireInit /\ [][AcquireNext]_allVars

\* The main loop of the firmware never stops calling the service, and a running
\* ADC keeps producing blocks; nothing is assumed of the master.
FairAcquireSpec ==
  /\ AcquireSpec
  /\ WF_allVars(ServiceStep)
  /\ WF_allVars(\E ok \in BOOLEAN : AdcBlock(ok))
-----------------------------------------------------------------------------
(* Properties *)

Steps == {"readRate", "readRows", "clearRate", "clearRows", "stopAdc", "programAdc",
          "startAdc", "readImu", "clearImu", "programImu", "readRun", "clearRun",
          "switch"}

AcquireTypeOK ==
  /\ TypeOK
  /\ pc \in Steps /\ new \in Request /\ adcRows \in Nat /\ unread \subseteq Fields

\* While the ADC fills its circular buffer the block composer splits it at the very
\* number of rows the DMA was started with, wherever an interrupt lands in the
\* reconfiguration; and the DMA never runs on a stopped board.
DmaMatchesRows == adcRows # 0 => adcRows = prog.rows /\ prog.run = 1

\* The steps between the clear of a request and its programming.
Taken == [rate |-> {"clearRows", "stopAdc", "programAdc"},
          rows |-> {"stopAdc", "programAdc"},
          imu  |-> {"programImu"},
          run  |-> {"switch"}]

\* What the hardware will run: the request, or what the service has in hand, or
\* what is programmed.
WillBe(f) ==
  IF req[f] # NoRequest[f] THEN req[f]
  ELSE IF pc \in Taken[f] /\ new[f] # NoRequest[f] THEN new[f]
  ELSE prog[f]

\* The configuration the board acknowledges is what its hardware runs or will run,
\* rates it was told to leave alone apart.  The one way to lose a field is a request
\* stored between the read and the clear of an earlier one, and the next command
\* that changes the field repairs it: no other order of commands and accesses does.
ActiveReachesHardware ==
  \A f \in Fields \ unread :
    WillBe(f) = active[f] \/ (f \in {"rate", "imu"} /\ active[f] = 0)

\* An acknowledged value is programmed by the main loop, however interrupts fall,
\* unless a later command takes it back or its request was cleared unread.
Values(f) == {c.payload[f] : c \in Commands} \ (IF f = "run" THEN {} ELSE {0})

AcknowledgedLands ==
  \A f \in Fields : \A v \in Values(f) :
    (active[f] = v) ~> (prog[f] = v \/ active[f] # v \/ f \in unread)

\* motor_acquire.h says of the deferred setters, without exception, that they are
\* safe to call from an interrupt and that their effects land on the next tick.
EffectsLand ==
  \A f \in Fields : \A v \in Values(f) :
    (active[f] = v) ~> (prog[f] = v \/ active[f] # v)
=============================================================================
