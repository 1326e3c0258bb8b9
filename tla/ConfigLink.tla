----------------------------- MODULE ConfigLink -----------------------------
(***************************************************************************)
(* The configuration link end to end: the command transmitter and the      *)
(* frame gate of motor_controller.c against the board of MotorAcquire,     *)
(* over SPI exchanges that can damage either direction.  The controller    *)
(* can be reloaded with another configuration and can be restarted.        *)
(*                                                                         *)
(* One exchange clocks the armed frame to the Pi and the Pi's transmit     *)
(* buffer to the board.  A read that finds no armed DMA, or that returns a *)
(* damaged frame, changes nothing in the state kept here on the Pi side.   *)
(***************************************************************************)
EXTENDS MotorAcquire, ConfigFile

CONSTANTS
  Retries,      \* CMD_MAX_RETRIES
  Files,        \* the configuration files that are written
  MaxCmdSeq,    \* bound on the commands of one controller run
  MaxRestarts,  \* bound on controller restarts
  MaxReopens,   \* bound on the reloads that reopen the bus
  Lossy         \* whether exchanges can be damaged

ASSUME RetriesAssumption == Retries \in Nat \ {0}
ASSUME FilesAssumption == Files \subseteq File
ASSUME BoundsAssumption ==
  /\ MaxCmdSeq \in Nat /\ MaxRestarts \in Nat /\ MaxReopens \in Nat
  /\ Lossy \in BOOLEAN

VARIABLES
  cmdState,    \* g_cmd.state
  cmdSeq,      \* g_cmd.seq
  cmdRetries,  \* g_cmd.retries_left
  cmdPayload,  \* g_cmd.payload, also the body of g_cmd.frame
  piActive,    \* active_stm
  piStm,       \* cfg.stm
  outcome,     \* history: how the controller saw the last command end
  ackedSeq,    \* history: the command whose ACK set piActive
  restarts,    \* controller restarts so far
  reopens      \* reloads so far that handed out a full retry budget again

piVars  == <<cmdState, cmdSeq, cmdRetries, cmdPayload, piActive, piStm,
             outcome, ackedSeq>>
bounds   == <<restarts, reopens>>
linkVars == <<allVars, piVars, bounds>>

\* The stm tiers that a load can produce.
Configs == UNION {Loads(file) : file \in Files}
ConfigsAtStart == UNION {LoadsAtStart(file) : file \in Files}

\* The command alphabet holds every frame the controller can send.
ASSUME SentAssumption ==
  [seq : 1..MaxCmdSeq, op : {"SET_CONFIG"}, crcOk : BOOLEAN, schemaOk : {TRUE},
   payload : Configs] \subseteq Commands

\* active_stm before the first ACK: all zero, recognised by its block_rows.
NoConfig == [rows |-> 0, rate |-> 0, imu |-> 0, run |-> 0, source |-> 0]

\* main() of the controller: cmd_init, the loaded file, nothing queued.
StartController(p) ==
  /\ cmdState = "IDLE" /\ cmdSeq = 0 /\ cmdRetries = 0 /\ cmdPayload = NoConfig
  /\ piActive = NoConfig /\ piStm = p
  /\ outcome = "none" /\ ackedSeq = -1

LinkInit ==
  /\ AcquireInit /\ restarts = 0 /\ reopens = 0
  /\ \E p \in ConfigsAtStart : StartController(p)
-----------------------------------------------------------------------------
(* The controller's side of an exchange *)

Command(intact) ==
  [seq |-> cmdSeq, op |-> "SET_CONFIG", crcOk |-> intact, schemaOk |-> TRUE,
   payload |-> cmdPayload]

\* What cmd_fill_tx puts on the wire, and what damage can make of it: a frame
\* that fails its CRC, or one whose magic is gone.
Outgoing == IF cmdState = "PENDING" THEN Command(TRUE) ELSE NoCmd
Arrivals ==
  {Outgoing} \cup (IF Lossy /\ cmdState = "PENDING"
                     THEN {Command(FALSE), NoCmd} ELSE {})

AcceptedNoSentinel(f) == piActive.rows = f.rows \/ f.applied   \* mutant

\* The n_rows gate: a frame of another size than the acknowledged one is
\* dropped unless it carries CONFIG_APPLIED.
Accepted(f) == piActive.rows \in {0, f.rows} \/ f.applied

EndCommand(result) == cmdState' = "IDLE" /\ outcome' = result

\* cmd_count_attempt for a valid frame, then cmd_observe.
CountAttempt == cmdRetries' = IF cmdRetries > 0 THEN cmdRetries - 1 ELSE 0

NoMatch(f) ==
  /\ f.ackSeq # cmdSeq
  /\ IF cmdRetries' = 0 THEN EndCommand("timeout")
                        ELSE UNCHANGED <<cmdState, outcome>>
  /\ UNCHANGED <<piActive, ackedSeq>>

AckOkAnySeq(f) ==   \* mutant
  /\ f.ack = "ok"
  /\ EndCommand("ack")
  /\ piActive' = cmdPayload /\ ackedSeq' = cmdSeq

AckOk(f) ==
  /\ f.ackSeq = cmdSeq /\ f.ack = "ok"
  /\ EndCommand("ack")
  /\ piActive' = cmdPayload /\ ackedSeq' = cmdSeq

AckNack(f) ==
  /\ f.ackSeq = cmdSeq /\ f.ack \notin {"ok", "none"}
  /\ EndCommand("nack")
  /\ UNCHANGED <<piActive, ackedSeq>>

Observe(f) ==
  /\ cmdState = "PENDING" /\ Accepted(f)
  /\ CountAttempt
  /\ NoMatch(f) \/ AckOk(f) \/ AckNack(f)
  /\ UNCHANGED <<cmdSeq, cmdPayload, piStm>>

Ignore(f) == ~(cmdState = "PENDING" /\ Accepted(f)) /\ UNCHANGED piVars

\* rpi_spi_write_read_data against an armed slave, and the frame it returns.
Exchange(rx, received, ok, abort) ==
  /\ SpiDone(rx, ok, abort)
  /\ IF received THEN Observe(frame[dma]) \/ Ignore(frame[dma])
                 ELSE UNCHANGED piVars
  /\ UNCHANGED bounds
-----------------------------------------------------------------------------
(* The controller's own steps *)

\* cmd_queue_set_config, also over a command that is still pending.
QueueSetConfig(p) ==
  /\ cmdSeq < MaxCmdSeq
  /\ cmdSeq' = cmdSeq + 1 /\ cmdPayload' = p
  /\ cmdState' = "PENDING" /\ cmdRetries' = Retries
  /\ outcome' = "none"

\* handle_reload, with another stm tier p in the file; and with an unchanged one
\* and another SPI wire tier, which reopens the bus and hands a pending command
\* its full budget again (a file with both does what Reload does).
Reload(p) ==
  /\ p # piStm
  /\ piStm' = p
  /\ QueueSetConfig(p)
  /\ UNCHANGED <<allVars, piActive, ackedSeq, bounds>>

ReloadWire ==
  /\ cmdState = "PENDING" /\ reopens < MaxReopens
  /\ reopens' = reopens + 1
  /\ cmdRetries' = Retries
  /\ UNCHANGED <<allVars, cmdPayload, cmdSeq, cmdState, outcome, piStm, piActive,
                 ackedSeq, restarts>>

Restart(p) ==
  /\ restarts < MaxRestarts
  /\ restarts' = restarts + 1
  /\ cmdState' = "IDLE" /\ cmdSeq' = 0 /\ cmdRetries' = 0 /\ cmdPayload' = NoConfig
  /\ piActive' = NoConfig /\ piStm' = p
  /\ outcome' = "none" /\ ackedSeq' = -1
  /\ UNCHANGED <<allVars, reopens>>

BoardStep ==
  /\ \/ \E ok \in BOOLEAN : AdcBlock(ok)
     \/ SpiError
     \/ ServiceStep
  /\ UNCHANGED <<piVars, bounds>>

CleanExchange == Exchange(Outgoing, TRUE, TRUE, FALSE)

LinkNext ==
  \/ BoardStep
  \/ \E rx \in Arrivals, received \in IF Lossy THEN BOOLEAN ELSE {TRUE},
        ok, abort \in BOOLEAN : Exchange(rx, received, ok, abort)
  \/ \E p \in Configs : Reload(p)
  \/ ReloadWire
  \/ \E p \in ConfigsAtStart : Restart(p)

LinkSpec == LinkInit /\ [][LinkNext]_linkVars

\* The ADC produces blocks and arming works infinitely often, the main loop
\* calls the service, and undamaged exchanges keep happening.
FairLinkSpec ==
  /\ LinkSpec
  /\ WF_linkVars(AdcBlock(TRUE) /\ UNCHANGED <<piVars, bounds>>)
  /\ WF_linkVars(ServiceStep /\ UNCHANGED <<piVars, bounds>>)
  /\ SF_linkVars(CleanExchange)
-----------------------------------------------------------------------------
(* Properties *)

\* The configuration the controller takes for acknowledged is the one the board
\* applied, unless the board has since applied a later command: no stale,
\* damaged or misattributed answer is taken for an ACK.
AckMeansApplied ==
  piActive # NoConfig =>
    \/ lastApplied = ackedSeq /\ active = piActive
    \/ lastApplied > ackedSeq

\* Over a link that damages nothing, no command is rejected and none is given up,
\* whatever frames are overwritten, aborted or stalled on the way: every stm tier a
\* file can hold passes the board's range check, and the answer comes back within
\* the retry budget.
CleanLinkDelivers == outcome \notin {"nack", "timeout"}

\* A pending command ends: it is acknowledged, rejected, or given up when its
\* retries are gone.
CommandSettles == (cmdState = "PENDING") ~> (cmdState = "IDLE")

\* There are two ways it does not end, and both cut the controller off for good from
\* every frame that could end it: the board came to run another block size than the
\* one acknowledged, and the frame gate closed; or the board carried out a stop, which
\* is served from the main loop and can come before the frame with its ACK.
Resized == piActive.rows \notin {0, prog.rows}
Stopped == prog.run = 0
SettlesUnlessCutOff ==
  (cmdState = "PENDING") ~> (cmdState = "IDLE" \/ [](Resized \/ Stopped))
=============================================================================
