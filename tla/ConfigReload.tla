---------------------------- MODULE ConfigReload ----------------------------
(***************************************************************************)
(* The life of the controller process around its exchange loop: it loads   *)
(* its configuration, brings spi.conf and spi-dwc in line with it, opens   *)
(* the bus, arms the data-ready pin, and repeats the last three when the   *)
(* watched file changes.  An editor changes the file at any moment between *)
(* two system calls, calls fail, and the process dies and is started anew. *)
(*                                                                         *)
(* A configuration file is identified by its version, which is also what   *)
(* stat tells apart (mtime and size).  Only some versions parse and        *)
(* validate.  Version 0 stands for the compiled defaults.                  *)
(***************************************************************************)
EXTENDS SpiConf

CONSTANTS
  Watch,      \* whether the controller runs with --watch
  MaxEdits,   \* bound on the versions of the file
  Good,       \* the versions that config_load_file accepts
  Pi,         \* the pi tier of each version: bus, mode, clock, cpha, pin
  OtherKeys,  \* keys of spi.conf that are not the controller's
  BootConfs,  \* what spi.conf can hold at boot
  MaxTries,   \* tries of handle_reload to reopen the bus
  MaxErrors,  \* consecutive failed exchanges that reset the bus
  MaxFaults   \* bound on the system calls that fail and the deaths

Versions == 0..MaxEdits
LineOfConf == [key : Keys \cup OtherKeys, val : Int, tail : Keys \cup {NoTail}]
SpiConfs ==
  [state : {"absent", "partial", "whole"}, lines : Seq(LineOfConf), ended : BOOLEAN]

ASSUME ReloadAssumption ==
  /\ Watch \in BOOLEAN
  /\ MaxEdits \in Nat \ {0} /\ Good \subseteq 1..MaxEdits
  /\ Pi \in [Versions -> [bus : Nat, mode : Nat, clock : Nat, cpha : Nat, pin : Nat]]
  /\ OtherKeys \cap Keys = {}
  /\ BootConfs \subseteq {c \in SpiConfs : c.state # "partial"}
  /\ MaxTries \in Nat \ {0} /\ MaxErrors \in Nat \ {0} /\ MaxFaults \in Nat

VARIABLES
  file,       \* version on disk, 0 while the file is absent
  edits,      \* newest version written so far
  conf,       \* spi.conf: [state, lines, ended], ended unless a last newline lacks
  tmp,        \* the temporary file that becomes spi.conf, likewise
  driver,     \* spi-dwc: whether it runs, and the settings it read from spi.conf
  device,     \* of each bus, mode and clock that its device was configured with
  pc,         \* what main() does next, "dead" while no controller runs
  cfg,        \* version the running configuration was loaded from
  next,       \* version being applied by handle_reload
  tries,      \* attempts to reopen
  link,       \* spi_link_t: the bus last configured, and configured
  fds,        \* the buses with a descriptor in spi_device_fd
  bad,        \* bad_read_count
  pin,        \* dr.pin, which the data-ready wait polls
  armed,      \* pins whose rising edge sends a pulse to this process
  baseline,   \* watch.mtime and watch.size, 0 while have_baseline is false
  firstSeen,  \* watch.trigger_on_first
  sighup,     \* disposition of SIGHUP: "default", "handler" or "ignored"
  flag,       \* g_reload
  faults,     \* failed calls and deaths so far
  boot,       \* history: spi.conf at boot
  wanted,     \* history: the version loaded at start
  skipped,    \* history: spi_apply_conf failed at this start
  unbounced,  \* history: no spi-dwc has come up since spi.conf was replaced
  repointed,  \* history: the last attempt to arm a pin succeeded
  raced       \* history: the file changed between a load and the rebase of the watch

disk    == <<file, edits, boot>>
spiconf == <<conf, tmp>>
dwc     == <<driver, device>>
bus     == <<link, fds, bad, tries>>
dr      == <<pin, armed, repointed>>
watch   == <<baseline, firstSeen>>
sig     == <<sighup, flag>>
started == <<wanted, skipped>>
vars == <<disk, spiconf, dwc, pc, cfg, next, bus, dr, watch, sig, started,
          faults, unbounced, raced>>

Absent   == [state |-> "absent", lines |-> <<>>, ended |-> TRUE]
Partial  == [state |-> "partial", lines |-> <<>>, ended |-> TRUE]
Whole(l) == [state |-> "whole", lines |-> l, ended |-> TRUE]

Buses  == {Pi[v].bus : v \in DOMAIN Pi}
Pins   == {Pi[v].pin : v \in DOMAIN Pi}
NoPin  == 0
Unset  == [mode |-> NoValue, clock |-> NoValue]
Params(v)   == [mode |-> Pi[v].mode, clock |-> Pi[v].clock]
Settings(v) == [k \in Keys |-> IF k = "cpha" THEN Pi[v].cpha ELSE Pi[v].clock]

NoLink == [bus |-> 0, configured |-> FALSE]

\* A new process.
Fresh ==
  /\ cfg' = 0 /\ next' = 0 /\ tries' = 0 /\ bad' = 0
  /\ link' = NoLink /\ fds' = {} /\ pin' = NoPin /\ armed' = {} /\ repointed' = TRUE
  /\ baseline' = 0 /\ firstSeen' = FALSE /\ sighup' = "default" /\ flag' = FALSE
  /\ wanted' = 0 /\ skipped' = FALSE /\ raced' = FALSE

Init ==
  /\ edits \in {0, 1} /\ file = edits
  /\ boot \in BootConfs /\ conf = boot /\ tmp = Absent
  /\ driver = [up |-> TRUE, settings |-> ReadSettings(conf.lines)]
  /\ device = [b \in Buses |-> Unset]
  /\ pc = "load" /\ cfg = 0 /\ next = 0 /\ tries = 0 /\ bad = 0
  /\ link = NoLink /\ fds = {} /\ pin = NoPin /\ armed = {} /\ repointed = TRUE
  /\ baseline = 0 /\ firstSeen = FALSE /\ sighup = "default" /\ flag = FALSE
  /\ faults = 0
  /\ wanted = 0 /\ skipped = FALSE /\ unbounced = FALSE /\ raced = FALSE

Fault == faults < MaxFaults /\ faults' = faults + 1
-----------------------------------------------------------------------------
(* The world around the controller *)

StartUp   == {"install", "shm", "conf", "rewrite", "fill", "rename", "slay", "respawn",
              "open", "setup", "watch"}
Reloading == {"close", "reopen", "repoint", "adopt", "sync"}
InWindow  == pc \in Reloading \/ (pc \in StartUp /\ cfg # 0)

\* A change outside of the window is seen by the watch, once it has a baseline or
\* waits for the first file.
ChangeRaces ==
  raced' = IF InWindow THEN TRUE
           ELSE raced /\ baseline = 0 /\ ~firstSeen /\ pc \notin {"load", "dead"}

Edit ==
  /\ \E v \in edits + 1..MaxEdits : file' = v /\ edits' = v
  /\ ChangeRaces
  /\ UNCHANGED <<boot, spiconf, dwc, pc, cfg, next, bus, dr, watch, sig, started, faults,
                 unbounced>>

Remove ==
  /\ file # 0 /\ edits < MaxEdits
  /\ file' = 0
  /\ raced' = (raced \/ InWindow)
  /\ UNCHANGED <<edits, boot, spiconf, dwc, pc, cfg, next, bus, dr, watch, sig, started,
                 faults, unbounced>>

Hangup ==
  /\ sighup = "handler" /\ ~flag
  /\ flag' = TRUE
  /\ UNCHANGED <<disk, spiconf, dwc, pc, cfg, next, bus, dr, watch, sighup, started,
                 faults, unbounced, raced>>

\* The process is gone: the kernel closes its descriptors and drops its events; a
\* temporary file it leaves behind is never looked at again.
Die ==
  /\ pc' = "dead" /\ tmp' = Absent /\ Fresh
  /\ UNCHANGED <<disk, conf, dwc, unbounced>>

Kill == pc # "dead" /\ Die /\ Fault

Again ==
  /\ pc = "dead" /\ pc' = "load"
  /\ UNCHANGED <<disk, spiconf, dwc, cfg, next, bus, dr, watch, sig, wanted, skipped,
                 faults, unbounced, raced>>
-----------------------------------------------------------------------------
(* main() up to its loop *)

LoadAtStart ==
  /\ pc = "load" /\ pc' = "install"
  /\ cfg' = (IF file \in Good THEN file ELSE 0) /\ wanted' = cfg'
  /\ UNCHANGED <<disk, spiconf, dwc, next, bus, dr, watch, sig, skipped,
                 faults, unbounced, raced>>

InstallSighup ==
  /\ pc = "install" /\ pc' = "shm"
  /\ sighup' = "handler"
  /\ UNCHANGED <<disk, spiconf, dwc, cfg, next, bus, dr, watch, flag, started, faults,
                 unbounced, raced>>

ShmSetup ==
  /\ pc = "shm"
  /\ \/ /\ pc' = "conf"
        /\ UNCHANGED <<disk, spiconf, dwc, cfg, next, bus, dr, watch, sig, started,
                       faults, unbounced, raced>>
     \/ Die /\ Fault

RestOfApply == <<disk, cfg, next, bus, dr, watch, sig, started, faults, raced>>

\* spi_apply_conf, whose result main ignores.  A file that cannot be opened is
\* rewritten, whatever it holds.
CompareConf ==
  /\ pc = "conf"
  /\ \/ pc' = (IF Differs(conf.lines, Settings(cfg)) THEN "rewrite" ELSE "open")
        /\ UNCHANGED faults
     \/ pc' = "rewrite" /\ Fault
  /\ UNCHANGED <<disk, spiconf, dwc, cfg, next, bus, dr, watch, sig, started,
                 unbounced, raced>>

GiveUpConf ==
  /\ Fault
  /\ pc' = "open" /\ skipped' = TRUE /\ tmp' = Absent
  /\ UNCHANGED <<disk, conf, dwc, cfg, next, bus, dr, watch, sig, wanted,
                 unbounced, raced>>

WriteInPlace ==   \* mutant
  /\ pc = "rewrite"
  /\ \/ /\ pc' = "fill" /\ tmp' = Partial /\ conf' = [conf EXCEPT !.state = "partial"]
        /\ UNCHANGED <<dwc, unbounced, RestOfApply>>
     \/ GiveUpConf

\* mkstemp and fdopen.
OpenTmp ==
  /\ pc = "rewrite"
  /\ \/ /\ pc' = "fill" /\ tmp' = Partial
        /\ UNCHANGED <<conf, dwc, unbounced, RestOfApply>>
     \/ GiveUpConf

\* The lines are written and the file is closed.  If the existing file cannot be
\* opened it is taken for absent, and the new one gets the keys alone.
FillTmp ==
  /\ pc = "fill"
  /\ \/ /\ pc' = "rename" /\ tmp' = Rewrite(conf, Settings(cfg))
        /\ UNCHANGED <<conf, dwc, unbounced, RestOfApply>>
     \/ /\ pc' = "rename" /\ tmp' = Rewrite(Absent, Settings(cfg)) /\ Fault
        /\ UNCHANGED <<disk, conf, dwc, cfg, next, bus, dr, watch, sig, started,
                       unbounced, raced>>
     \/ GiveUpConf

BounceForClockOnly ==   \* mutant
  /\ pc = "rename"
  /\ \/ /\ conf' = tmp /\ tmp' = Absent /\ unbounced' = TRUE
        /\ pc' = IF ReadKV(conf.lines, "clock_rate") # Pi[cfg].clock THEN "slay" ELSE "open"
        /\ UNCHANGED <<dwc, RestOfApply>>
     \/ GiveUpConf

RenameTmp ==
  /\ pc = "rename"
  /\ \/ /\ pc' = "slay" /\ conf' = tmp /\ tmp' = Absent /\ unbounced' = TRUE
        /\ UNCHANGED <<dwc, RestOfApply>>
     \/ GiveUpConf

\* bounce_spi_dwc.  The result of slay is ignored: the old driver may survive it.
Slay ==
  /\ pc = "slay" /\ pc' = "respawn"
  /\ \/ driver' = [driver EXCEPT !.up = FALSE] /\ UNCHANGED faults
     \/ driver.up /\ UNCHANGED driver /\ Fault
  /\ UNCHANGED <<disk, spiconf, device, cfg, next, bus, dr, watch, sig, started,
                 unbounced, raced>>

DriverComesUp ==
  /\ driver' = [up |-> TRUE, settings |-> ReadSettings(conf.lines)]
  /\ device' = [b \in Buses |-> Unset]
  /\ unbounced' = FALSE
  /\ UNCHANGED faults

\* The driver is started in the background, so that whether it comes up is not seen:
\* it may fail to, and beside a survivor it may do either.
DriverStaysAway ==
  /\ UNCHANGED <<dwc, unbounced>>
  /\ IF driver.up THEN UNCHANGED faults ELSE Fault

Respawn ==
  /\ pc = "respawn"
  /\ \/ /\ pc' = "open" /\ (DriverComesUp \/ DriverStaysAway)
        /\ UNCHANGED <<disk, spiconf, cfg, next, bus, dr, watch, sig, started, raced>>
     \/ GiveUpConf
-----------------------------------------------------------------------------
(* open_spi and close_spi, with the descriptor table of rpi_spi.c *)

Opens(v) ==
  LET b == Pi[v].bus
  IN /\ b \in fds \/ driver.up
     /\ fds' = fds \cup {b}
     /\ device' = [device EXCEPT ![b] = Params(v)]
     /\ link' = [bus |-> b, configured |-> TRUE]
     /\ UNCHANGED faults

\* The device cannot be opened, or it can and refuses its configuration.
FailsToOpen(v) ==
  LET b == Pi[v].bus
  IN /\ link' = [link EXCEPT !.configured = FALSE]
     /\ \/ b \notin fds /\ fds' = fds /\ (IF driver.up THEN Fault ELSE UNCHANGED faults)
        \/ (b \in fds \/ driver.up) /\ fds' = fds \cup {b} /\ Fault
     /\ UNCHANGED device

\* What was configured is closed, wherever the configuration points by now.  Its
\* descriptor stays in the table if close fails.
Closes ==
  /\ link' = [link EXCEPT !.configured = FALSE]
  /\ IF link.configured /\ link.bus \in fds
       THEN \/ fds' = fds \ {link.bus} /\ UNCHANGED faults
            \/ UNCHANGED fds /\ Fault
       ELSE UNCHANGED <<fds, faults>>

OpenAtStart ==
  /\ pc = "open"
  /\ \/ /\ pc' = "setup" /\ Opens(cfg)
        /\ UNCHANGED <<disk, spiconf, driver, cfg, next, bad, tries, dr, watch, sig,
                       started, unbounced, raced>>
     \/ Die /\ (IF driver.up THEN Fault ELSE UNCHANGED faults)
-----------------------------------------------------------------------------
(* dataready_arm_pin, with the connection to the GPIO manager of rpi_gpio.c *)

\* The pin is set before it can fail; the registration of another pin stays.
ArmPin(v) ==
  /\ pin' = Pi[v].pin
  /\ armed' = armed \cup {pin'} /\ repointed' = TRUE /\ UNCHANGED faults

FailsToArm(v) ==
  /\ pin' = Pi[v].pin
  /\ UNCHANGED armed /\ repointed' = FALSE /\ Fault

\* A failure tears the connection down, closes the bus and ends the program.
DatareadySetup ==
  /\ pc = "setup"
  /\ \/ /\ pc' = "watch" /\ ArmPin(cfg)
        /\ UNCHANGED <<disk, spiconf, dwc, cfg, next, bus, watch, sig, started,
                       unbounced, raced>>
     \/ Die /\ Fault
-----------------------------------------------------------------------------
(* The file watch *)

\* cfg_watch_sync: the file on disk becomes the baseline, unless it is absent.
Rebase == baseline' = IF Watch /\ file # 0 THEN file ELSE baseline

StartWatch ==
  /\ pc = "watch" /\ pc' = "ignore"
  /\ IF Watch /\ cfg = 0
       THEN firstSeen' = TRUE /\ UNCHANGED baseline
       ELSE Rebase /\ UNCHANGED firstSeen
  /\ UNCHANGED <<disk, spiconf, dwc, cfg, next, bus, dr, sig, started, faults,
                 unbounced, raced>>

\* The handlers for SIGINT and SIGTERM are installed here, and SIGHUP is ignored.
IgnoreSighup ==
  /\ pc = "ignore" /\ pc' = "loop"
  /\ sighup' = "ignored"
  /\ UNCHANGED <<disk, spiconf, dwc, cfg, next, bus, dr, watch, flag, started, faults,
                 unbounced, raced>>

NoFirstBaseline == FALSE   \* mutant

\* cfg_watch_fired, on an iteration that runs stat.
FirstBaseline == baseline = 0 /\ firstSeen
Changed == baseline # 0 /\ file # baseline
Fired == Watch /\ file # 0 /\ (FirstBaseline \/ Changed)

Poll ==
  /\ pc = "loop"
  /\ Rebase
  /\ firstSeen' = (firstSeen /\ ~(Watch /\ file # 0))
  /\ flag' = FALSE
  /\ pc' = IF flag \/ Fired THEN "reload" ELSE "loop"
  /\ UNCHANGED <<disk, spiconf, dwc, cfg, next, bus, dr, sighup, started, faults,
                 unbounced, raced>>

\* An iteration in the second of the last stat.
PollFlagOnly ==
  /\ pc = "loop" /\ flag
  /\ flag' = FALSE /\ pc' = "reload"
  /\ UNCHANGED <<disk, spiconf, dwc, cfg, next, bus, dr, watch, sighup, started, faults,
                 unbounced, raced>>
-----------------------------------------------------------------------------
(* handle_reload *)

WireDiffersButMode(v, w) ==   \* mutant
  \E f \in {"bus", "clock", "cpha"} : Pi[v][f] # Pi[w][f]

WireDiffers(v, w) == \E f \in {"bus", "mode", "clock", "cpha"} : Pi[v][f] # Pi[w][f]

PinDiffersInWireChange(v, w) ==   \* mutant
  WireDiffers(v, w) /\ Pi[v].pin # Pi[w].pin

PinDiffers(v, w) == Pi[v].pin # Pi[w].pin

BehindWire(v) == IF PinDiffers(v, cfg) THEN "repoint" ELSE "adopt"

\* A file that is not accepted leaves the configuration in force.
LoadAgain ==
  /\ pc = "reload"
  /\ IF file \in Good
       THEN next' = file /\ pc' = IF WireDiffers(file, cfg) THEN "close" ELSE BehindWire(file)
       ELSE next' = next /\ pc' = "loop"
  /\ UNCHANGED <<disk, spiconf, dwc, cfg, bus, dr, watch, sig, started, faults,
                 unbounced, raced>>

RestOfReload == <<disk, spiconf, driver, cfg, next, bad, watch, sig, started, unbounced, raced>>

\* spi.conf and spi-dwc are left as they are.
CloseBus ==
  /\ pc = "close" /\ pc' = "reopen"
  /\ Closes /\ tries' = 0
  /\ UNCHANGED <<device, dr, RestOfReload>>

ReopenForever ==   \* mutant
  /\ pc = "reopen"
  /\ \/ Opens(next) /\ tries' = 0 /\ pc' = BehindWire(next)
     \/ FailsToOpen(next) /\ tries' = tries + 1 /\ pc' = "reopen"
  /\ UNCHANGED <<dr, RestOfReload>>

Reopen ==
  /\ pc = "reopen"
  /\ \/ Opens(next) /\ tries' = 0 /\ pc' = BehindWire(next)
     \/ /\ FailsToOpen(next)
        /\ IF tries + 1 < MaxTries THEN tries' = tries + 1 /\ pc' = "reopen"
                                   ELSE tries' = 0 /\ pc' = BehindWire(next)
  /\ UNCHANGED <<dr, RestOfReload>>

Repoint ==
  /\ pc = "repoint" /\ pc' = "adopt"
  /\ ArmPin(next) \/ FailsToArm(next)
  /\ UNCHANGED <<device, link, fds, tries, RestOfReload>>

Adopt ==
  /\ pc = "adopt" /\ pc' = "sync"
  /\ cfg' = next /\ next' = 0
  /\ UNCHANGED <<disk, spiconf, dwc, bus, dr, watch, sig, started, faults, unbounced, raced>>

Sync ==
  /\ pc = "sync" /\ pc' = "loop"
  /\ Rebase
  /\ UNCHANGED <<disk, spiconf, dwc, cfg, next, bus, dr, firstSeen, sig, started, faults,
                 unbounced, raced>>
-----------------------------------------------------------------------------
(* The rest of an iteration: an exchange, which opens the device if it has *)
(* to, and the reset of the bus when exchanges keep failing                *)

Exchange ==
  /\ pc = "loop"
  /\ \/ /\ Pi[cfg].bus \in fds \/ driver.up
        /\ fds' = fds \cup {Pi[cfg].bus} /\ bad' = 0 /\ pc' = "loop"
     \/ /\ fds' = fds \/ (driver.up /\ fds' = fds \cup {Pi[cfg].bus})
        /\ IF bad + 1 < MaxErrors THEN bad' = bad + 1 /\ pc' = "loop"
                                  ELSE bad' = 0 /\ pc' = "reset"
  /\ UNCHANGED <<disk, spiconf, dwc, cfg, next, link, tries, dr, watch, sig, started,
                 faults, unbounced, raced>>

ResetClose ==
  /\ pc = "reset" /\ pc' = "revive"
  /\ Closes
  /\ UNCHANGED <<device, tries, dr, RestOfReload>>

\* One attempt, whose failure is only reported.
ResetOpen ==
  /\ pc = "revive" /\ pc' = "loop"
  /\ Opens(cfg) \/ FailsToOpen(cfg)
  /\ UNCHANGED <<tries, dr, RestOfReload>>

\* SIGTERM ends the loop: the pin and the bus are released.
Stop ==
  /\ pc = "loop" /\ Die
  /\ UNCHANGED faults
-----------------------------------------------------------------------------
Start ==
  \/ LoadAtStart \/ InstallSighup \/ ShmSetup \/ CompareConf \/ OpenTmp \/ FillTmp
  \/ RenameTmp \/ Slay \/ Respawn \/ OpenAtStart \/ DatareadySetup \/ StartWatch
  \/ IgnoreSighup

HandleReload == LoadAgain \/ CloseBus \/ Reopen \/ Repoint \/ Adopt \/ Sync

Reset == ResetClose \/ ResetOpen

World == Edit \/ Remove \/ Hangup \/ Kill \/ Again

Next == World \/ Start \/ Poll \/ PollFlagOnly \/ HandleReload \/ Exchange \/ Reset \/ Stop

\* The controller keeps running, and the clock reaches the next second; nothing is
\* assumed of the editor or of whoever starts the controller.
Spec ==
  /\ Init /\ [][Next]_vars
  /\ WF_vars(Start \/ HandleReload \/ Reset) /\ SF_vars(Poll)
-----------------------------------------------------------------------------
(* Properties *)

AfterApply == {"open", "setup", "watch", "ignore", "loop", "reload", "reset", "revive"}
                \cup Reloading

TypeOK ==
  /\ file \in Versions /\ edits \in Versions /\ cfg \in Versions /\ next \in Versions
  /\ conf \in SpiConfs /\ tmp \in SpiConfs /\ boot \in BootConfs
  /\ driver \in [up : BOOLEAN, settings : [Keys -> Int]]
  /\ device \in [Buses -> [mode : Int, clock : Int]]
  /\ pc \in {"dead", "load"} \cup StartUp \cup AfterApply
  /\ tries \in 0..MaxTries - 1 /\ bad \in 0..MaxErrors - 1
  /\ link \in [bus : Buses \cup {0}, configured : BOOLEAN] /\ fds \subseteq Buses
  /\ pin \in Pins \cup {NoPin} /\ armed \subseteq Pins
  /\ baseline \in Versions /\ sighup \in {"default", "handler", "ignored"}
  /\ wanted \in Versions /\ faults \in 0..MaxFaults

Foreign(c) == {i \in DOMAIN c.lines : c.lines[i].key \notin Keys}

\* The lines of other tools are the same ones, and where they were; only a last line
\* without a newline may have been continued by a key.
KeepsForeign(old, new) ==
  /\ Foreign(old) = Foreign(new)
  /\ \A i \in Foreign(old) :
       \/ new.lines[i] = old.lines[i]
       \/ /\ ~old.ended /\ i = Len(old.lines)
          /\ \E k \in Keys : new.lines[i] = [old.lines[i] EXCEPT !.tail = k]

\* A key reads as wanted, or has no line of its own and continues another one.
ReadsAsWanted(lines, want) ==
  \A k \in Keys :
    \/ ReadKV(lines, k) = want[k]
    \/ Hits(lines, k) = {} /\ \E i \in DOMAIN lines : lines[i].tail = k

\* Whenever and however often the controller dies, spi.conf is complete.  It has all
\* the lines of other tools that it had at boot, but for a key that continues an
\* unfinished last one; or it has none of them, and a call failed: an existing file
\* that could not be opened.  Once it was applied it reads as the configuration says,
\* or lacks the key that continues a line, but never has an older value.
ConfIsWhole ==
  /\ conf.state # "partial"
  /\ KeepsForeign(boot, conf) \/ (faults > 0 /\ Foreign(conf) = {})
  /\ pc \in {"open", "setup", "watch", "ignore"} /\ ~skipped =>
       ReadsAsWanted(conf.lines, Settings(cfg))

\* A driver has come up with the spi.conf that is there, unless a call failed or a
\* controller died between the two; after that no start bounces the driver until the
\* settings change again.  And in the loop spi.conf reads as the configuration that
\* the controller started with, unless this start failed to write it: a reload with
\* other settings leaves both as they are.
DriverRunsStartConf ==
  /\ unbounced => pc \in {"slay", "respawn"} \/ faults > 0
  /\ ~unbounced => driver.up /\ driver.settings = ReadSettings(conf.lines)
  /\ pc = "loop" /\ ~skipped => ReadsAsWanted(conf.lines, Settings(wanted))

\* In the loop a bus that counts as configured is the one of the running
\* configuration, it is open, and its device has the mode and the clock of that
\* configuration; and if no call ever failed, it does count as configured and no
\* other descriptor is open.
LinkIsTrue ==
  pc = "loop" =>
    /\ link.configured => /\ link.bus = Pi[cfg].bus /\ link.bus \in fds
                          /\ device[link.bus] = Params(cfg)
    /\ faults = 0 => link.configured /\ fds = {Pi[cfg].bus}

\* In the loop the pin that is polled is the configured one, and its edge is armed
\* unless the last attempt to arm one failed.
PinIsArmed ==
  pc = "loop" => pin = Pi[cfg].pin /\ (repointed => pin \in armed)

\* A change of the watched file is loaded: again and again the controller has the
\* version on disk, if that is a good one and did not come between a load and the
\* rebase of the watch, or it is not running.
LoadedUnlessRaced == []<>(pc = "dead" \/ raced \/ (file \in Good => cfg = file))
=============================================================================
