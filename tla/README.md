# A verified model of the STM32-to-QNX motor link

TLA+ models of this repository: an STM32 board samples motor currents, vibration
and speed and offers them in blocks as an SPI slave; a QNX process on a Raspberry
Pi (`motor_controller`) clocks the blocks out, sends configuration commands back
in the same exchanges, and publishes the data in shared memory for dashboards and
monitors. TLC checks the modules on small instances; TLAPS proves, for all of them,
the central invariants of the transmitter, the command processor, the deferred
service, the receive loop, the snapshot and the block ring, the loader, the
controller's start-up and reload, the tachometer, the memory and the answers of the
JSON parser, and what an ACK means to the controller.

All paths below are relative to the repository root `src/`.

## 1. Inventory

| part | code | state | operations | hard behaviour |
|---|---|---|---|---|
| SPI transmitter | `Stm32-SPI/src/motor_send.c` | two frame buffers, `s_tx_idx`, `s_pending`, `s_inflight_blocks`, data-ready line, DMA | `motor_on_block_ready`, `HAL_SPI_TxRxCpltCallback`, `HAL_SPI_ErrorCallback`, `arm_tx`, `tx_recover` | three interrupt sources in any order, a master that abandons a transfer, an abort nested in a completion |
| command processor | same file | one received command, latched ACK bits, one-shot CONFIG_APPLIED, `s_active_config`, last applied number | `process_pending_cmd` | duplicates, damaged resends, rejections that must change nothing |
| acquisition | `Stm32-SPI/src/motor_acquire.c` | `s_pending_*`, programmed rate/rows/IMU/run state, ADC DMA | setters, `motor_acquire_service`, start/stop, `fill_rows` | a main-loop routine interrupted between any two accesses |
| tachometer | same file | capture time stamp, `s_rpm`, `s_capture_seen` | capture interrupt, age-out in `fill_rows` | interrupt preempted by interrupt |
| command transmitter | `QNX-SPI/motor_controller.c` | `g_cmd` (state, number, retries, payload), `active_stm`, `cfg` | `cmd_queue_set_config`, `cmd_fill_tx`, `cmd_count_attempt`, `cmd_observe`, `handle_reload` | lost and damaged frames, late answers, overlapping reloads, restarts |
| file watch and reload | same file, `QNX-SPI/config.c` | baseline of the file, reload flag, SIGHUP disposition, running configuration | `cfg_watch_*`, `on_sighup`, `handle_reload`, main loop | an editor that writes between two system calls, a reload of which one part fails, a process that dies |
| bus and pin | same file, `rpi_spi.c`, `rpi_gpio.c` | `spi_link_t`, descriptor table, armed pin | `open_spi`, `close_spi`, `dataready_setup`, `dataready_repoint` | a close or open that fails halfway; an exchange that opens the device by itself |
| frame gate and publication | `motor_controller.c` main loop | sequence baseline, counters | validate, account, publish | duplicates, gaps, resets |
| data-ready wait | `motor_controller.c`, `rpi_gpio.c` | armed pin, queued pulses | wait, edge/level fallback, repoint | stale pulses |
| snapshot | `QNX-SPI/motor_shm.h` | seqlock, latest row | `motor_snapshot_publish/read` | reader and writer without mutual exclusion |
| block ring | `motor_shm.h`, `motor_monitor.c` | positions, a seqlock per slot, the monitor's counters | `motor_ring_publish`, `motor_ring_read_slot`, drain loop | laps, torn copies, restart of the producer |
| file loader | `config.c` | the running configuration | load, validate | absent and ill-typed fields, undefined casts |
| spi.conf rewrite | `config.c` | driver file, temporary file, spi-dwc | `spi_apply_conf` | replacement of a file and restart of a driver, with a crash between |
| JSON parser | `cJSON.c` (vendored) | a tree of linked items, a nesting depth | `cJSON_Parse`, `cJSON_Delete` | any allocation fails, the text breaks off anywhere |

How they interact. An ADC half/full-transfer interrupt runs `fill_rows`, which
calls `motor_on_block_ready`: the block is framed with the ACK state of earlier
commands, the frame is armed or queued, and only then the pending command is
processed. The controller waits for data-ready, clocks one frame out and its
pending command in (one full-duplex exchange), observes the ACK bits and publishes
the rows. The command processor calls the setters of the acquisition, which only
store requests; the firmware main loop carries them out.

What makes each part correct: the transmitter never rewrites the buffer under the
DMA, never reorders or repeats a block and never keeps one for ever; a command is
applied whole or not at all, once, and reaches the hardware (which the code ensures
but for one race, section 3); an ACK means applied, and a pending command ends (which
the code ensures but for a resize and a stop); a file the loader accepts is one the board accepts;
every block is counted once and published in order, and an armed frame is read; the ADC buffer is split by
the number of rows it was started with; a snapshot or ring read is one whole
block; the monitor's counters add up; the last good configuration file is loaded;
whatever fails meanwhile, spi.conf is complete and keeps the lines of other tools, and
the driver, the bus and the pin are those of the configuration that runs (with the
exceptions of section 3); a speed is the shaft's or 0; a JSON text is
read as what it says and nothing is leaked or freed twice.

## 2. Modules

| module | models | kind |
|---|---|---|
| `MotorWire` | payload, command frame, frame header, range check of SET_CONFIG | shared definitions |
| `MotorSend` | transmitter and command processor; one action per interrupt handler | component, without a specification of its own |
| `MotorAcquire` | the whole board: the handlers of `MotorSend`, and `motor_acquire_service` one shared access per step between them | composition |
| `FrameChannel` | what the transmitter promises: numbered blocks, losses, no reordering, bounded age | abstract specification of the board's transmitter |
| `ConfigLink` | the controller's command transmitter and frame gate, composed with `MotorAcquire` | composition |
| `ShmRing` | block ring and monitor, one shared access per step | component |
| `Snapshot` | snapshot publish and read, one shared access per step | component |
| `AtomicSnapshot` | what the snapshot promises: a register written and read at once | abstract specification of `Snapshot` |
| `ConfigFile` | which stm tiers `config_load_file` can produce from a file | pure operators, used by `ConfigLink` |
| `ReceiveLoop` | data-ready wait, exchange and its failures, validation, sequence accounting, publication, composed with the handlers of `MotorSend`, without commands | composition |
| `SpiConf` | the lines of spi.conf and how they are rewritten | pure operators, used by `ConfigReload` |
| `ConfigReload` | the life of the controller process: load, spi.conf and spi-dwc, bus, pin, watch, reload, bus reset, death and restart | component |
| `Tachometer` | capture interrupt, age-out that preempts it, stop and start | component |
| `JsonParser` | parser and clean-up of `cJSON.c`, one allocation at a time | component |
| `JsonReading` | what its trees say, place by place, and the grammar of JSON as the least set closed under its rules | properties of `JsonParser`, for the proofs |
| `JsonText` | the same by the printer of `cJSON.c` and a grammar by recursive descent | properties of `JsonParser`, for TLC |
| `MC*` | payloads, command sets and files for TLC | instances |
| `MotorSendProofs` (the whole board), `ReceiveLoopProofs`, `ConfigLinkProofs` (with the loader), `SnapshotProofs`, `ShmRingProofs`, `ConfigReloadProofs`, `TachometerProofs`, `JsonParserProofs` | theorems | proofs |

### Correspondence with the code

*MotorSend.* `BlockReady(ok)` is `motor_on_block_ready` with the three cases the
code distinguishes (`IdleBlock`, `QueuedBlock`, `StalledBlock`, the last after
`tx_recover`) and the command processing at its end. `ok` is whether any of the
attempts in `arm_tx` succeeded. `TxRxCplt(rx, ok, abort)` is the completion
callback: `rx` is what the master left in the receive buffer, `NoCmd` when it does
not start with the command magic, and `abort` is the case in which
`HAL_SPI_DMAStop` raises the error callback at once, which discards the queued
block. All these handlers run at one interrupt priority (`dma_init`), so each is
one step. `process_pending_cmd` is a disjunction with one disjunct per verdict.
`dmaSeq` and `lastSent` are history variables. `dma` stands for what the hardware
is armed on, independently of the driver's own idea of it (`txIdx`). `prog` and `req`
are the acquisition as the handlers see it: what it runs, and the requests the setters
stored for it.

*MotorAcquire.* `pc` names the access of `motor_acquire_service` that comes next, `new`
holds its locals; the service reads a request, clears it and programs it in separate
steps, and every interrupt handler of `MotorSend` can run between any two of them.
`AcquireSpec` is the specification of the board, and all that is said of the
transmitter and the commands is checked and proved of it. `adcRows` is the size the
circular DMA was started with, 0 while the ADC is stopped. `unread` is history: the
fields of which a request was cleared without having been read, until a command changes
the field again. Starting the ADC and the timers is taken to succeed, as the code takes
it to (it ignores the results).

*ConfigLink.* An exchange is a `SpiDone` of the board of `MotorAcquire` joined with what the
controller does with the frame it read. Damage on the way to the board is a frame
with a wrong CRC or without magic, damage on the way back a frame the controller
drops. `Accepted` is the size gate; `CountAttempt` and `Observe` are
`cmd_count_attempt` and `cmd_observe`. `Reload` is a `handle_reload` that finds
another stm tier, `ReloadWire` one that finds only another wire tier, `Restart` a
new controller process. `outcome` and `ackedSeq` are history.

`Configs` is what the given `Files` can load; the controller starts with one of
them or, when its file is rejected, with `CONFIG_DEFAULTS` (`LoadsAtStart`).

*ConfigFile.* A file is one JSON value per field of the stm tier (absent, a number,
a word, something else), whether it parses and whether its pi tier passes. `Loads`
is the set of what can come out: none when the file is rejected, several when a
number does not fit the integer it is cast to, which the language leaves undefined
(the range check that follows still holds the result).

*ReceiveLoop.* `loop` is where the main loop stands: waiting for a pulse, about to
read the level after a timeout, or about to clock a frame. `Edge(heard)` is the
rising edge of data-ready, which the GPIO resource manager may miss; pulses queue in
the channel and can be older than the frame that is armed. `FrameLost` is what a
failed exchange or a read off the frame boundary does to the board: nothing when it
fails before the bus is clocked, else it ends the transfer like any other.
`FirstFrame`, `NextFrame` and `Duplicate` are the branches of the sequence
accounting; `acked` is whether `cmd_observe` saw an ACK in the frame, which drops the
baseline, and is free here because commands are in `ConfigLink`. `before`, `shown`,
`first` and `broken` are history. `BoardReset` is a reset of the STM32 alone.

*ShmRing, Snapshot.* A block or row is two words that hold its number; a mixed copy
is one whose words differ. Program order is kept on both sides, which is what the
fences in `motor_shm.h` establish. `Snapshot` is one life of the producer: a restart, whose
`motor_shm_region_init` (`motor_shm.h:85`) sets the lock back under a reader, is not in
it, and what it shows is claimed within one life only. `ShmRing` has restarts; there too
`BlockConsistent` and `NeverOlder` are claimed for the first life, `Accounted` for all.

*ConfigReload.* A version of the file stands for its modification time and size;
`Pi` gives the pi tier of each, `Good` the ones the loader accepts. `pc` names the
system call of `main`, `spi_apply_conf` or `handle_reload` that comes next, and every
action is one of them. A failure that the code tests for is a disjunct of its action, and
so are those it does not see: a comparison that cannot open spi.conf (`CompareConf`), a
rewrite that cannot open the existing file and starts from scratch (`FillTmp`), a driver
that survives slay (`Slay`), and a driver started in the background that never comes up,
for which `system` returns 0 all the same (`Respawn` with `DriverStaysAway`). Beside a
survivor either of the two may serve the bus, which counts as no failure of its own. `Die` is the end of the
process wherever it comes (`main` returning an error, a signal, `Stop`): the kernel
closes its descriptors, and what is on disk and the driver stay. `link` is the
`spi_link_t` of the loop and `fds` the table of `rpi_spi.c`, which are not the same: a
close that fails leaves a descriptor, and an exchange opens one without configuring
it. `device` is what the driver last configured a device with; a respawn forgets it.
spi.conf is a sequence of lines with a key and a value (`SpiConf`), with two of the four
keys; `ended` is whether its last line has its newline. A key that is appended behind an
unfinished line of another tool becomes the `tail` of that line and is not read as a
key. `boot` is history, the file at boot. `wanted`, `skipped`, `unbounced`, `repointed` and `raced` are
history and name the cases in which the properties say less.

*Tachometer.* The capture callback is three steps (test of `s_capture_seen`, the store
of `s_rpm` or of `s_capture_seen`, the two stamps); `FillRows` can run between any two,
as the DMA interrupt does over TIM4's. Time passes only between interrupts. A speed is
the period it was computed from. `quiet`, `period`, `stopped`, `across` and `torn` are
history.

*JsonParser.* A text is a sequence of tokens and is chosen one token at a time, so that
a run covers every text up to the bound. The heap is a function from addresses to
items and strings; `stack` holds the locals of the calls of `parse_array` and
`parse_object` in progress. White space is never a token: every place the code skips
it is part of `Advance`. `Reached` is the least set that is closed
under the links followed: `Deleted`, what `cJSON_Delete` frees, and `Siblings`, a list
from its first item on. `place` is history: for each item the tokens it was made of, from
its name to the end of its value, and the item whose list it is in. In *JsonText*,
`PrintValue` is the unformatted printer, `IsValue` the grammar; they share nothing with
the parser and are what it is compared with. *JsonReading* says the same without
recursion. `ReadsInPlace` relates every item of a finished tree to its place: a scalar is
the token that stands there, a list reaches from one bracket to the other, its first
element follows the one and its last precedes the other, neighbours are a comma apart, a
name and a colon precede a value in an object and only there. `IsJson` is the grammar as
the least set of phrases (a value, or the inside of an array or object, from one position
to another) that is closed under the rules of `IsPhrase`. TLC compares the two grammars
on every text of up to five marks and strings (`GrammarsAgree`).

## 3. Runs

Passing runs:

| run | shows |
|---|---|
| `MotorAcquire_transport` | the two buffers, DMA and data-ready agree (`Handshake`), the buffer in flight is intact (`InFlightIntact`), a pending block is the newest (`PendingIsNewest`), the watchdog is exact (`WatchdogExact`), the transmitter refines `FrameChannel` (`ImplementsChannel`), an abandoned transfer is torn down (`StallRecovered`) |
| `ConfigLink_lossy` | no damaged, stale or misattributed answer is taken for an ACK (`AckMeansApplied`); a pending command ends unless the controller is cut off for good: the board's block size left the acknowledged one, or the board carried out a stop (`SettlesUnlessCutOff`) |
| `ConfigLink_clean` | no command is rejected or given up when nothing is damaged (`CleanLinkDelivers`), over partial and rejected files, stalls, aborts, overwritten frames and a restart |
| `MotorAcquire_service` | with interrupts between any two accesses of the service: the DMA's split and the row count agree at every interrupt (`DmaMatchesRows`); what is acknowledged is what the hardware runs or will run, but for a field whose request was cleared unread (`ActiveReachesHardware`), and with the same exception it is programmed (`AcknowledgedLands`); commands are atomic (`AppliedOrNothing`) |
| `ShmRing_reads` | accepted copies are whole, from the right slot and not older than asked for (`BlockConsistent`, `NeverOlder`); the counters add up over laps and a restart (`Accounted`) |
| `Snapshot_reads` | within one life of the producer, an accepted copy is one whole row (`Consistent`) and the snapshot refines an atomic register (`ImplementsRegister`); a read returns although the producer may never pause, or stops at an odd lock (`ReadReturns`) |
| `ReceiveLoop_frames` | published, dropped and duplicate blocks add up to no more than the board produced, and to exactly the blocks since the first one while the baseline holds (`EveryBlockCountsOnce`); no reset is reported that was none (`NoFalseReset`); between two resets frames are published in order (`PublishedInOrder`); an armed frame is read or torn down also when its edge was missed and the ADC has stopped (`ArmedIsRead`) |
| `Tachometer_capture` | a stored speed is the true one, or that of a shaft so slow that the counter came round, and then not for longer than the age-out allows (`SpeedIsTrue`); a block composed after a quiet spell carries 0, but for the one preemption that `torn` names (`QuietReadsZero`) |
| `JsonParser_texts` | at every step every allocated item and string has exactly one owner, and a failed or released parse leaves none (`OneOwner`); the lists of a finished tree can be walked both ways (`ListsLinked`); every item of a finished tree says what stands in its place (`ReadsInPlace`); the tree prints as the text that was read (`ReadsTheText`, largely the same claim measured by an independent printer); a text is refused only if no JSON value begins with it (`RejectsOnlyBadText`) |
| `ConfigReload_life` | whenever the process dies spi.conf is complete, and has all lines of other tools or, after an existing file could not be opened, none of them (`ConfIsWhole`); unless a call failed or a controller died since the rename a driver runs with what spi.conf says, and in the loop that is the configuration of the start, also after reloads with other settings (`DriverRunsStartConf`); the bus that counts as configured is open and is the running configuration's (`LinkIsTrue`), the polled pin is the configured one and armed (`PinIsArmed`); again and again the file on disk is the one in force (`LoadedUnlessRaced`) |

Two runs end in a counterexample, a disagreement between the code and what its
comments say:

| run | what happens |
|---|---|
| `ConfigLink_wedge` | after a change of the row count, the only frame with CONFIG_APPLIED is assembled before the new size is programmed or is overwritten in the queue; frames of the new size fail the gate before the command is counted down, so it stays pending for ever (`motor_controller.c:374` says that it ends when its retries are gone) |
| `MotorAcquire_lost` | `motor_acquire_service` reads two requests and clears them later with interrupts enabled: a request that the next command stores in between is cleared unread, and the acknowledged rate or row count never reaches the hardware (`motor_acquire.h:44` says that the setters are safe to call from an interrupt and that their effects land on the next tick) |

Other behaviour met while modelling, on which no run is spent. The models show each of
these as a reachable state, and the properties above are stated so that they do not
claim the contrary.

On the board:

- When the ACK of a command is lost and its resend arrives damaged, the NACK bits go
  out with the number of the command that was applied, and the controller takes it
  for rejected.
- A frame with CONFIG_APPLIED can still have the old size; the main loop can stop the
  ADC before the ACK of the stop command was sent, and as no frame follows, the
  controller's command then stays pending for ever (`Stopped`).
- `HAL_SPI_ErrorCallback` tears a live transfer down where its comment says it drops
  the error.
- A capture that is preempted by the age-out after its test of `s_capture_seen` stores
  a speed with the flag clear, so nothing ages it out again: a stopped shaft keeps
  its last speed (`motor_acquire.c:103` says to report 0 rather than a stale reading).
  The first edge after a stop and a start is measured against one of the run before.
- The IMU is read at its default address even when the probe found it at the other
  one; and since `s_have_imu` is never cleared, an MPU that is reconnected while the
  board runs is not set up again (`motor_acquire.c:64` says it is picked up).

On the controller:

- A restarted controller numbers its commands from 1 again, and the board takes one
  with the number it applied last for a repeat: ACK without effect
  (`motor_wire.h:105` says of that bit that the last command was applied).
- `main` queues no command at start-up although its comment says so, and ends up
  ignoring SIGHUP.
- A version written between the load and the rebase of the watch is never loaded.
- A reload never rewrites spi.conf: the place where it would (`motor_controller.c:666`)
  is empty, while the comments (`motor_controller.c:614`, `662`, `config.h:74`) say that
  it rewrites the file and bounces the driver. A change of cpha, word width or idle insertion takes effect at
  the next start. `DriverRunsStartConf` holds through reloads because of that: what the
  driver has is what the controller started with.
- A key that is missing from spi.conf is appended behind a last line that may lack its
  newline (`config.c:430`, `438`): it is glued onto the line of another tool and cannot
  be read. The next start appends it once more, on a line of its own; the foreign line
  keeps its tail.
- An existing spi.conf that cannot be opened is taken for an absent one
  (`config.c:409-410` says "If it doesn't exist"): it is replaced by a new file with the
  controller's keys only.
- The results of slay and of the background start say nothing about the driver
  (`config.c:456`, `461`): an old driver may go on with its old settings, or none may
  run, and `spi_apply_conf` reports success.
- After the last failed reopen the message says that the bus stays down; the exchanges
  go on, and the first one opens the device without configuring it.
- `dataready_arm_pin` sets `dr->pin` before it can fail: after a repoint that failed the
  loop polls a pin whose edge is not armed, and the message names the wrong pin.
- When the controller dies between the rename of spi.conf and the respawn of spi-dwc,
  no later start bounces the driver, for nothing differs any more; if it dies between
  slay and respawn, no later start can open the bus.
- The first frame after a reset of the board is dropped as a duplicate when the last
  one published had number 0.
- A slot that was lapped before the copy begins is accepted as the position asked for;
  a restarted producer sets the seqlocks back under a copying reader
  (`BlockConsistent` and `NeverOlder` are stated for a region initialised once).
- `cJSON_Parse` does not look at what follows a complete value.

### Bounds

| bound | value | why it is enough |
|---|---|---|
| `MaxSeq`, `SeqMod` | 9 and 4096 for `MotorAcquire_transport`; 1 and 1 in the other runs of board and link | transport needs a few times the watchdog's budget of 3 blocks; the order of frames does not matter to commands, so elsewhere every block has number 0 |
| `StallBlocks` | 3, 2, 1 | 3 lets a stall, a queue overwrite and an error meet; 2 in `ConfigLink_clean` and `ConfigLink_wedge` queues frames and lets a stall overwrite them; with 1 (`MotorAcquire_service`, `MotorAcquire_lost`, `ConfigLink_lossy`) every block behind an unread frame tears it down and none is ever queued: neither commands nor the service read the queue, and in `ConfigLink_lossy` an answer to an earlier command still arrives late, in the frame that was armed before the new command was sent. The theorem `AcksAreTrue` holds for every `StallBlocks` |
| commands of the board's runs | `MotorAcquire_transport`: a foreign schema, an unknown opcode, a PING; `MotorAcquire_service`: two numbers, a change of every numeric field, a change back with a rate left alone and a stop, an unknown source; `MotorAcquire_lost`: a change and the change back | a repeat, an overlap of two changes of one field at every access of the service, a refusal out of range, a stop while requests wait. Damaged commands are in `ConfigLink_lossy` |
| `Retries` | 2 lossy and wedge, 5 clean | the code has 200 (`CMD_MAX_RETRIES`, `motor_controller.c:379`); 2 lets the budget run out, 5 is the least with which no command is given up on a clean link, and a larger budget can only do better |
| `MaxCmdSeq` | 2 | one command overtaken by another |
| `MaxRestarts`, `MaxReopens` | 0 or 1 | one restart or one refilled budget |
| `Files` | clean: four; lossy: three; wedge: two | clean: nothing but defaults, rows and rate, a rate below the loader's minimum, a source it refuses; lossy: defaults, another number of rows, a stop; wedge: defaults and another number of rows |
| `UintMax`, `IntMax` | 400000, 200000 | no number in the files comes near; the theorem covers the widths |
| receive loop: `MaxSeq` 3, `MissLimit` 2, `BadLimit` 2, `MaxResets` 1 | | three blocks before and after a reset, a miss too few and one enough, a failure and a reopen; 3 failures in the code, 2 keep the run short |
| ring `Depth` 2, `Tries` 2, `MaxBlocks` 5 | | two full laps and a retry that is used up |
| ring `PosMod`, `LockMod` 64 | | differences of positions are taken modulo as in the code; the locks do not come round within the bound, as 2^32 does not within a copy |
| snapshot `Tries` 3, `MaxFrames` 6, `LockMod` 64 | | every attempt of a read can be disturbed, twice |
| reload: `MaxEdits` 4, `Good` {1, 2, 4} | | a rejected version between good ones; from one to the next the mode, the pin, or bus, cpha and pin change |
| reload: three files at boot | | none; one with the line of another tool first and both keys, one of them outdated; one that lacks a key and whose last line, of another tool, lacks its newline |
| reload: `MaxTries` 2, `MaxErrors` 2, `MaxFaults` 2 | | a try that fails and the last one; an error and a reset (5 and 3 in the code); a failure met by a second one, or by a death, wherever each can come |
| tachometer: `Wrap` 3, `Stale` 7, `BlockGap` 2 | | the counter comes round twice before the age-out, three times in the code; an age-out can be late by a block and more |
| parser: `MaxTokens` 9, `NestLimit` 3, one string | | a list in a list with a sibling, an object in an object, each broken off at any token; one level less than the limit, the limit and one more (1000 in the code) |

`CHECK_DEADLOCK FALSE` appears once, in `JsonParser_texts`: there the parse is over. The
board never comes to rest: its main loop calls the service for ever, also when `MaxSeq`
has ended the producer or a stop was carried out.

### Fairness

- `MotorAcquire!FairAcquireSpec`: weak fairness of the service, one access after the
  other (the firmware main loop has no blocking call), and of `AdcBlock`, arming that
  fails included (the ADC's DMA is circular and timer driven, it keeps raising
  interrupts while it runs). Nothing is assumed of the master.
- `ConfigLink!FairLinkSpec`: weak fairness of the service as above and of blocks with
  arming that works, strong fairness of an undamaged exchange (the controller's loop
  repeats for ever; without some undamaged exchanges nothing can be promised).
- `Snapshot!FairSpec`: the reader that called keeps running; nothing is assumed of
  the producer.
- `ReceiveLoop!FairLoopSpec`: weak fairness of the loop, strong fairness of reading
  the level and of an exchange that succeeds (the resource managers answer for ever
  again; if no exchange succeeds nothing can be promised). Nothing is assumed of the
  board: its ADC may stop, so `ArmedIsRead` does not rest on a stall.
- `ConfigReload!Spec`: weak fairness of the steps of a start, a reload and a bus reset
  (the process runs), strong fairness of `Poll` (the clock reaches the next second
  between two exchanges). Nothing is assumed of the editor, of failures or of whoever
  starts the controller again.

## 4. Proofs

All theorems hold for every value of the constants that the named assumptions of
the modules allow (a command alphabet of well-formed frames, a boot configuration in
range, positive bounds). Besides those, the theorems about order assume that a counter
does not come round within the bound of the model, and state it: `NoWrap`
(`MaxSeq < SeqMod`) for the transmitter, `HalfRange` (`2 * MaxSeq < SeqMod`) for the
receive loop, which compares numbers by the sign of their difference, and `NoLap` for
the seqlocks of snapshot and ring (two increments a block, `2 * MaxBlocks < LockMod`) and
the ring's positions (`MaxBlocks < PosMod`). All these counters have 32 bits in the code,
and the bound is that of the model. What does not need them is proved without: the types
and the handshake also hold when the numbers wrap, and so does the monitor's account. The theorem
that a clean link delivers assumes `FiveTries` (`Retries >= 5`; five is the least budget
that suffices, the code's `CMD_MAX_RETRIES` is 200, `motor_controller.c:379`) and that the
link damages nothing. The theorem about ACKs assumes `OneRun` (`MaxRestarts = 0`): a restarted controller numbers its
commands from 1 again, and the board takes an old number for a duplicate.

| theorem | shows | argument |
|---|---|---|
| `TypeCorrect`, `HandshakeHolds`, `InFlightIsIntact` | types, data-ready and DMA, the buffer in flight | `LinkInv` is the conjunction of the three, kept by every handler and by the service: the buffer in flight is safe because the handshake ties `txIdx` to the DMA, and the handshake is kept because the frames have their types |
| `WatchdogIsExact`, `PendingStaysNewest` | stall counter, pending block | need `OrderInv`: the frame under the DMA, the pending frame and the number of the next block are in order, and their distance is the stall counter |
| `TransmitterIsChannel` | the board's transmitter refines `FrameChannel` | every handler is a step of the channel or a stutter, by `LinkInv` and `OrderInv`; the service is a stutter |
| `ActiveReaches` | `ActiveReachesHardware`, over the whole board with interrupts between any two accesses of the service | inductive together with `AcquireInv`: `ServiceWillBe` follows what will be programmed through every access of the service (the request, then its local, then the programmed value) and marks a field in `unread` where the clear throws away another value than the one read; `BlockReaches` adds the verdicts of a command |
| `CommandsAreAtomic` | `AppliedOrNothing` | by cases over the verdicts: all but one leave configuration and requests alone |
| `AcquireInvariant`, `AcquireTypeCorrect`, `DmaAlwaysMatches` | the service against interrupts | `ServiceInv` says what holds at each access of the service (the ADC is stopped while it is reprogrammed); interrupts keep it because they program nothing, and keep `LinkInv` by the lemmas of the transmitter |
| `SnapshotInvariant`, `ReadsAreConsistent` | accepted copies are whole | `ProducerInv` fixes lock and words by the producer's position; `ReaderInv` says that a copy whose lock is still the current one holds the current words |
| `SnapshotIsRegister` | `Snapshot` refines `AtomicSnapshot` | the commit is the write, the accepting check is the read |
| `LoopTypeCorrect` | types of controller and board together | the board's steps keep `LinkInv`, cited from `MotorSendProofs`; a reset of the board establishes it anew |
| `EveryBlockCounts`, `NoResetIsInvented`, `PublishedGoesForward` | counts and order of the receive loop | every exchange ends the transfer in flight, whose number is later than all before (`Delivered`), so a step back needs a reset in between; `CountInv` bounds what was counted by the baseline, or by the last frame clocked out when there is none; behind a reset, and until the next publication (`Stepped`), only a frame with exactly the number of the baseline counts as a duplicate, which can be once |
| `RingInvariant`, `BlocksAreWhole`, `BlocksAreNotOld` | copies the monitor accepts | in one life of the producer a seqlock only grows, so the one value before and after the copy means that no store fell in between (`CopyInv`); below the producer's position each word of a slot is of that slot and of its newest lap or a newer one (`WordInv`) |
| `EveryPositionCounts` | the monitor's counts | inductive by itself, as arithmetic of remainders; holds over restarts |
| `TypesAreKept`, `PinIsInLine` | types; the polled pin | inductive; before the loop the pin is that of `cfg`, while a reload is under way that of `cfg` or `next`, by the position in `handle_reload` |
| `LinkIsInLine` | the configured bus | the invariant follows `link`, `fds` and `device` through close, reopen and reset; what counts as configured is closed before anything else is opened, also when the configuration has moved to another bus |
| `DriverIsInLine` | a driver runs with what spi.conf says, unless a call failed or a controller died since the rename; in the loop spi.conf reads as the configuration of the start | `ConfInv` says by position in the start-up what has been renamed and who has read it; that a driver that survives slay, or none at all, needs a failed call is part of it. `RewrittenReads`: for any lines at all the rewritten ones read back as wanted, but for the key that was glued onto an unfinished foreign line |
| `ConfStaysWhole` | spi.conf is never partial, has every line of other tools or, after a failed call, none, and no key in it has an older value | the file changes at the rename only, to what was made of the old file or of none. `Descends` says that foreign lines are the same by position, but for a last one that was unfinished and got a tail; `RewriteDescends` shows it of one rewrite, `DescendsChain` that it chains over any number of them back to the file at boot |
| `SpeedStaysTrue`, `QuietShaftReadsZero` | the reported speed | `CounterInv`: within one turn the counter is the last edge plus the time since; `LateInv`: an edge still measured against is no older than the age-out and a block; `ZeroInv`: a speed nothing will age out comes from a preempted capture |
| `AcksAreTrue` | an ACK means applied | one controller's numbers grow, so a positive answer under way never names a command later than the last one applied, and the board is never ahead of the controller; needs `OneRun` |
| `FiveTriesDeliver` | on an undamaged link the answer comes back in time | `Needed` counts the exchanges it can still take: one for a frame in flight, one for a frame queued behind it, one for a slot taken by an earlier command; no step of the board raises it, every exchange whose frame does not answer lowers it, and it is never more than five, which is why a budget of five is enough (the code has 200). `BoardInv` adds that nothing is queued while a command waits. With four attempts TLC finds a command given up. Holds over restarts |
| `ParserTypeCorrect` | types, addresses and depth of the parser | `RoomInv`: every token read has taken at most two addresses, so a fresh one is always left within the bound, and none is taken behind the end of the text |
| `NothingLostOrShared` | the memory of the parser, whichever allocation fails | `OwnInv` sees every link, head of a list under construction and the caller as one function of references, which is one to one onto what is allocated (`Owned`). Each step is one of three changes, with a lemma each: a fresh address is put where nothing was, an address changes hands, an owner lets go of an item with all that it leads to. That nothing was there is `StackInv`: the calls in progress work on the last item of the list outside and have not attached their own. That nothing is left in the end follows because links lead to later addresses (`HeapInv`): the first one not freed would have an owner that was |
| `ListsStayLinked` | the lists of a finished tree, whatever the text | `ListsInv`: links point back in every closed list and in every list under construction, and a tail is reached from its head. What is reached stays reached when links are added (`ReachKept`), and an item is only ever appended to the `current` of a call in progress, which is the tail of no closed list. That closing one list changes the `prev` of no other one is `OwnInv`: the head belongs to the call alone |
| `TreeSaysText` | the tree of every accepted text says what was read | `PlaceInv` adds to the memory invariant where the items lie. `OpenInv`: an item has no end yet exactly if it is the one at work or a call in progress is at its list, so nothing behind the current token was ever taken for part of a value. `ParentsInv` ties each item to the bracket in front of its list, `NextInv` each pair of neighbours to the comma between them, and `AtInv` says for each program counter where the current token stands. That the places of a list follow each other without a gap up to the closing bracket is `ListPlace`; its part on the last element needs `FramePlace`, which keeps for a list under construction that only `current` has no successor. With `ListsStayLinked` the tail of the list is that element |
| `AcceptsOnlyJson` | what is accepted is JSON | `ItemReads` and `ListReads`: in any set closed under the rules, every item of the finished tree is a value at its place, and every list up to each of its elements. It is shown by induction from the last address down, as links lead to later addresses, and within a list along its elements; the root is the whole text |
| `RefusesOnlyBadText` | what is refused is no JSON, nor is anything that begins with it | `Fits` are the phrases that what was read leaves possible: one that begins at an item is that item's value, complete and ending where it does. It is closed under the rules whenever the parser refuses (`ValuesFit`, `ListsFit`), because a list can only go on or end where the parser went on or ended (`Behind`) and the token at which it refuses continues nothing; so it has all phrases of any continuation, and the whole text is not among them, for its root item is not complete. The texts too deep or out of memory are excepted by `deep` and `oom`, which only those failures set |
| `LoadedIsInRange` | what the loader accepts, the board accepts | one lemma per field; the cast contributes nothing outside the range |

Only model-checked: `ReadsTheText` and `RejectsOnlyBadText`, whose references, the printer
and the grammar, are recursive, which the prover does not handle; the three theorems above
are their counterparts without recursion. That the two forms agree is checked by TLC on
bounded texts, not proved. Also only model-checked: every liveness property (fairness and
ENABLED are outside what the prover handles).

## 5. Not modelled

Peripheral set-up, clocks, LEDs and delays (no state that the link depends on); the
arithmetic of `compute_psc_arr`; the I2C transfers of the IMU and its re-probe; the
bytes of frames and their CRC polynomial (a CRC is the fact that it matches); 16-bit
wrap of command numbers (65536 reloads in one controller run); the encoding of the
messages to the GPIO manager, and the calls of `rpi_spi.c` and `rpi_gpio.c` that the
controller never makes (PWM, pull-ups, DMA); the pi tier of the configuration file
field by field, and its bounds against the tables of those two files; of `cJSON.c`
string escapes and UTF-16, the conversion of numbers, the growth of the print buffer,
and the editing, comparing and minifying of trees, none of which the loader uses; row
timestamps; the bench tools. Races with an interrupt of higher priority than the
handlers above (SysTick) change no state kept here.

## 6. Plan

The order of work was: transmitter and command processor, their composition with the
controller, the deferred service, shared memory, the receive loop, the loader, the
tachometer, the controller's start-up and reload, the parser. What is next:

1. The IMU: its transfer against the composer of rows, the probe at two addresses and
   the re-probe.
2. `compute_psc_arr` as an operator checked against its definition, and the bounds of
   the pi tier against the tables of `rpi_spi.c` and `rpi_gpio.c`.
