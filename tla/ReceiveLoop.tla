----------------------------- MODULE ReceiveLoop -----------------------------
(***************************************************************************)
(* The receive path of motor_controller.c against the board of MotorSend:  *)
(* wait for a data-ready edge or fall back to the level, clock one frame,  *)
(* validate it, account for its sequence number, publish it.               *)
(*                                                                         *)
(* An edge of the data-ready line is a pulse in the controller's channel;  *)
(* edges can be missed and pulses can be stale.  Exchanges can fail, can   *)
(* miss the frame boundary, and can return a damaged frame; the board can  *)
(* be reset.  Commands and the size gate are in ConfigLink.                *)
(***************************************************************************)
EXTENDS MotorSend

CONSTANTS
  MissLimit,    \* DR_MISS_LIMIT
  BadLimit,     \* failed exchanges before the bus is reopened, 3 in the code
  MaxResets     \* bound on the resets of the board

ASSUME LimitsAssumption ==
  MissLimit \in Nat \ {0} /\ BadLimit \in Nat \ {0} /\ MaxResets \in Nat

VARIABLES
  loop,       \* what the loop does next
  pulses,     \* pulses queued in the channel
  misses,     \* dataready_wait's consecutive timeouts, up to MissLimit
  bad,        \* bad_read_count
  haveLast,   \* have_last
  lastSeq,    \* last_seq
  ok,         \* st.frames_ok
  drops,      \* st.seq_drops
  dups,       \* st.duplicates
  backs,      \* st.resets
  resets,     \* board resets so far
  before,     \* history: blocks produced before the last board reset
  shown,      \* history: seq of the last frame published since, -1 if none
  first,      \* history: seq of the first frame published, -1 if none
  broken      \* history: whether a baseline was ever dropped or the board reset

waitVars  == <<loop, pulses, misses>>
countVars == <<haveLast, lastSeq, ok, drops, dups, backs>>
history   == <<resets, before, shown, first, broken>>
loopVars  == <<vars, waitVars, bad, countVars, history>>

LoopInit ==
  /\ Init
  /\ loop = "wait" /\ pulses = 0 /\ misses = 0 /\ bad = 0
  /\ haveLast = FALSE /\ lastSeq = 0 /\ ok = 0 /\ drops = 0 /\ dups = 0 /\ backs = 0
  /\ resets = 0 /\ before = 0 /\ shown = -1 /\ first = -1 /\ broken = FALSE
-----------------------------------------------------------------------------
(* The board, seen from the data-ready line *)

\* Arming a frame raises data-ready, on which the resource manager sends a pulse
\* unless it misses the edge; arming again after a stall or a completion is an
\* edge of its own, since both lower the line first.
Edge(heard) ==
  pulses' = IF dr' /\ dmaSeq' # dmaSeq /\ heard THEN pulses + 1 ELSE pulses

BoardStep(heard) ==
  /\ \E armed \in BOOLEAN : BlockReady(armed)
     \/ ErrorCallback
  /\ Edge(heard)
  /\ UNCHANGED <<loop, misses, bad, countVars, history>>

\* A reset of the board: nothing is armed, and the numbers start at 0 again.
BoardReset ==
  /\ resets < MaxResets
  /\ resets' = resets + 1
  /\ seq' = 0 /\ frame' = [i \in 0..1 |-> BlankFrame]
  /\ txIdx' = -1 /\ pending' = FALSE /\ inflight' = 0 /\ dr' = FALSE /\ dma' = -1
  /\ dmaSeq' = -1 /\ lastSent' = -1
  /\ before' = before + seq /\ shown' = -1 /\ broken' = TRUE
  /\ UNCHANGED <<cmdSlot, ackVars, req, prog, waitVars, bad, countVars, first>>
-----------------------------------------------------------------------------
(* dataready_wait *)

BoardIdle == UNCHANGED vars

TakePulse ==
  /\ loop = "wait" /\ pulses > 0
  /\ loop' = "exchange" /\ pulses' = pulses - 1 /\ misses' = 0
  /\ BoardIdle /\ UNCHANGED <<bad, countVars, history>>

\* No pulse within 250 us; the line may change before its level is read.
Timeout ==
  /\ loop = "wait" /\ pulses = 0
  /\ loop' = "level"
  /\ misses' = IF misses < MissLimit THEN misses + 1 ELSE misses
  /\ BoardIdle /\ UNCHANGED <<pulses, bad, countVars, history>>

NeverFallsBack == FALSE   \* mutant
FallsBack == misses >= MissLimit

\* The level; one that cannot be read counts as low, which is WaitAgain.
LevelHigh == dr

\* The level counts after MissLimit timeouts in a row.
TakeLevel ==
  /\ loop = "level" /\ FallsBack /\ LevelHigh
  /\ loop' = "exchange" /\ misses' = 0
  /\ BoardIdle /\ UNCHANGED <<pulses, bad, countVars, history>>

WaitAgain ==
  /\ loop = "level"
  /\ loop' = "wait"
  /\ BoardIdle /\ UNCHANGED <<pulses, misses, bad, countVars, history>>
-----------------------------------------------------------------------------
(* The exchange and what the loop makes of its result *)

DropBaseline ==
  /\ haveLast' = FALSE /\ broken' = (broken \/ haveLast)
  /\ UNCHANGED <<lastSeq, ok, drops, dups, backs, resets, before, shown, first>>

\* What a failed exchange, or a read off the frame boundary, does to the board:
\* nothing when it fails before the bus is clocked, else it ends the transfer.
FrameLost(armed, abort, heard) ==
  \/ BoardIdle /\ UNCHANGED pulses
  \/ TxRxCplt(NoCmd, armed, abort) /\ Edge(heard)

NeverReopens ==   \* mutant
  bad' = bad + 1 /\ UNCHANGED <<countVars, history>>

\* Every BadLimit-th failure in a row closes and opens the bus, which may fail.
CountFailure ==
  IF bad + 1 >= BadLimit
    THEN bad' = 0 /\ DropBaseline
    ELSE bad' = bad + 1 /\ UNCHANGED <<countVars, history>>

\* A failure that a signal explains is not counted.
Interrupted == UNCHANGED <<bad, countVars, history>>

ExchangeFails(armed, abort, heard) ==
  /\ loop = "exchange" /\ loop' = "wait"
  /\ FrameLost(armed, abort, heard)
  /\ CountFailure \/ Interrupted
  /\ UNCHANGED misses

\* A frame that fails its magic, version, size or CRC drops the baseline.
InvalidFrame(armed, abort, heard) ==
  /\ loop = "exchange" /\ loop' = "wait"
  /\ FrameLost(armed, abort, heard)
  /\ bad' = 0 /\ DropBaseline
  /\ UNCHANGED misses

SeqDiffSwapped(s, last) == last - s   \* mutant

\* The signed difference of two sequence numbers.
SeqDiff(s, last) ==
  LET d == (s - last) % SeqMod IN IF 2 * d < SeqMod THEN d ELSE d - SeqMod

CountWholeGap(s) == SeqDiff(s, lastSeq)   \* mutant
Missing(s) == IF SeqDiff(s, lastSeq) > 1 THEN SeqDiff(s, lastSeq) - 1 ELSE 0

PublishFrame(s) ==
  /\ ok' = ok + 1 /\ lastSeq' = s /\ haveLast' = TRUE
  /\ shown' = s /\ first' = IF first = -1 THEN s ELSE first
  /\ UNCHANGED <<dups, resets, before>>

\* The first frame after a dropped baseline; the ACK of a command drops it too.
FirstFrame(s, acked) ==
  /\ ~haveLast \/ acked
  /\ broken' = (broken \/ haveLast)
  /\ UNCHANGED <<drops, backs>>
  /\ PublishFrame(s)

\* A gap counts the blocks in it; a step back is a reset of the board.
NextFrame(s, acked) ==
  /\ haveLast /\ ~acked /\ SeqDiff(s, lastSeq) # 0
  /\ drops' = drops + Missing(s)
  /\ backs' = IF SeqDiff(s, lastSeq) < 0 THEN backs + 1 ELSE backs
  /\ UNCHANGED broken
  /\ PublishFrame(s)

Duplicate(s, acked) ==
  /\ haveLast /\ ~acked /\ SeqDiff(s, lastSeq) = 0
  /\ dups' = dups + 1
  /\ UNCHANGED <<haveLast, lastSeq, ok, drops, backs, history>>

ValidFrame(armed, abort, heard, acked) ==
  /\ loop = "exchange" /\ loop' = "wait"
  /\ TxRxCplt(NoCmd, armed, abort) /\ Edge(heard)
  /\ bad' = 0
  /\ LET s == frame[dma].seq
     IN FirstFrame(s, acked) \/ NextFrame(s, acked) \/ Duplicate(s, acked)
  /\ UNCHANGED misses

\* A reload that changes the wire parameters reopens the bus.
ReopenBus ==
  /\ loop = "wait"
  /\ DropBaseline
  /\ BoardIdle /\ UNCHANGED <<waitVars, bad>>

Loop ==
  \/ TakePulse \/ Timeout \/ TakeLevel \/ WaitAgain
  \/ \E armed, abort, heard \in BOOLEAN :
       \/ ExchangeFails(armed, abort, heard) \/ InvalidFrame(armed, abort, heard)
       \/ \E acked \in BOOLEAN : ValidFrame(armed, abort, heard, acked)

LoopNext ==
  \/ Loop
  \/ ReopenBus
  \/ \E heard \in BOOLEAN : BoardStep(heard)
  \/ BoardReset

LoopSpec == LoopInit /\ [][LoopNext]_loopVars

\* The loop keeps running, the level can be read and exchanges with an armed board
\* succeed infinitely often.  Nothing is assumed of the board: its ADC may stop.
FairLoopSpec ==
  /\ LoopSpec
  /\ WF_loopVars(Loop)
  /\ SF_loopVars(TakeLevel)
  /\ SF_loopVars(\E armed, abort, heard, acked \in BOOLEAN :
                   ValidFrame(armed, abort, heard, acked))
-----------------------------------------------------------------------------
(* Properties *)

LoopTypeOK ==
  /\ TypeOK
  /\ loop \in {"wait", "level", "exchange"} /\ pulses \in Nat
  /\ misses \in 0..MissLimit /\ bad \in 0..(BadLimit - 1)
  /\ haveLast \in BOOLEAN /\ {lastSeq, ok, drops, dups, backs, before} \subseteq Nat
  /\ resets \in 0..MaxResets /\ {shown, first} \subseteq Nat \cup {-1}
  /\ broken \in BOOLEAN

\* No block is counted twice, as published, dropped or duplicate, over damaged
\* frames, dropped baselines and resets of the board; and while the baseline holds
\* every block from the first published one on is counted.
EveryBlockCountsOnce ==
  /\ ok + drops + dups <= before + seq
  /\ ~broken /\ ok > 0 => ok + drops = lastSeq - first + 1

\* The controller reports no more resets than the board had: no stall, missed edge,
\* reopened bus or damaged frame makes the numbers seem to step back.
NoFalseReset == backs <= resets

\* Between two resets of the board what is published goes forward: no missed edge,
\* stale pulse, stall or damaged frame makes the controller publish a block again
\* or behind a newer one.
PublishedInOrder == [][ok' # ok => shown' > shown]_loopVars

\* A frame that is armed is clocked out or torn down, also when its edge was missed
\* and the ADC has stopped: the level takes over.
ArmedIsRead == \A s \in 0..(MaxSeq - 1) : (dmaSeq = s) ~> (dmaSeq # s)
=============================================================================
