------------------------------- MODULE ShmRing -------------------------------
(***************************************************************************)
(* The block ring of the shared-memory region (motor_shm.h) between the    *)
(* controller, its only producer, and the monitor (motor_monitor.c), one   *)
(* of its consumers.  Every access to shared memory is a step of its own;  *)
(* the fences of motor_shm.h keep them in program order on both sides.     *)
(*                                                                         *)
(* The words of a block are reduced to two: when both hold the number of   *)
(* one block, the copy is that block.  A crash of the producer keeps the   *)
(* region; the next producer initialises it again under the consumers.     *)
(***************************************************************************)
EXTENDS Integers

CONSTANTS
  Depth,        \* MOTOR_RING_DEPTH
  Tries,        \* attempts of motor_ring_read_slot, 64 in the code
  PosMod,       \* positions and counters are taken modulo this, 2^64 in the code
  LockMod,      \* a slot's seqlock is taken modulo this, 2^32 in the code
  MaxBlocks,    \* bound on the blocks published
  MaxRestarts   \* bound on the crashes of the producer

ASSUME DepthAssumption == Depth \in Nat \ {0}
ASSUME TriesAssumption == Tries \in Nat \ {0}
ASSUME ModAssumption   == PosMod \in Nat \ {0} /\ LockMod \in Nat \ {0}
ASSUME RingBoundsAssumption == MaxBlocks \in Nat /\ MaxRestarts \in Nat

VARIABLES
  writePos,   \* ring->write_pos
  lock,       \* slots[i].seq
  word,       \* slots[i], its two words
  wPc,        \* the access of motor_ring_publish that comes next
  block,      \* number of the block being published, counted over all restarts
  restarts,   \* crashes so far
  mPc,        \* the access of the monitor that comes next
  wp,         \* the monitor's copy of write_pos
  readPos,    \* read_pos
  seen,       \* blocks_seen
  drops,      \* drops
  s1,         \* motor_ring_read_slot: the first load of the seqlock
  out,        \* the copy
  tries       \* attempts so far

shared == <<writePos, lock, word>>
writer == <<wPc, block, restarts>>
copier == <<s1, out, tries>>
monitor == <<mPc, wp, readPos, seen, drops, copier>>
vars == <<shared, writer, monitor>>

Slots == 0..(Depth - 1)
None  == -1      \* what a slot holds before the first block

Init ==
  /\ writePos = 0 /\ lock = [i \in Slots |-> 0]
  /\ word = [i \in Slots |-> [a |-> None, b |-> None]]
  /\ wPc = "idle" /\ block = 0 /\ restarts = 0
  /\ mPc = "idle" /\ wp = 0 /\ readPos = 0 /\ seen = 0 /\ drops = 0
  /\ s1 = 0 /\ out = [a |-> None, b |-> None] /\ tries = 0
-----------------------------------------------------------------------------
(* motor_ring_publish; write_pos and the lock are only written here, so the *)
(* producer's own copies of them stay equal to them.                        *)

Target == writePos % Depth
Bump == lock' = [lock EXCEPT ![Target] = (@ + 1) % LockMod]

Writer(here, there) ==
  /\ wPc = here /\ wPc' = there
  /\ UNCHANGED <<restarts, monitor>>

OpenSlot ==
  /\ block < MaxBlocks
  /\ Writer("idle", "wordA") /\ Bump
  /\ UNCHANGED <<writePos, word, block>>

StoreA ==
  /\ Writer("wordA", "wordB")
  /\ word' = [word EXCEPT ![Target].a = block]
  /\ UNCHANGED <<writePos, lock, block>>

StoreB ==
  /\ Writer("wordB", "commit")
  /\ word' = [word EXCEPT ![Target].b = block]
  /\ UNCHANGED <<writePos, lock, block>>

CommitSlot ==
  /\ Writer("commit", "publish") /\ Bump
  /\ UNCHANGED <<writePos, word, block>>

Publish ==
  /\ Writer("publish", "idle")
  /\ writePos' = (writePos + 1) % PosMod /\ block' = block + 1
  /\ UNCHANGED <<lock, word>>

\* The producer dies anywhere in a publication; shm_setup of the next one maps the
\* same object and runs motor_shm_region_init on it, which leaves the blocks alone.
Restart ==
  /\ restarts < MaxRestarts
  /\ restarts' = restarts + 1 /\ wPc' = "idle"
  /\ block' = IF wPc = "idle" THEN block ELSE block + 1
  /\ writePos' = 0 /\ lock' = [i \in Slots |-> 0]
  /\ UNCHANGED <<word, monitor>>
-----------------------------------------------------------------------------
(* The monitor's loop *)

Source == readPos % Depth
Behind == (wp' - readPos) % PosMod

\* mutant: a lapped monitor counts the blocks that are still in the ring as dropped
CountAllBehind ==
  /\ mPc = "idle" /\ mPc' = "drain"
  /\ wp' = writePos
  /\ IF Behind > Depth
       THEN /\ drops' = (drops + Behind) % PosMod
            /\ readPos' = (wp' - Depth) % PosMod
       ELSE UNCHANGED <<drops, readPos>>
  /\ UNCHANGED <<seen, copier, shared, writer>>

\* motor_ring_write_pos with acquire; a monitor that was lapped skips ahead.
LoadWritePos ==
  /\ mPc = "idle" /\ mPc' = "drain"
  /\ wp' = writePos
  /\ IF Behind > Depth
       THEN /\ drops' = (drops + Behind - Depth) % PosMod
            /\ readPos' = (wp' - Depth) % PosMod
       ELSE UNCHANGED <<drops, readPos>>
  /\ UNCHANGED <<seen, copier, shared, writer>>

\* mutant: reads one position past the last published one
DrainTooFar ==
  /\ mPc = "drain"
  /\ mPc' = IF readPos <= wp THEN "lock" ELSE "idle"
  /\ tries' = 0
  /\ UNCHANGED <<wp, readPos, seen, drops, s1, out, shared, writer>>

Drain ==
  /\ mPc = "drain"
  /\ mPc' = IF readPos < wp THEN "lock" ELSE "idle"
  /\ tries' = 0
  /\ UNCHANGED <<wp, readPos, seen, drops, s1, out, shared, writer>>

\* motor_ring_read_slot gives up, and the block counts as dropped.
Retry ==
  /\ tries' = tries + 1
  /\ IF tries' < Tries
       THEN mPc' = "lock" /\ UNCHANGED <<readPos, drops>>
       ELSE /\ mPc' = "drain"
            /\ readPos' = (readPos + 1) % PosMod /\ drops' = (drops + 1) % PosMod
  /\ UNCHANGED <<wp, seen, s1, out, shared, writer>>

LoadLock ==
  /\ mPc = "lock" /\ lock[Source] % 2 = 0
  /\ mPc' = "copyA" /\ s1' = lock[Source]
  /\ UNCHANGED <<wp, readPos, seen, drops, out, tries, shared, writer>>

WriteInProgress == mPc = "lock" /\ lock[Source] % 2 = 1 /\ Retry

CopyA ==
  /\ mPc = "copyA" /\ mPc' = "copyB"
  /\ out' = [out EXCEPT !.a = word[Source].a]
  /\ UNCHANGED <<wp, readPos, seen, drops, s1, tries, shared, writer>>

CopyB ==
  /\ mPc = "copyB" /\ mPc' = "check"
  /\ out' = [out EXCEPT !.b = word[Source].b]
  /\ UNCHANGED <<wp, readPos, seen, drops, s1, tries, shared, writer>>

OnlyEven == lock[Source] % 2 = 0   \* mutant: looks at the parity alone
Unchanged == lock[Source] = s1

Accept ==
  /\ mPc = "check" /\ Unchanged
  /\ mPc' = "drain"
  /\ readPos' = (readPos + 1) % PosMod /\ seen' = (seen + 1) % PosMod
  /\ UNCHANGED <<wp, drops, copier, shared, writer>>

Overwritten == mPc = "check" /\ ~Unchanged /\ Retry

Next ==
  \/ OpenSlot \/ StoreA \/ StoreB \/ CommitSlot \/ Publish \/ Restart
  \/ LoadWritePos \/ Drain \/ LoadLock \/ WriteInProgress
  \/ CopyA \/ CopyB \/ Accept \/ Overwritten

Spec == Init /\ [][Next]_vars
-----------------------------------------------------------------------------
(* Properties *)

Accepts == mPc = "check" /\ Unchanged

\* A copy that the seqlock check lets through was not overwritten while it was
\* made: all of it comes from one block.  A restart of the producer, which sets the
\* seqlocks back under the readers, breaks this.
BlockConsistent == restarts = 0 /\ Accepts => out.a = out.b

\* An accepted copy is never older than the position asked for, and never a block
\* of another slot: a position below write_pos is completely written.  It can be a
\* whole number of laps newer, since the seqlock says nothing about the position.
NeverOlder ==
  restarts = 0 /\ Accepts => out.a >= readPos /\ (out.a - readPos) % Depth = 0

\* Every position counts once, as seen or as dropped, over skips, retries and
\* positions that a restart sets back.
Accounted == (seen + drops) % PosMod = readPos
=============================================================================
