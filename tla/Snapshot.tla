------------------------------ MODULE Snapshot ------------------------------
(***************************************************************************)
(* The seqlock snapshot of motor_shm.h: one producer that never waits, a   *)
(* dashboard that copies the latest row and retries when the producer got  *)
(* in between.  Every access to shared memory is a step; the fences keep   *)
(* them in program order.  Row, frame number, timestamp and flags are      *)
(* reduced to two words, both holding the number of the frame.             *)
(*                                                                         *)
(* This is one life of the producer.  A restart sets the lock back         *)
(* (motor_shm_region_init), also under a reader, and is not modelled.      *)
(***************************************************************************)
EXTENDS Integers

CONSTANTS
  Tries,       \* attempts of motor_snapshot_read, 64 in the code
  LockMod,     \* the seqlock wraps at this, 2^32 in the code
  MaxFrames    \* bound on the frames published

ASSUME SnapTriesAssumption == Tries \in Nat \ {0}
ASSUME LockModAssumption == LockMod \in Nat \ {0}
ASSUME MaxFramesAssumption == MaxFrames \in Nat

VARIABLES
  lock,        \* s->seqlock
  a, b,        \* the two words of the snapshot
  wPc,         \* the access of motor_snapshot_publish that comes next
  published,   \* history: number of the frame last committed, 0 before any
  rPc,         \* the access of motor_snapshot_read that comes next
  s1,          \* its first load of the seqlock
  outA, outB,  \* its copy
  tries,       \* attempts so far
  shown        \* the caller's last good frame

producerVars == <<lock, a, b, wPc, published>>
readerVars   == <<rPc, s1, outA, outB, tries, shown>>
vars == <<producerVars, readerVars>>

Init ==
  /\ lock = 0 /\ a = 0 /\ b = 0 /\ wPc = "idle" /\ published = 0
  /\ rPc = "idle" /\ s1 = 0 /\ outA = 0 /\ outB = 0 /\ tries = 0 /\ shown = 0
-----------------------------------------------------------------------------
(* motor_snapshot_publish *)

StayEven == UNCHANGED lock   \* mutant
Bump == lock' = (lock + 1) % LockMod

Open ==
  /\ wPc = "idle" /\ published < MaxFrames
  /\ wPc' = "storeA" /\ Bump
  /\ UNCHANGED <<a, b, published, readerVars>>

StoreA ==
  /\ wPc = "storeA" /\ wPc' = "storeB"
  /\ a' = published + 1
  /\ UNCHANGED <<lock, b, published, readerVars>>

StoreB ==
  /\ wPc = "storeB" /\ wPc' = "commit"
  /\ b' = published + 1
  /\ UNCHANGED <<lock, a, published, readerVars>>

Commit ==
  /\ wPc = "commit" /\ wPc' = "idle"
  /\ Bump /\ published' = published + 1
  /\ UNCHANGED <<a, b, readerVars>>
-----------------------------------------------------------------------------
(* motor_snapshot_read *)

Call ==
  /\ rPc = "idle" /\ rPc' = "lock" /\ tries' = 0
  /\ UNCHANGED <<s1, outA, outB, shown, producerVars>>

\* mutant: attempts that are not counted
RetryForever ==
  /\ rPc' = "lock"
  /\ UNCHANGED <<s1, outA, outB, tries, shown, producerVars>>

\* An attempt that failed; after the last one the caller keeps what it has.
Retry ==
  /\ tries' = tries + 1
  /\ rPc' = IF tries' < Tries THEN "lock" ELSE "idle"
  /\ UNCHANGED <<s1, outA, outB, shown, producerVars>>

LoadLock ==
  /\ rPc = "lock" /\ lock % 2 = 0
  /\ rPc' = "copyA" /\ s1' = lock
  /\ UNCHANGED <<outA, outB, tries, shown, producerVars>>

Odd == rPc = "lock" /\ lock % 2 = 1 /\ Retry

CopyA ==
  /\ rPc = "copyA" /\ rPc' = "copyB" /\ outA' = a
  /\ UNCHANGED <<s1, outB, tries, shown, producerVars>>

CopyB ==
  /\ rPc = "copyB" /\ rPc' = "check" /\ outB' = b
  /\ UNCHANGED <<s1, outA, tries, shown, producerVars>>

NoRecheck == lock % 2 = 0   \* mutant: the second load is not compared with s1
Unchanged == lock = s1

Accept ==
  /\ rPc = "check" /\ Unchanged
  /\ rPc' = "idle" /\ shown' = outA
  /\ UNCHANGED <<s1, outA, outB, tries, producerVars>>

Moved == rPc = "check" /\ ~Unchanged /\ Retry

Next ==
  \/ Open \/ StoreA \/ StoreB \/ Commit
  \/ Call \/ LoadLock \/ Odd \/ CopyA \/ CopyB \/ Accept \/ Moved

Spec == Init /\ [][Next]_vars

\* The dashboard that called motor_snapshot_read keeps running.
FairSpec == Spec /\ WF_vars(LoadLock \/ Odd \/ CopyA \/ CopyB \/ Accept \/ Moved)
-----------------------------------------------------------------------------
(* Properties *)

\* What motor_snapshot_read returns is one frame: no word is from another one.
Consistent == rPc = "check" /\ Unchanged => outA = outB

\* The snapshot is an atomic register: what a read returns is the frame that is
\* the newest one at the moment it returns, so a dashboard never goes back.
Register == INSTANCE AtomicSnapshot

ImplementsRegister == Register!Spec

\* A read returns whatever the producer does: it is never blocked by it.
ReadReturns == rPc # "idle" ~> rPc = "idle"
=============================================================================
