--------------------------- MODULE SnapshotProofs ---------------------------
(***************************************************************************)
(* The snapshot of the shared-memory region is an atomic register, for any *)
(* number of frames that the seqlock can count without coming round.       *)
(***************************************************************************)
EXTENDS Snapshot, TLAPS

NoLap == 2 * MaxFrames < LockMod

\* The seqlock counts two per publication, and the words are behind it by what
\* the producer has not stored yet.
ProducerInv ==
  /\ published \in Nat /\ published <= MaxFrames
  /\ wPc \in {"idle", "storeA", "storeB", "commit"}
  /\ wPc # "idle" => published < MaxFrames
  /\ lock = 2 * published + (IF wPc = "idle" THEN 0 ELSE 1)
  /\ a = IF wPc \in {"storeB", "commit"} THEN published + 1 ELSE published
  /\ b = IF wPc = "commit" THEN published + 1 ELSE published

\* A lock that still has its even value certifies what has been copied so far.
ReaderInv ==
  /\ s1 \in Nat
  /\ rPc \in {"idle", "lock", "copyA", "copyB", "check"}
  /\ rPc \in {"copyA", "copyB", "check"} => s1 % 2 = 0 /\ s1 <= lock
  /\ rPc \in {"copyB", "check"} /\ s1 = lock => outA = published
  /\ rPc = "check" /\ s1 = lock => outB = published

SnapshotInv == ProducerInv /\ ReaderInv

LEMMA ModSmall ==
  ASSUME NEW m \in Nat \ {0}, NEW x \in Nat, x < m
  PROVE  x % m = x
OBVIOUS

LEMMA EvenOdd ==
  ASSUME NEW n \in Nat
  PROVE  (2 * n) % 2 = 0 /\ (2 * n + 1) % 2 = 1
OBVIOUS

\* An even seqlock means that the producer is between two publications.
LEMMA EvenMeansIdle ==
  ASSUME ProducerInv, lock % 2 = 0
  PROVE  wPc = "idle" /\ a = published /\ b = published
<1>1. lock = 2 * published \/ lock = 2 * published + 1
  BY DEF ProducerInv
<1>2. lock = 2 * published
  BY <1>1, EvenOdd DEF ProducerInv
<1>3. QED
  BY <1>2 DEF ProducerInv

\* The seqlock does not come round while the bound on the frames holds.
LEMMA BumpCounts ==
  ASSUME NoLap, ProducerInv, Bump,
         wPc = "idle" => published < MaxFrames
  PROVE  lock' = lock + 1
<1>1. lock \in Nat /\ lock + 1 <= 2 * MaxFrames
  BY MaxFramesAssumption DEF ProducerInv
<1>2. lock + 1 < LockMod
  BY <1>1, MaxFramesAssumption, LockModAssumption DEF NoLap
<1>3. QED
  BY <1>1, <1>2, LockModAssumption, ModSmall DEF Bump
-----------------------------------------------------------------------------
LEMMA SnapshotInit == Init => SnapshotInv
BY MaxFramesAssumption DEF Init, SnapshotInv, ProducerInv, ReaderInv

\* A step of the producer either moves the seqlock past every copy in progress or
\* runs under an odd one, which no copy carries.
LEMMA ProducerStep ==
  ASSUME NoLap, SnapshotInv, Open \/ StoreA \/ StoreB \/ Commit
  PROVE  SnapshotInv'
<1> USE MaxFramesAssumption
<1>1. ProducerInv /\ ReaderInv
  BY DEF SnapshotInv
<1>2. CASE Open
  <2>1. lock' = lock + 1
    BY <1>1, <1>2, BumpCounts DEF Open
  <2>2. QED
    BY <1>1, <1>2, <2>1 DEF Open, readerVars, SnapshotInv, ProducerInv, ReaderInv
<1>3. CASE StoreA
  BY <1>1, <1>3 DEF StoreA, readerVars, SnapshotInv, ProducerInv, ReaderInv
<1>4. CASE StoreB
  BY <1>1, <1>4 DEF StoreB, readerVars, SnapshotInv, ProducerInv, ReaderInv
<1>5. CASE Commit
  <2>1. lock' = lock + 1
    BY <1>1, <1>5, BumpCounts DEF Commit
  <2>2. lock = 2 * published + 1 /\ published < MaxFrames
    BY <1>1, <1>5 DEF Commit, ProducerInv
  <2>3. ProducerInv'
    BY <1>1, <1>5, <2>1, <2>2 DEF Commit, ProducerInv
  <2>4. ReaderInv'
    BY <1>1, <1>5, <2>1, <2>2 DEF Commit, readerVars, ReaderInv
  <2>5. QED
    BY <2>3, <2>4 DEF SnapshotInv
<1>6. QED
  BY <1>2, <1>3, <1>4, <1>5

\* A step of the reader copies under a lock that it compares later.
LEMMA ReaderStep ==
  ASSUME SnapshotInv,
         Call \/ LoadLock \/ Odd \/ CopyA \/ CopyB \/ Accept \/ Moved
  PROVE  SnapshotInv'
<1>1. ProducerInv /\ ReaderInv
  BY DEF SnapshotInv
<1>2. UNCHANGED producerVars /\ ProducerInv'
  BY <1>1 DEF producerVars, ProducerInv, Call, LoadLock, Odd, Moved, Retry,
              CopyA, CopyB, Accept
<1>3. lock \in Nat
  BY <1>1 DEF ProducerInv
<1>4. CASE Call \/ Accept \/ Odd \/ Moved
  BY <1>1, <1>2, <1>4
  DEF producerVars, SnapshotInv, ReaderInv, Call, Accept, Odd, Moved, Retry
<1>5. CASE LoadLock
  BY <1>1, <1>2, <1>3, <1>5 DEF producerVars, SnapshotInv, ReaderInv, LoadLock
<1>6. CASE CopyA
  <2>1. s1 = lock => a = published
    BY <1>1, <1>6, EvenMeansIdle DEF ReaderInv, CopyA
  <2>2. QED
    BY <1>1, <1>2, <1>6, <2>1 DEF producerVars, SnapshotInv, ReaderInv, CopyA
<1>7. CASE CopyB
  <2>1. s1 = lock => b = published
    BY <1>1, <1>7, EvenMeansIdle DEF ReaderInv, CopyB
  <2>2. QED
    BY <1>1, <1>2, <1>7, <2>1 DEF producerVars, SnapshotInv, ReaderInv, CopyB
<1>8. QED
  BY <1>4, <1>5, <1>6, <1>7

THEOREM SnapshotInvariant == ASSUME NoLap PROVE Spec => []SnapshotInv
<1>1. Init => SnapshotInv
  BY SnapshotInit
<1>2. SnapshotInv /\ [Next]_vars => SnapshotInv'
  <2>1. ASSUME SnapshotInv, UNCHANGED vars PROVE SnapshotInv'
    BY <2>1 DEF vars, producerVars, readerVars, SnapshotInv, ProducerInv, ReaderInv
  <2>2. QED
    BY <2>1, ProducerStep, ReaderStep DEF Next
<1>3. QED
  BY <1>1, <1>2, PTL DEF Spec
-----------------------------------------------------------------------------
\* What motor_snapshot_read returns is one frame, whatever the producer did
\* between its accesses.
THEOREM ReadsAreConsistent == ASSUME NoLap PROVE Spec => []Consistent
<1>1. SnapshotInv => Consistent
  BY DEF SnapshotInv, ReaderInv, Consistent, Unchanged
<1>2. QED
  BY <1>1, SnapshotInvariant, PTL

\* Publish and read behave as one access each to an atomic register: the frame
\* that a read shows is the newest one at the moment the read returns.
THEOREM SnapshotIsRegister == ASSUME NoLap PROVE Spec => ImplementsRegister
<1>1. Init => Register!Init
  BY DEF Init, Register!Init
<1>2. SnapshotInv /\ [Next]_vars
        => [Register!Publish \/ Register!Show]_<<published, shown>>
  <2> SUFFICES ASSUME SnapshotInv, [Next]_vars
               PROVE  [Register!Publish \/ Register!Show]_<<published, shown>>
    OBVIOUS
  <2>1. CASE Commit
    BY <2>1 DEF Commit, readerVars, Register!Publish
  <2>2. CASE Accept
    <3>1. shown' = published /\ published' = published
      BY <2>2 DEF Accept, Unchanged, producerVars, SnapshotInv, ReaderInv
    <3>2. QED
      BY <3>1 DEF Register!Show
  <2>3. CASE \/ Open \/ StoreA \/ StoreB \/ UNCHANGED vars
             \/ Call \/ LoadLock \/ Odd \/ CopyA \/ CopyB \/ Moved
    BY <2>3 DEF Open, StoreA, StoreB, vars, producerVars, readerVars,
                Call, LoadLock, Odd, Moved, Retry, CopyA, CopyB
  <2>4. QED
    BY <2>1, <2>2, <2>3 DEF Next
<1>3. QED
  BY <1>1, <1>2, SnapshotInvariant, PTL DEF Spec, ImplementsRegister, Register!Spec
=============================================================================
