---------------------------- MODULE ShmRingProofs ----------------------------
(***************************************************************************)
(* The block ring of the shared-memory region for every depth, number of   *)
(* attempts and bound: what a monitor accepts is one whole block, of its   *)
(* slot and not older than asked for, and every position is accounted for. *)
(***************************************************************************)
EXTENDS ShmRing, TLAPS

\* Neither a slot's seqlock nor the position comes round.
NoLap == 2 * MaxBlocks < LockMod /\ MaxBlocks < PosMod

\* Remainders.
LEMMA ModSmall ==
  ASSUME NEW m \in Nat \ {0}, NEW x \in Int, 0 <= x, x < m
  PROVE  x % m = x
OBVIOUS

LEMMA ModRange ==
  ASSUME NEW m \in Nat \ {0}, NEW x \in Int
  PROVE  x % m \in 0..(m - 1)
OBVIOUS

LEMMA ModSum ==
  ASSUME NEW m \in Nat \ {0}, NEW x \in 0..(m - 1), NEW y \in 0..m
  PROVE  (x + y) % m = IF x + y < m THEN x + y ELSE x + y - m
OBVIOUS

LEMMA ModUnder ==
  ASSUME NEW m \in Nat \ {0}, NEW x \in Int, x < 0, -m <= x
  PROVE  x % m = x + m
OBVIOUS

\* Two numbers with one remainder differ by a multiple.
LEMMA SameRemainder ==
  ASSUME NEW m \in Nat \ {0}, NEW x \in Int, NEW y \in Int, x % m = y % m
  PROVE  (x - y) % m = 0
OBVIOUS

LEMMA BumpParity ==
  ASSUME NEW n \in Nat
  PROVE  /\ n % 2 = 0 => (n + 1) % 2 = 1
         /\ n % 2 = 1 => (n + 1) % 2 = 0
         /\ n % 2 \in {0, 1}
OBVIOUS
-----------------------------------------------------------------------------
(* The inductive invariant *)

Counters == 0..(PosMod - 1)

TypeInv ==
  /\ writePos \in Counters /\ wp \in Counters
  /\ readPos \in Counters /\ seen \in Counters /\ drops \in Counters
  /\ block \in Nat /\ restarts \in Nat
  /\ lock \in [Slots -> Nat] /\ word \in [Slots -> [a : Int, b : Int]]
  /\ wPc \in {"idle", "wordA", "wordB", "commit", "publish"}
  /\ mPc \in {"idle", "drain", "lock", "copyA", "copyB", "check"}
  /\ s1 \in Nat /\ out \in [a : Int, b : Int]

Writing(i) == i = Target /\ wPc \in {"wordA", "wordB", "commit"}

\* The seqlock of the one slot that is being written is odd, and two steps of it
\* belong to one block at most.
LockInv ==
  /\ writePos = block /\ block <= MaxBlocks
  /\ wPc # "idle" => block < MaxBlocks
  /\ \A i \in Slots :
       /\ lock[i] % 2 = (IF Writing(i) THEN 1 ELSE 0)
       /\ lock[i] <= 2 * block + (IF i # Target \/ wPc = "idle" THEN 0
                                  ELSE IF wPc = "publish" THEN 2 ELSE 1)

\* Each word of a slot is of a block of that slot, and of none older than the newest
\* published one; the two differ between their stores only.
WordInv ==
  /\ \A i \in Slots :
       /\ word[i].a >= 0 => word[i].a % Depth = i
       /\ word[i].b >= 0 => word[i].b % Depth = i
       /\ \A p \in 0..(block - 1) :
            p % Depth = i => word[i].a >= p /\ word[i].b >= p
       /\ word[i].a = word[i].b \/ (i = Target /\ wPc = "wordB")
  /\ wPc \in {"wordB", "commit", "publish"} => word[Target].a = block
  /\ wPc \in {"commit", "publish"} => word[Target].b = block

\* The monitor is never ahead of what it saw published.
PositionInv ==
  /\ readPos <= wp /\ wp <= block
  /\ mPc \in {"lock", "copyA", "copyB", "check"} => readPos < wp

\* A seqlock that still has its even value certifies what has been copied so far.
CopyInv ==
  /\ mPc \in {"copyA", "copyB", "check"} => s1 % 2 = 0 /\ s1 <= lock[Source]
  /\ mPc \in {"copyB", "check"} /\ s1 = lock[Source] => out.a = word[Source].a
  /\ mPc = "check" /\ s1 = lock[Source] => out.b = word[Source].b

\* What holds until the producer is restarted.
OneLife == LockInv /\ WordInv /\ PositionInv /\ CopyInv
OneLifeInv == restarts = 0 => OneLife

RingInv == TypeInv /\ Accounted /\ OneLifeInv
-----------------------------------------------------------------------------
LEMMA SlotOf ==
  ASSUME NEW x \in Nat
  PROVE  x % Depth \in Slots
BY DepthAssumption DEF Slots

LEMMA Starts == Init => RingInv
<1> SUFFICES ASSUME Init PROVE RingInv
  OBVIOUS
<1> USE DepthAssumption, ModAssumption, RingBoundsAssumption
<1>1. TypeInv
  BY DEF Init, TypeInv, Counters, None, Slots
<1>2. Accounted
  BY ModSmall DEF Init, Accounted
<1>3. LockInv
  BY DEF Init, LockInv, Writing
<1>4. WordInv
  BY DEF Init, WordInv, None
<1>5. PositionInv /\ CopyInv
  BY DEF Init, PositionInv, CopyInv
<1>6. QED
  BY <1>1, <1>2, <1>3, <1>4, <1>5 DEF RingInv, OneLifeInv, OneLife
-----------------------------------------------------------------------------
(* Types, of every step *)

LEMMA WriterTypes ==
  ASSUME TypeInv, OpenSlot \/ StoreA \/ StoreB \/ CommitSlot \/ Publish \/ Restart
  PROVE  TypeInv'
<1> USE DepthAssumption, ModAssumption
<1>0. Target \in Slots
  <2>1. writePos \in Nat
    BY DEF TypeInv, Counters
  <2>2. QED
    BY <2>1, SlotOf DEF Target
<1>1. CASE OpenSlot \/ CommitSlot
  <2>1. lock' \in [Slots -> Nat]
    BY <1>0, <1>1 DEF TypeInv, OpenSlot, CommitSlot, Bump
  <2>2. QED
    BY <1>1, <2>1 DEF TypeInv, OpenSlot, CommitSlot, Writer, monitor, copier
<1>2. CASE StoreA \/ StoreB
  <2>1. word' \in [Slots -> [a : Int, b : Int]]
    BY <1>0, <1>2 DEF TypeInv, StoreA, StoreB
  <2>2. QED
    BY <1>2, <2>1 DEF TypeInv, StoreA, StoreB, Writer, monitor, copier
<1>3. CASE Publish
  BY <1>3, ModRange DEF TypeInv, Counters, Publish, Writer, monitor, copier
<1>4. CASE Restart
  BY <1>4 DEF TypeInv, Counters, Restart, monitor, copier
<1>5. QED
  BY <1>1, <1>2, <1>3, <1>4

LEMMA RetryTypes ==
  ASSUME TypeInv, Retry
  PROVE  TypeInv'
BY ModAssumption, ModRange DEF TypeInv, Counters, Retry, shared, writer

LEMMA MonitorTypes ==
  ASSUME TypeInv,
         \/ LoadWritePos \/ Drain \/ LoadLock \/ WriteInProgress
         \/ CopyA \/ CopyB \/ Accept \/ Overwritten
  PROVE  TypeInv'
<1> USE ModAssumption
<1>0. Source \in Slots
  <2>1. readPos \in Nat
    BY DEF TypeInv, Counters
  <2>2. QED
    BY <2>1, SlotOf DEF Source
<1>1. CASE LoadWritePos
  <2>1. Behind \in Int
    BY <1>1, ModRange DEF TypeInv, Counters, LoadWritePos, Behind
  <2>2. readPos' \in Counters /\ drops' \in Counters
    BY <1>1, <2>1, DepthAssumption, ModRange DEF TypeInv, Counters, LoadWritePos
  <2>3. QED
    BY <1>1, <2>2 DEF TypeInv, LoadWritePos, copier, shared, writer
<1>2. CASE Drain \/ LoadLock
  BY <1>0, <1>2 DEF TypeInv, Drain, LoadLock, shared, writer
<1>3. CASE CopyA \/ CopyB
  <2>1. out' \in [a : Int, b : Int]
    BY <1>0, <1>3 DEF TypeInv, CopyA, CopyB
  <2>2. QED
    BY <1>3, <2>1 DEF TypeInv, CopyA, CopyB, shared, writer
<1>4. CASE Accept
  BY <1>4, ModRange DEF TypeInv, Counters, Accept, copier, shared, writer
<1>5. CASE WriteInProgress \/ Overwritten
  BY <1>5, RetryTypes DEF WriteInProgress, Overwritten
<1>6. QED
  BY <1>1, <1>2, <1>3, <1>4, <1>5

LEMMA Types == TypeInv /\ [Next]_vars => TypeInv'
<1>1. TypeInv /\ UNCHANGED vars => TypeInv'
  BY DEF TypeInv, vars, shared, writer, monitor, copier
<1>2. QED
  BY <1>1, WriterTypes, MonitorTypes DEF Next
-----------------------------------------------------------------------------
(* Every position counts once *)

\* A number that is added to one of two counts is added to their sum.
LEMMA CountOnce ==
  ASSUME NEW m \in Nat \ {0}, NEW x \in 0..(m - 1), NEW y \in 0..(m - 1), NEW n \in 0..m
  PROVE  (x + ((y + n) % m)) % m = (((x + y) % m) + n) % m
<1> DEFINE y1 == (y + n) % m
           z  == (x + y) % m
<1>1. y1 = IF y + n < m THEN y + n ELSE y + n - m
  BY ModSum
<1>2. z = IF x + y < m THEN x + y ELSE x + y - m
  <2>1. y \in 0..m
    OBVIOUS
  <2>2. QED
    BY <2>1, ModSum
<1> HIDE DEF y1, z
<1>3. (x + y1) % m = IF x + y1 < m THEN x + y1 ELSE x + y1 - m
  <2>1. y1 \in 0..m
    BY <1>1
  <2>2. QED
    BY <2>1, ModSum
<1>4. (z + n) % m = IF z + n < m THEN z + n ELSE z + n - m
  <2>1. z \in 0..(m - 1)
    BY <1>2
  <2>2. QED
    BY <2>1, ModSum
<1>5. (x + y1) % m = (z + n) % m
  BY <1>1, <1>2, <1>3, <1>4
<1>6. QED
  BY <1>5 DEF y1, z

\* A reader at r that jumps to d behind w passes as many positions as it was too far
\* behind.
LEMMA SkipsTheRest ==
  ASSUME NEW m \in Nat \ {0}, NEW w \in 0..(m - 1), NEW r \in 0..(m - 1),
         NEW d \in Nat \ {0}, (w - r) % m > d
  PROVE  /\ ((w - r) % m) - d \in 0..m
         /\ (r + (((w - r) % m) - d)) % m = (w - d) % m
<1> DEFINE k == (w - r) % m
<1>1. k = IF w >= r THEN w - r ELSE w - r + m
  BY ModSmall, ModUnder
<1>2. k > d
  OBVIOUS
<1> HIDE DEF k
<1>3. k - d \in 0..m
  BY <1>1, <1>2
<1>4. (r + (k - d)) % m = (w - d) % m
  <2>1. CASE w >= r
    <3>1. r + (k - d) = w - d
      BY <1>1, <2>1
    <3>2. QED
      BY <3>1
  <2>2. CASE w < r
    <3>1. r + (k - d) = w - d + m
      BY <1>1, <2>2
    <3>2. (w - d) % m = IF w >= d THEN w - d ELSE w - d + m
      BY <1>1, <1>2, <2>2, ModSmall, ModUnder
    <3>3. (w - d + m) % m = IF w >= d THEN w - d ELSE w - d + m
      BY <1>1, <1>2, <2>2
    <3>4. QED
      BY <3>1, <3>2, <3>3
  <2>3. QED
    BY <2>1, <2>2
<1>5. QED
  BY <1>3, <1>4 DEF k

\* A number of positions passes from the count of the drops to the position.
LEMMA Passed ==
  ASSUME TypeInv, Accounted, NEW n \in 0..PosMod,
         \/ seen' = seen /\ drops' = (drops + n) % PosMod
         \/ drops' = drops /\ seen' = (seen + n) % PosMod,
         readPos' = (readPos + n) % PosMod
  PROVE  Accounted'
<1>0. PosMod \in Nat \ {0}
  BY ModAssumption
<1>1. seen \in 0..(PosMod - 1) /\ drops \in 0..(PosMod - 1)
  BY DEF TypeInv, Counters
<1>2. readPos' = (((seen + drops) % PosMod) + n) % PosMod
  BY DEF Accounted
<1>3. CASE seen' = seen /\ drops' = (drops + n) % PosMod
  <2>1. (seen + ((drops + n) % PosMod)) % PosMod = (((seen + drops) % PosMod) + n) % PosMod
    BY <1>0, <1>1, CountOnce
  <2>2. QED
    BY <1>2, <1>3, <2>1 DEF Accounted
<1>4. CASE drops' = drops /\ seen' = (seen + n) % PosMod
  <2>1. (drops + ((seen + n) % PosMod)) % PosMod = (((drops + seen) % PosMod) + n) % PosMod
    BY <1>0, <1>1, CountOnce
  <2>2. (seen + n) % PosMod \in Int
    BY <1>0, <1>1, ModRange
  <2>3. QED
    BY <1>1, <1>2, <1>4, <2>1, <2>2 DEF Accounted
<1>5. QED
  BY <1>3, <1>4

\* What a lapped monitor skips is what it adds to the drops.
LEMMA Skipped ==
  ASSUME TypeInv, LoadWritePos, Behind > Depth
  PROVE  /\ Behind - Depth \in 0..PosMod
         /\ readPos' = (readPos + (Behind - Depth)) % PosMod
<1>1. wp' \in 0..(PosMod - 1) /\ readPos \in 0..(PosMod - 1)
  BY DEF TypeInv, Counters, LoadWritePos
<1>2. readPos' = (wp' - Depth) % PosMod
  BY DEF LoadWritePos
<1>3. QED
  BY <1>1, <1>2, SkipsTheRest, ModAssumption, DepthAssumption DEF Behind

LEMMA AccountKept == TypeInv /\ Accounted /\ [Next]_vars => Accounted'
<1> SUFFICES ASSUME TypeInv, Accounted, [Next]_vars PROVE Accounted'
  OBVIOUS
<1>0. 0 \in 0..PosMod /\ 1 \in 0..PosMod
  BY ModAssumption
<1>1. ASSUME UNCHANGED <<seen, drops, readPos>> PROVE Accounted'
  BY <1>1 DEF Accounted
<1>2. ASSUME Retry PROVE Accounted'
  <2>1. CASE tries' < Tries
    BY <1>1, <1>2, <2>1 DEF Retry
  <2>2. CASE ~(tries' < Tries)
    BY <1>0, <1>2, <2>2, Passed DEF Retry
  <2>3. QED
    BY <2>1, <2>2
<1>3. CASE LoadWritePos
  <2>1. CASE Behind > Depth
    <3>1. seen' = seen /\ drops' = (drops + (Behind - Depth)) % PosMod
      <4>1. drops' = (drops + Behind - Depth) % PosMod /\ seen' = seen
        BY <1>3, <2>1 DEF LoadWritePos
      <4>2. Behind \in Int /\ drops \in Int /\ Depth \in Int
        BY <1>3, DepthAssumption, ModAssumption, ModRange
        DEF Behind, LoadWritePos, TypeInv, Counters
      <4>3. drops + Behind - Depth = drops + (Behind - Depth)
        BY <4>2
      <4>4. QED
        BY <4>1, <4>3
    <3>2. QED
      BY <1>3, <2>1, <3>1, Skipped, Passed
  <2>2. CASE ~(Behind > Depth)
    BY <1>1, <1>3, <2>2 DEF LoadWritePos
  <2>3. QED
    BY <2>1, <2>2
<1>4. CASE Accept
  BY <1>0, <1>4, Passed DEF Accept
<1>5. CASE WriteInProgress \/ Overwritten
  BY <1>2, <1>5 DEF WriteInProgress, Overwritten
<1>6. CASE \/ OpenSlot \/ StoreA \/ StoreB \/ CommitSlot \/ Publish \/ Restart
           \/ Drain \/ LoadLock \/ CopyA \/ CopyB \/ UNCHANGED vars
  BY <1>1, <1>6
  DEF OpenSlot, StoreA, StoreB, CommitSlot, Publish, Restart, Writer, Drain, LoadLock,
      CopyA, CopyB, vars, monitor
<1>7. QED
  BY <1>3, <1>4, <1>5, <1>6 DEF Next

\* Over skips, retries, wrap of the positions and restarts of the producer, every
\* position the monitor has passed is counted once, as seen or as dropped.
THEOREM EveryPositionCounts == Spec => []Accounted
<1>1. Init => TypeInv /\ Accounted
  BY Starts DEF RingInv
<1>2. TypeInv /\ Accounted /\ [Next]_vars => (TypeInv /\ Accounted)'
  BY Types, AccountKept
<1>3. QED
  BY <1>1, <1>2, PTL DEF Spec
-----------------------------------------------------------------------------
(* One producer: whole blocks *)

\* Within the bounds the counters of the producer count.
LEMMA BumpCounts ==
  ASSUME NoLap, TypeInv, LockInv, Bump,
         (wPc = "idle" /\ block < MaxBlocks) \/ wPc = "commit"
  PROVE  /\ Target \in Slots
         /\ lock' = [lock EXCEPT ![Target] = lock[Target] + 1]
<1>1. Target \in Slots
  <2>1. writePos \in Nat
    BY ModAssumption DEF TypeInv, Counters
  <2>2. QED
    BY <2>1, SlotOf DEF Target
<1>2. lock[Target] \in Nat /\ lock[Target] <= 2 * block + 1 /\ block < MaxBlocks /\ block \in Nat
  BY <1>1 DEF TypeInv, LockInv
<1>3. lock[Target] + 1 \in Nat /\ 0 <= lock[Target] + 1 /\ lock[Target] + 1 < LockMod
  BY <1>2, RingBoundsAssumption, ModAssumption DEF NoLap
<1>4. (lock[Target] + 1) % LockMod = lock[Target] + 1
  BY <1>3, ModAssumption, ModSmall
<1>5. QED
  BY <1>1, <1>4 DEF Bump

LEMMA PublishCounts ==
  ASSUME NoLap, TypeInv, LockInv, Publish
  PROVE  writePos' = block' /\ block' = block + 1
<1>1. block + 1 \in Int /\ 0 <= block + 1 /\ block + 1 < PosMod
  BY RingBoundsAssumption, ModAssumption DEF TypeInv, LockInv, NoLap, Publish, Writer
<1>2. (block + 1) % PosMod = block + 1
  BY <1>1, ModAssumption, ModSmall
<1>3. QED
  BY <1>2 DEF Publish, LockInv

\* A slot whose seqlock is even is not being written.
LEMMA EvenIsClosed ==
  ASSUME LockInv, WordInv, NEW i \in Slots, lock[i] % 2 = 0
  PROVE  ~Writing(i) /\ word[i].a = word[i].b
<1>1. ~Writing(i)
  BY DEF LockInv
<1>2. QED
  BY <1>1 DEF WordInv, Writing

\* What a step of the producer does to the slot that is being read: nothing, or its
\* seqlock moves on, or it is odd.
LEMMA CopyKept ==
  ASSUME TypeInv, CopyInv, UNCHANGED monitor,
         \/ lock'[Source] = lock[Source] /\ word'[Source] = word[Source]
         \/ lock'[Source] = lock[Source] + 1
         \/ lock'[Source] = lock[Source] /\ lock[Source] % 2 = 1
  PROVE  CopyInv'
<1>1. Source \in Slots
  <2>1. readPos \in Nat
    BY ModAssumption DEF TypeInv, Counters
  <2>2. QED
    BY <2>1, SlotOf DEF Source
<1>2. lock[Source] \in Nat /\ s1 \in Nat
  BY <1>1 DEF TypeInv
<1>3. mPc' = mPc /\ s1' = s1 /\ out' = out /\ Source' = Source
  BY DEF monitor, copier, Source
<1>4. mPc \in {"copyA", "copyB", "check"} => s1 % 2 = 0 /\ s1 <= lock[Source]
  BY DEF CopyInv
<1>5. CASE lock'[Source] = lock[Source] /\ word'[Source] = word[Source]
  BY <1>3, <1>5 DEF CopyInv
<1>6. CASE lock'[Source] = lock[Source] + 1
  BY <1>2, <1>3, <1>4, <1>6 DEF CopyInv
<1>7. CASE lock'[Source] = lock[Source] /\ lock[Source] % 2 = 1
  BY <1>2, <1>3, <1>4, <1>7 DEF CopyInv
<1>8. QED
  BY <1>5, <1>6, <1>7

LEMMA OpenStep ==
  ASSUME NoLap, TypeInv, OneLife, OpenSlot
  PROVE  OneLife'
<1> USE DEF OneLife
<1>1. /\ Target \in Slots /\ lock' = [lock EXCEPT ![Target] = lock[Target] + 1]
      /\ wPc = "idle" /\ wPc' = "wordA" /\ block < MaxBlocks
      /\ UNCHANGED <<writePos, word, block, monitor>>
  BY BumpCounts DEF OpenSlot, Writer
<1>2. Target' = Target
  BY <1>1 DEF Target
<1>3. ASSUME NEW i \in Slots
      PROVE  /\ lock'[i] = IF i = Target THEN lock[i] + 1 ELSE lock[i]
             /\ lock[i] \in Nat /\ lock[i] % 2 = 0 /\ lock[i] <= 2 * block
  BY <1>1, <1>3 DEF TypeInv, LockInv, Writing
<1>4. LockInv'
  <2>1. ASSUME NEW i \in Slots
        PROVE  /\ lock'[i] % 2 = (IF i = Target THEN 1 ELSE 0)
               /\ lock'[i] <= 2 * block + (IF i = Target THEN 1 ELSE 0)
    <3>1. CASE i = Target
      <4>1. lock[i] \in Nat /\ lock'[i] = lock[i] + 1 /\ lock[i] % 2 = 0 /\ lock[i] <= 2 * block
        BY <1>3, <3>1
      <4>2. block \in Nat
        BY DEF TypeInv
      <4>3. QED
        BY <3>1, <4>1, <4>2, BumpParity
    <3>2. CASE i # Target
      BY <1>3, <3>2 DEF TypeInv
    <3>3. QED
      BY <3>1, <3>2
  <2>2. QED
    BY <1>1, <1>2, <2>1 DEF LockInv, Writing
<1>5. WordInv'
  BY <1>1, <1>2 DEF WordInv
<1>6. PositionInv'
  BY <1>1 DEF PositionInv, monitor, copier
<1>7. CopyInv'
  <2>1. Source \in Slots
    <3>1. readPos \in Nat
      BY ModAssumption DEF TypeInv, Counters
    <3>2. QED
      BY <3>1, SlotOf DEF Source
  <2>2. QED
    BY <1>1, <1>3, <2>1, CopyKept
<1>8. QED
  BY <1>4, <1>5, <1>6, <1>7

LEMMA StoreStep ==
  ASSUME TypeInv, OneLife, StoreA \/ StoreB
  PROVE  OneLife'
<1> USE DEF OneLife
<1>1. /\ UNCHANGED <<writePos, lock, block, monitor>>
      /\ wPc \in {"wordA", "wordB"} /\ wPc' \in {"wordB", "commit"}
      /\ block \in Nat
  BY DEF StoreA, StoreB, Writer, TypeInv
<1>2. Target' = Target /\ Target \in Slots /\ Source' = Source /\ Source \in Slots
      /\ Target = block % Depth
  <2>1. writePos \in Nat /\ readPos \in Nat /\ writePos = block
    BY ModAssumption DEF TypeInv, Counters, LockInv
  <2>2. QED
    BY <1>1, <2>1, SlotOf DEF Target, Source, monitor
<1>3. LockInv'
  BY <1>1, <1>2 DEF LockInv, Writing
<1>4. WordInv'
  <2>1. CASE StoreA
    <3>1. word' = [word EXCEPT ![Target].a = block] /\ wPc = "wordA" /\ wPc' = "wordB"
      BY <2>1 DEF StoreA, Writer
    <3>2. ASSUME NEW i \in Slots
          PROVE  /\ word'[i].a = IF i = Target THEN block ELSE word[i].a
                 /\ word'[i].b = word[i].b
      BY <3>1 DEF TypeInv
    <3>3. QED
      BY <1>1, <1>2, <3>1, <3>2 DEF WordInv
  <2>2. CASE StoreB
    <3>1. word' = [word EXCEPT ![Target].b = block] /\ wPc = "wordB" /\ wPc' = "commit"
      BY <2>2 DEF StoreB, Writer
    <3>2. ASSUME NEW i \in Slots
          PROVE  /\ word'[i].b = IF i = Target THEN block ELSE word[i].b
                 /\ word'[i].a = word[i].a
      BY <3>1 DEF TypeInv
    <3>3. QED
      BY <1>1, <1>2, <3>1, <3>2 DEF WordInv
  <2>3. QED
    BY <2>1, <2>2
<1>5. PositionInv'
  BY <1>1 DEF PositionInv, monitor, copier
<1>6. CopyInv'
  <2>1. CASE Source = Target
    <3>1. lock[Source] % 2 = 1
      BY <1>1, <1>2, <2>1 DEF LockInv, Writing
    <3>2. QED
      BY <1>1, <3>1, CopyKept
  <2>2. CASE Source # Target
    <3>1. word'[Source] = word[Source]
      BY <1>2, <2>2 DEF StoreA, StoreB, TypeInv
    <3>2. QED
      BY <1>1, <3>1, CopyKept
  <2>3. QED
    BY <2>1, <2>2
<1>7. QED
  BY <1>3, <1>4, <1>5, <1>6

LEMMA CommitStep ==
  ASSUME NoLap, TypeInv, OneLife, CommitSlot
  PROVE  OneLife'
<1> USE DEF OneLife
<1>1. /\ Target \in Slots /\ lock' = [lock EXCEPT ![Target] = lock[Target] + 1]
      /\ wPc = "commit" /\ wPc' = "publish"
      /\ UNCHANGED <<writePos, word, block, monitor>>
  BY BumpCounts DEF CommitSlot, Writer
<1>2. Target' = Target
  BY <1>1 DEF Target
<1>3. ASSUME NEW i \in Slots
      PROVE  /\ lock'[i] = IF i = Target THEN lock[i] + 1 ELSE lock[i]
             /\ lock[i] \in Nat /\ lock[i] % 2 = (IF i = Target THEN 1 ELSE 0)
             /\ lock[i] <= 2 * block + (IF i = Target THEN 1 ELSE 0)
  BY <1>1, <1>3 DEF TypeInv, LockInv, Writing
<1>4. LockInv'
  <2>1. ASSUME NEW i \in Slots
        PROVE  /\ lock'[i] % 2 = 0
               /\ lock'[i] <= 2 * block + (IF i = Target THEN 2 ELSE 0)
    BY <1>3, BumpParity DEF TypeInv
  <2>2. QED
    BY <1>1, <1>2, <2>1 DEF LockInv, Writing
<1>5. WordInv'
  BY <1>1, <1>2 DEF WordInv
<1>6. PositionInv'
  BY <1>1 DEF PositionInv, monitor, copier
<1>7. CopyInv'
  <2>1. Source \in Slots
    <3>1. readPos \in Nat
      BY ModAssumption DEF TypeInv, Counters
    <3>2. QED
      BY <3>1, SlotOf DEF Source
  <2>2. QED
    BY <1>1, <1>3, <2>1, CopyKept
<1>8. QED
  BY <1>4, <1>5, <1>6, <1>7

\* A position becomes visible when its block is complete.
LEMMA PublishStep ==
  ASSUME NoLap, TypeInv, OneLife, Publish
  PROVE  OneLife'
<1> USE DEF OneLife
<1>1. /\ writePos' = block' /\ block' = block + 1 /\ writePos = block
      /\ wPc = "publish" /\ wPc' = "idle" /\ block < MaxBlocks /\ block \in Nat
      /\ UNCHANGED <<lock, word, monitor>>
  BY PublishCounts DEF Publish, Writer, LockInv, TypeInv
<1>2. Target = block % Depth /\ Target \in Slots
  BY <1>1, SlotOf DEF Target
<1>3. LockInv'
  <2>1. ASSUME NEW i \in Slots
        PROVE  lock'[i] % 2 = 0 /\ lock'[i] <= 2 * (block + 1)
    BY <1>1, <2>1 DEF TypeInv, LockInv, Writing
  <2>2. QED
    BY <1>1, <2>1, RingBoundsAssumption DEF LockInv, Writing
<1>4. WordInv'
  <2>1. word[Target].a = block /\ word[Target].b = block
    BY <1>1 DEF WordInv
  <2>2. ASSUME NEW i \in Slots, NEW p \in 0..(block' - 1), p % Depth = i
        PROVE  word[i].a >= p /\ word[i].b >= p
    <3>1. CASE p = block
      BY <1>1, <1>2, <2>1, <2>2, <3>1
    <3>2. CASE p # block
      <4>1. p \in 0..(block - 1)
        BY <1>1, <2>2, <3>2
      <4>2. QED
        BY <2>2, <4>1 DEF WordInv
    <3>3. QED
      BY <3>1, <3>2
  <2>3. QED
    BY <1>1, <2>2 DEF WordInv
<1>5. PositionInv'
  <2>1. wp \in Int
    BY ModAssumption DEF TypeInv, Counters
  <2>2. QED
    BY <1>1, <2>1 DEF PositionInv, monitor, copier
<1>6. CopyInv'
  BY <1>1, CopyKept
<1>7. QED
  BY <1>3, <1>4, <1>5, <1>6

LEMMA WriterStep ==
  ASSUME NoLap, TypeInv, OneLife,
         OpenSlot \/ StoreA \/ StoreB \/ CommitSlot \/ Publish
  PROVE  OneLife'
BY OpenStep, StoreStep, CommitStep, PublishStep

\* The monitor reads; it never goes past what it saw published.
LEMMA MonitorStep ==
  ASSUME NoLap, TypeInv, OneLife,
         \/ LoadWritePos \/ Drain \/ LoadLock \/ WriteInProgress
         \/ CopyA \/ CopyB \/ Accept \/ Overwritten
  PROVE  OneLife'
<1> USE DEF OneLife
<1>1. UNCHANGED <<shared, writer>>
  BY DEF LoadWritePos, Drain, LoadLock, WriteInProgress, CopyA, CopyB, Accept,
         Overwritten, Retry
<1>2. LockInv' /\ WordInv'
  BY <1>1 DEF LockInv, WordInv, Writing, Target, shared, writer
<1>3. /\ readPos \in 0..(PosMod - 1) /\ wp \in 0..(PosMod - 1) /\ block \in Nat
      /\ PosMod \in Nat \ {0} /\ Depth \in Nat \ {0} /\ readPos <= wp /\ wp <= block
      /\ block = writePos /\ block <= MaxBlocks /\ block < PosMod
  BY ModAssumption, DepthAssumption, RingBoundsAssumption
  DEF TypeInv, Counters, LockInv, PositionInv, NoLap
<1>4. Source \in Slots
  BY <1>3, SlotOf DEF Source
<1>5. lock[Source] \in Nat
  BY <1>4 DEF TypeInv
<1>6. PositionInv' /\ CopyInv'
  <2>1. CASE LoadWritePos
    <3>1. wp' = block /\ block' = block /\ mPc' = "drain"
      BY <1>1, <1>3, <2>1 DEF LoadWritePos, writer
    <3>2. Behind = block - readPos
      <4>1. block - readPos \in Int /\ 0 <= block - readPos /\ block - readPos < PosMod
        BY <1>3
      <4>2. (block - readPos) % PosMod = block - readPos
        BY <1>3, <4>1, ModSmall
      <4>3. QED
        BY <3>1, <4>2 DEF Behind
    <3>3. readPos' <= block
      <4>1. CASE Behind > Depth
        <5>1. block - Depth \in Int /\ 0 <= block - Depth /\ block - Depth < PosMod
          BY <1>3, <3>2, <4>1
        <5>2. (block - Depth) % PosMod = block - Depth
          BY <1>3, <5>1, ModSmall
        <5>3. readPos' = block - Depth
          BY <2>1, <3>1, <4>1, <5>2 DEF LoadWritePos
        <5>4. QED
          BY <1>3, <5>3
      <4>2. CASE ~(Behind > Depth)
        BY <1>3, <2>1, <4>2 DEF LoadWritePos
      <4>3. QED
        BY <4>1, <4>2
    <3>4. QED
      BY <1>3, <3>1, <3>3 DEF PositionInv, CopyInv
  <2>2. CASE Drain
    BY <1>1, <1>3, <2>2 DEF Drain, PositionInv, CopyInv, writer
  <2>3. CASE LoadLock
    BY <1>1, <1>3, <1>5, <2>3 DEF LoadLock, PositionInv, CopyInv, writer, shared, Source
  <2>4. CASE CopyA
    <3>1. out'.a = word[Source].a
      BY <2>4 DEF CopyA, TypeInv
    <3>2. QED
      BY <1>1, <1>3, <2>4, <3>1 DEF CopyA, PositionInv, CopyInv, writer, shared, Source
  <2>5. CASE CopyB
    <3>1. out'.b = word[Source].b /\ out'.a = out.a
      BY <2>5 DEF CopyB, TypeInv
    <3>2. QED
      BY <1>1, <1>3, <2>5, <3>1 DEF CopyB, PositionInv, CopyInv, writer, shared, Source
  <2>6. ASSUME readPos < wp, mPc' = "drain", wp' = wp, readPos' = (readPos + 1) % PosMod
        PROVE  PositionInv' /\ CopyInv'
    <3>1. readPos + 1 \in Int /\ 0 <= readPos + 1 /\ readPos + 1 < PosMod
      BY <1>3, <2>6
    <3>2. readPos' = readPos + 1
      BY <1>3, <2>6, <3>1, ModSmall
    <3>3. QED
      BY <1>1, <1>3, <2>6, <3>2 DEF PositionInv, CopyInv, writer
  <2>7. CASE Accept
    <3>1. readPos < wp
      BY <2>7 DEF Accept, PositionInv
    <3>2. QED
      BY <2>6, <2>7, <3>1 DEF Accept
  <2>8. CASE WriteInProgress \/ Overwritten
    <3>1. readPos < wp /\ Retry
      BY <2>8 DEF WriteInProgress, Overwritten, PositionInv
    <3>2. CASE tries' < Tries
      <4>1. mPc' = "lock" /\ readPos' = readPos /\ wp' = wp /\ block' = block
        BY <1>1, <3>1, <3>2 DEF Retry, writer
      <4>2. QED
        BY <1>3, <3>1, <4>1 DEF PositionInv, CopyInv
    <3>3. CASE ~(tries' < Tries)
      BY <2>6, <3>1, <3>3 DEF Retry
    <3>4. QED
      BY <3>2, <3>3
  <2>9. QED
    BY <2>1, <2>2, <2>3, <2>4, <2>5, <2>7, <2>8
<1>7. QED
  BY <1>2, <1>6

LEMMA Keeps ==
  ASSUME NoLap PROVE RingInv /\ [Next]_vars => RingInv'
<1> SUFFICES ASSUME RingInv, [Next]_vars PROVE RingInv'
  OBVIOUS
<1>1. TypeInv' /\ Accounted'
  BY Types, AccountKept DEF RingInv
<1>2. OneLifeInv'
  <2> SUFFICES ASSUME restarts' = 0 PROVE OneLife'
    BY DEF OneLifeInv
  <2>1. ~Restart /\ restarts = 0
    <3>1. restarts \in Nat
      BY DEF RingInv, TypeInv
    <3>2. ~Restart
      BY <3>1 DEF Restart
    <3>3. QED
      BY <3>2
      DEF Next, vars, writer, OpenSlot, StoreA, StoreB, CommitSlot, Publish, Writer,
          LoadWritePos, Drain, LoadLock, WriteInProgress, CopyA, CopyB, Accept,
          Overwritten, Retry
  <2>2. TypeInv /\ OneLife
    BY <2>1 DEF RingInv, OneLifeInv
  <2>3. CASE UNCHANGED vars
    BY <2>2, <2>3
    DEF OneLife, LockInv, WordInv, PositionInv, CopyInv, Writing, Target, Source, vars,
        shared, writer, monitor, copier
  <2>4. CASE Next
    BY <2>1, <2>2, <2>4, NoLap, WriterStep, MonitorStep DEF Next
  <2>5. QED
    BY <2>3, <2>4
<1>3. QED
  BY <1>1, <1>2 DEF RingInv

\* Until the producer is restarted, the slots and the copy in progress keep what their
\* seqlocks promise.
THEOREM RingInvariant == ASSUME NoLap PROVE Spec => []RingInv
<1>1. RingInv /\ [Next]_vars => RingInv'
  BY NoLap, Keeps
<1>2. QED
  BY <1>1, Starts, PTL DEF Spec

\* An accepted copy was taken from a slot that was closed all the while.
LEMMA AcceptedSlot ==
  ASSUME RingInv, restarts = 0, Accepts
  PROVE  /\ Source \in Slots /\ out = word[Source] /\ word[Source].a = word[Source].b
         /\ readPos \in 0..(block - 1)
<1>1. TypeInv /\ LockInv /\ WordInv /\ PositionInv /\ CopyInv
  BY DEF RingInv, OneLifeInv, OneLife
<1>2. Source \in Slots
  <2>1. readPos \in Nat
    BY <1>1, ModAssumption DEF TypeInv, Counters
  <2>2. QED
    BY <2>1, SlotOf DEF Source
<1>3. s1 = lock[Source] /\ s1 % 2 = 0 /\ mPc = "check"
  BY <1>1 DEF Accepts, Unchanged, CopyInv
<1>4. word[Source].a = word[Source].b
  BY <1>1, <1>2, <1>3, EvenIsClosed
<1>5. out = word[Source]
  BY <1>1, <1>2, <1>3 DEF CopyInv, TypeInv
<1>6. readPos \in 0..(block - 1)
  BY <1>1, <1>3, ModAssumption DEF PositionInv, TypeInv, Counters
<1>7. QED
  BY <1>2, <1>4, <1>5, <1>6

\* What motor_ring_read_slot accepts is one whole block, for any depth, number of tries
\* and number of blocks that the seqlock can count.
THEOREM BlocksAreWhole == ASSUME NoLap PROVE Spec => []BlockConsistent
<1>1. RingInv => BlockConsistent
  BY AcceptedSlot DEF BlockConsistent
<1>2. QED
  BY <1>1, RingInvariant, PTL

\* And it is a block of the slot asked for, the one at the position or a later one.
THEOREM BlocksAreNotOld == ASSUME NoLap PROVE Spec => []NeverOlder
<1>1. RingInv => NeverOlder
  <2> SUFFICES ASSUME RingInv, restarts = 0, Accepts
               PROVE  out.a >= readPos /\ (out.a - readPos) % Depth = 0
    BY DEF NeverOlder
  <2>1. /\ Source \in Slots /\ out = word[Source] /\ readPos \in 0..(block - 1)
        /\ WordInv /\ out.a \in Int
    BY AcceptedSlot DEF RingInv, OneLifeInv, OneLife, TypeInv
  <2>2. out.a >= readPos
    BY <2>1 DEF WordInv, Source
  <2>3. out.a % Depth = readPos % Depth
    BY <2>1, <2>2 DEF WordInv, Source
  <2>4. QED
    BY <2>1, <2>2, <2>3, SameRemainder, DepthAssumption
<1>2. QED
  BY <1>1, RingInvariant, PTL
=============================================================================
