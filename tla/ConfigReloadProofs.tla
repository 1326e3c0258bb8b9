------------------------- MODULE ConfigReloadProofs -------------------------
(***************************************************************************)
(* Start-up and reload of the controller, for every set of files, every    *)
(* spi.conf at boot and every bound: what the loop relies on, the pin, the *)
(* bus and the settings of the driver, agrees with the configuration.      *)
(***************************************************************************)
EXTENDS ConfigReload, SequenceTheorems, WellFoundedInduction, TLAPS

\* A set of naturals has a least element.
LEMMA LeastHit ==
  ASSUME NEW S \in SUBSET Nat, S # {}
  PROVE  \E i \in S : \A j \in S : i <= j
<1>1. PICK i \in S : \A j \in S : <<j, i>> \notin OpToRel(<, Nat)
  BY NatLessThanWellFounded, WFMin
<1>2. \A j \in S : ~(j < i)
  BY <1>1 DEF OpToRel
<1>3. QED
  BY <1>2

\* If every line that sets a key gives it the same value, that value is read.
LEMMA ReadsCommonValue ==
  ASSUME NEW lines \in Seq(LineOfConf), NEW k \in Keys, NEW v,
         Hits(lines, k) # {}, \A i \in Hits(lines, k) : lines[i].val = v
  PROVE  ReadKV(lines, k) = v
<1>1. Hits(lines, k) \subseteq Nat
  BY DEF Hits
<1>2. \E i \in Hits(lines, k) : \A j \in Hits(lines, k) : i <= j
  BY <1>1, LeastHit
<1>3. FirstHit(lines, k) \in Hits(lines, k)
  BY <1>2 DEF FirstHit
<1>4. QED
  BY <1>3 DEF ReadKV

\* A key that continues a line is one that has no line, and if there is one, an
\* unfinished last line is continued.
LEMMA GluedKeyIsUnread ==
  ASSUME NEW c
  PROVE  /\ NoTail \notin Keys /\ Unread(c) \subseteq Keys
         /\ GluedKey(c) # NoTail => Unfinished(c) /\ GluedKey(c) \in Unread(c)
         /\ GluedKey(c) = NoTail => ~Unfinished(c) \/ Unread(c) = {}
<1>1. NoTail \notin Keys /\ Unread(c) \subseteq Keys
  BY Zenon DEF NoTail, Keys, Unread
<1>2. CASE ~Unfinished(c) \/ Unread(c) = {}
  BY <1>1, <1>2 DEF GluedKey
<1>3. CASE Unfinished(c) /\ Unread(c) # {}
  <2>1. CASE "clock_rate" \in Unread(c)
    BY <1>1, <1>3, <2>1, Zenon DEF GluedKey
  <2>2. CASE "clock_rate" \notin Unread(c)
    <3>1. "cpha" \in Unread(c)
      BY <1>1, <1>3, <2>2 DEF Keys
    <3>2. GluedKey(c) = "cpha"
      BY <1>3, <2>2 DEF GluedKey
    <3>3. QED
      BY <1>1, <1>3, <3>1, <3>2, Zenon
  <2>3. QED
    BY <2>1, <2>2
<1>4. QED
  BY <1>2, <1>3

\* An index beyond the first n of n + m.
LEMMA Beyond ==
  ASSUME NEW n \in Nat, NEW m \in Nat, NEW i \in Nat, n < i, i <= n + m
  PROVE  \E j \in 1..m : n + j = i
<1>1. i - n \in 1..m /\ n + (i - n) = i
  OBVIOUS
<1>2. QED
  BY <1>1

\* A function on 1..n is a sequence.
LEMMA SeqOfFunction ==
  ASSUME NEW S, NEW n \in Nat, NEW f, f = [i \in 1..n |-> f[i]], \A i \in 1..n : f[i] \in S
  PROVE  f \in Seq(S) /\ Len(f) = n
OBVIOUS

\* What becomes of one line.
LEMMA ReplacedLine ==
  ASSUME NEW c \in SpiConfs, NEW want \in [Keys -> Int], NEW i \in 1..Len(c.lines)
  PROVE  /\ Replaced(c, want)[i] \in LineOfConf
         /\ Replaced(c, want)[i].key = c.lines[i].key
         /\ c.lines[i].key \in Keys => Replaced(c, want)[i].val = want[c.lines[i].key]
         /\ c.lines[i].key \notin Keys /\ i = Len(c.lines) /\ GluedKey(c) # NoTail =>
              Replaced(c, want)[i].tail = GluedKey(c)
<1>1. c.lines \in Seq(LineOfConf)
  BY DEF SpiConfs
<1>2. c.lines[i] \in LineOfConf
  BY <1>1
<1>3. i \in DOMAIN c.lines
  BY <1>1
<1> DEFINE l == c.lines[i]
           r == Replaced(c, want)[i]
<1>4. r = IF l.key \in Keys THEN Line(l.key, want[l.key])
          ELSE IF i = Len(c.lines) /\ GluedKey(c) # NoTail
                 THEN [l EXCEPT !.tail = GluedKey(c)] ELSE l
  BY <1>3 DEF Replaced
<1>5. GluedKey(c) # NoTail => GluedKey(c) \in Keys
  BY GluedKeyIsUnread
<1>6. CASE l.key \in Keys
  <2>1. want[l.key] \in Int
    BY <1>6
  <2>2. r = Line(l.key, want[l.key])
    BY <1>4, <1>6
  <2>3. QED
    BY <1>6, <2>1, <2>2 DEF Line, LineOfConf
<1>7. CASE l.key \notin Keys
  <2>1. CASE i = Len(c.lines) /\ GluedKey(c) # NoTail
    <3>1. r = [l EXCEPT !.tail = GluedKey(c)]
      BY <1>4, <1>7, <2>1
    <3>2. r \in LineOfConf /\ r.key = l.key /\ r.tail = GluedKey(c)
      BY <1>2, <1>5, <2>1, <3>1 DEF LineOfConf
    <3>3. QED
      BY <1>7, <2>1, <3>1, <3>2
  <2>2. CASE ~(i = Len(c.lines) /\ GluedKey(c) # NoTail)
    <3>1. r = l
      BY <1>4, <1>7, <2>2
    <3>2. QED
      BY <1>2, <1>7, <2>2, <3>1
  <2>3. QED
    BY <2>1, <2>2
<1>8. QED
  BY <1>6, <1>7

\* A line of another tool is kept, or it is the last one and a key continues it.
LEMMA ForeignLine ==
  ASSUME NEW c \in SpiConfs, NEW want, NEW i \in 1..Len(c.lines), c.lines[i].key \notin Keys
  PROVE  \/ Replaced(c, want)[i] = c.lines[i]
         \/ /\ GluedKey(c) # NoTail /\ i = Len(c.lines)
            /\ Replaced(c, want)[i] = [c.lines[i] EXCEPT !.tail = GluedKey(c)]
<1>1. i \in DOMAIN c.lines
  BY DEF SpiConfs
<1>2. Replaced(c, want)[i] =
        IF i = Len(c.lines) /\ GluedKey(c) # NoTail
          THEN [c.lines[i] EXCEPT !.tail = GluedKey(c)] ELSE c.lines[i]
  BY <1>1, Zenon DEF Replaced
<1>3. QED
  BY <1>2, Zenon

\* Where the elements of two, and of three, sequences are in their concatenation.
Joined(s, t, w) ==
  /\ Len(w) = Len(s) + Len(t) /\ Len(s) \in Nat /\ Len(t) \in Nat
  /\ \A i \in 1..Len(s) : i \in 1..Len(w) /\ w[i] = s[i]
  /\ \A j \in 1..Len(t) : Len(s) + j \in 1..Len(w) /\ w[Len(s) + j] = t[j]

LEMMA TwoParts ==
  ASSUME NEW S, NEW s \in Seq(S), NEW t \in Seq(S)
  PROVE  s \o t \in Seq(S) /\ Joined(s, t, s \o t)
<1>1. Len(s) \in Nat /\ Len(t) \in Nat
  OBVIOUS
<1>2. s \o t \in Seq(S) /\ Len(s \o t) = Len(s) + Len(t)
  BY ConcatProperties
<1>3. ASSUME NEW i \in 1..Len(s)
      PROVE  i \in 1..Len(s \o t) /\ (s \o t)[i] = s[i]
  <2>1. i \in 1..Len(s) + Len(t) /\ i <= Len(s)
    BY <1>1
  <2>2. QED
    BY <1>2, <2>1, ConcatProperties
<1>4. ASSUME NEW j \in 1..Len(t)
      PROVE  Len(s) + j \in 1..Len(s \o t) /\ (s \o t)[Len(s) + j] = t[j]
  <2>1. /\ Len(s) + j \in 1..Len(s) + Len(t) /\ ~(Len(s) + j <= Len(s))
        /\ (Len(s) + j) - Len(s) = j
    BY <1>1
  <2>2. QED
    BY <1>2, <2>1, ConcatProperties
<1>5. QED
  BY <1>1, <1>2, <1>3, <1>4, Zenon DEF Joined

LEMMA ThreeParts ==
  ASSUME NEW S, NEW s \in Seq(S), NEW t \in Seq(S), NEW u \in Seq(S)
  PROVE  /\ (s \o t) \o u \in Seq(S)
         /\ Joined(s, t, s \o t) /\ Joined(s \o t, u, (s \o t) \o u)
<1>1. s \o t \in Seq(S) /\ Joined(s, t, s \o t)
  BY TwoParts, Zenon
<1>2. (s \o t) \o u \in Seq(S) /\ Joined(s \o t, u, (s \o t) \o u)
  BY <1>1, TwoParts, Zenon
<1>3. QED
  BY <1>1, <1>2, Zenon

\* The new file: the lines replaced, then a line for each key that has none and
\* continues none.
LEMMA RewrittenShape ==
  ASSUME NEW c \in SpiConfs, NEW want \in [Keys -> Int]
  PROVE  /\ Rewritten(c, want) \in Seq(LineOfConf)
         /\ Len(c.lines) <= Len(Rewritten(c, want))
         /\ \A i \in 1..Len(c.lines) : Rewritten(c, want)[i] = Replaced(c, want)[i]
         /\ \A i \in 1..Len(Rewritten(c, want)) : i > Len(c.lines) =>
              \E k \in Unread(c) \ {GluedKey(c)} : Rewritten(c, want)[i] = Line(k, want[k])
         /\ \A k \in Unread(c) \ {GluedKey(c)} :
              \E i \in 1..Len(Rewritten(c, want)) : Rewritten(c, want)[i] = Line(k, want[k])
<1> DEFINE N == Len(c.lines)
           R == Replaced(c, want)
           A == Missing(c, want, "clock_rate")
           B == Missing(c, want, "cpha")
           W == Rewritten(c, want)
           U == Unread(c) \ {GluedKey(c)}
<1>1. c.lines \in Seq(LineOfConf) /\ N \in Nat
  BY DEF SpiConfs
<1>2. R \in Seq(LineOfConf) /\ Len(R) = N
  <2>1. R = [i \in 1..N |-> R[i]]
    BY <1>1 DEF Replaced
  <2>2. \A i \in 1..N : R[i] \in LineOfConf
    BY ReplacedLine
  <2>3. QED
    BY <1>1, <2>1, <2>2, SeqOfFunction
<1>3. ASSUME NEW k \in Keys
      PROVE  /\ Missing(c, want, k) \in Seq(LineOfConf)
             /\ \A j \in 1..Len(Missing(c, want, k)) :
                  k \in U /\ Missing(c, want, k)[j] = Line(k, want[k])
             /\ k \in U => 1 \in 1..Len(Missing(c, want, k))
  <2>1. Line(k, want[k]) \in LineOfConf
    <3>1. want[k] \in Int
      OBVIOUS
    <3>2. QED
      BY <3>1 DEF Line, LineOfConf
  <2>2. CASE k \in U
    BY <2>1, <2>2 DEF Missing
  <2>3. CASE k \notin U
    BY <2>3 DEF Missing
  <2>4. QED
    BY <2>2, <2>3
<1>4. "clock_rate" \in Keys /\ "cpha" \in Keys
  BY DEF Keys
<1>5. A \in Seq(LineOfConf) /\ B \in Seq(LineOfConf)
  BY <1>3, <1>4
<1>6. W = (R \o A) \o B
  BY DEF Rewritten
<1> DEFINE V == R \o A
<1>7. /\ W \in Seq(LineOfConf) /\ Len(W) = N + Len(A) + Len(B)
      /\ Len(A) \in Nat /\ Len(B) \in Nat
      /\ \A i \in 1..N : W[i] = R[i]
      /\ \A j \in 1..Len(A) : N + j \in 1..Len(W) /\ W[N + j] = A[j]
      /\ \A j \in 1..Len(B) : N + Len(A) + j \in 1..Len(W) /\ W[N + Len(A) + j] = B[j]
  <2> HIDE DEF A, B, R, W, N
  <2>1. W \in Seq(LineOfConf) /\ Joined(R, A, V) /\ Joined(V, B, W)
    BY <1>2, <1>5, <1>6, ThreeParts, Zenon
  <2> HIDE DEF V
  <2>2. /\ Len(V) = N + Len(A) /\ Len(A) \in Nat
        /\ \A i \in 1..N : i \in 1..Len(V) /\ V[i] = R[i]
        /\ \A j \in 1..Len(A) : N + j \in 1..Len(V) /\ V[N + j] = A[j]
    BY <1>2, <2>1, Zenon DEF Joined
  <2>3. /\ Len(W) = Len(V) + Len(B) /\ Len(B) \in Nat
        /\ \A i \in 1..Len(V) : i \in 1..Len(W) /\ W[i] = V[i]
        /\ \A j \in 1..Len(B) : Len(V) + j \in 1..Len(W) /\ W[Len(V) + j] = B[j]
    BY <2>1, Zenon DEF Joined
  <2>4. \A i \in 1..N : W[i] = R[i]
    BY <2>2, <2>3, Zenon
  <2>5. \A j \in 1..Len(A) : N + j \in 1..Len(W) /\ W[N + j] = A[j]
    BY <2>2, <2>3, Zenon
  <2>6. \A j \in 1..Len(B) : N + Len(A) + j \in 1..Len(W) /\ W[N + Len(A) + j] = B[j]
    BY <2>2, <2>3, Zenon
  <2>7. QED
    BY <2>1, <2>2, <2>3, <2>4, <2>5, <2>6, Zenon
<1>8. \A i \in 1..N : W[i] = R[i]
  BY <1>7, Zenon
<1>9. \A j \in 1..Len(A) : N + j \in 1..Len(W) /\ W[N + j] = A[j]
  BY <1>7, Zenon
<1>10. \A j \in 1..Len(B) : N + Len(A) + j \in 1..Len(W) /\ W[N + Len(A) + j] = B[j]
  BY <1>7, Zenon
<1>11. ASSUME NEW i \in 1..Len(W), i > N
       PROVE  \E k \in U : W[i] = Line(k, want[k])
  <2>1. CASE i <= N + Len(A)
    <3>1. N \in Nat /\ Len(A) \in Nat /\ i \in Nat /\ N < i /\ i <= N + Len(A)
      BY <1>1, <1>7, <1>11, <2>1
    <3>2. PICK j \in 1..Len(A) : N + j = i
      BY <3>1, Beyond
    <3>3. W[i] = A[j]
      BY <1>9, <3>2
    <3>4. "clock_rate" \in U /\ A[j] = Line("clock_rate", want["clock_rate"])
      BY <1>3, <1>4, Zenon
    <3>5. QED
      BY <3>3, <3>4, Zenon
  <2>2. CASE i > N + Len(A)
    <3>1. /\ N + Len(A) \in Nat /\ Len(B) \in Nat /\ i \in Nat
          /\ N + Len(A) < i /\ i <= (N + Len(A)) + Len(B)
      BY <1>1, <1>7, <1>11, <2>2
    <3>2. PICK j \in 1..Len(B) : (N + Len(A)) + j = i
      BY <3>1, Beyond
    <3>3. W[i] = B[j]
      BY <1>10, <3>2
    <3>4. "cpha" \in U /\ B[j] = Line("cpha", want["cpha"])
      BY <1>3, <1>4, Zenon
    <3>5. QED
      BY <3>3, <3>4, Zenon
  <2>3. QED
    BY <1>1, <1>5, <1>7, <1>11, <2>1, <2>2
<1>12. ASSUME NEW k \in U
       PROVE  \E i \in 1..Len(W) : W[i] = Line(k, want[k])
  <2>1. k \in Keys
    BY GluedKeyIsUnread
  <2>2. 1 \in 1..Len(Missing(c, want, k)) /\ Missing(c, want, k)[1] = Line(k, want[k])
    BY <1>3, <1>12, <2>1, Zenon
  <2>3. CASE k = "clock_rate"
    BY <1>9, <2>2, <2>3
  <2>4. CASE k = "cpha"
    BY <1>10, <2>2, <2>4
  <2>5. QED
    BY <2>1, <2>3, <2>4 DEF Keys
<1>13. N <= Len(W)
  BY <1>1, <1>7
<1>14. QED
  BY <1>7, <1>8, <1>11, <1>12, <1>13, Zenon

\* What rewrite_spi_conf writes is what read_current_kv finds, whatever the file held,
\* but for a key that continues a line.
LEMMA RewrittenReads ==
  ASSUME NEW c \in SpiConfs, NEW want \in [Keys -> Int]
  PROVE  ReadsAsWanted(Rewritten(c, want), want)
<1> DEFINE W == Rewritten(c, want)
           R == Replaced(c, want)
<1>1. c.lines \in Seq(LineOfConf) /\ DOMAIN c.lines = 1..Len(c.lines)
  BY DEF SpiConfs
<1>2. W \in Seq(LineOfConf) /\ DOMAIN W = 1..Len(W) /\ Len(c.lines) <= Len(W)
  BY RewrittenShape
<1>3. ASSUME NEW k \in Keys, NEW i \in Hits(W, k)
      PROVE  \/ i \in Hits(c.lines, k) /\ W[i].val = want[k]
             \/ k \in Unread(c) \ {GluedKey(c)} /\ W[i].val = want[k]
  <2>1. i \in 1..Len(W) /\ W[i].key = k
    BY <1>2, <1>3 DEF Hits
  <2>2. CASE i > Len(c.lines)
    <3>1. PICK m \in Unread(c) \ {GluedKey(c)} : W[i] = Line(m, want[m])
      BY <2>1, <2>2, RewrittenShape
    <3>2. m = k /\ W[i].val = want[k]
      BY <2>1, <3>1 DEF Line
    <3>3. QED
      BY <3>1, <3>2
  <2>3. CASE i <= Len(c.lines)
    <3>1. i \in 1..Len(c.lines) /\ W[i] = R[i]
      BY <1>1, <2>1, <2>3, RewrittenShape
    <3>2. c.lines[i].key = k /\ W[i].val = want[k]
      BY <2>1, <3>1, ReplacedLine
    <3>3. QED
      BY <1>1, <3>1, <3>2 DEF Hits
  <2>4. QED
    BY <1>1, <2>1, <2>2, <2>3
<1>4. ASSUME NEW k \in Keys, k # GluedKey(c)
      PROVE  ReadKV(W, k) = want[k]
  <2>1. Hits(W, k) # {}
    <3>1. CASE k \in Unread(c)
      <4>1. PICK i \in 1..Len(W) : W[i] = Line(k, want[k])
        BY <1>4, <3>1, RewrittenShape
      <4>2. W[i].key = k
        BY <4>1 DEF Line
      <4>3. QED
        BY <1>2, <4>2 DEF Hits
    <3>2. CASE k \notin Unread(c)
      <4>1. PICK i \in 1..Len(c.lines) : c.lines[i].key = k
        BY <1>1, <3>2 DEF Unread, Hits
      <4>2. W[i] = R[i] /\ R[i].key = k
        BY <4>1, RewrittenShape, ReplacedLine
      <4>3. i \in 1..Len(W)
        BY <1>1, <1>2
      <4>4. QED
        BY <1>2, <4>2, <4>3 DEF Hits
    <3>3. QED
      BY <3>1, <3>2
  <2>2. \A i \in Hits(W, k) : W[i].val = want[k]
    BY <1>3
  <2>3. QED
    BY <1>2, <2>1, <2>2, ReadsCommonValue
<1>5. ASSUME NEW k \in Keys, k = GluedKey(c)
      PROVE  Hits(W, k) = {} /\ \E i \in DOMAIN W : W[i].tail = k
  <2>1. GluedKey(c) # NoTail /\ Unfinished(c) /\ k \in Unread(c)
    BY <1>5, GluedKeyIsUnread
  <2>2. Hits(c.lines, k) = {}
    BY <2>1 DEF Unread
  <2>3. Hits(W, k) = {}
    BY <1>3, <1>5, <2>2
  <2>4. Len(c.lines) \in 1..Len(c.lines) /\ c.lines[Len(c.lines)].key \notin Keys
    BY <1>1, <2>1 DEF Unfinished
  <2>5. R[Len(c.lines)].tail = k
    BY <1>5, <2>1, <2>4, ReplacedLine
  <2>6. W[Len(c.lines)] = R[Len(c.lines)]
    BY <2>4, RewrittenShape
  <2>7. Len(c.lines) \in DOMAIN W
    BY <1>1, <1>2, <2>4
  <2>8. QED
    BY <2>3, <2>5, <2>6, <2>7
<1>6. QED
  BY <1>4, <1>5 DEF ReadsAsWanted

\* The file keeps the lines of other tools, and if its last newline lacks, then so it
\* did before and nothing was appended.
Descends(old, new) ==
  /\ KeepsForeign(old, new)
  /\ ~new.ended =>
       /\ ~old.ended /\ Len(new.lines) = Len(old.lines)
       /\ \A i \in Foreign(old) : new.lines[i] = old.lines[i]

LEMMA RewriteDescends ==
  ASSUME NEW c \in SpiConfs, NEW want \in [Keys -> Int]
  PROVE  Rewrite(c, want) \in SpiConfs /\ Descends(c, Rewrite(c, want))
<1> DEFINE W == Rewritten(c, want)
           R == Replaced(c, want)
           d == Rewrite(c, want)
<1>1. c.lines \in Seq(LineOfConf) /\ DOMAIN c.lines = 1..Len(c.lines) /\ c.ended \in BOOLEAN
  BY DEF SpiConfs
<1>2. W \in Seq(LineOfConf) /\ DOMAIN W = 1..Len(W) /\ Len(c.lines) <= Len(W)
  BY RewrittenShape
<1>3. d.lines = W /\ d \in SpiConfs /\ (d.ended <=> ~Unfinished(c) \/ GluedKey(c) # NoTail)
  BY <1>2 DEF Rewrite, SpiConfs
<1>4. \A i \in 1..Len(c.lines) : i \in 1..Len(W) /\ W[i] = R[i]
  BY <1>1, <1>2, RewrittenShape
<1>5. ASSUME NEW i \in 1..Len(W), i \notin 1..Len(c.lines) PROVE W[i].key \in Keys
  <2>1. i > Len(c.lines)
    BY <1>1, <1>5
  <2>2. PICK k \in Unread(c) \ {GluedKey(c)} : W[i] = Line(k, want[k])
    BY <2>1, RewrittenShape
  <2>3. QED
    BY <2>2, GluedKeyIsUnread DEF Line
<1>6. \A i \in 1..Len(c.lines) : W[i].key = c.lines[i].key
  BY <1>4, ReplacedLine
<1>7. Foreign(c) = Foreign(d)
  BY <1>1, <1>2, <1>3, <1>4, <1>5, <1>6 DEF Foreign
<1>8. ASSUME NEW i \in Foreign(c)
      PROVE  \/ W[i] = c.lines[i]
             \/ /\ GluedKey(c) # NoTail /\ i = Len(c.lines)
                /\ W[i] = [c.lines[i] EXCEPT !.tail = GluedKey(c)]
  <2>1. i \in 1..Len(c.lines) /\ c.lines[i].key \notin Keys
    BY <1>1 DEF Foreign
  <2>2. W[i] = R[i]
    BY <1>4, <2>1
  <2>3. QED
    BY <2>1, <2>2, ForeignLine, Zenon
<1>9. KeepsForeign(c, d)
  <2>1. GluedKey(c) # NoTail => ~c.ended /\ GluedKey(c) \in Keys
    BY GluedKeyIsUnread DEF Unfinished
  <2>2. QED
    BY <1>3, <1>7, <1>8, <2>1 DEF KeepsForeign
<1>10. ASSUME ~d.ended
       PROVE  /\ ~c.ended /\ Len(W) = Len(c.lines)
              /\ \A i \in Foreign(c) : W[i] = c.lines[i]
  <2>1. Unfinished(c) /\ GluedKey(c) = NoTail
    BY <1>3, <1>10
  <2>2. Unread(c) = {}
    BY <2>1, GluedKeyIsUnread
  <2>3. ~(Len(W) > Len(c.lines))
    <3> SUFFICES ASSUME Len(W) > Len(c.lines) PROVE FALSE
      OBVIOUS
    <3>1. Len(W) \in 1..Len(W)
      BY <1>1, <1>2
    <3>2. QED
      BY <2>2, <3>1, RewrittenShape
  <2>4. Len(W) = Len(c.lines)
    BY <1>1, <1>2, <2>3
  <2>5. QED
    BY <1>8, <2>1, <2>4 DEF Unfinished
<1>11. QED
  BY <1>3, <1>9, <1>10 DEF Descends

\* Rewriting a file that was rewritten keeps them too.
LEMMA DescendsChain ==
  ASSUME NEW a, NEW b, NEW c, Descends(a, b), Descends(b, c)
  PROVE  Descends(a, c)
<1>1. Foreign(a) = Foreign(b) /\ Foreign(b) = Foreign(c)
  BY DEF Descends, KeepsForeign
<1>2. ASSUME NEW i \in Foreign(a)
      PROVE  \/ c.lines[i] = a.lines[i]
             \/ /\ ~a.ended /\ i = Len(a.lines)
                /\ \E k \in Keys : c.lines[i] = [a.lines[i] EXCEPT !.tail = k]
  <2>1. CASE c.lines[i] = b.lines[i]
    BY <2>1 DEF Descends, KeepsForeign
  <2>2. CASE c.lines[i] # b.lines[i]
    <3>1. /\ ~b.ended /\ i = Len(b.lines)
          /\ \E k \in Keys : c.lines[i] = [b.lines[i] EXCEPT !.tail = k]
      BY <1>1, <2>2 DEF Descends, KeepsForeign
    <3>2. ~a.ended /\ Len(b.lines) = Len(a.lines) /\ b.lines[i] = a.lines[i]
      BY <3>1 DEF Descends
    <3>3. QED
      BY <3>1, <3>2
  <2>3. QED
    BY <2>1, <2>2
<1>3. KeepsForeign(a, c)
  BY <1>1, <1>2 DEF KeepsForeign
<1>4. ASSUME ~c.ended
      PROVE  /\ ~a.ended /\ Len(c.lines) = Len(a.lines)
             /\ \A i \in Foreign(a) : c.lines[i] = a.lines[i]
  BY <1>1, <1>4 DEF Descends
<1>5. QED
  BY <1>3, <1>4 DEF Descends

LEMMA SettingsOfVersion == \A v \in Versions : Settings(v) \in [Keys -> Int]
BY ReloadAssumption DEF Settings, Keys

LEMMA NoFile == Absent \in SpiConfs /\ Partial \in SpiConfs
BY DEF Absent, Partial, SpiConfs

\* A file made of an absent one has the keys only.
LEMMA ScratchHasNoForeign ==
  ASSUME NEW want \in [Keys -> Int]
  PROVE  Foreign(Rewrite(Absent, want)) = {}
<1>1. Foreign(Absent) = {}
  BY DEF Foreign, Absent
<1>2. QED
  BY <1>1, NoFile, RewriteDescends DEF Descends, KeepsForeign
-----------------------------------------------------------------------------
(* Types *)

LEMMA SettingsTypes ==
  ASSUME NEW lines \in Seq(LineOfConf)
  PROVE  ReadSettings(lines) \in [Keys -> Int]
<1>1. ASSUME NEW k \in Keys PROVE ReadKV(lines, k) \in Int
  <2>1. CASE Hits(lines, k) = {}
    BY <2>1 DEF ReadKV, NoValue
  <2>2. CASE Hits(lines, k) # {}
    <3>1. Hits(lines, k) \subseteq Nat
      BY DEF Hits
    <3>2. \E i \in Hits(lines, k) : \A j \in Hits(lines, k) : i <= j
      BY <2>2, <3>1, LeastHit
    <3>3. FirstHit(lines, k) \in Hits(lines, k)
      BY <3>2 DEF FirstHit
    <3>4. lines[FirstHit(lines, k)] \in LineOfConf
      BY <3>3 DEF Hits
    <3>5. QED
      BY <2>2, <3>4 DEF ReadKV, LineOfConf
  <2>3. QED
    BY <2>1, <2>2
<1>2. QED
  BY <1>1 DEF ReadSettings

LEMMA BusTypes ==
  \A v \in Versions : Pi[v].bus \in Buses /\ Pi[v].pin \in Pins
                      /\ Params(v) \in [mode : Int, clock : Int]
BY ReloadAssumption DEF Buses, Pins, Params

LEMMA FaultTypes == TypeOK /\ Fault => faults' \in 0..MaxFaults /\ faults' > 0
BY ReloadAssumption DEF TypeOK, Fault

LEMMA TypesStart == Init => TypeOK
<1> SUFFICES ASSUME Init PROVE TypeOK
  OBVIOUS
<1>1. conf \in SpiConfs /\ tmp \in SpiConfs /\ boot \in BootConfs
  BY ReloadAssumption, NoFile DEF Init
<1>2. driver \in [up : BOOLEAN, settings : [Keys -> Int]]
  BY <1>1, SettingsTypes DEF Init, SpiConfs
<1>3. device \in [Buses -> [mode : Int, clock : Int]]
  BY DEF Init, Unset, NoValue
<1>4. QED
  BY <1>1, <1>2, <1>3, ReloadAssumption DEF Init, TypeOK, Versions, NoLink

LEMMA DieTypes ==
  ASSUME TypeOK, Die, faults' \in 0..MaxFaults
  PROVE  TypeOK'
BY NoFile, ReloadAssumption DEF Die, Fresh, TypeOK, Versions, NoLink, disk, dwc

LEMMA OpenTypes ==
  ASSUME TypeOK, NEW v \in Versions, Opens(v) \/ FailsToOpen(v)
  PROVE  /\ link' \in [bus : Buses \cup {0}, configured : BOOLEAN] /\ fds' \subseteq Buses
         /\ device' \in [Buses -> [mode : Int, clock : Int]] /\ faults' \in 0..MaxFaults
<1>1. Pi[v].bus \in Buses /\ Params(v) \in [mode : Int, clock : Int]
  BY BusTypes
<1>2. CASE Opens(v)
  BY <1>1, <1>2 DEF Opens, TypeOK
<1>3. CASE FailsToOpen(v)
  BY <1>1, <1>3, FaultTypes DEF FailsToOpen, TypeOK
<1>4. QED
  BY <1>2, <1>3

LEMMA CloseTypes ==
  ASSUME TypeOK, Closes
  PROVE  /\ link' \in [bus : Buses \cup {0}, configured : BOOLEAN] /\ fds' \subseteq Buses
         /\ faults' \in 0..MaxFaults
BY FaultTypes DEF Closes, TypeOK

LEMMA GiveUpTypes ==
  ASSUME TypeOK, GiveUpConf
  PROVE  TypeOK'
BY NoFile, FaultTypes DEF GiveUpConf, TypeOK, disk, dwc, bus, dr, watch, sig, AfterApply

LEMMA PinTypes ==
  ASSUME TypeOK, NEW v \in Versions, ArmPin(v) \/ FailsToArm(v)
  PROVE  /\ pin' \in Pins \cup {NoPin} /\ armed' \subseteq Pins
         /\ faults' \in 0..MaxFaults
BY BusTypes, FaultTypes DEF ArmPin, FailsToArm, TypeOK

\* Types are kept.
LEMMA TypeStep ==
  ASSUME TypeOK, Next
  PROVE  TypeOK'
<1>1. CASE Edit
  BY <1>1, ReloadAssumption
  DEF Edit, Versions, TypeOK, AfterApply, StartUp, Reloading, spiconf, dwc, bus, dr,
      watch, sig, started
<1>2. CASE Remove
  BY <1>2, ReloadAssumption
  DEF Remove, Versions, TypeOK, AfterApply, StartUp, Reloading, spiconf, dwc, bus, dr,
      watch, sig, started
<1>3. CASE Hangup
  BY <1>3
  DEF Hangup, TypeOK, AfterApply, StartUp, Reloading, disk, spiconf, dwc, bus, dr,
      watch, started
<1>4. CASE Kill
  BY <1>4, DieTypes, FaultTypes DEF Kill
<1>5. CASE Again
  BY <1>5
  DEF Again, TypeOK, AfterApply, StartUp, Reloading, disk, spiconf, dwc, bus, dr,
      watch, sig
<1>6. CASE LoadAtStart
  <2>1. cfg' \in Versions /\ wanted' \in Versions
    BY <1>6, ReloadAssumption DEF LoadAtStart, TypeOK, Versions
  <2>2. pc' \in StartUp
    BY <1>6 DEF LoadAtStart, StartUp
  <2>3. QED
    BY <1>6, <2>1, <2>2
    DEF LoadAtStart, TypeOK, AfterApply, StartUp, Reloading, disk, spiconf, dwc,
        bus, dr, watch, sig
<1>7. CASE InstallSighup
  BY <1>7
  DEF InstallSighup, TypeOK, AfterApply, StartUp, Reloading, disk, spiconf, dwc, bus,
      dr, watch, started
<1>8. CASE ShmSetup
  <2>1. CASE Die /\ faults' \in 0..MaxFaults
    BY <2>1, DieTypes
  <2>2. CASE ~(Die /\ faults' \in 0..MaxFaults)
    BY <1>8, <2>2, FaultTypes
    DEF ShmSetup, TypeOK, AfterApply, StartUp, Reloading, disk, spiconf, dwc, bus,
        dr, watch, sig, started
  <2>3. QED
    BY <2>1, <2>2
<1>9. CASE CompareConf
  BY <1>9, FaultTypes
  DEF CompareConf, TypeOK, AfterApply, StartUp, Reloading, disk, spiconf, dwc, bus,
      dr, watch, sig, started
<1>10. CASE OpenTmp
  <2>1. CASE ~GiveUpConf
    BY <1>10, <2>1, NoFile
    DEF OpenTmp, RestOfApply, TypeOK, AfterApply, StartUp, Reloading, disk, dwc,
        bus, dr, watch, sig, started
  <2>2. QED
    BY <2>1, GiveUpTypes
<1>11. CASE FillTmp
  <2>1. /\ Rewrite(conf, Settings(cfg)) \in SpiConfs
        /\ Rewrite(Absent, Settings(cfg)) \in SpiConfs
    BY SettingsOfVersion, NoFile, RewriteDescends DEF TypeOK
  <2>2. CASE ~GiveUpConf
    <3>1. /\ pc' = "rename" /\ tmp' \in SpiConfs /\ faults' \in 0..MaxFaults
          /\ UNCHANGED <<disk, conf, dwc, cfg, next, bus, dr, watch, sig, started>>
      BY <1>11, <2>1, <2>2, FaultTypes DEF FillTmp, RestOfApply, TypeOK
    <3>2. QED
      BY <3>1
      DEF TypeOK, AfterApply, StartUp, Reloading, disk, dwc, bus, dr, watch, sig, started
  <2>3. QED
    BY <2>2, GiveUpTypes
<1>12. CASE RenameTmp
  <2>1. CASE ~GiveUpConf
    BY <1>12, <2>1, NoFile
    DEF RenameTmp, RestOfApply, TypeOK, AfterApply, StartUp, Reloading, disk, dwc,
        bus, dr, watch, sig, started
  <2>2. QED
    BY <2>1, GiveUpTypes
<1>13. CASE Slay
  BY <1>13, FaultTypes
  DEF Slay, TypeOK, AfterApply, StartUp, Reloading, disk, spiconf, bus, dr, watch, sig,
      started
<1>14. CASE Respawn
  <2>1. [up |-> TRUE, settings |-> ReadSettings(conf.lines)]
           \in [up : BOOLEAN, settings : [Keys -> Int]]
    BY SettingsTypes DEF TypeOK, SpiConfs
  <2>2. [b \in Buses |-> Unset] \in [Buses -> [mode : Int, clock : Int]]
    BY DEF Unset, NoValue
  <2>3. CASE ~GiveUpConf
    <3>1. /\ pc' = "open" /\ faults' \in 0..MaxFaults
          /\ driver' \in [up : BOOLEAN, settings : [Keys -> Int]]
          /\ device' \in [Buses -> [mode : Int, clock : Int]]
          /\ UNCHANGED <<disk, spiconf, cfg, next, bus, dr, watch, sig, started>>
      BY <1>14, <2>1, <2>2, <2>3, FaultTypes
      DEF Respawn, DriverComesUp, DriverStaysAway, TypeOK, dwc
    <3>2. QED
      BY <3>1
      DEF TypeOK, AfterApply, StartUp, Reloading, disk, spiconf, bus, dr, watch, sig,
          started
  <2>4. QED
    BY <2>3, GiveUpTypes
<1>15. CASE OpenAtStart
  <2>1. CASE Die /\ faults' \in 0..MaxFaults
    BY <2>1, DieTypes
  <2>2. CASE ~(Die /\ faults' \in 0..MaxFaults)
    BY <1>15, <2>2, OpenTypes, FaultTypes
    DEF OpenAtStart, TypeOK, AfterApply, StartUp, Reloading, disk, spiconf, bus, dr,
        watch, sig, started
  <2>3. QED
    BY <2>1, <2>2
<1>16. CASE DatareadySetup
  <2>1. CASE Die /\ faults' \in 0..MaxFaults
    BY <2>1, DieTypes
  <2>2. CASE ~(Die /\ faults' \in 0..MaxFaults)
    BY <1>16, <2>2, PinTypes, FaultTypes
    DEF DatareadySetup, TypeOK, AfterApply, StartUp, Reloading, disk, spiconf, dwc,
        bus, watch, sig, started
  <2>3. QED
    BY <2>1, <2>2
<1>17. CASE StartWatch
  BY <1>17
  DEF StartWatch, Rebase, TypeOK, AfterApply, StartUp, Reloading, disk, spiconf, dwc,
      bus, dr, watch, sig, started
<1>18. CASE IgnoreSighup
  BY <1>18
  DEF IgnoreSighup, TypeOK, AfterApply, StartUp, Reloading, disk, spiconf, dwc, bus,
      dr, watch, started
<1>19. CASE Poll
  BY <1>19
  DEF Poll, Rebase, TypeOK, AfterApply, StartUp, Reloading, disk, spiconf, dwc, bus,
      dr, watch, started
<1>20. CASE PollFlagOnly
  BY <1>20
  DEF PollFlagOnly, TypeOK, AfterApply, StartUp, Reloading, disk, spiconf, dwc, bus,
      dr, watch, started
<1>21. CASE LoadAgain
  BY <1>21, ReloadAssumption
  DEF LoadAgain, WireDiffers, BehindWire, Versions, TypeOK, AfterApply, StartUp,
      Reloading, disk, spiconf, dwc, bus, dr, watch, sig, started
<1>22. CASE CloseBus
  BY <1>22, CloseTypes, ReloadAssumption
  DEF CloseBus, RestOfReload, TypeOK, AfterApply, StartUp, Reloading, disk, spiconf,
      bus, dr, watch, sig, started
<1>23. CASE Reopen
  BY <1>23, OpenTypes, ReloadAssumption
  DEF Reopen, BehindWire, RestOfReload, TypeOK, AfterApply, StartUp, Reloading, disk,
      spiconf, bus, dr, watch, sig, started
<1>24. CASE Repoint
  BY <1>24, PinTypes
  DEF Repoint, RestOfReload, TypeOK, AfterApply, StartUp, Reloading, disk, spiconf,
      bus, watch, sig, started
<1>25. CASE Adopt
  BY <1>25, ReloadAssumption
  DEF Adopt, Versions, TypeOK, AfterApply, StartUp, Reloading, disk, spiconf, dwc,
      bus, dr, watch, sig, started
<1>26. CASE Sync
  BY <1>26
  DEF Sync, Rebase, TypeOK, AfterApply, StartUp, Reloading, disk, spiconf, dwc, bus,
      dr, watch, sig, started
<1>27. CASE Exchange
  BY <1>27, BusTypes, ReloadAssumption
  DEF Exchange, TypeOK, AfterApply, StartUp, Reloading, disk, spiconf, dwc, bus, dr,
      watch, sig, started
<1>28. CASE ResetClose
  BY <1>28, CloseTypes
  DEF ResetClose, RestOfReload, TypeOK, AfterApply, StartUp, Reloading, disk, spiconf,
      bus, dr, watch, sig, started
<1>29. CASE ResetOpen
  BY <1>29, OpenTypes
  DEF ResetOpen, RestOfReload, TypeOK, AfterApply, StartUp, Reloading, disk, spiconf,
      bus, dr, watch, sig, started
<1>30. CASE Stop
  BY <1>30, DieTypes DEF Stop, TypeOK
<1>31. QED
  BY <1>1, <1>2, <1>3, <1>4, <1>5, <1>6, <1>7, <1>8, <1>9, <1>10, <1>11, <1>12, <1>13,
      <1>14, <1>15, <1>16, <1>17, <1>18, <1>19, <1>20, <1>21, <1>22, <1>23, <1>24,
      <1>25, <1>26, <1>27, <1>28, <1>29, <1>30
  DEF Next, World, Start, HandleReload, Reset
-----------------------------------------------------------------------------
\* Calls that failed are never forgotten.
LEMMA FaultsStay ==
  ASSUME TypeOK, Next
  PROVE  faults > 0 => faults' > 0
<1>1. Fault => faults' > 0
  BY FaultTypes
<1>2. CASE UNCHANGED faults
  BY <1>2
<1>3. CASE World
  BY <1>1, <1>3 DEF World, Edit, Remove, Hangup, Kill, Again
<1>4. CASE Start
  <2>1. CASE LoadAtStart \/ InstallSighup \/ ShmSetup \/ CompareConf
    BY <2>1, <1>1 DEF LoadAtStart, InstallSighup, ShmSetup, CompareConf
  <2>2. CASE OpenTmp \/ FillTmp \/ RenameTmp \/ Slay \/ Respawn
    BY <2>2, <1>1
    DEF OpenTmp, FillTmp, RenameTmp, GiveUpConf, Slay, Respawn, DriverComesUp,
        DriverStaysAway, RestOfApply
  <2>3. CASE OpenAtStart \/ DatareadySetup \/ StartWatch \/ IgnoreSighup
    BY <2>3, <1>1
    DEF OpenAtStart, Opens, DatareadySetup, ArmPin, StartWatch, IgnoreSighup
  <2>4. QED
    BY <1>4, <2>1, <2>2, <2>3 DEF Start
<1>5. CASE Poll \/ PollFlagOnly \/ Exchange \/ Stop
  BY <1>5 DEF Poll, PollFlagOnly, Exchange, Stop
<1>6. CASE HandleReload \/ Reset
  BY <1>1, <1>6
  DEF HandleReload, LoadAgain, CloseBus, Closes, Reopen, Opens, FailsToOpen, Repoint,
      ArmPin, FailsToArm, Adopt, Sync, Reset, ResetClose, ResetOpen
<1>7. QED
  BY <1>3, <1>4, <1>5, <1>6 DEF Next

\* The settings of the start, as they read from spi.conf.
Applied(v) == ReadsAsWanted(conf.lines, Settings(v))

\* spi.conf reads as the controller wanted it at its start once it is replaced, and
\* unless a driver is still to come up with it, the driver runs with what it reads.
ConfInv ==
  /\ conf.state # "partial"
  /\ unbounced => pc \in {"slay", "respawn"} \/ faults > 0
  /\ ~unbounced => driver.up /\ driver.settings = ReadSettings(conf.lines)
  /\ pc \in {"slay", "respawn"} => unbounced
  /\ pc = "respawn" /\ driver.up => faults > 0
  /\ pc \in StartUp \cup {"ignore"} => cfg = wanted
  /\ pc = "rename" =>
       \/ tmp = Rewrite(conf, Settings(wanted))
       \/ faults > 0 /\ tmp = Rewrite(Absent, Settings(wanted))
  /\ pc \in {"slay", "respawn"} \cup AfterApply => skipped \/ Applied(wanted)

\* spi.conf and the driver.
LEMMA ConfStep ==
  ASSUME TypeOK, ConfInv, Next
  PROVE  ConfInv'
<1>0. (faults > 0 => faults' > 0) /\ (Fault => faults' > 0)
  BY FaultsStay, FaultTypes
<1>1. CASE Edit
  BY <1>0, <1>1
  DEF Edit, ChangeRaces, ConfInv, Applied, spiconf, dwc, started, StartUp, Reloading, AfterApply
<1>2. CASE Remove
  BY <1>0, <1>2 DEF Remove, ConfInv, Applied, spiconf, dwc, started, StartUp, Reloading, AfterApply
<1>3. CASE Hangup
  BY <1>0, <1>3 DEF Hangup, ConfInv, Applied, spiconf, dwc, started, StartUp, Reloading, AfterApply
<1>4. CASE Kill
  BY <1>0, <1>4 DEF Kill, Die, Fresh, ConfInv, Applied, dwc, StartUp, Reloading, AfterApply
<1>5. CASE Again
  BY <1>0, <1>5 DEF Again, ConfInv, Applied, spiconf, dwc, StartUp, Reloading, AfterApply
<1>6. CASE LoadAtStart
  BY <1>0, <1>6 DEF LoadAtStart, ConfInv, Applied, spiconf, dwc, StartUp, Reloading, AfterApply
<1>7. CASE InstallSighup
  BY <1>0, <1>7
  DEF InstallSighup, ConfInv, Applied, spiconf, dwc, started, StartUp, Reloading, AfterApply
<1>8. CASE ShmSetup
  BY <1>0, <1>8
  DEF ShmSetup, Die, Fresh, ConfInv, Applied, spiconf, dwc, started, StartUp, Reloading,
      AfterApply
<1>9. CASE CompareConf
  <2>1. CASE pc' = "rewrite"
    BY <1>0, <1>9, <2>1
    DEF CompareConf, ConfInv, Applied, StartUp, AfterApply, Reloading, spiconf, dwc, started
  <2>2. CASE pc' # "rewrite"
    <3>1. pc' = "open" /\ ~Differs(conf.lines, Settings(cfg)) /\ cfg = wanted
      BY <1>9, <2>2 DEF CompareConf, ConfInv, StartUp
    <3>2. Applied(wanted)
      BY <3>1 DEF Differs, Applied, ReadsAsWanted
    <3>3. QED
      BY <1>0, <1>9, <3>1, <3>2
      DEF CompareConf, ConfInv, Applied, StartUp, AfterApply, Reloading, spiconf, dwc,
          started
  <2>3. QED
    BY <2>1, <2>2
<1>10. CASE OpenTmp
  BY <1>0, <1>10
  DEF OpenTmp, GiveUpConf, RestOfApply, ConfInv, Applied, dwc, started, StartUp,
      Reloading, AfterApply
<1>11. CASE FillTmp
  BY <1>0, <1>11
  DEF FillTmp, GiveUpConf, RestOfApply, ConfInv, Applied, dwc, started, StartUp,
      Reloading, AfterApply
<1>12. CASE RenameTmp
  <2>1. CASE pc' = "slay"
    <3>1. /\ conf' = tmp /\ unbounced' = TRUE
          /\ UNCHANGED <<dwc, RestOfApply>>
      BY <1>12, <2>1 DEF RenameTmp, GiveUpConf
    <3>2. Settings(wanted) \in [Keys -> Int]
      BY SettingsOfVersion DEF TypeOK
    <3>3. /\ conf'.state = "whole"
          /\ \/ conf'.lines = Rewritten(conf, Settings(wanted))
             \/ conf'.lines = Rewritten(Absent, Settings(wanted))
      BY <1>12, <3>1 DEF RenameTmp, ConfInv, Rewrite
    <3>4. ReadsAsWanted(conf'.lines, Settings(wanted))
      BY <3>2, <3>3, NoFile, RewrittenReads DEF TypeOK
    <3>5. QED
      BY <1>0, <1>12, <2>1, <3>1, <3>3, <3>4
      DEF RenameTmp, RestOfApply, ConfInv, Applied, StartUp, AfterApply, Reloading, dwc,
          started
  <2>2. CASE pc' # "slay"
    BY <1>0, <1>12, <2>2
    DEF RenameTmp, GiveUpConf, ConfInv, Applied, StartUp, AfterApply, Reloading, dwc
  <2>3. QED
    BY <2>1, <2>2
<1>13. CASE Slay
  <2>1. driver'.up => faults' > 0
    BY <1>0, <1>13 DEF Slay, TypeOK
  <2>2. QED
    BY <1>0, <1>13, <2>1
    DEF Slay, ConfInv, Applied, spiconf, started, StartUp, Reloading, AfterApply
<1>14. CASE Respawn
  <2>1. CASE pc' = "open" /\ DriverComesUp /\ UNCHANGED <<spiconf, started, cfg>>
    <3>1. driver'.up /\ driver'.settings = ReadSettings(conf.lines) /\ ~unbounced'
      BY <2>1 DEF DriverComesUp
    <3>2. QED
      BY <1>0, <1>14, <2>1, <3>1
      DEF Respawn, ConfInv, Applied, spiconf, started, StartUp, AfterApply, Reloading
  <2>2. CASE pc' = "open" /\ DriverStaysAway /\ UNCHANGED <<spiconf, started, cfg>>
    <3>1. faults' > 0
      BY <1>0, <1>14, <2>2 DEF DriverStaysAway, Respawn, ConfInv
    <3>2. QED
      BY <1>14, <2>2, <3>1
      DEF Respawn, DriverStaysAway, ConfInv, Applied, spiconf, dwc, started, StartUp,
          AfterApply, Reloading
  <2>3. CASE GiveUpConf
    BY <1>0, <1>14, <2>3
    DEF Respawn, GiveUpConf, ConfInv, Applied, dwc, StartUp, AfterApply, Reloading
  <2>4. QED
    BY <1>14, <2>1, <2>2, <2>3 DEF Respawn
<1>15. CASE OpenAtStart
  BY <1>0, <1>15
  DEF OpenAtStart, Opens, Die, Fresh, ConfInv, Applied, spiconf, dwc, started, StartUp,
      Reloading, AfterApply
<1>16. CASE DatareadySetup
  BY <1>0, <1>16
  DEF DatareadySetup, ArmPin, Die, Fresh, ConfInv, Applied, spiconf, dwc, started,
      StartUp, Reloading, AfterApply
<1>17. CASE StartWatch
  BY <1>0, <1>17
  DEF StartWatch, Rebase, ConfInv, Applied, spiconf, dwc, started, StartUp, Reloading, AfterApply
<1>18. CASE IgnoreSighup
  BY <1>0, <1>18
  DEF IgnoreSighup, ConfInv, Applied, spiconf, dwc, started, StartUp, Reloading, AfterApply
<1>19. CASE Poll
  BY <1>0, <1>19
  DEF Poll, Rebase, ConfInv, Applied, spiconf, dwc, started, StartUp, Reloading, AfterApply
<1>20. CASE PollFlagOnly
  BY <1>0, <1>20
  DEF PollFlagOnly, ConfInv, Applied, spiconf, dwc, started, StartUp, Reloading, AfterApply
<1>21. CASE LoadAgain
  BY <1>0, <1>21
  DEF LoadAgain, WireDiffers, BehindWire, PinDiffers, ConfInv, Applied, spiconf, dwc, started,
      StartUp, Reloading, AfterApply
<1>22. CASE CloseBus
  BY <1>0, <1>22
  DEF CloseBus, Closes, Fault, RestOfReload, ConfInv, Applied, spiconf, started, StartUp,
      Reloading, AfterApply
<1>23. CASE Reopen
  BY <1>0, <1>23
  DEF Reopen, Opens, FailsToOpen, Fault, BehindWire, PinDiffers, RestOfReload,
      ConfInv, Applied, spiconf, started, StartUp, Reloading, AfterApply
<1>24. CASE Repoint
  BY <1>0, <1>24
  DEF Repoint, ArmPin, FailsToArm, Fault, RestOfReload, ConfInv, Applied, spiconf, started,
      StartUp, Reloading, AfterApply
<1>25. CASE Adopt
  BY <1>0, <1>25 DEF Adopt, ConfInv, Applied, spiconf, dwc, started, StartUp, Reloading, AfterApply
<1>26. CASE Sync
  BY <1>0, <1>26
  DEF Sync, Rebase, ConfInv, Applied, spiconf, dwc, started, StartUp, Reloading, AfterApply
<1>27. CASE Exchange
  BY <1>0, <1>27 DEF Exchange, ConfInv, Applied, spiconf, dwc, started, StartUp, Reloading, AfterApply
<1>28. CASE ResetClose
  BY <1>0, <1>28
  DEF ResetClose, Closes, Fault, RestOfReload, ConfInv, Applied, spiconf, started, StartUp,
      Reloading, AfterApply
<1>29. CASE ResetOpen
  BY <1>0, <1>29
  DEF ResetOpen, Opens, FailsToOpen, Fault, RestOfReload, ConfInv, Applied, spiconf, started,
      StartUp, Reloading, AfterApply
<1>30. CASE Stop
  BY <1>0, <1>30 DEF Stop, Die, Fresh, ConfInv, Applied, dwc, StartUp, Reloading, AfterApply
<1>31. QED
  BY <1>1, <1>2, <1>3, <1>4, <1>5, <1>6, <1>7, <1>8, <1>9, <1>10, <1>11, <1>12, <1>13,
      <1>14, <1>15, <1>16, <1>17, <1>18, <1>19, <1>20, <1>21, <1>22, <1>23, <1>24,
      <1>25, <1>26, <1>27, <1>28, <1>29, <1>30
  DEF Next, World, Start, HandleReload, Reset
-----------------------------------------------------------------------------
\* spi.conf has the lines of other tools that it had at boot, or none.
ForeignInv == Descends(boot, conf) \/ (faults > 0 /\ Foreign(conf) = {})

LEMMA ForeignStep ==
  ASSUME TypeOK, ConfInv, ForeignInv, Next
  PROVE  ForeignInv'
<1>1. CASE UNCHANGED <<conf, boot>>
  BY <1>1, FaultsStay DEF ForeignInv, Descends, KeepsForeign, Foreign
<1>2. CASE RenameTmp /\ conf' = tmp /\ UNCHANGED boot
  <2>1. Settings(wanted) \in [Keys -> Int] /\ conf \in SpiConfs
    BY SettingsOfVersion DEF TypeOK
  <2>2. CASE conf' = Rewrite(conf, Settings(wanted))
    <3>1. Descends(conf, Rewrite(conf, Settings(wanted)))
      BY <2>1, RewriteDescends
    <3>2. CASE Descends(boot, conf)
      <4>1. Descends(boot, Rewrite(conf, Settings(wanted)))
        BY <3>1, <3>2, DescendsChain
      <4>2. QED
        BY <1>2, <2>2, <4>1 DEF ForeignInv
    <3>3. CASE faults > 0 /\ Foreign(conf) = {}
      <4>1. Foreign(Rewrite(conf, Settings(wanted))) = {}
        BY <3>1, <3>3 DEF Descends, KeepsForeign
      <4>2. Foreign(conf') = {}
        BY <2>2, <4>1
      <4>3. Foreign(conf)' = {}
        BY <4>2 DEF Foreign
      <4>4. QED
        BY <3>3, <4>3, FaultsStay DEF ForeignInv
    <3>4. QED
      BY <3>2, <3>3 DEF ForeignInv
  <2>3. CASE faults > 0 /\ conf' = Rewrite(Absent, Settings(wanted))
    <3>1. Foreign(conf') = {}
      BY <2>1, <2>3, ScratchHasNoForeign
    <3>2. Foreign(conf)' = {}
      BY <3>1 DEF Foreign
    <3>3. QED
      BY <2>3, <3>2, FaultsStay DEF ForeignInv
  <2>4. QED
    BY <1>2, <2>2, <2>3 DEF RenameTmp, ConfInv
<1>3. CASE World
  BY <1>3, <1>1 DEF World, Edit, Remove, Hangup, Kill, Again, Die, spiconf, disk
<1>4. CASE Start
  <2>1. CASE \/ LoadAtStart \/ InstallSighup \/ ShmSetup \/ CompareConf
    BY <2>1, <1>1 DEF LoadAtStart, InstallSighup, ShmSetup, CompareConf, Die, spiconf, disk
  <2>2. CASE OpenTmp \/ FillTmp \/ RenameTmp \/ Slay \/ Respawn
    BY <2>2, <1>1, <1>2
    DEF OpenTmp, FillTmp, RenameTmp, GiveUpConf, RestOfApply, Slay, Respawn, spiconf, disk
  <2>3. CASE OpenAtStart \/ DatareadySetup \/ StartWatch \/ IgnoreSighup
    BY <2>3, <1>1
    DEF OpenAtStart, DatareadySetup, StartWatch, IgnoreSighup, Die, spiconf, disk
  <2>4. QED
    BY <1>4, <2>1, <2>2, <2>3 DEF Start
<1>5. CASE Poll \/ PollFlagOnly \/ Exchange \/ Stop
  BY <1>5, <1>1 DEF Poll, PollFlagOnly, Exchange, Stop, Die, spiconf, disk
<1>6. CASE HandleReload \/ Reset
  BY <1>6, <1>1
  DEF HandleReload, LoadAgain, CloseBus, Reopen, Repoint, Adopt, Sync, Reset, ResetClose,
      ResetOpen, RestOfReload, spiconf, disk
<1>7. QED
  BY <1>3, <1>4, <1>5, <1>6 DEF Next
-----------------------------------------------------------------------------
\* The pin belongs to the running configuration, and to the next one once it is armed.
PinOf(v) == pin = Pi[v].pin /\ (repointed => pin \in armed)

PinInv ==
  /\ pc \in {"watch", "ignore", "loop", "reload", "close", "reopen", "repoint", "sync",
             "reset", "revive"} => PinOf(cfg)
  /\ pc = "adopt" => PinOf(next)

\* Only dataready_arm_pin touches the pin.
LEMMA PinStep ==
  ASSUME TypeOK, PinInv, Next
  PROVE  PinInv'
<1>1. CASE Edit
  BY <1>1 DEF Edit, ChangeRaces, PinInv, PinOf, dr
<1>2. CASE Remove
  BY <1>2 DEF Remove, PinInv, PinOf, dr
<1>3. CASE Hangup
  BY <1>3 DEF Hangup, PinInv, PinOf, dr
<1>4. CASE Kill
  BY <1>4 DEF Kill, Die, Fresh, Fault, PinInv, PinOf
<1>5. CASE Again
  BY <1>5 DEF Again, PinInv, PinOf, dr
<1>6. CASE LoadAtStart
  BY <1>6 DEF LoadAtStart, PinInv, PinOf, dr
<1>7. CASE InstallSighup
  BY <1>7 DEF InstallSighup, PinInv, PinOf, dr
<1>8. CASE ShmSetup
  BY <1>8 DEF ShmSetup, Die, Fresh, Fault, PinInv, PinOf, dr
<1>9. CASE CompareConf
  BY <1>9 DEF CompareConf, Fault, PinInv, PinOf, dr
<1>10. CASE OpenTmp
  BY <1>10 DEF OpenTmp, GiveUpConf, RestOfApply, Fault, PinInv, PinOf, dr
<1>11. CASE FillTmp
  BY <1>11 DEF FillTmp, GiveUpConf, RestOfApply, Fault, PinInv, PinOf, dr
<1>12. CASE RenameTmp
  BY <1>12 DEF RenameTmp, GiveUpConf, RestOfApply, Fault, PinInv, PinOf, dr
<1>13. CASE Slay
  BY <1>13 DEF Slay, Fault, PinInv, PinOf, dr
<1>14. CASE Respawn
  BY <1>14 DEF Respawn, GiveUpConf, DriverComesUp, DriverStaysAway, Fault, PinInv, PinOf, dr
<1>15. CASE OpenAtStart
  BY <1>15 DEF OpenAtStart, Opens, Die, Fresh, Fault, PinInv, PinOf, dr
<1>16. CASE DatareadySetup
  BY <1>16 DEF DatareadySetup, ArmPin, Die, Fresh, Fault, PinInv, PinOf
<1>17. CASE StartWatch
  BY <1>17 DEF StartWatch, Rebase, PinInv, PinOf, dr
<1>18. CASE IgnoreSighup
  BY <1>18 DEF IgnoreSighup, PinInv, PinOf, dr
<1>19. CASE Poll
  BY <1>19 DEF Poll, Rebase, PinInv, PinOf, dr
<1>20. CASE PollFlagOnly
  BY <1>20 DEF PollFlagOnly, PinInv, PinOf, dr
<1>21. CASE LoadAgain
  BY <1>21 DEF LoadAgain, WireDiffers, BehindWire, PinDiffers, PinInv, PinOf, dr
<1>22. CASE CloseBus
  BY <1>22 DEF CloseBus, Closes, Fault, RestOfReload, PinInv, PinOf, dr
<1>23. CASE Reopen
  BY <1>23
  DEF Reopen, Opens, FailsToOpen, Fault, BehindWire, PinDiffers, RestOfReload, PinInv,
      PinOf, dr
<1>24. CASE Repoint
  BY <1>24 DEF Repoint, ArmPin, FailsToArm, Fault, RestOfReload, PinInv, PinOf
<1>25. CASE Adopt
  BY <1>25 DEF Adopt, PinInv, PinOf, dr
<1>26. CASE Sync
  BY <1>26 DEF Sync, Rebase, PinInv, PinOf, dr
<1>27. CASE Exchange
  BY <1>27 DEF Exchange, PinInv, PinOf, dr
<1>28. CASE ResetClose
  BY <1>28 DEF ResetClose, Closes, Fault, RestOfReload, PinInv, PinOf, dr
<1>29. CASE ResetOpen
  BY <1>29 DEF ResetOpen, Opens, FailsToOpen, Fault, RestOfReload, PinInv, PinOf, dr
<1>30. CASE Stop
  BY <1>30 DEF Stop, Die, Fresh, PinInv, PinOf
<1>31. QED
  BY <1>1, <1>2, <1>3, <1>4, <1>5, <1>6, <1>7, <1>8, <1>9, <1>10, <1>11, <1>12, <1>13,
      <1>14, <1>15, <1>16, <1>17, <1>18, <1>19, <1>20, <1>21, <1>22, <1>23, <1>24,
      <1>25, <1>26, <1>27, <1>28, <1>29, <1>30
  DEF Next, World, Start, HandleReload, Reset
-----------------------------------------------------------------------------
\* Where the bus points and what is open, before, during and after it is opened.
Points(v) == link.bus = Pi[v].bus /\ link.bus \in fds /\ device[link.bus] = Params(v)
Settled(v) ==
  /\ link.configured => Points(v)
  /\ faults = 0 => link.configured /\ fds = {Pi[v].bus}
Down == ~link.configured /\ (faults = 0 => fds = {})

LinkInv ==
  /\ pc \in (StartUp \ {"setup", "watch"}) \cup {"load", "dead"} => link = NoLink /\ fds = {}
  /\ pc \in {"setup", "watch", "ignore", "loop", "reload", "close", "sync", "reset"} =>
       Settled(cfg)
  /\ pc \in {"repoint", "adopt"} => Settled(next)
  /\ pc \in {"reopen", "revive"} => Down
  /\ pc \in AfterApply \ {"open"} => driver.up

\* A device that was opened is the one wanted, and the only one if none was open.
LEMMA OpenPoints ==
  ASSUME TypeOK, NEW v \in Versions, Opens(v), faults = 0 => fds = {}
  PROVE  /\ link'.configured /\ link'.bus = Pi[v].bus /\ link'.bus \in fds'
         /\ device'[link'.bus] = Params(v)
         /\ faults' = 0 => fds' = {Pi[v].bus}
<1>1. Pi[v].bus \in Buses
  BY ReloadAssumption DEF Buses
<1>2. QED
  BY <1>1 DEF Opens, TypeOK

\* With the driver running, only a failing call keeps a device from being opened.
LEMMA FailPoints ==
  ASSUME TypeOK, NEW v \in Versions, FailsToOpen(v), driver.up
  PROVE  ~link'.configured /\ faults' # 0
BY DEF FailsToOpen, Fault, TypeOK

LEMMA NotBoth ==
  ASSUME TypeOK, NEW v \in Versions, link'.configured
  PROVE  ~FailsToOpen(v)
BY DEF FailsToOpen, TypeOK

\* The bus.
LEMMA LinkStep ==
  ASSUME TypeOK, LinkInv, Next
  PROVE  LinkInv'
<1>1. CASE Edit
  BY <1>1
  DEF Edit, ChangeRaces, LinkInv, Points, Settled, Down, dwc, bus, StartUp, Reloading,
      AfterApply
<1>2. CASE Remove
  BY <1>2
  DEF Remove, LinkInv, Points, Settled, Down, dwc, bus, StartUp, Reloading, AfterApply
<1>3. CASE Hangup
  BY <1>3
  DEF Hangup, LinkInv, Points, Settled, Down, dwc, bus, StartUp, Reloading, AfterApply
<1>4. CASE Kill
  BY <1>4
  DEF Kill, Die, Fresh, Fault, LinkInv, Points, Settled, Down, dwc, StartUp,
      Reloading, AfterApply
<1>5. CASE Again
  BY <1>5
  DEF Again, LinkInv, Points, Settled, Down, dwc, bus, StartUp, Reloading, AfterApply
<1>6. CASE LoadAtStart
  BY <1>6
  DEF LoadAtStart, LinkInv, Points, Settled, Down, dwc, bus, StartUp, Reloading,
      AfterApply
<1>7. CASE InstallSighup
  BY <1>7
  DEF InstallSighup, LinkInv, Points, Settled, Down, dwc, bus, StartUp, Reloading,
      AfterApply
<1>8. CASE ShmSetup
  BY <1>8
  DEF ShmSetup, Die, Fresh, Fault, LinkInv, Points, Settled, Down, dwc, bus, StartUp,
      Reloading, AfterApply
<1>9. CASE CompareConf
  BY <1>9, FaultTypes
  DEF CompareConf, LinkInv, Points, Settled, Down, dwc, bus, StartUp, Reloading,
      AfterApply
<1>10. CASE OpenTmp
  BY <1>10
  DEF OpenTmp, GiveUpConf, RestOfApply, Fault, LinkInv, Points, Settled, Down, dwc,
      bus, StartUp, Reloading, AfterApply
<1>11. CASE FillTmp
  BY <1>11
  DEF FillTmp, GiveUpConf, RestOfApply, Fault, LinkInv, Points, Settled, Down, dwc,
      bus, StartUp, Reloading, AfterApply
<1>12. CASE RenameTmp
  BY <1>12
  DEF RenameTmp, GiveUpConf, RestOfApply, Fault, LinkInv, Points, Settled, Down, dwc,
      bus, StartUp, Reloading, AfterApply
<1>13. CASE Slay
  BY <1>13
  DEF Slay, Fault, LinkInv, Points, Settled, Down, bus, StartUp, Reloading,
      AfterApply
<1>14. CASE Respawn
  BY <1>14
  DEF Respawn, GiveUpConf, DriverComesUp, DriverStaysAway, Fault, LinkInv, Points,
      Settled, Down, dwc, bus, StartUp, Reloading, AfterApply
<1>15. CASE OpenAtStart
  <2>1. CASE Opens(cfg) /\ pc' = "setup" /\ UNCHANGED <<driver, cfg>>
    <3>1. fds = {}
      BY <1>15 DEF OpenAtStart, LinkInv, StartUp
    <3>2. Settled(cfg)' /\ driver.up
      BY <2>1, <3>1, OpenPoints DEF Opens, Settled, Points, TypeOK
    <3>3. QED
      BY <2>1, <3>2 DEF LinkInv, AfterApply, StartUp, Reloading
  <2>2. CASE Die
    BY <2>2 DEF Die, Fresh, LinkInv, AfterApply, StartUp, Reloading
  <2>3. QED
    BY <1>15, <2>1, <2>2 DEF OpenAtStart
<1>16. CASE DatareadySetup
  BY <1>16
  DEF DatareadySetup, ArmPin, Die, Fresh, Fault, LinkInv, Points, Settled, Down, dwc,
      bus, StartUp, Reloading, AfterApply
<1>17. CASE StartWatch
  BY <1>17
  DEF StartWatch, Rebase, LinkInv, Points, Settled, Down, dwc, bus, StartUp,
      Reloading, AfterApply
<1>18. CASE IgnoreSighup
  BY <1>18
  DEF IgnoreSighup, LinkInv, Points, Settled, Down, dwc, bus, StartUp, Reloading,
      AfterApply
<1>19. CASE Poll
  BY <1>19
  DEF Poll, Rebase, LinkInv, Points, Settled, Down, dwc, bus, StartUp, Reloading,
      AfterApply
<1>20. CASE PollFlagOnly
  BY <1>20
  DEF PollFlagOnly, LinkInv, Points, Settled, Down, dwc, bus, StartUp, Reloading,
      AfterApply
<1>21. CASE LoadAgain
  <2>1. CASE file \in Good /\ ~WireDiffers(file, cfg)
    <3>1. Settled(file)
      BY <1>21, <2>1
      DEF LoadAgain, LinkInv, Settled, Points, WireDiffers, Params, AfterApply,
          StartUp, Reloading
    <3>2. QED
      BY <1>21, <2>1, <3>1
      DEF LoadAgain, BehindWire, LinkInv, Settled, Points, dwc, bus, AfterApply,
          StartUp, Reloading
  <2>2. CASE ~(file \in Good /\ ~WireDiffers(file, cfg))
    BY <1>21, <2>2
    DEF LoadAgain, LinkInv, Settled, Points, dwc, bus, AfterApply, StartUp, Reloading
  <2>3. QED
    BY <2>1, <2>2
<1>22. CASE CloseBus
  <2>1. fds' = {} \/ faults' # 0
    BY <1>22 DEF CloseBus, Closes, Fault, LinkInv, Settled, Points, TypeOK
  <2>2. ~link'.configured
    BY <1>22 DEF CloseBus, Closes, TypeOK
  <2>3. QED
    BY <1>22, <2>1, <2>2
    DEF CloseBus, LinkInv, Down, RestOfReload, AfterApply, StartUp, Reloading
<1>23. CASE Reopen
  <2>1. driver.up /\ (faults = 0 => fds = {}) /\ UNCHANGED <<driver, next, cfg>>
    BY <1>23 DEF Reopen, LinkInv, Down, RestOfReload, AfterApply, Reloading
  <2>2. pc' \in {"reopen", "repoint", "adopt"}
    BY <1>23 DEF Reopen, BehindWire
  <2>3. CASE Opens(next)
    <3>1. Settled(next)' /\ link'.configured
      BY <2>1, <2>3, OpenPoints DEF Settled, Points, TypeOK
    <3>2. pc' # "reopen"
      BY <1>23, <2>3, <3>1, NotBoth DEF Reopen, BehindWire, TypeOK
    <3>3. QED
      BY <2>1, <2>2, <3>1, <3>2 DEF LinkInv, AfterApply, StartUp, Reloading
  <2>4. CASE FailsToOpen(next)
    BY <2>1, <2>2, <2>4, FailPoints
    DEF LinkInv, Settled, Down, TypeOK, AfterApply, StartUp, Reloading
  <2>5. QED
    BY <1>23, <2>3, <2>4 DEF Reopen
<1>24. CASE Repoint
  BY <1>24
  DEF Repoint, ArmPin, FailsToArm, Fault, LinkInv, Points, Settled, RestOfReload,
      TypeOK, AfterApply, StartUp, Reloading
<1>25. CASE Adopt
  BY <1>25
  DEF Adopt, LinkInv, Points, Settled, Down, dwc, bus, StartUp, Reloading, AfterApply
<1>26. CASE Sync
  BY <1>26
  DEF Sync, Rebase, LinkInv, Points, Settled, Down, dwc, bus, StartUp, Reloading,
      AfterApply
<1>27. CASE Exchange
  BY <1>27
  DEF Exchange, LinkInv, Points, Settled, Down, dwc, bus, StartUp, Reloading, AfterApply
<1>28. CASE ResetClose
  <2>1. fds' = {} \/ faults' # 0
    BY <1>28 DEF ResetClose, Closes, Fault, LinkInv, Settled, Points, TypeOK
  <2>2. ~link'.configured
    BY <1>28 DEF ResetClose, Closes, TypeOK
  <2>3. QED
    BY <1>28, <2>1, <2>2
    DEF ResetClose, LinkInv, Down, RestOfReload, AfterApply, StartUp, Reloading
<1>29. CASE ResetOpen
  <2>1. driver.up /\ (faults = 0 => fds = {}) /\ UNCHANGED <<driver, next, cfg>>
    BY <1>29 DEF ResetOpen, LinkInv, Down, RestOfReload, AfterApply, Reloading
  <2>2. CASE Opens(cfg)
    <3>1. Settled(cfg)'
      BY <2>1, <2>2, OpenPoints DEF Settled, Points, TypeOK
    <3>2. QED
      BY <1>29, <2>1, <3>1 DEF ResetOpen, LinkInv, AfterApply, StartUp, Reloading
  <2>3. CASE FailsToOpen(cfg)
    BY <1>29, <2>1, <2>3, FailPoints
    DEF ResetOpen, LinkInv, Settled, TypeOK, AfterApply, StartUp, Reloading
  <2>4. QED
    BY <1>29, <2>2, <2>3 DEF ResetOpen
<1>30. CASE Stop
  BY <1>30
  DEF Stop, Die, Fresh, LinkInv, Points, Settled, Down, dwc, StartUp, Reloading,
      AfterApply
<1>31. QED
  BY <1>1, <1>2, <1>3, <1>4, <1>5, <1>6, <1>7, <1>8, <1>9, <1>10, <1>11, <1>12, <1>13,
      <1>14, <1>15, <1>16, <1>17, <1>18, <1>19, <1>20, <1>21, <1>22, <1>23, <1>24,
      <1>25, <1>26, <1>27, <1>28, <1>29, <1>30
  DEF Next, World, Start, HandleReload, Reset
-----------------------------------------------------------------------------
(* The theorems *)

IInv == TypeOK /\ ConfInv /\ ForeignInv /\ PinInv /\ LinkInv

LEMMA Starts == Init => IInv
<1> SUFFICES ASSUME Init PROVE IInv
  OBVIOUS
<1>1. conf.state # "partial"
  BY ReloadAssumption DEF Init
<1>2. ForeignInv
  BY DEF Init, ForeignInv, Descends, KeepsForeign
<1>3. QED
  BY <1>1, <1>2, TypesStart
  DEF Init, IInv, ConfInv, PinInv, LinkInv, StartUp, AfterApply, Reloading

LEMMA Keeps == IInv /\ [Next]_vars => IInv'
<1> SUFFICES ASSUME IInv, [Next]_vars PROVE IInv'
  OBVIOUS
<1>1. CASE Next
  BY <1>1, TypeStep, ConfStep, ForeignStep, PinStep, LinkStep DEF IInv
<1>2. CASE UNCHANGED vars
  <2>1. ForeignInv'
    BY <1>2
    DEF vars, disk, spiconf, IInv, ForeignInv, Descends, KeepsForeign, Foreign
  <2>2. TypeOK' /\ ConfInv' /\ PinInv' /\ LinkInv'
    BY <1>2
    DEF vars, disk, spiconf, dwc, bus, dr, watch, sig, started, IInv, TypeOK, ConfInv,
        Applied, PinInv, PinOf, LinkInv, Settled, Points, Down
  <2>3. QED
    BY <2>1, <2>2 DEF IInv
<1>3. QED
  BY <1>1, <1>2

LEMMA Always == Spec => []IInv
BY Starts, Keeps, PTL DEF Spec

\* The state of the controller keeps its types.
THEOREM TypesAreKept == Spec => []TypeOK
<1>1. IInv => TypeOK
  BY DEF IInv
<1>2. QED
  BY <1>1, Always, PTL

\* spi.conf is complete at every moment, whatever it held at boot and wherever calls
\* fail and controllers die: with all the lines of other tools, or, once an existing
\* file could not be opened, with none; and after it was applied no key has an older
\* value.
THEOREM ConfStaysWhole == Spec => []ConfIsWhole
<1>1. ASSUME IInv PROVE ConfIsWhole
  <2>1. KeepsForeign(boot, conf) \/ (faults > 0 /\ Foreign(conf) = {})
    BY <1>1 DEF IInv, ForeignInv, Descends
  <2>2. conf.state # "partial"
    BY <1>1 DEF IInv, ConfInv
  <2>3. ASSUME pc \in {"open", "setup", "watch", "ignore"}, ~skipped
        PROVE  ReadsAsWanted(conf.lines, Settings(cfg))
    BY <1>1, <2>3 DEF IInv, ConfInv, Applied, StartUp, AfterApply
  <2>4. QED
    BY <2>1, <2>2, <2>3 DEF ConfIsWhole
<1>2. QED
  BY <1>1, Always, PTL

\* A driver runs with the spi.conf that is there, unless a call failed or a controller
\* died, and in the loop spi.conf reads as the controller wanted it when it started,
\* also after reloads, whatever it held at boot.
THEOREM DriverIsInLine == Spec => []DriverRunsStartConf
<1>1. IInv => DriverRunsStartConf
  BY DEF IInv, ConfInv, Applied, DriverRunsStartConf, AfterApply
<1>2. QED
  BY <1>1, Always, PTL

\* A bus that counts as configured is the one of the running configuration.
THEOREM LinkIsInLine == Spec => []LinkIsTrue
<1>1. IInv => LinkIsTrue
  BY DEF IInv, LinkInv, Settled, Points, LinkIsTrue
<1>2. QED
  BY <1>1, Always, PTL

\* The polled pin is the configured one, and armed unless arming failed.
THEOREM PinIsInLine == Spec => []PinIsArmed
<1>1. IInv => PinIsArmed
  BY DEF IInv, PinInv, PinOf, PinIsArmed
<1>2. QED
  BY <1>1, Always, PTL
=============================================================================
