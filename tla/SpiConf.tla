------------------------------ MODULE SpiConf ------------------------------
(***************************************************************************)
(* The text of spi.conf as config.c reads and rewrites it: lines of a key  *)
(* and a value.  Lines that set none of the keys of the controller are     *)
(* passed through.  The last line may lack its newline; what is printed    *)
(* next then continues it, and the key in that tail is never read.         *)
(***************************************************************************)
EXTENDS Integers, Sequences

\* Two of the four keys of spi_apply_conf; word_width and idle_insert are treated
\* in the same way.
Keys == {"clock_rate", "cpha"}

NoValue == -1
NoTail  == "none"
Line(k, v) == [key |-> k, val |-> v, tail |-> NoTail]

Hits(lines, k) == {i \in DOMAIN lines : lines[i].key = k}
FirstHit(lines, k) ==
  CHOOSE i \in Hits(lines, k) : \A j \in Hits(lines, k) : i <= j

\* read_current_kv: the first line that sets the key.
ReadKV(lines, k) ==
  IF Hits(lines, k) = {} THEN NoValue ELSE lines[FirstHit(lines, k)].val

ReadSettings(lines) == [k \in Keys |-> ReadKV(lines, k)]

\* any_diff: a key that cannot be read counts.
Differs(lines, want) == \E k \in Keys : ReadKV(lines, k) # want[k]

\* A last line of another tool is copied as it is, without a newline if it has none,
\* and the first key that is appended continues it.
Unread(c)     == {k \in Keys : Hits(c.lines, k) = {}}
Unfinished(c) == ~c.ended /\ c.lines # <<>> /\ c.lines[Len(c.lines)].key \notin Keys

GluedKey(c) ==
  IF ~Unfinished(c) \/ Unread(c) = {} THEN NoTail
  ELSE IF "clock_rate" \in Unread(c) THEN "clock_rate" ELSE "cpha"

\* Every line that sets one of the keys gets the value wanted ...
Replaced(c, want) ==
  [i \in DOMAIN c.lines |->
     IF c.lines[i].key \in Keys THEN Line(c.lines[i].key, want[c.lines[i].key])
     ELSE IF i = Len(c.lines) /\ GluedKey(c) # NoTail
            THEN [c.lines[i] EXCEPT !.tail = GluedKey(c)] ELSE c.lines[i]]

\* ... and the keys without a line are appended.
Missing(c, want, k) ==
  IF k \in Unread(c) /\ k # GluedKey(c) THEN <<Line(k, want[k])>> ELSE <<>>

Rewritten(c, want) ==
  Replaced(c, want) \o Missing(c, want, "clock_rate") \o Missing(c, want, "cpha")

\* The file that rewrite_spi_conf makes of the file c.
Rewrite(c, want) ==
  [state |-> "whole", lines |-> Rewritten(c, want),
   ended |-> ~Unfinished(c) \/ GluedKey(c) # NoTail]
=============================================================================
