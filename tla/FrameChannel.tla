---------------------------- MODULE FrameChannel ----------------------------
(***************************************************************************)
(* What the STM32 transmitter promises its master: a channel of numbered   *)
(* blocks that may lose blocks, but never reorders or repeats one and      *)
(* never delivers one that is more than Depth blocks old.                  *)
(***************************************************************************)
EXTENDS Integers

CONSTANT Depth

VARIABLES
  produced,    \* blocks assembled so far; the next one gets this number
  delivered    \* number of the last block delivered, -1 before the first

Init == produced = 0 /\ delivered = -1

Produce == produced' = produced + 1 /\ UNCHANGED delivered

Deliver ==
  /\ delivered' \in (delivered + 1)..(produced - 1)
  /\ produced - delivered' <= Depth
  /\ UNCHANGED produced

Next == Produce \/ Deliver

Spec == Init /\ [][Next]_<<produced, delivered>>
=============================================================================
