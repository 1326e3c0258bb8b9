--------------------------- MODULE AtomicSnapshot ---------------------------
(***************************************************************************)
(* What the snapshot of the shared-memory region promises a dashboard: a   *)
(* register that is written and read at once.  A read shows the newest     *)
(* published frame, all of it, or shows nothing new.                       *)
(***************************************************************************)
EXTENDS Integers

VARIABLES
  published,   \* number of the newest frame published
  shown        \* number of the frame the dashboard shows

Init == published = 0 /\ shown = 0

Publish == published' = published + 1 /\ UNCHANGED shown
Show    == shown' = published /\ UNCHANGED published

Spec == Init /\ [][Publish \/ Show]_<<published, shown>>
=============================================================================
