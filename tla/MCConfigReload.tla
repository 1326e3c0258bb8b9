--------------------------- MODULE MCConfigReload ---------------------------
(* Versions that differ from one another in one part of the pi tier at a time. *)
EXTENDS ConfigReload, TLC

Tier(b, m, k, a, p) == [bus |-> b, mode |-> m, clock |-> k, cpha |-> a, pin |-> p]

MCMaxEdits == 4
MCGood == {1, 2, 4}
MCPi == 0 :> Tier(1, 0, 4, 0, 17) @@ 1 :> Tier(1, 1, 4, 0, 17)
        @@ 2 :> Tier(1, 1, 4, 0, 22) @@ 3 :> Tier(1, 1, 4, 0, 22)
        @@ 4 :> Tier(2, 1, 4, 1, 17)

\* No file, one with another value, and one that lacks a key and its last newline.
MCBootConfs ==
  {Absent, Whole(<<Line("log", 7), Line("clock_rate", 4), Line("cpha", 9)>>),
   [Whole(<<Line("clock_rate", 4), Line("log", 7)>>) EXCEPT !.ended = FALSE]}
=============================================================================
