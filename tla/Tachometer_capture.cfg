\* Edges, age-outs, a stop and a start in every order of their accesses.
SPECIFICATION Spec
CONSTANTS
  Wrap = 3
  Stale = 7
  BlockGap = 2
INVARIANT SpeedIsTrue
PROPERTY QuietReadsZero
