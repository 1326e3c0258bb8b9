\* Laps, retries and one restart of the producer.
SPECIFICATION Spec
CONSTANTS
  Depth = 2
  Tries = 2
  PosMod = 64
  LockMod = 64
  MaxBlocks = 5
  MaxRestarts = 1
INVARIANTS
  BlockConsistent
  NeverOlder
  Accounted
