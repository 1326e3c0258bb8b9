\* Reads against publications, in every order of their accesses.
SPECIFICATION FairSpec
CONSTANTS
  Tries = 3
  LockMod = 64
  MaxFrames = 6
INVARIANT Consistent
PROPERTIES
  ImplementsRegister
  ReadReturns
