\* Missed edges, stale pulses, failed and damaged exchanges, one reset of the board.
SPECIFICATION FairLoopSpec
CONSTANTS
  StallBlocks = 2
  SeqMod = 4096
  MaxSeq = 3
  BootConfig <- MCBoot
  Commands <- NoCommands
  NoCmd = NoCmd
  MissLimit = 2
  BadLimit = 2
  MaxResets = 1
INVARIANTS
  LoopTypeOK
  EveryBlockCountsOnce
  NoFalseReset
PROPERTIES
  PublishedInOrder
  ArmedIsRead
