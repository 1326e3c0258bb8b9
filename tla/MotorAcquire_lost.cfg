\* A request stored between the read and the clear of the service.
SPECIFICATION FairAcquireSpec
CONSTANTS
  StallBlocks = 1
  SeqMod = 1
  MaxSeq = 1
  BootConfig <- MCBoot
  Commands <- TwoChanges
  NoCmd = NoCmd
PROPERTY EffectsLand
