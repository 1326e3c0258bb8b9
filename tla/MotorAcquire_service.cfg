\* Changes of every field and a stop, with interrupts between any two accesses of the service.
\* One-value sequence numbers and no queue: the order of frames is not looked at.
SPECIFICATION FairAcquireSpec
CONSTANTS
  StallBlocks = 1
  SeqMod = 1
  MaxSeq = 1
  BootConfig <- MCBoot
  Commands <- MCCommands
  NoCmd = NoCmd
INVARIANTS
  AcquireTypeOK
  DmaMatchesRows
  ActiveReachesHardware
PROPERTIES
  AppliedOrNothing
  AcknowledgedLands
