\* Blocks, transfers, stalls and errors in every order, with commands that configure nothing.
SPECIFICATION FairAcquireSpec
CONSTANTS
  StallBlocks = 3
  SeqMod = 4096
  MaxSeq = 9
  BootConfig <- MCBoot
  Commands <- OtherCommands
  NoCmd = NoCmd
INVARIANTS
  TypeOK
  Handshake
  InFlightIntact
  PendingIsNewest
  WatchdogExact
PROPERTIES
  ImplementsChannel
  StallRecovered
