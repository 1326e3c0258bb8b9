\* Reloads and a restart over a link that damages nothing.
SPECIFICATION LinkSpec
CONSTANTS
  StallBlocks = 2
  SeqMod = 1
  MaxSeq = 1
  BootConfig <- MCBoot
  Commands <- MCCommands
  NoCmd = NoCmd
  UintMax = 400000
  IntMax = 200000
  Retries = 5
  Files <- AllFiles
  MaxCmdSeq = 2
  MaxRestarts = 1
  MaxReopens = 0
  Lossy = FALSE
INVARIANT CleanLinkDelivers
