\* A reload that changes the number of rows, over a link that damages nothing.
SPECIFICATION FairLinkSpec
CONSTANTS
  StallBlocks = 2
  SeqMod = 1
  MaxSeq = 1
  BootConfig <- MCBoot
  Commands <- MCCommands
  NoCmd = NoCmd
  UintMax = 400000
  IntMax = 200000
  Retries = 2
  Files <- RowFiles
  MaxCmdSeq = 2
  MaxRestarts = 0
  MaxReopens = 0
  Lossy = FALSE
PROPERTY CommandSettles
