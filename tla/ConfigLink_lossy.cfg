\* Reloads, a stop among them, over a link that damages either direction, one controller run.
SPECIFICATION FairLinkSpec
CONSTANTS
  StallBlocks = 1
  SeqMod = 1
  MaxSeq = 1
  BootConfig <- MCBoot
  Commands <- MCCommands
  NoCmd = NoCmd
  UintMax = 400000
  IntMax = 200000
  Retries = 2
  Files <- StopFiles
  MaxCmdSeq = 2
  MaxRestarts = 0
  MaxReopens = 1
  Lossy = TRUE
INVARIANT AckMeansApplied
PROPERTY SettlesUnlessCutOff
