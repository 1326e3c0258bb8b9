\* Edits, failing calls and deaths at every point of start-up and reload.
SPECIFICATION Spec
CONSTANTS
  Watch = TRUE
  MaxEdits <- MCMaxEdits
  Good <- MCGood
  Pi <- MCPi
  OtherKeys = {"log"}
  BootConfs <- MCBootConfs
  MaxTries = 2
  MaxErrors = 2
  MaxFaults = 2
INVARIANTS
  TypeOK
  ConfIsWhole
  
  LinkIsTrue
  PinIsArmed
PROPERTY LoadedUnlessRaced
