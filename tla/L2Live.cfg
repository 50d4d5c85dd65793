CONSTANTS
  a = a
  b = b
  Stations <- MCStations
  Mod8 = 2
  Mod128 = 4
  Scenes <- LiveScenes
  MaxTx = 1
  MaxOutQueue = 1
  MaxDeferred = 1
  SetupRace = TRUE
  StaleOpen = TRUE
  EarlyT3 = FALSE
SPECIFICATION FairSpec
PROPERTIES DataSettles RequestsEnd HalfOpenEnds
CHECK_DEADLOCK FALSE
