CONSTANTS
  a = a
  b = b
  Stations <- MCStations
  Mod8 = 4
  Mod128 = 8
  Scenes <- SafetyScenes
  MaxTx = 2
  MaxOutQueue = 1
  MaxDeferred = 2
  SetupRace = FALSE
  StaleOpen = FALSE
  EarlyT3 = TRUE
SPECIFICATION Spec
INVARIANTS WindowInv 
 
CHECK_DEADLOCK FALSE
