CONSTANTS Reconnect = TRUE
          MaxFaults = 2
          MaxRelinks = 2
          RelinkBudget = 1
SPECIFICATION FairSpec
INVARIANTS OrphanOnlyFromStray LostOnlyInRace
PROPERTY Recovers
CHECK_DEADLOCK FALSE
