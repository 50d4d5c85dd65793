CONSTANTS Clients = {"c1", "c2"}
          MaxEvents = 5
          MaxFaults = 2
          RetryLimit = 1
          MayDisable = TRUE
          MayStop = TRUE
SPECIFICATION FairSpec
INVARIANTS OneAtATime 
PROPERTIES SettlesUnlessMissed QSYReturns
CHECK_DEADLOCK FALSE
