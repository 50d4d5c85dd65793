CONSTANTS Clients = {"c1"}
          MaxEvents = 5
          MaxFaults = 0
          RetryLimit = 4
          MayDisable = FALSE
          MayStop = TRUE
SPECIFICATION FairSpec
PROPERTY ShutdownEnds
CHECK_DEADLOCK FALSE
