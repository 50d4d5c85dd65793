CONSTANTS Clients = {"c1", "c2"}
          MaxPresses = 2
          MaxRelinks = 1
          MaxFaults = 2
          Retries = 1
          MayClose = TRUE
SPECIFICATION FairSpec
INVARIANTS  TimerBacksKey
PROPERTIES RefreshHonoured TransmissionEnds
CHECK_DEADLOCK FALSE
