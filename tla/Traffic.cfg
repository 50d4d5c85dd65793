CONSTANTS k1 = k1
          k2 = k2
          s1 = s1
          KissClients = {k1, k2}
          Subscribers = {s1}
          WriteCap = 1
          MaxInflight = 1
          RingSize = 2
          TxCap = 2
          Scenes <- MCScenes
          Paced = TRUE
          Airs = {1, 2}
          MaxAir = 2
          MaxLead = 1
SPECIFICATION FairSpec
INVARIANTS HeardWithoutGaps EchoFilterSound BacklogBounded StarvedOnlyByCommands
PROPERTY ClosedClientsLeave
CHECK_DEADLOCK FALSE
