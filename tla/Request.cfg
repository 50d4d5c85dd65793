CONSTANTS
    Clients = {c1, c2}
    Commands = {read, write}
    MaxRequests = 3
    MaxRigs = 2
    PatientRadio = TRUE
SPECIFICATION FairSpec
INVARIANT OwnAnswerOnOneRig
PROPERTY RequestsReturn
CHECK_DEADLOCK FALSE
