SPECIFICATION Spec
CONSTANTS
    MaxFrameSize = 3
    CtrlRXQueue = 1
    Payloads <- MCPayloads
    GaiaBodies <- MCGaiaBodies
    Alphabet <- MCAlphabet
    MaxSent = 3
    MaxBytes = 8
INVARIANTS NothingMissing Passthrough Resyncs
