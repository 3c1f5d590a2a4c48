SPECIFICATION Spec
CONSTANTS
    Pins <- MCPins
    ResetMode <- MCResetMode
    ResetPupd <- MCResetPupd
    Config = {0, 2}
    StoreVals = {0, 1}
    StoreReset = 0
INVARIANTS
    WireFollowsOdr
    IdrFollowsInput
