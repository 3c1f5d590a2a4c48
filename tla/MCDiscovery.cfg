SPECIFICATION Spec
CONSTANTS
    MaxClicks = 8
    MaxRestarts = 1
    CapB = 2
    CapL = 2
    ThreadedTcl = TRUE
INVARIANTS
    TypeOK
    ImageFollowsOdr
    IdleLedsShowButton
    WaitNeedsBurst
PROPERTIES
    SendEnds
    LedsSettle
    PressLights
