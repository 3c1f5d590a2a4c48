SPECIFICATION FairSpec
CONSTANTS
    Irqs <- MCFaultAndLine
    Priorities <- MCTwoPriorities
    MaxFrames = 2
INVARIANTS
    RequestHasVector
    StatusCurrentUnlessStale
    StackMatchesChain
    PreemptionIsStrict
    LevelNotLost
    IcsrShowsStack
PROPERTIES
    HandlersNest
    OfferedIsTaken
