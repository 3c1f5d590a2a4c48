SPECIFICATION Spec
CONSTANTS
    Irqs <- MCTwoIrqs
    Priorities <- MCTwoPriorities
    MaxFrames = 3
INVARIANT IcsrShowsNext
