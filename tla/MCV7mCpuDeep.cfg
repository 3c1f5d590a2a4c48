SPECIFICATION Spec
CONSTANTS
    Irqs <- MCTwoIrqs
    Priorities <- MCPriorities
    MaxFrames = 3
ACTION_CONSTRAINT Plain
INVARIANTS
    EmulatorRuns
    LastActiveDefined
