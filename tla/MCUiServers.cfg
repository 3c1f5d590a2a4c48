SPECIFICATION FairSpec
CONSTANTS
    Ports <- MCPorts
    DefaultPort <- MCDefaultPort
    MaxClicks = 2
    MaxEdits = 1
    MaxRuns = 2
CHECK_DEADLOCK FALSE
INVARIANTS
    FirstLaunchKillsNone
    OneSessionPerPort
PROPERTY FirstLaunchListens
