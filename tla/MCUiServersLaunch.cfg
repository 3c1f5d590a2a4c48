SPECIFICATION FairSpec
CONSTANTS
    Ports <- MCPorts
    DefaultPort <- MCDefaultPort
    MaxClicks = 1
    MaxEdits = 0
    MaxRuns = 2
CHECK_DEADLOCK FALSE
PROPERTY LaunchListens
