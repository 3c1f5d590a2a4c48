SPECIFICATION Spec
CONSTANTS
    MaxNest = 3
    MaxWords = 1
    MspTop = 50
    PspTop <- MCPspTop
INVARIANTS
    TypeOK
    RightContext
    BankFollowsControl
    WordsIntact
PROPERTIES
    ReturnRestores
