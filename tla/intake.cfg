SPECIFICATION Spec
CONSTANTS
    DefaultItems = 4
    MaxItems = 12
    MaxAgents = 16
    CannedSteps = 6
    NotGiven = NotGiven
    IntHalf = 128
    Words <- MCWords
    Counts <- MCCounts
    Settings <- MCSettings
    Numbers <- MCNumbers
    MaxExecutions = 1
CHECK_DEADLOCK FALSE
INVARIANTS
    TypeOK
    EveryWordOnce
    PlanFits
    LoadsBalanced
    ExecutionsAccounted
