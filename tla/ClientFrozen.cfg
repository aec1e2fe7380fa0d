CONSTANTS
    MaxTurns = 1
    MaxCalls = 1
    MaxCancels = 0
    MaxSteers = 0
    MaxAsks = 0
SPECIFICATION FairSpec

PROPERTY LoopGoesOn
CHECK_DEADLOCK FALSE
