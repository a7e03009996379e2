SPECIFICATION FairSpec
CONSTANTS
    MaxPrompts = 3
    MaxRounds = 2
    MaxCalls = 2
    MaxKept = 2
    MaxSwitches = 1
INVARIANTS
    NoPromptIsRefused
CHECK_DEADLOCK FALSE
