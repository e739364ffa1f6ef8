SPECIFICATION FairSpec
CONSTANTS
    Modes <- MCModes
    WaitTime = 3
    CallTime = 3
INVARIANTS
    ConfirmedMode
    StreamHoldsMode
    DeadlineKept
    FailsForAReason
PROPERTIES
    SetModeReturns
