SPECIFICATION Spec
CONSTANTS
    Seeds <- MCSeeds
    MotionIDs <- MCMotionIDs
    NextIDs <- MCNextIDs
    MaxCalls = 2
    Leftovers <- MCLeftovers
INVARIANTS
    SettingsIntact
    GainsOfOneCall
    GetterIsTrue
CHECK_DEADLOCK FALSE
