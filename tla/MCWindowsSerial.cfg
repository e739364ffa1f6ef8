SPECIFICATION FairSpec
CONSTANTS
    MaxOpens = 2
    MaxBytes = 2
INVARIANTS
    WrittenInOrder
    ReadInOrder
PROPERTIES
    FreshCallReturns
    TransfersEnd
CHECK_DEADLOCK FALSE
