SPECIFICATION FairSpec
CONSTANTS
    MaxRetries = 1
    ExceptionLength = 2
    Requests <- MCAnsweredRequests
    MaxRequests = 2
    MaxLine = 3
    ResponseTimeout = 0
    IntercharTimeout = 0
    TurnaroundDelay = 0
    InterframeDelay = 0
    AnswerKinds <- MCFewKinds
    LateAnswers = TRUE
    BlockingCalls = FALSE
INVARIANTS
    ReceptionWithinLength
    IntercharMeansKnownLength
PROPERTIES
    InterframeObserved
    EveryRequestEnds
