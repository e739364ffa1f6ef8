SPECIFICATION ActuatorSpec
CONSTANTS
    MaxRetries = 1
    ExceptionLength = 2
    Requests <- MCRequests
    MaxRequests = 2
    MaxLine = 3
    ResponseTimeout = 0
    IntercharTimeout = 0
    TurnaroundDelay = 0
    InterframeDelay = 0
    AnswerKinds <- MCKinds
    LateAnswers = FALSE
    BlockingCalls = TRUE
    AnswerLength <- MCAnswerLength
    Calls <- MCCalls
INVARIANT CacheIsValid
