SPECIFICATION ActuatorFairSpec
CONSTANTS
    MaxRetries = 1
    ExceptionLength = 2
    Requests <- MCRequests
    MaxRequests = 3
    MaxLine = 3
    ResponseTimeout = 0
    IntercharTimeout = 0
    TurnaroundDelay = 0
    InterframeDelay = 0
    AnswerKinds <- MCTwoKinds
    LateAnswers = FALSE
    BlockingCalls = TRUE
    AnswerLength <- MCAnswerLength
    Calls <- MCCalls
INVARIANTS
    ResultIsOwn
    QueueStaysShort
    ValidAnswerIsOwn
PROPERTIES
    KeepsClientContract
    CallReturns
