SPECIFICATION Spec
CONSTANTS
    MaxRetries = 1
    ExceptionLength = 2
    Requests <- MCAllRequests
    MaxRequests = 2
    MaxLine = 3
    ResponseTimeout = 1
    IntercharTimeout = 0
    TurnaroundDelay = 0
    InterframeDelay = 0
    AnswerKinds <- MCMostKinds
    LateAnswers = TRUE
    BlockingCalls = TRUE
INVARIANTS
    TypeOK
    TimerHasActive
    ActiveIsTimed
    OnlyFrontProgresses
    RetryFollowsFailure
    SendBudget
    ServedInOrder
    SuccessEndsRequest
PROPERTIES
    ResultKept
    ImplementsService
