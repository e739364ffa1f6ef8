SPECIFICATION FairSpec
CONSTANTS
    AnswerLength = 4
    ExceptionLength = 3
    MaxRequests = 2
INVARIANTS
    SerialTypeOK
    OwnBytes
    WritesOwnRequest
    BufferHasOneUser
PROPERTIES
    NotifiedMeansWhole
    AnswerDelivered
