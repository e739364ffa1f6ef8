SPECIFICATION Spec
CONSTANTS
    AnswerLength = 4
    ExceptionLength = 3
    MaxRequests = 2
PROPERTIES
    QueuedBytesAreWritten
