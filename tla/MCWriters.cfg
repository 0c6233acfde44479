CONSTANTS
    Codes = {204, 500}
    Requests <- MCRequests
    MaxHeaders = 3
    MaxWrites = 1
SPECIFICATION Spec
CHECK_DEADLOCK FALSE
INVARIANTS
    HandlersAnswerWins
    DecodesToWritten
    LogIsAnswer
    PanicAnswerClean
