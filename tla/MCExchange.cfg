CONSTANTS
    r1 = r1
    Requests <- OneRequest
    Handlers <- AllHandlers
    MaxChunks = 2
SPECIFICATION Spec
INVARIANTS TypeOK CleanEofLosesNothing NeverConfused NeverStuck
PROPERTY ExchangesEnd
\* Every exchange may have ended, and howclient with it.
CHECK_DEADLOCK FALSE
