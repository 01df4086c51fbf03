CONSTANTS
    r1 = r1
    Requests <- OneRequest
    Handlers <- OnlyForward
    MaxChunks = 1
SPECIFICATION SafeSpec
INVARIANT TruncationIsSeen
\* Every exchange may have ended, and howclient with it.
CHECK_DEADLOCK FALSE
