CONSTANTS
    r1 = r1
    r2 = r2
    Requests <- OneRequest
    Replies <- Shapes
    CloseArgs <- EofCloseArg
    ReadTimeout = 0
SPECIFICATION SafeSpec
INVARIANT EofOnlyAtEnd
\* Every request may have returned, and no timer may be running.
CHECK_DEADLOCK FALSE
