CONSTANTS
    r1 = r1
    Requests <- OneRequest
    Replies <- LostStart
    CloseArgs <- AllCloseArgs
    TimerOn = TRUE
SPECIFICATION Spec
INVARIANT CloseSettlesAll
\* Every request may have been answered.
CHECK_DEADLOCK FALSE
