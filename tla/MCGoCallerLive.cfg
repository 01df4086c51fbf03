CONSTANTS
    r1 = r1
    r2 = r2
    Requests <- TwoRequests
    Replies <- LiveReplies
    CloseArgs <- OneCloseArg
    ReadTimeout = 0
SPECIFICATION Spec
PROPERTIES NoHeadOfLineBlocking BodyCloseReleasesSlot CloseReleasesSlots
\* Every request may have returned, and no timer may be running.
CHECK_DEADLOCK FALSE
