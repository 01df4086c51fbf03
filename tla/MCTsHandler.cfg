CONSTANTS
    r1 = r1
    r2 = r2
    Requests <- TwoRequests
    Handlers <- HandlerKinds
    MaxChunks = 2
SPECIFICATION Spec
INVARIANTS TypeOK EndMeansWholeBody
PROPERTIES ImplementsResponse AnsweredUnlessSendThrows
\* Every request may have been answered.
CHECK_DEADLOCK FALSE
