CONSTANTS
    r1 = r1
    r2 = r2
    Requests <- OneRequest
    Replies <- Shapes
    CloseArgs <- AllCloseArgs
    ReadTimeout = 2
SPECIFICATION Spec
INVARIANTS TypeOK SlotIffConsumer BodyIsPrefix CloseErrorAgreed
PROPERTIES ImplementsStream TimeoutMeansSilence FramesOutrunStops RequestReturns
\* Every request may have returned, and no timer may be running.
CHECK_DEADLOCK FALSE
