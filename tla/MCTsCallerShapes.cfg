CONSTANTS
    r1 = r1
    Requests <- OneRequest
    Replies <- Shapes
    CloseArgs <- AllCloseArgs
    TimerOn = TRUE
SPECIFICATION Spec
INVARIANTS TypeOK TimerIffSlot SlotIffServed CloseSettlesConforming OrphanedOnlyByPeer NoLostWakeup DrainsBeforeItEnds
PROPERTIES ImplementsStream ReaderNeverHangs
\* Every request may have been answered.
CHECK_DEADLOCK FALSE
