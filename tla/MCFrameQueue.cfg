CONSTANTS
    p1 = p1
    p2 = p2
    a = a
    b = b
    Pushers <- MCPushers
    Frames <- MCFrames
    Stops <- MCStops
    Timer = "timer"
    QueueBound = 3
SPECIFICATION Spec
INVARIANTS TypeOK NoLostWakeup
PROPERTY ImplementsChannel
\* The consumer may have stopped with the queue at its bound.
CHECK_DEADLOCK FALSE
