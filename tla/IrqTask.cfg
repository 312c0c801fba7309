SPECIFICATION FairSpec
CONSTANTS
    Msg = {m1, m2}
    QueueSize = 4
    NULL = NULL
INVARIANTS
    MessagesWakeTask
PROPERTIES
    AcceptedNotDropped
    ClosedDrains
