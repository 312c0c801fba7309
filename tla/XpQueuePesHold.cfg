SPECIFICATION Spec
CONSTANTS
    QueueSize = 6
    Gran = 2
    MaxUnit = 3
    Setups <- PesHoldSetups
    NULL = NULL
INVARIANTS
    LockedNotOverwritten
