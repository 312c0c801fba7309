SPECIFICATION Spec
CONSTANTS
    QueueSize = 8
    Gran = 2
    MaxUnit = 3
    Setups <- SafeSetups
    NULL = NULL
INVARIANTS
    NothingOverwritten
    ReadsWhatIsFresh
    HeldOnce
