SPECIFICATION DmaSpec
CONSTANTS
    DmaPage = 4
    DmaEnvs <- MixedModes
    DmaMax = 3
INVARIANTS
    WaitsForPrior
CHECK_DEADLOCK FALSE
