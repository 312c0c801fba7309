SPECIFICATION Spec
CONSTANTS
  NumFilter = 3
  NumChannel = 2
  NumBlock = 4
  MaxPending = 1
  NumPid = 2
  Uses = {{"SEC"}}
  Parallel = TRUE
INVARIANTS KeepsWhatItSet
