SPECIFICATION Spec
CONSTANTS
    Size = 4
    Msg = {m1, m2, m3}
    Burst = 1
INVARIANTS
    HeadsTellContents
PROPERTIES
    FifoSpec
