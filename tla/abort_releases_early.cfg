SPECIFICATION Spec
CONSTANTS
    Sessions = {s1, s2}
    NoSession = NoSession
    MaxOffset = 2
    MaxGeneration = 1
    MaxMember = 3
    Env = {"core", "out-of-order"}
SYMMETRY SessionSymmetry
INVARIANTS
    NothingLost
CHECK_DEADLOCK FALSE
