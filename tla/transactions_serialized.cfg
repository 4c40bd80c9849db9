SPECIFICATION Spec
CONSTANTS
    Sessions = {s1, s2}
    NoSession = NoSession
    MaxOffset = 2
    MaxGeneration = 1
    MaxMember = 3
    Env = {"core", "plain-ack", "out-of-order", "commit-failure", "commit-timeout", "abort-failure"}
SYMMETRY SessionSymmetry
INVARIANTS
    Serialized
CHECK_DEADLOCK FALSE
