SPECIFICATION Spec
CONSTANTS
    Sessions = {s1}
    NoSession = NoSession
    MaxOffset = 2
    MaxGeneration = 3
    MaxMember = 4
    Env = {"core", "operation", "publish-failure", "commit-failure", "commit-timeout", "abort-failure", "rotation", "probe-failure", "close", "crash"}
INVARIANTS
    TypeOK
    ExactlyOnce
CHECK_DEADLOCK FALSE
