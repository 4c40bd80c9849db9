SPECIFICATION Spec
CONSTANTS
    Partitions = {p1}
    MaxOffset = 3
    Record <- EventLog
    InitialHigh = 3
    AutoOffsetReset = "earliest"
    AckTimeout = 1
    RetryAfter = {}
    MaxDeliveryAttempts = 2
    DeadLetter = FALSE
    PollLimit = 2
    MaxCalls = 1
    MaxClock = 2
    MaxEpoch = 3
    MaxAttempts = 2
    MaxIncarnation = 0
    Env = {"eviction", "competitor", "commit-failure"}
INVARIANTS
    TypeOK
    NothingSkipped
    NoneStranded
PROPERTIES
    CommittedMonotonic
