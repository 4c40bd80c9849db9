SPECIFICATION Spec
CONSTANTS
    Partitions = {p1}
    MaxOffset = 2
    Record <- EventLog
    InitialHigh = 1
    AutoOffsetReset = "earliest"
    AckTimeout = 1
    RetryAfter = {1}
    MaxDeliveryAttempts = 2
    DeadLetter = FALSE
    PollLimit = 2
    MaxCalls = 1
    MaxClock = 1
    MaxEpoch = 4
    MaxAttempts = 3
    MaxIncarnation = 0
    Env = {"group-position", "commit-failure", "commit-timeout", "close", "leak",
           "hold-back-failure"}
INVARIANTS
    NothingSkipped
PROPERTIES
    GroupPositionAtomic
    ImplementsGroup
