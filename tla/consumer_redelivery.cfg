SPECIFICATION Spec
CONSTANTS
    Partitions = {p1, p2}
    MaxOffset = 1
    Record <- EventLog
    InitialHigh = 1
    AutoOffsetReset = "earliest"
    AckTimeout = 1
    RetryAfter = {0, 1}
    MaxDeliveryAttempts = 2
    DeadLetter = TRUE
    PollLimit = 2
    MaxCalls = 1
    MaxClock = 2
    MaxEpoch = 3
    MaxAttempts = 2
    MaxIncarnation = 0
    Env = {"client-failure", "publish-failure", "other-group-position"}
SYMMETRY PartitionSymmetry
INVARIANTS
    OnlyOwnedDeliveries
    PausedIsScheduled
