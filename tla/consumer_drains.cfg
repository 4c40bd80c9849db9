SPECIFICATION FairSpec
CONSTANTS
    Partitions = {p1}
    MaxOffset = 2
    Record <- EventLog
    InitialHigh = 2
    AutoOffsetReset = "earliest"
    AckTimeout = 1
    RetryAfter = {}
    MaxDeliveryAttempts = 2
    DeadLetter = FALSE
    PollLimit = 2
    MaxCalls = 1
    MaxClock = 1
    MaxEpoch = 3
    MaxAttempts = 4
    MaxIncarnation = 0
    Env = {"eviction"}
PROPERTIES
    EventuallyCommitted
