SPECIFICATION Spec
CONSTANTS
    Partitions = {p1}
    MaxOffset = 4
    Record <- MixedLog
    InitialHigh = 4
    AutoOffsetReset = "earliest"
    AckTimeout = 1
    RetryAfter = {0}
    MaxDeliveryAttempts = 1
    DeadLetter = TRUE
    PollLimit = 2
    MaxCalls = 1
    MaxClock = 2
    MaxEpoch = 1
    MaxAttempts = 2
    MaxIncarnation = 1
    Env = {"client-failure", "publish-failure", "restart", "recover", "duplicate-call"}
INVARIANTS
    NothingSkipped
    NoneStranded
