SPECIFICATION Spec
CONSTANTS
    p1 = p1
    p2 = p2
    Partitions = {p1, p2}
    InitialPartitions = {p2}
    MaxOffset = 4
    LogEnd <- MixedLogEnd
    Record <- MixedLog
    InitialHigh = 3
    AutoOffsetReset = "earliest"
    Limit = 2
    MaxCursorPartitions = 2
    TimeToLive = 1
    MaxClock = 1
    MaxKey = 2
    Env = {"start", "end", "foreign-token", "append", "retention", "partitions", "keys", "client-failure"}
INVARIANTS
    TypeOK
    PagesCover
    PagesNeverRepeat
    CursorsContinue
