SPECIFICATION FairSpec
CONSTANTS
    Admins = {a1, a2}
    Sessions = {s1}
    NoAdmin = NoAdmin
    TransactionEnabled = TRUE
    MaxGeneration = 3
    MaxAttempts = 2
    Env = {"open-failure", "probe-failure", "close-failure", "publish-failure",
           "rotation", "close"}
INVARIANTS
    TypeOK
    RotationHandsOver
    ClientsAccountedFor
    OpenIsWhole
    RetriesWriteOnce
PROPERTY
    EventuallyReleased
CHECK_DEADLOCK FALSE
