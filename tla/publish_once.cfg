SPECIFICATION Spec
CONSTANTS
    Callers = {c1, c2}
    Keys = {k1, k2}
    NoKey = NoKey
    a = a
    b = b
    x = x
    Events = {a, b, x}
    Reserved = {x}
    Batches <- MCBatches
    MaxEntries = 1
    QueueLimit = 2
    MaxPublishes = 3
    Env = {"transaction", "timeout", "delivery-failure", "produce-failure", "close"}
SYMMETRY CallerSymmetry
INVARIANTS
    TypeOK
    ReceiptsNameTheirEvents
    PublishedOnce
CHECK_DEADLOCK FALSE
