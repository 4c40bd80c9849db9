SPECIFICATION Spec
CONSTANTS
    MaxBatchSize = 2
    MaxPollSize = 2
    MaxRangeSize = 2
    MaxWait = 1
    MaxRetryAfter = 1
    Brokers = {1, 2, 3}
    Trusted = {1, 2}
    Genuine = {1, 3}
    Offers <- MCOffers
    Ranges <- MCRanges
    Documents <- MCDocuments
    Operations <- MCOperations
    Topics = {"t1", "t2"}
    MaxPartitions = 1
    Configs = {"c1", "c2"}
    Timeout = 2
    Addresses = 2
    MaxChanges = 1
INVARIANTS
    TypeOK
    AuthenticatedEverywhere
    AcceptedIsUsable
    ProbeBounded
    TransactionsSupported
    CommandsCoherent
    VerifiedAtSomeTime
CHECK_DEADLOCK FALSE
