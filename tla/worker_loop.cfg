SPECIFICATION FairSpec
CONSTANTS
    Workers = {w1, w2}
    NoWorker = nobody
    NoKey = nokey
    Concurrency = 2
    Transactions = {t1}
    DefaultMaxAttempts = 2
    MaxRequests = 2
    MaxClaims = 2
    Faults = {"crash", "stall", "deadline", "database", "sigterm"}
    MaxFaults = 2
CHECK_DEADLOCK FALSE
INVARIANTS
    TypeOK
    DuplicatesAreReplays
PROPERTIES
    FinishedJobsRest
    ClaimsEnd
