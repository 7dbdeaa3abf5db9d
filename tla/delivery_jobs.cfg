SPECIFICATION Spec
CONSTANTS
    Workers = {w1, w2}
    NoWorker = nobody
    NoKey = nokey
    Concurrency = 1
    Transactions = {}
    DefaultMaxAttempts = 2
    MaxRequests = 2
    MaxClaims = 2
    Faults = {"crash", "stall", "deadline", "database"}
    MaxFaults = 1
    Endpoints = {e1}
    FailureSubscribers = {}
    Urls <- MCUrls
    DnsAnswers <- MCDnsAnswers
    Environment = "production"
    MaxRedirects = 1
    RetryLimit = 1
    FailureThreshold = 2
CHECK_DEADLOCK FALSE
SYMMETRY Symmetry
INVARIANTS
    TypeOK
    UndecidedIsRecoverable
    RecognisedContactsPublic
PROPERTIES
    DeliveredStays
