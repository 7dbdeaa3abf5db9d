CONSTANTS
    Servers = {s1, s2}
    MaxChallenges = 2
    MaxRequests = 4
    KeyLimit = 1
    TenantLimit = 1
    PoolSize = 1
    MaxAttempts = 2
    FailureThreshold = 2

SPECIFICATION Spec
CHECK_DEADLOCK FALSE

INVARIANTS
    TypeOK
    RefusedAfterRevocation
    AuditShowsRow
    LimitHolds
    NoLostWakeup

PROPERTIES
    LatestChallengeOnce
