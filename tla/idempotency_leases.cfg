SPECIFICATION FairSpec
CONSTANTS
    Requests = {r1, r2, r3}
    Hashes = {h1, h2}
    NoRequest = nobody
    LeaseCoversRequests = TRUE
CHECK_DEADLOCK FALSE
INVARIANTS
    TypeOK
    OneEffect
    EffectIsRecorded
    RepliesMatchRequests
PROPERTIES
    ReservationEnds
