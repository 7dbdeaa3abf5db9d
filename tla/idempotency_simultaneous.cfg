SPECIFICATION Spec
CONSTANTS
    Requests = {r1, r2, r3}
    Hashes = {h1, h2}
    NoRequest = nobody
    LeaseCoversRequests = FALSE
CHECK_DEADLOCK FALSE
SYMMETRY Symmetry
INVARIANTS
    OneEffect
