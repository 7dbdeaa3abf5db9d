SPECIFICATION Spec
CONSTANTS
    Requests = {r1}
    Workers = {w1}
    NoWorker = nobody
    Faults = {"ambiguity"}
    MaxFaults = 1
CHECK_DEADLOCK FALSE
INVARIANTS
    OneLivePayment
