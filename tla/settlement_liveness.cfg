SPECIFICATION FairSpec
CONSTANTS
    Requests = {r1}
    Workers = {w1}
    NoWorker = nobody
    Faults = {"signer", "reject"}
    MaxFaults = 1
CHECK_DEADLOCK FALSE
PROPERTIES
    SettlementDecided
