SPECIFICATION Spec
CONSTANTS
    Requests = {r1, r2, r3}
    Workers = {}
    NoWorker = nobody
    Faults = {"signer", "ambiguity", "reject", "reorg", "nodeloss", "rpc", "crash", "lease"}
    MaxFaults = 2
CHECK_DEADLOCK FALSE
SYMMETRY Symmetry
INVARIANTS
    SignedOnce
