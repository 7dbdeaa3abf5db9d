SPECIFICATION Spec
CONSTANTS
    Requests = {r1}
    Workers = {w1}
    NoWorker = nobody
    Faults = {"signer", "ambiguity", "reject", "reorg", "nodeloss", "rpc", "crash", "lease"}
    MaxFaults = 1
CHECK_DEADLOCK FALSE
INVARIANTS
    TypeOK
    SignedIsReserved
    SettledAfterConfirmation
    SettlementAuthorised
    MonitoredUntilFinal
PROPERTIES
    KeepsPromise
    EscrowMovesLegally
