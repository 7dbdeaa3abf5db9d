SPECIFICATION Spec
CONSTANTS
    Agreements = {a1}
    Indexes = {1, 2}
    Parties = {alice, bob}
    Signer = alice
    Amounts = {1, 2}
    Occupied = 2
    Sinces = {0, 2, 5}
    FlagUnit = 4
    MaxHeight = 3
CHECK_DEADLOCK FALSE
INVARIANTS
    SettlesToParty
    RefundReachable
    BuiltSettlementUnlocks
    LockAndServerAgree
