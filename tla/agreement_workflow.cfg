SPECIFICATION Spec
CONSTANTS
    Milestones = {m1, m2}
    WholeAgreement = whole
    Amount = 2
    MilestoneAmounts = {1, 2}
    MaxProofs = 2
    MaxDisputes = 1
    MaxEscrows = 2
    MaxTxs = 2
CHECK_DEADLOCK FALSE
SYMMETRY Symmetry
INVARIANTS
    TypeOK
    ReleaseIsBacked
    PaidWithinTerms
    OneProofUnderReview
    ResolvedReleaseIsApproved
    SettledStatusIsTrue
    PaymentBindsAgreement
