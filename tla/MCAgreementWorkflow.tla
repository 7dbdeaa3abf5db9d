------------------------- MODULE MCAgreementWorkflow -------------------------
EXTENDS AgreementWorkflow, TLC

Symmetry == Permutations(Milestones)
=============================================================================
