----------------------------- MODULE Lifecycles -----------------------------
(***************************************************************************)
(* The status vocabularies and transition tables of PactAgent's escrow,    *)
(* agreement and milestone rows.  Every service checks these tables before *)
(* it writes a status, so the other modules take their guards from here.   *)
(***************************************************************************)

\* escrow.state-machine.ts: the statuses of an Escrow row.
EscrowStatuses ==
    {"not_created", "awaiting_funding", "funding_detected", "funded",
     "release_pending", "released", "refund_pending", "refunded",
     "reconciliation_required", "failed"}

\* The statuses a settled escrow rests in.
TerminalStatuses == {"released", "refunded"}

\* escrow.state-machine.ts VALID_TRANSITIONS: where a row may go next.
EscrowSuccessors(s) ==
    CASE s = "not_created" ->
           {"awaiting_funding", "reconciliation_required", "failed"}
      [] s = "awaiting_funding" ->
           {"funding_detected", "funded", "reconciliation_required", "failed"}
      [] s = "funding_detected" ->
           {"funded", "reconciliation_required", "failed"}
      [] s = "funded" ->
           {"release_pending", "refund_pending", "reconciliation_required"}
      [] s = "release_pending" ->
           {"released", "reconciliation_required", "failed"}
      [] s = "refund_pending" ->
           {"refunded", "reconciliation_required", "failed"}
      [] s \in TerminalStatuses -> {"reconciliation_required"}
      [] s = "reconciliation_required" ->
           {"awaiting_funding", "funding_detected", "funded",
            "release_pending", "released", "refund_pending", "refunded",
            "failed"}
      [] s = "failed" -> {"funded"}
      [] OTHER -> {}

\* escrow.state-machine.ts canTransitionEscrow / assertEscrowTransition.
CanTransitionEscrow(from, to) == to \in EscrowSuccessors(from)

\* agreement.state-machine.ts: the statuses of an infrastructure Agreement.
AgreementStatuses ==
    {"draft", "pending_acceptance", "accepted", "funding_required", "funded",
     "in_progress", "proof_submitted", "under_review", "approved",
     "release_pending", "released", "rejected", "disputed", "cancelled",
     "refunded", "expired"}

\* agreement.state-machine.ts VALID_TRANSITIONS.
AgreementSuccessors(s) ==
    CASE s = "draft"              -> {"pending_acceptance"}
      [] s = "pending_acceptance" -> {"accepted"}
      [] s = "accepted"           -> {"funding_required"}
      [] s = "funding_required"   -> {"funded", "cancelled"}
      [] s = "funded"             -> {"in_progress", "refunded", "disputed"}
      [] s = "in_progress"        -> {"proof_submitted", "disputed"}
      [] s = "proof_submitted"    -> {"under_review"}
      [] s = "under_review"       -> {"approved", "rejected", "disputed"}
      [] s = "approved"           -> {"release_pending"}
      [] s = "release_pending"    -> {"released"}
      [] s = "rejected"           -> {"in_progress"}
      [] s = "disputed"           -> {"approved", "refunded", "released"}
      [] s = "expired"            -> {"cancelled"}
      [] OTHER                    -> {}

\* agreement.state-machine.ts canTransitionAgreement.
CanTransitionAgreement(from, to) == to \in AgreementSuccessors(from)

\* milestone.state-machine.ts: the statuses of a Milestone row.
MilestoneStatuses ==
    {"pending", "funding_required", "funded", "in_progress", "proof_submitted",
     "under_review", "approved", "released", "rejected", "disputed", "refunded",
     "cancelled", "expired"}

\* milestone.state-machine.ts VALID_TRANSITIONS.
MilestoneSuccessors(s) ==
    CASE s = "pending"          -> {"funding_required", "funded", "in_progress"}
      [] s = "funding_required" -> {"funded", "refunded"}
      [] s = "funded"           -> {"in_progress", "disputed", "refunded"}
      [] s = "in_progress"      -> {"proof_submitted", "disputed"}
      [] s = "proof_submitted"  -> {"under_review"}
      [] s = "under_review"     -> {"approved", "rejected", "disputed"}
      [] s = "approved"         -> {"released"}
      [] s = "rejected"         -> {"in_progress"}
      [] s = "disputed"         -> {"approved", "released", "refunded"}
      [] OTHER                  -> {}

\* milestone.state-machine.ts canTransitionMilestone.
CanTransitionMilestone(from, to) == to \in MilestoneSuccessors(from)
=============================================================================
