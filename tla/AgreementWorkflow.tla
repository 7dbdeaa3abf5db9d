-------------------------- MODULE AgreementWorkflow --------------------------
(***************************************************************************)
(* One agreement from draft to settlement: the services of agreements,     *)
(* milestones, proofs, reviews and disputes, and the escrows of its scopes *)
(* on the mock and manual rails, which answer at once.                     *)
(*                                                                         *)
(* A handler is a READ COMMITTED transaction that reads rows, decides, and *)
(* writes each row with a compare-and-swap on the status it read.  Where   *)
(* every row the decision rests on is also swapped, the transaction has    *)
(* the effect of one step at its commit or none, and is one action here.   *)
(* Where it rests on rows that it reads only, the read and the commit are  *)
(* two actions, with the transaction in txs between them.                  *)
(***************************************************************************)
EXTENDS Naturals, Sequences, FiniteSets, Functions, Lifecycles

CONSTANTS
    Milestones,     \* milestones that may be added
    WholeAgreement, \* scope of an escrow without a milestone
    Amount,         \* the agreement's amount
    MilestoneAmounts,       \* amounts a milestone may have
    MaxProofs, MaxDisputes, MaxEscrows,     \* bounds: rows of each table
    MaxTxs          \* bound: transactions between their read and their commit

ASSUME AmountsArePositive ==
    /\ Amount \in Nat \ {0}
    /\ MilestoneAmounts \subseteq Nat \ {0}
ASSUME ScopesDiffer == WholeAgreement \notin Milestones
ASSUME MilestonesFinite == IsFiniteSet(Milestones)

VARIABLES
    agreement,  \* status and settlementStatus of the Agreement row
    milestones, \* the Milestone rows
    proofs,     \* the Proof rows in order of creation
    disputes,   \* the Dispute rows in order of creation
    escrows,    \* the Escrow rows in order of creation
    txs         \* transactions that have read and not yet committed

vars == <<agreement, milestones, proofs, disputes, escrows, txs>>

Scopes == Milestones \cup {WholeAgreement}
Exists(m) == milestones[m].status # "absent"

Init ==
    /\ agreement = [status |-> "draft", settlement |-> "UNFUNDED"]
    /\ milestones = [m \in Milestones |-> [status |-> "absent", amount |-> 0]]
    /\ proofs = <<>> /\ disputes = <<>> /\ escrows = <<>>
    /\ txs = {}

-----------------------------------------------------------------------------
(* Lifecycle paths                                                         *)

\* A seeded fault: the settlement status takes the lifecycle's name.
transitionMutName(row, to) ==
    [status |-> to,
     settlement |-> CASE to = "funding_required" -> "FUNDING_PENDING"
                      [] to = "funded" -> "FUNDED"
                      [] to \in TerminalStatuses -> to
                      [] OTHER -> row.settlement]

\* transitionAgreementStatus: the data of its update.
transitionAgreementStatus(row, to) ==
    [status |-> to,
     settlement |-> CASE to = "funding_required" -> "FUNDING_PENDING"
                      [] to = "funded" -> "FUNDED"
                      [] to = "released" -> "PAYOUT_CONFIRMED"
                      [] to = "refunded" -> "REFUND_CONFIRMED"
                      [] OTHER -> row.settlement]

transitionMilestoneStatus(row, to) == [row EXCEPT !.status = to]

\* assertAgreementTransition and assertMilestoneTransition before each update of
\* a path.  Of the updates only the last one counts: each overwrites the status,
\* and no path goes on from a status that sets the settlement.
advanceAgreement(path) ==
    /\ \A i \in DOMAIN path :
          CanTransitionAgreement((<<agreement.status>> \o path)[i], path[i])
    /\ agreement' = IF path = <<>> THEN agreement
                    ELSE transitionAgreementStatus(agreement, path[Len(path)])

advanceMilestone(m, path) ==
    /\ \A i \in DOMAIN path :
          CanTransitionMilestone((<<milestones[m].status>> \o path)[i], path[i])
    /\ milestones' = [milestones EXCEPT ![m] =
                         IF path = <<>> THEN @ ELSE transitionMilestoneStatus(@, path[Len(path)])]

\* agreementPathForProofSubmission and milestonePathForProofSubmission.
AcceptsProof(status) == status \in {"funded", "in_progress", "rejected"}
ProofPath(status) ==
    IF status = "in_progress" THEN <<"proof_submitted">>
    ELSE <<"in_progress", "proof_submitted">>

\* agreementPathForReviewDecision and milestonePathForReviewDecision.
AwaitsReview(status) == status \in {"proof_submitted", "under_review"}
ReviewPath(status, decision) ==
    (IF status = "proof_submitted" THEN <<"under_review">> ELSE <<>>) \o
    (CASE decision = "approved" -> <<"approved">>
       [] decision = "rejected" -> <<"rejected">>
       [] decision = "needs_changes" -> <<"rejected", "in_progress">>)

\* A seeded fault: a request for changes leaves the proof submitted.
proofStatusMutKeeps(decision) ==
    CASE decision = "approved" -> "accepted"
      [] decision = "rejected" -> "rejected"
      [] decision = "needs_changes" -> "submitted"

proofStatusForReviewDecision(decision) ==
    IF decision = "approved" THEN "accepted" ELSE decision

\* agreementPathForDisputeOpen and milestonePathForDisputeOpen.
Disputable(status) ==
    status \in {"funded", "in_progress", "under_review", "proof_submitted"}
DisputePath(status) ==
    IF status = "proof_submitted" THEN <<"under_review", "disputed">> ELSE <<"disputed">>

\* A seeded fault: a resolution leaves the agreement disputed.
ResolutionMutStays(type) == <<>>

\* agreementPathForDisputeResolution and milestonePathForDisputeResolution.
ResolutionPath(type) == IF type = "release" THEN <<"approved">> ELSE <<>>

statusForResolutionType(type) ==
    CASE type = "release" -> "resolved_release"
      [] type = "refund" -> "resolved_refund"
      [] type = "split" -> "resolved_split"

-----------------------------------------------------------------------------
(* Agreements and milestones                                               *)

AcceptAgreement ==
    /\ advanceAgreement(<<"pending_acceptance", "accepted">>)
    /\ UNCHANGED <<milestones, proofs, disputes, escrows, txs>>

\* transitionAgreement for cancelAgreement and moveAgreementToFundingRequired.
TransitionAgreement(to) ==
    /\ advanceAgreement(<<to>>)
    /\ UNCHANGED <<milestones, proofs, disputes, escrows, txs>>

Amounts(rows, S) == [i \in S |-> rows[i].amount]
Sum(rows, S) == SumFunction(Amounts(rows, S))

\* assertMilestoneAllocationWithinAgreement
WithinAgreement(amount) == Sum(milestones, Milestones) + amount <= Amount

\* The statuses in which createMilestoneForAgreement refuses.
FrozenStatuses ==
    {"funded", "in_progress", "proof_submitted", "under_review", "approved",
     "release_pending", "released", "refunded", "disputed"}

\* The trigger Milestone_funded_membership_immutable on the table.
MembershipOpen ==
    agreement.settlement = "UNFUNDED" /\ agreement.status \notin FrozenStatuses

\* The agreement row stays locked FOR UPDATE from before the first read.
CreateMilestone(m, amount) ==
    /\ ~Exists(m)
    /\ agreement.status \notin FrozenStatuses
    /\ WithinAgreement(amount)
    /\ MembershipOpen
    /\ milestones' = [milestones EXCEPT ![m] = [status |-> "pending", amount |-> amount]]
    /\ UNCHANGED <<agreement, proofs, disputes, escrows, txs>>

-----------------------------------------------------------------------------
(* Proofs and reviews                                                      *)

CreateProof(m) ==
    /\ Len(proofs) < MaxProofs
    /\ Exists(m)
    /\ AcceptsProof(agreement.status) /\ AcceptsProof(milestones[m].status)
    /\ proofs' = Append(proofs, [milestone |-> m, status |-> "submitted"])
    /\ advanceAgreement(ProofPath(agreement.status))
    /\ advanceMilestone(m, ProofPath(milestones[m].status))
    /\ UNCHANGED <<disputes, escrows, txs>>

ReviewProof(i, decision) ==
    LET m == proofs[i].milestone
    IN  /\ proofs[i].status \in {"submitted", "under_review"}
        /\ AwaitsReview(agreement.status) /\ AwaitsReview(milestones[m].status)
        /\ advanceAgreement(ReviewPath(agreement.status, decision))
        /\ advanceMilestone(m, ReviewPath(milestones[m].status, decision))
        /\ proofs' = [proofs EXCEPT ![i].status = proofStatusForReviewDecision(decision)]
        /\ UNCHANGED <<disputes, escrows, txs>>

-----------------------------------------------------------------------------
(* Transactions between read and commit                                    *)

Read(tx) == Cardinality(txs) < MaxTxs /\ txs' = txs \cup {tx}

\* A lost compare-and-swap, a refused constraint or a crash: nothing is written.
Rollback(tx) ==
    /\ txs' = txs \ {tx}
    /\ UNCHANGED <<agreement, milestones, proofs, disputes, escrows>>

-----------------------------------------------------------------------------
(* Disputes                                                                *)

InScope(scope) == {e \in DOMAIN escrows : escrows[e].scope = scope}
\* findActiveEscrowForScope, and the partial unique index on the active scope.
ActiveIn(scope) == {e \in InScope(scope) : escrows[e].status \notin TerminalStatuses}

\* findUnresolvedDisputeForScope, and the partial unique index.
CreateDispute(m) ==
    /\ Len(disputes) < MaxDisputes
    /\ Exists(m)
    /\ \A i \in DOMAIN disputes : ~(disputes[i].milestone = m /\ disputes[i].status = "open")
    /\ Disputable(agreement.status) /\ Disputable(milestones[m].status)
    /\ disputes' = Append(disputes, [milestone |-> m, status |-> "open"])
    /\ advanceAgreement(DisputePath(agreement.status))
    /\ advanceMilestone(m, DisputePath(milestones[m].status))
    /\ UNCHANGED <<proofs, escrows, txs>>

\* The escrow a split divides: the application's check, and the trigger's.
Splittable(m) == \E e \in ActiveIn(m) : escrows[e].status = "funded"

ReadDispute(i, type) ==
    LET m == disputes[i].milestone
    IN  /\ disputes[i].status = "open"
        /\ agreement.status = "disputed" /\ milestones[m].status = "disputed"
        /\ type = "split" => Splittable(m)
        /\ Read([op |-> "resolve", dispute |-> i, type |-> type])
        /\ UNCHANGED <<agreement, milestones, proofs, disputes, escrows>>

ResolveDispute(tx) ==
    LET m == disputes[tx.dispute].milestone
        path == ResolutionPath(tx.type)
    IN  /\ tx.op = "resolve"
        /\ disputes[tx.dispute].status = "open"
        /\ tx.type = "split" => Splittable(m)
        /\ path # <<>> => agreement.status = "disputed" /\ milestones[m].status = "disputed"
        /\ disputes' = [disputes EXCEPT ![tx.dispute].status = statusForResolutionType(tx.type)]
        /\ advanceAgreement(path)
        /\ advanceMilestone(m, path)
        /\ txs' = txs \ {tx}
        /\ UNCHANGED <<proofs, escrows>>

-----------------------------------------------------------------------------
(* Escrows                                                                 *)

ScopeExists(scope) == scope \in Milestones => Exists(scope)
\* A seeded fault: a milestone's escrow may hold the agreement's amount.
ScopeMutAgreement(scope) == Amount

ScopeAmount(scope) == IF scope = WholeAgreement THEN Amount ELSE milestones[scope].amount

\* reserveEscrowCreation: scope and amount, no terminal escrow; then, in a later
\* statement, no active one.
ReadForEscrow(scope, amount) ==
    /\ ScopeExists(scope)
    /\ amount <= ScopeAmount(scope)
    /\ \A e \in InScope(scope) : escrows[e].status \notin TerminalStatuses
    /\ Read([op |-> "create", scope |-> scope, amount |-> amount])
    /\ UNCHANGED <<agreement, milestones, proofs, disputes, escrows>>

CreateEscrow(tx) ==
    /\ tx.op = "create"
    /\ Len(escrows) < MaxEscrows
    /\ ActiveIn(tx.scope) = {}
    /\ escrows' = Append(escrows, [scope |-> tx.scope, amount |-> tx.amount,
                                   status |-> "not_created"])
    /\ txs' = txs \ {tx}
    /\ UNCHANGED <<agreement, milestones, proofs, disputes>>

\* What MockEscrowAdapter answers to createEscrowLock, markFunded, release, refund.
AdapterStatus(operation) ==
    CASE operation = "create" -> "awaiting_funding"
      [] operation = "fund" -> "funded"
      [] operation = "release" -> "released"
      [] operation = "refund" -> "refunded"

\* The adapter's answer must be a status (assertStatus) that a new row may take.
FinalizeEscrowCreation(e) ==
    /\ escrows[e].status = "not_created"
    /\ AdapterStatus("create") \in EscrowStatuses
    /\ CanTransitionEscrow("not_created", AdapterStatus("create"))
    /\ escrows' = [escrows EXCEPT ![e].status = AdapterStatus("create")]
    /\ UNCHANGED <<agreement, milestones, proofs, disputes, txs>>

\* markEscrowFunded with finalizeEscrowFunding and transitionFundingScope.
MarkEscrowFunded(e) ==
    LET scope == escrows[e].scope
        next == AdapterStatus("fund")
    IN  /\ escrows[e].status \notin {"not_created", next}
        /\ CanTransitionEscrow(escrows[e].status, next)
        /\ escrows' = [escrows EXCEPT ![e].status = next]
        /\ agreement' = IF agreement.status = "funding_required"
                        THEN transitionAgreementStatus(agreement, "funded") ELSE agreement
        /\ milestones' = [m \in Milestones |->
              IF m = scope /\ milestones[m].status \in {"pending", "funding_required"}
              THEN transitionMilestoneStatus(milestones[m], "funded") ELSE milestones[m]]
        /\ UNCHANGED <<proofs, disputes, txs>>

\* A seeded fault: only the agreement's status is asked for.
ReleaseMutAgreement(e) == agreement.status = "approved"

\* assertReleaseAllowed and assertRefundAllowed.
ReleaseAllowed(e) ==
    LET scope == escrows[e].scope
    IN  \/ /\ agreement.status = "approved"
           /\ scope \in Milestones => milestones[scope].status = "approved"
        \/ /\ agreement.status = "disputed"
           /\ \E i \in DOMAIN disputes :
                 /\ scope \in {WholeAgreement, disputes[i].milestone}
                 /\ disputes[i].status = "resolved_release"

RefundAllowed == agreement.status # "released"

ReserveEscrowSettlement(e, operation) ==
    LET pending == IF operation = "release" THEN "release_pending" ELSE "refund_pending"
    IN  /\ escrows[e].status = "funded"
        /\ IF operation = "release" THEN ReleaseAllowed(e) ELSE RefundAllowed
        /\ escrows' = [escrows EXCEPT ![e].status = pending]
        /\ UNCHANGED <<agreement, milestones, proofs, disputes, txs>>

\* finalizeSuccessfulEscrowSettlement takes the escrow's row lock, so that only
\* one transaction finalizes an escrow, and reads the other escrows, whose own
\* finalizations may not have committed.
ReadSettlement(e) ==
    /\ escrows[e].status \in {"release_pending", "refund_pending"}
    /\ \A tx \in txs : ~(tx.op = "finalize" /\ tx.escrow = e)
    /\ Read([op |-> "finalize", escrow |-> e,
             to |-> AdapterStatus(IF escrows[e].status = "release_pending"
                                  THEN "release" ELSE "refund"),
             agreement |-> agreement.status,
             others |-> {escrows[i].status : i \in DOMAIN escrows \ {e}}])
    /\ UNCHANGED <<agreement, milestones, proofs, disputes, escrows>>

\* A seeded fault: a settled milestone is released whatever was settled.
SettledMutReleased(m, to) ==
    IF CanTransitionMilestone(milestones[m].status, "released")
    THEN transitionMilestoneStatus(milestones[m], "released") ELSE milestones[m]

\* transitionMilestoneIfAllowed
SettledMilestone(m, to) ==
    IF CanTransitionMilestone(milestones[m].status, to)
    THEN transitionMilestoneStatus(milestones[m], to) ELSE milestones[m]

\* transitionAgreementWhenAllEscrowsTerminal: the path it decides on.
SettlementPath(tx) ==
    IF tx.agreement = tx.to \/ ~(tx.others \subseteq {tx.to}) THEN <<>>
    ELSE IF tx.to = "released" /\ CanTransitionAgreement(tx.agreement, "release_pending")
    THEN <<"release_pending", "released">>
    ELSE IF CanTransitionAgreement(tx.agreement, tx.to) THEN <<tx.to>> ELSE <<>>

\* A seeded fault: the agreement is concluded without a swap of what was read.
FinalizeMutBlind(tx) ==
    LET scope == escrows[tx.escrow].scope
        path == SettlementPath(tx)
    IN  /\ tx.op = "finalize"
        /\ escrows' = [escrows EXCEPT ![tx.escrow].status = tx.to]
        /\ milestones' = [m \in Milestones |->
              IF m = scope THEN SettledMilestone(m, tx.to) ELSE milestones[m]]
        /\ agreement' = IF path = <<>> THEN agreement
                        ELSE transitionAgreementStatus(agreement, path[Len(path)])
        /\ txs' = txs \ {tx}
        /\ UNCHANGED <<proofs, disputes>>

FinalizeEscrowSettlement(tx) ==
    LET scope == escrows[tx.escrow].scope
    IN  /\ tx.op = "finalize"
        /\ SettlementPath(tx) # <<>> => agreement.status = tx.agreement
        /\ escrows' = [escrows EXCEPT ![tx.escrow].status = tx.to]
        /\ milestones' = [m \in Milestones |->
              IF m = scope THEN SettledMilestone(m, tx.to) ELSE milestones[m]]
        /\ advanceAgreement(SettlementPath(tx))
        /\ txs' = txs \ {tx}
        /\ UNCHANGED <<proofs, disputes>>

-----------------------------------------------------------------------------
Next ==
    \/ AcceptAgreement
    \/ \E to \in {"cancelled", "funding_required"} : TransitionAgreement(to)
    \/ \E m \in Milestones :
          \/ \E amount \in MilestoneAmounts : CreateMilestone(m, amount)
          \/ CreateProof(m) \/ CreateDispute(m)
    \/ \E i \in DOMAIN proofs, decision \in {"approved", "rejected", "needs_changes"} :
          ReviewProof(i, decision)
    \/ \E i \in DOMAIN disputes, type \in {"release", "refund", "split"} : ReadDispute(i, type)
    \/ \E scope \in Scopes, amount \in MilestoneAmounts : ReadForEscrow(scope, amount)
    \/ \E e \in DOMAIN escrows :
          \/ FinalizeEscrowCreation(e) \/ MarkEscrowFunded(e) \/ ReadSettlement(e)
          \/ \E operation \in {"release", "refund"} : ReserveEscrowSettlement(e, operation)
    \/ \E tx \in txs : \/ ResolveDispute(tx) \/ CreateEscrow(tx)
                       \/ FinalizeEscrowSettlement(tx) \/ Rollback(tx)

Spec == Init /\ [][Next]_vars

-----------------------------------------------------------------------------
(* Properties                                                              *)

(* Statuses are those of the tables, amounts those of the requests.        *)
TypeOK ==
    /\ agreement.status \in AgreementStatuses
    /\ agreement.settlement \in {"UNFUNDED", "FUNDING_PENDING", "FUNDED",
                                 "PAYOUT_CONFIRMED", "REFUND_CONFIRMED"}
    /\ milestones \in [Milestones -> [status: MilestoneStatuses \cup {"absent"},
                                      amount: MilestoneAmounts \cup {0}]]
    /\ \A i \in DOMAIN proofs : proofs[i].milestone \in Milestones
    /\ \A i \in DOMAIN disputes : disputes[i].milestone \in Milestones
    /\ \A e \in DOMAIN escrows :
          escrows[e].scope \in Scopes /\ escrows[e].status \in EscrowStatuses

Approved(m) ==
    \/ \E i \in DOMAIN proofs : proofs[i].milestone = m /\ proofs[i].status = "accepted"
    \/ \E i \in DOMAIN disputes :
          disputes[i].milestone = m /\ disputes[i].status = "resolved_release"

(* Nobody is paid without a decision: an escrow on its way to the worker   *)
(* rests on an accepted proof or on a dispute resolved for release, of its *)
(* own milestone when it has one.  assertReleaseAllowed sees only statuses *)
(* that several requests wrote.                                            *)
ReleaseIsBacked ==
    \A e \in DOMAIN escrows :
        escrows[e].status \in {"release_pending", "released"} =>
            \E m \in Milestones : /\ escrows[e].scope \in {m, WholeAgreement}
                                  /\ Approved(m)

Paid(scope) == {e \in InScope(scope) : escrows[e].status = "released"}

(* For milestones the worker never gets more than was agreed: the released *)
(* escrows of a milestone add up to at most its amount, and those of all   *)
(* milestones to at most the agreement's, although a creation that read    *)
(* before a settlement committed can put a second escrow into a settled    *)
(* scope.  An escrow of the whole agreement is not counted beside them.    *)
PaidWithinTerms ==
    /\ \A m \in Milestones : Sum(escrows, Paid(m)) <= milestones[m].amount
    /\ Sum(escrows, UNION {Paid(m) : m \in Milestones}) <= Amount

(* An agreement that awaits review is about exactly one milestone, which   *)
(* awaits it too and has exactly one open proof: the statuses that the     *)
(* reviewer's request will swap agree before it comes.                     *)
OneProofUnderReview ==
    agreement.status = "proof_submitted" =>
        LET open == {i \in DOMAIN proofs : proofs[i].status = "submitted"}
        IN  /\ Cardinality(open) = 1
            /\ \A i \in open : milestones[proofs[i].milestone].status = "proof_submitted"

(* A dispute resolved for release always ends the agreement's dispute:     *)
(* no release is ever admitted from a disputed agreement.                  *)
ResolvedReleaseIsApproved ==
    \A i \in DOMAIN disputes :
        disputes[i].status = "resolved_release" =>
            agreement.status \in {"approved", "release_pending", "released"}

(* Money on its way to the worker binds the agreement: once a release is   *)
(* reserved, a dispute, a review or the finalization of a refund that was  *)
(* read before can no longer conclude the agreement in any other way       *)
(* (assertReleaseAllowed, transitionAgreementWhenAllEscrowsTerminal).      *)
PaymentBindsAgreement ==
    \A e \in DOMAIN escrows :
        escrows[e].status \in {"release_pending", "released"} =>
            agreement.status \in {"approved", "release_pending", "released"}

(* Settled statuses are true: a milestone or an agreement that says        *)
(* released or refunded has an escrow that was.                            *)
SettledStatusIsTrue ==
    \A to \in TerminalStatuses :
        /\ \A m \in Milestones :
              milestones[m].status = to => \E e \in InScope(m) : escrows[e].status = to
        /\ agreement.status = to => \E e \in DOMAIN escrows : escrows[e].status = to
=============================================================================
