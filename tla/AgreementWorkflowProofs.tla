----------------------- MODULE AgreementWorkflowProofs -----------------------
(***************************************************************************)
(* The workflow of one agreement, for any milestones and amounts and any   *)
(* number of proofs, disputes, escrows and transactions under way.         *)
(*                                                                         *)
(* None of the properties is inductive alone.  A released escrow is backed *)
(* because an approved status is (ApprovalInv) and because a transaction   *)
(* that finalizes an escrow still finds it as it read it (TxInv).  One     *)
(* proof is under review because none is open in the statuses from which   *)
(* a proof may be submitted (ReviewInv): a dispute may leave an open proof *)
(* behind, but no way leads back from there.                               *)
(*                                                                         *)
(* What is paid stays within the terms (PaymentInv) because the agreement  *)
(* is approved once, and with it one milestone; because a milestone has at *)
(* most one escrow that is not settled; and because no escrow is worth     *)
(* more than its milestone, nor all milestones more than the agreement.    *)
(* The last is about a sum, which the section Sums gets by induction.      *)
(***************************************************************************)
EXTENDS AgreementWorkflow, FiniteSetTheorems, SequenceTheorems, TLAPS

Settlements ==
    {"UNFUNDED", "FUNDING_PENDING", "FUNDED", "PAYOUT_CONFIRMED", "REFUND_CONFIRMED"}
AgreementRows == [status: AgreementStatuses, settlement: Settlements]
MilestoneRows ==
    [status: MilestoneStatuses \cup {"absent"}, amount: MilestoneAmounts \cup {0}]
ProofRows ==
    [milestone: Milestones, status: {"submitted", "accepted", "rejected", "needs_changes"}]
DisputeRows ==
    [milestone: Milestones,
     status: {"open", "resolved_release", "resolved_refund", "resolved_split"}]
EscrowRows == [scope: Scopes, amount: MilestoneAmounts, status: EscrowStatuses]

RowsInv ==
    /\ agreement \in AgreementRows
    /\ milestones \in [Milestones -> MilestoneRows]
    /\ proofs \in Seq(ProofRows)
    /\ disputes \in Seq(DisputeRows)
    /\ escrows \in Seq(EscrowRows)

\* The status of an escrow that is being settled.
Pending(to) == IF to = "released" THEN "release_pending" ELSE "refund_pending"

Finalizes(tx, e) == tx.op = "finalize" /\ tx.escrow = e

\* A transaction under way is about rows that exist; the escrow it finalizes is
\* its own until it commits.
TxInv ==
    /\ \A tx \in txs :
          /\ tx.op = "resolve" => tx.dispute \in DOMAIN disputes /\ tx.type \in {"release", "refund", "split"}
          /\ tx.op = "create" => tx.scope \in Scopes /\ tx.amount \in MilestoneAmounts
          /\ tx.op = "finalize" => /\ tx.escrow \in DOMAIN escrows
                                   /\ tx.to \in TerminalStatuses
                                   /\ escrows[tx.escrow].status = Pending(tx.to)
    /\ \A tx, ty \in txs : \A e \in DOMAIN escrows :
          Finalizes(tx, e) /\ Finalizes(ty, e) => tx = ty

\* Who says approved was approved.
ApprovalInv ==
    /\ \A m \in Milestones : milestones[m].status = "approved" => Approved(m)
    /\ agreement.status = "approved" => \E m \in Milestones : Approved(m)

\* The statuses from which a proof may still come, or a review has ended.
BeforeReview ==
    {"draft", "pending_acceptance", "accepted", "funding_required", "funded",
     "in_progress", "rejected"}

OpenProofs == {i \in DOMAIN proofs : proofs[i].status = "submitted"}

ReviewInv ==
    /\ agreement.status # "under_review"
    /\ agreement.status \in BeforeReview => OpenProofs = {}
    /\ agreement.status = "proof_submitted" =>
          \E i \in DOMAIN proofs : /\ OpenProofs = {i}
                                   /\ milestones[proofs[i].milestone].status = "proof_submitted"

\* The milestones share the agreement's amount; a row that is not there has none.
AllocationWithinAgreement == Sum(milestones, Milestones) <= Amount

AllocationInv ==
    /\ AllocationWithinAgreement
    /\ \A m \in Milestones : ~Exists(m) => milestones[m].amount = 0

\* An escrow of a milestone, there or about to be, is within its amount.
Within(scope, amount) ==
    scope \in Milestones => Exists(scope) /\ amount <= milestones[scope].amount

ScopeInv ==
    /\ \A e \in DOMAIN escrows : Within(escrows[e].scope, escrows[e].amount)
    /\ \A tx \in txs : tx.op = "create" => Within(tx.scope, tx.amount)
    /\ \A d, e \in DOMAIN escrows :
          /\ escrows[d].scope = escrows[e].scope
          /\ {escrows[d].status, escrows[e].status} \cap TerminalStatuses = {}
          => d = e

\* The agreement is approved once and for good, and with it one milestone.
Payable(m) == milestones[m].status \in {"approved", "released"}

ConclusionInv ==
    /\ \A m \in Milestones :
          Payable(m) => agreement.status \in {"approved", "release_pending", "released"}
    /\ \A m, n \in Milestones : Payable(m) /\ Payable(n) => m = n

\* What an escrow on its way to the worker says of its milestone.
PayoutInv ==
    \A e \in DOMAIN escrows :
        escrows[e].scope \in Milestones =>
            /\ escrows[e].status = "release_pending" =>
                  milestones[escrows[e].scope].status = "approved"
            /\ escrows[e].status = "released" =>
                  milestones[escrows[e].scope].status = "released"

\* The escrows whose amount a milestone's worker got.
PaidEscrows == UNION {Paid(m) : m \in Milestones}

\* Of all escrows of all milestones at most one is ever paid out.
OnePayment == \A d, e \in PaidEscrows : d = e

PaymentInv == AllocationInv /\ ScopeInv /\ ConclusionInv /\ PayoutInv /\ OnePayment

WorkflowInv ==
    /\ RowsInv /\ TxInv /\ ApprovalInv /\ ReviewInv
    /\ ResolvedReleaseIsApproved /\ SettledStatusIsTrue /\ ReleaseIsBacked
    /\ PaymentInv

-----------------------------------------------------------------------------
(* Sums                                                                    *)

\* The element a fold takes first.
Pick(s) == CHOOSE x \in s : TRUE
\* g sums f over every part of D: the equation by which the fold of the community
\* modules is defined.
Adds(g, f, D) ==
    g = [s \in SUBSET D |-> IF s = {} THEN 0 ELSE f[Pick(s)] + g[s \ {Pick(s)}]]

\* SumFunction, its definition unfolded.
LEMMA SumIs ==
    ASSUME NEW f
    PROVE  SumFunction(f) = (CHOOSE g : Adds(g, f, DOMAIN f))[DOMAIN f]
BY DEF SumFunction, SumFunctionOnSet, FoldFunctionOnSet, FoldFunction, MapThenFoldSet, Adds, Pick

\* Induction on finite sets, as the existence of a least counterexample.
LEMMA Least ==
    ASSUME NEW D, IsFiniteSet(D), NEW T, T \subseteq SUBSET D, T # {}
    PROVE  \E s \in T : \A x \in s : s \ {x} \notin T
<1>1. IsWellFoundedOn(StrictSubsetOrdering(D), SUBSET D)
  BY FS_FiniteSubsetsOfFinite, FS_StrictSubsetOrderingWellFounded
<1>2. PICK s \in T : \A t \in T : ~(<<t, s>> \in StrictSubsetOrdering(D))
  BY <1>1, WFMin
<1>3. ASSUME NEW x \in s, s \ {x} \in T PROVE FALSE
  <2>1. <<s \ {x}, s>> \in StrictSubsetOrdering(D)
    <3> DEFINE p == <<s \ {x}, s>>
    <3>1. p \in (SUBSET D) \X (SUBSET D)
       BY <1>3
    <3>2. p[1] \subseteq p[2] /\ p[1] # p[2]
       BY <1>3
    <3> QED BY <3>1, <3>2 DEF StrictSubsetOrdering
  <2> QED
    BY <1>2, <1>3, <2>1
<1> QED
  BY <1>3

\* The equation of the sum, up to the sets of a given size.
AddsUpTo(g, f, D, n) ==
    \A s \in SUBSET D :
        Cardinality(s) <= n =>
            g[s] = IF s = {} THEN 0 ELSE f[Pick(s)] + g[s \ {Pick(s)}]

LEMMA Picked == ASSUME NEW s, s # {} PROVE Pick(s) \in s
BY DEF Pick

\* The equation has a solution: grow one from the small sets to the large.
LEMMA SumExists ==
    ASSUME NEW D, IsFiniteSet(D), NEW f
    PROVE  \E g : Adds(g, f, D)
<1> DEFINE Step(g) == [s \in SUBSET D |->
                         IF s = {} THEN 0 ELSE f[Pick(s)] + g[s \ {Pick(s)}]]
           Short == {U \in SUBSET D :
                       ~ \E g : AddsUpTo(g, f, D, Cardinality(U))}
<1>0. \A U \in SUBSET D : IsFiniteSet(U) /\ Cardinality(U) \in Nat
  BY FS_Subset, FS_CardinalityType
<1>1. \A s \in SUBSET D : s # {} =>
         /\ s \ {Pick(s)} \in SUBSET D
         /\ Cardinality(s \ {Pick(s)}) = Cardinality(s) - 1
  BY <1>0, FS_RemoveElement, Picked
<1>2. ASSUME NEW n \in Nat, NEW g, AddsUpTo(g, f, D, n)
      PROVE  AddsUpTo(Step(g), f, D, n + 1)
  <2> SUFFICES ASSUME NEW s \in SUBSET D, Cardinality(s) <= n + 1
               PROVE  Step(g)[s] = IF s = {} THEN 0 ELSE f[Pick(s)] + Step(g)[s \ {Pick(s)}]
    BY DEF AddsUpTo
  <2>1. CASE s = {}
    BY <2>1
  <2>2. CASE s # {}
    <3> DEFINE t == s \ {Pick(s)}
    <3>1. t \in SUBSET D /\ Cardinality(t) <= n
      BY <1>0, <1>1, <2>2
    <3>2. Step(g)[t] = g[t]
      BY <1>2, <3>1 DEF AddsUpTo
    <3>3. Step(g)[s] = f[Pick(s)] + g[t]
      BY <2>2
    <3> QED
      BY <2>2, <3>2, <3>3
  <2> QED
    BY <2>1, <2>2
<1>3. Short = {}
  <2> SUFFICES ASSUME Short # {} PROVE FALSE
    OBVIOUS
  <2>1. PICK U \in Short : \A x \in U : U \ {x} \notin Short
    <3>1. Short \subseteq SUBSET D
      OBVIOUS
    <3> HIDE DEF Short
    <3> QED
      BY <3>1, Least
  <2>2. CASE U = {}
    <3>1. AddsUpTo(Step([s \in SUBSET D |-> 0]), f, D, 0)
      <4>1. \A s \in SUBSET D : Cardinality(s) <= 0 => s = {}
        BY <1>0, FS_EmptySet
      <4> QED
        BY <4>1 DEF AddsUpTo
    <3> QED
      BY <2>2, <3>1, FS_EmptySet
  <2>3. CASE U # {}
    <3>1. PICK g : AddsUpTo(g, f, D, Cardinality(U \ {Pick(U)}))
      BY <2>1, <2>3, Picked
    <3>2. Cardinality(U \ {Pick(U)}) + 1 = Cardinality(U) /\ Cardinality(U \ {Pick(U)}) \in Nat
      <4>1. U \in SUBSET D /\ U \ {Pick(U)} \in SUBSET D
        OBVIOUS
      <4> HIDE DEF Short
      <4> QED
        BY <1>0, <1>1, <2>3, <4>1
    <3> HIDE DEF Step
    <3>3. AddsUpTo(Step(g), f, D, Cardinality(U))
      BY <1>2, <3>1, <3>2
    <3> QED
      BY <3>3
  <2> QED
    BY <2>2, <2>3
<1>4. PICK g : AddsUpTo(g, f, D, Cardinality(D))
  BY <1>3
<1>5. \A s \in SUBSET D : Cardinality(s) <= Cardinality(D)
  BY FS_Subset
<1> DEFINE h == [s \in SUBSET D |-> g[s]]
<1>6. Adds(h, f, D)
  BY <1>1, <1>4, <1>5 DEF AddsUpTo, Adds
<1> QED
  BY <1>6

\* Hence SumFunction satisfies it.
LEMMA SumAdds ==
    ASSUME NEW D, IsFiniteSet(D), NEW f, DOMAIN f = D
    PROVE  \E g : Adds(g, f, D) /\ SumFunction(f) = g[D]
<1>1. Adds(CHOOSE g : Adds(g, f, D), f, D)
  BY SumExists
<1> QED
  BY <1>1, SumIs

\* Sums of naturals are naturals; sums of one term and of none.
LEMMA SumNat ==
    ASSUME NEW D, IsFiniteSet(D), NEW f \in [D -> Nat]
    PROVE  SumFunction(f) \in Nat
<1>1. PICK g : Adds(g, f, D) /\ SumFunction(f) = g[D]
  BY SumAdds
<1> DEFINE Bad == {s \in SUBSET D : g[s] \notin Nat}
<1>2. Bad = {}
  <2> SUFFICES ASSUME Bad # {} PROVE FALSE
    OBVIOUS
  <2>1. PICK s \in Bad : \A x \in s : s \ {x} \notin Bad
    <3>1. Bad \subseteq SUBSET D
      OBVIOUS
    <3> HIDE DEF Bad
    <3> QED
      BY <3>1, Least
  <2>2. s # {} /\ Pick(s) \in s
    BY <1>1, <2>1, Picked DEF Adds
  <2>3. g[s \ {Pick(s)}] \in Nat /\ f[Pick(s)] \in Nat
    BY <2>1, <2>2
  <2>4. g[s] = f[Pick(s)] + g[s \ {Pick(s)}]
    BY <1>1, <2>2 DEF Adds
  <2> QED
    BY <2>1, <2>3, <2>4
<1> QED
  BY <1>1, <1>2

LEMMA SumOne ==
    ASSUME NEW e, NEW f, DOMAIN f = {e}, f[e] \in Nat
    PROVE  SumFunction(f) = f[e]
<1>1. PICK g : Adds(g, f, {e}) /\ SumFunction(f) = g[{e}]
  BY SumAdds, FS_Singleton
<1>2. Pick({e}) = e /\ {e} \ {e} = {}
  BY Picked
<1>3. g[{}] = 0
  BY <1>1 DEF Adds
<1>4. g[{e}] = f[e] + g[{}]
  BY <1>1, <1>2 DEF Adds
<1> QED
  BY <1>1, <1>3, <1>4

LEMMA SumNone ==
    ASSUME NEW f, DOMAIN f = {}
    PROVE  SumFunction(f) = 0
<1>1. PICK g : Adds(g, f, {}) /\ SumFunction(f) = g[{}]
  BY SumAdds, FS_EmptySet
<1> QED
  BY <1>1 DEF Adds

LEMMA SumZero ==
    ASSUME NEW D, IsFiniteSet(D), NEW f, DOMAIN f = D, \A i \in D : f[i] = 0
    PROVE  SumFunction(f) = 0
<1>1. PICK g : Adds(g, f, D) /\ SumFunction(f) = g[D]
  BY SumAdds
<1> DEFINE Bad == {s \in SUBSET D : g[s] # 0}
<1>2. Bad = {}
  <2> SUFFICES ASSUME Bad # {} PROVE FALSE
    OBVIOUS
  <2>1. PICK s \in Bad : \A x \in s : s \ {x} \notin Bad
    <3>1. Bad \subseteq SUBSET D
      OBVIOUS
    <3> HIDE DEF Bad
    <3> QED
      BY <3>1, Least
  <2>2. s # {} /\ Pick(s) \in s
    BY <1>1, <2>1, Picked DEF Adds
  <2>3. g[s \ {Pick(s)}] = 0 /\ f[Pick(s)] = 0
    BY <2>1, <2>2
  <2>4. g[s] = f[Pick(s)] + g[s \ {Pick(s)}]
    BY <1>1, <2>2 DEF Adds
  <2> QED
    BY <2>1, <2>3, <2>4
<1> QED
  BY <1>1, <1>2

\* When one term grows by a, so does the sum.
LEMMA SumPlus ==
    ASSUME NEW D, IsFiniteSet(D), NEW f \in [D -> Nat], NEW h \in [D -> Nat],
           NEW m \in D, NEW a \in Nat, h[m] = f[m] + a, \A i \in D \ {m} : h[i] = f[i]
    PROVE  SumFunction(h) = SumFunction(f) + a
<1>1. PICK g : Adds(g, f, D) /\ SumFunction(f) = g[D]
  BY SumAdds
<1>2. PICK k : Adds(k, h, D) /\ SumFunction(h) = k[D]
  BY SumAdds
<1> DEFINE More(s) == IF m \in s THEN a ELSE 0
           Bad == {s \in SUBSET D : ~(g[s] \in Nat /\ k[s] = g[s] + More(s))}
<1>3. Bad = {}
  <2> SUFFICES ASSUME Bad # {} PROVE FALSE
    OBVIOUS
  <2>1. PICK s \in Bad : \A x \in s : s \ {x} \notin Bad
    <3>1. Bad \subseteq SUBSET D
      OBVIOUS
    <3> HIDE DEF Bad
    <3> QED
      BY <3>1, Least
  <2>2. CASE s = {}
    <3>1. g[s] = 0 /\ k[s] = 0
      BY <1>1, <1>2, <2>2 DEF Adds
    <3> QED
      BY <2>1, <2>2, <3>1
  <2>3. CASE s # {}
    <3> DEFINE x == Pick(s)
               t == s \ {x}
    <3>1. x \in s /\ x \in D /\ t \in SUBSET D
      BY <2>1, <2>3, Picked
    <3>2. g[t] \in Nat /\ k[t] = g[t] + More(t)
      BY <2>1, <3>1
    <3>3. g[s] = f[x] + g[t] /\ k[s] = h[x] + k[t]
      BY <1>1, <1>2, <2>1, <2>3 DEF Adds
    <3>4. f[x] \in Nat /\ h[x] \in Nat /\ g[s] \in Nat
      BY <3>1, <3>2, <3>3
    <3>5. k[s] = g[s] + More(s)
      <4>1. CASE x = m
        <5>1. More(t) = 0 /\ More(s) = a /\ h[x] = f[x] + a
          BY <3>1, <4>1
        <5> HIDE DEF More, x, t
        <5> QED
          BY <3>2, <3>3, <3>4, <5>1
      <4>2. CASE x # m
        <5>1. More(t) = More(s) /\ h[x] = f[x] /\ More(t) \in Nat
          BY <3>1, <4>2
        <5> HIDE DEF More, x, t
        <5> QED
          BY <3>2, <3>3, <3>4, <5>1
      <4> QED
        BY <4>1, <4>2
    <3> QED
      BY <2>1, <3>4, <3>5
  <2> QED
    BY <2>2, <2>3
<1>4. k[D] = g[D] + a
  BY <1>3
<1> QED
  BY <1>1, <1>2, <1>4

\* No term exceeds the sum.
LEMMA SumBounds ==
    ASSUME NEW D, IsFiniteSet(D), NEW f \in [D -> Nat], NEW m \in D
    PROVE  f[m] <= SumFunction(f)
<1> DEFINE h == [f EXCEPT ![m] = 0]
<1>1. h \in [D -> Nat] /\ f[m] \in Nat /\ f[m] = h[m] + f[m] /\ \A i \in D \ {m} : f[i] = h[i]
  OBVIOUS
<1> HIDE DEF h
<1>2. SumFunction(f) = SumFunction(h) + f[m]
  BY <1>1, SumPlus
<1>3. SumFunction(h) \in Nat
  BY <1>1, SumNat
<1> QED
  BY <1>1, <1>2, <1>3

-----------------------------------------------------------------------------
(* Lifecycle paths                                                         *)

\* The data of an update of the agreement.
LEMMA TransitionType ==
    ASSUME NEW row \in AgreementRows, NEW to \in AgreementStatuses
    PROVE  /\ transitionAgreementStatus(row, to) \in AgreementRows
           /\ transitionAgreementStatus(row, to).status = to
<1> DEFINE s == CASE to = "funding_required" -> "FUNDING_PENDING"
                  [] to = "funded" -> "FUNDED"
                  [] to = "released" -> "PAYOUT_CONFIRMED"
                  [] to = "refunded" -> "REFUND_CONFIRMED"
                  [] OTHER -> row.settlement
<1>1. s \in Settlements
  BY DEF AgreementRows, Settlements
<1>2. transitionAgreementStatus(row, to) = [status |-> to, settlement |-> s]
  BY DEF transitionAgreementStatus
<1> HIDE DEF s
<1> QED
  BY <1>1, <1>2 DEF AgreementRows

\* A path leaves the agreement in its last status.
LEMMA AgreementMoved ==
    ASSUME agreement \in AgreementRows, NEW path, NEW to \in AgreementStatuses,
           path # <<>>, path[Len(path)] = to, advanceAgreement(path)
    PROVE  agreement' \in AgreementRows /\ agreement'.status = to
<1>1. agreement' = transitionAgreementStatus(agreement, to)
  BY DEF advanceAgreement
<1> QED
  BY <1>1, TransitionType

LEMMA AgreementStays ==
    ASSUME NEW path, path = <<>>, advanceAgreement(path)
    PROVE  agreement' = agreement
BY DEF advanceAgreement

LEMMA OneTransition ==
    ASSUME NEW to, advanceAgreement(<<to>>)
    PROVE  CanTransitionAgreement(agreement.status, to)
<1>1. 1 \in DOMAIN <<to>> /\ <<to>>[1] = to /\ (<<agreement.status>> \o <<to>>)[1] = agreement.status
  OBVIOUS
<1> QED
  BY <1>1 DEF advanceAgreement

LEMMA TwoTransitions ==
    ASSUME NEW by, NEW to, advanceAgreement(<<by, to>>)
    PROVE  CanTransitionAgreement(agreement.status, by)
<1>1. /\ 1 \in DOMAIN <<by, to>> /\ <<by, to>>[1] = by
      /\ (<<agreement.status>> \o <<by, to>>)[1] = agreement.status
  OBVIOUS
<1> QED
  BY <1>1 DEF advanceAgreement

\* A path leaves its milestone in its last status, and nothing else changes.
LEMMA MilestoneMoved ==
    ASSUME milestones \in [Milestones -> MilestoneRows], NEW m \in Milestones, NEW path,
           NEW to \in MilestoneStatuses, path # <<>>, path[Len(path)] = to,
           advanceMilestone(m, path)
    PROVE  /\ milestones' \in [Milestones -> MilestoneRows]
           /\ milestones'[m].status = to
           /\ \A n \in Milestones \ {m} : milestones'[n] = milestones[n]
           /\ \A n \in Milestones : milestones'[n].amount = milestones[n].amount
<1> DEFINE row == [milestones[m] EXCEPT !.status = to]
<1>1. /\ row \in MilestoneRows /\ row.status = to /\ row.amount = milestones[m].amount
  BY DEF MilestoneRows
<1>2. milestones' = [milestones EXCEPT ![m] = row]
  BY DEF advanceMilestone, transitionMilestoneStatus
<1> HIDE DEF row
<1> QED
  BY <1>1, <1>2

LEMMA MilestoneStays ==
    ASSUME milestones \in [Milestones -> MilestoneRows], NEW m \in Milestones, NEW path,
           path = <<>>, advanceMilestone(m, path)
    PROVE  milestones' = milestones
BY DEF advanceMilestone

\* Where the paths of the services end.
LEMMA ProofPathEnds ==
    ASSUME NEW status
    PROVE  ProofPath(status) # <<>> /\ ProofPath(status)[Len(ProofPath(status))] = "proof_submitted"
BY DEF ProofPath

LEMMA DisputePathEnds ==
    ASSUME NEW status
    PROVE  DisputePath(status) # <<>> /\ DisputePath(status)[Len(DisputePath(status))] = "disputed"
BY DEF DisputePath

\* The last status of two paths, one after the other.
LEMMA LastOfBoth ==
    ASSUME NEW S, NEW a \in Seq(S), NEW b \in Seq(S), b # <<>>
    PROVE  a \o b # <<>> /\ (a \o b)[Len(a \o b)] = b[Len(b)]
<1>1. Len(a) \in Nat /\ Len(b) \in Nat /\ Len(b) > 0
  BY EmptySeq
<1>2. Len(a \o b) = Len(a) + Len(b) /\ a \o b \in Seq(S)
  BY ConcatProperties
<1>3. Len(a) + Len(b) \in 1..(Len(a) + Len(b)) /\ ~(Len(a) + Len(b) <= Len(a))
  BY <1>1
<1>4. (a \o b)[Len(a) + Len(b)] = b[Len(a) + Len(b) - Len(a)]
  BY <1>3, ConcatProperties
<1>5. Len(a) + Len(b) - Len(a) = Len(b) /\ Len(a) + Len(b) # 0
  BY <1>1
<1> QED
  BY <1>2, <1>4, <1>5

ReviewOutcome(decision) == IF decision = "needs_changes" THEN "in_progress" ELSE decision

LEMMA ReviewPathEnds ==
    ASSUME NEW status, NEW decision \in {"approved", "rejected", "needs_changes"}
    PROVE  /\ ReviewPath(status, decision) # <<>>
           /\ ReviewPath(status, decision)[Len(ReviewPath(status, decision))] = ReviewOutcome(decision)
<1> DEFINE S == {"under_review", "approved", "rejected", "in_progress"}
           a == IF status = "proof_submitted" THEN <<"under_review">> ELSE <<>>
           b == CASE decision = "approved" -> <<"approved">>
                  [] decision = "rejected" -> <<"rejected">>
                  [] decision = "needs_changes" -> <<"rejected", "in_progress">>
<1>1. a \in Seq(S)
  <2>1. <<"under_review">> \in Seq(S) /\ <<>> \in Seq(S)
    OBVIOUS
  <2> QED
    BY <2>1
<1>2. b \in Seq(S) /\ b # <<>> /\ b[Len(b)] = ReviewOutcome(decision)
  <2>1. CASE decision = "approved"
    <3>1. b = <<"approved">>
      BY <2>1
    <3> QED
      BY <2>1, <3>1 DEF ReviewOutcome
  <2>2. CASE decision = "rejected"
    <3>1. b = <<"rejected">>
      BY <2>2
    <3> QED
      BY <2>2, <3>1 DEF ReviewOutcome
  <2>3. CASE decision = "needs_changes"
    <3>1. b = <<"rejected", "in_progress">>
      BY <2>3
    <3> QED
      BY <2>3, <3>1 DEF ReviewOutcome
  <2> QED
    BY <2>1, <2>2, <2>3
<1>3. ReviewPath(status, decision) = a \o b
  BY DEF ReviewPath
<1> HIDE DEF S, a, b
<1> QED
  BY <1>1, <1>2, <1>3, LastOfBoth

-----------------------------------------------------------------------------
(* What the properties rest on                                             *)

\* An approval is never taken back.
ApprovalsKept == \A m \in Milestones : Approved(m) => Approved(m)'

\* An escrow that is settled rests.
EscrowsRest ==
    \A e \in DOMAIN escrows :
        /\ e \in DOMAIN escrows' /\ escrows'[e].scope = escrows[e].scope
        /\ escrows[e].status \in TerminalStatuses => escrows'[e].status = escrows[e].status

\* What was approved stays so: no later proof, review, dispute or refund takes
\* the agreement or the milestone back.
ApprovalStands ==
    /\ agreement.status \in {"approved", "release_pending", "released"} =>
          agreement'.status \in {"approved", "release_pending", "released"}
    /\ \A m \in Milestones : Payable(m) => Payable(m)'

LEMMA ApprovalsSame ==
    ASSUME UNCHANGED <<proofs, disputes>>
    PROVE  ApprovalsKept
BY DEF ApprovalsKept, Approved

LEMMA BackedKept ==
    ASSUME ReleaseIsBacked, ApprovalsKept, UNCHANGED escrows
    PROVE  ReleaseIsBacked'
BY DEF ReleaseIsBacked, ApprovalsKept

LEMMA SettledKept ==
    ASSUME SettledStatusIsTrue, EscrowsRest,
           \A m \in Milestones : milestones'[m].status \in TerminalStatuses =>
              \/ milestones'[m].status = milestones[m].status
              \/ \E e \in DOMAIN escrows' : /\ escrows'[e].scope = m
                                            /\ escrows'[e].status = milestones'[m].status,
           agreement'.status \in TerminalStatuses =>
              \/ agreement'.status = agreement.status
              \/ \E e \in DOMAIN escrows' : escrows'[e].status = agreement'.status
    PROVE  SettledStatusIsTrue'
<1>1. ASSUME NEW to \in TerminalStatuses, NEW m \in Milestones, milestones'[m].status = to
      PROVE  \E e \in InScope(m)' : escrows'[e].status = to
  <2>1. CASE milestones[m].status = to
    <3>1. PICK e \in DOMAIN escrows : escrows[e].scope = m /\ escrows[e].status = to
      BY <2>1 DEF SettledStatusIsTrue, InScope
    <3> QED
      BY <3>1 DEF EscrowsRest, InScope
  <2>2. CASE \E e \in DOMAIN escrows' : escrows'[e].scope = m /\ escrows'[e].status = milestones'[m].status
    BY <1>1, <2>2 DEF InScope
  <2> QED
    BY <1>1, <2>1, <2>2
<1>2. ASSUME NEW to \in TerminalStatuses, agreement'.status = to
      PROVE  \E e \in DOMAIN escrows' : escrows'[e].status = to
  <2>1. CASE agreement.status = to
    <3>1. PICK e \in DOMAIN escrows : escrows[e].status = to
      BY <2>1 DEF SettledStatusIsTrue
    <3> QED
      BY <3>1 DEF EscrowsRest
  <2> QED
    BY <1>2, <2>1
<1> QED
  BY <1>1, <1>2 DEF SettledStatusIsTrue

LEMMA EscrowsSame == ASSUME UNCHANGED escrows PROVE EscrowsRest
BY DEF EscrowsRest

\* Transactions end, or new rows appear beside the ones they are about.
LEMMA TxKept ==
    ASSUME TxInv, txs' \subseteq txs, DOMAIN disputes \subseteq DOMAIN disputes',
           DOMAIN escrows \subseteq DOMAIN escrows',
           \A tx \in txs' : \A e \in DOMAIN escrows :
              Finalizes(tx, e) => escrows'[e].status = escrows[e].status
    PROVE  TxInv'
<1>1. ASSUME NEW tx \in txs'
      PROVE  /\ tx.op = "resolve" => tx.dispute \in DOMAIN disputes' /\ tx.type \in {"release", "refund", "split"}
             /\ tx.op = "create" => tx.scope \in Scopes /\ tx.amount \in MilestoneAmounts
             /\ tx.op = "finalize" => /\ tx.escrow \in DOMAIN escrows'
                                      /\ tx.to \in TerminalStatuses
                                      /\ escrows'[tx.escrow].status = Pending(tx.to)
  BY DEF TxInv, Finalizes
<1>2. ASSUME NEW tx \in txs', NEW ty \in txs', NEW e \in DOMAIN escrows',
             Finalizes(tx, e), Finalizes(ty, e)
      PROVE  tx = ty
  BY <1>2 DEF TxInv, Finalizes
<1> QED
  BY <1>1, <1>2 DEF TxInv, Finalizes

-----------------------------------------------------------------------------
(* What the payments rest on                                               *)

\* One escrow gets another status.
LEMMA EscrowWritten ==
    ASSUME RowsInv, NEW e \in DOMAIN escrows, NEW status \in EscrowStatuses,
           escrows' = [escrows EXCEPT ![e].status = status]
    PROVE  /\ escrows' \in Seq(EscrowRows) /\ DOMAIN escrows' = DOMAIN escrows
           /\ \A f \in DOMAIN escrows :
                 /\ escrows'[f].scope = escrows[f].scope
                 /\ escrows'[f].amount = escrows[f].amount
                 /\ escrows'[f].status = IF f = e THEN status ELSE escrows[f].status
<1> DEFINE row == [escrows[e] EXCEPT !.status = status]
<1>0. escrows \in Seq(EscrowRows) /\ escrows[e] \in EscrowRows
  BY DEF RowsInv
<1>1. /\ row \in EscrowRows /\ row.scope = escrows[e].scope /\ row.amount = escrows[e].amount
      /\ row.status = status
  BY <1>0 DEF EscrowRows
<1>2. escrows' = [escrows EXCEPT ![e] = row]
  OBVIOUS
<1> HIDE DEF row
<1>3. escrows' \in Seq(EscrowRows) /\ DOMAIN escrows' = DOMAIN escrows
  BY <1>0, <1>1, <1>2
<1>4. \A f \in DOMAIN escrows : escrows'[f] = IF f = e THEN row ELSE escrows[f]
  BY <1>0, <1>2
<1> QED
  BY <1>1, <1>3, <1>4

\* No milestone appears and none changes its amount.
TermsKept ==
    \A m \in Milestones :
        milestones'[m].amount = milestones[m].amount /\ (Exists(m)' <=> Exists(m))

\* A creation under way is an old one, or within its scope.
CreationsWithin ==
    \A tx \in txs' : tx.op = "create" => tx \in txs \/ Within(tx.scope, tx.amount)

\* Amounts are naturals, those of rows that are not there too.
LEMMA RowAmountNat ==
    /\ \A row \in MilestoneRows : row.amount \in Nat
    /\ \A row \in EscrowRows : row.amount \in Nat
<1>1. MilestoneAmounts \cup {0} \subseteq Nat
  BY AmountsArePositive
<1>2. ASSUME NEW row \in MilestoneRows PROVE row.amount \in Nat
  <2>1. row.amount \in MilestoneAmounts \cup {0}
    BY DEF MilestoneRows
  <2> QED
    BY <1>1, <2>1
<1>3. ASSUME NEW row \in EscrowRows PROVE row.amount \in Nat
  <2>1. row.amount \in MilestoneAmounts
    BY DEF EscrowRows
  <2> QED
    BY <1>1, <2>1
<1> QED
  BY <1>2, <1>3

LEMMA AmountsAreNat ==
    ASSUME NEW rows \in [Milestones -> MilestoneRows]
    PROVE  Amounts(rows, Milestones) \in [Milestones -> Nat]
<1>1. \A m \in Milestones : rows[m].amount \in Nat
  BY RowAmountNat
<1> QED
  BY <1>1 DEF Amounts

LEMMA AllocationKept ==
    ASSUME AllocationInv, TermsKept
    PROVE  AllocationInv'
<1>1. Amounts(milestones', Milestones) = Amounts(milestones, Milestones)
  BY DEF Amounts, TermsKept
<1> QED
  BY <1>1 DEF AllocationInv, AllocationWithinAgreement, Sum, TermsKept

LEMMA ScopesKept ==
    ASSUME ScopeInv, TermsKept, CreationsWithin, UNCHANGED escrows
    PROVE  ScopeInv'
BY DEF ScopeInv, TermsKept, CreationsWithin, Within

LEMMA OnePaymentSame ==
    ASSUME OnePayment, UNCHANGED escrows
    PROVE  OnePayment'
BY DEF OnePayment, PaidEscrows, Paid, InScope

\* A step that leaves agreement, milestones and escrows alone.
LEMMA PaymentSame ==
    ASSUME PaymentInv, CreationsWithin, UNCHANGED <<agreement, milestones, escrows>>
    PROVE  PaymentInv' /\ ApprovalStands
<1>1. TermsKept
  BY DEF TermsKept, Exists
<1>2. AllocationInv' /\ ScopeInv' /\ OnePayment'
  BY <1>1, AllocationKept, ScopesKept, OnePaymentSame DEF PaymentInv
<1>3. ConclusionInv' /\ PayoutInv'
  BY DEF PaymentInv, ConclusionInv, PayoutInv, Payable
<1>4. ApprovalStands
  BY DEF ApprovalStands, Payable
<1> QED
  BY <1>2, <1>3, <1>4 DEF PaymentInv

\* Before the agreement is approved no milestone is payable, so that no escrow of
\* a milestone is on its way to the worker; a step of such an agreement may
\* approve one milestone.
LEMMA UnconcludedKeeps ==
    ASSUME PaymentInv, agreement.status \notin {"approved", "release_pending", "released"},
           TermsKept, txs' \subseteq txs, UNCHANGED escrows, NEW m,
           \A n \in Milestones \ {m} : milestones'[n].status = milestones[n].status,
           m \in Milestones => /\ milestones'[m].status # "released"
                               /\ milestones'[m].status = "approved" => agreement'.status = "approved"
    PROVE  PaymentInv' /\ ApprovalStands
<1>1. \A n \in Milestones : ~Payable(n)
  BY DEF PaymentInv, ConclusionInv
<1>2. AllocationInv' /\ ScopeInv' /\ OnePayment'
  BY AllocationKept, ScopesKept, OnePaymentSame DEF PaymentInv, CreationsWithin
<1>3. \A n \in Milestones : Payable(n)' => n = m /\ agreement'.status = "approved"
  BY <1>1 DEF Payable
<1>4. ConclusionInv'
  BY <1>3 DEF ConclusionInv
<1>5. PayoutInv'
  BY <1>1 DEF PaymentInv, PayoutInv, Payable
<1> QED
  BY <1>1, <1>2, <1>4, <1>5 DEF PaymentInv, ApprovalStands

\* An escrow gets a status that pays nobody.
LEMMA UnpaidKeeps ==
    ASSUME PaymentInv, RowsInv, NEW e \in DOMAIN escrows, NEW status \in EscrowStatuses,
           escrows' = [escrows EXCEPT ![e].status = status],
           escrows[e].status \notin TerminalStatuses, status # "released",
           status = "release_pending" /\ escrows[e].scope \in Milestones =>
              milestones[escrows[e].scope].status = "approved",
           TermsKept, txs' \subseteq txs, ConclusionInv',
           \A m \in Milestones : Payable(m) => milestones'[m].status = milestones[m].status
    PROVE  PaymentInv'
<1>1. /\ DOMAIN escrows' = DOMAIN escrows
      /\ \A f \in DOMAIN escrows :
            /\ escrows'[f].scope = escrows[f].scope
            /\ escrows'[f].amount = escrows[f].amount
            /\ escrows'[f].status = IF f = e THEN status ELSE escrows[f].status
  BY EscrowWritten
<1>2. AllocationInv'
  BY AllocationKept DEF PaymentInv
<1>3. ScopeInv'
  <2>1. \A f \in DOMAIN escrows' : Within(escrows[f].scope, escrows[f].amount)'
    BY <1>1 DEF PaymentInv, ScopeInv, Within, TermsKept
  <2>2. \A tx \in txs' : tx.op = "create" => Within(tx.scope, tx.amount)'
    BY DEF PaymentInv, ScopeInv, Within, TermsKept
  <2>3. \A f \in DOMAIN escrows :
           escrows'[f].status \notin TerminalStatuses => escrows[f].status \notin TerminalStatuses
    BY <1>1
  <2>4. \A d, f \in DOMAIN escrows' :
           /\ escrows'[d].scope = escrows'[f].scope
           /\ {escrows'[d].status, escrows'[f].status} \cap TerminalStatuses = {}
           => d = f
    BY <1>1, <2>3 DEF PaymentInv, ScopeInv
  <2> QED
    BY <2>1, <2>2, <2>4 DEF ScopeInv
<1>4. PayoutInv'
  BY <1>1 DEF PaymentInv, PayoutInv, Payable
<1>5. OnePayment'
  BY <1>1 DEF PaymentInv, OnePayment, PaidEscrows, Paid, InScope
<1> QED
  BY <1>2, <1>3, <1>4, <1>5 DEF PaymentInv

-----------------------------------------------------------------------------
(* Steps that change only transactions under way                           *)

\* Nothing is written; what the transactions hold is as it should be.
LEMMA NothingWritten ==
    ASSUME WorkflowInv, TxInv', CreationsWithin,
           UNCHANGED <<agreement, milestones, proofs, disputes, escrows>>
    PROVE  WorkflowInv' /\ ApprovalStands
<1>1. RowsInv' /\ ApprovalInv' /\ ReviewInv'
  BY DEF WorkflowInv, RowsInv, ApprovalInv, ReviewInv, Approved, OpenProofs
<1>2. ResolvedReleaseIsApproved' /\ ReleaseIsBacked'
  BY DEF WorkflowInv, ResolvedReleaseIsApproved, ReleaseIsBacked, Approved
<1>3. SettledStatusIsTrue'
  BY DEF WorkflowInv, SettledStatusIsTrue, InScope
<1>4. PaymentInv' /\ ApprovalStands
  BY PaymentSame DEF WorkflowInv
<1> QED
  BY <1>1, <1>2, <1>3, <1>4 DEF WorkflowInv

LEMMA ReadDisputeKeeps ==
    ASSUME WorkflowInv, NEW i \in DOMAIN disputes, NEW type \in {"release", "refund", "split"},
           ReadDispute(i, type)
    PROVE  WorkflowInv' /\ ApprovalStands
<1> DEFINE tx == [op |-> "resolve", dispute |-> i, type |-> type]
<1>1. txs' = txs \cup {tx} /\ UNCHANGED <<agreement, milestones, proofs, disputes, escrows>>
  BY DEF ReadDispute, Read
<1>2. tx.op = "resolve" /\ tx.dispute = i /\ tx.type = type
  OBVIOUS
<1> HIDE DEF tx
<1>3. TxInv'
  BY <1>1, <1>2 DEF WorkflowInv, TxInv, Finalizes
<1>4. CreationsWithin
  BY <1>1, <1>2 DEF CreationsWithin
<1> QED
  BY <1>1, <1>3, <1>4, NothingWritten

LEMMA ReadForEscrowKeeps ==
    ASSUME WorkflowInv, NEW scope \in Scopes, NEW amount \in MilestoneAmounts,
           ReadForEscrow(scope, amount)
    PROVE  WorkflowInv' /\ ApprovalStands
<1> DEFINE tx == [op |-> "create", scope |-> scope, amount |-> amount]
<1>1. txs' = txs \cup {tx} /\ UNCHANGED <<agreement, milestones, proofs, disputes, escrows>>
  BY DEF ReadForEscrow, Read
<1>2. tx.op = "create" /\ tx.scope = scope /\ tx.amount = amount
  OBVIOUS
<1> HIDE DEF tx
<1>3. TxInv'
  BY <1>1, <1>2 DEF WorkflowInv, TxInv, Finalizes
<1>4. CreationsWithin
  <2>1. Within(scope, amount)
    BY ScopesDiffer DEF ReadForEscrow, ScopeExists, ScopeAmount, Within
  <2> QED
    BY <1>1, <1>2, <2>1 DEF CreationsWithin
<1> QED
  BY <1>1, <1>3, <1>4, NothingWritten

LEMMA ReadSettlementKeeps ==
    ASSUME WorkflowInv, NEW e \in DOMAIN escrows, ReadSettlement(e)
    PROVE  WorkflowInv' /\ ApprovalStands
<1> DEFINE to == AdapterStatus(IF escrows[e].status = "release_pending" THEN "release" ELSE "refund")
           tx == [op |-> "finalize", escrow |-> e, to |-> to, agreement |-> agreement.status,
                  others |-> {escrows[i].status : i \in DOMAIN escrows \ {e}}]
<1>1. txs' = txs \cup {tx} /\ UNCHANGED <<agreement, milestones, proofs, disputes, escrows>>
  BY DEF ReadSettlement, Read
<1>2. to \in TerminalStatuses /\ escrows[e].status = Pending(to)
  <2>1. CASE escrows[e].status = "release_pending"
    <3>1. to = "released"
      BY <2>1 DEF AdapterStatus
    <3> QED
      BY <2>1, <3>1 DEF Pending, TerminalStatuses
  <2>2. CASE escrows[e].status = "refund_pending"
    <3>1. to = "refunded"
      BY <2>2 DEF AdapterStatus
    <3> QED
      BY <2>2, <3>1 DEF Pending, TerminalStatuses
  <2> QED
    BY <2>1, <2>2 DEF ReadSettlement
<1> HIDE DEF to
<1>3. tx.op = "finalize" /\ tx.escrow = e /\ tx.to = to
  OBVIOUS
<1> HIDE DEF tx
<1>4. \A ty \in txs : ~Finalizes(ty, e)
  BY DEF ReadSettlement, Finalizes
<1>5. TxInv'
  <2>1. \A f \in DOMAIN escrows : Finalizes(tx, f) => f = e
    BY <1>3 DEF Finalizes
  <2>2. \A ty, tz \in txs' : \A f \in DOMAIN escrows :
          Finalizes(ty, f) /\ Finalizes(tz, f) => ty = tz
    BY <1>1, <1>4, <2>1 DEF WorkflowInv, TxInv
  <2>3. \A ty \in txs' :
          /\ ty.op = "resolve" => ty.dispute \in DOMAIN disputes /\ ty.type \in {"release", "refund", "split"}
          /\ ty.op = "create" => ty.scope \in Scopes /\ ty.amount \in MilestoneAmounts
          /\ ty.op = "finalize" => /\ ty.escrow \in DOMAIN escrows
                                   /\ ty.to \in TerminalStatuses
                                   /\ escrows[ty.escrow].status = Pending(ty.to)
    BY <1>1, <1>2, <1>3 DEF WorkflowInv, TxInv
  <2> QED
    BY <1>1, <2>2, <2>3 DEF TxInv, Finalizes
<1>6. CreationsWithin
  BY <1>1, <1>3 DEF CreationsWithin
<1> QED
  BY <1>1, <1>5, <1>6, NothingWritten

LEMMA RollbackKeeps ==
    ASSUME WorkflowInv, NEW tx \in txs, Rollback(tx)
    PROVE  WorkflowInv' /\ ApprovalStands
<1>1. TxInv'
  BY TxKept DEF Rollback, WorkflowInv
<1>2. CreationsWithin
  BY DEF Rollback, CreationsWithin
<1> QED
  BY <1>1, <1>2, NothingWritten DEF Rollback

-----------------------------------------------------------------------------
(* Agreements and milestones                                               *)

LEMMA AgreementKeeps ==
    ASSUME WorkflowInv,
           AcceptAgreement \/ \E to \in {"cancelled", "funding_required"} : TransitionAgreement(to)
    PROVE  WorkflowInv' /\ ApprovalStands
<1>0. agreement \in AgreementRows
  BY DEF WorkflowInv, RowsInv
<1>1. /\ UNCHANGED <<milestones, proofs, disputes, escrows, txs>>
      /\ agreement.status \in {"draft", "accepted", "funding_required", "expired"}
      /\ agreement' \in AgreementRows
      /\ agreement'.status \in {"accepted", "cancelled", "funding_required"}
      /\ agreement'.status = "cancelled" \/ agreement.status # "expired"
  <2>1. CASE AcceptAgreement
    <3> DEFINE path == <<"pending_acceptance", "accepted">>
    <3>1. path # <<>> /\ path[Len(path)] = "accepted" /\ advanceAgreement(path)
      BY <2>1 DEF AcceptAgreement
    <3>2. CanTransitionAgreement(agreement.status, "pending_acceptance")
      BY <2>1, TwoTransitions DEF AcceptAgreement
    <3> HIDE DEF path
    <3>3. agreement' \in AgreementRows /\ agreement'.status = "accepted"
      BY <1>0, <3>1, AgreementMoved DEF AgreementStatuses
    <3>4. agreement.status = "draft"
      BY <3>2 DEF CanTransitionAgreement, AgreementSuccessors
    <3> QED
      BY <2>1, <3>3, <3>4 DEF AcceptAgreement
  <2>2. ASSUME NEW to \in {"cancelled", "funding_required"}, TransitionAgreement(to)
        PROVE  <1>1!:
    <3> DEFINE path == <<to>>
    <3>1. path # <<>> /\ path[Len(path)] = to /\ advanceAgreement(path)
      BY <2>2 DEF TransitionAgreement
    <3>2. CanTransitionAgreement(agreement.status, to)
      BY <2>2, OneTransition DEF TransitionAgreement
    <3> HIDE DEF path
    <3>3. agreement' \in AgreementRows /\ agreement'.status = to
      BY <1>0, <3>1, AgreementMoved DEF AgreementStatuses
    <3>4. \/ agreement.status \in {"accepted", "funding_required"}
          \/ agreement.status = "expired" /\ to = "cancelled"
      BY <3>2 DEF CanTransitionAgreement, AgreementSuccessors
    <3> QED
      BY <2>2, <3>3, <3>4 DEF TransitionAgreement
  <2> QED
    BY <2>1, <2>2
<1>2. RowsInv' /\ TxInv'
  BY <1>1, TxKept DEF WorkflowInv, RowsInv
<1>3. ApprovalInv'
  BY <1>1 DEF WorkflowInv, ApprovalInv, Approved
<1>4. ReviewInv'
  BY <1>1 DEF WorkflowInv, ReviewInv, OpenProofs, BeforeReview
<1>5. ResolvedReleaseIsApproved'
  BY <1>1 DEF WorkflowInv, ResolvedReleaseIsApproved
<1>6. SettledStatusIsTrue'
  BY <1>1, EscrowsSame, SettledKept DEF WorkflowInv, TerminalStatuses
<1>7. ReleaseIsBacked'
  BY <1>1, ApprovalsSame, BackedKept DEF WorkflowInv
<1>8. PaymentInv' /\ ApprovalStands
  <2>1. TermsKept /\ \A m \in Milestones : milestones'[m].status = milestones[m].status
    BY <1>1 DEF TermsKept, Exists
  <2> QED
    BY <1>1, <2>1, UnconcludedKeeps, ScopesDiffer DEF WorkflowInv
<1> QED
  BY <1>1, <1>2, <1>3, <1>4, <1>5, <1>6, <1>7, <1>8 DEF WorkflowInv

LEMMA CreateMilestoneKeeps ==
    ASSUME WorkflowInv, NEW m \in Milestones, NEW amount \in MilestoneAmounts,
           CreateMilestone(m, amount)
    PROVE  WorkflowInv' /\ ApprovalStands
<1> DEFINE row == [status |-> "pending", amount |-> amount]
<1>0. /\ milestones \in [Milestones -> MilestoneRows] /\ milestones[m].status = "absent"
      /\ agreement.settlement = "UNFUNDED"
      /\ milestones' = [milestones EXCEPT ![m] = row]
      /\ UNCHANGED <<agreement, proofs, disputes, escrows, txs>>
  BY DEF CreateMilestone, MembershipOpen, Exists, WorkflowInv, RowsInv
<1>1. row \in MilestoneRows /\ row.status = "pending" /\ row.amount = amount
  BY DEF MilestoneRows, MilestoneStatuses
<1> HIDE DEF row
<1>2. /\ milestones' \in [Milestones -> MilestoneRows] /\ milestones'[m].status = "pending"
      /\ milestones'[m].amount = amount
      /\ \A n \in Milestones \ {m} : milestones'[n] = milestones[n]
  BY <1>0, <1>1
<1>3. RowsInv' /\ TxInv'
  BY <1>0, <1>2, TxKept DEF WorkflowInv, RowsInv
<1>4. ApprovalInv'
  BY <1>0, <1>2 DEF WorkflowInv, ApprovalInv, Approved
<1>5. ReviewInv'
  <2>1. \A i \in DOMAIN proofs : proofs[i].milestone \in Milestones
    <3>1. \A i \in DOMAIN proofs : proofs[i] \in ProofRows
      BY DEF WorkflowInv, RowsInv
    <3> QED
      BY <3>1 DEF ProofRows
  <2> QED
    BY <1>0, <1>2, <2>1 DEF WorkflowInv, ReviewInv, OpenProofs
<1>6. ResolvedReleaseIsApproved'
  BY <1>0 DEF WorkflowInv, ResolvedReleaseIsApproved
<1>7. SettledStatusIsTrue'
  BY <1>0, <1>2, EscrowsSame, SettledKept DEF WorkflowInv, TerminalStatuses
<1>8. ReleaseIsBacked'
  BY <1>0, ApprovalsSame, BackedKept DEF WorkflowInv
<1>9. PaymentInv'
  <2>0. PaymentInv /\ ~Exists(m) /\ milestones[m].amount = 0 /\ amount \in Nat
    BY AmountsArePositive DEF WorkflowInv, PaymentInv, AllocationInv, CreateMilestone
  <2>1. AllocationInv'
    <3> DEFINE f == Amounts(milestones, Milestones)
               h == Amounts(milestones', Milestones)
    <3>1. f \in [Milestones -> Nat] /\ h \in [Milestones -> Nat]
      BY <1>0, <1>2, AmountsAreNat
    <3>2. f[m] = 0 /\ h[m] = amount /\ \A n \in Milestones \ {m} : h[n] = f[n]
      BY <1>1, <1>2, <2>0 DEF Amounts
    <3>3. h[m] = f[m] + amount
      BY <2>0, <3>2
    <3> HIDE DEF f, h
    <3>4. SumFunction(h) = SumFunction(f) + amount
      BY <2>0, <3>1, <3>2, <3>3, SumPlus, MilestonesFinite
    <3>5. SumFunction(f) + amount <= Amount
      BY DEF CreateMilestone, WithinAgreement, Sum, f
    <3>6. AllocationWithinAgreement'
      BY <3>4, <3>5 DEF AllocationWithinAgreement, Sum, h
    <3>7. \A n \in Milestones : ~Exists(n)' => milestones'[n].amount = 0
      BY <1>2, <2>0 DEF PaymentInv, AllocationInv, Exists
    <3> QED
      BY <3>6, <3>7 DEF AllocationInv
  <2>2. ScopeInv'
    BY <1>0, <1>2, <2>0 DEF PaymentInv, ScopeInv, Within, Exists
  <2>3. ConclusionInv'
    BY <1>0, <1>2, <2>0 DEF PaymentInv, ConclusionInv, Payable
  <2>4. PayoutInv'
    BY <1>0, <1>2, <2>0 DEF PaymentInv, PayoutInv, Exists
  <2> QED
    BY <1>0, <2>0, <2>1, <2>2, <2>3, <2>4, OnePaymentSame DEF PaymentInv
<1>10. ApprovalStands
  BY <1>0, <1>2 DEF ApprovalStands, Payable
<1> QED
  BY <1>0, <1>3, <1>4, <1>5, <1>6, <1>7, <1>8, <1>9, <1>10 DEF WorkflowInv

-----------------------------------------------------------------------------
(* Proofs, reviews and disputes                                            *)

LEMMA RowAppended ==
    ASSUME NEW S, NEW q \in Seq(S), NEW row \in S
    PROVE  /\ Append(q, row) \in Seq(S)
           /\ DOMAIN Append(q, row) = DOMAIN q \cup {Len(q) + 1}
           /\ Len(q) + 1 \notin DOMAIN q
           /\ Append(q, row)[Len(q) + 1] = row
           /\ \A i \in DOMAIN q : Append(q, row)[i] = q[i]
<1>1. Append(q, row) \in Seq(S) /\ Len(Append(q, row)) = Len(q) + 1
  BY AppendProperties
<1>2. DOMAIN Append(q, row) = 1..(Len(q) + 1) /\ DOMAIN q = 1..Len(q) /\ Len(q) \in Nat
  BY <1>1
<1> QED
  BY <1>1, <1>2, AppendProperties

\* The rows a proof or a dispute names.
LEMMA MilestonesKnown ==
    ASSUME RowsInv
    PROVE  /\ \A i \in DOMAIN proofs : proofs[i] \in ProofRows /\ proofs[i].milestone \in Milestones
           /\ \A i \in DOMAIN disputes :
                 disputes[i] \in DisputeRows /\ disputes[i].milestone \in Milestones
<1>1. \A i \in DOMAIN proofs : proofs[i] \in ProofRows
  BY DEF RowsInv
<1>2. \A i \in DOMAIN disputes : disputes[i] \in DisputeRows
  BY DEF RowsInv
<1> QED
  BY <1>1, <1>2 DEF ProofRows, DisputeRows

LEMMA CreateProofKeeps ==
    ASSUME WorkflowInv, NEW m \in Milestones, CreateProof(m)
    PROVE  WorkflowInv' /\ ApprovalStands
<1> DEFINE row == [milestone |-> m, status |-> "submitted"]
<1>0. /\ RowsInv /\ UNCHANGED <<disputes, escrows, txs>>
      /\ agreement.status \in {"funded", "in_progress", "rejected"}
      /\ proofs' = Append(proofs, row)
  BY DEF WorkflowInv, CreateProof, AcceptsProof
<1>1. agreement' \in AgreementRows /\ agreement'.status = "proof_submitted"
  BY <1>0, ProofPathEnds, AgreementMoved DEF CreateProof, RowsInv, AgreementStatuses
<1>2. /\ milestones' \in [Milestones -> MilestoneRows]
      /\ milestones'[m].status = "proof_submitted"
      /\ \A n \in Milestones \ {m} : milestones'[n] = milestones[n]
      /\ \A n \in Milestones : milestones'[n].amount = milestones[n].amount
  BY <1>0, ProofPathEnds, MilestoneMoved DEF CreateProof, RowsInv, MilestoneStatuses
<1>3. row \in ProofRows /\ row.milestone = m /\ row.status = "submitted"
  BY DEF ProofRows
<1> HIDE DEF row
<1>4. /\ proofs' \in Seq(ProofRows) /\ DOMAIN proofs' = DOMAIN proofs \cup {Len(proofs) + 1}
      /\ Len(proofs) + 1 \notin DOMAIN proofs /\ proofs'[Len(proofs) + 1] = row
      /\ \A i \in DOMAIN proofs : proofs'[i] = proofs[i]
  BY <1>0, <1>3, RowAppended DEF RowsInv
<1>5. RowsInv' /\ TxInv'
  BY <1>0, <1>1, <1>2, <1>4, TxKept DEF WorkflowInv, RowsInv
<1>6. ApprovalsKept
  BY <1>0, <1>4 DEF ApprovalsKept, Approved
<1>7. ApprovalInv'
  BY <1>1, <1>2, <1>6 DEF WorkflowInv, ApprovalInv, ApprovalsKept
<1>8. ReviewInv'
  <2>1. OpenProofs = {}
    BY <1>0 DEF WorkflowInv, ReviewInv, BeforeReview
  <2>2. OpenProofs' = {Len(proofs) + 1}
    BY <1>3, <1>4, <2>1 DEF OpenProofs
  <2> QED
    BY <1>1, <1>2, <1>3, <1>4, <2>2 DEF ReviewInv, BeforeReview
<1>9. ResolvedReleaseIsApproved'
  BY <1>0 DEF WorkflowInv, ResolvedReleaseIsApproved
<1>10. SettledStatusIsTrue'
  BY <1>0, <1>1, <1>2, EscrowsSame, SettledKept DEF WorkflowInv, TerminalStatuses
<1>11. ReleaseIsBacked'
  BY <1>0, <1>6, BackedKept DEF WorkflowInv
<1>12. PaymentInv' /\ ApprovalStands
  <2>1. TermsKept
    BY <1>2 DEF TermsKept, Exists, CreateProof
  <2> QED
    BY <1>0, <1>2, <2>1, UnconcludedKeeps DEF WorkflowInv
<1> QED
  BY <1>2, <1>5, <1>7, <1>8, <1>9, <1>10, <1>11, <1>12 DEF WorkflowInv

LEMMA ReviewProofKeeps ==
    ASSUME WorkflowInv, NEW i \in DOMAIN proofs,
           NEW decision \in {"approved", "rejected", "needs_changes"}, ReviewProof(i, decision)
    PROVE  WorkflowInv' /\ ApprovalStands
<1>0. /\ RowsInv /\ UNCHANGED <<disputes, escrows, txs>>
      /\ agreement.status = "proof_submitted"
      /\ proofs[i] \in ProofRows /\ proofs[i].status = "submitted"
  <2>1. RowsInv /\ proofs[i] \in ProofRows
    BY MilestonesKnown DEF WorkflowInv
  <2>2. proofs[i].status = "submitted"
    BY <2>1 DEF ReviewProof, ProofRows
  <2>3. agreement.status = "proof_submitted"
    BY DEF ReviewProof, AwaitsReview, WorkflowInv, ReviewInv
  <2> QED
    BY <2>1, <2>2, <2>3 DEF ReviewProof
<1>00. PICK m \in Milestones : m = proofs[i].milestone
  BY <1>0, MilestonesKnown
<1>000. PICK outcome \in {"approved", "rejected", "in_progress"} :
          outcome = ReviewOutcome(decision)
  BY DEF ReviewOutcome
<1>1. agreement' \in AgreementRows /\ agreement'.status = outcome
  <2>1. outcome \in AgreementStatuses
    BY DEF AgreementStatuses
  <2> QED
    BY <1>0, <1>000, <2>1, ReviewPathEnds, AgreementMoved DEF ReviewProof, RowsInv
<1>2. /\ milestones' \in [Milestones -> MilestoneRows]
      /\ milestones'[m].status = outcome
      /\ \A n \in Milestones \ {m} : milestones'[n] = milestones[n]
      /\ \A n \in Milestones : milestones'[n].amount = milestones[n].amount
  <2>1. outcome \in MilestoneStatuses
    BY DEF MilestoneStatuses
  <2> QED
    BY <1>0, <1>00, <1>000, <2>1, ReviewPathEnds, MilestoneMoved DEF ReviewProof, RowsInv
<1> DEFINE status == proofStatusForReviewDecision(decision)
           row == [proofs[i] EXCEPT !.status = status]
<1>3. /\ status \in {"accepted", "rejected", "needs_changes"}
      /\ outcome = "approved" => status = "accepted"
  BY <1>000 DEF proofStatusForReviewDecision, ReviewOutcome
<1>4. proofs' = [proofs EXCEPT ![i] = row]
  BY DEF ReviewProof
<1> HIDE DEF status
<1>5. row \in ProofRows /\ row.milestone = m /\ row.status = status
  BY <1>0, <1>00, <1>3 DEF ProofRows
<1> HIDE DEF row
<1>6. /\ proofs' \in Seq(ProofRows) /\ DOMAIN proofs' = DOMAIN proofs
      /\ \A k \in DOMAIN proofs : proofs'[k] = IF k = i THEN row ELSE proofs[k]
  BY <1>0, <1>4, <1>5 DEF RowsInv
<1>7. RowsInv' /\ TxInv'
  BY <1>0, <1>1, <1>2, <1>6, TxKept DEF WorkflowInv, RowsInv
<1>8. ApprovalsKept
  BY <1>0, <1>6 DEF ApprovalsKept, Approved
<1>9. outcome = "approved" => Approved(m)'
  BY <1>3, <1>5, <1>6 DEF Approved
<1>10. ApprovalInv'
  BY <1>1, <1>2, <1>8, <1>9 DEF WorkflowInv, ApprovalInv, ApprovalsKept
<1>11. ReviewInv'
  <2>1. OpenProofs = {i}
    BY <1>0 DEF WorkflowInv, ReviewInv, OpenProofs
  <2>2. OpenProofs' = {}
    BY <1>3, <1>5, <1>6, <2>1 DEF OpenProofs
  <2> QED
    BY <1>1, <2>2 DEF ReviewInv
<1>12. ResolvedReleaseIsApproved'
  BY <1>0 DEF WorkflowInv, ResolvedReleaseIsApproved
<1>13. SettledStatusIsTrue'
  BY <1>0, <1>1, <1>2, EscrowsSame, SettledKept DEF WorkflowInv, TerminalStatuses
<1>14. ReleaseIsBacked'
  BY <1>0, <1>8, BackedKept DEF WorkflowInv
<1>15. PaymentInv' /\ ApprovalStands
  <2>1. TermsKept
    BY <1>00, <1>2 DEF TermsKept, Exists, ReviewProof, AwaitsReview
  <2> QED
    BY <1>0, <1>1, <1>2, <2>1, UnconcludedKeeps DEF WorkflowInv
<1> QED
  BY <1>2, <1>7, <1>10, <1>11, <1>12, <1>13, <1>14, <1>15 DEF WorkflowInv

LEMMA CreateDisputeKeeps ==
    ASSUME WorkflowInv, NEW m \in Milestones, CreateDispute(m)
    PROVE  WorkflowInv' /\ ApprovalStands
<1> DEFINE row == [milestone |-> m, status |-> "open"]
<1>0. /\ RowsInv /\ UNCHANGED <<proofs, escrows, txs>>
      /\ agreement.status \in {"funded", "in_progress", "proof_submitted", "under_review"}
      /\ disputes' = Append(disputes, row)
  BY DEF WorkflowInv, CreateDispute, Disputable
<1>1. agreement' \in AgreementRows /\ agreement'.status = "disputed"
  BY <1>0, DisputePathEnds, AgreementMoved DEF CreateDispute, RowsInv, AgreementStatuses
<1>2. /\ milestones' \in [Milestones -> MilestoneRows]
      /\ milestones'[m].status = "disputed"
      /\ \A n \in Milestones \ {m} : milestones'[n] = milestones[n]
      /\ \A n \in Milestones : milestones'[n].amount = milestones[n].amount
  BY <1>0, DisputePathEnds, MilestoneMoved DEF CreateDispute, RowsInv, MilestoneStatuses
<1>3. row \in DisputeRows /\ row.status = "open"
  BY DEF DisputeRows
<1> HIDE DEF row
<1>4. /\ disputes' \in Seq(DisputeRows)
      /\ DOMAIN disputes' = DOMAIN disputes \cup {Len(disputes) + 1}
      /\ disputes'[Len(disputes) + 1] = row
      /\ \A i \in DOMAIN disputes : disputes'[i] = disputes[i]
  BY <1>0, <1>3, RowAppended DEF RowsInv
<1>5. RowsInv' /\ TxInv'
  BY <1>0, <1>1, <1>2, <1>4, TxKept DEF WorkflowInv, RowsInv
<1>6. ApprovalsKept
  BY <1>0, <1>4 DEF ApprovalsKept, Approved
<1>7. ApprovalInv'
  BY <1>1, <1>2, <1>6 DEF WorkflowInv, ApprovalInv, ApprovalsKept
<1>8. ReviewInv'
  BY <1>1 DEF ReviewInv, BeforeReview
<1>9. ResolvedReleaseIsApproved'
  BY <1>0, <1>3, <1>4 DEF WorkflowInv, ResolvedReleaseIsApproved
<1>10. SettledStatusIsTrue'
  BY <1>0, <1>1, <1>2, EscrowsSame, SettledKept DEF WorkflowInv, TerminalStatuses
<1>11. ReleaseIsBacked'
  BY <1>0, <1>6, BackedKept DEF WorkflowInv
<1>12. PaymentInv' /\ ApprovalStands
  <2>1. TermsKept
    BY <1>2 DEF TermsKept, Exists, CreateDispute
  <2> QED
    BY <1>0, <1>2, <2>1, UnconcludedKeeps DEF WorkflowInv
<1> QED
  BY <1>2, <1>5, <1>7, <1>8, <1>9, <1>10, <1>11, <1>12 DEF WorkflowInv

LEMMA ResolveDisputeKeeps ==
    ASSUME WorkflowInv, NEW tx \in txs, ResolveDispute(tx)
    PROVE  WorkflowInv' /\ ApprovalStands
<1>0. /\ RowsInv /\ tx.dispute \in DOMAIN disputes /\ tx.type \in {"release", "refund", "split"}
      /\ UNCHANGED <<proofs, escrows>> /\ txs' = txs \ {tx}
      /\ disputes[tx.dispute].status = "open"
      /\ disputes[tx.dispute] \in DisputeRows
  BY MilestonesKnown DEF WorkflowInv, TxInv, ResolveDispute
<1>00. PICK m \in Milestones : m = disputes[tx.dispute].milestone
  BY <1>0, MilestonesKnown
<1> DEFINE status == statusForResolutionType(tx.type)
           row == [disputes[tx.dispute] EXCEPT !.status = status]
<1>1. /\ status \in {"resolved_release", "resolved_refund", "resolved_split"}
      /\ status = "resolved_release" <=> tx.type = "release"
  BY <1>0 DEF statusForResolutionType
<1>2. disputes' = [disputes EXCEPT ![tx.dispute] = row]
  BY DEF ResolveDispute
<1> HIDE DEF status
<1>3. row \in DisputeRows /\ row.milestone = m /\ row.status = status
  BY <1>0, <1>00, <1>1 DEF DisputeRows
<1> HIDE DEF row
<1>4. /\ disputes' \in Seq(DisputeRows) /\ DOMAIN disputes' = DOMAIN disputes
      /\ \A k \in DOMAIN disputes : disputes'[k] = IF k = tx.dispute THEN row ELSE disputes[k]
  BY <1>0, <1>2, <1>3 DEF RowsInv
<1>5. ApprovalsKept
  BY <1>0, <1>4 DEF ApprovalsKept, Approved
<1>6. TxInv'
  BY <1>0, <1>4, TxKept DEF WorkflowInv
<1>7. ReleaseIsBacked'
  BY <1>0, <1>5, BackedKept DEF WorkflowInv
<1>8. CASE tx.type = "release"
  <2>1. ResolutionPath(tx.type) = <<"approved">>
    BY <1>8 DEF ResolutionPath
  <2> DEFINE path == ResolutionPath(tx.type)
  <2>2. path # <<>> /\ path[Len(path)] = "approved"
    BY <2>1
  <2>3. advanceAgreement(path) /\ advanceMilestone(m, path) /\ agreement.status = "disputed"
    BY <1>00, <2>2 DEF ResolveDispute
  <2> HIDE DEF path
  <2>4. agreement' \in AgreementRows /\ agreement'.status = "approved"
    BY <1>0, <2>2, <2>3, AgreementMoved DEF RowsInv, AgreementStatuses
  <2>5. /\ milestones' \in [Milestones -> MilestoneRows]
        /\ milestones'[m].status = "approved"
        /\ \A n \in Milestones \ {m} : milestones'[n] = milestones[n]
        /\ \A n \in Milestones : milestones'[n].amount = milestones[n].amount
    BY <1>0, <2>2, <2>3, MilestoneMoved DEF RowsInv, MilestoneStatuses
  <2>6. Approved(m)'
    BY <1>0, <1>1, <1>3, <1>4, <1>8 DEF Approved
  <2>7. RowsInv'
    BY <1>0, <1>4, <2>4, <2>5 DEF RowsInv
  <2>8. ApprovalInv'
    BY <1>5, <2>5, <2>6 DEF WorkflowInv, ApprovalInv, ApprovalsKept
  <2>9. ReviewInv'
    BY <2>4 DEF ReviewInv, BeforeReview
  <2>10. ResolvedReleaseIsApproved'
    BY <2>4 DEF ResolvedReleaseIsApproved
  <2>11. SettledStatusIsTrue'
    BY <1>0, <2>4, <2>5, EscrowsSame, SettledKept DEF WorkflowInv, TerminalStatuses
  <2>12. PaymentInv' /\ ApprovalStands
    <3>1. milestones[m].status = "disputed"
      BY <1>00, <2>1 DEF ResolveDispute
    <3>2. TermsKept
      BY <2>5, <3>1 DEF TermsKept, Exists
    <3> QED
      BY <1>0, <2>3, <2>4, <2>5, <3>2, UnconcludedKeeps DEF WorkflowInv
  <2> QED
    BY <1>6, <1>7, <2>5, <2>7, <2>8, <2>9, <2>10, <2>11, <2>12 DEF WorkflowInv
<1>9. CASE tx.type # "release"
  <2>1. ResolutionPath(tx.type) = <<>>
    BY <1>9 DEF ResolutionPath
  <2>2. agreement' = agreement /\ milestones' = milestones
    BY <1>0, <1>00, <2>1, AgreementStays, MilestoneStays DEF ResolveDispute, RowsInv
  <2>3. RowsInv'
    BY <1>0, <1>4, <2>2 DEF RowsInv
  <2>4. ApprovalInv'
    BY <1>5, <2>2 DEF WorkflowInv, ApprovalInv, ApprovalsKept
  <2>5. ReviewInv'
    BY <1>0, <2>2 DEF WorkflowInv, ReviewInv, OpenProofs
  <2>6. ResolvedReleaseIsApproved'
    BY <1>1, <1>3, <1>4, <1>9, <2>2 DEF WorkflowInv, ResolvedReleaseIsApproved
  <2>7. SettledStatusIsTrue'
    BY <1>0, <2>2, EscrowsSame, SettledKept DEF WorkflowInv
  <2>8. PaymentInv' /\ ApprovalStands
    BY <1>0, <2>2, PaymentSame DEF WorkflowInv, CreationsWithin
  <2> QED
    BY <1>6, <1>7, <2>2, <2>3, <2>4, <2>5, <2>6, <2>7, <2>8 DEF WorkflowInv
<1> QED
  BY <1>8, <1>9

-----------------------------------------------------------------------------
(* Escrows                                                                 *)

\* An escrow is on its way to the worker only if it was, or may be.
LEMMA BackedAfter ==
    ASSUME ReleaseIsBacked, ApprovalsKept,
           \A f \in DOMAIN escrows' :
              escrows'[f].status \in {"release_pending", "released"} =>
                 /\ f \in DOMAIN escrows /\ escrows'[f].scope = escrows[f].scope
                 /\ \/ escrows[f].status \in {"release_pending", "released"}
                    \/ \E m \in Milestones : escrows[f].scope \in {m, WholeAgreement} /\ Approved(m)
    PROVE  ReleaseIsBacked'
<1> SUFFICES ASSUME NEW f \in DOMAIN escrows',
                    escrows'[f].status \in {"release_pending", "released"}
             PROVE  \E m \in Milestones : escrows'[f].scope \in {m, WholeAgreement} /\ Approved(m)'
  BY DEF ReleaseIsBacked
<1>1. PICK m \in Milestones : escrows[f].scope \in {m, WholeAgreement} /\ Approved(m)
  BY DEF ReleaseIsBacked
<1> QED
  BY <1>1 DEF ApprovalsKept

\* A step that writes escrows and leaves agreement, milestones, proofs and
\* disputes alone.
LEMMA EscrowsOnly ==
    ASSUME WorkflowInv, UNCHANGED <<agreement, milestones, proofs, disputes>>,
           escrows' \in Seq(EscrowRows), TxInv', EscrowsRest, ReleaseIsBacked', PaymentInv'
    PROVE  WorkflowInv' /\ ApprovalStands
<1>1. RowsInv' /\ ApprovalInv' /\ ReviewInv'
  BY DEF WorkflowInv, RowsInv, ApprovalInv, ReviewInv, Approved, OpenProofs
<1>2. ResolvedReleaseIsApproved'
  BY DEF WorkflowInv, ResolvedReleaseIsApproved
<1>3. SettledStatusIsTrue'
  BY SettledKept DEF WorkflowInv
<1>4. ApprovalStands
  BY DEF ApprovalStands, Payable
<1> QED
  BY <1>1, <1>2, <1>3, <1>4 DEF WorkflowInv

LEMMA CreateEscrowKeeps ==
    ASSUME WorkflowInv, NEW tx \in txs, CreateEscrow(tx)
    PROVE  WorkflowInv' /\ ApprovalStands
<1> DEFINE row == [scope |-> tx.scope, amount |-> tx.amount, status |-> "not_created"]
<1>0. /\ escrows \in Seq(EscrowRows) /\ tx.scope \in Scopes /\ tx.amount \in MilestoneAmounts
      /\ escrows' = Append(escrows, row) /\ txs' = txs \ {tx}
      /\ UNCHANGED <<agreement, milestones, proofs, disputes>>
  BY DEF WorkflowInv, RowsInv, TxInv, CreateEscrow
<1>1. /\ row \in EscrowRows /\ row.status = "not_created"
      /\ row.scope = tx.scope /\ row.amount = tx.amount
  BY <1>0 DEF EscrowRows, EscrowStatuses
<1> HIDE DEF row
<1>2. /\ escrows' \in Seq(EscrowRows) /\ DOMAIN escrows' = DOMAIN escrows \cup {Len(escrows) + 1}
      /\ escrows'[Len(escrows) + 1] = row
      /\ \A e \in DOMAIN escrows : escrows'[e] = escrows[e]
  BY <1>0, <1>1, RowAppended
<1>3. TxInv'
  BY <1>0, <1>2, TxKept DEF WorkflowInv
<1>4. EscrowsRest
  BY <1>2 DEF EscrowsRest
<1>5. ReleaseIsBacked'
  <2>1. ApprovalsKept
    BY <1>0, ApprovalsSame
  <2> QED
    BY <1>1, <1>2, <2>1, BackedAfter DEF WorkflowInv
<1>6. PaymentInv'
  <2>0. PaymentInv /\ TermsKept
    BY <1>0 DEF WorkflowInv, TermsKept, Exists
  <2>1. Within(tx.scope, tx.amount)
    BY <2>0 DEF PaymentInv, ScopeInv, CreateEscrow
  <2>2. \A e \in DOMAIN escrows :
          escrows[e].scope = tx.scope => escrows[e].status \in TerminalStatuses
    BY DEF CreateEscrow, ActiveIn, InScope
  <2>3. ScopeInv'
    <3>1. \A e \in DOMAIN escrows' : Within(escrows[e].scope, escrows[e].amount)'
      BY <1>0, <1>1, <1>2, <2>0, <2>1 DEF PaymentInv, ScopeInv, Within, Exists
    <3>2. \A ty \in txs' : ty.op = "create" => Within(ty.scope, ty.amount)'
      BY <1>0, <2>0 DEF PaymentInv, ScopeInv, Within, Exists
    <3>3. \A d, e \in DOMAIN escrows' :
             /\ escrows'[d].scope = escrows'[e].scope
             /\ {escrows'[d].status, escrows'[e].status} \cap TerminalStatuses = {}
             => d = e
      BY <1>1, <1>2, <2>0, <2>2 DEF PaymentInv, ScopeInv
    <3> QED
      BY <3>1, <3>2, <3>3 DEF ScopeInv
  <2>4. AllocationInv'
    BY <2>0, AllocationKept DEF PaymentInv
  <2>5. ConclusionInv'
    BY <1>0, <2>0 DEF PaymentInv, ConclusionInv, Payable
  <2>6. PayoutInv'
    BY <1>0, <1>1, <1>2, <2>0 DEF PaymentInv, PayoutInv
  <2>7. OnePayment'
    BY <1>1, <1>2, <2>0 DEF PaymentInv, OnePayment, PaidEscrows, Paid, InScope
  <2> QED
    BY <2>3, <2>4, <2>5, <2>6, <2>7 DEF PaymentInv
<1> QED
  BY <1>0, <1>2, <1>3, <1>4, <1>5, <1>6, EscrowsOnly

\* An escrow that no transaction finalizes gets another status.
LEMMA EscrowMoves ==
    ASSUME WorkflowInv, NEW e \in DOMAIN escrows, NEW status \in EscrowStatuses,
           escrows' = [escrows EXCEPT ![e].status = status],
           escrows[e].status \notin {"release_pending", "refund_pending", "released", "refunded"},
           status \in {"release_pending", "released"} =>
              \E m \in Milestones : escrows[e].scope \in {m, WholeAgreement} /\ Approved(m),
           UNCHANGED <<proofs, disputes, txs>>
    PROVE  /\ escrows' \in Seq(EscrowRows) /\ DOMAIN escrows' = DOMAIN escrows
           /\ TxInv' /\ EscrowsRest /\ ReleaseIsBacked' /\ ApprovalsKept
<1>1. /\ escrows' \in Seq(EscrowRows) /\ DOMAIN escrows' = DOMAIN escrows
      /\ \A f \in DOMAIN escrows :
            /\ escrows'[f].scope = escrows[f].scope
            /\ escrows'[f].status = IF f = e THEN status ELSE escrows[f].status
  BY EscrowWritten DEF WorkflowInv
<1>2. ASSUME NEW tx \in txs, Finalizes(tx, e) PROVE FALSE
  BY <1>2 DEF WorkflowInv, TxInv, Finalizes, Pending
<1>3. TxInv'
  BY <1>1, <1>2, TxKept DEF WorkflowInv
<1>4. EscrowsRest
  BY <1>1 DEF EscrowsRest, TerminalStatuses
<1>5. ApprovalsKept
  BY ApprovalsSame
<1>6. ReleaseIsBacked'
  BY <1>1, <1>5, BackedAfter DEF WorkflowInv
<1> QED
  BY <1>1, <1>3, <1>4, <1>5, <1>6

\* The same of a step that writes nothing else.
LEMMA UnpaidOnly ==
    ASSUME PaymentInv, RowsInv, NEW e \in DOMAIN escrows, NEW status \in EscrowStatuses,
           escrows' = [escrows EXCEPT ![e].status = status],
           escrows[e].status \notin TerminalStatuses, status # "released",
           status = "release_pending" /\ escrows[e].scope \in Milestones =>
              milestones[escrows[e].scope].status = "approved",
           UNCHANGED <<agreement, milestones, txs>>
    PROVE  PaymentInv'
<1>1. TermsKept
  BY DEF TermsKept, Exists
<1>2. ConclusionInv'
  BY DEF PaymentInv, ConclusionInv, Payable
<1> QED
  BY <1>1, <1>2, UnpaidKeeps

LEMMA FinalizeEscrowCreationKeeps ==
    ASSUME WorkflowInv, NEW e \in DOMAIN escrows, FinalizeEscrowCreation(e)
    PROVE  WorkflowInv' /\ ApprovalStands
<1>1. AdapterStatus("create") = "awaiting_funding" /\ "awaiting_funding" \in EscrowStatuses
  BY DEF AdapterStatus, EscrowStatuses
<1>2. escrows' = [escrows EXCEPT ![e].status = "awaiting_funding"]
  BY <1>1 DEF FinalizeEscrowCreation
<1>3. escrows' \in Seq(EscrowRows) /\ TxInv' /\ EscrowsRest /\ ReleaseIsBacked'
  BY <1>1, <1>2, EscrowMoves DEF FinalizeEscrowCreation
<1>4. PaymentInv'
  BY <1>1, <1>2, UnpaidOnly DEF FinalizeEscrowCreation, WorkflowInv, TerminalStatuses
<1> QED
  BY <1>3, <1>4, EscrowsOnly DEF FinalizeEscrowCreation

LEMMA ReserveEscrowSettlementKeeps ==
    ASSUME WorkflowInv, NEW e \in DOMAIN escrows, NEW operation \in {"release", "refund"},
           ReserveEscrowSettlement(e, operation)
    PROVE  WorkflowInv' /\ ApprovalStands
<1>1. PICK status \in {"release_pending", "refund_pending"} :
        /\ escrows' = [escrows EXCEPT ![e].status = status]
        /\ status = "release_pending" => ReleaseAllowed(e)
  BY DEF ReserveEscrowSettlement
<1>2. status \in EscrowStatuses
  BY DEF EscrowStatuses
<1>3. ASSUME status = "release_pending"
      PROVE  \E m \in Milestones : escrows[e].scope \in {m, WholeAgreement} /\ Approved(m)
  <2>0. escrows[e].scope \in Milestones \cup {WholeAgreement}
    <3>1. escrows[e] \in EscrowRows
      BY DEF WorkflowInv, RowsInv
    <3> QED
      BY <3>1 DEF EscrowRows, Scopes
  <2>1. CASE /\ agreement.status = "approved"
             /\ escrows[e].scope \in Milestones => milestones[escrows[e].scope].status = "approved"
    BY <2>0, <2>1 DEF WorkflowInv, ApprovalInv
  <2>2. CASE \E i \in DOMAIN disputes :
               /\ escrows[e].scope \in {WholeAgreement, disputes[i].milestone}
               /\ disputes[i].status = "resolved_release"
    BY <2>2, MilestonesKnown DEF Approved, WorkflowInv
  <2> QED
    BY <1>1, <1>3, <2>1, <2>2 DEF ReleaseAllowed
<1>4. escrows' \in Seq(EscrowRows) /\ TxInv' /\ EscrowsRest /\ ReleaseIsBacked'
  BY <1>1, <1>2, <1>3, EscrowMoves DEF ReserveEscrowSettlement
<1>5. PaymentInv'
  <2>1. status = "release_pending" /\ escrows[e].scope \in Milestones =>
          milestones[escrows[e].scope].status = "approved"
    BY <1>1 DEF ReleaseAllowed, WorkflowInv, ResolvedReleaseIsApproved
  <2> QED
    BY <1>1, <1>2, <2>1, UnpaidOnly DEF ReserveEscrowSettlement, WorkflowInv, TerminalStatuses
<1> QED
  BY <1>4, <1>5, EscrowsOnly DEF ReserveEscrowSettlement

LEMMA MarkEscrowFundedKeeps ==
    ASSUME WorkflowInv, NEW e \in DOMAIN escrows, MarkEscrowFunded(e)
    PROVE  WorkflowInv' /\ ApprovalStands
<1>0. RowsInv /\ UNCHANGED <<proofs, disputes, txs>>
  BY DEF WorkflowInv, MarkEscrowFunded
<1>1. AdapterStatus("fund") = "funded" /\ "funded" \in EscrowStatuses
  BY DEF AdapterStatus, EscrowStatuses
<1>2. /\ escrows' = [escrows EXCEPT ![e].status = "funded"]
      /\ CanTransitionEscrow(escrows[e].status, "funded")
  BY <1>1 DEF MarkEscrowFunded
<1>3. escrows[e].status \notin {"release_pending", "refund_pending", "released", "refunded"}
  BY <1>2 DEF CanTransitionEscrow, EscrowSuccessors, TerminalStatuses
<1>4. /\ escrows' \in Seq(EscrowRows) /\ TxInv' /\ EscrowsRest /\ ReleaseIsBacked'
      /\ ApprovalsKept
  BY <1>0, <1>1, <1>2, <1>3, EscrowMoves
<1>5. /\ agreement' \in AgreementRows
      /\ \/ agreement' = agreement
         \/ agreement.status = "funding_required" /\ agreement'.status = "funded"
  <2>1. "funded" \in AgreementStatuses
    BY DEF AgreementStatuses
  <2> QED
    BY <1>0, <2>1, TransitionType DEF MarkEscrowFunded, RowsInv
<1> DEFINE funds(m) == m = escrows[e].scope /\ milestones[m].status \in {"pending", "funding_required"}
           row(m) == IF funds(m) THEN transitionMilestoneStatus(milestones[m], "funded")
                     ELSE milestones[m]
<1>6. ASSUME NEW m \in Milestones
      PROVE  /\ row(m) \in MilestoneRows /\ row(m).amount = milestones[m].amount
             /\ \/ row(m) = milestones[m]
                \/ /\ milestones[m].status \in {"pending", "funding_required"}
                   /\ row(m).status = "funded"
  <2>1. milestones[m] \in MilestoneRows
    BY <1>0 DEF RowsInv
  <2>2. LET new == [milestones[m] EXCEPT !.status = "funded"]
        IN  /\ new \in MilestoneRows /\ new.status = "funded" /\ new.amount = milestones[m].amount
    BY <2>1 DEF MilestoneRows, MilestoneStatuses
  <2> QED
    BY <2>1, <2>2 DEF transitionMilestoneStatus
<1>7. milestones' = [m \in Milestones |-> row(m)]
  BY DEF MarkEscrowFunded
<1> HIDE DEF row
<1>8. /\ milestones' \in [Milestones -> MilestoneRows]
      /\ \A m \in Milestones :
            /\ milestones'[m].amount = milestones[m].amount
            /\ \/ milestones'[m] = milestones[m]
               \/ /\ milestones[m].status \in {"pending", "funding_required"}
                  /\ milestones'[m].status = "funded"
  BY <1>6, <1>7
<1>9. RowsInv'
  BY <1>0, <1>4, <1>5, <1>8 DEF RowsInv
<1>10. ApprovalInv'
  BY <1>4, <1>5, <1>8 DEF WorkflowInv, ApprovalInv, ApprovalsKept
<1>11. ReviewInv'
  BY <1>0, <1>5, <1>8, MilestonesKnown DEF WorkflowInv, ReviewInv, OpenProofs, BeforeReview
<1>12. ResolvedReleaseIsApproved'
  BY <1>0, <1>5 DEF WorkflowInv, ResolvedReleaseIsApproved
<1>13. SettledStatusIsTrue'
  BY <1>4, <1>5, <1>8, SettledKept DEF WorkflowInv, TerminalStatuses
<1>14. PaymentInv'
  <2>1. TermsKept
    BY <1>8 DEF TermsKept, Exists
  <2>2. \A m \in Milestones : Payable(m) \/ Payable(m)' => milestones'[m] = milestones[m]
    BY <1>8 DEF Payable
  <2>3. ConclusionInv'
    BY <1>5, <2>2 DEF WorkflowInv, PaymentInv, ConclusionInv, Payable
  <2> QED
    BY <1>0, <1>1, <1>2, <1>3, <2>1, <2>2, <2>3, UnpaidKeeps DEF WorkflowInv, TerminalStatuses
<1>15. ApprovalStands
  BY <1>5, <1>8 DEF ApprovalStands, Payable
<1> QED
  BY <1>4, <1>8, <1>9, <1>10, <1>11, <1>12, <1>13, <1>14, <1>15 DEF WorkflowInv

\* What the agreement becomes when an escrow is finalized.
LEMMA AgreementSettled ==
    ASSUME agreement \in AgreementRows, NEW tx, tx.to \in TerminalStatuses,
           advanceAgreement(SettlementPath(tx))
    PROVE  /\ agreement' \in AgreementRows
           /\ \/ agreement' = agreement
              \/ /\ agreement'.status = tx.to
                 /\ tx.to = "refunded" => agreement.status \in {"funded", "disputed"}
<1> DEFINE path == SettlementPath(tx)
<1>0. tx.to \in AgreementStatuses
  BY DEF AgreementStatuses, TerminalStatuses
<1>1. \/ path = <<>>
      \/ path = <<"release_pending", "released">> /\ tx.to = "released"
      \/ path = <<tx.to>>
  BY DEF SettlementPath
<1>2. CASE path = <<>>
  BY <1>2, AgreementStays
<1>3. CASE path = <<"release_pending", "released">> /\ tx.to = "released"
  <2>1. path # <<>> /\ path[Len(path)] = tx.to
    BY <1>3
  <2> HIDE DEF path
  <2>2. agreement' \in AgreementRows /\ agreement'.status = tx.to
    BY <1>0, <2>1, AgreementMoved DEF path
  <2> QED
    BY <1>3, <2>2
<1>4. CASE path = <<tx.to>>
  <2>1. path # <<>> /\ path[Len(path)] = tx.to
    BY <1>4
  <2>2. CanTransitionAgreement(agreement.status, tx.to)
    BY <1>4, OneTransition
  <2>3. tx.to = "refunded" => agreement.status \in {"funded", "disputed"}
    BY <2>2 DEF CanTransitionAgreement, AgreementSuccessors
  <2> HIDE DEF path
  <2>4. agreement' \in AgreementRows /\ agreement'.status = tx.to
    BY <1>0, <2>1, AgreementMoved DEF path
  <2> QED
    BY <2>3, <2>4
<1> QED
  BY <1>1, <1>2, <1>3, <1>4

\* An escrow is paid out, and its milestone released with it.
LEMMA PaidKeeps ==
    ASSUME PaymentInv, NEW e \in DOMAIN escrows, escrows[e].status = "release_pending",
           DOMAIN escrows' = DOMAIN escrows,
           \A f \in DOMAIN escrows :
              /\ escrows'[f].scope = escrows[f].scope
              /\ escrows'[f].amount = escrows[f].amount
              /\ escrows'[f].status = IF f = e THEN "released" ELSE escrows[f].status,
           TermsKept, txs' \subseteq txs, ConclusionInv',
           \A m \in Milestones :
              /\ m # escrows[e].scope => milestones'[m] = milestones[m]
              /\ m = escrows[e].scope => milestones'[m].status = "released"
    PROVE  PaymentInv'
<1>1. AllocationInv'
  BY AllocationKept DEF PaymentInv
<1>2. ScopeInv'
  <2>1. \A f \in DOMAIN escrows' : Within(escrows[f].scope, escrows[f].amount)'
    BY DEF PaymentInv, ScopeInv, Within, TermsKept
  <2>2. \A tx \in txs' : tx.op = "create" => Within(tx.scope, tx.amount)'
    BY DEF PaymentInv, ScopeInv, Within, TermsKept
  <2>3. \A d, f \in DOMAIN escrows' :
           /\ escrows'[d].scope = escrows'[f].scope
           /\ {escrows'[d].status, escrows'[f].status} \cap TerminalStatuses = {}
           => d = f
    BY DEF PaymentInv, ScopeInv, TerminalStatuses
  <2> QED
    BY <2>1, <2>2, <2>3 DEF ScopeInv
<1>3. \A f \in DOMAIN escrows \ {e} :
         escrows[f].scope = escrows[e].scope => escrows[f].status # "release_pending"
  BY DEF PaymentInv, ScopeInv, TerminalStatuses
<1>4. PayoutInv'
  BY <1>3 DEF PaymentInv, PayoutInv
<1>5. ASSUME escrows[e].scope \in Milestones, NEW d \in DOMAIN escrows,
             escrows[d].scope \in Milestones, escrows[d].status = "released"
      PROVE  FALSE
  <2>1. /\ milestones[escrows[e].scope].status = "approved"
        /\ milestones[escrows[d].scope].status = "released"
    BY <1>5 DEF PaymentInv, PayoutInv
  <2>2. escrows[d].scope = escrows[e].scope
    BY <1>5, <2>1 DEF PaymentInv, ConclusionInv, Payable
  <2> QED
    BY <2>1, <2>2
<1>6. OnePayment'
  BY <1>5 DEF PaymentInv, OnePayment, PaidEscrows, Paid, InScope
<1> QED
  BY <1>1, <1>2, <1>4, <1>6 DEF PaymentInv

LEMMA FinalizeEscrowSettlementKeeps ==
    ASSUME WorkflowInv, NEW tx \in txs, FinalizeEscrowSettlement(tx)
    PROVE  WorkflowInv' /\ ApprovalStands
<1>0. /\ RowsInv /\ UNCHANGED <<proofs, disputes>> /\ txs' = txs \ {tx}
      /\ tx.op = "finalize" /\ tx.escrow \in DOMAIN escrows /\ tx.to \in TerminalStatuses
      /\ escrows[tx.escrow].status = Pending(tx.to)
      /\ escrows' = [escrows EXCEPT ![tx.escrow].status = tx.to]
  BY DEF WorkflowInv, TxInv, FinalizeEscrowSettlement
<1>00. PICK e \in DOMAIN escrows : e = tx.escrow
  BY <1>0
<1>01. PICK to \in TerminalStatuses : to = tx.to
  BY <1>0
<1>1. /\ escrows' \in Seq(EscrowRows) /\ DOMAIN escrows' = DOMAIN escrows
      /\ \A f \in DOMAIN escrows :
            /\ escrows'[f].scope = escrows[f].scope
            /\ escrows'[f].amount = escrows[f].amount
            /\ escrows'[f].status = IF f = e THEN to ELSE escrows[f].status
  <2>1. to \in EscrowStatuses
    BY DEF TerminalStatuses, EscrowStatuses
  <2>2. RowsInv /\ escrows' = [escrows EXCEPT ![e].status = to]
    BY <1>0, <1>00, <1>01
  <2> QED
    BY <2>1, <2>2, EscrowWritten
<1>2. TxInv'
  <2>1. \A ty \in txs' : ~Finalizes(ty, e)
    BY <1>0, <1>00 DEF WorkflowInv, TxInv, Finalizes
  <2> QED
    BY <1>0, <1>1, <2>1, TxKept DEF WorkflowInv
<1>3. EscrowsRest
  BY <1>0, <1>00, <1>1 DEF EscrowsRest, TerminalStatuses, Pending
<1>4. ApprovalsKept
  BY <1>0, ApprovalsSame
<1>5. ReleaseIsBacked'
  <2>1. to = "released" => escrows[e].status = "release_pending"
    BY <1>0, <1>00, <1>01 DEF Pending
  <2>2. to # "released" => to = "refunded"
    BY DEF TerminalStatuses
  <2> QED
    BY <1>1, <1>4, <2>1, <2>2, BackedAfter DEF WorkflowInv
<1>6. /\ agreement' \in AgreementRows
      /\ \/ agreement' = agreement
         \/ /\ agreement'.status = to
            /\ to = "refunded" => agreement.status \in {"funded", "disputed"}
  BY <1>0, <1>01, AgreementSettled DEF FinalizeEscrowSettlement, RowsInv
<1> DEFINE row(m) == IF m = escrows[e].scope THEN SettledMilestone(m, to) ELSE milestones[m]
<1>7. ASSUME NEW m \in Milestones
      PROVE  /\ row(m) \in MilestoneRows /\ row(m).amount = milestones[m].amount
             /\ \/ row(m) = milestones[m]
                \/ /\ m = escrows[e].scope /\ row(m).status = to
                   /\ CanTransitionMilestone(milestones[m].status, to)
             /\ m = escrows[e].scope /\ CanTransitionMilestone(milestones[m].status, to) =>
                   row(m).status = to
  <2>1. milestones[m] \in MilestoneRows
    BY <1>0 DEF RowsInv
  <2>2. LET new == [milestones[m] EXCEPT !.status = to]
        IN  /\ new \in MilestoneRows /\ new.status = to /\ new.amount = milestones[m].amount
    BY <2>1 DEF MilestoneRows, MilestoneStatuses, TerminalStatuses
  <2> QED
    BY <2>1, <2>2 DEF SettledMilestone, transitionMilestoneStatus
<1>8. milestones' = [m \in Milestones |-> row(m)]
  BY <1>00, <1>01 DEF FinalizeEscrowSettlement
<1> HIDE DEF row
<1>9. /\ milestones' \in [Milestones -> MilestoneRows]
      /\ \A m \in Milestones :
            /\ milestones'[m].amount = milestones[m].amount
            /\ \/ milestones'[m] = milestones[m]
               \/ /\ m = escrows[e].scope /\ milestones'[m].status = to
                  /\ CanTransitionMilestone(milestones[m].status, to)
            /\ m = escrows[e].scope /\ CanTransitionMilestone(milestones[m].status, to) =>
                  milestones'[m].status = to
  BY <1>7, <1>8
<1>10. RowsInv'
  BY <1>0, <1>1, <1>6, <1>9 DEF RowsInv
<1>11. ApprovalInv'
  BY <1>4, <1>6, <1>9 DEF WorkflowInv, ApprovalInv, ApprovalsKept, TerminalStatuses
<1>12. ReviewInv'
  <2>1. ~CanTransitionMilestone("proof_submitted", to)
    BY DEF CanTransitionMilestone, MilestoneSuccessors, TerminalStatuses
  <2>2. \A m \in Milestones :
          milestones[m].status = "proof_submitted" => milestones'[m].status = "proof_submitted"
    BY <1>9, <2>1
  <2>3. OpenProofs' = OpenProofs
    BY <1>0 DEF OpenProofs
  <2>4. CASE agreement' = agreement
    BY <1>0, <2>2, <2>3, <2>4, MilestonesKnown DEF WorkflowInv, ReviewInv
  <2>5. CASE agreement'.status = to
    BY <2>5 DEF ReviewInv, BeforeReview, TerminalStatuses
  <2> QED
    BY <1>6, <2>4, <2>5
<1>13. ResolvedReleaseIsApproved'
  <2>1. agreement.status \in {"approved", "release_pending", "released"}
           => agreement'.status \in {"approved", "release_pending", "released"}
    BY <1>6 DEF TerminalStatuses
  <2> QED
    BY <1>0, <2>1 DEF WorkflowInv, ResolvedReleaseIsApproved
<1>14. SettledStatusIsTrue'
  <2>1. e \in DOMAIN escrows' /\ escrows'[e].scope = escrows[e].scope /\ escrows'[e].status = to
    BY <1>1
  <2> QED
    BY <1>3, <1>6, <1>9, <2>1, SettledKept DEF WorkflowInv
<1>15. PaymentInv'
  <2>0. PaymentInv /\ TermsKept
    BY <1>9 DEF WorkflowInv, TermsKept, Exists, TerminalStatuses, CanTransitionMilestone,
                MilestoneSuccessors
  <2>1. to = "released" /\ escrows[e].scope \in Milestones =>
          milestones[escrows[e].scope].status = "approved"
    BY <1>0, <1>00, <1>01, <2>0 DEF PaymentInv, PayoutInv, Pending
  <2>2. \A m \in Milestones : Payable(m)' => Payable(m)
    BY <1>9, <2>1 DEF Payable, TerminalStatuses
  <2>3. ConclusionInv'
    <3>1. agreement.status \in {"approved", "release_pending", "released"}
             => agreement'.status \in {"approved", "release_pending", "released"}
      BY <1>6 DEF TerminalStatuses
    <3> QED
      BY <2>0, <2>2, <3>1 DEF PaymentInv, ConclusionInv
  <2>4. CASE to = "refunded"
    <3>1. escrows[e].status \notin TerminalStatuses
      BY <1>0, <1>00 DEF Pending, TerminalStatuses
    <3>2. \A m \in Milestones : Payable(m) => milestones'[m].status = milestones[m].status
      BY <1>9, <2>4 DEF Payable, CanTransitionMilestone, MilestoneSuccessors
    <3>3. /\ escrows' = [escrows EXCEPT ![e].status = to] /\ txs' \subseteq txs
          /\ to \in EscrowStatuses /\ to # "released" /\ to # "release_pending"
      BY <1>0, <1>00, <1>01, <2>4 DEF EscrowStatuses
    <3> QED
      BY <1>0, <2>0, <2>3, <3>1, <3>2, <3>3, UnpaidKeeps
  <2>5. CASE to = "released"
    <3>1. escrows[e].status = "release_pending" /\ txs' \subseteq txs
      BY <1>0, <1>00, <1>01, <2>5 DEF Pending
    <3>2. \A m \in Milestones :
            /\ m # escrows[e].scope => milestones'[m] = milestones[m]
            /\ m = escrows[e].scope => milestones'[m].status = "released"
      BY <1>9, <2>1, <2>5 DEF CanTransitionMilestone, MilestoneSuccessors
    <3> QED
      BY <1>1, <2>0, <2>3, <2>5, <3>1, <3>2, PaidKeeps
  <2> QED
    BY <2>4, <2>5 DEF TerminalStatuses
<1>16. ApprovalStands
  <2>1. \A m \in Milestones : Payable(m) => Payable(m)'
    BY <1>9 DEF Payable, CanTransitionMilestone, MilestoneSuccessors, TerminalStatuses
  <2> QED
    BY <1>6, <2>1 DEF ApprovalStands, TerminalStatuses
<1> QED
  BY <1>2, <1>5, <1>9, <1>10, <1>11, <1>12, <1>13, <1>14, <1>15, <1>16 DEF WorkflowInv

-----------------------------------------------------------------------------
(* The inductive invariant and the properties it implies                   *)

LEMMA WorkflowInvInit == Init => WorkflowInv
<1> SUFFICES ASSUME Init PROVE WorkflowInv
  OBVIOUS
<1>1. RowsInv
  <2>1. agreement \in AgreementRows
    BY DEF Init, AgreementRows, AgreementStatuses, Settlements
  <2>2. [status |-> "absent", amount |-> 0] \in MilestoneRows
    BY DEF MilestoneRows
  <2>3. milestones \in [Milestones -> MilestoneRows]
    BY <2>2 DEF Init
  <2> QED
    BY <2>1, <2>3 DEF Init, RowsInv
<1>2. TxInv
  BY DEF Init, TxInv
<1>3. ApprovalInv
  BY DEF Init, ApprovalInv
<1>4. ReviewInv
  BY DEF Init, ReviewInv, OpenProofs
<1>5. ResolvedReleaseIsApproved /\ ReleaseIsBacked
  BY DEF Init, ResolvedReleaseIsApproved, ReleaseIsBacked
<1>6. SettledStatusIsTrue
  BY DEF Init, SettledStatusIsTrue, TerminalStatuses
<1>7. PaymentInv
  <2>1. AllocationWithinAgreement
    <3> DEFINE f == Amounts(milestones, Milestones)
    <3>1. f \in [Milestones -> Nat] /\ \A m \in Milestones : f[m] = 0
      BY DEF Init, Amounts
    <3> HIDE DEF f
    <3>2. SumFunction(f) = 0
      BY <3>1, SumZero, MilestonesFinite
    <3> QED
      BY <3>2, AmountsArePositive DEF AllocationWithinAgreement, Sum, f
  <2>2. AllocationInv
    BY <2>1 DEF Init, AllocationInv, Exists
  <2>3. ScopeInv /\ PayoutInv
    BY DEF Init, ScopeInv, PayoutInv
  <2>4. ConclusionInv
    BY DEF Init, ConclusionInv, Payable
  <2>5. OnePayment
    BY DEF Init, OnePayment, PaidEscrows, Paid, InScope
  <2> QED
    BY <2>2, <2>3, <2>4, <2>5 DEF PaymentInv
<1> QED
  BY <1>1, <1>2, <1>3, <1>4, <1>5, <1>6, <1>7 DEF WorkflowInv

LEMMA WorkflowInvNext == WorkflowInv /\ [Next]_vars => WorkflowInv' /\ ApprovalStands
<1> SUFFICES ASSUME WorkflowInv, [Next]_vars PROVE WorkflowInv' /\ ApprovalStands
  OBVIOUS
<1>1. CASE AcceptAgreement \/ \E to \in {"cancelled", "funding_required"} : TransitionAgreement(to)
  BY <1>1, AgreementKeeps
<1>2. ASSUME NEW m \in Milestones, NEW amount \in MilestoneAmounts, CreateMilestone(m, amount)
      PROVE  WorkflowInv' /\ ApprovalStands
  BY <1>2, CreateMilestoneKeeps
<1>3. ASSUME NEW m \in Milestones, CreateProof(m) PROVE WorkflowInv' /\ ApprovalStands
  BY <1>3, CreateProofKeeps
<1>4. ASSUME NEW m \in Milestones, CreateDispute(m) PROVE WorkflowInv' /\ ApprovalStands
  BY <1>4, CreateDisputeKeeps
<1>5. ASSUME NEW i \in DOMAIN proofs, NEW decision \in {"approved", "rejected", "needs_changes"},
             ReviewProof(i, decision)
      PROVE  WorkflowInv' /\ ApprovalStands
  BY <1>5, ReviewProofKeeps
<1>6. ASSUME NEW i \in DOMAIN disputes, NEW type \in {"release", "refund", "split"},
             ReadDispute(i, type)
      PROVE  WorkflowInv' /\ ApprovalStands
  BY <1>6, ReadDisputeKeeps
<1>7. ASSUME NEW scope \in Scopes, NEW amount \in MilestoneAmounts, ReadForEscrow(scope, amount)
      PROVE  WorkflowInv' /\ ApprovalStands
  BY <1>7, ReadForEscrowKeeps
<1>8. ASSUME NEW e \in DOMAIN escrows,
             FinalizeEscrowCreation(e) \/ MarkEscrowFunded(e) \/ ReadSettlement(e)
      PROVE  WorkflowInv' /\ ApprovalStands
  BY <1>8, FinalizeEscrowCreationKeeps, MarkEscrowFundedKeeps, ReadSettlementKeeps
<1>9. ASSUME NEW e \in DOMAIN escrows, NEW operation \in {"release", "refund"},
             ReserveEscrowSettlement(e, operation)
      PROVE  WorkflowInv' /\ ApprovalStands
  BY <1>9, ReserveEscrowSettlementKeeps
<1>10. ASSUME NEW tx \in txs,
              \/ ResolveDispute(tx) \/ CreateEscrow(tx)
              \/ FinalizeEscrowSettlement(tx) \/ Rollback(tx)
       PROVE  WorkflowInv' /\ ApprovalStands
  BY <1>10, ResolveDisputeKeeps, CreateEscrowKeeps, FinalizeEscrowSettlementKeeps, RollbackKeeps
<1>11. CASE UNCHANGED vars
  <2>1. TxInv'
    BY <1>11, TxKept DEF vars, WorkflowInv
  <2>2. CreationsWithin
    BY <1>11 DEF vars, CreationsWithin
  <2> QED
    BY <1>11, <2>1, <2>2, NothingWritten DEF vars
<1> QED
  BY <1>1, <1>2, <1>3, <1>4, <1>5, <1>6, <1>7, <1>8, <1>9, <1>10, <1>11 DEF Next

\* The inductive invariant of the agreement, milestone, proof, dispute and
\* escrow services.
THEOREM WorkflowInvAlways == Spec => []WorkflowInv
BY WorkflowInvInit, WorkflowInvNext, PTL DEF Spec

\* Whatever the services write, every row keeps a status of its table and refers
\* to a milestone of the agreement.
THEOREM TypeCorrect == Spec => []TypeOK
<1>1. WorkflowInv => TypeOK
  <2> SUFFICES ASSUME RowsInv PROVE TypeOK
    BY DEF WorkflowInv
  <2>1. /\ \A i \in DOMAIN proofs : proofs[i] \in ProofRows
        /\ \A i \in DOMAIN disputes : disputes[i] \in DisputeRows
        /\ \A e \in DOMAIN escrows : escrows[e] \in EscrowRows
    BY DEF RowsInv
  <2> QED
    BY <2>1 DEF RowsInv, TypeOK, AgreementRows, Settlements, MilestoneRows, ProofRows,
                DisputeRows, EscrowRows
<1> QED
  BY <1>1, WorkflowInvAlways, PTL

\* assertReleaseAllowed never lets an escrow go to the worker that no accepted
\* proof and no dispute resolved for release stands behind.
THEOREM ReleaseIsBackedAlways == Spec => []ReleaseIsBacked
<1>1. WorkflowInv => ReleaseIsBacked
  BY DEF WorkflowInv
<1> QED
  BY <1>1, WorkflowInvAlways, PTL

\* resolveDispute for release takes the agreement out of dispute in the same
\* transaction, and no later request brings it back.
THEOREM ResolvedReleaseIsApprovedAlways == Spec => []ResolvedReleaseIsApproved
<1>1. WorkflowInv => ResolvedReleaseIsApproved
  BY DEF WorkflowInv
<1> QED
  BY <1>1, WorkflowInvAlways, PTL

\* finalizeSuccessfulEscrowSettlement writes released or refunded into a
\* milestone or the agreement only beside an escrow that is, and it stays so.
THEOREM SettledStatusIsTrueAlways == Spec => []SettledStatusIsTrue
<1>1. WorkflowInv => SettledStatusIsTrue
  BY DEF WorkflowInv
<1> QED
  BY <1>1, WorkflowInvAlways, PTL

\* createProof leaves exactly one open proof, whose milestone waits with the
\* agreement, whatever rejections and disputes went before.
THEOREM OneProofUnderReviewAlways == Spec => []OneProofUnderReview
<1>1. WorkflowInv => OneProofUnderReview
  <2> SUFFICES ASSUME WorkflowInv, agreement.status = "proof_submitted"
               PROVE  /\ Cardinality(OpenProofs) = 1
                      /\ \A i \in OpenProofs : milestones[proofs[i].milestone].status = "proof_submitted"
    BY DEF OneProofUnderReview, OpenProofs
  <2>1. PICK i \in DOMAIN proofs : /\ OpenProofs = {i}
                                   /\ milestones[proofs[i].milestone].status = "proof_submitted"
    BY DEF WorkflowInv, ReviewInv
  <2>2. Cardinality({i}) = 1
    BY FS_Singleton
  <2> QED
    BY <2>1, <2>2
<1> QED
  BY <1>1, WorkflowInvAlways, PTL

\* An approval is final: once a review or a dispute approved a milestone, neither
\* it nor the agreement is ever disputed, rejected, refunded or worked on again,
\* whichever requests were under way (the transition tables, the swaps of the
\* status that each handler read).
THEOREM ApprovalStandsAlways == Spec => [][ApprovalStands]_vars
<1>1. WorkflowInv /\ [Next]_vars => [ApprovalStands]_vars
  BY WorkflowInvNext
<1> QED
  BY <1>1, WorkflowInvAlways, PTL DEF Spec

\* assertMilestoneAllocationWithinAgreement, which sums what is there under the
\* agreement's row lock, keeps the milestones together within the agreement's
\* amount, for any number of milestones and amounts.
THEOREM AllocationWithinAgreementAlways == Spec => []AllocationWithinAgreement
<1>1. WorkflowInv => AllocationWithinAgreement
  BY DEF WorkflowInv, PaymentInv, AllocationInv
<1> QED
  BY <1>1, WorkflowInvAlways, PTL

\* Of all the escrows of all the milestones at most one is ever released: the
\* agreement is approved for one milestone, and for good, although a creation
\* that read before a settlement committed may put another escrow there.
THEOREM OnePaymentAlways == Spec => []OnePayment
<1>1. WorkflowInv => OnePayment
  BY DEF WorkflowInv, PaymentInv
<1> QED
  BY <1>1, WorkflowInvAlways, PTL

\* What one escrow of a milestone may be worth.
LEMMA EscrowWithinTerms ==
    ASSUME WorkflowInv, NEW m \in Milestones, NEW e \in Paid(m)
    PROVE  /\ escrows[e].amount \in Nat /\ milestones[m].amount \in Nat
           /\ escrows[e].amount <= milestones[m].amount
           /\ escrows[e].amount <= Amount
<1>0. /\ e \in DOMAIN escrows /\ escrows[e].scope = m /\ escrows[e] \in EscrowRows
      /\ milestones \in [Milestones -> MilestoneRows]
  BY DEF Paid, InScope, WorkflowInv, RowsInv
<1>1. escrows[e].amount \in Nat /\ milestones[m].amount \in Nat
  BY <1>0, RowAmountNat
<1>2. escrows[e].amount <= milestones[m].amount
  BY <1>0 DEF WorkflowInv, PaymentInv, ScopeInv, Within
<1> DEFINE f == Amounts(milestones, Milestones)
<1>3. f \in [Milestones -> Nat] /\ f[m] = milestones[m].amount
  <2>1. f \in [Milestones -> Nat]
    BY <1>0, AmountsAreNat
  <2>2. f[m] = milestones[m].amount
    BY DEF Amounts
  <2> QED
    BY <2>1, <2>2
<1>4. SumFunction(f) <= Amount
  BY DEF WorkflowInv, PaymentInv, AllocationInv, AllocationWithinAgreement, Sum
<1> HIDE DEF f
<1>5. f[m] <= SumFunction(f) /\ SumFunction(f) \in Nat
  BY <1>3, SumBounds, SumNat, MilestonesFinite
<1> QED
  BY <1>1, <1>2, <1>3, <1>4, <1>5, AmountsArePositive

\* createEscrow admits no escrow above its milestone's amount and
\* assertReleaseAllowed pays one milestone only, so that the worker never gets
\* more than the milestone, nor than the agreement, provides.
THEOREM PaidWithinTermsAlways == Spec => []PaidWithinTerms
<1>1. WorkflowInv => PaidWithinTerms
  <2> SUFFICES ASSUME WorkflowInv PROVE PaidWithinTerms
    OBVIOUS
  <2>0. OnePayment /\ RowsInv /\ Amount \in Nat
    BY AmountsArePositive DEF WorkflowInv, PaymentInv
  <2>1. ASSUME NEW S, NEW bound \in Nat, \A d, e \in S : d = e,
               \A e \in S : escrows[e].amount \in Nat /\ escrows[e].amount <= bound
        PROVE  Sum(escrows, S) <= bound
    <3> DEFINE f == Amounts(escrows, S)
    <3>1. DOMAIN f = S /\ \A e \in S : f[e] = escrows[e].amount
      BY DEF Amounts
    <3>2. Sum(escrows, S) = SumFunction(f)
      BY DEF Sum
    <3> HIDE DEF f
    <3>3. CASE S = {}
      BY <3>1, <3>2, <3>3, SumNone
    <3>4. ASSUME NEW e \in S PROVE Sum(escrows, S) <= bound
      <4>1. S = {e}
        BY <2>1
      <4>2. f[e] \in Nat /\ f[e] <= bound
        BY <2>1, <3>1
      <4>3. SumFunction(f) = f[e]
        BY <3>1, <4>1, <4>2, SumOne
      <4> QED
        BY <3>2, <4>2, <4>3
    <3> QED
      BY <3>3, <3>4
  <2>2. \A m \in Milestones : Paid(m) \subseteq PaidEscrows
    BY DEF PaidEscrows
  <2>3. ASSUME NEW m \in Milestones PROVE Sum(escrows, Paid(m)) <= milestones[m].amount
    <3>1. milestones[m].amount \in Nat
      BY <2>0, RowAmountNat DEF RowsInv
    <3>2. \A d, e \in Paid(m) : d = e
      BY <2>0, <2>2 DEF OnePayment
    <3> QED
      BY <2>1, <3>1, <3>2, EscrowWithinTerms
  <2>4. Sum(escrows, PaidEscrows) <= Amount
    <3>1. \A e \in PaidEscrows : escrows[e].amount \in Nat /\ escrows[e].amount <= Amount
      BY EscrowWithinTerms DEF PaidEscrows
    <3> QED
      BY <2>0, <2>1, <3>1 DEF OnePayment
  <2> QED
    BY <2>3, <2>4 DEF PaidWithinTerms, PaidEscrows
<1> QED
  BY <1>1, WorkflowInvAlways, PTL

\* An escrow is on its way to the worker only because it was so before, or
\* because its release was reserved while the agreement was approved.
LEMMA PaidOrApproved ==
    ASSUME WorkflowInv, [Next]_vars, NEW e \in DOMAIN escrows',
           escrows'[e].status \in {"release_pending", "released"}
    PROVE  \/ e \in DOMAIN escrows /\ escrows[e].status \in {"release_pending", "released"}
           \/ agreement.status = "approved"
<1>0. escrows \in Seq(EscrowRows)
  BY DEF WorkflowInv, RowsInv
<1>1. CASE UNCHANGED escrows
  BY <1>1
<1>2. ASSUME NEW d \in DOMAIN escrows, NEW status,
             escrows' = [escrows EXCEPT ![d].status = status],
             status \in {"release_pending", "released"} =>
                \/ escrows[d].status = "release_pending"
                \/ agreement.status = "approved"
      PROVE  \/ e \in DOMAIN escrows /\ escrows[e].status \in {"release_pending", "released"}
             \/ agreement.status = "approved"
  <2>1. escrows[d] \in EscrowRows
    BY <1>0
  <2>2. CASE e = d
    <3>1. escrows'[e].status = status
      BY <1>0, <1>2, <2>1, <2>2 DEF EscrowRows
    <3> QED
      BY <1>2, <2>2, <3>1
  <2>3. CASE e # d
    BY <1>0, <1>2, <2>3
  <2> QED
    BY <2>2, <2>3
<1>3. ASSUME NEW d \in DOMAIN escrows, FinalizeEscrowCreation(d) \/ MarkEscrowFunded(d)
      PROVE  \/ e \in DOMAIN escrows /\ escrows[e].status \in {"release_pending", "released"}
             \/ agreement.status = "approved"
  BY <1>2, <1>3 DEF FinalizeEscrowCreation, MarkEscrowFunded, AdapterStatus
<1>4. ASSUME NEW d \in DOMAIN escrows, NEW operation \in {"release", "refund"},
             ReserveEscrowSettlement(d, operation)
      PROVE  \/ e \in DOMAIN escrows /\ escrows[e].status \in {"release_pending", "released"}
             \/ agreement.status = "approved"
  <2>1. PICK status \in {"release_pending", "refund_pending"} :
          /\ escrows' = [escrows EXCEPT ![d].status = status]
          /\ status = "release_pending" => ReleaseAllowed(d)
    BY <1>4 DEF ReserveEscrowSettlement
  <2>2. ReleaseAllowed(d) => agreement.status = "approved"
    BY DEF ReleaseAllowed, WorkflowInv, ResolvedReleaseIsApproved
  <2> QED
    BY <1>2, <2>1, <2>2
<1>5. ASSUME NEW tx \in txs, FinalizeEscrowSettlement(tx)
      PROVE  \/ e \in DOMAIN escrows /\ escrows[e].status \in {"release_pending", "released"}
             \/ agreement.status = "approved"
  <2>1. /\ tx.escrow \in DOMAIN escrows /\ tx.to \in TerminalStatuses
        /\ escrows[tx.escrow].status = Pending(tx.to)
        /\ escrows' = [escrows EXCEPT ![tx.escrow].status = tx.to]
    BY <1>5 DEF FinalizeEscrowSettlement, WorkflowInv, TxInv
  <2> QED
    BY <1>2, <2>1 DEF Pending, TerminalStatuses
<1>6. ASSUME NEW tx \in txs, CreateEscrow(tx)
      PROVE  e \in DOMAIN escrows /\ escrows[e].status \in {"release_pending", "released"}
  <2>1. /\ e \in 1..(Len(escrows) + 1) /\ Len(escrows) \in Nat
        /\ \A i \in 1..Len(escrows) : escrows'[i] = escrows[i]
        /\ escrows'[Len(escrows) + 1].status = "not_created"
    BY <1>0, <1>6 DEF CreateEscrow
  <2>2. DOMAIN escrows = 1..Len(escrows)
    BY <1>0
  <2> QED
    BY <2>1, <2>2
<1>7. ASSUME \/ AcceptAgreement
             \/ \E to \in {"cancelled", "funding_required"} : TransitionAgreement(to)
             \/ \E m \in Milestones :
                   \/ \E amount \in MilestoneAmounts : CreateMilestone(m, amount)
                   \/ CreateProof(m) \/ CreateDispute(m)
             \/ \E i \in DOMAIN proofs, decision \in {"approved", "rejected", "needs_changes"} :
                   ReviewProof(i, decision)
             \/ \E i \in DOMAIN disputes, type \in {"release", "refund", "split"} :
                   ReadDispute(i, type)
             \/ \E scope \in Scopes, amount \in MilestoneAmounts : ReadForEscrow(scope, amount)
             \/ \E d \in DOMAIN escrows : ReadSettlement(d)
             \/ \E tx \in txs : ResolveDispute(tx) \/ Rollback(tx)
      PROVE  UNCHANGED escrows
  BY <1>7 DEF AcceptAgreement, TransitionAgreement, CreateMilestone, CreateProof, CreateDispute,
     ReviewProof, ReadDispute, ReadForEscrow, ReadSettlement, ResolveDispute, Rollback
<1> QED
  BY <1>1, <1>3, <1>4, <1>5, <1>6, <1>7 DEF Next, vars

\* Money that is on its way to the worker binds the agreement: from the
\* reservation of a release on it is approved or released, and no dispute,
\* review or refund that was under way concludes it otherwise
\* (assertReleaseAllowed, transitionAgreementWhenAllEscrowsTerminal).
THEOREM PaymentBindsAgreementAlways == Spec => []PaymentBindsAgreement
<1>1. Init => PaymentBindsAgreement
  BY DEF Init, PaymentBindsAgreement
<1>2. WorkflowInv /\ PaymentBindsAgreement /\ [Next]_vars => PaymentBindsAgreement'
  BY PaidOrApproved, WorkflowInvNext DEF PaymentBindsAgreement, ApprovalStands
<1> QED
  BY <1>1, <1>2, WorkflowInvAlways, PTL DEF Spec
=============================================================================
