------------------------- MODULE CkbSettlementProofs -------------------------
(***************************************************************************)
(* Proofs about CkbSettlement for every set of requests, workers and       *)
(* faults.  None of the safety properties is inductive: that nothing is    *)
(* signed twice needs the reservation discipline (ReservationInv), that    *)
(* the database is never ahead of the chain needs what workers and         *)
(* requests carry between their observation and their write                *)
(* (ConfirmationInv), and that monitoring lasts needs that a final         *)
(* observation cannot become stale (MonitoringInv).                        *)
(***************************************************************************)
EXTENDS CkbSettlement, TLAPS

\* No edge of the escrow table leads out of the table, back to a reservation
\* or to the absence of a row.
LEMMA SuccessorsKnown ==
    \A s : EscrowSuccessors(s) \subseteq EscrowStatuses \ {"not_created"}
BY DEF EscrowSuccessors, EscrowStatuses, TerminalStatuses

\* A reconciliation run writes a status of the table, never a reservation.
LEMMA TargetKnown ==
    ASSUME NEW w \in Workers
    PROVE  \/ Target(w) = wk[w].seenEscrow
           \/ Target(w) \in EscrowStatuses \ {"not_created"}
BY DEF Target, ReconciliationEscrowStatus, EscrowStatuses, PendingStatus, TerminalStatus

\* What Advance makes of a request record.
LEMMA Advanced ==
    ASSUME TypeOK, NEW r \in Requests, NEW pc, NEW result, Advance(r, pc, result)
    PROVE  /\ req'[r] = [op |-> req[r].op, pc |-> pc, result |-> result,
                         seen |-> req[r].seen]
           /\ req' = [req EXCEPT ![r] = req'[r]]
BY DEF Advance, TypeOK

\* What signing and broadcasting can do to the request and to the chain.
BroadcastOutcome(r, t) ==
    /\ req' = [req EXCEPT ![r] = req'[r]]
    /\ \/ /\ req'[r] = [op |-> req[r].op, pc |-> "finalize", result |-> "ok",
                        seen |-> req[r].seen]
          /\ chain' = [chain EXCEPT ![t] = "pending"]
       \/ /\ req'[r] = [op |-> req[r].op, pc |-> "finalize", result |-> "ambiguous",
                        seen |-> req[r].seen]
          /\ \E arrived \in {"pending", "signed"} : chain' = [chain EXCEPT ![t] = arrived]
       \/ /\ req'[r] = [op |-> req[r].op, pc |-> "finalize", result |-> "error",
                        seen |-> req[r].seen]
          /\ UNCHANGED chain
    /\ faultsLeft' \in Nat
    /\ req' \in [Requests -> RequestStates]
    /\ chain' \in [Ops -> ChainStates]

\* Signing and broadcasting has one of those outcomes.
LEMMA Broadcast ==
    ASSUME TypeOK, NEW r \in Requests, NEW t \in Ops, SignAndBroadcast(r, t)
    PROVE  BroadcastOutcome(r, t)
<1>0. \A result \in AdapterResults :
        [op |-> req[r].op, pc |-> "finalize", result |-> result, seen |-> req[r].seen]
            \in RequestStates
  BY DEF TypeOK, RequestStates
<1>5. ASSUME NEW arrived \in {"pending", "signed"}, chain' = [chain EXCEPT ![t] = arrived]
      PROVE  chain' \in [Ops -> ChainStates]
  <2>1. arrived \in ChainStates
    BY DEF ChainStates
  <2> QED
    BY <1>5, <2>1 DEF TypeOK
<1> USE DEF AdapterResults, BroadcastOutcome
<1>1. faultsLeft' \in Nat
  BY DEF TypeOK, SignAndBroadcast, Fault, NoFault
<1>2. CASE Advance(r, "finalize", "ok") /\ chain' = [chain EXCEPT ![t] = "pending"]
  BY <1>0, <1>1, <1>2, <1>5, Advanced DEF TypeOK
<1>3. ASSUME Advance(r, "finalize", "ambiguous"),
             NEW arrived \in {"pending", "signed"}, chain' = [chain EXCEPT ![t] = arrived]
      PROVE  BroadcastOutcome(r, t)
  <2>1. /\ req'[r] = [op |-> req[r].op, pc |-> "finalize", result |-> "ambiguous",
                      seen |-> req[r].seen]
        /\ req' = [req EXCEPT ![r] = req'[r]]
    BY <1>3, Advanced
  <2>2. req' \in [Requests -> RequestStates]
    BY <1>0, <2>1 DEF TypeOK
  <2>3. chain' \in [Ops -> ChainStates]
    BY <1>3, <1>5
  <2> QED
    BY <1>1, <1>3, <2>1, <2>2, <2>3
<1>4. CASE Advance(r, "finalize", "error") /\ UNCHANGED chain
  BY <1>0, <1>1, <1>4, Advanced DEF TypeOK
<1> QED
  BY <1>2, <1>3, <1>4 DEF SignAndBroadcast

-----------------------------------------------------------------------------
(* Type correctness                                                        *)

\* The initial rows are well typed.
LEMMA TypeInit == Init => TypeOK
<1> SUFFICES ASSUME Init PROVE TypeOK
  OBVIOUS
<1>1. mature \in BOOLEAN /\ signable \in SUBSET Settlements
  BY DEF Init
<1> QED
  BY <1>1, MaxFaultsNat DEF Init, TypeOK, EscrowValues, Ops, Settlements, NoRow,
     TxStatuses, SettlementAgreementStatuses, NoJob, Jobs, JobStatuses, IdleRequest,
     RequestStates, IdleWorker, WorkerStates, ChainStates

\* Every request, worker and network step keeps the types.
LEMMA TypeNext == TypeOK /\ [Next]_vars => TypeOK'
<1> SUFFICES ASSUME TypeOK, [Next]_vars PROVE TypeOK'
  OBVIOUS
<1> USE DEF Ops, Settlements, EscrowValues, EscrowStatuses, TxStatuses, ChainStates,
            JobStatuses, Jobs, NoFault, Fault, dbVars, chainVars
<1>1. CASE UNCHANGED vars
  BY <1>1 DEF TypeOK, vars
<1>2. ASSUME NEW r \in Requests, RequestStep(r) PROVE TypeOK'
  <2> USE DEF Advance, Finish, Begin, IdleRequest, RequestStates, AdapterResults
  <2>1. CASE ReserveEscrowCreation(r)
    BY <2>1 DEF TypeOK, ReserveEscrowCreation, ReservedRow
  <2>2. CASE CreateEscrowLock(r)
    <3>1. SignAndBroadcast(r, "lock") /\ UNCHANGED <<dbVars, wk, confirmedOnce, mature, signable>>
      BY <2>2 DEF CreateEscrowLock
    <3>2. /\ req' \in [Requests -> RequestStates] /\ chain' \in [Ops -> ChainStates]
          /\ faultsLeft' \in Nat
      <4> HIDE DEF RequestStates, ChainStates
      <4> QED BY <3>1, Broadcast DEF BroadcastOutcome
    <3> QED
      BY <3>1, <3>2 DEF TypeOK
  <2>3. CASE FinalizeEscrowCreation(r)
    BY <2>3 DEF TypeOK, FinalizeEscrowCreation, EnqueueReconciliation, ReadyJob
  <2>4. CASE DiscardEscrowCreation(r)
    BY <2>4 DEF TypeOK, DiscardEscrowCreation, NoRow
  <2>5. CASE BeginMarkFunded(r)
    BY <2>5 DEF TypeOK, BeginMarkFunded
  <2>6. CASE VerifyFunding(r)
    BY <2>6 DEF TypeOK, VerifyFunding
  <2>7. CASE ReadForFunding(r)
    BY <2>7 DEF TypeOK, ReadForFunding
  <2>8. CASE WriteFunding(r)
    <3>1. escrow' \in EscrowValues
      BY <2>8, SuccessorsKnown DEF TypeOK, WriteFunding, CanTransitionEscrow
    <3>2. agreement' \in SettlementAgreementStatuses
      BY <2>8 DEF TypeOK, WriteFunding, FundedAgreement, SettlementAgreementStatuses
    <3>3. txrow' \in [Ops -> [status: TxStatuses, hash: BOOLEAN]]
      <4>1. \/ UNCHANGED txrow
            \/ \E status \in {"confirmed", "committed"} :
                  txrow' = [txrow EXCEPT !["lock"] = [status |-> status, hash |-> TRUE]]
        BY <2>8 DEF WriteFunding
      <4>2. CASE UNCHANGED txrow
        BY <4>2 DEF TypeOK
      <4>3. ASSUME NEW status \in {"confirmed", "committed"},
                   txrow' = [txrow EXCEPT !["lock"] = [status |-> status, hash |-> TRUE]]
            PROVE  txrow' \in [Ops -> [status: TxStatuses, hash: BOOLEAN]]
        BY <4>3 DEF TypeOK
      <4> QED
        BY <4>1, <4>2, <4>3
    <3>4. req' \in [Requests -> RequestStates]
      BY <2>8 DEF TypeOK, WriteFunding
    <3>5. UNCHANGED <<job, wk, chainVars, faultsLeft>>
      BY <2>8 DEF WriteFunding
    <3> QED
      BY <3>1, <3>2, <3>3, <3>4, <3>5 DEF TypeOK
  <2>9. CASE RequestCrash(r)
    BY <2>9 DEF TypeOK, RequestCrash
  <2>10. ASSUME NEW op \in Settlements, ReserveEscrowSettlement(r, op) PROVE TypeOK'
    BY <2>10 DEF TypeOK, ReserveEscrowSettlement, PendingStatus, ReservedRow
  <2>11. ASSUME NEW op \in Settlements, Settle(r, op) PROVE TypeOK'
    <3>1. SignAndBroadcast(r, op) /\ UNCHANGED <<dbVars, wk, confirmedOnce, mature, signable>>
      BY <2>11 DEF Settle
    <3>2. /\ req' \in [Requests -> RequestStates] /\ chain' \in [Ops -> ChainStates]
          /\ faultsLeft' \in Nat
      <4> HIDE DEF RequestStates, ChainStates
      <4> QED BY <3>1, Broadcast DEF BroadcastOutcome
    <3> QED
      BY <3>1, <3>2 DEF TypeOK
  <2>12. ASSUME NEW op \in Settlements, FinalizeSuccessfulSettlement(r, op) PROVE TypeOK'
    BY <2>12 DEF TypeOK, FinalizeSuccessfulSettlement, PendingStatus, EnqueueReconciliation, ReadyJob
  <2>13. ASSUME NEW op \in Settlements, FinalizeFailedSettlement(r, op) PROVE TypeOK'
    BY <2>13 DEF TypeOK, FinalizeFailedSettlement
  <2>14. ASSUME NEW op \in Settlements, SettlementStateChanged(r, op) PROVE TypeOK'
    BY <2>14 DEF TypeOK, SettlementStateChanged
  <2> QED
    BY <1>2, <2>1, <2>2, <2>3, <2>4, <2>5, <2>6, <2>7, <2>8, <2>9, <2>10, <2>11, <2>12,
       <2>13, <2>14 DEF RequestStep
<1>3. ASSUME NEW w \in Workers, WorkerStep(w) PROVE TypeOK'
  <2> USE DEF WorkerStates, IdleWorker, Observations
  <2>1. ASSUME NEW t \in Ops, ClaimJob(w, t) PROVE TypeOK'
    BY <2>1 DEF TypeOK, ClaimJob
  <2>2. CASE ObserveTransaction(w)
    <3>1. wk[w] \in WorkerStates /\ wk[w].tx \in Ops
      BY <2>2 DEF TypeOK, ObserveTransaction
    <3>2. Observed(wk[w].tx) \cup NotKnown \subseteq Observations
      BY <3>1 DEF TypeOK, Observed, NotKnown
    <3>3. \E obs \in Observations : Observe(w, obs)
      BY <2>2, <3>2 DEF ObserveTransaction
    <3>4. wk' \in [Workers -> WorkerStates]
      BY <3>1, <3>3 DEF TypeOK, Observe
    <3>5. faultsLeft' \in Nat
      BY <2>2 DEF TypeOK, ObserveTransaction
    <3> QED
      BY <2>2, <3>4, <3>5 DEF TypeOK, ObserveTransaction
  <2>3. CASE ReadRows(w)
    <3>1. wk[w].tx \in Ops /\ wk[w] \in WorkerStates
      BY <2>3 DEF TypeOK, ReadRows
    <3>2. txrow[wk[w].tx].status \in TxStatuses
      BY <3>1 DEF TypeOK
    <3>3. wk' \in [Workers -> WorkerStates]
      BY <2>3, <3>1, <3>2 DEF TypeOK, ReadRows
    <3> QED
      BY <2>3, <3>3 DEF TypeOK, ReadRows
  <2>4. CASE ApplyObservation(w)
    <3>1. escrow' \in EscrowValues
      BY <2>4, TargetKnown DEF TypeOK, ApplyObservation
    <3>2. agreement' \in SettlementAgreementStatuses
      BY <2>4 DEF TypeOK, ApplyObservation, SettlementAgreementStatuses, FundedAgreement,
         SettledAgreement, TerminalStatuses
    <3>3. ReconciledTxStatus(wk[w].obs, Reorg(w)) \in TxStatuses
      BY DEF TypeOK, ReconciledTxStatus
    <3>4. txrow' \in [Ops -> [status: TxStatuses, hash: BOOLEAN]]
      BY <2>4, <3>3 DEF TypeOK, ApplyObservation
    <3>5. wk' \in [Workers -> WorkerStates]
      BY <2>4 DEF TypeOK, ApplyObservation
    <3>6. UNCHANGED <<job, req, chain, confirmedOnce, mature, signable, faultsLeft>>
      BY <2>4 DEF ApplyObservation
    <3> QED
      BY <3>1, <3>2, <3>4, <3>5, <3>6 DEF TypeOK
  <2>5. CASE ReportJob(w)
    BY <2>5 DEF TypeOK, ReportJob
  <2>6. CASE FailReconciliation(w)
    BY <2>6 DEF TypeOK, FailReconciliation
  <2>7. CASE WorkerCrash(w)
    BY <2>7 DEF TypeOK, WorkerCrash
  <2>8. CASE JobDeadline(w)
    BY <2>8 DEF TypeOK, WorkerStates, JobDeadline
  <2> QED
    BY <1>3, <2>1, <2>2, <2>3, <2>4, <2>5, <2>6, <2>7, <2>8 DEF WorkerStep
<1>4. ASSUME NEW t \in Ops, ReleaseStaleLock(t) PROVE TypeOK'
  BY <1>4 DEF TypeOK, ReleaseStaleLock, ReadyJob
<1>5. ASSUME NEW t \in Ops, NetworkStep(t) PROVE TypeOK'
  <2>1. faultsLeft' \in Nat
    BY <1>5 DEF TypeOK, NetworkStep, LateDelivery, Commit, Bury, Reject, Reorganise
  <2>2. \E next \in ChainStates : ChainStep(t, next)
    BY <1>5 DEF NetworkStep, LateDelivery, Commit, Bury, Reject, Reorganise
  <2> QED
    BY <2>1, <2>2 DEF TypeOK, ChainStep
<1>6. CASE ApproveAgreement
  BY <1>6 DEF TypeOK, ApproveAgreement, SettlementAgreementStatuses
<1>7. CASE Mature
  BY <1>7 DEF TypeOK, Mature
<1> QED
  BY <1>1, <1>2, <1>3, <1>4, <1>5, <1>6, <1>7 DEF Next

-----------------------------------------------------------------------------
(* The inductive invariant                                                 *)

\* Until the creation of the escrow is finalized nobody else has anything to
\* do with it.
EarlyQuiet ==
    escrow \in {"none", "not_created"} =>
        /\ \A r \in Requests : req[r].op \in {"none", "lock"}
        /\ \A w \in Workers : wk[w] = IdleWorker
        /\ \A t \in Ops : job[t].st = "none"

\* The creating request finds the escrow as it left it.
LockReserved == \A r \in Requests : req[r].op = "lock" => escrow = "not_created"

NoRowYet == escrow = "none" => txrow["lock"].status = "none"

\* A request that may sign has its Transaction row.
RequestReserved ==
    \A r \in Requests : req[r].op \in Ops => txrow[req[r].op].status # "none"

\* An adapter that threw has signed nothing.
ErrorUnsigned ==
    \A r \in Requests :
        req[r].op \in Ops /\ req[r].result = "error" => chain[req[r].op] = "unsigned"

Reported ==
    \A w \in Workers : wk[w].pc \in {"observed", "read", "report"} => wk[w].obs # "none"

ReservationInv ==
    /\ EarlyQuiet /\ LockReserved /\ NoRowYet /\ RequestReserved /\ ErrorUnsigned
    /\ Reported /\ SignedIsReserved /\ SignedOnce

\* What counts as confirmed, on the chain, in a worker's hands or in a
\* request's, was confirmed once.
ConfirmedWas ==
    /\ \A t \in Ops : chain[t] \in Confirmed => t \in confirmedOnce
    /\ \A w \in Workers : wk[w].obs \in Confirmed => wk[w].tx \in confirmedOnce
    /\ \A r \in Requests : req[r].result = "funded" => "lock" \in confirmedOnce

\* A request that is settling was allowed to, and still is.
RequestAuthorised ==
    \A r \in Requests :
        /\ req[r].op \in Settlements => "lock" \in confirmedOnce
        /\ req[r].op = "release" => agreement \in {"approved", "released"}

ConfirmationInv ==
    ConfirmedWas /\ RequestAuthorised /\ SettledAfterConfirmation /\ SettlementAuthorised

\* A final observation cannot become stale.
FinalObserved ==
    \A w \in Workers :
        wk[w].obs \in {"deep", "rejected"} => chain[wk[w].tx] = wk[w].obs

LockWatched == escrow \notin {"none", "not_created"} => job["lock"].st # "none"

MonitoringInv == FinalObserved /\ LockWatched /\ MonitoredUntilFinal

\* Nothing is reserved at first.
LEMMA ReservationInit == Init => ReservationInv
BY DEF Init, ReservationInv, EarlyQuiet, LockReserved, NoRowYet, RequestReserved,
   ErrorUnsigned, Reported, SignedIsReserved, SignedOnce, IdleRequest, IdleWorker, NoRow,
   NoJob, Ops, Settlements

\* Reserve, sign, finalize and discard keep the reservation discipline.
LEMMA ReservationNext == TypeOK /\ ReservationInv /\ [Next]_vars => ReservationInv'
<1> SUFFICES ASSUME TypeOK, ReservationInv, [Next]_vars PROVE ReservationInv'
  OBVIOUS
<1> USE DEF ReservationInv, EarlyQuiet, LockReserved, NoRowYet, RequestReserved,
            ErrorUnsigned, Reported, SignedIsReserved, SignedOnce,
            dbVars, chainVars, Ops, Settlements
<1>1. CASE UNCHANGED vars
  BY <1>1 DEF vars, IdleWorker
<1>2. ASSUME NEW r \in Requests, RequestStep(r) PROVE ReservationInv'
  <2> USE DEF Finish, Begin, IdleRequest, AtPhase
  <2>1. CASE ReserveEscrowCreation(r)
    BY <2>1 DEF TypeOK, ReserveEscrowCreation, ReservedRow
  <2>2. CASE CreateEscrowLock(r)
    <3>1. BroadcastOutcome(r, "lock")
      BY <2>2, Broadcast DEF CreateEscrowLock
    <3> QED
      BY <2>2, <3>1 DEF TypeOK, CreateEscrowLock, BroadcastOutcome
  <2>3. CASE FinalizeEscrowCreation(r)
    BY <2>3 DEF TypeOK, FinalizeEscrowCreation
  <2>4. CASE DiscardEscrowCreation(r)
    BY <2>4 DEF TypeOK, DiscardEscrowCreation, NoRow
  <2>5. CASE BeginMarkFunded(r)
    BY <2>5 DEF TypeOK, BeginMarkFunded
  <2>6. CASE VerifyFunding(r)
    BY <2>6 DEF TypeOK, VerifyFunding, Advance
  <2>7. CASE ReadForFunding(r)
    BY <2>7 DEF TypeOK, ReadForFunding
  <2>8. CASE WriteFunding(r)
    <3>1. escrow \notin {"none", "not_created"}
      BY <2>8 DEF WriteFunding
    <3>2. escrow' \notin {"none", "not_created"}
      BY <2>8, <3>1, SuccessorsKnown DEF WriteFunding, CanTransitionEscrow, EscrowStatuses
    <3>3. \A t \in Ops : txrow[t].status # "none" => txrow'[t].status # "none"
      BY <2>8 DEF TypeOK, WriteFunding
    <3>4. req' = [req EXCEPT ![r] = IdleRequest] /\ UNCHANGED <<job, wk, chain>>
      BY <2>8 DEF WriteFunding
    <3> QED
      BY <3>1, <3>2, <3>3, <3>4 DEF TypeOK
  <2>9. CASE RequestCrash(r)
    BY <2>9 DEF TypeOK, RequestCrash
  <2>10. ASSUME NEW op \in Settlements, ReserveEscrowSettlement(r, op) PROVE ReservationInv'
    BY <2>10 DEF TypeOK, ReserveEscrowSettlement, SettlementAllowed, PendingStatus, ReservedRow, NoRow
  <2>11. ASSUME NEW op \in Settlements, Settle(r, op) PROVE ReservationInv'
    <3>1. BroadcastOutcome(r, op)
      BY <2>11, Broadcast DEF Settle
    <3> QED
      BY <2>11, <3>1 DEF TypeOK, Settle, BroadcastOutcome
  <2>12. ASSUME NEW op \in Settlements, FinalizeSuccessfulSettlement(r, op) PROVE ReservationInv'
    BY <2>12 DEF TypeOK, FinalizeSuccessfulSettlement, PendingStatus
  <2>13. ASSUME NEW op \in Settlements, FinalizeFailedSettlement(r, op) PROVE ReservationInv'
    BY <2>13 DEF TypeOK, FinalizeFailedSettlement, PendingStatus
  <2>14. ASSUME NEW op \in Settlements, SettlementStateChanged(r, op) PROVE ReservationInv'
    BY <2>14 DEF TypeOK, SettlementStateChanged
  <2> QED
    BY <1>2, <2>1, <2>2, <2>3, <2>4, <2>5, <2>6, <2>7, <2>8, <2>9, <2>10, <2>11, <2>12,
       <2>13, <2>14 DEF RequestStep
<1>3. ASSUME NEW w \in Workers, WorkerStep(w) PROVE ReservationInv'
  <2> USE DEF IdleWorker
  <2>1. ASSUME NEW t \in Ops, ClaimJob(w, t) PROVE ReservationInv'
    BY <2>1 DEF TypeOK, ClaimJob
  <2>2. CASE ObserveTransaction(w)
    <3>1. PICK obs : obs # "none" /\ Observe(w, obs)
      <4>1. "none" \notin Observed(wk[w].tx) \cup NotKnown
        BY <2>2 DEF TypeOK, WorkerStates, ObserveTransaction, Observed, NotKnown, ChainStates
      <4> QED
        BY <2>2, <4>1 DEF ObserveTransaction
    <3>2. escrow \notin {"none", "not_created"}
      BY <2>2 DEF ObserveTransaction
    <3> QED
      BY <2>2, <3>1, <3>2 DEF TypeOK, ObserveTransaction, Observe
  <2>3. CASE ReadRows(w)
    BY <2>3 DEF TypeOK, ReadRows
  <2>4. CASE ApplyObservation(w)
    <3>1. escrow \notin {"none", "not_created"}
      BY <2>4 DEF ApplyObservation
    <3>2. escrow' \notin {"none", "not_created"}
      BY <2>4, <3>1, TargetKnown DEF ApplyObservation, EscrowStatuses
    <3>3. \A t \in Ops : txrow[t].status # "none" => txrow'[t].status # "none"
      <4>1. ReconciledTxStatus(wk[w].obs, Reorg(w)) # "none"
        BY <2>4 DEF ApplyObservation, ReconciledTxStatus
      <4> QED
        BY <2>4, <4>1 DEF TypeOK, ApplyObservation
    <3>4. /\ UNCHANGED <<job, req, chain>>
          /\ wk' = [wk EXCEPT ![w] = [tx |-> @.tx, pc |-> "report", obs |-> @.obs,
                                      seenEscrow |-> "none", seenTx |-> "none"]]
      BY <2>4 DEF ApplyObservation
    <3>5. wk[w].obs # "none"
      BY <2>4 DEF ApplyObservation
    <3> QED
      BY <3>1, <3>2, <3>3, <3>4, <3>5 DEF TypeOK
  <2>5. CASE ReportJob(w)
    BY <2>5 DEF TypeOK, ReportJob
  <2>6. CASE FailReconciliation(w)
    BY <2>6 DEF TypeOK, FailReconciliation
  <2>7. CASE WorkerCrash(w)
    BY <2>7 DEF TypeOK, WorkerCrash
  <2>8. CASE JobDeadline(w)
    BY <2>8 DEF TypeOK, WorkerStates, JobDeadline
  <2> QED
    BY <1>3, <2>1, <2>2, <2>3, <2>4, <2>5, <2>6, <2>7, <2>8 DEF WorkerStep
<1>4. ASSUME NEW t \in Ops, ReleaseStaleLock(t) PROVE ReservationInv'
  BY <1>4 DEF TypeOK, ReleaseStaleLock, ReadyJob
<1>5. ASSUME NEW t \in Ops, NetworkStep(t) PROVE ReservationInv'
  <2>1. \E next : ChainStep(t, next) /\ chain[t] # "unsigned"
    BY <1>5 DEF NetworkStep, LateDelivery, Commit, Bury, Reject, Reorganise
  <2> QED
    BY <2>1 DEF TypeOK, ChainStep
<1>6. CASE ApproveAgreement
  BY <1>6 DEF ApproveAgreement
<1>7. CASE Mature
  BY <1>7 DEF Mature, dbVars
<1> QED
  BY <1>1, <1>2, <1>3, <1>4, <1>5, <1>6, <1>7 DEF Next

\* What a settled agreement may come from.
LEMMA AgreementSettled ==
    ASSUME NEW a, NEW to \in TerminalStatuses
    PROVE  /\ SettledAgreement(a, to) \in {a, to}
           /\ a \in {"approved", "released"} =>
                 SettledAgreement(a, to) \in {"approved", "released"}
BY DEF SettledAgreement, CanTransitionAgreement, AgreementSuccessors, TerminalStatuses

\* A reconciliation run writes funded and the terminal statuses only for a
\* confirmed observation of the transaction in question.
LEMMA TargetConfirmed ==
    ASSUME NEW w \in Workers, Target(w) # wk[w].seenEscrow
    PROVE  /\ Target(w) = "funded" => wk[w].tx = "lock" /\ wk[w].obs \in Confirmed
           /\ Target(w) = "released" => wk[w].tx = "release" /\ wk[w].obs \in Confirmed
           /\ Target(w) = "refunded" => wk[w].tx = "refund" /\ wk[w].obs \in Confirmed
BY DEF Target, ReconciliationEscrowStatus, PendingStatus, TerminalStatus, Settlements

\* Nothing is confirmed at first.
LEMMA ConfirmationInit == Init => ConfirmationInv
BY DEF Init, ConfirmationInv, ConfirmedWas, RequestAuthorised, SettledAfterConfirmation,
   SettlementAuthorised, IdleRequest, IdleWorker, Ops, Settlements, Confirmed

\* Stale observations and late finalizations write nothing unconfirmed.
LEMMA ConfirmationNext ==
    TypeOK /\ ReservationInv /\ ConfirmationInv /\ [Next]_vars => ConfirmationInv'
<1> SUFFICES ASSUME TypeOK, ReservationInv, ConfirmationInv, [Next]_vars
             PROVE  ConfirmationInv'
  OBVIOUS
<1> USE DEF ConfirmationInv, ConfirmedWas, RequestAuthorised, SettledAfterConfirmation,
            SettlementAuthorised, dbVars, chainVars, Ops, Settlements, Confirmed
<1>1. CASE UNCHANGED vars
  BY <1>1 DEF vars
<1>2. ASSUME NEW r \in Requests, RequestStep(r) PROVE ConfirmationInv'
  <2> USE DEF Finish, Begin, IdleRequest, AtPhase
  <2>1. CASE ReserveEscrowCreation(r)
    BY <2>1 DEF TypeOK, ReserveEscrowCreation
  <2>2. CASE CreateEscrowLock(r)
    <3>1. BroadcastOutcome(r, "lock")
      BY <2>2, Broadcast DEF CreateEscrowLock
    <3> QED
      BY <2>2, <3>1 DEF TypeOK, CreateEscrowLock, BroadcastOutcome
  <2>3. CASE FinalizeEscrowCreation(r)
    BY <2>3 DEF TypeOK, FinalizeEscrowCreation
  <2>4. CASE DiscardEscrowCreation(r)
    BY <2>4 DEF TypeOK, DiscardEscrowCreation
  <2>5. CASE BeginMarkFunded(r)
    BY <2>5 DEF TypeOK, BeginMarkFunded
  <2>6. CASE VerifyFunding(r)
    BY <2>6 DEF TypeOK, VerifyFunding, Advance
  <2>7. CASE ReadForFunding(r)
    BY <2>7 DEF TypeOK, ReadForFunding
  <2>8. CASE WriteFunding(r)
    <3>1. req[r].result \notin TerminalStatuses
      BY DEF TypeOK, RequestStates, AdapterResults, TerminalStatuses
    <3>2. escrow' \in {escrow, req[r].result}
      BY <2>8 DEF WriteFunding
    <3>3. agreement' = agreement \/ (agreement = "funding_required" /\ agreement' = "funded")
      <4>1. agreement' = agreement \/ agreement' = FundedAgreement(agreement)
        BY <2>8 DEF WriteFunding
      <4> QED
        BY <4>1 DEF FundedAgreement
    <3>4. req' = [req EXCEPT ![r] = IdleRequest] /\ UNCHANGED <<wk, chain, confirmedOnce>>
      BY <2>8 DEF WriteFunding
    <3> QED
      BY <3>1, <3>2, <3>3, <3>4 DEF TypeOK, TerminalStatuses
  <2>9. CASE RequestCrash(r)
    BY <2>9 DEF TypeOK, RequestCrash
  <2>10. ASSUME NEW op \in Settlements, ReserveEscrowSettlement(r, op) PROVE ConfirmationInv'
    BY <2>10 DEF TypeOK, ReserveEscrowSettlement, SettlementAllowed, PendingStatus
  <2>11. ASSUME NEW op \in Settlements, Settle(r, op) PROVE ConfirmationInv'
    <3>1. BroadcastOutcome(r, op)
      BY <2>11, Broadcast DEF Settle
    <3> QED
      BY <2>11, <3>1 DEF TypeOK, Settle, BroadcastOutcome
  <2>12. ASSUME NEW op \in Settlements, FinalizeSuccessfulSettlement(r, op) PROVE ConfirmationInv'
    BY <2>12 DEF TypeOK, FinalizeSuccessfulSettlement, PendingStatus
  <2>13. ASSUME NEW op \in Settlements, FinalizeFailedSettlement(r, op) PROVE ConfirmationInv'
    BY <2>13 DEF TypeOK, FinalizeFailedSettlement, PendingStatus
  <2>14. ASSUME NEW op \in Settlements, SettlementStateChanged(r, op) PROVE ConfirmationInv'
    BY <2>14 DEF TypeOK, SettlementStateChanged
  <2> QED
    BY <1>2, <2>1, <2>2, <2>3, <2>4, <2>5, <2>6, <2>7, <2>8, <2>9, <2>10, <2>11, <2>12,
       <2>13, <2>14 DEF RequestStep
<1>3. ASSUME NEW w \in Workers, WorkerStep(w) PROVE ConfirmationInv'
  <2> USE DEF IdleWorker
  <2>1. ASSUME NEW t \in Ops, ClaimJob(w, t) PROVE ConfirmationInv'
    BY <2>1 DEF TypeOK, ClaimJob
  <2>2. CASE ObserveTransaction(w)
    <3>1. wk[w].tx \in Ops
      BY <2>2 DEF TypeOK, WorkerStates, ObserveTransaction
    <3>2. PICK obs : /\ Observe(w, obs)
                     /\ obs \in Confirmed => chain[wk[w].tx] = obs
      BY <2>2, <3>1 DEF TypeOK, ObserveTransaction, Observed, NotKnown, Confirmed
    <3>3. UNCHANGED <<dbVars, req, chain, confirmedOnce>>
      BY <2>2 DEF ObserveTransaction
    <3> QED
      BY <3>1, <3>2, <3>3 DEF TypeOK, Observe
  <2>3. CASE ReadRows(w)
    BY <2>3 DEF TypeOK, ReadRows
  <2>4. CASE ApplyObservation(w)
    <3>1. /\ UNCHANGED <<req, chain, confirmedOnce>>
          /\ wk' = [wk EXCEPT ![w] = [tx |-> @.tx, pc |-> "report", obs |-> @.obs,
                                      seenEscrow |-> "none", seenTx |-> "none"]]
      BY <2>4 DEF ApplyObservation
    <3>2. /\ escrow' = "funded" => "lock" \in confirmedOnce
          /\ escrow' = "released" => "release" \in confirmedOnce
          /\ escrow' = "refunded" => "refund" \in confirmedOnce
      BY <2>4, TargetConfirmed DEF ApplyObservation
    <3>3. \/ agreement' \in {agreement, "funded"} /\ (agreement = "funding_required" \/ agreement' = agreement)
          \/ agreement' = escrow' /\ escrow' \in TerminalStatuses
      BY <2>4, AgreementSettled DEF ApplyObservation, FundedAgreement
    <3>4. agreement \in {"approved", "released"} => agreement' \in {"approved", "released"}
      BY <2>4, AgreementSettled DEF ApplyObservation, FundedAgreement
    <3> QED
      BY <3>1, <3>2, <3>3, <3>4 DEF TypeOK, TerminalStatuses
  <2>5. CASE ReportJob(w)
    BY <2>5 DEF TypeOK, ReportJob
  <2>6. CASE FailReconciliation(w)
    BY <2>6 DEF TypeOK, FailReconciliation
  <2>7. CASE WorkerCrash(w)
    BY <2>7 DEF TypeOK, WorkerCrash
  <2>8. CASE JobDeadline(w)
    BY <2>8 DEF TypeOK, WorkerStates, JobDeadline
  <2> QED
    BY <1>3, <2>1, <2>2, <2>3, <2>4, <2>5, <2>6, <2>7, <2>8 DEF WorkerStep
<1>4. ASSUME NEW t \in Ops, ReleaseStaleLock(t) PROVE ConfirmationInv'
  BY <1>4 DEF ReleaseStaleLock
<1>5. ASSUME NEW t \in Ops, NetworkStep(t) PROVE ConfirmationInv'
  <2>1. \E next : /\ ChainStep(t, next) /\ chain[t] # "unsigned"
                  /\ next = "deep" => chain[t] = "confirmed"
    BY <1>5 DEF NetworkStep, LateDelivery, Commit, Bury, Reject, Reorganise
  <2> QED
    BY <2>1 DEF TypeOK, ChainStep
<1>6. CASE ApproveAgreement
  BY <1>6 DEF ApproveAgreement
<1>7. CASE Mature
  BY <1>7 DEF Mature, dbVars
<1> QED
  BY <1>1, <1>2, <1>3, <1>4, <1>5, <1>6, <1>7 DEF Next

\* Nothing is watched at first.
LEMMA MonitoringInit == Init => MonitoringInv
BY DEF Init, MonitoringInv, FinalObserved, LockWatched, MonitoredUntilFinal, IdleWorker,
   NoRow, NoJob, Ops, Settlements

\* Enqueueing, claiming and reporting keep every persisted hash watched.
LEMMA MonitoringNext ==
    TypeOK /\ ReservationInv /\ MonitoringInv /\ [Next]_vars => MonitoringInv'
<1> SUFFICES ASSUME TypeOK, ReservationInv, MonitoringInv, [Next]_vars
             PROVE  MonitoringInv'
  OBVIOUS
<1> USE DEF MonitoringInv, FinalObserved, LockWatched, MonitoredUntilFinal, dbVars,
            chainVars, Ops, Settlements
<1>1. CASE UNCHANGED vars
  BY <1>1 DEF vars
<1>2. ASSUME NEW r \in Requests, RequestStep(r) PROVE MonitoringInv'
  <2> USE DEF Finish, Begin, IdleRequest, AtPhase
  <2>1. CASE ReserveEscrowCreation(r)
    BY <2>1 DEF TypeOK, ReserveEscrowCreation, ReservedRow
  <2>2. CASE CreateEscrowLock(r)
    <3>1. BroadcastOutcome(r, "lock")
      BY <2>2, Broadcast DEF CreateEscrowLock
    <3>2. chain["lock"] = "unsigned"
      BY <2>2 DEF CreateEscrowLock, ReservationInv, SignedOnce
    <3>3. \A t \in Ops : chain[t] \in {"deep", "rejected"} => chain'[t] = chain[t]
      BY <3>1, <3>2 DEF TypeOK, BroadcastOutcome
    <3>4. UNCHANGED <<escrow, txrow, job, wk>>
      BY <2>2 DEF CreateEscrowLock
    <3> QED
      BY <3>3, <3>4 DEF TypeOK, WorkerStates, IdleWorker
  <2>3. CASE FinalizeEscrowCreation(r)
    BY <2>3 DEF TypeOK, FinalizeEscrowCreation, EnqueueReconciliation, ReadyJob
  <2>4. CASE DiscardEscrowCreation(r)
    BY <2>4 DEF TypeOK, DiscardEscrowCreation, NoRow
  <2>5. CASE BeginMarkFunded(r)
    BY <2>5 DEF TypeOK, BeginMarkFunded
  <2>6. CASE VerifyFunding(r)
    BY <2>6 DEF TypeOK, VerifyFunding, Advance
  <2>7. CASE ReadForFunding(r)
    BY <2>7 DEF TypeOK, ReadForFunding
  <2>8. CASE WriteFunding(r)
    <3>1. escrow \notin {"none", "not_created"}
      BY <2>8 DEF WriteFunding, ReservationInv, EarlyQuiet
    <3>2. \A t \in Ops : t # "lock" => txrow'[t] = txrow[t]
      BY <2>8 DEF TypeOK, WriteFunding
    <3> QED
      BY <2>8, <3>1, <3>2 DEF WriteFunding
  <2>9. CASE RequestCrash(r)
    BY <2>9 DEF TypeOK, RequestCrash
  <2>10. ASSUME NEW op \in Settlements, ReserveEscrowSettlement(r, op) PROVE MonitoringInv'
    BY <2>10 DEF TypeOK, ReserveEscrowSettlement, SettlementAllowed, ReservedRow
  <2>11. ASSUME NEW op \in Settlements, Settle(r, op) PROVE MonitoringInv'
    <3>1. BroadcastOutcome(r, op)
      BY <2>11, Broadcast DEF Settle
    <3>2. chain[op] = "unsigned"
      BY <2>11 DEF Settle, ReservationInv, SignedOnce
    <3>3. \A t \in Ops : chain[t] \in {"deep", "rejected"} => chain'[t] = chain[t]
      BY <3>1, <3>2 DEF TypeOK, BroadcastOutcome
    <3>4. UNCHANGED <<escrow, txrow, job, wk>>
      BY <2>11 DEF Settle
    <3> QED
      BY <3>3, <3>4 DEF TypeOK, WorkerStates, IdleWorker
  <2>12. ASSUME NEW op \in Settlements, FinalizeSuccessfulSettlement(r, op) PROVE MonitoringInv'
    BY <2>12 DEF TypeOK, FinalizeSuccessfulSettlement, PendingStatus, EnqueueReconciliation,
       ReadyJob
  <2>13. ASSUME NEW op \in Settlements, FinalizeFailedSettlement(r, op) PROVE MonitoringInv'
    BY <2>13 DEF TypeOK, FinalizeFailedSettlement, PendingStatus
  <2>14. ASSUME NEW op \in Settlements, SettlementStateChanged(r, op) PROVE MonitoringInv'
    BY <2>14 DEF TypeOK, SettlementStateChanged
  <2> QED
    BY <1>2, <2>1, <2>2, <2>3, <2>4, <2>5, <2>6, <2>7, <2>8, <2>9, <2>10, <2>11, <2>12,
       <2>13, <2>14 DEF RequestStep
<1>3. ASSUME NEW w \in Workers, WorkerStep(w) PROVE MonitoringInv'
  <2> USE DEF IdleWorker
  <2>1. ASSUME NEW t \in Ops, ClaimJob(w, t) PROVE MonitoringInv'
    BY <2>1 DEF TypeOK, ClaimJob
  <2>2. CASE ObserveTransaction(w)
    <3>1. wk[w].tx \in Ops
      BY <2>2 DEF TypeOK, WorkerStates, ObserveTransaction
    <3>2. PICK obs : /\ Observe(w, obs)
                     /\ obs \in {"deep", "rejected"} => chain[wk[w].tx] = obs
      BY <2>2, <3>1 DEF TypeOK, ObserveTransaction, Observed, NotKnown
    <3>3. UNCHANGED <<dbVars, chain>>
      BY <2>2 DEF ObserveTransaction
    <3> QED
      BY <3>1, <3>2, <3>3 DEF TypeOK, Observe
  <2>3. CASE ReadRows(w)
    BY <2>3 DEF TypeOK, ReadRows
  <2>4. CASE ApplyObservation(w)
    <3>1. escrow \notin {"none", "not_created"}
      BY <2>4 DEF ApplyObservation, ReservationInv, EarlyQuiet
    <3>2. \A t \in Ops : txrow'[t].hash = txrow[t].hash
      BY <2>4 DEF TypeOK, ApplyObservation
    <3> QED
      BY <2>4, <3>1, <3>2 DEF TypeOK, ApplyObservation
  <2>5. CASE ReportJob(w)
    BY <2>5 DEF TypeOK, WorkerStates, ReportJob
  <2>6. CASE FailReconciliation(w)
    BY <2>6 DEF TypeOK, FailReconciliation
  <2>7. CASE WorkerCrash(w)
    BY <2>7 DEF TypeOK, WorkerCrash
  <2>8. CASE JobDeadline(w)
    BY <2>8 DEF TypeOK, WorkerStates, JobDeadline
  <2> QED
    BY <1>3, <2>1, <2>2, <2>3, <2>4, <2>5, <2>6, <2>7, <2>8 DEF WorkerStep
<1>4. ASSUME NEW t \in Ops, ReleaseStaleLock(t) PROVE MonitoringInv'
  BY <1>4 DEF TypeOK, ReleaseStaleLock, ReadyJob
<1>5. ASSUME NEW t \in Ops, NetworkStep(t) PROVE MonitoringInv'
  <2>1. \E next : ChainStep(t, next) /\ chain[t] \notin {"deep", "rejected"}
    BY <1>5 DEF NetworkStep, LateDelivery, Commit, Bury, Reject, Reorganise
  <2> QED
    BY <2>1 DEF TypeOK, ChainStep
<1>6. CASE ApproveAgreement
  BY <1>6 DEF ApproveAgreement
<1>7. CASE Mature
  BY <1>7 DEF Mature, dbVars
<1> QED
  BY <1>1, <1>2, <1>3, <1>4, <1>5, <1>6, <1>7 DEF Next

\* A step of the system changes the escrow's status along an edge of its table.
LEMMA StepLegal == [Next]_vars => EscrowStepLegal
<1> SUFFICES ASSUME [Next]_vars PROVE EscrowStepLegal
  OBVIOUS
<1> USE DEF EscrowStepLegal, CanTransitionEscrow, EscrowSuccessors, TerminalStatuses,
            PendingStatus, dbVars
<1>1. CASE UNCHANGED vars
  BY <1>1 DEF vars
<1>2. ASSUME NEW r \in Requests, RequestStep(r) PROVE EscrowStepLegal
  <2>1. CASE WriteFunding(r)
    BY <2>1 DEF WriteFunding
  <2>2. CASE ReserveEscrowCreation(r) \/ FinalizeEscrowCreation(r) \/ DiscardEscrowCreation(r)
    BY <2>2 DEF ReserveEscrowCreation, FinalizeEscrowCreation, DiscardEscrowCreation
  <2>3. ASSUME NEW op \in Settlements,
               \/ ReserveEscrowSettlement(r, op) \/ FinalizeSuccessfulSettlement(r, op)
               \/ FinalizeFailedSettlement(r, op)
        PROVE  EscrowStepLegal
    BY <2>3 DEF ReserveEscrowSettlement, SettlementAllowed, FinalizeSuccessfulSettlement,
       FinalizeFailedSettlement
  <2> QED
    BY <1>2, <2>1, <2>2, <2>3 DEF RequestStep, CreateEscrowLock, BeginMarkFunded,
       VerifyFunding, ReadForFunding, RequestCrash, Settle, SettlementStateChanged
<1>3. ASSUME NEW w \in Workers, WorkerStep(w) PROVE EscrowStepLegal
  <2>1. CASE ApplyObservation(w)
    BY <2>1 DEF ApplyObservation, Applicable
  <2> QED
    BY <1>3, <2>1 DEF WorkerStep, ClaimJob, ObserveTransaction, ReadRows, ReportJob,
       FailReconciliation, JobDeadline, WorkerCrash
<1>4. ASSUME NEW t \in Ops, ReleaseStaleLock(t) \/ NetworkStep(t) PROVE EscrowStepLegal
  BY <1>4 DEF ReleaseStaleLock, NetworkStep, LateDelivery, Commit, Bury, Reject, Reorganise,
     ChainStep
<1>5. CASE ApproveAgreement
  BY <1>5 DEF ApproveAgreement
<1>6. CASE Mature
  BY <1>6 DEF Mature, dbVars
<1> QED
  BY <1>1, <1>2, <1>3, <1>4, <1>5, <1>6 DEF Next

-----------------------------------------------------------------------------
(* The theorems                                                            *)

IndInv == TypeOK /\ ReservationInv /\ ConfirmationInv /\ MonitoringInv

\* The conjunction of the parts above is inductive.
THEOREM IndInvAlways == Spec => []IndInv
<1>1. Init => IndInv
  BY TypeInit, ReservationInit, ConfirmationInit, MonitoringInit DEF IndInv
<1>2. IndInv /\ [Next]_vars => IndInv'
  BY TypeNext, ReservationNext, ConfirmationNext, MonitoringNext DEF IndInv
<1> QED
  BY <1>1, <1>2, PTL DEF Spec

\* Every row, request, worker run and chain state keeps its type.
THEOREM TypeCorrect == Spec => []TypeOK
BY TypeInit, TypeNext, PTL DEF Spec

\* Whatever was signed for an escrow has its Transaction row
\* (reserveEscrowCreation, reserveEscrowSettlement, discardEscrowCreation),
\* for every number of requests, workers and faults.
THEOREM SignedIsReservedAlways == Spec => []SignedIsReserved
<1>1. IndInv => SignedIsReserved
  BY DEF IndInv, ReservationInv
<1> QED
  BY <1>1, IndInvAlways, PTL

\* No lock or settlement transaction is signed twice and no reservation has two
\* holders (the unique operationId, the compare-and-swap from funded).
THEOREM SignedOnceAlways == Spec => []SignedOnce
<1>1. IndInv => SignedOnce
  BY DEF IndInv, ReservationInv
<1> QED
  BY <1>1, IndInvAlways, PTL

\* The database is never ahead of the chain: funded, released and refunded are
\* written only after a confirmation, however stale the observation
\* (reconcileCkbTransaction, finalizeEscrowFunding).
THEOREM SettledAfterConfirmationAlways == Spec => []SettledAfterConfirmation
<1>1. IndInv => SettledAfterConfirmation
  BY DEF IndInv, ConfirmationInv
<1> QED
  BY <1>1, IndInvAlways, PTL

\* Money is moved only out of an escrow that was funded, and to the worker only
\* after approval (assertReleaseAllowed, assertRefundAllowed).
THEOREM SettlementAuthorisedAlways == Spec => []SettlementAuthorised
<1>1. IndInv => SettlementAuthorised
  BY DEF IndInv, ConfirmationInv
<1> QED
  BY <1>1, IndInvAlways, PTL

\* A transaction with a persisted hash keeps its reconciliation job until its
\* fate is final or its retries are used up (enqueueCkbReconciliation,
\* completeJob).
THEOREM MonitoredUntilFinalAlways == Spec => []MonitoredUntilFinal
<1>1. IndInv => MonitoredUntilFinal
  BY DEF IndInv, MonitoringInv
<1> QED
  BY <1>1, IndInvAlways, PTL

\* The escrow's status moves along the edges of its table only
\* (assertEscrowTransition and the compare-and-swap of transitionEscrowStatus).
THEOREM EscrowMovesLegallyAlways == Spec => EscrowMovesLegally
<1>1. [Next]_vars => [EscrowStepLegal]_vars
  BY StepLegal
<1> QED
  BY <1>1, PTL DEF Spec, EscrowMovesLegally

-----------------------------------------------------------------------------
(***************************************************************************)
(* CkbSettlement implements Settlement.                                    *)
(*                                                                         *)
(* Seen from Settlement a step of the system is one of four things: it     *)
(* signs a transaction, the network moves one, the agreement is approved,  *)
(* or rows are written while the chain stands still.  Each of them is a    *)
(* step of Settlement, or none, by IndInv and one more fact: an agreement  *)
(* leaves funding_required only after its lock was confirmed.              *)
(***************************************************************************)
FundedWasConfirmed == agreement # "funding_required" => "lock" \in confirmedOnce

\* The values of Settlement's variables.
Signed == {t \in Ops : chain[t] # "unsigned"}
Approved == agreement \in {"approved", "released"}
Outcome == IF agreement = "funded" THEN "none" ELSE ClaimOf(agreement)

-----------------------------------------------------------------------------
(* The kinds of steps                                                      *)

SignStep(t) ==
    /\ t \notin Signed
    /\ t \in Settlements => "lock" \in confirmedOnce
    /\ t = "release" => Approved
    /\ Signed' = Signed \cup {t}
    /\ UNCHANGED <<escrow, agreement, confirmedOnce>>

ConfirmStep(t) ==
    /\ t \in Signed
    /\ confirmedOnce' \in {confirmedOnce, confirmedOnce \cup {t}}
    /\ UNCHANGED <<Signed, escrow, agreement>>

\* What a step that writes rows may do to the agreement.
AgreementKept ==
    \/ agreement' = agreement
    \/ /\ agreement = "funding_required" /\ agreement' = "funded"
       /\ "lock" \in confirmedOnce
AgreementConcluded ==
    /\ escrow' \in TerminalStatuses
    /\ agreement' = escrow'
    /\ agreement = IF escrow' = "released" THEN "approved" ELSE "funded"
RowStep ==
    /\ UNCHANGED <<Signed, confirmedOnce>>
    /\ AgreementKept \/ AgreementConcluded

StepKind ==
    \/ \E t \in Ops : SignStep(t) \/ ConfirmStep(t)
    \/ RowStep
    \/ ApproveAgreement

\* The agreements that the settlement of their escrow concludes.
LEMMA SettledFrom ==
    ASSUME agreement \in SettlementAgreementStatuses, NEW to \in TerminalStatuses
    PROVE  \/ SettledAgreement(agreement, to) = agreement
           \/ /\ SettledAgreement(agreement, to) = to
              /\ agreement = IF to = "released" THEN "approved" ELSE "funded"
BY DEF SettledAgreement, CanTransitionAgreement, AgreementSuccessors, TerminalStatuses,
   SettlementAgreementStatuses

\* Signing and broadcasting signs what was reserved and allowed, or nothing.
LEMMA BroadcastSigns ==
    ASSUME IndInv, NEW r \in Requests, NEW t \in Ops, AtPhase(r, t, "external"),
           SignAndBroadcast(r, t), UNCHANGED <<escrow, agreement, confirmedOnce>>
    PROVE  SignStep(t) \/ RowStep
<1>1. BroadcastOutcome(r, t)
  BY Broadcast DEF IndInv
<1>2. chain[t] = "unsigned" /\ req[r].op = t
  BY DEF IndInv, ReservationInv, SignedOnce, AtPhase
<1>3. CASE UNCHANGED chain
  BY <1>3 DEF RowStep, AgreementKept, Signed
<1>4. ASSUME NEW arrived \in {"pending", "signed"}, chain' = [chain EXCEPT ![t] = arrived]
      PROVE  SignStep(t)
  <2>1. Signed' = Signed \cup {t} /\ t \notin Signed
    BY <1>2, <1>4 DEF Signed, IndInv, TypeOK
  <2>2. /\ t \in Settlements => "lock" \in confirmedOnce
        /\ t = "release" => Approved
    BY <1>2 DEF IndInv, ConfirmationInv, RequestAuthorised, Approved
  <2> QED
    BY <2>1, <2>2 DEF SignStep
<1> QED
  BY <1>1, <1>3, <1>4 DEF BroadcastOutcome

\* Every step of the system is of one of the kinds.
LEMMA StepsHaveKinds == IndInv /\ [Next]_vars => StepKind
<1> SUFFICES ASSUME IndInv, [Next]_vars PROVE StepKind
  OBVIOUS
<1> USE DEF StepKind
<1>0. UNCHANGED <<chain, confirmedOnce, agreement>> => RowStep
  BY DEF RowStep, AgreementKept, Signed
<1>1. CASE UNCHANGED vars
  BY <1>0, <1>1 DEF vars
<1>2. ASSUME NEW r \in Requests, RequestStep(r) PROVE StepKind
  <2>1. CASE CreateEscrowLock(r)
    BY <2>1, BroadcastSigns DEF CreateEscrowLock, dbVars, Ops
  <2>2. ASSUME NEW op \in Settlements, Settle(r, op) PROVE StepKind
    BY <2>2, BroadcastSigns DEF Settle, dbVars, Ops
  <2>3. CASE WriteFunding(r)
    <3>1. UNCHANGED <<chain, confirmedOnce>>
      BY <2>3 DEF WriteFunding, chainVars
    <3>2. agreement' = agreement
          \/ (req[r].result = "funded" /\ agreement' = FundedAgreement(agreement))
      BY <2>3 DEF WriteFunding
    <3>3. AgreementKept
      BY <3>2 DEF AgreementKept, FundedAgreement, IndInv, ConfirmationInv, ConfirmedWas
    <3> QED
      BY <3>1, <3>3 DEF RowStep, Signed
  <2>4. CASE ReserveEscrowCreation(r) \/ FinalizeEscrowCreation(r) \/ DiscardEscrowCreation(r)
    BY <1>0, <2>4 DEF ReserveEscrowCreation, FinalizeEscrowCreation, DiscardEscrowCreation
  <2>5. CASE \/ BeginMarkFunded(r) \/ VerifyFunding(r) \/ ReadForFunding(r)
             \/ RequestCrash(r)
    BY <1>0, <2>5 DEF BeginMarkFunded, VerifyFunding, ReadForFunding, RequestCrash,
       dbVars, chainVars
  <2>6. ASSUME NEW op \in Settlements,
               ReserveEscrowSettlement(r, op) \/ FinalizeSuccessfulSettlement(r, op)
        PROVE  StepKind
    BY <1>0, <2>6 DEF ReserveEscrowSettlement, FinalizeSuccessfulSettlement
  <2>7. ASSUME NEW op \in Settlements,
               FinalizeFailedSettlement(r, op) \/ SettlementStateChanged(r, op)
        PROVE  StepKind
    <3>1. CASE FinalizeFailedSettlement(r, op)
      BY <1>0, <3>1, Zenon DEF FinalizeFailedSettlement
    <3>2. CASE SettlementStateChanged(r, op)
      BY <1>0, <3>2 DEF SettlementStateChanged, dbVars, chainVars
    <3> QED
      BY <2>7, <3>1, <3>2
  <2> QED
    BY <1>2, <2>1, <2>2, <2>3, <2>4, <2>5, <2>6, <2>7 DEF RequestStep
<1>3. ASSUME NEW w \in Workers, WorkerStep(w) PROVE StepKind
  <2>1. CASE ApplyObservation(w)
    <3>1. UNCHANGED <<chain, confirmedOnce>>
      BY <2>1 DEF ApplyObservation
    <3>2. CASE Target(w) = wk[w].seenEscrow
      BY <2>1, <3>1, <3>2 DEF ApplyObservation, RowStep, AgreementKept, Signed
    <3>3. CASE Target(w) # wk[w].seenEscrow /\ Target(w) = "funded"
      <4>1. "lock" \in confirmedOnce
        BY <3>3, TargetConfirmed DEF IndInv, ConfirmationInv, ConfirmedWas
      <4>2. agreement' = FundedAgreement(agreement)
        BY <2>1, <3>3 DEF ApplyObservation, TerminalStatuses
      <4> QED
        BY <3>1, <4>1, <4>2 DEF RowStep, AgreementKept, FundedAgreement, Signed
    <3>4. CASE Target(w) # wk[w].seenEscrow /\ Target(w) \in TerminalStatuses
      <4>1. escrow' = Target(w) /\ agreement' = SettledAgreement(agreement, Target(w))
        BY <2>1, <3>4 DEF ApplyObservation, TerminalStatuses
      <4> QED
        BY <3>1, <3>4, <4>1, SettledFrom DEF RowStep, AgreementKept, AgreementConcluded,
           Signed, IndInv, TypeOK
    <3>5. CASE /\ Target(w) # wk[w].seenEscrow
               /\ Target(w) # "funded" /\ Target(w) \notin TerminalStatuses
      BY <2>1, <3>1, <3>5 DEF ApplyObservation, RowStep, AgreementKept, Signed
    <3> QED
      BY <3>2, <3>3, <3>4, <3>5
  <2> QED
    BY <1>0, <1>3, <2>1 DEF WorkerStep, ClaimJob, ObserveTransaction, ReadRows, ReportJob,
       FailReconciliation, JobDeadline, WorkerCrash, dbVars, chainVars
<1>4. ASSUME NEW t \in Ops, NetworkStep(t) PROVE StepKind
  <2>1. PICK next : ChainStep(t, next) /\ chain[t] # "unsigned" /\ next # "unsigned"
    BY <1>4 DEF NetworkStep, LateDelivery, Commit, Bury, Reject, Reorganise
  <2>2. Signed' = Signed /\ t \in Signed
    BY <2>1 DEF ChainStep, Signed, IndInv, TypeOK
  <2> QED
    BY <2>1, <2>2 DEF ChainStep, ConfirmStep, dbVars
<1>5. ASSUME NEW t \in Ops, ReleaseStaleLock(t) PROVE StepKind
  BY <1>0, <1>5 DEF ReleaseStaleLock
<1>6. CASE Mature
  BY <1>0, <1>6 DEF Mature, dbVars
<1> QED
  BY <1>1, <1>2, <1>3, <1>4, <1>5, <1>6 DEF Next

\* The agreement is funded only by a confirmed lock, whoever reports it.
LEMMA FundedNext ==
    IndInv /\ FundedWasConfirmed /\ StepKind => FundedWasConfirmed'
BY DEF StepKind, SignStep, ConfirmStep, RowStep, AgreementKept, AgreementConcluded,
   ApproveAgreement, FundedWasConfirmed

-----------------------------------------------------------------------------
(* The mapping                                                             *)

\* A status claims a transaction that was confirmed, or none.
LEMMA ClaimWasConfirmed ==
    SettledAfterConfirmation => ClaimOf(escrow) \in confirmedOnce \cup {"none"}
BY DEF SettledAfterConfirmation, ClaimOf

\* A step that writes rows claims, concludes, or changes nothing that shows.
LEMMA RowStepMaps ==
    ASSUME IndInv, IndInv', RowStep
    PROVE  [Promise!Next]_(Promise!vars)
<1>1. ClaimOf(escrow)' \in confirmedOnce \cup {"none"}
  <2>1. (ClaimOf(escrow) \in confirmedOnce \cup {"none"})'
    BY ClaimWasConfirmed DEF IndInv, ConfirmationInv, ClaimOf, SettledAfterConfirmation
  <2> QED
    BY <2>1 DEF RowStep
<1>2. CASE AgreementKept
  <2>1. UNCHANGED <<Approved, Outcome>>
    BY <1>2 DEF AgreementKept, Approved, Outcome, ClaimOf
  <2>2. Promise!Claim(ClaimOf(escrow)')
    BY <1>1, <2>1 DEF RowStep, Promise!Claim, Signed, Approved, Outcome
  <2>3. ClaimOf(escrow)' \in {"none", "lock"} \cup Promise!Payments
    BY DEF ClaimOf, Promise!Payments
  <2> QED
    BY <2>2, <2>3 DEF Promise!Next
<1>3. CASE AgreementConcluded
  <2>1. PICK t \in Promise!Payments : ClaimOf(escrow)' = t /\ Outcome' = t
    BY <1>3 DEF AgreementConcluded, TerminalStatuses, ClaimOf, Outcome, Promise!Payments
  <2>2. UNCHANGED Approved /\ Outcome = "none"
    BY <1>3 DEF AgreementConcluded, Approved, Outcome, ClaimOf, TerminalStatuses
  <2>3. Promise!Conclude(t)
    <3>1. t \in confirmedOnce
      BY <1>1, <2>1 DEF Promise!Payments
    <3> QED
      BY <2>1, <2>2, <3>1 DEF RowStep, Promise!Conclude, Signed, Approved, Outcome
  <2> QED
    BY <2>3 DEF Promise!Next
<1> QED
  BY <1>2, <1>3 DEF RowStep

\* Each kind of step is a step of Settlement or a stutter.
LEMMA StepMaps ==
    IndInv /\ IndInv' /\ FundedWasConfirmed /\ StepKind => [Promise!Next]_(Promise!vars)
<1> SUFFICES ASSUME IndInv, IndInv', FundedWasConfirmed, StepKind
             PROVE  [Promise!Next]_(Promise!vars)
  OBVIOUS
<1>1. ASSUME NEW t \in Ops, SignStep(t) PROVE Promise!Next
  <2>1. Promise!Sign(t)
    BY <1>1 DEF SignStep, Promise!Sign, Promise!Payments, Signed, Approved, Outcome,
       ClaimOf, Settlements
  <2> QED
    BY <2>1 DEF Promise!Next, Ops, Settlements, Promise!Payments
<1>2. ASSUME NEW t \in Ops, ConfirmStep(t) PROVE [Promise!Next]_(Promise!vars)
  <2>1. UNCHANGED <<Signed, Approved, ClaimOf(escrow), Outcome>>
    BY <1>2 DEF ConfirmStep, Approved, ClaimOf, Outcome
  <2>2. CASE confirmedOnce' = confirmedOnce
    BY <2>1, <2>2 DEF Promise!vars, Signed, Approved, Outcome
  <2>3. CASE t \notin confirmedOnce /\ confirmedOnce' = confirmedOnce \cup {t}
    <3>1. Promise!Confirm(t)
      BY <1>2, <2>1, <2>3 DEF ConfirmStep, Promise!Confirm, Signed, Approved, Outcome
    <3> QED
      BY <3>1 DEF Promise!Next, Ops, Settlements, Promise!Payments
  <2> QED
    BY <1>2, <2>2, <2>3 DEF ConfirmStep
<1>3. CASE RowStep
  BY <1>3, RowStepMaps
<1>4. CASE ApproveAgreement
  <2>1. Promise!Approve
    BY <1>4 DEF ApproveAgreement, Promise!Approve, FundedWasConfirmed, ClaimOf
  <2> QED
    BY <2>1 DEF Promise!Next
<1> QED
  BY <1>1, <1>2, <1>3, <1>4 DEF StepKind

\* The system of requests, workers, jobs and chain implements what Settlement
\* promises of one escrow (escrow.service.ts, reconcileCkbTransaction), for any
\* number of each and any faults.
THEOREM KeepsPromiseAlways == Spec => KeepsPromise
<1>1. Init => FundedWasConfirmed
  BY DEF Init, FundedWasConfirmed
<1>2. Init => Promise!Init
  BY DEF Init, Promise!Init, ClaimOf, Ops, Settlements
<1>3. IndInv /\ IndInv' /\ FundedWasConfirmed /\ [Next]_vars
        => FundedWasConfirmed' /\ [Promise!Next]_(Promise!vars)
  BY StepsHaveKinds, FundedNext, StepMaps
<1> QED
  BY <1>1, <1>2, <1>3, IndInvAlways, PTL DEF Spec, KeepsPromise, Promise!Spec

-----------------------------------------------------------------------------
(* What the promise is worth                                               *)

\* Settlement alone gives: whatever was confirmed was signed, money left only a
\* confirmed lock, the worker was paid only with approval, and the agreement
\* names a payment only if that one was confirmed.
Sound ==
    /\ confirmedOnce \subseteq Signed
    /\ Signed \cap Settlements # {} => "lock" \in confirmedOnce
    /\ "release" \in Signed => Approved
    /\ Outcome # "none" => Outcome \in Settlements \cap confirmedOnce

\* An agreement that was concluded stays so, with the same payment.
ConclusionStep == Outcome # "none" => Outcome' = Outcome
ConclusionStands == [][ConclusionStep]_Outcome

\* A step of Settlement keeps both.
LEMMA PromiseStep ==
    ASSUME Sound, [Promise!Next]_(Promise!vars)
    PROVE  Sound' /\ ConclusionStep
<1>1. CASE UNCHANGED Promise!vars
  <2>1. UNCHANGED <<Signed, confirmedOnce, Approved, Outcome>>
    BY <1>1 DEF Promise!vars, Signed, Approved, Outcome
  <2> QED
    BY <2>1 DEF Sound, ConclusionStep
<1>2. ASSUME NEW t, Promise!Sign(t) PROVE Sound' /\ ConclusionStep
  <2>1. /\ Signed' = Signed \cup {t} /\ UNCHANGED <<confirmedOnce, Approved, Outcome>>
        /\ t \in Settlements => "lock" \in confirmedOnce
        /\ t = "release" => Approved
    BY <1>2 DEF Promise!Sign, Promise!Payments, Signed, Approved, Outcome, Settlements
  <2> QED
    BY <2>1 DEF Sound, ConclusionStep
<1>3. ASSUME NEW t, Promise!Confirm(t) PROVE Sound' /\ ConclusionStep
  <2>1. /\ t \in Signed /\ confirmedOnce' = confirmedOnce \cup {t}
        /\ UNCHANGED <<Signed, Approved, Outcome>>
    BY <1>3 DEF Promise!Confirm, Signed, Approved, Outcome
  <2> QED
    BY <2>1 DEF Sound, ConclusionStep
<1>4. ASSUME NEW c, Promise!Claim(c) PROVE Sound' /\ ConclusionStep
  <2>1. UNCHANGED <<Signed, confirmedOnce, Approved, Outcome>>
    BY <1>4 DEF Promise!Claim, Signed, Approved, Outcome
  <2> QED
    BY <2>1 DEF Sound, ConclusionStep
<1>5. ASSUME NEW t, Promise!Conclude(t) PROVE Sound' /\ ConclusionStep
  <2>1. /\ t \in Settlements \cap confirmedOnce /\ Outcome = "none" /\ Outcome' = t
        /\ UNCHANGED <<Signed, confirmedOnce, Approved>>
    BY <1>5 DEF Promise!Conclude, Promise!Payments, Signed, Approved, Outcome, Settlements
  <2> QED
    BY <2>1 DEF Sound, ConclusionStep
<1>6. CASE Promise!Approve
  <2>1. UNCHANGED <<Signed, confirmedOnce, Outcome>> /\ (Approved => Approved')
    BY <1>6 DEF Promise!Approve, Signed, Approved, Outcome
  <2> QED
    BY <2>1 DEF Sound, ConclusionStep
<1> QED
  BY <1>1, <1>2, <1>3, <1>4, <1>5, <1>6 DEF Promise!Next

\* Whatever keeps Settlement's promise signs, confirms and concludes in order,
\* and concludes once; nothing of requests, workers or jobs is used.
THEOREM PromiseIsSound == Promise!Spec => []Sound /\ ConclusionStands
<1>1. Promise!Init => Sound
  BY DEF Promise!Init, Sound, Signed, Approved, Outcome
<1>2. Sound /\ [Promise!Next]_(Promise!vars) => Sound' /\ [ConclusionStep]_Outcome
  BY PromiseStep
<1> QED
  BY <1>1, <1>2, PTL DEF Promise!Spec, ConclusionStands

\* An agreement that was released or refunded keeps that outcome, although the
\* escrow row may fall back behind it and come to claim another payment
\* (transitionAgreementWhenAllEscrowsTerminal has no edge out of either).
THEOREM ConclusionStandsAlways == Spec => ConclusionStands
BY PromiseIsSound, KeepsPromiseAlways, PTL DEF KeepsPromise
=============================================================================
