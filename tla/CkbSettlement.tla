---------------------------- MODULE CkbSettlement ----------------------------
(***************************************************************************)
(* One CKB escrow of a one-milestone agreement, from its creation to its   *)
(* settlement: escrow.service.ts, the CKB adapter behind it, and the       *)
(* reconciliation worker, running against an unreliable chain.             *)
(*                                                                         *)
(* API requests run in three phases (reserve in a database transaction,    *)
(* call the signer and the node outside any transaction, finalize in a     *)
(* second database transaction) and may die between any two of them.       *)
(* Reconciliation workers observe the chain first and write later, so an   *)
(* observation can be stale when it is applied.  PostgreSQL runs at READ   *)
(* COMMITTED: where a transaction reads a row and later writes without a   *)
(* compare-and-swap, the read and the write are separate steps here.       *)
(***************************************************************************)
EXTENDS Lifecycles, Naturals

CONSTANTS
    Requests,   \* concurrent API request handlers
    Workers,    \* concurrent reconciliation runs (worker processes, zombies)
    NoWorker,   \* the lockedBy of a job nobody holds
    Faults,     \* which faults the environment may show
    MaxFaults   \* and how many of them

\* What can go wrong around the code:
\*   signer     the signing provider throws
\*   ambiguity  send_transaction fails although the node may have the tx
\*   reject     the pool drops a transaction for good
\*   reorg      a committed transaction leaves the chain again
\*   nodeloss   the node answers null for a transaction it had known
\*   rpc        a read of the node fails
\*   crash      an API process or a worker dies
\*   lease      a live worker loses its job lease or overruns its deadline
FaultKinds ==
    {"signer", "ambiguity", "reject", "reorg", "nodeloss", "rpc", "crash", "lease"}

ASSUME NoWorkerFresh == NoWorker \notin Workers
ASSUME FaultsKnown == Faults \subseteq FaultKinds
ASSUME MaxFaultsNat == MaxFaults \in Nat

VARIABLES
    escrow,         \* status of the Escrow row, "none" when there is no row
    txrow,          \* Transaction rows by type: status, and is txHash set
    agreement,      \* status of the Agreement row
    job,            \* CKB_RECONCILE_TRANSACTION job of each Transaction row
    req,            \* the API requests in flight
    wk,             \* the reconciliation runs in flight
    chain,          \* the three CKB transactions as the network holds them
    confirmedOnce,  \* history: transactions that once were confirmed
    mature,         \* the chain has passed the block of the refund timeout
    signable,       \* settlements whose authorizer the server's one key is
    faultsLeft      \* faults the environment may still show

dbVars == <<escrow, txrow, agreement, job>>
chainVars == <<chain, confirmedOnce, mature, signable>>
vars ==
    <<escrow, txrow, agreement, job, req, wk, chain, confirmedOnce, mature, signable,
      faultsLeft>>

-----------------------------------------------------------------------------
(* Types                                                                   *)

Settlements == {"release", "refund"}
Ops == {"lock"} \cup Settlements

EscrowValues == EscrowStatuses \cup {"none"}

\* Transaction.status as the services write it; "none" when there is no row.
TxStatuses ==
    {"none", "pending", "broadcast", "committed", "confirmed", "rejected",
     "reorged", "reconciliation_required", "failed"}

\* A transaction on the network: "signed" is signed but not in the pool,
\* "deep" is buried below the reorg monitoring depth.
ChainStates ==
    {"unsigned", "signed", "pending", "committed", "confirmed", "deep",
     "rejected"}
OnChain == {"committed", "confirmed", "deep"}
Confirmed == {"confirmed", "deep"}

\* What observeTransaction can report; "deep" is a confirmed observation with
\* ckbConfirmations + 20 confirmations or more.
Observations ==
    {"unknown", "pending", "committed", "confirmed", "deep", "rejected"}

\* Agreement statuses that matter to settlement.  "funded" stands for the work
\* and its review too, up to the approval.
SettlementAgreementStatuses ==
    {"funding_required", "funded", "approved", "released", "refunded"}

AdapterResults == {"ok", "ambiguous", "error", "funding_detected", "funded"}

RequestStates ==
    [op: Ops \cup {"fund", "none"},
     pc: {"idle", "external", "finalize", "commit"},
     result: AdapterResults \cup {"none"},
     seen: EscrowValues]

IdleWorker ==
    [tx |-> "none", pc |-> "idle", obs |-> "none", seenEscrow |-> "none",
     seenTx |-> "none"]
WorkerStates ==
    {IdleWorker} \cup
    [tx: Ops,
     pc: {"claimed", "observed", "read", "report"},
     obs: Observations \cup {"none"},
     seenEscrow: EscrowValues,
     seenTx: TxStatuses]

JobStatuses == {"none", "ready", "running", "completed", "dead"}
Jobs == [st: JobStatuses, owner: Workers \cup {NoWorker}]

IdleRequest == [op |-> "none", pc |-> "idle", result |-> "none", seen |-> "none"]
NoRow == [status |-> "none", hash |-> FALSE]
ReservedRow == [status |-> "pending", hash |-> FALSE]
NoJob == [st |-> "none", owner |-> NoWorker]
ReadyJob == [st |-> "ready", owner |-> NoWorker]

\* Every row, request record, worker run and chain state is well formed.
TypeOK ==
    /\ escrow \in EscrowValues
    /\ txrow \in [Ops -> [status: TxStatuses, hash: BOOLEAN]]
    /\ agreement \in SettlementAgreementStatuses
    /\ job \in [Ops -> Jobs]
    /\ req \in [Requests -> RequestStates]
    /\ wk \in [Workers -> WorkerStates]
    /\ chain \in [Ops -> ChainStates]
    /\ confirmedOnce \in SUBSET Ops
    /\ mature \in BOOLEAN
    /\ signable \in SUBSET Settlements
    /\ faultsLeft \in Nat

Init ==
    /\ escrow = "none"
    /\ txrow = [t \in Ops |-> NoRow]
    /\ agreement = "funding_required"
    /\ job = [t \in Ops |-> NoJob]
    /\ req = [r \in Requests |-> IdleRequest]
    /\ wk = [w \in Workers |-> IdleWorker]
    /\ chain = [t \in Ops |-> "unsigned"]
    /\ confirmedOnce = {}
    /\ mature = FALSE
    /\ signable \in SUBSET Settlements
    /\ faultsLeft = MaxFaults

-----------------------------------------------------------------------------
(* Helpers                                                                 *)

\* The environment shows a fault, or it does not.
Fault(kind) ==
    /\ kind \in Faults
    /\ faultsLeft > 0
    /\ faultsLeft' = faultsLeft - 1
NoFault == UNCHANGED faultsLeft

\* escrow.service.ts settlementPendingStatus and settlementTerminalStatus.
PendingStatus(op) == IF op = "release" THEN "release_pending" ELSE "refund_pending"
TerminalStatus(op) == IF op = "release" THEN "released" ELSE "refunded"
Other(op) == IF op = "release" THEN "refund" ELSE "release"

\* transitionFundingScope: the parent agreement of a newly funded escrow.
FundedAgreement(a) == IF a = "funding_required" THEN "funded" ELSE a

\* transitionAgreementWhenAllEscrowsTerminal for the agreement's only escrow:
\* approved passes through release_pending, other statuses go straight to the
\* target where the table allows it, and anything else is silently left alone.
SettledAgreement(a, to) ==
    IF \/ to = "released" /\ CanTransitionAgreement(a, "release_pending")
       \/ CanTransitionAgreement(a, to)
    THEN to
    ELSE a

\* A seeded fault: one dedupe key per escrow instead of one per transaction.
EnqueueOncePerEscrow(t) ==
    job' = IF \E u \in Ops : job[u].st \in {"ready", "running"}
           THEN job
           ELSE [job EXCEPT ![t] = ReadyJob]

\* enqueueCkbReconciliation: an active job with the same dedupe key is kept.
EnqueueReconciliation(t) ==
    job' = [job EXCEPT ![t] = IF @.st \in {"ready", "running"} THEN @ ELSE ReadyJob]

\* The request record moves on; nothing else of it changes.
Advance(r, pc, result) ==
    req' = [req EXCEPT ![r] =
               [op |-> @.op, pc |-> pc, result |-> result, seen |-> @.seen]]
Finish(r) == req' = [req EXCEPT ![r] = IdleRequest]
Begin(r, op) ==
    /\ req[r] = IdleRequest
    /\ req' = [req EXCEPT ![r] =
                  [op |-> op, pc |-> "external", result |-> "none", seen |-> "none"]]
AtPhase(r, op, pc) == req[r].op = op /\ req[r].pc = pc

\* External: the pool admits a settlement only while its input, the escrow
\* cell, exists and no other pool or chain transaction spends it.  The input of
\* a refund carries the timeout as its since (createSettlementIntent), which the
\* chain must have passed; when client and worker have one lock, so that one key
\* is the authorizer of both, the escrow lock accepts neither settlement
\* (EscrowLock.RefundReachable).
Admissible(t) ==
    \/ t = "lock"
    \/ /\ chain["lock"] \in OnChain
       /\ chain[Other(t)] \notin OnChain \cup {"pending"}
       /\ t = "refund" => mature
       /\ signable # Settlements

\* ckb-escrow.adapter.ts createEscrowLock and settle: sign, then broadcast.
\* signSettlement throws unless the server's key is the authorizer, the client's
\* for a release and the worker's for a refund; this error and any other of the
\* signer leave nothing outside the process.  A broadcast error is reported as
\* an ambiguous result with the signed hash, whether the node refused the
\* transaction, lost it, or took it and lost the answer.
Signable(t) == t = "lock" \/ t \in signable
SignAndBroadcast(r, t) ==
    \/ /\ Signable(t) /\ Admissible(t)
       /\ Advance(r, "finalize", "ok")
       /\ chain' = [chain EXCEPT ![t] = "pending"]
       /\ NoFault
    \/ /\ Signable(t) /\ ~Admissible(t)
       /\ Advance(r, "finalize", "ambiguous")
       /\ chain' = [chain EXCEPT ![t] = "signed"]
       /\ NoFault
    \/ /\ Signable(t) /\ Fault("ambiguity")
       /\ Advance(r, "finalize", "ambiguous")
       /\ \E arrived \in {"signed"} \cup (IF Admissible(t) THEN {"pending"} ELSE {}) :
             chain' = [chain EXCEPT ![t] = arrived]
    \/ /\ IF Signable(t) THEN Fault("signer") ELSE NoFault
       /\ Advance(r, "finalize", "error")
       /\ UNCHANGED chain

-----------------------------------------------------------------------------
(* createEscrowForApp                                                      *)

\* reserveEscrowCreation: the scope has no escrow, so insert one as
\* not_created together with its lock transaction row.
ReserveEscrowCreation(r) ==
    /\ escrow = "none"
    /\ Begin(r, "lock")
    /\ escrow' = "not_created"
    /\ txrow' = [txrow EXCEPT !["lock"] = ReservedRow]
    /\ UNCHANGED <<agreement, job, wk, chain, confirmedOnce, mature, signable>>
    /\ NoFault

CreateEscrowLock(r) ==
    /\ AtPhase(r, "lock", "external")
    /\ SignAndBroadcast(r, "lock")
    /\ UNCHANGED <<dbVars, wk, confirmedOnce, mature, signable>>

\* finalizeEscrowCreation: compare-and-swap from not_created, persist the hash
\* and queue the reconciliation job in the same database transaction.
FinalizeEscrowCreation(r) ==
    /\ AtPhase(r, "lock", "finalize")
    /\ req[r].result \in {"ok", "ambiguous"}
    /\ escrow = "not_created"
    /\ escrow' = IF req[r].result = "ok" THEN "awaiting_funding"
                                         ELSE "reconciliation_required"
    /\ txrow' = [txrow EXCEPT !["lock"] =
                    [status |-> IF req[r].result = "ok" THEN "broadcast"
                                ELSE "reconciliation_required",
                     hash |-> TRUE]]
    /\ EnqueueReconciliation("lock")
    /\ Finish(r)
    /\ UNCHANGED <<agreement, wk, chain, confirmedOnce, mature, signable>>
    /\ NoFault

\* A seeded fault: the rows are also thrown away when the broadcast outcome is
\* ambiguous, as if a failed send meant that nothing was sent.
DiscardOnAnyFailure(r) ==
    /\ AtPhase(r, "lock", "finalize")
    /\ req[r].result \in {"error", "ambiguous"}
    /\ escrow' = "none"
    /\ txrow' = [txrow EXCEPT !["lock"] = NoRow]
    /\ Finish(r)
    /\ UNCHANGED <<agreement, job, wk, chain, confirmedOnce, mature, signable>>
    /\ NoFault

\* discardEscrowCreation: the adapter threw, nothing was signed; delete the
\* transaction row and the escrow row if it is still not_created.
DiscardEscrowCreation(r) ==
    /\ AtPhase(r, "lock", "finalize")
    /\ req[r].result = "error"
    /\ escrow' = IF escrow = "not_created" THEN "none" ELSE escrow
    /\ txrow' = [txrow EXCEPT !["lock"] = NoRow]
    /\ Finish(r)
    /\ UNCHANGED <<agreement, job, wk, chain, confirmedOnce, mature, signable>>
    /\ NoFault

-----------------------------------------------------------------------------
(* markEscrowFunded                                                        *)

\* The reserving transaction: not_created is refused, funded answers at once.
BeginMarkFunded(r) ==
    /\ escrow \notin {"none", "not_created", "funded"}
    /\ Begin(r, "fund")
    /\ UNCHANGED <<dbVars, wk, chainVars>>
    /\ NoFault

\* checkFundingStatus: the node must know the lock transaction; confirmed
\* means funded and every other answer means funding_detected, a transaction
\* that is still in the pool included.
VerifyFunding(r) ==
    /\ AtPhase(r, "fund", "external")
    /\ \/ /\ chain["lock"] \in OnChain \cup {"pending"}
          /\ Advance(r, "finalize",
                     IF chain["lock"] \in Confirmed THEN "funded"
                                                    ELSE "funding_detected")
          /\ NoFault
       \/ /\ chain["lock"] \in {"signed", "rejected"}
          /\ Finish(r)
          /\ NoFault
       \/ /\ Fault("rpc")
          /\ Finish(r)
    /\ UNCHANGED <<dbVars, wk, chainVars>>

\* finalizeEscrowFunding reads the escrow; a funded one needs nothing more.
ReadForFunding(r) ==
    /\ AtPhase(r, "fund", "finalize")
    /\ IF escrow = "funded"
       THEN Finish(r)
       ELSE req' = [req EXCEPT ![r] =
                       [op |-> @.op, pc |-> "commit", result |-> @.result, seen |-> escrow]]
    /\ UNCHANGED <<dbVars, wk, chainVars>>
    /\ NoFault

\* finalizeEscrowFunding writes: compare-and-swap from the status it read (no
\* write of the escrow at all when the status stays the same), then the lock
\* row unconditionally, then the agreement.
WriteFunding(r) ==
    /\ AtPhase(r, "fund", "commit")
    /\ LET from == req[r].seen
           to == req[r].result
           swapped == CanTransitionEscrow(from, to) /\ escrow = from
       IN IF from = to \/ swapped
          THEN /\ escrow' = IF from = to THEN escrow ELSE to
               /\ txrow' = [txrow EXCEPT !["lock"] =
                     [status |-> IF to = "funded" THEN "confirmed" ELSE "committed",
                      hash |-> TRUE]]
               /\ agreement' = IF to = "funded" THEN FundedAgreement(agreement)
                                                ELSE agreement
          ELSE UNCHANGED <<escrow, txrow, agreement>>
    /\ Finish(r)
    /\ UNCHANGED <<job, wk, chainVars>>
    /\ NoFault

-----------------------------------------------------------------------------
(* releaseEscrow and refundEscrow                                          *)

\* A seeded fault: release checks the escrow and forgets the approval.
SettlementAllowedWithoutApproval(op) == escrow = "funded"

\* assertReleaseAllowed and assertRefundAllowed.  A dispute resolved for the
\* worker has moved the agreement to approved, so approval is the only way in.
SettlementAllowed(op) ==
    /\ escrow = "funded"
    /\ IF op = "release" THEN agreement = "approved"
                         ELSE agreement # "released"

\* A seeded fault: no unique operationId, a settlement may be reserved again.
ReserveSettlementAgain(r, op) ==
    /\ SettlementAllowed(op)
    /\ Begin(r, op)
    /\ escrow' = PendingStatus(op)
    /\ txrow' = [txrow EXCEPT ![op] = ReservedRow]
    /\ UNCHANGED <<agreement, job, wk, chain, confirmedOnce, mature, signable>>
    /\ NoFault

\* reserveEscrowSettlement: compare-and-swap funded to the pending status and
\* insert the transaction row, whose operationId is unique for the escrow.
ReserveEscrowSettlement(r, op) ==
    /\ SettlementAllowed(op)
    /\ txrow[op] = NoRow
    /\ Begin(r, op)
    /\ escrow' = PendingStatus(op)
    /\ txrow' = [txrow EXCEPT ![op] = ReservedRow]
    /\ UNCHANGED <<agreement, job, wk, chain, confirmedOnce, mature, signable>>
    /\ NoFault

Settle(r, op) ==
    /\ AtPhase(r, op, "external")
    /\ SignAndBroadcast(r, op)
    /\ UNCHANGED <<dbVars, wk, confirmedOnce, mature, signable>>

\* A seeded fault: a broadcast settlement counts as settled at once, the way
\* the mock rail is finalized.
FinalizeWithoutConfirmation(r, op) ==
    /\ AtPhase(r, op, "finalize")
    /\ req[r].result = "ok"
    /\ escrow = PendingStatus(op)
    /\ escrow' = TerminalStatus(op)
    /\ txrow' = [txrow EXCEPT ![op] = [status |-> "confirmed", hash |-> TRUE]]
    /\ agreement' = SettledAgreement(agreement, TerminalStatus(op))
    /\ EnqueueReconciliation(op)
    /\ Finish(r)
    /\ UNCHANGED <<wk, chain, confirmedOnce, mature, signable>>
    /\ NoFault

\* finalizeSuccessfulEscrowSettlement: the escrow must still be pending; the
\* hash is persisted and the reconciliation job queued.
FinalizeSuccessfulSettlement(r, op) ==
    /\ AtPhase(r, op, "finalize")
    /\ req[r].result \in {"ok", "ambiguous"}
    /\ escrow = PendingStatus(op)
    /\ escrow' = IF req[r].result = "ok" THEN PendingStatus(op)
                                         ELSE "reconciliation_required"
    /\ txrow' = [txrow EXCEPT ![op] =
                    [status |-> IF req[r].result = "ok" THEN "broadcast"
                                ELSE "reconciliation_required",
                     hash |-> TRUE]]
    /\ EnqueueReconciliation(op)
    /\ Finish(r)
    /\ UNCHANGED <<agreement, wk, chain, confirmedOnce, mature, signable>>
    /\ NoFault

\* finalizeFailedEscrowSettlement: the signer threw.
FinalizeFailedSettlement(r, op) ==
    /\ AtPhase(r, op, "finalize")
    /\ req[r].result = "error"
    /\ escrow = PendingStatus(op)
    /\ escrow' = "failed"
    /\ txrow' = [txrow EXCEPT ![op].status = "failed"]
    /\ Finish(r)
    /\ UNCHANGED <<agreement, job, wk, chain, confirmedOnce, mature, signable>>
    /\ NoFault

\* Both finalizations refuse with a 409 when the escrow has left its pending
\* status in the meantime; the reservation, without its hash, stays behind.
SettlementStateChanged(r, op) ==
    /\ AtPhase(r, op, "finalize")
    /\ escrow # PendingStatus(op)
    /\ Finish(r)
    /\ UNCHANGED <<dbVars, wk, chainVars>>
    /\ NoFault

\* The API process dies, or both finalization attempts fail: what the request
\* reserved is all that remains of it.
RequestCrash(r) ==
    /\ Fault("crash")
    /\ req[r] # IdleRequest
    /\ Finish(r)
    /\ UNCHANGED <<dbVars, wk, chainVars>>

\* The proof, review and dispute services approve the work meanwhile; for
\* settlement everything between funding and approval is one status.
ApproveAgreement ==
    /\ agreement = "funded"
    /\ agreement' = "approved"
    /\ UNCHANGED <<escrow, txrow, job, req, wk, chain, confirmedOnce, mature, signable>>
    /\ NoFault

-----------------------------------------------------------------------------
(* The reconciliation worker                                               *)

\* claimAvailableJobs: one worker takes the job and its lease.
ClaimJob(w, t) ==
    /\ wk[w] = IdleWorker
    /\ job[t].st = "ready"
    /\ job' = [job EXCEPT ![t] = [st |-> "running", owner |-> w]]
    /\ wk' = [wk EXCEPT ![w] = [tx |-> t, pc |-> "claimed", obs |-> "none",
                                seenEscrow |-> "none", seenTx |-> "none"]]
    /\ UNCHANGED <<escrow, txrow, agreement, req, chain, confirmedOnce, mature, signable>>
    /\ NoFault

\* observeTransaction: what the code makes of the node's answer.  A node that
\* does not know the transaction answers null, which is "unknown", or a
\* tx_status of unknown, which falls through to "pending".
NotKnown == {"unknown", "pending"}
Observed(t) ==
    IF chain[t] \in {"unsigned", "signed"} THEN NotKnown ELSE {chain[t]}

Observe(w, obs) ==
    wk' = [wk EXCEPT ![w] = [tx |-> @.tx, pc |-> "observed", obs |-> obs,
                             seenEscrow |-> "none", seenTx |-> "none"]]

\* reconcileCkbTransaction up to its database transaction: the snapshot must
\* carry a hash; the output checks add nothing for a genuine transaction.
ObserveTransaction(w) ==
    /\ wk[w].pc = "claimed"
    /\ txrow[wk[w].tx].hash
    /\ \/ (\E obs \in Observed(wk[w].tx) : Observe(w, obs)) /\ NoFault
       \/ (\E obs \in NotKnown : Observe(w, obs)) /\ Fault("nodeloss")
    /\ UNCHANGED <<dbVars, req, chainVars>>

\* The database transaction reads the current transaction and escrow rows.
ReadRows(w) ==
    /\ wk[w].pc = "observed"
    /\ wk' = [wk EXCEPT ![w] =
                 [tx |-> @.tx, pc |-> "read", obs |-> @.obs, seenEscrow |-> escrow,
                  seenTx |-> txrow[@.tx].status]]
    /\ UNCHANGED <<dbVars, req, chainVars>>
    /\ NoFault

\* A prior confirmation has disappeared.
IsReorg(seenTx, seenEscrow, obs) ==
    /\ seenTx \in {"confirmed", "reorged"} \/ seenEscrow \in TerminalStatuses
    /\ obs \notin OnChain

\* A seeded fault: a settlement observed in a block counts as confirmed.
EagerEscrowStatus(t, from, obs, reorg) ==
    CASE reorg \/ obs = "unknown" -> "reconciliation_required"
      [] obs = "rejected" -> "failed"
      [] t \in Settlements /\ obs \in OnChain -> TerminalStatus(t)
      [] t = "lock" /\ obs \in OnChain -> "funded"
      [] OTHER -> from

\* reconciliationEscrowStatus.
ReconciliationEscrowStatus(t, from, obs, reorg) ==
    CASE reorg \/ obs = "unknown" -> "reconciliation_required"
      [] ~reorg /\ obs = "rejected" -> "failed"
      [] ~reorg /\ t = "lock" /\ obs \in Confirmed -> "funded"
      [] ~reorg /\ t = "lock" /\ obs = "committed" -> "funding_detected"
      [] ~reorg /\ t = "lock" /\ obs = "pending" ->
            IF from = "reconciliation_required" THEN "awaiting_funding" ELSE from
      [] ~reorg /\ t \in Settlements /\ obs \in Confirmed -> TerminalStatus(t)
      [] OTHER ->
            IF from = "reconciliation_required" THEN PendingStatus(t) ELSE from

\* A seeded fault: the observation is stored as it came from the node.
RawTxStatus(obs, reorg) == IF reorg THEN "reorged" ELSE obs

\* The status the Transaction row gets.
ReconciledTxStatus(obs, reorg) ==
    CASE reorg -> "reorged"
      [] ~reorg /\ obs = "unknown" -> "reconciliation_required"
      [] ~reorg /\ obs = "deep" -> "confirmed"
      [] OTHER -> obs

\* What the run is about to write, from what it has read.
Reorg(w) == IsReorg(wk[w].seenTx, wk[w].seenEscrow, wk[w].obs)
Target(w) ==
    ReconciliationEscrowStatus(wk[w].tx, wk[w].seenEscrow, wk[w].obs, Reorg(w))

\* A seeded fault: the new status is written whatever became of the escrow
\* since it was read.
ApplicableWithoutSwap(w) ==
    \/ Target(w) = wk[w].seenEscrow
    \/ CanTransitionEscrow(wk[w].seenEscrow, Target(w))

\* The write goes through: nothing to change, or a legal transition that wins
\* its compare-and-swap.
Applicable(w) ==
    \/ Target(w) = wk[w].seenEscrow
    \/ CanTransitionEscrow(wk[w].seenEscrow, Target(w)) /\ escrow = wk[w].seenEscrow

\* The rest of the database transaction: compare-and-swap of the escrow when
\* its status changes, the Transaction row without any guard, and the scope
\* transitions of a newly funded or newly settled escrow.
ApplyObservation(w) ==
    /\ wk[w].pc = "read"
    /\ Applicable(w)
    /\ LET from == wk[w].seenEscrow
           to == Target(w)
       IN /\ escrow' = IF to = from THEN escrow ELSE to
          /\ agreement' = CASE to # from /\ to = "funded" -> FundedAgreement(agreement)
                            [] to # from /\ to \in TerminalStatuses ->
                                  SettledAgreement(agreement, to)
                            [] OTHER -> agreement
    /\ txrow' = [txrow EXCEPT ![wk[w].tx].status =
                    ReconciledTxStatus(wk[w].obs, Reorg(w))]
    /\ wk' = [wk EXCEPT ![w] = [tx |-> @.tx, pc |-> "report", obs |-> @.obs,
                                seenEscrow |-> "none", seenTx |-> "none"]]
    /\ UNCHANGED <<job, req, chain, confirmedOnce, mature, signable>>
    /\ NoFault

\* A seeded fault: monitoring ends at the first confirmed observation.
ReportJobEarly(w) ==
    /\ wk[w].pc = "report"
    /\ LET t == wk[w].tx
           complete == wk[w].obs \in {"rejected", "confirmed", "deep"}
       IN job' = IF job[t] = [st |-> "running", owner |-> w]
                 THEN [job EXCEPT ![t] = [st |-> IF complete THEN "completed"
                                                 ELSE "ready",
                                          owner |-> NoWorker]]
                 ELSE job
    /\ wk' = [wk EXCEPT ![w] = IdleWorker]
    /\ UNCHANGED <<escrow, txrow, agreement, req, chain, confirmedOnce, mature, signable>>
    /\ NoFault

\* completeJob and deferJob need the lease; a worker that lost it changes no
\* job row.
ReportJob(w) ==
    /\ wk[w].pc = "report"
    /\ LET t == wk[w].tx
           complete == wk[w].obs \in {"rejected", "deep"}
       IN job' = IF job[t] = [st |-> "running", owner |-> w]
                 THEN [job EXCEPT ![t] = [st |-> IF complete THEN "completed"
                                                 ELSE "ready",
                                          owner |-> NoWorker]]
                 ELSE job
    /\ wk' = [wk EXCEPT ![w] = IdleWorker]
    /\ UNCHANGED <<escrow, txrow, agreement, req, chain, confirmedOnce, mature, signable>>
    /\ NoFault

\* The run throws: a snapshot without a hash, an RPC error, a transition the
\* table forbids, or a lost compare-and-swap.  failJob returns the job to the
\* queue or dead-letters it, again only for the lease holder.
FailReconciliation(w) ==
    /\ \/ wk[w].pc = "claimed" /\ ~txrow[wk[w].tx].hash /\ NoFault
       \/ wk[w].pc = "claimed" /\ Fault("rpc")
       \/ wk[w].pc = "read" /\ ~Applicable(w) /\ NoFault
    /\ LET t == wk[w].tx
       IN IF job[t] = [st |-> "running", owner |-> w]
          THEN \E st \in {"ready", "dead"} :
                  job' = [job EXCEPT ![t] = [st |-> st, owner |-> NoWorker]]
          ELSE UNCHANGED job
    /\ wk' = [wk EXCEPT ![w] = IdleWorker]
    /\ UNCHANGED <<escrow, txrow, agreement, req, chain, confirmedOnce, mature, signable>>

\* runWithJobDeadline gives up on the run and failJob reports it, while the
\* reconciliation itself, which nothing can interrupt, goes on.
JobDeadline(w) ==
    /\ Fault("lease")
    /\ wk[w].pc \in {"claimed", "observed", "read"}
    /\ job[wk[w].tx] = [st |-> "running", owner |-> w]
    /\ \E st \in {"ready", "dead"} :
          job' = [job EXCEPT ![wk[w].tx] = [st |-> st, owner |-> NoWorker]]
    /\ UNCHANGED <<escrow, txrow, agreement, req, wk, chain, confirmedOnce, mature, signable>>

\* The worker process dies in the middle of a run.
WorkerCrash(w) ==
    /\ Fault("crash")
    /\ wk[w] # IdleWorker
    /\ wk' = [wk EXCEPT ![w] = IdleWorker]
    /\ UNCHANGED <<dbVars, req, chainVars>>

\* releaseStaleLocks: the lease of a dead worker, or of one that is merely
\* slow, has run out.
ReleaseStaleLock(t) ==
    /\ job[t].st = "running"
    /\ \/ wk[job[t].owner].tx # t /\ NoFault
       \/ wk[job[t].owner].tx = t /\ Fault("lease")
    /\ job' = [job EXCEPT ![t] = ReadyJob]
    /\ UNCHANGED <<escrow, txrow, agreement, req, wk, chain, confirmedOnce, mature, signable>>

-----------------------------------------------------------------------------
(* The CKB network (external)                                              *)

ChainStep(t, next) ==
    /\ chain' = [chain EXCEPT ![t] = next]
    /\ confirmedOnce' = IF next = "confirmed" THEN confirmedOnce \cup {t}
                                              ELSE confirmedOnce
    /\ UNCHANGED <<dbVars, req, wk, mature, signable>>

\* A signed transaction whose submission timed out reaches the pool late.
LateDelivery(t) ==
    /\ "ambiguity" \in Faults
    /\ chain[t] = "signed" /\ Admissible(t)
    /\ ChainStep(t, "pending")
    /\ NoFault

\* A block takes a pool transaction; a settlement needs the escrow cell.
Commit(t) ==
    /\ chain[t] = "pending"
    /\ t \in Settlements => chain["lock"] \in OnChain /\ chain[Other(t)] \notin OnChain
    /\ ChainStep(t, "committed")
    /\ NoFault

\* Blocks bury it; a settlement is never deeper than the cell it spends.
Bury(t) ==
    \/ /\ chain[t] = "committed"
       /\ t \in Settlements => chain["lock"] \in Confirmed
       /\ ChainStep(t, "confirmed")
       /\ NoFault
    \/ /\ chain[t] = "confirmed"
       /\ t \in Settlements => chain["lock"] = "deep"
       /\ ChainStep(t, "deep")
       /\ NoFault

\* The pool drops it for good.
Reject(t) ==
    /\ chain[t] = "pending"
    /\ ChainStep(t, "rejected")
    /\ Fault("reject")

\* A reorganisation above the monitoring depth puts it back into the pool.
Reorganise(t) ==
    /\ Fault("reorg")
    /\ chain[t] \in {"committed", "confirmed"}
    /\ t = "lock" => \A s \in Settlements : chain[s] \notin OnChain
    /\ ChainStep(t, "pending")

\* The chain reaches the block from which the refund's since is satisfied.
Mature ==
    /\ ~mature
    /\ mature' = TRUE
    /\ UNCHANGED <<dbVars, req, wk, chain, confirmedOnce, signable>>
    /\ NoFault

-----------------------------------------------------------------------------
RequestStep(r) ==
    \/ ReserveEscrowCreation(r)
    \/ CreateEscrowLock(r)
    \/ FinalizeEscrowCreation(r)
    \/ DiscardEscrowCreation(r)
    \/ BeginMarkFunded(r)
    \/ VerifyFunding(r)
    \/ ReadForFunding(r)
    \/ WriteFunding(r)
    \/ RequestCrash(r)
    \/ \E op \in Settlements :
          \/ ReserveEscrowSettlement(r, op)
          \/ Settle(r, op)
          \/ FinalizeSuccessfulSettlement(r, op)
          \/ FinalizeFailedSettlement(r, op)
          \/ SettlementStateChanged(r, op)

WorkerStep(w) ==
    \/ \E t \in Ops : ClaimJob(w, t)
    \/ ObserveTransaction(w)
    \/ ReadRows(w)
    \/ ApplyObservation(w)
    \/ ReportJob(w)
    \/ FailReconciliation(w)
    \/ JobDeadline(w)
    \/ WorkerCrash(w)

NetworkStep(t) ==
    \/ LateDelivery(t)
    \/ Commit(t)
    \/ Bury(t)
    \/ Reject(t)
    \/ Reorganise(t)

Next ==
    \/ \E r \in Requests : RequestStep(r)
    \/ \E w \in Workers : WorkerStep(w)
    \/ \E t \in Ops : ReleaseStaleLock(t) \/ NetworkStep(t)
    \/ ApproveAgreement
    \/ Mature

Spec == Init /\ [][Next]_vars

-----------------------------------------------------------------------------
(* Safety, for every set of faults                                         *)

\* Nothing leaves the process without a durable trace: whatever was signed
\* for this escrow has its Transaction row, whichever process died in between
\* and however the broadcast ended (reserveEscrowCreation,
\* reserveEscrowSettlement, discardEscrowCreation).
SignedIsReserved ==
    \A t \in Ops : chain[t] # "unsigned" => txrow[t].status # "none"

\* Database state is never ahead of the chain: funded, released and refunded,
\* on the escrow or on its agreement, are only written after the transaction
\* in question was confirmed, even when observations are applied late or by a
\* worker that lost its lease (reconcileCkbTransaction, finalizeEscrowFunding).
SettledAfterConfirmation ==
    /\ escrow = "funded" => "lock" \in confirmedOnce
    /\ "released" \in {escrow, agreement} => "release" \in confirmedOnce
    /\ "refunded" \in {escrow, agreement} => "refund" \in confirmedOnce

\* Money moves only from a funded escrow, and to the worker only after
\* approval (assertReleaseAllowed, assertRefundAllowed).
SettlementAuthorised ==
    /\ \A s \in Settlements : chain[s] # "unsigned" => "lock" \in confirmedOnce
    /\ chain["release"] # "unsigned" => agreement \in {"approved", "released"}

\* No transaction is signed twice, and no two requests ever hold the same
\* reservation, although failed and reconciliation_required escrows return to
\* funded (unique operationId, compare-and-swap of the escrow status).
SignedOnce ==
    \A r \in Requests :
        req[r].op \in Ops =>
            /\ req[r].pc = "external" => chain[req[r].op] = "unsigned"
            /\ \A q \in Requests \ {r} : req[q].op # req[r].op

\* A transaction whose hash was persisted is watched by a job until its fate
\* is final; only an exhausted retry budget ends the watch earlier
\* (enqueueCkbReconciliation, completeJob, reorgMonitoringDepth).
MonitoredUntilFinal ==
    \A t \in Ops :
        /\ txrow[t].hash => job[t].st # "none"
        /\ job[t].st = "completed" => chain[t] \in {"deep", "rejected"}

\* Requests and workers that raced each other never move the escrow along an
\* edge its table does not have (assertEscrowTransition, transitionEscrowStatus,
\* assertLifecycleCompareAndSwap); a row only appears as a reservation and only
\* disappears as one.
EscrowStepLegal ==
    \/ escrow' = escrow
    \/ CanTransitionEscrow(escrow, escrow')
    \/ {escrow, escrow'} = {"none", "not_created"}
EscrowMovesLegally == [][EscrowStepLegal]_vars

-----------------------------------------------------------------------------
(* What settlement promises                                                *)

\* The confirmation a status of the escrow or the agreement speaks of.
ClaimOf(status) ==
    CASE status = "funded" -> "lock"
      [] status = "released" -> "release"
      [] status = "refunded" -> "refund"
      [] OTHER -> "none"

Promise == INSTANCE Settlement WITH
    signed <- {t \in Ops : chain[t] # "unsigned"},
    confirmed <- confirmedOnce,
    approved <- agreement \in {"approved", "released"},
    claim <- ClaimOf(escrow),
    outcome <- IF agreement = "funded" THEN "none" ELSE ClaimOf(agreement)

\* Whatever requests and workers do in whichever order and with whichever
\* faults, the escrow behaves as Settlement says: a payment is signed only while
\* it is allowed, the rows claim only confirmed payments, and the agreement is
\* concluded once, in the step that records its escrow (escrow.service.ts,
\* reconcileCkbTransaction).
KeepsPromise == Promise!Spec

-----------------------------------------------------------------------------
(* What the documentation says and the code does not do                    *)

\* A payment whose fate is open is never followed by another: no settlement is
\* reserved while the opposite one is in the pool or on the chain.
OneLivePayment ==
    \A op \in Settlements :
        escrow = PendingStatus(op) => chain[Other(op)] \notin OnChain \cup {"pending"}

\* A released escrow whose payment is final leaves "released" for
\* reconciliation_required at most.
FinalPaymentStaysSettled ==
    chain["release"] = "deep" /\ agreement = "released"
        => escrow \in {"released", "reconciliation_required"}

\* A transaction the node does not have is recorded as such, not as pending.
UnknownIsRecorded ==
    \A t \in Ops : txrow[t].hash /\ chain[t] = "signed" => txrow[t].status # "pending"

\* Watching a healthy transaction never counts as a job failure: a run that
\* found its transaction in a block below the final depth, and for which
\* neither the escrow nor the chain moved since, has something legal to write.
HealthyRunApplies ==
    \A w \in Workers :
        /\ wk[w].pc = "read"
        /\ wk[w].obs \in {"committed", "confirmed"}
        /\ wk[w].obs \in Observed(wk[w].tx)
        /\ escrow = wk[w].seenEscrow
        => Applicable(w)

-----------------------------------------------------------------------------
(* Liveness, with a reliable environment                                   *)

\* Claims go by availableAt, so a queued job is not passed over forever;
\* everything a claimed run or a started request does next is one await away.
\* The network takes or drops what it holds and keeps producing blocks.
Fairness ==
    /\ \A w \in Workers :
          /\ \A t \in Ops : SF_vars(ClaimJob(w, t))
          /\ WF_vars(ObserveTransaction(w) \/ ReadRows(w) \/ ApplyObservation(w)
                        \/ ReportJob(w) \/ FailReconciliation(w))
    /\ \A r \in Requests, op \in Settlements :
          WF_vars(Settle(r, op) \/ FinalizeSuccessfulSettlement(r, op)
                     \/ FinalizeFailedSettlement(r, op)
                     \/ SettlementStateChanged(r, op))
    /\ \A t \in Ops : WF_vars(Commit(t)) /\ WF_vars(Bury(t))

FairSpec == Spec /\ Fairness

\* The node has no reason to refuse a settlement: the parties have locks of
\* their own, and a refund is only asked for after its timeout, which
\* assertRefundAllowed leaves to the caller.
Timely ==
    /\ signable # Settlements
    /\ \A r \in Requests : AtPhase(r, "refund", "external") => mature

\* A settlement that was reserved is decided: the escrow leaves its pending
\* status for the terminal one or for failed (reconcileCkbTransaction,
\* finalizeFailedEscrowSettlement), also when the key of the server is not the
\* one that has to sign.  Two things must not happen.  A settlement the node
\* refuses (see Timely) is never sent again, and its escrow and the jobs that
\* watch it go on without end.  And a client that reports funding by hand can
\* overtake the worker's observation of the pool, which is then taken for a
\* reorganisation.
SettlementDecided ==
    [](Timely /\ \A r \in Requests : req[r].op # "fund") =>
        \A op \in Settlements :
            escrow = PendingStatus(op) ~> escrow \in {TerminalStatus(op), "failed"}
=============================================================================
