# PactAgent: TLA+ models, model checking and proofs

PactAgent is infrastructure for work agreements that are paid through escrows. A
server (Express and Prisma on PostgreSQL at READ COMMITTED) keeps agreements,
milestones, escrows, proofs, reviews and disputes for its tenants ("apps"). Worker
processes run durable jobs. On the CKB rail an escrow is a cell on the chain: a lock
transaction funds it, and a release or a refund transaction spends it.

This directory models the server's state machines, its job queue and workers, the
escrow lock contract and the API's shared state, and checks them with TLC on small
instances. Every safety property of these runs is also proved with TLAPS, for every number
of requests, workers, rows and faults, and so is the refinement of the settlement's
abstract specification. What is left to the model checker is in section 10.

| File | Content |
|---|---|
| `Lifecycles.tla` | statuses and transition tables of escrows, agreements and milestones |
| `Settlement.tla` | abstract: what the settlement of one escrow promises |
| `CkbSettlement.tla` | one CKB escrow, its API requests, its reconciliation workers, the chain, and faults; implements `Settlement` |
| `CkbSettlementProofs.tla` | inductive invariant and theorems about `CkbSettlement`; its refinement of `Settlement` |
| `MCCkbSettlement.tla`, `settlement_*.cfg` | its TLC instances |
| `Idempotency.tla` | one idempotency key with its concurrent requests and retries |
| `IdempotencyProofs.tla` | inductive invariant and theorems about `Idempotency` |
| `MCIdempotency.tla`, `idempotency_*.cfg` | its TLC instances |
| `AgreementWorkflow.tla`, `MCAgreementWorkflow.tla`, `agreement_workflow.cfg` | an agreement with its milestones, proofs, disputes and escrows |
| `AgreementWorkflowProofs.tla` | inductive invariant and theorems about `AgreementWorkflow` |
| `JobQueue.tla` | the `AgentJob` table |
| `JobRuns.tla` | the runs of claimed jobs, on `JobQueue` |
| `WorkerLoop.tla`, `worker_loop.cfg` | the worker processes, on `JobRuns` |
| `JobRunsProofs.tla` | what each statement and each step of a run does to the rows and the runs, for the two modules on `JobRuns` |
| `WorkerLoopProofs.tla` | inductive invariant and theorems about `WorkerLoop` |
| `WebhookEgress.tla` | the destinations a webhook may contact |
| `WebhookDelivery.tla`, `MCWebhookDelivery.tla`, `delivery_jobs.cfg` | endpoints and deliveries, on `JobRuns` and `WebhookEgress` |
| `WebhookDeliveryProofs.tla` | inductive invariant and theorems about `WebhookDelivery` |
| `EscrowLock.tla`, `escrow_lock.cfg` | the lock contract, with the server's builder and checks |
| `EscrowLockProofs.tla` | invariant and theorems about `EscrowLock` |
| `AuthChallenges.tla` | wallet sign-in |
| `ApiKeys.tla` | apps, API keys, audit records, rate limits; the owner signs in by `AuthChallenges` |
| `ProviderCalls.tla` | bulkhead, attempts and circuit of outbound calls |
| `ApiServer.tla`, `api_server.cfg` | the API's processes, composed of the three above |
| `ApiServerProofs.tla` | inductive invariants and theorems about the API's processes |
| `PROJECT.json` | components, runs, seeded faults, line map, hazards, findings, theorems |

## 1. Inventory

**Escrow service** (`modules/escrows`). State: `Escrow` rows (ten statuses), their
`Transaction` rows (status, hash, unique `operationId`). Operations: create, mark
funded, release, refund, reconcile. Every operation that talks to the chain runs in
three phases: *reserve* in a database transaction, *external* (sign, broadcast,
observe) outside any transaction, *finalize* in a second database transaction. Hard:
a process may die between any two phases; two requests, or a request and a worker,
race on one row; a broadcast may fail ambiguously. Correct when no payment is signed
without a durable trace, none twice, none without authority, and when statuses never
run ahead of the chain.

**CKB rail** (`rails/ckb`, `adapters/ckb-escrow.adapter.ts`). Stateless: builds, signs
and broadcasts transactions and interprets what the node says of them. Hard: `null`,
`unknown`, `pending` and `rejected` answers, confirmation depth, reorganisations.

**Job queue and worker loop** (`services/jobQueueService.ts`, `worker/agentLoop.ts`,
`common/runtime/job-deadline.ts`). State: `AgentJob` rows with status, lease, owner,
attempts, dedupe key. Operations: enqueue, claim, renew, complete, defer, fail,
replay, release stale locks. Hard: leases that run out under a live worker, deadlines
that abandon a run without stopping it, attempts that count deferrals. Correct when
work that must be done stays queued until it is done or given up on the record.

**Idempotency** (`common/idempotency`). State: one `IdempotencyKey` row per app and key
(pending or completed, request hash, stored response, processing lease, retention).
Operations: lookup and replay, reserve, complete, clear, clean up. Hard: retries that
overlap, processes that die holding the key, leases that run out. Correct when work
is done once per key and the answer belongs to the request.

**Agreement workflow** (`modules/agreements`, `milestones`, `proofs`, `reviews`,
`disputes`). State: status rows with transition tables and compare-and-swap writes.
Hard: cross-row invariants (sum of milestone amounts, all escrows terminal) under
READ COMMITTED.

**Webhooks and events** (`modules/webhooks`, `modules/events`, `workers`). State: endpoints
and deliveries (status, attempts), a job for each attempt. An event creates a delivery
for every subscribed endpoint in its own transaction; an attempt that fails enqueues the
next or, at the end of the schedule, announces the failure as an event. Hard: several
jobs of one delivery, runs that go on after their deadline, names that resolve to
another address at every hop, addresses that have several texts. Correct when no delivery is
forgotten or taken back and no special address is contacted.

**Escrow lock contract** (`contracts/pact-escrow-lock`, Rust). A pure predicate over a
spending transaction: who may spend, to whom, how much, and after which timeout. Correct
when every spend it admits meets the escrow with an output of its capacity at one party, and
when the server, which builds and verifies spends by its own code, agrees with it.

**API processes** (`services/auth*`, `modules/apps`, `modules/api-keys`, `common/rate-limit`,
`common/resilience`). State: challenges and rate limit buckets in Redis or in the memory of
each process, apps, keys and audit rows, the circuits and queues of outbound calls. Hard:
several processes, a Redis that comes and goes, statements of several requests between
each other.

**Others**: audit hash chain, retention, admin and health reports, web console, deployment.

Interactions: API requests and workers share the `Escrow`, `Transaction`, `Agreement`
and `AgentJob` rows. Finalizing a request queues a reconciliation job in the same
database transaction; the job's runs move the escrow and, when it is funded or
settled, its milestone and agreement. Every mutating request first reserves its
idempotency key and stores its response in its last transaction.

Workers claim jobs of both kinds, `CKB_RECONCILE_TRANSACTION` and `DELIVER_WEBHOOK`.
`CkbSettlement` keeps of the job queue what its transactions need; `WorkerLoop` and
`WebhookDelivery` have the queue itself. `AgreementWorkflow` has the whole workflow with
rails that answer at once, `CkbSettlement` the slow rail with the workflow reduced to the
approval it waits for.

The hazards, each at its line and with the properties that would catch it, are listed
in `PROJECT.json`.

## 2. CkbSettlement

One escrow of a one-milestone agreement.

| Variable | Code |
|---|---|
| `escrow` | `Escrow.status`, `"none"` when there is no row |
| `txrow[t]` | `Transaction` row of type lock, release, refund: status, and whether `txHash` is set |
| `agreement` | `Agreement.status`; `"funded"` stands for the work and its review up to the approval |
| `job[t]` | the `CKB_RECONCILE_TRANSACTION` job of the row: ready (QUEUED or RETRY), running, completed, dead, and `lockedBy` |
| `req[r]` | an API request: operation, phase, adapter result, status it read |
| `wk[w]` | a reconciliation run: transaction, phase, observation, statuses it read |
| `chain[t]` | what the network holds: unsigned, signed, pending, committed, confirmed, deep (monitoring ends), rejected |
| `mature` | whether the chain has reached the timeout that a refund's input carries as its since |
| `signable` | the settlements whose authorizer is the server's one key (`signSettlement`): at most one when client and worker have locks of their own, both or none when they share one |
| `confirmedOnce`, `faultsLeft` | history, and the bound on faults |

| Actions | Code |
|---|---|
| `ReserveEscrowCreation`, `CreateEscrowLock`, `FinalizeEscrowCreation`, `DiscardEscrowCreation` | `createEscrowForApp` and its phases |
| `BeginMarkFunded`, `VerifyFunding`, `ReadForFunding`, `WriteFunding` | `markEscrowFunded`, `finalizeEscrowFunding` |
| `ReserveEscrowSettlement`, `Settle`, `FinalizeSuccessfulSettlement`, `FinalizeFailedSettlement`, `SettlementStateChanged` | `executeEscrowSettlement` and its phases |
| `ClaimJob`, `ObserveTransaction`, `ReadRows`, `ApplyObservation`, `ReportJob`, `FailReconciliation`, `JobDeadline`, `ReleaseStaleLock` | `agentLoop.ts`, `reconcileCkbTransaction`, `jobQueueService.ts` |
| `ApproveAgreement` | the proof, review and dispute services, reduced to the approval |
| `RequestCrash`, `WorkerCrash` | processes that die |
| `LateDelivery`, `Commit`, `Bury`, `Reject`, `Reorganise`, `Mature` | the CKB network (external) |

A database transaction is one step when everything it depends on is guarded by a
compare-and-swap or a unique index in it. Where it reads a row and later writes
without such a guard (`ReadRows`/`ApplyObservation`, `ReadForFunding`/`WriteFunding`)
the two halves are separate steps, because READ COMMITTED lets others in between.
`ReserveEscrowSettlement` is one step although it reads the agreement before it swaps
the escrow: the agreement leaves the status it was read in only together with a
settlement of this escrow, which the swap excludes unless the escrow is settled and
returns to `funded` within that one transaction.
The chain observation is a step of its own, so it can be stale when it is applied.

Left out: amounts and scripts (a transaction observed by its own hash is genuine, so
the output checks add nothing), the milestone row (it follows the agreement of a
one-milestone agreement), events, audit rows and metrics, the idempotency records (see
section 3), and the mock and manual rails. The attempt counter of a job is abstracted:
any failed run may be the one that dead-letters it. `RequestCrash` also stands for
two failed attempts to finalize, after which the code leaves the reservation behind.
After a reorganisation of the lock its spending transactions are assumed to have left
the chain first.

### Runs

`MaxFaults` bounds the faults of a behaviour and `Faults` selects their kinds.

* `settlement_faults`: one request at a time, one worker, any one of eight kinds of
  fault at any moment. One fault is enough for each hazard on the list, because
  stale observations, races and rejections of the compare-and-swap need none.
* `settlement_requests`: three concurrent requests, two faults, no worker: `SignedOnce`.
  Three is the number of operations (lock or fund, release, refund) that can be in flight
  at once.
* `settlement_liveness`: `FairSpec` with signer failures and pool rejections.

Deadlock is not checked: a reservation whose process died stays for an operator, and a
settled escrow whose jobs are over has nothing left to do.

**Fairness.** A started request and a claimed run continue (weak fairness: each next
step is one `await` away). Jobs are claimed in the order of `availableAt`, so a queued
job is not passed over for ever (strong fairness of `ClaimJob`, since the worker is
busy with other jobs in between). The network commits and buries what it holds. No
fairness for clients, faults or rejections.

**Safety.** `SignedIsReserved`, `SignedOnce`, `SettlementAuthorised`,
`SettledAfterConfirmation`, `MonitoredUntilFinal`, `EscrowMovesLegally`: see the
comment above each. The theorems show them for several workers too. **Liveness.**
`SettlementDecided`: a reserved settlement ends in
its terminal status or in `failed`, also when the server's key is not the authorizer. It is
provided that

* the node has no reason to refuse it (`Timely`): `assertRefundAllowed` does not look at the
  timeout, so a refund asked for early is refused by the node without any fault, goes to
  `reconciliation_required`, is never sent again and never decided. The same holds for parties with
  one lock script, whose escrow nothing can spend (section 7);
* nobody reports funding by hand: a manual report can overtake the worker's observation of the
  pool, which then looks like a reorganisation and sends the escrow to `reconciliation_required`.

### Refinement

`Settlement` says what one escrow promises, without requests, workers, jobs or a
network: a transaction is signed once, payments only from a confirmed lock and to the
worker only when approved; the escrow row only ever claims what was confirmed; the
agreement is concluded once, in the step that records its escrow. The mapping
(`Promise` in `CkbSettlement`) takes `signed` from the chain, `confirmed` from the history
variable, `claim` and `outcome` from the statuses of escrow and agreement. `KeepsPromise` is
checked in `settlement_faults` and proved (`KeepsPromiseAlways`): every step of a request, a
worker or the network is a step of `Settlement` or a stutter. That the claim may be taken back and
changed is part of the
promise, because the code does so (see the next section).

### Disagreements with the documentation

The quotations are in `PROJECT.json`. The first two have a run; the other two were found in
the same way, on instances without faults and with a node that forgets a transaction, and
their properties, `HealthyRunApplies` and `UnknownIsRecorded`, are kept in the module.

* `settlement_one_payment`: an ambiguous refund leaves the escrow in
  `reconciliation_required`; the job of the lock transaction, still within its
  monitoring depth, makes it `funded` again, and a release is reserved while the refund is in
  the pool or on the chain. The run is about the reservation. A second signature is not
  claimed: for parties with different locks the server's key is the authorizer of one of the two
  only, so the signer refuses the other. No fault is needed:
  a manual mark-funded that overtakes a worker's earlier observation of the lock is taken
  for a reorganisation when that observation is applied, and leads to the same place, so
  that there is no theorem about a world without faults either.
* `settlement_stays_settled`: the escrow is released and final; the node once fails to
  return the lock transaction; `wasConfirmed` is true because of the *escrow's* status,
  so a reorganisation is recorded, and the next observation of the lock makes the
  escrow `funded`.
* `HealthyRunApplies`: with no fault at all, the lock's job asks for `funded` while
  the escrow is already `release_pending` or later, and its runs fail.
* `UnknownIsRecorded`: a `tx_status` of `unknown` is recorded as `pending`.

### Proofs

`CkbSettlementProofs` proves each safety property above for every set of requests and
workers, every choice of faults and every `MaxFaults`, from the three assumptions in
`CkbSettlement` (`NoWorker` is no worker, the fault kinds are known, `MaxFaults` is a
natural number). The inductive invariant `IndInv` has four parts, proved to be
preserved one after the other:

* `TypeOK`;
* `ReservationInv`: before the lock is finalized nothing else exists; a request in
  flight has its row; an adapter error means that nothing was signed. `SignedIsReserved`
  and `SignedOnce` are not inductive without this: discarding a reservation is only
  safe because its transaction is still unsigned;
* `ConfirmationInv`: whatever a worker or a request carries as "confirmed" was
  confirmed once, so that applying it late is harmless; a request that settles was
  authorised when it reserved and approval is never withdrawn;
* `MonitoringInv`: a run that carries a final observation carries the final state of
  the chain, which never changes again.

`EscrowMovesLegally` follows from the same invariant, one action at a time.

The refinement sorts the steps into kinds (`StepsHaveKinds`): a transaction is signed,
the network moves one, the agreement is approved, or rows are written while the chain stands
still. Each kind maps to a step of `Settlement` or to none, by `IndInv` and one more invariant,
`FundedWasConfirmed`: an agreement leaves `funding_required` only after its lock was confirmed.

What the promise is worth is proved from `Settlement` alone (`PromiseIsSound`): whatever was
confirmed was signed, money left only a confirmed lock, the worker was paid only with
approval, and the agreement names a payment only if that one was confirmed, and names it for
good. Through the refinement this gives `ConclusionStandsAlways` for the whole system. It is
what remains true where `settlement_stays_settled` fails: the escrow row of a released
agreement may fall back to `funded`, the agreement's own outcome never changes.

## 3. Idempotency

One key of one app. `record` is the row; `record.over` says that the processing lease of
a pending row, or the retention of a completed one, has run out; `record.by` is history.
`req[r]` is a request or a retry (its phase in `runIdempotentTransaction`, its hash, and
the local `reserved` and the fact that it lost a race), `reply[r]` what its client got, and
`effects` the requests whose work was committed since the key was last forgotten.

`Lookup`, `Purge`, `LookupAgain` are the statements of `getIdempotencyReplay` in their
order: a row read as expired is deleted by a conditional DELETE and read again. `Reserve`
is the INSERT or the unique violation, `Run` the work and the storing of its response in
one transaction (the UPDATE finds the row by its key alone), `RunFails` its rollback,
`RunHitsUniqueIndex` a unique violation inside the work, which the code takes for a lost
race, `ClearPending` the deletion of the reservation, whose own failure is ignored; the row
stays, too, where a service returns a promise out of its `try` without awaiting it and the
`catch` is skipped (`markEscrowFunded`). `LeaseExpires`, `RetentionEnds` and `Cleanup` are
time and the worker. The bytes of the response and their limit are left
out (a response that is too large is one way for `RunFails` to happen).

`LeaseCoversRequests` says whether the lease is longer than any live request. The
configuration does not guarantee it, so both cases are studied:

* `idempotency_leases` (TRUE, three requests, two bodies): `OneEffect`, `EffectIsRecorded`,
  `RepliesMatchRequests` and, under fairness of live requests, of time and of the cleanup timer,
  `ReservationEnds`. Three
  requests are what it takes for two retries to race over the row of a dead one.
* `idempotency_simultaneous` (FALSE): `OneEffect` is violated, against
  `server/docs/api-lifecycle.md`: a request that outlives its lease commits on the row
  of the retry that replaced it, and the retry commits too. `EffectIsRecorded` and
  `RepliesMatchRequests` hold in this case as well, which the theorems show.

`IdempotencyProofs` proves `TypeOK`, `EffectIsRecorded` and `RepliesMatchRequests` for
both cases, and `OneEffect` if the lease covers the requests, for any number of requests
and bodies. The inductive invariant adds that a completed row holds the response of a
finished request with its hash, that results are only in the hands of finished
requests, and, if the lease covers them, that a request between its reservation and its
end owns a fresh pending row (`HolderOwnsRecord`), so there is one such request at most.


## 4. AgreementWorkflow

One agreement on a rail that answers at once (the mock adapter), from draft to settlement.

| Variable | Code |
|---|---|
| `agreement` | `Agreement.status` and `settlementStatus` |
| `milestones[m]` | `Milestone.status` and `amount` |
| `proofs`, `disputes`, `escrows` | the rows of these tables in order of creation; an escrow has a scope, a milestone or the whole agreement |
| `txs` | database transactions that have read and not yet committed |

| Actions | Code |
|---|---|
| `AcceptAgreement`, `TransitionAgreement` | `agreement.service.ts` |
| `CreateMilestone` | `milestone.service.ts`, with the trigger `Milestone_funded_membership_immutable` |
| `CreateProof`, `ReviewProof` | `proof.service.ts`, `review.service.ts` |
| `CreateDispute`, `ReadDispute`, `ResolveDispute` | `dispute.service.ts` |
| `ReadForEscrow`, `CreateEscrow`, `FinalizeEscrowCreation`, `MarkEscrowFunded`, `ReserveEscrowSettlement`, `ReadSettlement`, `FinalizeEscrowSettlement` | `escrow.service.ts` |
| `Rollback` | a lost compare-and-swap, a refused constraint, a crash |

A handler that swaps every row its decision rests on is one step. Resolving a dispute,
creating an escrow and finalizing a settlement rest on rows they only read, so they read
in one step and commit in another, and every other request may come between.

`agreement_workflow` has two milestones, an agreement of amount 2, two proofs, one
dispute, two escrows and two transactions in flight. Two milestones are what it takes for a
decision about one to be mistaken for one about the other, two proofs for a rejected
one and its successor, two escrows for a race over "all escrows are terminal" and for a
second escrow in a settled scope, amounts 1 and 2 for an allocation that fits and one that does
not. Only one dispute of a milestone can be open at a time, and a resolution for refund or
split leaves the agreement disputed, so that a second dispute of the agreement cannot be
opened after it. Deadlock is not checked: an agreement ends.

Properties: `ReleaseIsBacked`, `PaidWithinTerms`, `OneProofUnderReview`,
`ResolvedReleaseIsApproved`, `SettledStatusIsTrue` and `PaymentBindsAgreement` (money on its way
to the worker keeps every decision that was taken on older reads from concluding the agreement
in another way).

`AgreementWorkflowProofs` proves all of them for any milestones and amounts and any number of
rows and transactions in flight, from `AmountsArePositive`, `ScopesDiffer` and
`MilestonesFinite` (an agreement's milestones are the rows of a table, and their amounts can
be added up). The inductive invariant `WorkflowInv` adds to the properties

* `TxInv`: a transaction that finalizes an escrow finds it as it read it, because only it can
  move the row (the row lock), so that what was released was on its way;
* `ApprovalInv`: a milestone that is approved has its accepted proof or its resolution, and an
  agreement that is approved has a milestone that does. This makes `ReleaseIsBacked` inductive;
* `ReviewInv`: in the statuses from which a proof may be submitted, no proof is open. A dispute
  can leave an open proof behind, but from there no way leads back to these statuses, so that
  the proof under review is the only one;
* `PaymentInv`, in five parts, for `PaidWithinTerms`. `AllocationInv`: the milestones together
  are within the agreement's amount. `ScopeInv`: an escrow of a milestone, there or being
  created, is within the milestone's amount, and no scope has two escrows that are not settled.
  `ConclusionInv`: only one milestone is ever approved or released, and only in an agreement
  that is. `PayoutInv`: an escrow on its way to the worker has an approved milestone, and one
  that was paid a released one. `OnePayment`: of all escrows of all milestones at most one is
  paid. The parts need each other: a second escrow in a settled scope can be funded, but
  its milestone is released and never approved again, so that it cannot be reserved.

The sum in `AllocationInv` is the fold `SumFunction` of the community modules. That it has a
value at all, that it grows with its terms and bounds each of them is proved in the section
Sums, by induction on finite sets in the form "a set of counterexamples has a least
element" (`Least`, from `WFMin` of the library). In this form the induction takes a set where the
usual theorem takes a predicate, and the provers can use it.

There is one lemma per action, which also bounds what the step does to approvals:
`ApprovalStandsAlways` says that an approved milestone and
its agreement stay approved or released whatever comes later. Two more theorems stand on their
own: `AllocationWithinAgreementAlways`, which is the rule of
`docs/phase2-hardening-inventory.md` that "the sum of milestone amounts must not exceed the
agreement amount", and `OnePaymentAlways`.

What the model shows beside them:

* an agreement has one status for all of its milestones, so that one milestone at most is
  ever approved, and the others' escrows can only be refunded (`OnePaymentAlways` and
  `ApprovalStandsAlways` prove it for any number of milestones);
* an escrow of the whole agreement and one of a milestone may be released both; this is why
  `PaidWithinTerms` adds up the milestones' escrows only;
* creating an escrow does not look at the agreement's status: an escrow created after the
  release can be funded and then neither released nor refunded (`RefundAllowed`);
* the branch of `assertReleaseAllowed` for disputed agreements is never taken
  (`ResolvedReleaseIsApproved`);
* a refund is admitted while a dispute is open, and in the status approved, where the
  agreement's table has no edge to refunded and its status stays.

## 5. JobQueue, JobRuns, WorkerLoop

`JobQueue` is the `AgentJob` table and the statements on it, one operator each.
`JobRuns` adds the runs of claimed jobs. A run has two sides: `side` is
`executeClaimedJob`, which completes, defers or fails the row; `work` is `processJob`, which
`runWithJobDeadline` abandons at the deadline and does not stop. `WorkerLoop` adds the
processes of `worker/index.ts`.

| Variable | Code |
|---|---|
| `jobs` | the rows: payload, dedupe key, status, attempts, `lockedBy`, lease live or expired |
| `runs` | runs in progress in any process, after their process gave up on them too |
| `proc[p]` | stage (booting, first cycle, timer loop), cycle, timer, shutdown |
| `heartbeat[p]` | status of the `WorkerHeartbeat` row |
| `faults`, `requests` | bounds |

| Actions | Code |
|---|---|
| `Poll`, in `Register` and `TimerFires` | `runAgentCycle` up to its claims |
| `Settle`, `Fail`, `FailThrows`, `Renew`, `Deadline`, `Reconcile` | `executeClaimedJob`, `runWithJobDeadline`, `processJob` |
| `EnqueueReconciliation`, `Replay` | `enqueueJob`, `replayJob` |
| `Start`, `Register`, `TimerFires`, `EndCycle`, `CycleBreaks`, `Sigterm`, `ShutdownCompletes`, `DrainTimeout`, `Exit` | `main`, `executeCycle`, `scheduleNextCycle`, `shutdown` |
| `Crash`, `KilledAfterDrain`, `LeaseExpires` | the platform and the clock |

`Poll` is `releaseStaleLocks` and `claimAvailableJobs` in one step: what happens between the two
statements happens as well before the first or after the second. A query that fails is a poll
that claims nothing. `availableAt` is abstracted: a claim may leave out any job. The order of jobs
with equal
priority is therefore not modelled here.

`worker_loop` has two workers, each with a concurrency of two, one transaction to watch, two
requests, two claims before a job is no longer deferred, and any two of the faults crash,
stall (a lease is not renewed in time), deadline, database error and SIGTERM. Two faults
are what it takes for a run that was abandoned to meet the second claim of its job by the
same worker. Two requests are an enqueue beside a second one or a replay.

* `DuplicatesAreReplays`: the dedupe key does its work through deferrals, failures and lost
  leases; only an administrator's replay runs beside a live job.
* `FinishedJobsRest`: a finished row is not touched again. The fence is the worker's id, not
  the claim: an abandoned run can complete the later claim of its own worker, which this
  property admits and which the model contains.
* `ClaimsEnd`, liveness: no row stays RUNNING. **Fairness**: a process that stopped is started
  again by the platform and Node runs whatever is due (`ProcStep`), a run ends (its work is
  bounded by the deadline, its statements by the database's timeouts), the clock moves
  (`LeaseExpires`). No fairness for requests and faults.

`WorkerLoopProofs` proves `TypeOK`, `DuplicatesAreReplays` and `FinishedJobsRest` for any
workers, concurrency, transactions and bounds, from the assumptions of `JobQueue` and `JobRuns`
(the concurrency is positive, the bounds are numbers, `NoWorker` and `NoKey` are no worker and
no key). `JobRunsProofs` says once what claiming, completing, deferring, failing,
replaying and losing a lease do to a row and to the runs (`JobsInv`), for `WebhookDelivery` too.
The inductive invariant `LoopInv` adds `KeyInv`: no two rows hold one key, and an active row
that is no replay holds the key of its own transaction. Without the second half a job that was
deferred could have lost its key, and a second enqueue would run beside it.

`PollingStops` is what `server/docs/operations/worker-jobs.md` says of SIGTERM and does not
hold: after a signal during the first cycle `main` schedules another. It is kept in the module.
What does hold is the theorem `PollingWindsDown`: after a signal a process begins at most two more
cycles if it was still booting, one if it was in its first, none otherwise, and it is never told
to go on. `CyclesNeverOverlapAlways` says that the three places that start a cycle (`main`,
the timer that `main` sets, the timer that a cycle sets) never start one beside another. Both
rest on `CycleInv`, that the record of a process agrees with the runs it waits for, and on a
summary of what any step makes of a process (`ProcMoves`).

## 6. WebhookEgress, WebhookDelivery

`WebhookEgress` is `webhook.security.ts`: which URLs and which resolved addresses are
allowed. The code compares the text of an IPv6 address. An IPv4 address carried by an IPv6 one is
therefore modelled with the form it is written in (dotted as a resolver answers, hexadecimal as
`new URL()` writes it, translated, NAT64), another IPv6 address with its first group. `IsSpecial` is
the reference: the reserved blocks as CIDR prefixes, whatever the form. `WebhookDelivery` has the
endpoints, the deliveries and the
run of a `DELIVER_WEBHOOK` job on top of `JobRuns`.

| Variable | Code |
|---|---|
| `endpoints`, `deliveries` | the rows of `WebhookEndpoint` and `WebhookDelivery` |
| `edits` | updates of endpoints between their read and their write |
| `circuit[p]` | the circuit breaker of each worker process |

| Actions | Code |
|---|---|
| `CreateEvent` | `createEvent`, `createWebhookDeliveriesForEvent` |
| `CreateEndpoint`, `BeginUpdate`, `EndUpdate`, `DeleteEndpoint`, `RetryDelivery` | `webhook.service.ts` |
| `ReadDelivery`, `ReadFails`, `Send`, `RecordResult`, `RecordFails` | `deliverWebhookDelivery`, `fetchWebhookUrl`, `recordDeliveryResult` |
| `RetentionOfDelivery`, `RetentionOfJob` | `retentionService.ts` |
| `Polls`, `Dies`, `CircuitCloses` | the worker |

Here a worker polls whenever it is not in a cycle, which includes every behaviour of
`WorkerLoop`. `delivery_jobs` has two workers with one job each at a time, one endpoint,
two requests (events, updates, retries, deletions, replays, retention) and one fault. Two workers and
one fault make two runs of one delivery overlap. URLs and DNS answers
are chosen around the edges of the blocks (`MCWebhookDelivery`); one redirect is enough for the
address of a later hop to differ from the first.

* `UndecidedIsRecoverable`: an undecided delivery has a job that will be claimed or a dead
  letter. The exception is a gap of the retention: the letter is deleted after some days,
  the delivery stays, and nothing will pick it up except a manual retry when its status is RETRY.
* `DeliveredStays`: a delivered row is not taken back by a late result.
* `RecognisedContactsPublic`: every hop goes to an address that was checked and, if the code
  tells the class of that address (`Recognised`), to a public one.

`WebhookDeliveryProofs` proves `TypeOK` and these three for any endpoints, URLs, answers of
the resolver, retry schedule, workers and faults. Beside those of `JobRuns` its assumptions are
that endpoints are finitely many (an event creates a delivery for each, one after the other),
that URLs and answers are made of addresses (`Addresses`, of octets 0 to 255 and groups 0 to
65535), and that deliveries, which are numbers, are not
also ids of transactions. The inductive invariant `DeliveryInv` links the tables: a job of a
delivery is about a row that exists, the key of a later attempt is not taken, and an undecided
delivery has a job that is active or dead-lettered and that none of its runs may complete before
it has seen the delivery as it is (`RecoverInv`). This is what a run abandoned at its deadline
could break: it holds an older copy of the row, and the update it tries is refused.
`RecognisedContactsPublic` needs that the code's comparisons of octets and of text cover the CIDR
blocks of `IsSpecial` on the addresses that are `Recognised`, a lemma over all addresses.
`DeliveredStays` follows from what one step does to a row.

`OnlyPublicContacted`, without `Recognised`, is what a test's title says (see the findings). It does
not hold: a carried IPv4 address is classified in the dotted and the translated form only, and of
`fe80::/10` the code compares the group `fe80`. `server/docs/operations/resilience.md` asks for an egress
policy of the proxy beside these checks. The instance of `delivery_jobs` contains such addresses.

Beside them: `LostLeaseCommitsNothing`, which `worker-jobs.md` says, does not hold, as the
worker id guards the job's row only. An update that was read before a deletion writes
the endpoint's status after it and leaves a row that is deleted and active: new events pass
it over, but deliveries that were waiting are sent. `processDueWebhookDeliveries` has no caller.

## 7. EscrowLock

`contracts/pact-escrow-lock` (Rust) with the server's builder and verifier
(`transaction-builder.ts`, `signer-provider.ts` and `escrow-codec.ts` of `rails/ckb`). The state is
the escrow cells
and the chain's height; a transaction is any set of escrow inputs with any since values,
signatures and one or two outputs, so that `Spend` admits whatever the script admits, from
anybody. `validate`, `parse_terms`, `evaluate_spend`, `has_exact_output` and
`timeout_refund_reached` keep the names of the Rust code. `signEscrowLock` and `signSettlement` are the
server's transactions, `Deposit` a cell made by somebody else with any data.

The meaning of a since value is in its highest byte; `FlagUnit` = 4 stands for 2^56, and the
values 0, 2 and 5 are an immediate timeout, a later block, and a value with a flag. Two
milestones of one agreement make a script group of two inputs possible. Two parties suffice
because the script only compares hashes with the client's and the worker's; both may be
the same here.

* `SettlesToParty`, `LockAndServerAgree`: over all transactions the script admits. Each escrow is
  met by one output of exactly its capacity. This pays an escrow that is spent alone in full;
  escrows of different script groups in one transaction may be met by the same output.
* `RefundReachable`: after the timeout the client gets the escrow back without anybody's help. If client
  and worker have one lock script, no transaction spends the cell, and the builder does
  not refuse such a pair.
* `BuiltSettlementUnlocks`: the script accepts what the server signs, unless the change
  equals the amount, which makes the outputs ambiguous.

`EscrowLockProofs` proves all four for any sets of escrows, parties, amounts and since values,
from two assumptions (the server's signer is a party, amounts and since values are natural
numbers, and the flag unit is positive). The invariant `CellsInv` says that a cell may hold
anything somebody deposited, but one of the server's has data the lock can parse and a timeout
that is a block number; `RefundReachable` and `BuiltSettlementUnlocks` need it. The other
properties follow from what the lock requires of a transaction, with the outputs counted.

`contracts/README.md` says that the contract rejects multiple escrow inputs. `EscrowSpentAlone`, which
is kept in the module, states it; TLC refutes it on the instance of `escrow_lock`, where two escrows with
different parties are spent by one transaction: the lock rejects a second input of its own script
group only (see the findings).

## 8. ApiServer

Three modules share the processes of the API and are composed here.

* `AuthChallenges`: wallet sign-in. Challenges are in Redis or in the memory of each
  process, verification reads, checks the signature and consumes in separate steps.
  `LatestChallengeOnce`: with Redis, a challenge becomes one token at most, and only
  while it is the address's latest; without it, each process has its own, and the property
  is not claimed.
* `ApiKeys`: apps and keys, whose requests are several statements without a transaction
  (read, write, read again, audit), and the calls with keys: authentication, the write of
  `lastUsedAt`, and two rate limits, with a bucket for each key and one for the app.
  `RefusedAfterRevocation`, `AuditShowsRow` (a request cut off after its write leaves no
  audit row: this is the exception in the property; `lastUsedAt`, which an audited key contains
  and which every call writes without a record, is not compared), `LimitHolds` (only if the limiter is
  configured to fail closed: otherwise every process counts for itself while Redis is away).
* `ProviderCalls`: the bulkhead and the circuit of `provider.ts`. `NoLostWakeup`: the queue
  is never left behind. `PoolIsBounded`, the limit of the documentation, does not hold: a
  call that arrives between a release and the resumption of the call it woke goes beyond
  it.

`api_server` has two servers, four requests, two challenges and limits of one. The three
parts share only the owner's token, so each behaviour takes the requests of one (`traffic`,
chosen in `Init`). Four requests are two writers, a call and a change around them; or a call
that runs, two that wait, and one that slips in.

`ApiServerProofs` proves all six for any servers, limits, pool size and number of requests and
challenges (natural numbers; the limits, the pool, the attempts and the threshold positive, as
`config.ts` and the callers of `provider.ts` set them). A request is named by its number, and
numbers above `requests` are in no row: this makes names fresh in every part.

* `AuthInv`: with Redis, the stored challenge is the latest and has no token yet. A
  verification that consumes it therefore issues the first token of the latest challenge.
* `RevocationInv`: a key is written as created only while it is absent, by the one request of
  its name; so nothing makes a revoked key active, and a revocation reported in the audit
  trail is still in the row.
* `TrailInv`: a row that is not in the audit trail as it stands, `lastUsedAt` apart, has a request
  that has yet to
  re-read it, or has re-read it as it stands. `AuditShowsRow` is the case without requests.
* `WritesInv`: writes done and writes waiting together are no more than the requests.
* `LimiterInv`: when failing closed, the bucket of a key or of the app has let pass no more than
  Redis counted.
* `ProviderInv`: calls have distinct names and none is in the queue twice, so that a release
  wakes exactly one call and leaves the queue and the waiting calls the same set. Without this
  the counts of `NoLostWakeup` are not inductive.

## 9. Seeded faults

Each property of a passing run has a variant of one definition, named in `PROJECT.json`
under `mutants` and defined beside the original with the comment "A seeded fault": a dropped
guard, a missing write, a swapped case. With it TLC finds the property violated on the same
instance, which shows that the property says something about that definition and that the
instance reaches the case.

## 10. What stays with the model checker

* Liveness: `SettlementDecided`, `ReservationEnds`, `ClaimsEnd`. The prover has no rules for
  fairness and `ENABLED`.
* The violations: that a property fails is a behaviour, which TLC exhibits.

Every other property of a passing run is a theorem, 36 of 39. The theorems hold for every value of the
constants that satisfies the assumptions of the modules, bounds included; TLC evaluates the
assumptions on each run, and checked each inductive invariant before it was proved.

## 11. Not modelled

* **Web console** (`web/`): pages and forms on the API; it keeps no state of its own that
  the system depends on.
* **Configuration, seeding, migrations, deployment, metrics**: read once, run by hand, or
  reports. Of the migrations the constraints and triggers that the services rely on are part
  of the actions (unique indexes on operation, dedupe key, active escrow scope and open
  dispute; the trigger on milestones; the trigger on split resolutions).
* **Audit hash chain and archive**: the hash of a row is a function of the bytes of the row
  before it; a model in which hashes are injective makes the chain correct by construction.
* **Signatures, hashes, encryption, molecule and JSON encodings**: taken as correct; what they
  decide is a choice of the model (`CheckSignature`, `ReadFails`, `has_signer`).
* **Fee cells**: their selection and the fee are inputs of a transaction beside the escrow;
  only the change output is modelled (`EscrowLock`).
* **Decimal amounts**: parsing and formatting of amounts per currency; amounts are numbers here.
* **Manual and mock rails beyond their answers**, **lists, reads and reports**: no state.
* **Time as a number**: leases, windows and timeouts end at any moment, schedules are an order.

Findings of the models that no property states are named in the sections above.

## 12. What is left

The safety properties of all runs are proved, the refinement too, and what remains true of
two of the documents' sentences that do not hold (`PollingWindsDown`, `ConclusionStandsAlways`).

1. `LostLeaseCommitsNothing` and `PoolIsBounded` have no counterpart of this kind: a run that lost
   its lease may write a delivery's result at any time (`DeliveredStays` is what protects it),
   and the excess over the pool's limit has no bound but the number of calls.
2. The liveness properties, should the prover learn about fairness: the invariants they
   need (a claimed row has a run or a lease that ends; a reservation has a request or a lease)
   are parts of the inductive invariants already.
3. The request handlers of the escrow service and `Idempotency` as one composed module.
