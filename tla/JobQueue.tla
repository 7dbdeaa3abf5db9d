------------------------------ MODULE JobQueue ------------------------------
(***************************************************************************)
(* The AgentJob table and the operations of jobQueueService.ts on it.      *)
(*                                                                         *)
(* A job carries a payload and perhaps a dedupe key, is claimed under a    *)
(* lease in the name of a worker, and ends COMPLETED or, when a failure    *)
(* finds its attempts used up, DEAD_LETTER.  Each operation is one SQL     *)
(* statement or one transaction, hence one step.                           *)
(*                                                                         *)
(* availableAt is abstracted: a claim may leave out any job, as if that    *)
(* job were not due yet.  leaseExpiresAt is abstracted to a lease that is  *)
(* live or expired.                                                        *)
(***************************************************************************)
EXTENDS Naturals, Sequences, FiniteSets

CONSTANTS
    Workers,        \* WORKER_IDs; a process that restarts keeps its id
    NoWorker,       \* lockedBy of a job nobody holds
    NoKey,          \* dedupeKey of a job that has none
    Concurrency     \* WORKER_CONCURRENCY

ASSUME ConcurrencyPositive == Concurrency \in Nat \ {0}
ASSUME NoWorkerFresh == NoWorker \notin Workers

VARIABLE jobs       \* the AgentJob rows in order of creation

JobActive == {"QUEUED", "RUNNING", "RETRY"}
JobTerminal == {"COMPLETED", "DEAD_LETTER"}

\* Rows that retention has deleted; history keeps which of them were dead letters.
JobDeleted == {"DELETED", "LETTER_DELETED"}

\* replay: history, was this row created by replayJob?
NewJob(payload, key, max, replay) ==
    [payload |-> payload, key |-> key, status |-> "QUEUED", attempts |-> 0,
     max |-> max, lockedBy |-> NoWorker, lease |-> "none", replay |-> replay]

\* The row leaves the hands of its worker with a new status and key.
Unlock(job, status, key) ==
    [job EXCEPT !.status = status, !.key = key,
                !.lockedBy = NoWorker, !.lease = "none"]

-----------------------------------------------------------------------------
(* enqueueJob.  The unique index on dedupeKey refuses a second row with    *)
(* the same key whatever its status; the handler then returns the active   *)
(* row or takes the key away from a finished one.                          *)

enqueueJob(q, payload, key, max) ==
    LET holders == {j \in DOMAIN q : key # NoKey /\ q[j].key = key}
        job == NewJob(payload, key, max, FALSE)
    IN  IF \E j \in holders : q[j].status \in JobActive
        THEN q
        ELSE Append([j \in DOMAIN q |->
                        IF j \in holders THEN [q[j] EXCEPT !.key = NoKey] ELSE q[j]],
                    job)

\* claimAvailableJobs: the candidates are locked, so that concurrent claims are
\* disjoint; each claim counts as an attempt.
Claimable(q) == {j \in DOMAIN q : /\ q[j].status \in {"QUEUED", "RETRY"}
                                   /\ q[j].lease \in {"none", "expired"}}

claimAvailableJobs(q, w, S) ==
    [j \in DOMAIN q |->
        IF j \in S
        THEN [q[j] EXCEPT !.status = "RUNNING", !.lockedBy = w,
                          !.lease = "live", !.attempts = @ + 1]
        ELSE q[j]]

\* A seeded fault: the fence asks only that the job is not completed.
OwnsMutStatus(j, w) == jobs[j].status # "COMPLETED"

\* The condition of completeJob, deferJob, failJob and renewJobLease: the fence
\* is the worker's id, not the claim.
Owns(j, w) == jobs[j].status = "RUNNING" /\ jobs[j].lockedBy = w

completeJob(j) == [jobs EXCEPT ![j] = Unlock(@, "COMPLETED", NoKey)]

\* A seeded fault: a status that claims do not look for.
DeferMutStatus(j) == [jobs EXCEPT ![j] = Unlock(@, "DEFERRED", @.key)]

deferJob(j) == [jobs EXCEPT ![j] = Unlock(@, "RETRY", @.key)]

\* A seeded fault: every failure gives the key up.
FailMutClearsKey(j, attempts) ==
    [jobs EXCEPT ![j] = IF attempts >= @.max
                        THEN Unlock(@, "DEAD_LETTER", NoKey)
                        ELSE Unlock(@, "RETRY", NoKey)]

\* attempts is the number the claim returned, not the row's current one.
failJob(j, attempts) ==
    [jobs EXCEPT ![j] = IF attempts >= @.max
                        THEN Unlock(@, "DEAD_LETTER", NoKey)
                        ELSE Unlock(@, "RETRY", @.key)]

renewJobLease(j) == [jobs EXCEPT ![j].lease = "live"]

\* replayJob: a new row beside the finished one, without a dedupe key.
replayJob(j) ==
    Append(jobs, NewJob(jobs[j].payload, NoKey, jobs[j].max, TRUE))

\* A seeded fault: it looks for locks without an owner.
ReleaseMutOwned ==
    [j \in DOMAIN jobs |->
        IF jobs[j].status = "RUNNING" /\ jobs[j].lockedBy = NoWorker
        THEN Unlock(jobs[j], "RETRY", jobs[j].key)
        ELSE jobs[j]]

releaseStaleLocks ==
    [j \in DOMAIN jobs |->
        IF jobs[j].status = "RUNNING" /\ jobs[j].lease = "expired"
        THEN Unlock(jobs[j], "RETRY", jobs[j].key)
        ELSE jobs[j]]

\* retentionService.ts, the class job: finished rows older than JOB_RETENTION_DAYS.
deleteExpiredJob(j) ==
    [jobs EXCEPT ![j].status = IF @ = "DEAD_LETTER" THEN "LETTER_DELETED" ELSE "DELETED"]

-----------------------------------------------------------------------------
(* A finished job is history: no late completion, deferral or failure, and *)
(* no claim, touches a row that is COMPLETED or DEAD_LETTER.               *)
FinishedJobsRest ==
    [][\A j \in DOMAIN jobs :
          jobs[j].status \in JobTerminal => jobs'[j].status = jobs[j].status]_jobs
=============================================================================
