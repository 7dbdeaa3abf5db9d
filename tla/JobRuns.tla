------------------------------- MODULE JobRuns -------------------------------
(***************************************************************************)
(* The runs of claimed jobs: executeClaimedJob and processJob of           *)
(* worker/agentLoop.ts, the poll that claims them, and the requests that   *)
(* enqueue and replay jobs.                                                *)
(*                                                                         *)
(* A run has two sides that part at the deadline: executeClaimedJob, which *)
(* ends by completing, deferring or failing the row (side), and the work   *)
(* itself, which nothing stops and which may go on after executeClaimedJob *)
(* has given up on it (work).                                              *)
(*                                                                         *)
(* The module says when a worker may poll only by saying that it is not in *)
(* a cycle.  WorkerLoop adds the process around it.                        *)
(***************************************************************************)
EXTENDS JobQueue

CONSTANTS
    Transactions,   \* payloads of CKB_RECONCILE_TRANSACTION jobs
    DefaultMaxAttempts,     \* DEFAULT_MAX_ATTEMPTS of a job
    MaxRequests,    \* bound: API requests and administrators' requests
    MaxClaims,      \* bound: a job claimed so often is not deferred again
    Faults,         \* the faults that may happen
    MaxFaults       \* bound: how many of them

ASSUME BoundsAreNumbers ==
    {DefaultMaxAttempts, MaxFaults, MaxRequests, MaxClaims} \subseteq Nat
ASSUME NoKeyFresh == NoKey \notin Transactions

VARIABLES
    runs,       \* the runs of claimed jobs, in every process
    faults,     \* how many faults have happened
    requests    \* how many requests have been made

runVars == <<jobs, runs, faults, requests>>

RunInit ==
    /\ jobs = <<>>
    /\ runs = {}
    /\ faults = 0
    /\ requests = 0

Fault(kind) == kind \in Faults /\ faults < MaxFaults /\ faults' = faults + 1
NoFault == UNCHANGED faults

Request == requests < MaxRequests /\ requests' = requests + 1

-----------------------------------------------------------------------------
(* The cycle                                                               *)

\* cyc: runAgentCycle waits for this run; note: what the work remembers between
\* its steps.
NewRun(p, j) ==
    [p |-> p, j |-> j, n |-> jobs[j].attempts + 1, side |-> "await",
     work |-> "start", cyc |-> TRUE, note |-> <<>>]

InCycle(p) == \E r \in runs : r.p = p /\ r.cyc

\* runAgentCycle up to its claims: expired leases are released, then at most
\* Concurrency jobs are claimed and their runs started.  The two statements are one
\* step; a cycle whose second query fails is one that claims nothing, a cycle whose
\* first one fails is no step.
Poll(p) ==
    LET q == releaseStaleLocks
    IN  \E S \in SUBSET Claimable(q) :
          /\ Cardinality(S) <= Concurrency
          /\ jobs' = claimAvailableJobs(q, p, S)
          /\ runs' = runs \cup {NewRun(p, j) : j \in S}
          /\ UNCHANGED <<faults, requests>>

\* The process is gone and with it everything it was doing.
Kill(p) == runs' = {r \in runs : r.p # p} /\ UNCHANGED <<jobs, requests>>

-----------------------------------------------------------------------------
(* The runs: executeClaimedJob                                             *)

\* A run whose two sides are over is forgotten.
Put(r, s) ==
    (runs \ {r}) \cup (IF s.side = "done" /\ s.work = "end" THEN {} ELSE {s})

\* The work returns or throws; outcome is what executeClaimedJob does next,
\* unless the deadline made it give up.
WorkEnds(r, outcome) ==
    Put(r, [r EXCEPT !.work = "end",
                     !.side = IF @ = "await" THEN outcome ELSE @])

\* runWithJobDeadline: the race is lost, the work goes on.
Deadline(r) ==
    /\ r.side = "await" /\ r.work # "end"
    /\ Fault("deadline")
    /\ runs' = Put(r, [r EXCEPT !.side = "fail"])
    /\ UNCHANGED <<jobs, requests>>

\* completeJob or deferJob; a row that is no longer owned, or a failing
\* database, throws into the catch.
Settle(r) ==
    /\ r.side \in {"complete", "defer"}
    /\ \/ /\ Owns(r.j, r.p)
          /\ jobs' = IF r.side = "complete" THEN completeJob(r.j) ELSE deferJob(r.j)
          /\ runs' = Put(r, [r EXCEPT !.side = "done", !.cyc = FALSE])
          /\ NoFault
       \/ /\ ~Owns(r.j, r.p)
          /\ runs' = Put(r, [r EXCEPT !.side = "fail"])
          /\ NoFault /\ UNCHANGED jobs
       \/ /\ Fault("database")
          /\ runs' = Put(r, [r EXCEPT !.side = "fail"])
          /\ UNCHANGED jobs
    /\ UNCHANGED requests

\* failJob, in the catch.
Fail(r) ==
    /\ r.side = "fail"
    /\ Owns(r.j, r.p)
    /\ jobs' = failJob(r.j, r.n)
    /\ runs' = Put(r, [r EXCEPT !.side = "done", !.cyc = FALSE])
    /\ UNCHANGED <<faults, requests>>

\* failJob itself throws: Promise.all rejects, runAgentCycle returns false and
\* the cycle is over, while its other runs go on outside of any cycle.
FailThrows(r) ==
    /\ r.side = "fail"
    /\ \/ ~Owns(r.j, r.p) /\ NoFault
       \/ Fault("database")
    /\ LET rest == Put(r, [r EXCEPT !.side = "done", !.cyc = FALSE])
       IN  runs' = {IF r.cyc /\ s.p = r.p THEN [s EXCEPT !.cyc = FALSE] ELSE s : s \in rest}
    /\ UNCHANGED <<jobs, requests>>

\* The renewal timer of a run; while the lease is live it changes nothing.
Renew(r) ==
    /\ r.side # "done"
    /\ Owns(r.j, r.p) /\ jobs[r.j].lease = "expired"
    /\ jobs' = renewJobLease(r.j)
    /\ UNCHANGED <<runs, faults, requests>>

\* Time passes.  The lease of a run that is being renewed runs out only when the
\* process stalls.
LeaseExpires(j) ==
    /\ jobs[j].status = "RUNNING" /\ jobs[j].lease = "live"
    /\ IF \E r \in runs : r.j = j /\ r.p = jobs[j].lockedBy /\ r.side # "done"
       THEN Fault("stall") ELSE NoFault
    /\ jobs' = [jobs EXCEPT ![j].lease = "expired"]
    /\ UNCHANGED <<runs, requests>>

\* processJob on a CKB_RECONCILE_TRANSACTION: complete, defer or throw.  What the
\* reconciliation does is the subject of CkbSettlement.
Reconcile(r) ==
    /\ r.work = "start" /\ jobs[r.j].payload \in Transactions
    /\ \E outcome \in {"complete", "defer", "fail"} :
          /\ outcome = "defer" => r.n < MaxClaims
          /\ runs' = WorkEnds(r, outcome)
    /\ UNCHANGED <<jobs, faults, requests>>

-----------------------------------------------------------------------------
(* Requests                                                                *)

\* A settlement request enqueues the watch of its transaction.
EnqueueReconciliation(t) ==
    /\ Request
    /\ jobs' = enqueueJob(jobs, t, t, DefaultMaxAttempts)
    /\ UNCHANGED <<runs, faults>>

\* POST /v1/admin/jobs/:id/replay
Replay(j) ==
    /\ jobs[j].status \in JobTerminal
    /\ Request
    /\ jobs' = replayJob(j)
    /\ UNCHANGED <<runs, faults>>

-----------------------------------------------------------------------------
RunStep(r) == Settle(r) \/ Fail(r) \/ Renew(r) \/ Reconcile(r)

JobStep ==
    \/ \E r \in runs : RunStep(r) \/ Deadline(r)
    \/ \E j \in DOMAIN jobs : LeaseExpires(j) \/ Replay(j)
    \/ \E t \in Transactions : EnqueueReconciliation(t)

JobsTypeOK ==
    /\ \A j \in DOMAIN jobs :
          /\ jobs[j].status \in JobActive \cup JobTerminal \cup JobDeleted
          /\ jobs[j].lockedBy \in Workers \cup {NoWorker}
          /\ jobs[j].lease \in {"none", "live", "expired"}
    /\ \A r \in runs :
          /\ r.p \in Workers /\ r.j \in DOMAIN jobs
          /\ r.side \in {"await", "complete", "defer", "fail", "done"}
    /\ faults \in 0..MaxFaults /\ requests \in 0..MaxRequests
=============================================================================
