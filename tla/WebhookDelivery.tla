--------------------------- MODULE WebhookDelivery ---------------------------
(***************************************************************************)
(* Webhook endpoints and deliveries (modules/webhooks), the events that    *)
(* create them, and the circuit breaker their requests go through, on top  *)
(* of the durable jobs and the runs that execute them (JobRuns).  Of the   *)
(* processes it keeps that they poll, run and die: a worker polls whenever *)
(* it is not in a cycle, which allows every behaviour of WorkerLoop.       *)
(*                                                                         *)
(* A delivery is worked on by any run of any of its jobs: the run reads    *)
(* the row, posts to the endpoint, follows redirects and records the       *)
(* result in one transaction that compares status and attempts with what   *)
(* it read, and that enqueues the next attempt or announces the failure.   *)
(***************************************************************************)
EXTENDS JobRuns, WebhookEgress, SequencesExt

CONSTANTS
    Endpoints,      \* webhook endpoints of one app
    FailureSubscribers,     \* those subscribed to webhook.delivery_failed
    Urls,           \* URLs an endpoint or a redirect may name
    DnsAnswers,     \* what the resolver may answer for a name
    Environment,    \* the app's environment
    MaxRedirects,   \* WEBHOOK_MAX_REDIRECTS
    RetryLimit,     \* length of WEBHOOK_RETRY_DELAYS_MS
    FailureThreshold    \* failures that open the circuit

ASSUME SubscribersAreEndpoints == FailureSubscribers \subseteq Endpoints
ASSUME EndpointsFinite == IsFiniteSet(Endpoints)

\* Deliveries are named by numbers; ids of transactions are something else.
ASSUME TransactionsAreIds ==
    \A x \in Transactions \cup {NoKey} : x \notin Nat /\ x \notin Nat \X Nat
ASSUME TargetsKnown ==
    /\ \A url \in Urls :
          \/ url.host.ver = 0
          \/ url.host \in Addresses /\ (url.host.ver = 46 => url.host.form # "dotted")
    /\ DnsAnswers \subseteq Seq(Addresses)
ASSUME LimitsAreNumbers ==
    /\ {MaxRedirects, RetryLimit} \subseteq Nat
    /\ FailureThreshold \in Nat \ {0}

VARIABLES
    endpoints,  \* the WebhookEndpoint rows
    edits,      \* updates of endpoints between their read and their write
    deliveries, \* the WebhookDelivery rows in order of creation
    circuit     \* provider.ts: the circuit of each process

webhookVars == <<endpoints, edits, deliveries, circuit>>
vars == <<runVars, webhookVars>>

NoEndpoint == [status |-> "absent"]
Found(e) == endpoints[e].status # "absent" /\ ~endpoints[e].deleted

NewDelivery(type, e) ==
    [type |-> type, endpoint |-> e, status |-> "PENDING", attempts |-> 0]

Closed == [failures |-> 0, open |-> FALSE]

Init ==
    /\ RunInit
    /\ endpoints = [e \in Endpoints |-> NoEndpoint]
    /\ edits = {}
    /\ deliveries = <<>>
    /\ circuit = [p \in Workers |-> Closed]

-----------------------------------------------------------------------------
(* Events                                                                  *)

\* createWebhookDeliveriesForEvent: a row and its job for every endpoint that
\* is active and subscribed.
Subscribers(type) ==
    SetToSeq({e \in Endpoints : /\ Found(e) /\ endpoints[e].status = "active"
                                /\ type = "failure" => e \in FailureSubscribers})

\* The rows and jobs after createEvent added its own.
WithEvent(rows, type) ==
    rows \o [i \in DOMAIN Subscribers(type) |-> NewDelivery(type, Subscribers(type)[i])]

WithEventJobs(q, rows, type) ==
    q \o [i \in DOMAIN Subscribers(type) |->
            NewJob(Len(rows) + i, <<Len(rows) + i, 0>>, 1, FALSE)]

\* A business operation publishes an event in its transaction.
CreateEvent ==
    /\ Request
    /\ Subscribers("event") # <<>>
    /\ deliveries' = WithEvent(deliveries, "event")
    /\ jobs' = WithEventJobs(jobs, deliveries, "event")
    /\ UNCHANGED <<runs, faults, endpoints, edits, circuit>>

-----------------------------------------------------------------------------
(* Endpoints                                                               *)

CreateEndpoint(e) ==
    /\ endpoints[e] = NoEndpoint
    /\ \E url \in Urls, answer \in DnsAnswers :
          /\ resolveAllowedTarget(url, Environment, answer)
          /\ endpoints' = [endpoints EXCEPT ![e] =
                [status |-> "active", deleted |-> FALSE, url |-> url]]
    /\ UNCHANGED <<runVars, edits, deliveries, circuit>>

\* updateWebhookEndpointForApp reads the row and checks the URL ...
BeginUpdate(e) ==
    /\ Request
    /\ Found(e)
    /\ \E status \in {"active", "disabled"}, url \in Urls, answer \in DnsAnswers :
          /\ resolveAllowedTarget(url, Environment, answer)
          /\ edits' = edits \cup {[e |-> e, status |-> status, url |-> url]}
    /\ UNCHANGED <<jobs, runs, faults, endpoints, deliveries, circuit>>

\* ... and writes it by its id, whatever happened in between.
EndUpdate(edit) ==
    /\ edits' = edits \ {edit}
    /\ endpoints' = [endpoints EXCEPT ![edit.e].status = edit.status,
                                      ![edit.e].url = edit.url]
    /\ UNCHANGED <<runVars, deliveries, circuit>>

DeleteEndpoint(e) ==
    /\ Request
    /\ Found(e)
    /\ endpoints' = [endpoints EXCEPT ![e].status = "disabled", ![e].deleted = TRUE]
    /\ UNCHANGED <<jobs, runs, faults, edits, deliveries, circuit>>

\* retryWebhookDeliveryForApp; the key of its job carries the time and meets no
\* other.
RetryDelivery(d) ==
    /\ Request
    /\ deliveries[d].status \in {"FAILED", "RETRY"}
    /\ deliveries' = [deliveries EXCEPT ![d].status = "PENDING"]
    /\ jobs' = enqueueJob(jobs, d, NoKey, 1)
    /\ UNCHANGED <<runs, faults, endpoints, edits, circuit>>

-----------------------------------------------------------------------------
(* deliverWebhookDelivery                                                  *)

DeliveryRun(r) == jobs[r.j].payload \in DOMAIN deliveries
Row(r) == deliveries[jobs[r.j].payload]

\* The failure of one provider request, as executeProviderRequest counts it.
Failed(p) ==
    LET n == IF circuit[p].failures < FailureThreshold
             THEN circuit[p].failures + 1 ELSE FailureThreshold
    IN  [failures |-> n, open |-> circuit[p].open \/ n = FailureThreshold]

\* The row is read; the request passes the circuit breaker or fails at once.
\* fetch: the url and hop of the loop of fetchWebhookUrl; to: the address the
\* last request went to.
ReadDelivery(r) ==
    /\ DeliveryRun(r) /\ r.work = "start" /\ Row(r).status # "DELETED"
    /\ LET target == endpoints[Row(r).endpoint]
           seen == [status |-> Row(r).status, attempts |-> Row(r).attempts,
                    fetch |-> <<target.url, 0>>, to |-> <<>>]
           next == IF target.status # "active" THEN "inactive"
                   ELSE IF circuit[r.p].open THEN "bad" ELSE "send"
       IN  IF Row(r).status = "DELIVERED"
           THEN runs' = WorkEnds(r, "complete")
           ELSE runs' = Put(r, [r EXCEPT !.work = next, !.note = seen])
    /\ UNCHANGED <<jobs, faults, requests, webhookVars>>

\* The row is gone, cannot be read, or its secret not be decrypted: the job fails.
ReadFails(r) ==
    /\ DeliveryRun(r) /\ r.work = "start"
    /\ \/ Row(r).status = "DELETED" /\ NoFault
       \/ Fault("database")
    /\ runs' = WorkEnds(r, "fail")
    /\ UNCHANGED <<jobs, requests, webhookVars>>

\* One turn of the loop of fetchWebhookUrl, with the answer of its request: the
\* target is refused or fails, answers with success, or redirects.  Directly or
\* through the egress proxy, the request goes to the first address checked.
Answered(r, work, to) ==
    Put(r, [r EXCEPT !.work = work, !.note.fetch = <<>>, !.note.to = to])

Send(r) ==
    LET url == r.note.fetch[1]
        hop == r.note.fetch[2]
    IN  /\ r.work = "send"
        /\ \E answer \in DnsAnswers :
              LET to == resolveHostname(url.host, answer)
              IN  \/ /\ ~resolveAllowedTarget(url, Environment, answer)
                     /\ runs' = Answered(r, "bad", <<>>)
                     /\ circuit' = [circuit EXCEPT ![r.p] = Failed(r.p)]
                  \/ /\ resolveAllowedTarget(url, Environment, answer)
                     /\ \/ /\ runs' = Answered(r, "bad", <<Head(to)>>)
                           /\ circuit' = [circuit EXCEPT ![r.p] = Failed(r.p)]
                        \/ /\ runs' = Answered(r, "ok", <<Head(to)>>)
                           /\ circuit' = [circuit EXCEPT ![r.p].failures = 0]
                        \/ /\ hop < MaxRedirects
                           /\ \E location \in Urls :
                                 runs' = Put(r, [r EXCEPT !.note.fetch = <<location, hop + 1>>,
                                                          !.note.to = <<Head(to)>>])
                           /\ UNCHANGED circuit
        /\ UNCHANGED <<jobs, faults, requests, endpoints, edits, deliveries>>

\* A seeded fault: the job's status is given to the delivery.
ResultMutDeadLetter(r) ==
    CASE r.work = "ok" -> "DELIVERED"
      [] r.work = "inactive" -> "DEAD_LETTER"
      [] r.work = "bad" -> IF r.note.attempts + 1 <= RetryLimit THEN "RETRY" ELSE "DEAD_LETTER"

\* getWebhookRetryDelayMs answers null after the last delay.
Result(r) ==
    CASE r.work = "ok" -> "DELIVERED"
      [] r.work = "inactive" -> "FAILED"
      [] r.work = "bad" -> IF r.note.attempts + 1 <= RetryLimit THEN "RETRY" ELSE "FAILED"

\* updateWebhookDeliveryResult's condition.
Unchanged(r) == /\ Row(r).status = r.note.status
                /\ Row(r).attempts = r.note.attempts

\* A seeded fault: the next attempt is not enqueued.
CommitMutNoRetryJob(r) ==
    LET d == jobs[r.j].payload
        rows == [deliveries EXCEPT ![d].status = Result(r), ![d].attempts = @ + 1]
    IN  /\ deliveries' = rows
        /\ UNCHANGED jobs

\* The transaction of recordDeliveryResult.
Commit(r) ==
    LET d == jobs[r.j].payload
        rows == [deliveries EXCEPT ![d].status = Result(r), ![d].attempts = @ + 1]
    IN  IF Result(r) = "FAILED" /\ Row(r).type # "failure"
        THEN /\ deliveries' = WithEvent(rows, "failure")
             /\ jobs' = WithEventJobs(jobs, rows, "failure")
        ELSE /\ deliveries' = rows
             /\ jobs' = IF Result(r) = "RETRY"
                        THEN enqueueJob(jobs, d, <<d, r.note.attempts + 1>>, 1)
                        ELSE jobs

\* A seeded fault: the result is written whatever became of the row.
RecordMutBlind(r) == Commit(r)

RecordDelivery(r) == IF Unchanged(r) THEN Commit(r) ELSE UNCHANGED <<deliveries, jobs>>

Recording(r) == r.work \in {"ok", "bad", "inactive"}

RecordResult(r) ==
    /\ Recording(r)
    /\ RecordDelivery(r)
    /\ runs' = WorkEnds(r, "complete")
    /\ UNCHANGED <<faults, requests, endpoints, edits, circuit>>

\* The transaction fails, or commits and its answer is lost.  After a success
\* this lands in the catch that records a failed attempt; otherwise it fails
\* the job.
RecordFails(r) ==
    /\ Recording(r)
    /\ Fault("database")
    /\ RecordDelivery(r) \/ UNCHANGED <<deliveries, jobs>>
    /\ runs' = IF r.work = "ok" THEN Put(r, [r EXCEPT !.work = "bad"]) ELSE WorkEnds(r, "fail")
    /\ UNCHANGED <<requests, endpoints, edits, circuit>>

\* openUntil passes; failures keeps its value until the next success.
CircuitCloses(p) ==
    /\ circuit[p].open
    /\ circuit' = [circuit EXCEPT ![p].open = FALSE]
    /\ UNCHANGED <<runVars, endpoints, edits, deliveries>>

Polls(p) == ~InCycle(p) /\ Poll(p) /\ UNCHANGED webhookVars

\* A killed process takes its circuit with it.
Dies(p) ==
    /\ Fault("crash") /\ Kill(p)
    /\ circuit' = [circuit EXCEPT ![p] = Closed]
    /\ UNCHANGED <<endpoints, edits, deliveries>>

-----------------------------------------------------------------------------
(* runRetention, which an operator starts (scripts/applyRetention.ts):     *)
(* rows that were not written for days are deleted, class by class and     *)
(* batch by batch, hence one by one.  A run that works on such a row does  *)
(* not last that long and the others do not look at it, so it is enough to *)
(* let retention happen while no run is in flight.                         *)

RetentionOfDelivery(d) ==
    /\ deliveries[d].status \in {"DELIVERED", "FAILED"}
    /\ runs = {}
    /\ Request
    /\ deliveries' = [deliveries EXCEPT ![d].status = "DELETED"]
    /\ UNCHANGED <<jobs, runs, faults, endpoints, edits, circuit>>

RetentionOfJob(j) ==
    /\ jobs[j].status \in JobTerminal
    /\ runs = {}
    /\ Request
    /\ jobs' = deleteExpiredJob(j)
    /\ UNCHANGED <<runs, faults, webhookVars>>

-----------------------------------------------------------------------------
DeliverStep(r) == ReadDelivery(r) \/ Send(r) \/ RecordResult(r)

Next ==
    \/ JobStep /\ UNCHANGED webhookVars
    \/ \E p \in Workers : Polls(p) \/ CircuitCloses(p) \/ Dies(p)
    \/ \E r \in runs : \/ DeliverStep(r) \/ ReadFails(r) \/ RecordFails(r)
                       \/ FailThrows(r) /\ UNCHANGED webhookVars
    \/ \E d \in DOMAIN deliveries : RetryDelivery(d) \/ RetentionOfDelivery(d)
    \/ \E j \in DOMAIN jobs : RetentionOfJob(j)
    \/ \E e \in Endpoints : CreateEndpoint(e) \/ BeginUpdate(e) \/ DeleteEndpoint(e)
    \/ \E edit \in edits : EndUpdate(edit)
    \/ CreateEvent

Spec == Init /\ [][Next]_vars

-----------------------------------------------------------------------------
(* Properties                                                              *)

(* Every job is about a row that exists, and statuses keep their types.    *)
TypeOK ==
    /\ JobsTypeOK
    /\ \A j \in DOMAIN jobs : jobs[j].payload \in Transactions \cup DOMAIN deliveries
    /\ \A r \in runs : r.work \in {"start", "send", "ok", "bad", "inactive", "end"}
    /\ \A d \in DOMAIN deliveries :
          deliveries[d].status \in {"PENDING", "RETRY", "DELIVERED", "FAILED", "DELETED"}
    /\ \A p \in Workers : circuit[p].failures \in 0..FailureThreshold

Undecided(d) == deliveries[d].status \in {"PENDING", "RETRY"}
JobsOf(d) == {j \in DOMAIN jobs : jobs[j].payload = d}

(* No delivery is forgotten: while it is neither delivered nor failed, it  *)
(* has a job that will be claimed, or one in the dead-letter list that an  *)
(* administrator can replay.  deliverWebhookDelivery completes its job     *)
(* only after the result is recorded or someone else has recorded one, and *)
(* the next attempt is enqueued in the same transaction.  The exception is *)
(* a dead letter that retention has deleted: the row of the delivery is    *)
(* kept for as long as it is undecided, its letter only for some days.     *)
UndecidedIsRecoverable ==
    \A d \in DOMAIN deliveries :
        Undecided(d) => \E j \in JobsOf(d) :
                            jobs[j].status \in JobActive \cup {"DEAD_LETTER", "LETTER_DELETED"}

(* A delivery that is DELIVERED stays so until retention deletes it, and   *)
(* every recorded attempt counts once: neither the late result of another  *)
(* run, nor the catch after a lost commit, nor a manual retry takes it     *)
(* back.                                                                   *)
DeliveredStays ==
    [][\A d \in DOMAIN deliveries :
          /\ deliveries[d].status = "DELIVERED" => deliveries'[d].status \in {"DELIVERED", "DELETED"}
          /\ deliveries[d].status = "DELETED" => deliveries'[d] = deliveries[d]
          /\ deliveries'[d].attempts \in {deliveries[d].attempts, deliveries[d].attempts + 1}
      ]_deliveries

\* The address the last request of a run went to.
Contacted ==
    {r.note.to[1] : r \in {q \in runs : /\ DeliveryRun(q)
                                       /\ q.work \in {"send", "ok", "bad"}
                                       /\ q.note.to # <<>>}}

(* Of the addresses whose class the code recognises only public ones are   *)
(* contacted: each hop of a redirect chain is resolved and checked anew,   *)
(* every answer of the resolver counts, and the request goes to an address *)
(* that was checked.                                                       *)
RecognisedContactsPublic == \A addr \in Contacted : Recognised(addr) => ~IsSpecial(addr)

(* webhook.security.test.ts: "webhook URL validation blocks reserved IPv4  *)
(* and IPv6 address classes".                                              *)
OnlyPublicContacted == \A addr \in Contacted : ~IsSpecial(addr)

(* worker-jobs.md: "a process that lost its lease cannot later commit a    *)
(* result".                                                                *)
LostLeaseCommitsNothing ==
    [][\A d \in DOMAIN deliveries :
          deliveries'[d].attempts # deliveries[d].attempts =>
              \E r \in runs \ runs' : jobs[r.j].payload = d /\ Owns(r.j, r.p)
      ]_deliveries
=============================================================================
