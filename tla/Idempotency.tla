---------------------------- MODULE Idempotency ----------------------------
(***************************************************************************)
(* The idempotency record of one key of one app, and the concurrent        *)
(* requests and retries that carry this key: idempotency.service.ts and    *)
(* idempotency.repository.ts as runIdempotentTransaction uses them.        *)
(*                                                                         *)
(* A request looks the key up, reserves it in one database transaction,    *)
(* does its work and stores its response in a second one, and clears its   *)
(* reservation when the work throws.  Processes die anywhere in between;   *)
(* the processing lease of a pending record and the retention period of a  *)
(* completed one run out, and the worker deletes what has run out.         *)
(***************************************************************************)
EXTENDS Naturals

CONSTANTS
    Requests,       \* the requests that carry the key, retries included
    Hashes,         \* hashes of method, path and body
    NoRequest,      \* the response of a record that has none
    LeaseCoversRequests  \* does idempotencyProcessingLeaseMs exceed the running
                         \* time of every live request?  config.ts does not say

ASSUME NoRequestFresh == NoRequest \notin Requests
ASSUME LeaseKnown == LeaseCoversRequests \in BOOLEAN

VARIABLES
    record,     \* the IdempotencyKey row, or NoRecord
    req,        \* the requests in flight
    reply,      \* what each client was answered
    effects     \* history: requests whose work was committed since the key was
                \* last forgotten at the end of its retention

vars == <<record, req, reply, effects>>

-----------------------------------------------------------------------------
(* Types                                                                   *)

NoRecord == [status |-> "none"]

\* over: the processing lease of a pending record or the retention of a
\* completed one has run out; by: the request that created the row, which the
\* database does not know.
Records ==
    {NoRecord} \cup
    [status: {"pending", "completed"}, hash: Hashes,
     response: Requests \cup {NoRequest}, over: BOOLEAN, by: Requests]

\* reserved and raced: the local variables of runIdempotentTransaction.
IdleRequest == [pc |-> "idle", reserved |-> FALSE, raced |-> FALSE]
RequestStates ==
    {IdleRequest} \cup
    [pc: {"lookup", "purge", "again", "reserve", "run", "clear", "done", "dead"},
     hash: Hashes, reserved: BOOLEAN, raced: BOOLEAN]

Ended == {"idle", "done", "dead"}
Live(r) == req[r].pc \notin Ended

\* Answers that carry no result.
Refusals == {"none", "conflict", "in_progress", "error"}
ASSUME RequestsAreNoRefusals == Requests \cap Refusals = {}

\* The record, the requests and the answers are well formed.
TypeOK ==
    /\ record \in Records
    /\ req \in [Requests -> RequestStates]
    /\ reply \in [Requests -> Requests \cup Refusals]
    /\ effects \in SUBSET Requests

Init ==
    /\ record = NoRecord
    /\ req = [r \in Requests |-> IdleRequest]
    /\ reply = [r \in Requests |-> "none"]
    /\ effects = {}

-----------------------------------------------------------------------------
(* Helpers                                                                 *)

Go(r, pc) ==
    req' = [req EXCEPT ![r] = [pc |-> pc, hash |-> @.hash, reserved |-> @.reserved,
                               raced |-> @.raced]]
Answer(r, what) ==
    /\ reply' = [reply EXCEPT ![r] = what]
    /\ Go(r, "done")

\* deleteExpiredIdempotencyKey and cleanupExpiredIdempotencyKeys: one
\* conditional DELETE.  A completed record that goes ends the retention of its
\* effects.
DeleteExpired ==
    IF record # NoRecord /\ record.over
    THEN /\ record' = NoRecord
         /\ effects' = IF record.status = "completed" THEN {} ELSE effects
    ELSE UNCHANGED <<record, effects>>

\* A seeded fault: whatever row there is for the request is replayed, completed
\* or not.
ReplayAnyRecord(r) ==
    \/ /\ record = NoRecord
       /\ Go(r, "reserve")
       /\ UNCHANGED reply
    \/ /\ record # NoRecord
       /\ record.hash = req[r].hash
       /\ Answer(r, record.response)

\* A seeded fault: a completed row answers every request with its key.
ReplayByKey(r) ==
    \/ /\ record = NoRecord
       /\ Go(r, "reserve")
       /\ UNCHANGED reply
    \/ /\ record # NoRecord
       /\ Answer(r, IF record.status = "completed" THEN record.response ELSE "in_progress")

\* getIdempotencyReplay once expired rows are out of the way: no row lets the
\* caller go on, another request's row is a conflict, and so is a row that is
\* not completed.  A caller that lost a race and finds no row throws.
Replay(r) ==
    \/ /\ record = NoRecord
       /\ ~req[r].raced
       /\ Go(r, "reserve")
       /\ UNCHANGED reply
    \/ /\ record = NoRecord
       /\ req[r].raced /\ req[r].reserved
       /\ Go(r, "clear")
       /\ UNCHANGED reply
    \/ /\ record = NoRecord
       /\ req[r].raced /\ ~req[r].reserved
       /\ Answer(r, "error")
    \/ /\ record # NoRecord
       /\ record.hash # req[r].hash
       /\ Answer(r, "conflict")
    \/ /\ record # NoRecord
       /\ record.hash = req[r].hash
       /\ record.status = "pending"
       /\ Answer(r, "in_progress")
    \/ /\ record # NoRecord
       /\ record.hash = req[r].hash
       /\ record.status = "completed"
       /\ Answer(r, record.response)

-----------------------------------------------------------------------------
(* runIdempotentTransaction                                                *)

\* A client sends the request, or sends it again.
Send(r, h) ==
    /\ req[r] = IdleRequest
    /\ req' = [req EXCEPT ![r] = [pc |-> "lookup", hash |-> h, reserved |-> FALSE,
                                  raced |-> FALSE]]
    /\ UNCHANGED <<record, reply, effects>>

\* The first read.  A row that has run out is deleted and read again.
Lookup(r) ==
    /\ req[r].pc = "lookup"
    /\ IF record # NoRecord /\ record.over
       THEN Go(r, "purge") /\ UNCHANGED reply
       ELSE Replay(r)
    /\ UNCHANGED <<record, effects>>

\* A seeded fault: the row that was read as expired is deleted by its key
\* alone, whatever stands there now.
PurgeByKey(r) ==
    /\ req[r].pc = "purge"
    /\ record' = NoRecord
    /\ Go(r, "again")
    /\ UNCHANGED <<reply, effects>>

Purge(r) ==
    /\ req[r].pc = "purge"
    /\ DeleteExpired
    /\ Go(r, "again")
    /\ UNCHANGED reply

LookupAgain(r) ==
    /\ req[r].pc = "again"
    /\ Replay(r)
    /\ UNCHANGED <<record, effects>>

\* reserveIdempotentRequest: INSERT, or a unique violation and a second lookup.
Reserve(r) ==
    /\ req[r].pc = "reserve"
    /\ \/ /\ record = NoRecord
          /\ record' = [status |-> "pending", hash |-> req[r].hash,
                        response |-> NoRequest, over |-> FALSE, by |-> r]
          /\ req' = [req EXCEPT ![r] = [pc |-> "run", hash |-> @.hash,
                                        reserved |-> TRUE, raced |-> FALSE]]
       \/ /\ record # NoRecord
          /\ req' = [req EXCEPT ![r] = [pc |-> "lookup", hash |-> @.hash,
                                        reserved |-> FALSE, raced |-> TRUE]]
          /\ UNCHANGED record
    /\ UNCHANGED <<reply, effects>>

\* A seeded fault: the response is stored after the work, in a transaction of
\* its own, which a process that dies in between never runs.
RunWithoutStoring(r) ==
    /\ req[r].pc = "run"
    /\ effects' = effects \cup {r}
    /\ Answer(r, r)
    /\ UNCHANGED record

\* The work and storeIdempotentResponse commit together.  The UPDATE finds the
\* row by its key alone: whoever reserved it, and pending or not.
Run(r) ==
    /\ req[r].pc = "run"
    /\ record # NoRecord
    /\ record' = [status |-> "completed", hash |-> req[r].hash, response |-> r,
                  over |-> FALSE, by |-> record.by]
    /\ effects' = effects \cup {r}
    /\ Answer(r, r)

\* The work throws, the response is too large, or the UPDATE finds no row: the
\* transaction rolls back.
RunFails(r) ==
    /\ req[r].pc = "run"
    /\ Go(r, "clear")
    /\ UNCHANGED <<record, reply, effects>>

\* The work itself hits a unique index, which is taken for a lost race.
RunHitsUniqueIndex(r) ==
    /\ req[r].pc = "run"
    /\ req' = [req EXCEPT ![r] = [pc |-> "lookup", hash |-> @.hash, reserved |-> TRUE,
                                  raced |-> TRUE]]
    /\ UNCHANGED <<record, reply, effects>>

\* clearPendingIdempotentRequest deletes a pending row with the same hash, or
\* fails unnoticed, or is skipped because the failing promise was returned and
\* not awaited (markEscrowFunded); then the error goes to the client.
ClearPending(r) ==
    /\ req[r].pc = "clear"
    /\ \/ UNCHANGED record
       \/ /\ record # NoRecord
          /\ record.status = "pending"
          /\ record.hash = req[r].hash
          /\ record' = NoRecord
    /\ Answer(r, "error")
    /\ UNCHANGED effects

\* The API process dies.
Crash(r) ==
    /\ Live(r)
    /\ Go(r, "dead")
    /\ UNCHANGED <<record, reply, effects>>

-----------------------------------------------------------------------------
(* Time and the worker                                                     *)

\* processingExpiresAt passes; if the lease covers every request, then only
\* after the one that took it has ended.
LeaseExpires ==
    /\ record # NoRecord /\ record.status = "pending" /\ ~record.over
    /\ LeaseCoversRequests => ~Live(record.by)
    /\ record' = [status |-> "pending", hash |-> record.hash,
                  response |-> record.response, over |-> TRUE, by |-> record.by]
    /\ UNCHANGED <<req, reply, effects>>

\* expiresAt passes.
RetentionEnds ==
    /\ record # NoRecord /\ record.status = "completed" /\ ~record.over
    /\ record' = [status |-> "completed", hash |-> record.hash,
                  response |-> record.response, over |-> TRUE, by |-> record.by]
    /\ UNCHANGED <<req, reply, effects>>

\* A seeded fault: only completed records are ever cleaned up.
CleanupCompleted ==
    /\ record # NoRecord /\ record.over /\ record.status = "completed"
    /\ record' = NoRecord
    /\ effects' = {}
    /\ UNCHANGED <<req, reply>>

\* cleanupExpiredIdempotencyKeys, every ten minutes.
Cleanup ==
    /\ record # NoRecord /\ record.over
    /\ DeleteExpired
    /\ UNCHANGED <<req, reply>>

-----------------------------------------------------------------------------
RequestStep(r) ==
    \/ Lookup(r)
    \/ Purge(r)
    \/ LookupAgain(r)
    \/ Reserve(r)
    \/ Run(r)
    \/ RunFails(r)
    \/ RunHitsUniqueIndex(r)
    \/ ClearPending(r)

Next ==
    \/ \E r \in Requests :
          \/ \E h \in Hashes : Send(r, h)
          \/ RequestStep(r)
          \/ Crash(r)
    \/ LeaseExpires
    \/ RetentionEnds
    \/ Cleanup

Spec == Init /\ [][Next]_vars

-----------------------------------------------------------------------------
(* Safety                                                                  *)

\* Within one retention period the work is committed once, whatever the number
\* of retries, races and crashes (the processing lease of
\* reserveIdempotencyKey).
OneEffect == \A q, r \in effects : q = r

\* Work that was committed is on record with a committed response until the
\* retention ends, so that a retry replays it and never repeats it
\* (runIdempotentTransaction, deleteExpiredIdempotencyKey).
EffectIsRecorded ==
    effects # {} => record.status = "completed" /\ record.response \in effects

\* A client that is answered with a result gets one of a request with the very
\* same method, path and body, its own or a replayed one (requestHash).
RepliesMatchRequests ==
    \A r \in Requests :
        reply[r] \in Requests => req[reply[r]].hash = req[r].hash

-----------------------------------------------------------------------------
(* Liveness                                                                *)

\* A live request takes its next step, time passes, and the worker's cleanup
\* timer fires.  Requests may die at any moment.
Fairness ==
    /\ \A r \in Requests : WF_vars(RequestStep(r))
    /\ WF_vars(LeaseExpires)
    /\ WF_vars(Cleanup)

FairSpec == Spec /\ Fairness

\* A key does not stay blocked: a reservation is completed or goes away, the
\* ones that crashed or misjudged requests leave behind included.
ReservationEnds == record.status = "pending" ~> record.status # "pending"
=============================================================================
