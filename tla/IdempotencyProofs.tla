------------------------- MODULE IdempotencyProofs -------------------------
(***************************************************************************)
(* Proofs about Idempotency, for any number of requests and hashes.        *)
(***************************************************************************)
EXTENDS Idempotency, TLAPS

\* A completed record holds the result of a finished request with its hash.
ResponseGenuine ==
    record.status = "completed" =>
        /\ record.response \in Requests
        /\ req[record.response].pc = "done"
        /\ req[record.response].hash = record.hash

\* A result is only in the hands of finished requests, and comes from one.
RepliesGenuine ==
    \A r \in Requests :
        reply[r] \in Requests =>
            /\ req[r].pc = "done"
            /\ req[reply[r]].pc = "done"
            /\ req[reply[r]].hash = req[r].hash

\* The request took the reservation and has not given it up yet.
Holds(r) ==
    \/ req[r].pc \in {"run", "clear"}
    \/ req[r].pc \in {"lookup", "purge", "again"} /\ req[r].reserved

\* While the lease covers it, the row is there, fresh, and its own.
HolderOwnsRecord ==
    LeaseCoversRequests =>
        \A r \in Requests :
            Holds(r) => /\ record # NoRecord
                        /\ record.status = "pending"
                        /\ record.by = r
                        /\ ~record.over

OneEffectIfCovered == LeaseCoversRequests => OneEffect

IndInv ==
    /\ TypeOK
    /\ EffectIsRecorded
    /\ ResponseGenuine
    /\ RepliesGenuine
    /\ HolderOwnsRecord
    /\ OneEffectIfCovered
-----------------------------------------------------------------------------
\* A lookup leaves the row alone; it ends the request or moves it on, and what
\* it hands out is the response of a completed row with the same hash
\* (getIdempotencyReplay).
ReplayOutcome(r) ==
    \E pc \in {"reserve", "clear", "done"} :
        /\ Go(r, pc)
        /\ pc = "clear" => record = NoRecord /\ req[r].reserved
        /\ \/ reply' = reply
           \/ \E refusal \in Refusals : reply' = [reply EXCEPT ![r] = refusal] /\ pc = "done"
           \/ /\ reply' = [reply EXCEPT ![r] = record.response]
              /\ pc = "done"
              /\ record.status = "completed"
              /\ record.hash = req[r].hash

\* What getIdempotencyReplay can do to its caller.
LEMMA ReplayShape ==
    ASSUME NEW r \in Requests, Replay(r)
    PROVE  ReplayOutcome(r)
BY DEF Replay, Answer, ReplayOutcome, Refusals

\* Every step keeps the record, the requests and the answers well formed.
LEMMA TypeNext == IndInv /\ [Next]_vars => TypeOK'
<1> SUFFICES ASSUME IndInv, [Next]_vars PROVE TypeOK'
  OBVIOUS
<1> USE DEF RequestStates, Records, IdleRequest, NoRecord
<1>1. CASE UNCHANGED vars
  BY <1>1 DEF IndInv, TypeOK, vars
<1>2. ASSUME NEW r \in Requests, RequestStep(r) PROVE TypeOK'
  <2>1. CASE Lookup(r)
    <3>1. ReplayOutcome(r) => TypeOK'
      <4> SUFFICES ASSUME ReplayOutcome(r) PROVE TypeOK'
        OBVIOUS
      <4>1. req[r].pc # "idle"
        BY <2>1 DEF Lookup
      <4>2. PICK pc \in {"reserve", "clear", "done"} : Go(r, pc)
        BY DEF ReplayOutcome
      <4>3. req' \in [Requests -> RequestStates]
        BY <4>1, <4>2 DEF IndInv, TypeOK, Go
      <4>4. reply' \in [Requests -> Requests \cup Refusals]
        BY DEF IndInv, TypeOK, ReplayOutcome, ResponseGenuine
      <4>5. UNCHANGED <<record, effects>>
        BY <2>1 DEF Lookup
      <4> QED
        BY <4>3, <4>4, <4>5 DEF IndInv, TypeOK
    <3> QED
      BY <2>1, <3>1, ReplayShape DEF IndInv, TypeOK, Lookup, Go
  <2>2. CASE Purge(r)
    <3>1. record' \in Records /\ effects' \in SUBSET Requests
      BY <2>2 DEF IndInv, TypeOK, Purge, DeleteExpired
    <3>2. req' \in [Requests -> RequestStates]
      BY <2>2 DEF IndInv, TypeOK, Purge, Go
    <3> QED
      BY <2>2, <3>1, <3>2 DEF IndInv, TypeOK, Purge
  <2>3. CASE LookupAgain(r)
    <3>1. ReplayOutcome(r) => TypeOK'
      <4> SUFFICES ASSUME ReplayOutcome(r) PROVE TypeOK'
        OBVIOUS
      <4>1. req[r].pc # "idle"
        BY <2>3 DEF LookupAgain
      <4>2. PICK pc \in {"reserve", "clear", "done"} : Go(r, pc)
        BY DEF ReplayOutcome
      <4>3. req' \in [Requests -> RequestStates]
        BY <4>1, <4>2 DEF IndInv, TypeOK, Go
      <4>4. reply' \in [Requests -> Requests \cup Refusals]
        BY DEF IndInv, TypeOK, ReplayOutcome, ResponseGenuine
      <4>5. UNCHANGED <<record, effects>>
        BY <2>3 DEF LookupAgain
      <4> QED
        BY <4>3, <4>4, <4>5 DEF IndInv, TypeOK
    <3> QED
      BY <2>3, <3>1, ReplayShape DEF IndInv, TypeOK, LookupAgain
  <2>4. CASE Reserve(r)
    <3>1. req[r].hash \in Hashes /\ UNCHANGED <<reply, effects>>
      BY <2>4 DEF IndInv, TypeOK, Reserve
    <3>2. CASE record = NoRecord
      <4> HIDE DEF NoRecord
      <4>1. /\ record' = [status |-> "pending", hash |-> req[r].hash,
                          response |-> NoRequest, over |-> FALSE, by |-> r]
            /\ req' = [req EXCEPT ![r] = [pc |-> "run", hash |-> @.hash,
                                          reserved |-> TRUE, raced |-> FALSE]]
        BY <2>4, <3>2, Zenon DEF Reserve
      <4>2. record' \in Records
        BY <3>1, <4>1
      <4>3. req' \in [Requests -> RequestStates]
        BY <3>1, <4>1 DEF IndInv, TypeOK
      <4> QED
        BY <3>1, <4>2, <4>3 DEF IndInv, TypeOK
    <3>3. CASE record # NoRecord
      <4> HIDE DEF NoRecord
      <4>1. /\ req' = [req EXCEPT ![r] = [pc |-> "lookup", hash |-> @.hash,
                                          reserved |-> FALSE, raced |-> TRUE]]
            /\ UNCHANGED record
        BY <2>4, <3>3, Zenon DEF Reserve
      <4>2. req' \in [Requests -> RequestStates]
        BY <3>1, <4>1 DEF IndInv, TypeOK
      <4> QED
        BY <3>1, <4>1, <4>2 DEF IndInv, TypeOK
    <3> QED
      BY <3>2, <3>3
  <2>5. CASE Run(r)
    BY <2>5 DEF IndInv, TypeOK, Go, Answer, Run
  <2>6. CASE RunFails(r)
    BY <2>6 DEF IndInv, TypeOK, Go, RunFails
  <2>7. CASE RunHitsUniqueIndex(r)
    BY <2>7 DEF IndInv, TypeOK, RunHitsUniqueIndex
  <2>8. CASE ClearPending(r)
    BY <2>8 DEF IndInv, TypeOK, Go, Answer, Refusals, ClearPending
  <2> QED
    BY <1>2, <2>1, <2>2, <2>3, <2>4, <2>5, <2>6, <2>7, <2>8 DEF RequestStep
<1>3. ASSUME NEW r \in Requests, NEW h \in Hashes, Send(r, h) PROVE TypeOK'
  BY <1>3 DEF IndInv, TypeOK, Send
<1>4. ASSUME NEW r \in Requests, Crash(r) PROVE TypeOK'
  BY <1>4 DEF IndInv, TypeOK, Crash, Go, Live, Ended
<1>5. CASE LeaseExpires
  BY <1>5 DEF IndInv, TypeOK, LeaseExpires
<1>6. CASE RetentionEnds
  BY <1>6 DEF IndInv, TypeOK, RetentionEnds
<1>7. CASE Cleanup
  BY <1>7 DEF IndInv, TypeOK, Cleanup, DeleteExpired
<1> QED
  BY <1>1, <1>2, <1>3, <1>4, <1>5, <1>6, <1>7 DEF Next

-----------------------------------------------------------------------------
\* A request that has been answered is over.
LEMMA DoneStays ==
    IndInv /\ [Next]_vars => \A q \in Requests : req[q].pc = "done" => req'[q] = req[q]
<1> SUFFICES ASSUME IndInv, [Next]_vars, NEW q \in Requests, req[q].pc = "done"
             PROVE  req'[q] = req[q]
  OBVIOUS
<1> USE DEF IndInv, TypeOK
<1>1. CASE UNCHANGED vars
  BY <1>1 DEF vars
<1>2. ASSUME NEW r \in Requests, RequestStep(r) PROVE req'[q] = req[q]
  <2>1. r # q
    BY <1>2 DEF RequestStep, Lookup, Purge, LookupAgain, Reserve, Run, RunFails,
       RunHitsUniqueIndex, ClearPending
  <2>2. \E new : req' = [req EXCEPT ![r] = new]
    <3>1. Replay(r) => \E pc : Go(r, pc)
      BY ReplayShape DEF ReplayOutcome
    <3> QED
      BY <1>2, <3>1, Zenon DEF RequestStep, Lookup, Purge, LookupAgain, Reserve, Run, RunFails,
         RunHitsUniqueIndex, ClearPending, Answer, Go
  <2> QED
    BY <2>1, <2>2
<1>3. ASSUME NEW r \in Requests, NEW h \in Hashes, Send(r, h) PROVE req'[q] = req[q]
  BY <1>3 DEF Send, IdleRequest
<1>4. ASSUME NEW r \in Requests, Crash(r) PROVE req'[q] = req[q]
  BY <1>4 DEF Crash, Go, Live, Ended
<1>5. CASE LeaseExpires \/ RetentionEnds \/ Cleanup
  BY <1>5 DEF LeaseExpires, RetentionEnds, Cleanup
<1> QED
  BY <1>1, <1>2, <1>3, <1>4, <1>5 DEF Next

\* The response on record is genuine after every step: only storing one, or
\* deleting the row, changes it.
LEMMA ResponseNext ==
    IndInv /\ [Next]_vars => ResponseGenuine' /\ EffectIsRecorded'
<1> SUFFICES ASSUME IndInv, [Next]_vars PROVE ResponseGenuine' /\ EffectIsRecorded'
  OBVIOUS
<1> USE DEF ResponseGenuine, EffectIsRecorded
<1>1. \A q \in Requests : req[q].pc = "done" => req'[q] = req[q]
  BY DoneStays
<1>2. CASE UNCHANGED <<record, effects>>
  BY <1>1, <1>2 DEF IndInv
<1>3. ASSUME DeleteExpired PROVE ResponseGenuine' /\ EffectIsRecorded'
  BY <1>1, <1>3 DEF IndInv, TypeOK, Records, NoRecord, DeleteExpired
<1>4. ASSUME NEW r \in Requests, RequestStep(r) PROVE ResponseGenuine' /\ EffectIsRecorded'
  <2>1. CASE Reserve(r)
    <3>1. CASE record = NoRecord
      <4>1. record'.status = "pending" /\ effects' = effects
        BY <2>1, <3>1 DEF Reserve, NoRecord
      <4>2. effects = {}
        BY <3>1 DEF IndInv, NoRecord
      <4> QED
        BY <4>1, <4>2
    <3>2. CASE record # NoRecord
      BY <1>2, <2>1, <3>2, Zenon DEF Reserve
    <3> QED
      BY <3>1, <3>2
  <2>2. CASE Run(r)
    BY <2>2 DEF IndInv, TypeOK, RequestStates, IdleRequest, Run, Answer, Go
  <2>3. CASE ClearPending(r)
    BY <1>1, <2>3 DEF IndInv, NoRecord, ClearPending
  <2> QED
    BY <1>2, <1>3, <1>4, <2>1, <2>2, <2>3
       DEF RequestStep, Lookup, Purge, LookupAgain, RunFails, RunHitsUniqueIndex
<1>5. CASE LeaseExpires
  BY <1>5 DEF IndInv, LeaseExpires
<1>6. CASE RetentionEnds
  BY <1>6 DEF IndInv, RetentionEnds
<1> QED
  BY <1>2, <1>3, <1>4, <1>5, <1>6 DEF Next, Send, Crash, Cleanup, vars

\* What clients were answered stays genuine.
LEMMA RepliesNext == IndInv /\ [Next]_vars => RepliesGenuine'
<1> SUFFICES ASSUME IndInv, [Next]_vars PROVE RepliesGenuine'
  OBVIOUS
<1>1. \A q \in Requests : req[q].pc = "done" => req'[q] = req[q]
  BY DoneStays
<1>2. CASE reply' = reply
  BY <1>1, <1>2 DEF IndInv, RepliesGenuine
<1>3. ASSUME NEW r \in Requests, NEW refusal \in Refusals,
             reply' = [reply EXCEPT ![r] = refusal]
      PROVE  RepliesGenuine'
  BY <1>1, <1>3, RequestsAreNoRefusals DEF IndInv, TypeOK, RepliesGenuine
<1>4. ASSUME NEW r \in Requests, NEW q \in Requests,
             reply' = [reply EXCEPT ![r] = q],
             req'[r].pc = "done", req'[q].pc = "done", req'[q].hash = req'[r].hash
      PROVE  RepliesGenuine'
  BY <1>1, <1>4 DEF IndInv, TypeOK, RepliesGenuine
<1>5. ASSUME NEW r \in Requests, ReplayOutcome(r) PROVE RepliesGenuine'
  <2>1. CASE reply' = [reply EXCEPT ![r] = record.response] /\ Go(r, "done")
                /\ record.status = "completed" /\ record.hash = req[r].hash
    <3>1. req'[r].pc = "done" /\ req'[r].hash = req[r].hash
      BY <2>1 DEF IndInv, TypeOK, Go
    <3>2. /\ record.response \in Requests
          /\ req'[record.response].pc = "done"
          /\ req'[record.response].hash = record.hash
      BY <1>1, <2>1 DEF IndInv, ResponseGenuine
    <3> QED
      BY <1>4, <2>1, <3>1, <3>2
  <2> QED
    BY <1>2, <1>3, <1>5, <2>1 DEF ReplayOutcome
<1>6. ASSUME NEW r \in Requests, RequestStep(r) PROVE RepliesGenuine'
  <2>1. CASE Run(r)
    <3>1. req'[r].pc = "done" /\ reply' = [reply EXCEPT ![r] = r]
      BY <2>1 DEF IndInv, TypeOK, Run, Answer, Go
    <3> QED
      BY <1>4, <3>1
  <2>2. CASE ClearPending(r)
    BY <1>3, <2>2 DEF ClearPending, Answer, Refusals
  <2>3. CASE Lookup(r)
    BY <1>2, <1>5, <2>3, ReplayShape DEF Lookup
  <2>4. CASE LookupAgain(r)
    BY <1>5, <2>4, ReplayShape DEF LookupAgain
  <2> QED
    BY <1>2, <1>6, <2>1, <2>2, <2>3, <2>4
       DEF RequestStep, Purge, Reserve, RunFails, RunHitsUniqueIndex
<1> QED
  BY <1>2, <1>6 DEF Next, Send, Crash, LeaseExpires, RetentionEnds, Cleanup, vars

-----------------------------------------------------------------------------
\* With a lease that covers every request, the holder keeps its row until it
\* gives it up, and there is one holder at most.
LEMMA HolderNext ==
    IndInv /\ [Next]_vars => HolderOwnsRecord' /\ OneEffectIfCovered'
<1> SUFFICES ASSUME IndInv, [Next]_vars, LeaseCoversRequests
             PROVE  HolderOwnsRecord' /\ OneEffect'
  BY DEF HolderOwnsRecord, OneEffectIfCovered
<1> DEFINE Owns(q) == /\ record # NoRecord
                      /\ record.status = "pending"
                      /\ record.by = q
                      /\ ~record.over
<1>1. \A q \in Requests : Holds(q) => Owns(q)
  BY DEF IndInv, HolderOwnsRecord
<1>2. OneEffect
  BY DEF IndInv, OneEffectIfCovered
<1>3. ASSUME \A q \in Requests : Holds(q)' => Holds(q), UNCHANGED <<record, effects>>
      PROVE  HolderOwnsRecord' /\ OneEffect'
  BY <1>1, <1>2, <1>3 DEF HolderOwnsRecord, OneEffect
<1>4. ASSUME \A q \in Requests : ~Holds(q)', effects' \in {effects, {}}
      PROVE  HolderOwnsRecord' /\ OneEffect'
  BY <1>2, <1>4 DEF HolderOwnsRecord, OneEffect
<1>5. CASE UNCHANGED vars
  BY <1>3, <1>5 DEF vars, Holds
<1>6. ASSUME NEW r \in Requests, RequestStep(r) PROVE HolderOwnsRecord' /\ OneEffect'
  <2>1. ASSUME ReplayOutcome(r), UNCHANGED <<record, effects>>,
               req[r].pc \in {"lookup", "again"}
        PROVE  HolderOwnsRecord' /\ OneEffect'
    <3>1. PICK pc \in {"reserve", "clear", "done"} :
             /\ Go(r, pc)
             /\ pc = "clear" => req[r].reserved
      BY <2>1 DEF ReplayOutcome
    <3>2. \A q \in Requests : Holds(q)' => Holds(q)
      BY <2>1, <3>1 DEF IndInv, TypeOK, Holds, Go
    <3> QED
      BY <1>3, <2>1, <3>2
  <2>2. CASE Lookup(r)
    <3>1. CASE Go(r, "purge")
      <4>1. \A q \in Requests : Holds(q)' => Holds(q)
        BY <2>2, <3>1 DEF IndInv, TypeOK, Holds, Go, Lookup
      <4> QED
        BY <1>3, <2>2, <4>1 DEF Lookup
    <3> QED
      BY <2>1, <2>2, <3>1, ReplayShape DEF Lookup
  <2>3. CASE Purge(r)
    <3>1. \A q \in Requests : Holds(q)' => Holds(q)
      BY <2>3 DEF IndInv, TypeOK, Holds, Go, Purge
    <3>2. CASE \E q \in Requests : Holds(q)
      BY <1>1, <1>3, <2>3, <3>1, <3>2 DEF Purge, DeleteExpired
    <3>3. CASE ~\E q \in Requests : Holds(q)
      BY <1>4, <2>3, <3>1, <3>3 DEF Purge, DeleteExpired
    <3> QED
      BY <3>2, <3>3
  <2>4. CASE LookupAgain(r)
    BY <2>1, <2>4, ReplayShape DEF LookupAgain
  <2>5. CASE Reserve(r)
    <3>1. CASE record = NoRecord
      <4>1. \A q \in Requests : Holds(q)' => q = r
        BY <1>1, <2>5, <3>1 DEF IndInv, TypeOK, Holds, Reserve
      <4>2. Owns(r)' /\ effects' = effects
        BY <2>5, <3>1 DEF Reserve, NoRecord
      <4> QED
        BY <1>2, <4>1, <4>2 DEF HolderOwnsRecord, OneEffect
    <3>2. CASE record # NoRecord
      <4> HIDE DEF Owns
      <4>1. /\ req' = [req EXCEPT ![r] = [pc |-> "lookup", hash |-> @.hash,
                                          reserved |-> FALSE, raced |-> TRUE]]
            /\ UNCHANGED <<record, effects>>
        BY <2>5, <3>2, Zenon DEF Reserve
      <4>2. \A q \in Requests : Holds(q)' => Holds(q)
        BY <4>1 DEF IndInv, TypeOK, Holds
      <4> QED
        BY <1>3, <4>1, <4>2
    <3> QED
      BY <3>1, <3>2
  <2>6. CASE Run(r)
    <3>1. \A q \in Requests : Holds(q) => q = r
      BY <1>1, <2>6 DEF Run, Holds
    <3>2. \A q \in Requests : ~Holds(q)'
      BY <2>6, <3>1 DEF IndInv, TypeOK, Run, Answer, Go, Holds
    <3>3. effects = {}
      BY <1>1, <2>6 DEF Run, Holds, IndInv, EffectIsRecorded
    <3> QED
      BY <2>6, <3>2, <3>3 DEF Run, HolderOwnsRecord, OneEffect
  <2>7. CASE RunFails(r)
    <3>1. \A q \in Requests : Holds(q)' => Holds(q)
      BY <2>7 DEF IndInv, TypeOK, RunFails, Go, Holds
    <3> QED
      BY <1>3, <2>7, <3>1 DEF RunFails
  <2>8. CASE RunHitsUniqueIndex(r)
    <3>1. \A q \in Requests : Holds(q)' => Holds(q)
      BY <2>8 DEF IndInv, TypeOK, RunHitsUniqueIndex, Holds
    <3> QED
      BY <1>3, <2>8, <3>1 DEF RunHitsUniqueIndex
  <2>9. CASE ClearPending(r)
    <3>1. \A q \in Requests : Holds(q) => q = r
      BY <1>1, <2>9 DEF ClearPending, Holds
    <3>2. \A q \in Requests : ~Holds(q)'
      BY <2>9, <3>1 DEF IndInv, TypeOK, ClearPending, Answer, Go, Holds
    <3> QED
      BY <1>4, <2>9, <3>2 DEF ClearPending
  <2> QED
    BY <1>6, <2>2, <2>3, <2>4, <2>5, <2>6, <2>7, <2>8, <2>9 DEF RequestStep
<1>7. ASSUME NEW r \in Requests, NEW h \in Hashes, Send(r, h)
      PROVE  HolderOwnsRecord' /\ OneEffect'
  <2>1. \A q \in Requests : Holds(q)' => Holds(q)
    BY <1>7 DEF IndInv, TypeOK, Send, Holds
  <2> QED
    BY <1>3, <1>7, <2>1 DEF Send
<1>8. ASSUME NEW r \in Requests, Crash(r) PROVE HolderOwnsRecord' /\ OneEffect'
  <2>1. \A q \in Requests : Holds(q)' => Holds(q)
    BY <1>8 DEF IndInv, TypeOK, Crash, Go, Holds
  <2> QED
    BY <1>3, <1>8, <2>1 DEF Crash
<1>9. CASE LeaseExpires
  <2>1. \A q \in Requests : ~Holds(q)
    BY <1>1, <1>9 DEF LeaseExpires, Live, Ended, Holds
  <2> QED
    BY <1>4, <1>9, <2>1 DEF LeaseExpires, Holds
<1>10. CASE RetentionEnds
  BY <1>1, <1>4, <1>10 DEF RetentionEnds, Holds
<1>11. CASE Cleanup
  BY <1>1, <1>4, <1>11 DEF Cleanup, DeleteExpired, Holds
<1> QED
  BY <1>5, <1>6, <1>7, <1>8, <1>9, <1>10, <1>11 DEF Next

-----------------------------------------------------------------------------
\* The invariant behind the theorems holds in every reachable state of
\* runIdempotentTransaction, whether or not the lease covers the requests.
THEOREM IndInvAlways == Spec => []IndInv
<1>1. Init => IndInv
  BY RequestsAreNoRefusals DEF Init, IndInv, TypeOK, Records, RequestStates, Refusals,
     NoRecord, IdleRequest, EffectIsRecorded, ResponseGenuine, RepliesGenuine,
     HolderOwnsRecord, Holds, OneEffectIfCovered, OneEffect
<1>2. IndInv /\ [Next]_vars => IndInv'
  BY TypeNext, ResponseNext, RepliesNext, HolderNext DEF IndInv
<1> QED
  BY <1>1, <1>2, PTL DEF Spec

\* The record, the requests and the answers stay well formed.
THEOREM IdempotencyTypeCorrect == Spec => []TypeOK
<1>1. IndInv => TypeOK
  BY DEF IndInv
<1> QED
  BY <1>1, IndInvAlways, PTL

\* Committed work stays on record until its retention ends: a retry replays it
\* (storeIdempotentResponse inside the work's own transaction), even when
\* leases run out under live requests.
THEOREM EffectIsRecordedAlways == Spec => []EffectIsRecorded
<1>1. IndInv => EffectIsRecorded
  BY DEF IndInv
<1> QED
  BY <1>1, IndInvAlways, PTL

\* Nobody is answered with the result of another request body (requestHash),
\* even when leases run out under live requests.
THEOREM RepliesMatchRequestsAlways == Spec => []RepliesMatchRequests
<1>1. IndInv => RepliesMatchRequests
  BY DEF IndInv, RepliesGenuine, RepliesMatchRequests
<1> QED
  BY <1>1, IndInvAlways, PTL

\* With a lease longer than any request, a key commits its work once per
\* retention period, whatever the number of retries, races and crashes.
THEOREM OneEffectAlways == LeaseCoversRequests => (Spec => []OneEffect)
<1> SUFFICES ASSUME LeaseCoversRequests PROVE Spec => []OneEffect
  OBVIOUS
<1>1. IndInv => OneEffect
  BY DEF IndInv, OneEffectIfCovered
<1> QED
  BY <1>1, IndInvAlways, PTL
=============================================================================
