------------------------------ MODULE ApiKeys ------------------------------
(***************************************************************************)
(* One app, the API keys its owner gives out, and the calls made with them *)
(* (modules/apps, modules/api-keys, rate limits, audit records).  The      *)
(* owner is the address of AuthChallenges; requests of other addresses end *)
(* in app_not_found and are left out.                                      *)
(*                                                                         *)
(* Every database statement is a step of its own, so requests interleave   *)
(* between them, and any request may be cut off by a failing statement.    *)
(* A request is the number id that names it; a key is named by the request *)
(* that created it.  A key's scopes never change and are left out; uses    *)
(* counts the writes of lastUsedAt, and a bucket of the limiter is named   *)
(* by the row it is for.                                                   *)
(***************************************************************************)
EXTENDS AuthChallenges, FiniteSets

CONSTANTS
    MaxRequests,    \* bound: requests and changes around them
    KeyLimit,       \* config.v1ApiKeyRateLimitMax
    TenantLimit     \* config.v1TenantRateLimitMax

ASSUME LimitsPositive ==
    MaxRequests \in Nat /\ KeyLimit \in Nat \ {0} /\ TenantLimit \in Nat \ {0}

VARIABLES
    app,        \* the app's row: its status and, for updatedAt, its number of writes
    keys,       \* ApiKey: the key of each request that created one
    audit,      \* AuditLog
    ops,        \* the owner's requests in progress
    cutOff,     \* what a request that failed halfway was about
    calls,      \* calls with an API key in progress
    redisUp,    \* can the rate limiter reach Redis?
    failClosed, \* config.rateLimitFailClosed; without Redis it changes nothing
    buckets,    \* the count of each bucket, in Redis and in each server's memory
    admitted    \* the calls each bucket let pass in its present Redis window

appVars == <<app, keys, audit, ops, cutOff>>
callVars == <<calls, redisUp, failClosed, buckets, admitted>>

Ids == 1..MaxRequests
OldKey == MaxRequests + 1    \* a key given out before
KeyIds == Ids \cup {OldKey}
Statuses == {"active", "disabled"}    \* suspended is to the code what disabled is
NoKey == [status |-> "absent", uses |-> 0]
Targets == {0} \cup KeyIds    \* 0 is the app, n the key of request n
Row(target) == IF target = 0 THEN app ELSE keys[target]
Present(target) == Row(target).status # "absent"

\* The storage keys of v1TenantRateLimit and v1ApiKeyRateLimit: the app, each key.
Buckets == Targets
Limit(b) == IF b = 0 THEN TenantLimit ELSE KeyLimit

Created(target, row) == [action |-> "created", target |-> target, after |-> row]

\* Either nothing exists yet or the owner has an app and a key, as after a restart.
KeysInit ==
    /\ \/ /\ app = [status |-> "absent", writes |-> 0]
          /\ keys = [n \in KeyIds |-> NoKey]
          /\ audit = {}
       \/ /\ app = [status |-> "active", writes |-> 1]
          /\ keys = [n \in KeyIds |-> IF n = OldKey THEN [NoKey EXCEPT !.status = "active"] ELSE NoKey]
          /\ audit = {Created(0, app), Created(OldKey, keys[OldKey])}
    /\ ops = {} /\ cutOff = {}
    /\ calls = {}
    /\ redisUp = redis /\ failClosed \in {FALSE, redis}
    /\ buckets = [p \in Places |-> [b \in Buckets |-> 0]]
    /\ admitted = [b \in Buckets |-> 0]

-----------------------------------------------------------------------------
(* The owner's requests. *)

OwnerOp(id, action, target, data, pc) ==
    [id |-> id, action |-> action, target |-> target, data |-> data, pc |-> pc, after |-> NoKey]

PutOp(op, next) == ops' = (ops \ {op}) \cup next

createAppForOwner(id) ==
    /\ ops' = ops \cup {OwnerOp(id, "created", 0, "active", "write")}
    /\ UNCHANGED <<app, keys, audit, cutOff>>

createApiKeyForOwner(id) ==
    /\ Present(0)
    /\ ops' = ops \cup {OwnerOp(id, "created", id, "active", "write")}
    /\ UNCHANGED <<app, keys, audit, cutOff>>

\* updateAppForOwner (with a status or, for its present one, without) and
\* disableAppForOwner: the action is named after the new status.
updateAppForOwner(id, status) ==
    /\ Present(0)
    /\ LET action == IF status = "disabled" THEN "disabled" ELSE "updated"
       IN  ops' = ops \cup {OwnerOp(id, action, 0, status, "write")}
    /\ UNCHANGED <<app, keys, audit, cutOff>>

revokeApiKeyForOwner(id, key) ==
    /\ Present(key)
    /\ ops' = ops \cup {OwnerOp(id, "revoked", key, "revoked", "write")}
    /\ UNCHANGED <<app, keys, audit, cutOff>>

\* A created row is audited as the insert returned it; an app that exists is a
\* conflict of slugs.
WriteCreated(op) ==
    /\ op.pc = "write" /\ op.action = "created"
    /\ IF op.target = 0
       THEN /\ IF Present(0) THEN PutOp(op, {}) /\ UNCHANGED app
               ELSE /\ app' = [status |-> "active", writes |-> 1]
                    /\ PutOp(op, {[op EXCEPT !.pc = "audit", !.after = app']})
            /\ UNCHANGED keys
       ELSE /\ keys' = [keys EXCEPT ![op.target].status = "active"]
            /\ PutOp(op, {[op EXCEPT !.pc = "audit", !.after = keys'[op.target]]})
            /\ UNCHANGED app
    /\ UNCHANGED <<audit, cutOff>>

\* A seeded fault: the action is written into the status.
WriteAppMutAction(op) ==
    /\ op.pc = "write" /\ op.action \in {"updated", "disabled"}
    /\ app' = [status |-> op.action, writes |-> app.writes + 1]
    /\ PutOp(op, {[op EXCEPT !.pc = "reread"]})
    /\ UNCHANGED <<keys, audit, cutOff>>

\* A seeded fault: the row is read for the audit before it is written.
WriteAppMutReadFirst(op) ==
    /\ op.pc = "write" /\ op.action \in {"updated", "disabled"}
    /\ app' = [status |-> op.data, writes |-> app.writes + 1]
    /\ PutOp(op, {[op EXCEPT !.pc = "audit", !.after = app]})
    /\ UNCHANGED <<keys, audit, cutOff>>

WriteApp(op) ==
    /\ op.pc = "write" /\ op.action \in {"updated", "disabled"}
    /\ app' = [status |-> op.data, writes |-> app.writes + 1]
    /\ PutOp(op, {[op EXCEPT !.pc = "reread"]})
    /\ UNCHANGED <<keys, audit, cutOff>>

\* A seeded fault: a key is revoked only while its app is active.
RevokeMutOfActiveApp(op) ==
    /\ op.pc = "write" /\ op.action = "revoked"
    /\ keys' = IF app.status = "active" THEN [keys EXCEPT ![op.target].status = "revoked"] ELSE keys
    /\ PutOp(op, {[op EXCEPT !.pc = "reread"]})
    /\ UNCHANGED <<app, audit, cutOff>>

\* Only an active key is revoked; the request goes on either way.
WriteRevoked(op) ==
    /\ op.pc = "write" /\ op.action = "revoked"
    /\ keys' = [keys EXCEPT ![op.target].status = "revoked"]
    /\ PutOp(op, {[op EXCEPT !.pc = "reread"]})
    /\ UNCHANGED <<app, audit, cutOff>>

Reread(op) ==
    /\ op.pc = "reread"
    /\ PutOp(op, {[op EXCEPT !.pc = "audit", !.after = Row(op.target)]})
    /\ UNCHANGED <<app, keys, audit, cutOff>>

createAuditLogForRequest(op) ==
    /\ op.pc = "audit"
    /\ audit' = audit \cup {[action |-> op.action, target |-> op.target, after |-> op.after]}
    /\ PutOp(op, {})
    /\ UNCHANGED <<app, keys, cutOff>>

\* A statement fails, or the process does: there is no transaction around the
\* statements of a request.
CutOff(op) ==
    /\ PutOp(op, {})
    /\ cutOff' = IF op.pc = "write" THEN cutOff ELSE cutOff \cup {op.target}
    /\ UNCHANGED <<app, keys, audit>>

OwnerStep ==
    \E op \in ops :
        \/ WriteCreated(op) \/ WriteApp(op) \/ WriteRevoked(op)
        \/ Reread(op) \/ createAuditLogForRequest(op) \/ CutOff(op)

-----------------------------------------------------------------------------
(* Calls with an API key: requireApiKey up to the call's handler. *)

\* Was the key's revocation reported as done before this call?
Reported(key) == \E r \in audit : r.action = "revoked" /\ r.target = key

BeginCall(id, server, key) ==
    /\ Present(key)
    /\ calls' = calls \cup {[id |-> id, server |-> server, key |-> key,
                             pc |-> "authenticate", late |-> Reported(key)]}
    /\ UNCHANGED <<redisUp, failClosed, buckets, admitted>>

PutCall(c, pc) == calls' = (calls \ {c}) \cup {[c EXCEPT !.pc = pc]}
EndCall(c) == calls' = calls \ {c}

findActiveApiKeyByHash(key) == keys[key].status = "active" /\ app.status = "active"

authenticateApiKey(c) ==
    /\ c.pc = "authenticate"
    /\ IF findActiveApiKeyByHash(c.key)
       THEN PutCall(c, "use") ELSE EndCall(c)
    /\ UNCHANGED <<appVars, redisUp, failClosed, buckets, admitted>>

\* The key may have been revoked meanwhile; a statement that fails ends the call.
updateApiKeyLastUsedAt(c) ==
    /\ c.pc = "use"
    /\ \/ PutCall(c, "key") /\ keys' = [keys EXCEPT ![c.key].uses = @ + 1]
       \/ EndCall(c) /\ UNCHANGED keys
    /\ UNCHANGED <<app, audit, ops, cutOff, redisUp, failClosed, buckets, admitted>>

\* A seeded fault: the limiter falls back to memory although it may not.
ConsumeMutFallback(server) == IF redis /\ redisUp THEN {"redis"} ELSE {server}

\* consume: where the bucket is counted, none when the limiter gives up.
consume(server) ==
    CASE ~redis                             -> {server}
      [] redis /\ redisUp                   -> {"redis"}
      [] redis /\ ~redisUp /\ ~failClosed   -> {server}
      [] redis /\ ~redisUp /\ failClosed    -> {}

\* createInfrastructureRateLimit.  A count stays one above its limit once it is
\* there: only the comparison matters.
RateLimit(c) ==
    /\ c.pc \in {"key", "tenant"}
    /\ LET b == IF c.pc = "key" THEN c.key ELSE 0
           place == consume(c.server)
           passes == \A p \in place : buckets[p][b] < Limit(b)
       IN  /\ buckets' = [p \in Places |-> [buckets[p] EXCEPT ![b] =
                             IF p \in place /\ @ <= Limit(b) THEN @ + 1 ELSE @]]
           /\ IF place # {} /\ passes
              THEN /\ IF c.pc = "key" THEN PutCall(c, "tenant") ELSE EndCall(c)
                   /\ admitted' = [admitted EXCEPT ![b] = IF @ <= Limit(b) THEN @ + 1 ELSE @]
              ELSE EndCall(c) /\ UNCHANGED admitted
    /\ UNCHANGED <<appVars, redisUp, failClosed>>

\* A bucket's window ends, in Redis or in a server's memory.
WindowEnds(place, b) ==
    /\ buckets[place][b] > 0
    /\ buckets' = [buckets EXCEPT ![place][b] = 0]
    /\ admitted' = IF place = "redis" THEN [admitted EXCEPT ![b] = 0] ELSE admitted
    /\ UNCHANGED <<calls, redisUp, failClosed>>

\* Redis is lost to the limiter, and comes back with its buckets.
RedisChanges ==
    /\ redis
    /\ redisUp' = ~redisUp
    /\ UNCHANGED <<calls, failClosed, buckets, admitted>>

CallStep ==
    \E c \in calls : authenticateApiKey(c) \/ updateApiKeyLastUsedAt(c) \/ RateLimit(c)

LimiterChanges ==
    \/ \E place \in Places, b \in Buckets : WindowEnds(place, b)
    \/ RedisChanges

-----------------------------------------------------------------------------
KeysTypeOK ==
    /\ app.status \in Statuses \cup {"absent"} /\ app.writes \in 0..(MaxRequests + 1)
    /\ keys \in [KeyIds -> [status: {"absent", "active", "revoked"}, uses: Nat]]
    /\ \A b \in Buckets : admitted[b] \in 0..(Limit(b) + 1)
    /\ \A p \in Places, b \in Buckets : buckets[p][b] \in 0..(Limit(b) + 1)

(* A call begun after a revocation was reported done is refused, whatever  *)
(* the owner did to the app and its keys meanwhile, disabling and          *)
(* reactivating it included.                                               *)
RefusedAfterRevocation == \A c \in calls : c.late => c.pc = "authenticate"

\* What was audited of a row is what stands in it, apart from lastUsedAt.
Shows(after, target) ==
    IF target = 0 THEN after = app ELSE after.status = keys[target].status

(* Once the owner's requests have ended, the row of the app and of every   *)
(* key is in the audit trail as it stands, however many requests wrote it  *)
(* at the same time: each re-reads the row after its write.  Of a key this *)
(* leaves out lastUsedAt, which every call writes without a record.  A     *)
(* request cut off after its write leaves the row unaudited.               *)
AuditShowsRow ==
    \A target \in Targets :
        (Present(target) /\ target \notin cutOff /\ \A op \in ops : op.target # target)
            => \E r \in audit : r.target = target /\ Shows(r.after, target)

(* When the limiter may not fall back to memory, the calls let pass in one *)
(* window of Redis stay within the limit, for each key and for the app     *)
(* over all its keys, over every server, while Redis is lost and comes     *)
(* back.                                                                   *)
LimitHolds == (redis /\ failClosed) => \A b \in Buckets : admitted[b] <= Limit(b)
=============================================================================
