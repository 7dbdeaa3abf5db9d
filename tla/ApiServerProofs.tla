--------------------------- MODULE ApiServerProofs ---------------------------
(***************************************************************************)
(* The API's processes, for any servers, limits and number of requests.    *)
(*                                                                         *)
(* Each part has an inductive invariant of its own, and all of them rest   *)
(* on the numbers that name requests: a number above requests is in no     *)
(* row.  A challenge in Redis is the latest and unused (AuthInv).  A key   *)
(* is written as created only while it is absent, so that a revocation     *)
(* lasts (RevocationInv); a row that is not in the audit trail as it       *)
(* stands, lastUsedAt aside, has a request that will put it there          *)
(* (TrailInv).  What each bucket of the limiter admitted it has counted    *)
(* (LimiterInv).  No waiter is in the queue twice (ProviderInv).           *)
(***************************************************************************)
EXTENDS ApiServer, FiniteSetTheorems, SequenceTheorems, TLAPS

Known == 1..requests

\* Sign-in
Verifications ==
    [id: Nat, server: Servers, n: Nonces, pc: {"signature", "consume", "delete"}]

AuthInv ==
    /\ redis \in BOOLEAN
    /\ challenge \in [Places -> 0..MaxChallenges]
    /\ created \in 0..MaxChallenges
    /\ verifying \subseteq Verifications
    /\ tokens \in [Nonces -> Nat]
    /\ \A p \in Places : challenge[p] <= created
    /\ \A v \in verifying : v.n <= created /\ (redis => v.pc # "delete")
    /\ \A n \in Nonces : n > created => tokens[n] = 0
    /\ redis /\ challenge["redis"] # 0 =>
          challenge["redis"] = created /\ tokens[created] = 0

\* The owner's requests
AppRows == [status: Statuses \cup {"absent"}, writes: Nat]
KeyRows == [status: {"absent", "active", "revoked"}, uses: Nat]
OwnerOps ==
    [id: Nat, action: {"created", "updated", "disabled", "revoked"}, target: Targets,
     data: {"active", "disabled", "revoked"}, pc: {"write", "reread", "audit"},
     after: AppRows \cup KeyRows]
AuditRows ==
    [action: {"created", "updated", "disabled", "revoked"}, target: Targets,
     after: AppRows \cup KeyRows]

RowsInv ==
    /\ app \in AppRows
    /\ keys \in [KeyIds -> KeyRows]
    /\ audit \subseteq AuditRows
    /\ ops \subseteq OwnerOps
    /\ \A op \in ops :
          /\ op.action = "created" => op.target \in {0, op.id} /\ op.data = "active"
          /\ op.action \in {"updated", "disabled"} => op.target = 0 /\ op.data \in Statuses
          /\ op.action = "revoked" => op.target \in KeyIds

\* Every write was asked for by a request.
Writing == {op \in ops : op.pc = "write"}
WritesInv ==
    /\ IsFiniteSet(ops)
    /\ app.writes + Cardinality(Writing) <= requests + 1

\* A key exists from the end of its request's write, and revoked it stays.
RevocationInv ==
    /\ \A op \in ops : op.id \in Known
    /\ \A op, oq \in ops : op.id = oq.id => op = oq
    /\ \A n \in KeyIds : keys[n].status # "absent" => n \in Known \cup {OldKey}
    /\ \A op \in ops :
          /\ op.action = "created" /\ op.target # 0 /\ op.pc = "write"
                => keys[op.target].status = "absent"
          /\ op.action = "revoked" => keys[op.target].status # "absent"
          /\ op.action = "revoked" /\ op.pc # "write" => keys[op.target].status = "revoked"
    /\ \A r \in audit : r.action = "revoked" => /\ r.target \in KeyIds
                                                /\ keys[r.target].status = "revoked"

\* What a row that changed is owed.
WillAudit(op, target) ==
    /\ op.target = target
    /\ op.pc = "reread" \/ (op.pc = "audit" /\ Shows(op.after, target))
TrailInv ==
    \A target \in Targets :
        Present(target) /\ target \notin cutOff =>
            \/ \E r \in audit : r.target = target /\ Shows(r.after, target)
            \/ \E op \in ops : WillAudit(op, target)

KeysInv == RowsInv /\ WritesInv /\ RevocationInv /\ TrailInv

\* Calls with an API key
Calls ==
    [id: Nat, server: Servers, key: KeyIds, pc: {"authenticate", "use", "key", "tenant"},
     late: BOOLEAN]
CallsInv ==
    /\ calls \subseteq Calls
    /\ \A c \in calls : c.late => c.pc = "authenticate" /\ keys[c.key].status = "revoked"

LimiterInv ==
    /\ redisUp \in BOOLEAN /\ failClosed \in BOOLEAN
    /\ buckets \in [Places -> [Buckets -> Nat]]
    /\ admitted \in [Buckets -> Nat]
    /\ \A p \in Places, b \in Buckets : buckets[p][b] <= Limit(b) + 1
    /\ \A b \in Buckets : admitted[b] <= Limit(b) + 1
    /\ redis /\ failClosed =>
          \A b \in Buckets : admitted[b] <= Limit(b) /\ admitted[b] <= buckets["redis"][b]

\* Provider calls
PCalls == [id: Nat, pc: {"waiting", "woken", "running"}, attempt: 1..MaxAttempts]

ProviderInv ==
    /\ active \in Nat
    /\ circuit \in [failures: 0..FailureThreshold, open: BOOLEAN]
    /\ waiters \in Seq(Nat)
    /\ providerCalls \subseteq PCalls /\ IsFiniteSet(providerCalls)
    /\ \A c \in providerCalls : c.id \in Known
    /\ \A c, d \in providerCalls : c.id = d.id => c = d
    /\ \A i, j \in DOMAIN waiters : waiters[i] = waiters[j] => i = j
    /\ NoLostWakeup

ServerInv ==
    /\ requests \in 0..MaxRequests
    /\ AuthInv
    /\ KeysInv
    /\ CallsInv /\ LimiterInv
    /\ ProviderInv
\* Requests are counted, and numbers never come back.
Counted == requests' \in Nat /\ requests <= requests'

-----------------------------------------------------------------------------
(* Sign-in                                                                 *)

LatestStep ==
    \A n \in Nonces : (redis /\ tokens'[n] # tokens[n]) => n = created /\ tokens[n] = 0

LEMMA AuthFrame ==
    ASSUME AuthInv, UNCHANGED authVars
    PROVE  AuthInv' /\ LatestStep
<1>1. /\ redis' = redis /\ challenge' = challenge /\ created' = created
      /\ verifying' = verifying /\ tokens' = tokens
  BY DEF authVars
<1> QED
  BY <1>1 DEF AuthInv, LatestStep

LEMMA CreateChallengeKeeps ==
    ASSUME AuthInv, NEW server \in Servers, createChallenge(server)
    PROVE  AuthInv' /\ LatestStep
<1> USE ChallengesBounded
<1>1. PICK p \in Places : p = Place(server)
  BY DEF Place, Places
<1>2. /\ created \in Nat /\ created < MaxChallenges /\ created' = created + 1
      /\ challenge' = [challenge EXCEPT ![p] = created + 1]
      /\ UNCHANGED <<redis, verifying, tokens>>
  BY <1>1 DEF createChallenge, AuthInv
<1>3. challenge' \in [Places -> 0..MaxChallenges] /\ created' \in 0..MaxChallenges
  BY <1>2 DEF AuthInv
<1>4. \A q \in Places : challenge'[q] <= created'
  BY <1>2 DEF AuthInv
<1>5. \A v \in verifying' : v.n <= created' /\ (redis' => v.pc # "delete")
  BY <1>2 DEF AuthInv, Verifications, Nonces
<1>6. \A n \in Nonces : n > created' => tokens'[n] = 0
  BY <1>2 DEF AuthInv, Nonces
<1>7. redis' /\ challenge'["redis"] # 0 =>
         challenge'["redis"] = created' /\ tokens'[created'] = 0
  <2>1. redis => p = "redis"
    BY <1>1 DEF Place
  <2>2. created + 1 \in Nonces /\ created + 1 > created
    BY <1>2 DEF Nonces
  <2>3. tokens[created + 1] = 0
    BY <2>2 DEF AuthInv
  <2>4. redis => challenge'["redis"] = created + 1
    BY <1>2, <2>1 DEF AuthInv
  <2> QED
    BY <1>2, <2>3, <2>4
<1> QED
  BY <1>2, <1>3, <1>4, <1>5, <1>6, <1>7 DEF AuthInv, LatestStep

LEMMA ExpiresKeeps ==
    ASSUME AuthInv, NEW p \in Places, Expires(p)
    PROVE  AuthInv' /\ LatestStep
<1> USE ChallengesBounded
<1>1. challenge' = [challenge EXCEPT ![p] = 0] /\ UNCHANGED <<redis, created, verifying, tokens>>
  BY DEF Expires
<1>2. challenge' \in [Places -> 0..MaxChallenges] /\ \A q \in Places : challenge'[q] \in {0, challenge[q]}
  BY <1>1 DEF AuthInv
<1>3. \A q \in Places : challenge'[q] <= created
  BY <1>2 DEF AuthInv
<1>4. "redis" \in Places
  BY DEF Places
<1> QED
  BY <1>1, <1>2, <1>3, <1>4 DEF AuthInv, LatestStep

\* A verification begins, goes on or ends, and the challenges stay.
LEMMA VerifyingKeeps ==
    ASSUME AuthInv, UNCHANGED <<redis, challenge, created, tokens>>,
           verifying' \subseteq Verifications,
           \A v \in verifying' : v.n <= created /\ (redis => v.pc # "delete")
    PROVE  AuthInv' /\ LatestStep
BY DEF AuthInv, LatestStep

LEMMA BeginVerifyKeeps ==
    ASSUME AuthInv, NEW id \in Nat, NEW server \in Servers, NEW n \in Nonces,
           BeginVerify(id, server, n)
    PROVE  AuthInv' /\ LatestStep
<1> DEFINE v == [id |-> id, server |-> server, n |-> n, pc |-> "signature"]
<1>1. v \in Verifications /\ v.n = n /\ v.pc = "signature"
  BY DEF Verifications
<1>2. n <= created
  BY DEF BeginVerify, AuthInv, Place, Places
<1>3. verifying' = verifying \cup {v} /\ UNCHANGED <<redis, challenge, created, tokens>>
  BY DEF BeginVerify
<1> HIDE DEF v
<1>4. /\ verifying' \subseteq Verifications
      /\ \A w \in verifying' : w.n <= created /\ (redis => w.pc # "delete")
  BY <1>1, <1>2, <1>3 DEF AuthInv
<1> QED
  BY <1>3, <1>4, VerifyingKeeps

\* A verification goes on.
LEMMA Verified ==
    ASSUME AuthInv, NEW v \in verifying, NEW pc \in {"consume", "delete"}, redis => pc # "delete"
    PROVE  LET w == [v EXCEPT !.pc = pc]
           IN  w \in Verifications /\ w.n <= created /\ (redis => w.pc # "delete")
BY DEF AuthInv, Verifications

LEMMA CheckSignatureKeeps ==
    ASSUME AuthInv, NEW v \in verifying, CheckSignature(v)
    PROVE  AuthInv' /\ LatestStep
<1> DEFINE w == [v EXCEPT !.pc = "consume"]
<1>1. w \in Verifications /\ w.n <= created /\ (redis => w.pc # "delete")
  BY Verified
<1>2. /\ verifying' \in {verifying \ {v}, (verifying \ {v}) \cup {w}}
      /\ UNCHANGED <<redis, challenge, created, tokens>>
  BY DEF CheckSignature
<1> HIDE DEF w
<1>3. /\ verifying' \subseteq Verifications
      /\ \A u \in verifying' : u.n <= created /\ (redis => u.pc # "delete")
  BY <1>1, <1>2 DEF AuthInv
<1> QED
  BY <1>2, <1>3, VerifyingKeeps

LEMMA RefuseKeeps ==
    ASSUME AuthInv, NEW v \in verifying, Refuse(v), UNCHANGED <<redis, created>>
    PROVE  AuthInv' /\ LatestStep
<1>1. verifying' = verifying \ {v} /\ UNCHANGED <<redis, challenge, created, tokens>>
  BY DEF Refuse
<1>2. /\ verifying' \subseteq Verifications
      /\ \A u \in verifying' : u.n <= created /\ (redis => u.pc # "delete")
  BY <1>1 DEF AuthInv
<1> QED
  BY <1>1, <1>2, VerifyingKeeps

\* A token for a challenge that is then gone from its store; with Redis, for
\* the latest one.
LEMMA IssueKeeps ==
    ASSUME AuthInv, NEW v \in verifying, NEW p \in Places, Issue(v),
           challenge' = [challenge EXCEPT ![p] = 0], UNCHANGED <<redis, created>>,
           redis => p = "redis" /\ challenge["redis"] = v.n
    PROVE  AuthInv' /\ LatestStep
<1> USE ChallengesBounded
<1>1. PICK n \in Nonces : n = v.n /\ n <= created
  BY DEF AuthInv, Verifications
<1>2. /\ tokens' = [tokens EXCEPT ![n] = @ + 1] /\ tokens' \in [Nonces -> Nat]
      /\ \A m \in Nonces \ {n} : tokens'[m] = tokens[m]
  BY <1>1 DEF Issue, AuthInv
<1>3. verifying' = verifying \ {v}
  BY DEF Issue
<1>4. challenge' \in [Places -> 0..MaxChallenges] /\ \A q \in Places : challenge'[q] \in {0, challenge[q]}
  BY DEF AuthInv
<1>5. \A q \in Places : challenge'[q] <= created
  BY <1>4 DEF AuthInv
<1>6. redis => challenge'["redis"] = 0
  BY DEF AuthInv
<1>7. n # 0 /\ ~(n > created)
  BY <1>1 DEF Nonces, AuthInv
<1>8. redis => n = created /\ tokens[n] = 0
  BY <1>1, <1>7 DEF AuthInv
<1>9. LatestStep
  BY <1>2, <1>8 DEF LatestStep
<1>10. \A m \in Nonces : m > created => tokens'[m] = 0
  BY <1>2, <1>7 DEF AuthInv
<1> QED
  BY <1>2, <1>3, <1>4, <1>5, <1>6, <1>9, <1>10 DEF AuthInv

LEMMA VerifyStepKeeps ==
    ASSUME AuthInv, VerifyStep
    PROVE  AuthInv' /\ LatestStep
<1> SUFFICES ASSUME NEW v \in verifying,
                    CheckSignature(v) \/ ConsumeRedis(v) \/ ConsumeGet(v) \/ ConsumeDelete(v)
             PROVE  AuthInv' /\ LatestStep
  BY DEF VerifyStep
<1>0. "redis" \in Places /\ v.server \in Places
  BY DEF Places, AuthInv, Verifications
<1>1. CASE CheckSignature(v)
  BY <1>1, CheckSignatureKeeps
<1>2. CASE ConsumeRedis(v)
  <2>1. CASE challenge["redis"] = v.n
    BY <1>0, <1>2, <2>1, IssueKeeps DEF ConsumeRedis
  <2>2. CASE challenge["redis"] # v.n
    BY <1>2, <2>2, RefuseKeeps DEF ConsumeRedis
  <2> QED
    BY <2>1, <2>2
<1>3. CASE ConsumeGet(v)
  <2>1. CASE challenge[v.server] = v.n
    <3> DEFINE w == [v EXCEPT !.pc = "delete"]
    <3>1. w \in Verifications /\ w.n <= created /\ (redis => w.pc # "delete")
      BY <1>3, Verified DEF ConsumeGet
    <3>2. verifying' = (verifying \ {v}) \cup {w} /\ UNCHANGED <<redis, challenge, created, tokens>>
      BY <1>3, <2>1 DEF ConsumeGet
    <3> HIDE DEF w
    <3>3. /\ verifying' \subseteq Verifications
          /\ \A u \in verifying' : u.n <= created /\ (redis => u.pc # "delete")
      BY <3>1, <3>2 DEF AuthInv
    <3> QED
      BY <3>2, <3>3, VerifyingKeeps
  <2>2. CASE challenge[v.server] # v.n
    BY <1>3, <2>2, RefuseKeeps DEF ConsumeGet
  <2> QED
    BY <2>1, <2>2
<1>4. CASE ConsumeDelete(v)
  <2>1. ~redis
    BY <1>4 DEF ConsumeDelete, AuthInv
  <2> QED
    BY <1>0, <1>4, <2>1, IssueKeeps DEF ConsumeDelete
<1> QED
  BY <1>1, <1>2, <1>3, <1>4

-----------------------------------------------------------------------------
(* Provider calls                                                          *)

LEMMA ProviderFrame ==
    ASSUME ProviderInv, requests \in Nat, Counted, UNCHANGED providerVars
    PROVE  ProviderInv'
<1>1. /\ active' = active /\ waiters' = waiters /\ providerCalls' = providerCalls
      /\ circuit' = circuit
  BY DEF providerVars
<1>2. \A c \in providerCalls : c.id \in Known'
  BY DEF ProviderInv, Known, Counted
<1>3. NoLostWakeup'
  BY <1>1 DEF ProviderInv, NoLostWakeup, WithPc
<1> QED
  BY <1>1, <1>2, <1>3 DEF ProviderInv

LEMMA PlacesCounted ==
    ASSUME ProviderInv, NEW pc
    PROVE  IsFiniteSet(WithPc(pc)) /\ Cardinality(WithPc(pc)) \in Nat
<1>1. WithPc(pc) \subseteq providerCalls /\ IsFiniteSet(providerCalls)
  BY DEF WithPc, ProviderInv
<1> QED
  BY <1>1, FS_Subset, FS_CardinalityType

\* The record of a new call.
LEMMA NewCall ==
    ASSUME NEW id \in Nat
    PROVE  /\ Running(id) \in PCalls /\ Running(id).id = id /\ Running(id).pc = "running"
           /\ [Running(id) EXCEPT !.pc = "waiting"] \in PCalls
           /\ [Running(id) EXCEPT !.pc = "waiting"].id = id
           /\ [Running(id) EXCEPT !.pc = "waiting"].pc = "waiting"
<1>1. 1 \in 1..MaxAttempts
  BY PoolPositive
<1> QED
  BY <1>1 DEF Running, PCalls

LEMMA ExecuteKeeps ==
    ASSUME ProviderInv, requests \in Nat, requests' = requests + 1, Execute(requests + 1)
    PROVE  ProviderInv'
<1> DEFINE id == requests + 1
<1>0. /\ id \in Nat /\ id \notin Known /\ id \in Known' /\ Known \subseteq Known'
      /\ \A c \in providerCalls : c.id \in Known /\ c.id # id
  BY DEF Known, ProviderInv
<1>1. \A pc : IsFiniteSet(WithPc(pc)) /\ Cardinality(WithPc(pc)) \in Nat
  BY PlacesCounted
<1>2. PICK new \in PCalls :
        /\ new.id = id
        /\ IF active >= PoolSize
           THEN /\ new.pc = "waiting" /\ active' = active /\ waiters' = Append(waiters, id)
           ELSE /\ new.pc = "running" /\ active' = active + 1 /\ waiters' = waiters
        /\ providerCalls' = providerCalls \cup {new}
  <2> DEFINE waits == [Running(id) EXCEPT !.pc = "waiting"]
  <2>1. /\ Running(id) \in PCalls /\ Running(id).id = id /\ Running(id).pc = "running"
        /\ waits \in PCalls /\ waits.id = id /\ waits.pc = "waiting"
    BY <1>0, NewCall
  <2>2. IF active >= PoolSize
        THEN providerCalls' = providerCalls \cup {waits} /\ active' = active /\ waiters' = Append(waiters, id)
        ELSE providerCalls' = providerCalls \cup {Running(id)} /\ active' = active + 1 /\ waiters' = waiters
    BY DEF Execute
  <2> HIDE DEF waits
  <2> QED
    BY <2>1, <2>2
<1> HIDE DEF id
<1>3. circuit' = circuit
  BY DEF Execute
<1>4. new \notin providerCalls
  BY <1>0, <1>2
<1>5. providerCalls' \subseteq PCalls /\ IsFiniteSet(providerCalls')
  BY <1>2, FS_AddElement DEF ProviderInv
<1>6. /\ \A c \in providerCalls' : c.id \in Known'
      /\ \A c, d \in providerCalls' : c.id = d.id => c = d
  BY <1>0, <1>2 DEF ProviderInv
<1>7. \A pc : WithPc(pc)' = IF pc = new.pc THEN WithPc(pc) \cup {new} ELSE WithPc(pc)
  BY <1>2 DEF WithPc
<1>8. waiters \in Seq(Nat) /\ active \in Nat /\ NoLostWakeup
  BY DEF ProviderInv
<1>9. CASE active >= PoolSize
  <2>1. /\ waiters' = Append(waiters, id) /\ active' = active /\ new.pc = "waiting"
    BY <1>2, <1>9
  <2>2. /\ Len(waiters) \in Nat /\ waiters' \in Seq(Nat)
        /\ DOMAIN waiters = 1..Len(waiters) /\ DOMAIN waiters' = 1..(Len(waiters) + 1)
        /\ \A i \in DOMAIN waiters : waiters'[i] = waiters[i]
        /\ waiters'[Len(waiters) + 1] = id
    BY <1>0, <1>8, <2>1
  <2>3. \A i \in DOMAIN waiters : waiters[i] # id
    <3>1. \A i \in DOMAIN waiters : waiters[i] \in {c.id : c \in WithPc("waiting")}
      BY <1>8 DEF NoLostWakeup
    <3> QED
      BY <1>0, <3>1 DEF WithPc
  <2>4. \A i, j \in DOMAIN waiters' : waiters'[i] = waiters'[j] => i = j
    <3>1. \A i \in DOMAIN waiters' : i \in DOMAIN waiters \/ i = Len(waiters) + 1
      BY <2>2
    <3> QED
      BY <2>2, <2>3, <3>1 DEF ProviderInv
  <2>5. NoLostWakeup'
    <3>1. /\ WithPc("running")' = WithPc("running") /\ WithPc("woken")' = WithPc("woken")
          /\ WithPc("waiting")' = WithPc("waiting") \cup {new}
      BY <1>7, <2>1
    <3>2. {waiters'[i] : i \in DOMAIN waiters'} = {waiters[i] : i \in DOMAIN waiters} \cup {id}
      <4>1. DOMAIN waiters' = DOMAIN waiters \cup {Len(waiters) + 1}
        BY <2>2
      <4> QED
        BY <2>2, <4>1
    <3>3. {c.id : c \in WithPc("waiting")'} = {c.id : c \in WithPc("waiting")} \cup {id}
      BY <1>2, <3>1
    <3>4. active + Cardinality(WithPc("woken")) >= PoolSize
      BY <1>1, <1>8, <1>9, PoolPositive
    <3> QED
      BY <1>8, <2>1, <3>1, <3>2, <3>3, <3>4 DEF NoLostWakeup
  <2> QED
    BY <1>3, <1>5, <1>6, <1>8, <2>1, <2>2, <2>4, <2>5 DEF ProviderInv
<1>10. CASE ~(active >= PoolSize)
  <2>1. waiters' = waiters /\ active' = active + 1 /\ new.pc = "running"
    BY <1>2, <1>10
  <2>2. NoLostWakeup'
    <3>1. /\ WithPc("woken")' = WithPc("woken") /\ WithPc("waiting")' = WithPc("waiting")
          /\ WithPc("running")' = WithPc("running") \cup {new}
      BY <1>7, <2>1
    <3>2. new \notin WithPc("running")
      BY <1>4 DEF WithPc
    <3>3. Cardinality(WithPc("running") \cup {new}) = Cardinality(WithPc("running")) + 1
      BY <1>1, <3>2, FS_AddElement
    <3>4. waiters # <<>> => active + 1 + Cardinality(WithPc("woken")) >= PoolSize
      BY <1>1, <1>8, PoolPositive DEF NoLostWakeup
    <3> QED
      BY <1>8, <2>1, <3>1, <3>3, <3>4 DEF NoLostWakeup
  <2> QED
    BY <1>3, <1>5, <1>6, <1>8, <2>1, <2>2 DEF ProviderInv
<1> QED
  BY <1>9, <1>10

\* A call goes on with another record.
LEMMA CallReplaced ==
    ASSUME ProviderInv, NEW c \in providerCalls, NEW new \in PCalls, new.id = c.id,
           providerCalls' = (providerCalls \ {c}) \cup {new}, UNCHANGED requests
    PROVE  /\ providerCalls' \subseteq PCalls /\ IsFiniteSet(providerCalls')
           /\ \A d \in providerCalls' : d.id \in Known'
           /\ \A d, e \in providerCalls' : d.id = e.id => d = e
           /\ \A pc : WithPc(pc)' = (WithPc(pc) \ {c}) \cup (IF pc = new.pc THEN {new} ELSE {})
<1>1. IsFiniteSet(providerCalls')
  BY FS_RemoveElement, FS_AddElement DEF ProviderInv
<1>2. providerCalls' \subseteq PCalls /\ \A d \in providerCalls' : d.id \in Known'
  BY DEF ProviderInv, Known
<1>3. \A d, e \in providerCalls' : d.id = e.id => d = e
  BY DEF ProviderInv
<1>4. \A pc : WithPc(pc)' = (WithPc(pc) \ {c}) \cup (IF pc = new.pc THEN {new} ELSE {})
  BY DEF WithPc
<1> QED
  BY <1>1, <1>2, <1>3, <1>4

LEMMA ResumeKeeps ==
    ASSUME ProviderInv, NEW c \in providerCalls, Resume(c), UNCHANGED requests
    PROVE  ProviderInv'
<1>1. PICK new \in PCalls : /\ new.id = c.id /\ new.pc = "running"
                            /\ providerCalls' = (providerCalls \ {c}) \cup {new}
  <2> DEFINE new == [c EXCEPT !.pc = "running"]
  <2>1. new \in PCalls /\ new.id = c.id /\ new.pc = "running"
    BY DEF ProviderInv, PCalls
  <2>2. providerCalls' = (providerCalls \ {c}) \cup {new}
    BY DEF Resume, Put
  <2> HIDE DEF new
  <2> QED
    BY <2>1, <2>2
<1>2. c.pc = "woken" /\ active' = active + 1 /\ UNCHANGED <<waiters, circuit>>
  BY DEF Resume
<1>3. /\ providerCalls' \subseteq PCalls /\ IsFiniteSet(providerCalls')
      /\ \A d \in providerCalls' : d.id \in Known'
      /\ \A d, e \in providerCalls' : d.id = e.id => d = e
      /\ \A pc : WithPc(pc)' = (WithPc(pc) \ {c}) \cup (IF pc = new.pc THEN {new} ELSE {})
  BY <1>1, CallReplaced
<1>4. active \in Nat /\ NoLostWakeup
  BY DEF ProviderInv
<1>5. NoLostWakeup'
  <2>1. c \in WithPc("woken") /\ c \notin WithPc("running") /\ c \notin WithPc("waiting")
    BY <1>2 DEF WithPc
  <2>2. new \notin WithPc("running")
    <3>1. new \in providerCalls => new = c
      BY <1>1 DEF ProviderInv
    <3> QED
      BY <2>1, <3>1 DEF WithPc
  <2>3. /\ WithPc("running")' = WithPc("running") \cup {new}
        /\ WithPc("woken")' = WithPc("woken") \ {c} /\ WithPc("waiting")' = WithPc("waiting")
    BY <1>1, <1>3, <2>1
  <2>4. /\ IsFiniteSet(WithPc("running")) /\ IsFiniteSet(WithPc("woken"))
        /\ Cardinality(WithPc("running")) \in Nat /\ Cardinality(WithPc("woken")) \in Nat
    BY PlacesCounted
  <2>5. Cardinality(WithPc("running") \cup {new}) = Cardinality(WithPc("running")) + 1
    BY <2>2, <2>4, FS_AddElement
  <2>6. Cardinality(WithPc("woken") \ {c}) = Cardinality(WithPc("woken")) - 1
    BY <2>1, <2>4, FS_RemoveElement
  <2>7. active + 1 + (Cardinality(WithPc("woken")) - 1) = active + Cardinality(WithPc("woken"))
    BY <1>4, <2>4
  <2> QED
    BY <1>2, <1>4, <2>3, <2>5, <2>6, <2>7 DEF NoLostWakeup
<1> QED
  BY <1>2, <1>3, <1>4, <1>5 DEF ProviderInv

LEMMA RetryKeeps ==
    ASSUME ProviderInv, NEW c \in providerCalls, Retry(c), UNCHANGED requests
    PROVE  ProviderInv'
<1>1. PICK new \in PCalls : /\ new.id = c.id /\ new.pc = "running"
                            /\ providerCalls' = (providerCalls \ {c}) \cup {new}
  <2> DEFINE new == [c EXCEPT !.attempt = @ + 1]
  <2>1. c.attempt \in 1..MaxAttempts /\ c.attempt < MaxAttempts /\ c.pc = "running"
    BY DEF ProviderInv, PCalls, Retry
  <2>2. c.attempt + 1 \in 1..MaxAttempts
    BY <2>1, PoolPositive
  <2>3. new \in PCalls /\ new.id = c.id /\ new.pc = "running"
    BY <2>1, <2>2 DEF ProviderInv, PCalls
  <2>4. providerCalls' = (providerCalls \ {c}) \cup {new}
    BY DEF Retry, Put
  <2> HIDE DEF new
  <2> QED
    BY <2>3, <2>4
<1>2. c.pc = "running" /\ UNCHANGED <<active, waiters, circuit>>
  BY DEF Retry
<1>3. /\ providerCalls' \subseteq PCalls /\ IsFiniteSet(providerCalls')
      /\ \A d \in providerCalls' : d.id \in Known'
      /\ \A d, e \in providerCalls' : d.id = e.id => d = e
      /\ \A pc : WithPc(pc)' = (WithPc(pc) \ {c}) \cup (IF pc = new.pc THEN {new} ELSE {})
  BY <1>1, CallReplaced
<1>4. active \in Nat /\ NoLostWakeup
  BY DEF ProviderInv
<1>5. NoLostWakeup'
  <2>1. c \in WithPc("running") /\ c \notin WithPc("woken") /\ c \notin WithPc("waiting")
    BY <1>2 DEF WithPc
  <2>2. new \notin WithPc("running") \ {c}
    BY <1>1 DEF ProviderInv, WithPc
  <2>3. /\ WithPc("running")' = (WithPc("running") \ {c}) \cup {new}
        /\ WithPc("woken")' = WithPc("woken") /\ WithPc("waiting")' = WithPc("waiting")
    BY <1>1, <1>3, <2>1
  <2>4. IsFiniteSet(WithPc("running")) /\ Cardinality(WithPc("running")) \in Nat
    BY PlacesCounted
  <2>5. /\ IsFiniteSet(WithPc("running") \ {c})
        /\ Cardinality(WithPc("running") \ {c}) = Cardinality(WithPc("running")) - 1
    BY <2>1, <2>4, FS_RemoveElement
  <2>6. Cardinality((WithPc("running") \ {c}) \cup {new}) = Cardinality(WithPc("running") \ {c}) + 1
    BY <2>2, <2>5, FS_AddElement
  <2>7. Cardinality(WithPc("running")') = Cardinality(WithPc("running"))
    <3>1. (Cardinality(WithPc("running")) - 1) + 1 = Cardinality(WithPc("running"))
      BY <2>4
    <3> QED
      BY <2>3, <2>5, <2>6, <3>1
  <2> QED
    BY <1>2, <1>4, <2>3, <2>7 DEF NoLostWakeup
<1> QED
  BY <1>2, <1>3, <1>4, <1>5 DEF ProviderInv
LEMMA ReleaseKeeps ==
    ASSUME ProviderInv, NEW c \in providerCalls, c.pc = "running", release(c),
           circuit' \in [failures: 0..FailureThreshold, open: BOOLEAN], UNCHANGED requests
    PROVE  ProviderInv'
<1>0. /\ active \in Nat /\ NoLostWakeup /\ waiters \in Seq(Nat) /\ active' = active - 1
      /\ IsFiniteSet(providerCalls)
  BY DEF ProviderInv, release
<1>1. /\ IsFiniteSet(WithPc("running")) /\ IsFiniteSet(WithPc("woken"))
      /\ Cardinality(WithPc("running")) \in Nat /\ Cardinality(WithPc("woken")) \in Nat
  BY PlacesCounted
<1>2. c \in WithPc("running") /\ c \notin WithPc("woken") /\ c \notin WithPc("waiting")
  BY DEF WithPc
<1>3. Cardinality(WithPc("running") \ {c}) = Cardinality(WithPc("running")) - 1
  BY <1>1, <1>2, FS_RemoveElement
<1>4. active = Cardinality(WithPc("running"))
  BY <1>0 DEF NoLostWakeup
<1>5. active' \in Nat
  <2>1. IsFiniteSet(WithPc("running") \ {c})
    BY <1>1, <1>2, FS_RemoveElement
  <2>2. Cardinality(WithPc("running") \ {c}) \in Nat
    BY <2>1, FS_CardinalityType
  <2> QED
    BY <1>0, <1>3, <1>4, <2>2
<1>6. CASE waiters = <<>>
  <2>1. providerCalls' = providerCalls \ {c} /\ waiters' = waiters
    BY <1>6 DEF release, Put
  <2>2. IsFiniteSet(providerCalls')
    BY <1>0, <2>1, FS_RemoveElement
  <2>3. /\ WithPc("running")' = WithPc("running") \ {c} /\ WithPc("waiting")' = WithPc("waiting")
    BY <1>2, <2>1 DEF WithPc
  <2>4. NoLostWakeup'
    BY <1>0, <1>3, <1>4, <1>6, <2>1, <2>3 DEF NoLostWakeup
  <2>5. /\ providerCalls' \subseteq PCalls /\ \A d \in providerCalls' : d.id \in Known'
        /\ \A d, e \in providerCalls' : d.id = e.id => d = e
    BY <2>1 DEF ProviderInv, Known
  <2> QED
    BY <1>5, <2>1, <2>2, <2>4, <2>5 DEF ProviderInv
<1>7. CASE waiters # <<>>
  <2>1. /\ Len(waiters) \in Nat \ {0} /\ DOMAIN waiters = 1..Len(waiters)
        /\ waiters' = Tail(waiters) /\ waiters' \in Seq(Nat)
        /\ DOMAIN waiters' = 1..(Len(waiters) - 1)
        /\ \A i \in DOMAIN waiters' : waiters'[i] = waiters[i + 1]
        /\ Head(waiters) = waiters[1] /\ 1 \in DOMAIN waiters
    <3>1. waiters' = Tail(waiters)
      BY <1>7 DEF release
    <3>2. Len(waiters) \in Nat \ {0}
      BY <1>0, <1>7, EmptySeq
    <3> QED
      BY <1>0, <1>7, <3>1, <3>2
  <2>2. PICK d \in WithPc("waiting") : d.id = waiters[1]
    <3>1. waiters[1] \in {e.id : e \in WithPc("waiting")}
      BY <1>0, <2>1 DEF NoLostWakeup
    <3> QED
      BY <3>1
  <2>3. /\ d \in providerCalls /\ d \in PCalls /\ d.pc = "waiting" /\ d # c
        /\ \A e \in providerCalls : e.id = waiters[1] <=> e = d
    BY <2>2 DEF WithPc, ProviderInv
  <2>4. PICK new \in PCalls :
          /\ new.id = d.id /\ new.pc = "woken"
          /\ providerCalls' = ((providerCalls \ {c}) \ {d}) \cup {new}
    <3> DEFINE new == [d EXCEPT !.pc = "woken"]
    <3>1. new \in PCalls /\ new.id = d.id /\ new.pc = "woken"
      BY <2>3 DEF PCalls
    <3>2. providerCalls' = {IF e.id = waiters[1] THEN [e EXCEPT !.pc = "woken"] ELSE e :
                              e \in providerCalls \ {c}}
      BY <1>7, <2>1 DEF release, Put
    <3>3. providerCalls' = ((providerCalls \ {c}) \ {d}) \cup {new}
      BY <2>3, <3>2
    <3> HIDE DEF new
    <3> QED
      BY <3>1, <3>3
  <2>5. IsFiniteSet(providerCalls') /\ providerCalls' \subseteq PCalls
    <3>1. IsFiniteSet((providerCalls \ {c}) \ {d})
      BY <1>0, FS_RemoveElement
    <3> QED
      BY <2>4, <3>1, FS_AddElement DEF ProviderInv
  <2>6. /\ \A e \in providerCalls' : e.id \in Known'
        /\ \A e, f \in providerCalls' : e.id = f.id => e = f
    BY <2>3, <2>4 DEF ProviderInv, Known
  <2>7. \A i, j \in DOMAIN waiters' : waiters'[i] = waiters'[j] => i = j
    <3> SUFFICES ASSUME NEW i \in DOMAIN waiters', NEW j \in DOMAIN waiters',
                        waiters'[i] = waiters'[j]
                 PROVE  i = j
      OBVIOUS
    <3>1. i + 1 \in DOMAIN waiters /\ j + 1 \in DOMAIN waiters /\ i \in Nat /\ j \in Nat
      BY <2>1
    <3>2. i + 1 = j + 1
      BY <2>1, <3>1 DEF ProviderInv
    <3> QED
      BY <3>1, <3>2
  <2>8. /\ WithPc("running")' = WithPc("running") \ {c}
        /\ WithPc("waiting")' = WithPc("waiting") \ {d}
        /\ WithPc("woken")' = WithPc("woken") \cup {new} /\ new \notin WithPc("woken")
    <3>1. new \notin providerCalls
      BY <2>2, <2>3, <2>4
    <3> QED
      BY <1>2, <2>3, <2>4, <3>1 DEF WithPc
  <2>9. Cardinality(WithPc("woken") \cup {new}) = Cardinality(WithPc("woken")) + 1
    BY <1>1, <2>8, FS_AddElement
  <2>10. {waiters'[i] : i \in DOMAIN waiters'} = {waiters[i] : i \in DOMAIN waiters} \ {waiters[1]}
    <3>1. ASSUME NEW i \in DOMAIN waiters'
          PROVE  waiters'[i] \in {waiters[j] : j \in DOMAIN waiters} /\ waiters'[i] # waiters[1]
      <4>1. i + 1 \in DOMAIN waiters /\ i + 1 # 1
        BY <2>1
      <4> QED
        BY <2>1, <4>1 DEF ProviderInv
    <3>2. ASSUME NEW j \in DOMAIN waiters, waiters[j] # waiters[1]
          PROVE  \E i \in DOMAIN waiters' : waiters'[i] = waiters[j]
      <4>1. j # 1 /\ j - 1 \in DOMAIN waiters' /\ (j - 1) + 1 = j
        BY <2>1, <3>2
      <4> QED
        BY <2>1, <4>1
    <3> QED
      BY <3>1, <3>2
  <2>11. {e.id : e \in WithPc("waiting") \ {d}} = {e.id : e \in WithPc("waiting")} \ {waiters[1]}
    BY <2>2, <2>3 DEF WithPc
  <2>12. NoLostWakeup'
    <3>1. active + Cardinality(WithPc("woken")) >= PoolSize
      BY <1>0, <1>7 DEF NoLostWakeup
    <3>2. active' + (Cardinality(WithPc("woken")) + 1) = active + Cardinality(WithPc("woken"))
      BY <1>0, <1>1
    <3>3. {waiters'[i] : i \in DOMAIN waiters'} = {e.id : e \in WithPc("waiting")'}
      BY <1>0, <2>8, <2>10, <2>11 DEF NoLostWakeup
    <3>4. active' = Cardinality(WithPc("running")')
      BY <1>0, <1>3, <1>4, <2>8
    <3> QED
      BY <2>8, <2>9, <3>1, <3>2, <3>3, <3>4 DEF NoLostWakeup
  <2> QED
    BY <1>5, <2>1, <2>5, <2>6, <2>7, <2>12 DEF ProviderInv
<1> QED
  BY <1>6, <1>7

LEMMA ProviderStepKeeps ==
    ASSUME ProviderInv, ProviderStep, UNCHANGED requests
    PROVE  ProviderInv'
<1>0. circuit \in [failures: 0..FailureThreshold, open: BOOLEAN]
  BY DEF ProviderInv
<1>1. ASSUME NEW c \in providerCalls, Succeed(c) PROVE ProviderInv'
  <2>1. circuit' \in [failures: 0..FailureThreshold, open: BOOLEAN]
    BY <1>0, <1>1, PoolPositive DEF Succeed
  <2> QED
    BY <1>1, <2>1, ReleaseKeeps DEF Succeed
<1>2. ASSUME NEW c \in providerCalls, GiveUp(c) PROVE ProviderInv'
  <2> DEFINE n == IF circuit.failures < FailureThreshold THEN circuit.failures + 1
                  ELSE FailureThreshold
  <2>1. n \in 0..FailureThreshold
    BY <1>0, PoolPositive
  <2>2. circuit' = [failures |-> n, open |-> circuit.open \/ n >= FailureThreshold]
    BY <1>2 DEF GiveUp
  <2> HIDE DEF n
  <2>3. (circuit.open \/ n >= FailureThreshold) \in BOOLEAN
    OBVIOUS
  <2>4. circuit' \in [failures: 0..FailureThreshold, open: BOOLEAN]
    BY <2>1, <2>2, <2>3
  <2> QED
    BY <1>2, <2>4, ReleaseKeeps DEF GiveUp
<1>3. CASE CircuitCloses
  <2>1. circuit' \in [failures: 0..FailureThreshold, open: BOOLEAN]
    BY <1>0, <1>3 DEF CircuitCloses
  <2>2. active' = active /\ waiters' = waiters /\ providerCalls' = providerCalls
    BY <1>3 DEF CircuitCloses
  <2>3. NoLostWakeup'
    BY <2>2 DEF ProviderInv, NoLostWakeup, WithPc
  <2> QED
    BY <2>1, <2>2, <2>3 DEF ProviderInv, Known
<1> QED
  BY <1>1, <1>2, <1>3, ResumeKeeps, RetryKeeps DEF ProviderStep
-----------------------------------------------------------------------------
(* The owner's requests                                                    *)

RevokedStays ==
    \A n \in KeyIds : keys[n].status = "revoked" => keys'[n].status = "revoked"

LEMMA TargetsDiffer == 0 \notin KeyIds /\ Targets = {0} \cup KeyIds /\ OldKey \notin Ids
BY LimitsPositive DEF KeyIds, Ids, OldKey, Targets

LEMMA KeysFrame ==
    ASSUME KeysInv, requests \in Nat, Counted, UNCHANGED appVars
    PROVE  KeysInv' /\ RevokedStays
<1>1. /\ app' = app /\ keys' = keys /\ audit' = audit /\ ops' = ops /\ cutOff' = cutOff
  BY DEF appVars
<1>2. RowsInv'
  BY <1>1 DEF KeysInv, RowsInv
<1>3. WritesInv'
  <2>1. Writing' = Writing /\ IsFiniteSet(Writing)
    BY <1>1, FS_Subset DEF Writing, KeysInv, WritesInv
  <2>2. Cardinality(Writing) \in Nat /\ app.writes \in Nat
    BY <2>1, FS_CardinalityType DEF KeysInv, RowsInv, AppRows
  <2>3. app.writes + Cardinality(Writing) <= requests' + 1
    BY <2>2 DEF KeysInv, WritesInv, Counted
  <2> QED
    BY <1>1, <2>1, <2>3 DEF KeysInv, WritesInv
<1>4. RevocationInv'
  <2>1. Known \subseteq Known'
    BY DEF Known, Counted
  <2> QED
    BY <1>1, <2>1 DEF KeysInv, RevocationInv
<1>5. TrailInv'
  BY <1>1 DEF KeysInv, TrailInv, WillAudit, Shows, Row, Present
<1> QED
  BY <1>1, <1>2, <1>3, <1>4, <1>5 DEF KeysInv, RevokedStays

\* A request begins.
LEMMA OpBegins ==
    ASSUME KeysInv, requests \in Nat, requests < MaxRequests, requests' = requests + 1,
           NEW action \in {"created", "updated", "disabled", "revoked"}, NEW target \in Targets,
           NEW data \in {"active", "disabled", "revoked"},
           ops' = ops \cup {OwnerOp(requests + 1, action, target, data, "write")},
           UNCHANGED <<app, keys, audit, cutOff>>,
           action = "created" => target \in {0, requests + 1} /\ data = "active",
           action \in {"updated", "disabled"} => target = 0 /\ data \in Statuses,
           action = "revoked" => target \in KeyIds /\ keys[target].status # "absent"
    PROVE  KeysInv' /\ RevokedStays
<1>0. PICK id \in Nat : id = requests + 1
  OBVIOUS
<1>1. PICK op \in OwnerOps :
        /\ op.id = id /\ op.action = action /\ op.target = target /\ op.data = data
        /\ op.pc = "write" /\ ops' = ops \cup {op}
  <2> DEFINE op == OwnerOp(id, action, target, data, "write")
  <2>1. NoKey \in AppRows \cup KeyRows
    BY DEF NoKey, KeyRows
  <2>2. /\ op \in OwnerOps /\ op.id = id /\ op.action = action /\ op.target = target
        /\ op.data = data /\ op.pc = "write"
    BY <2>1 DEF OwnerOp, OwnerOps
  <2>3. ops' = ops \cup {op}
    BY <1>0
  <2> HIDE DEF op
  <2> QED
    BY <2>2, <2>3
<1>2. RowsInv'
  BY <1>0, <1>1 DEF KeysInv, RowsInv
<1>3. id \notin Known /\ id \in Known' /\ Known \subseteq Known' /\ id \in Ids
  BY <1>0, LimitsPositive DEF Known, Ids
<1>4. WritesInv'
  <2>1. IsFiniteSet(ops) /\ IsFiniteSet(ops')
    BY <1>1, FS_AddElement DEF KeysInv, WritesInv
  <2>2. Writing' = Writing \cup {op} /\ IsFiniteSet(Writing)
    BY <1>1, <2>1, FS_Subset DEF Writing
  <2>3. op \notin Writing
    BY <1>1, <1>3 DEF Writing, KeysInv, RevocationInv
  <2>4. Cardinality(Writing') = Cardinality(Writing) + 1 /\ Cardinality(Writing) \in Nat
    BY <2>2, <2>3, FS_AddElement, FS_CardinalityType
  <2>5. app.writes \in Nat /\ app.writes + Cardinality(Writing) <= requests + 1
    BY DEF KeysInv, RowsInv, AppRows, WritesInv
  <2>6. app.writes + (Cardinality(Writing) + 1) <= (requests + 1) + 1
    BY <2>4, <2>5
  <2> QED
    BY <2>1, <2>4, <2>6 DEF WritesInv
<1>5. RevocationInv'
  <2>1. id \in KeyIds /\ keys[id].status = "absent" /\ id # 0
    BY <1>0, <1>3, TargetsDiffer DEF KeysInv, RevocationInv, KeyIds
  <2>2. \A oq \in ops : oq.id # id
    BY <1>3 DEF KeysInv, RevocationInv
  <2>3. /\ \A oq \in ops' : oq.id \in Known'
        /\ \A oq, or \in ops' : oq.id = or.id => oq = or
    BY <1>1, <1>3, <2>2 DEF KeysInv, RevocationInv
  <2>4. op.action = "created" /\ op.target # 0 => keys[op.target].status = "absent"
    BY <1>0, <1>1, <2>1
  <2>5. \A oq \in ops' :
          /\ oq.action = "created" /\ oq.target # 0 /\ oq.pc = "write"
                => keys[oq.target].status = "absent"
          /\ oq.action = "revoked" => keys[oq.target].status # "absent"
          /\ oq.action = "revoked" /\ oq.pc # "write" => keys[oq.target].status = "revoked"
    BY <1>1, <2>4 DEF KeysInv, RevocationInv
  <2> QED
    BY <1>3, <2>3, <2>5 DEF KeysInv, RevocationInv
<1>6. TrailInv'
  BY <1>1 DEF KeysInv, TrailInv, WillAudit, Shows, Row, Present
<1> QED
  BY <1>2, <1>4, <1>5, <1>6 DEF KeysInv, RevokedStays

LEMMA OwnerRequestKeeps ==
    ASSUME KeysInv, requests \in Nat, OwnerRequest
    PROVE  KeysInv' /\ RevokedStays
<1>1. requests < MaxRequests /\ requests' = requests + 1
  BY DEF OwnerRequest, Arrives
<1>2. requests + 1 \in KeyIds /\ KeyIds \subseteq Targets /\ 0 \in Targets
  BY <1>1, LimitsPositive DEF KeyIds, Ids, Targets
<1>3. CASE createAppForOwner(Id)
  BY <1>1, <1>2, <1>3, OpBegins DEF createAppForOwner, Id
<1>4. CASE createApiKeyForOwner(Id)
  BY <1>1, <1>2, <1>4, OpBegins DEF createApiKeyForOwner, Id
<1>5. ASSUME NEW status \in Statuses, updateAppForOwner(Id, status) PROVE KeysInv' /\ RevokedStays
  <2>1. PICK action \in {"updated", "disabled"} :
          /\ ops' = ops \cup {OwnerOp(requests + 1, action, 0, status, "write")}
          /\ UNCHANGED <<app, keys, audit, cutOff>>
    BY <1>5 DEF updateAppForOwner, Id
  <2> QED
    BY <1>1, <1>2, <1>5, <2>1, OpBegins DEF Statuses
<1>6. ASSUME NEW key \in KeyIds, revokeApiKeyForOwner(Id, key) PROVE KeysInv' /\ RevokedStays
  <2>1. keys[key].status # "absent"
    BY <1>6, TargetsDiffer DEF revokeApiKeyForOwner, Present, Row
  <2> QED
    BY <1>1, <1>2, <1>6, <2>1, OpBegins DEF revokeApiKeyForOwner, Id
<1> QED
  BY <1>3, <1>4, <1>5, <1>6 DEF OwnerRequest
\* What a request is about stays; only how far it is changes.
SameOp(new, op) ==
    /\ new \in OwnerOps
    /\ new.id = op.id /\ new.action = op.action /\ new.target = op.target /\ new.data = op.data
    /\ new.pc # "write"

Goes(op, next) == next = {} \/ \E new \in OwnerOps : next = {new} /\ SameOp(new, op)

\* A request goes on or ends: one of the writes that were asked for is done.
LEMMA OpGoes ==
    ASSUME KeysInv, requests \in Nat, UNCHANGED requests, NEW op \in ops, NEW next,
           Goes(op, next), ops' = (ops \ {op}) \cup next
    PROVE  /\ ops' \subseteq OwnerOps
           /\ \A oq \in ops' :
                 /\ oq.action = "created" => oq.target \in {0, oq.id} /\ oq.data = "active"
                 /\ oq.action \in {"updated", "disabled"} => oq.target = 0 /\ oq.data \in Statuses
                 /\ oq.action = "revoked" => oq.target \in KeyIds
           /\ IsFiniteSet(ops')
           /\ \A oq \in ops' : oq.id \in Known'
           /\ \A oq, or \in ops' : oq.id = or.id => oq = or
           /\ Cardinality(Writing) \in Nat
           /\ Cardinality(Writing') = Cardinality(Writing) - (IF op.pc = "write" THEN 1 ELSE 0)
<1>1. \A new \in next : SameOp(new, op)
  BY DEF Goes
<1>2. IsFiniteSet(ops')
  <2>1. IsFiniteSet(ops \ {op})
    BY FS_RemoveElement DEF KeysInv, WritesInv
  <2>2. CASE next = {}
    BY <2>1, <2>2
  <2>3. CASE \E new \in OwnerOps : next = {new} /\ SameOp(new, op)
    BY <2>1, <2>3, FS_AddElement
  <2> QED
    BY <2>2, <2>3 DEF Goes
<1>3. /\ ops' \subseteq OwnerOps
      /\ \A oq \in ops' :
            /\ oq.action = "created" => oq.target \in {0, oq.id} /\ oq.data = "active"
            /\ oq.action \in {"updated", "disabled"} => oq.target = 0 /\ oq.data \in Statuses
            /\ oq.action = "revoked" => oq.target \in KeyIds
  BY <1>1 DEF KeysInv, RowsInv, SameOp
<1>4. \A oq \in ops' : oq.id \in Known'
  BY <1>1 DEF KeysInv, RevocationInv, SameOp, Known
<1>5. \A oq, or \in ops' : oq.id = or.id => oq = or
  <2>1. \A oq, or \in next : oq = or
    BY DEF Goes
  <2>2. \A oq \in next, or \in ops \ {op} : oq.id # or.id
    BY <1>1 DEF KeysInv, RevocationInv, SameOp
  <2> QED
    BY <2>1, <2>2 DEF KeysInv, RevocationInv
<1>6. IsFiniteSet(Writing) /\ Cardinality(Writing) \in Nat
  <2>1. IsFiniteSet(Writing)
    BY FS_Subset DEF Writing, KeysInv, WritesInv
  <2> QED
    BY <2>1, FS_CardinalityType
<1>7. Writing' = Writing \ {op}
  BY <1>1 DEF Writing, SameOp
<1>8. Cardinality(Writing \ {op}) = Cardinality(Writing) - (IF op.pc = "write" THEN 1 ELSE 0)
  <2>1. op \in Writing <=> op.pc = "write"
    BY DEF Writing
  <2>2. Cardinality(Writing \ {op}) = IF op \in Writing THEN Cardinality(Writing) - 1 ELSE Cardinality(Writing)
    BY <1>6, FS_RemoveElement
  <2> QED
    BY <1>6, <2>1, <2>2
<1> QED
  BY <1>2, <1>3, <1>4, <1>5, <1>6, <1>7, <1>8

LEMMA RowsKept ==
    ASSUME KeysInv, requests \in Nat, UNCHANGED requests, NEW op \in ops, NEW next,
           Goes(op, next), ops' = (ops \ {op}) \cup next,
           app' \in AppRows, keys' \in [KeyIds -> KeyRows], audit' \subseteq AuditRows,
           app'.writes <= app.writes + (IF op.pc = "write" THEN 1 ELSE 0)
    PROVE  RowsInv' /\ WritesInv'
<1>1. RowsInv'
  BY OpGoes DEF RowsInv
<1>2. WritesInv'
  <2>1. /\ IsFiniteSet(ops') /\ Cardinality(Writing) \in Nat
        /\ Cardinality(Writing') = Cardinality(Writing) - (IF op.pc = "write" THEN 1 ELSE 0)
    BY OpGoes
  <2>2. app.writes \in Nat /\ app'.writes \in Nat /\ app.writes + Cardinality(Writing) <= requests + 1
    BY DEF KeysInv, RowsInv, WritesInv, AppRows
  <2>3. app'.writes + (Cardinality(Writing) - (IF op.pc = "write" THEN 1 ELSE 0)) <= requests + 1
    BY <2>1, <2>2
  <2> QED
    BY <2>1, <2>3 DEF WritesInv
<1> QED
  BY <1>1, <1>2

\* No key's row changes.
LEMMA RevocationKept ==
    ASSUME KeysInv, requests \in Nat, UNCHANGED <<requests, keys>>, NEW op \in ops, NEW next,
           Goes(op, next), ops' = (ops \ {op}) \cup next,
           op.action = "revoked" => op.pc # "write" \/ next = {},
           \A r \in audit' : r.action = "revoked" =>
              r.target \in KeyIds /\ keys[r.target].status = "revoked"
    PROVE  RevocationInv' /\ RevokedStays
<1>1. \A new \in next : SameOp(new, op)
  BY DEF Goes
<1>2. \A oq \in ops' : oq.id \in Known'
  BY OpGoes
<1>3. \A oq, or \in ops' : oq.id = or.id => oq = or
  BY OpGoes
<1>4. \A n \in KeyIds : keys'[n].status # "absent" => n \in Known' \cup {OldKey}
  BY DEF KeysInv, RevocationInv, Known
<1>5. \A oq \in ops' :
        /\ oq.action = "created" /\ oq.target # 0 /\ oq.pc = "write"
              => keys'[oq.target].status = "absent"
        /\ oq.action = "revoked" => keys'[oq.target].status # "absent"
        /\ oq.action = "revoked" /\ oq.pc # "write" => keys'[oq.target].status = "revoked"
  BY <1>1 DEF KeysInv, RevocationInv, SameOp
<1> QED
  BY <1>2, <1>3, <1>4, <1>5 DEF RevocationInv, RevokedStays

\* A row that stays is shown by what showed it.
LEMMA ShowsKept ==
    ASSUME NEW t \in Targets, NEW after, Shows(after, t), Row(t)' = Row(t)
    PROVE  Shows(after, t)'
BY DEF Shows, Row

\* A request changes the row of its target only, and sees to its own record.
LEMMA TrailKept ==
    ASSUME KeysInv, NEW op \in ops, NEW next, ops' = (ops \ {op}) \cup next,
           audit \subseteq audit', cutOff \subseteq cutOff',
           \A t \in Targets \ {op.target} : Row(t)' = Row(t),
           \/ op.target \in cutOff'
           \/ ~Present(op.target)'
           \/ \E r \in audit' : r.target = op.target /\ Shows(r.after, op.target)'
           \/ \E oq \in ops' : WillAudit(oq, op.target)'
    PROVE  TrailInv'
<1> SUFFICES ASSUME NEW t \in Targets, Row(t)'.status # "absent", t \notin cutOff'
             PROVE  \/ \E r \in audit' : r.target = t /\ Shows(r.after, t)'
                    \/ \E oq \in ops' : WillAudit(oq, t)'
  BY DEF TrailInv, Present
<1>1. CASE t = op.target
  BY <1>1 DEF Present
<1>2. CASE t # op.target
  <2>1. Row(t)' = Row(t)
    BY <1>2
  <2>2. \/ \E r \in audit : r.target = t /\ Shows(r.after, t)
        \/ \E oq \in ops : WillAudit(oq, t)
    BY <2>1 DEF KeysInv, TrailInv, Present
  <2>3. CASE \E r \in audit : r.target = t /\ Shows(r.after, t)
    BY <2>1, <2>3, ShowsKept
  <2>4. CASE \E oq \in ops : WillAudit(oq, t)
    <3>1. PICK oq \in ops : WillAudit(oq, t)
      BY <2>4
    <3>2. oq \in ops' /\ WillAudit(oq, t)'
      BY <1>2, <2>1, <3>1, ShowsKept DEF WillAudit
    <3> QED
      BY <3>2
  <2> QED
    BY <2>2, <2>3, <2>4
<1> QED
  BY <1>1, <1>2
LEMMA OpAt ==
    ASSUME NEW op \in OwnerOps, NEW pc \in {"reread", "audit"}, NEW after \in AppRows \cup KeyRows
    PROVE  /\ SameOp([op EXCEPT !.pc = pc, !.after = after], op)
           /\ [op EXCEPT !.pc = pc, !.after = after].pc = pc
           /\ [op EXCEPT !.pc = pc, !.after = after].after = after
BY DEF OwnerOps, SameOp

LEMMA OpReads ==
    ASSUME NEW op \in OwnerOps
    PROVE  SameOp([op EXCEPT !.pc = "reread"], op) /\ [op EXCEPT !.pc = "reread"].pc = "reread"
BY DEF OwnerOps, SameOp

\* A status is written into a key's row.
LEMMA KeyWritten ==
    ASSUME keys \in [KeyIds -> KeyRows], NEW n \in KeyIds, NEW status \in {"active", "revoked"},
           keys' = [keys EXCEPT ![n].status = status]
    PROVE  /\ keys' \in [KeyIds -> KeyRows] /\ keys'[n].status = status
           /\ \A m \in KeyIds \ {n} : keys'[m] = keys[m]
<1> DEFINE row == [keys[n] EXCEPT !.status = status]
<1>1. row \in KeyRows /\ row.status = status
  BY DEF KeyRows
<1>2. keys' = [keys EXCEPT ![n] = row]
  OBVIOUS
<1> HIDE DEF row
<1> QED
  BY <1>1, <1>2

LEMMA AppCreatedKeeps ==
    ASSUME KeysInv, requests \in Nat, UNCHANGED requests, NEW op \in ops, WriteCreated(op),
           op.target = 0
    PROVE  KeysInv' /\ RevokedStays
<1>0. /\ op \in OwnerOps /\ op.pc = "write" /\ op.action = "created"
      /\ UNCHANGED <<keys, audit, cutOff>>
      /\ app \in AppRows /\ keys \in [KeyIds -> KeyRows] /\ audit \subseteq AuditRows
  BY DEF KeysInv, RowsInv, WriteCreated
<1>1. \A t \in Targets \ {0} : Row(t)' = Row(t)
  BY <1>0 DEF Row
<1>2. \A r \in audit' : r.action = "revoked" => r.target \in KeyIds /\ keys[r.target].status = "revoked"
  BY <1>0 DEF KeysInv, RevocationInv
<1>3. CASE Present(0)
  <2>1. ops' = (ops \ {op}) \cup {} /\ app' = app /\ Goes(op, {})
    BY <1>3 DEF WriteCreated, PutOp, Goes
  <2>2. RowsInv' /\ WritesInv'
    <3>1. app'.writes <= app.writes + 1
      BY <1>0, <2>1 DEF AppRows
    <3> QED
      BY <1>0, <2>1, <3>1, RowsKept
  <2>3. RevocationInv' /\ RevokedStays
    BY <1>0, <1>2, <2>1, RevocationKept
  <2>4. TrailInv'
    <3>1. Row(0)' = Row(0) /\ 0 \in Targets
      BY <2>1 DEF Row, Targets
    <3>2. \A w \in ops : WillAudit(w, 0) => w \in ops' /\ WillAudit(w, 0)'
      BY <1>0, <2>1, <3>1, ShowsKept DEF WillAudit
    <3>3. \/ 0 \in cutOff'
          \/ \E r \in audit' : r.target = 0 /\ Shows(r.after, 0)'
          \/ \E w \in ops' : WillAudit(w, 0)'
      BY <1>0, <1>3, <3>1, <3>2, ShowsKept DEF KeysInv, TrailInv
    <3> QED
      BY <1>0, <1>1, <2>1, <3>3, TrailKept
  <2> QED
    BY <2>2, <2>3, <2>4 DEF KeysInv
<1>4. CASE ~Present(0)
  <2>1. PICK row \in AppRows : row = app' /\ row.writes = 1
    BY <1>4 DEF WriteCreated, AppRows, Statuses
  <2>2. PICK new \in OwnerOps :
          /\ SameOp(new, op) /\ new.pc = "audit" /\ new.after = row
          /\ ops' = (ops \ {op}) \cup {new}
    <3> DEFINE new == [op EXCEPT !.pc = "audit", !.after = row]
    <3>0. row \in AppRows \cup KeyRows
      BY <2>1
    <3>1. SameOp(new, op) /\ new.pc = "audit" /\ new.after = row
      BY <1>0, <3>0, OpAt
    <3>2. ops' = (ops \ {op}) \cup {new}
      BY <1>4, <2>1 DEF WriteCreated, PutOp
    <3> HIDE DEF new
    <3> QED
      BY <3>1, <3>2 DEF SameOp
  <2>3. Goes(op, {new})
    BY <2>2 DEF Goes
  <2>4. RowsInv' /\ WritesInv'
    <3>1. app'.writes <= app.writes + 1
      BY <1>0, <2>1 DEF AppRows
    <3> QED
      BY <1>0, <2>1, <2>2, <2>3, <3>1, RowsKept
  <2>5. RevocationInv' /\ RevokedStays
    BY <1>0, <1>2, <2>2, <2>3, RevocationKept
  <2>6. TrailInv'
    <3>1. new \in ops' /\ WillAudit(new, 0)'
      BY <2>1, <2>2 DEF WillAudit, Shows, SameOp
    <3> QED
      BY <1>0, <1>1, <2>2, <3>1, TrailKept
  <2> QED
    BY <2>4, <2>5, <2>6 DEF KeysInv
<1> QED
  BY <1>3, <1>4

LEMMA KeyCreatedKeeps ==
    ASSUME KeysInv, requests \in Nat, UNCHANGED requests, NEW op \in ops, WriteCreated(op),
           op.target # 0
    PROVE  KeysInv' /\ RevokedStays
<1>0. /\ op \in OwnerOps /\ op.pc = "write" /\ op.action = "created"
      /\ UNCHANGED <<app, audit, cutOff>>
      /\ app \in AppRows /\ keys \in [KeyIds -> KeyRows] /\ audit \subseteq AuditRows
      /\ keys' = [keys EXCEPT ![op.target].status = "active"]
  BY DEF KeysInv, RowsInv, WriteCreated
<1>1. PICK n \in KeyIds : /\ n = op.target /\ n = op.id /\ n # 0 /\ n \in Known
                          /\ keys[n].status = "absent"
  BY <1>0 DEF OwnerOps, Targets, KeysInv, RowsInv, RevocationInv
<1>2. /\ keys' \in [KeyIds -> KeyRows] /\ keys'[n].status = "active"
      /\ \A m \in KeyIds \ {n} : keys'[m] = keys[m]
  BY <1>0, <1>1, KeyWritten
<1>3. PICK row \in KeyRows : row = keys'[n]
  BY <1>2
<1>4. PICK new \in OwnerOps :
        /\ SameOp(new, op) /\ new.pc = "audit" /\ new.after = row
        /\ ops' = (ops \ {op}) \cup {new}
  <2> DEFINE new == [op EXCEPT !.pc = "audit", !.after = row]
  <2>0. row \in AppRows \cup KeyRows
    BY <1>3
  <2>1. SameOp(new, op) /\ new.pc = "audit" /\ new.after = row
    BY <1>0, <2>0, OpAt
  <2>2. ops' = (ops \ {op}) \cup {new}
    BY <1>1, <1>3 DEF WriteCreated, PutOp
  <2> HIDE DEF new
  <2> QED
    BY <2>1, <2>2 DEF SameOp
<1>5. Goes(op, {new})
  BY <1>4 DEF Goes
<1>6. RowsInv' /\ WritesInv'
  <2>1. app'.writes <= app.writes + 1
    BY <1>0 DEF AppRows
  <2> QED
    BY <1>0, <1>2, <1>4, <1>5, <2>1, RowsKept
<1>7. RevokedStays
  BY <1>1, <1>2 DEF RevokedStays
<1>8. RevocationInv'
  <2>1. \A oq \in ops' : oq.id \in Known'
    BY <1>4, <1>5, OpGoes
  <2>2. \A oq, or \in ops' : oq.id = or.id => oq = or
    BY <1>4, <1>5, OpGoes
  <2>3. \A m \in KeyIds : keys'[m].status # "absent" => m \in Known' \cup {OldKey}
    BY <1>1, <1>2 DEF KeysInv, RevocationInv, Known
  <2>4. ASSUME NEW oq \in ops'
        PROVE  /\ oq.action = "created" /\ oq.target # 0 /\ oq.pc = "write"
                     => keys'[oq.target].status = "absent"
               /\ oq.action = "revoked" => keys'[oq.target].status # "absent"
               /\ oq.action = "revoked" /\ oq.pc # "write" => keys'[oq.target].status = "revoked"
    <3>1. CASE oq = new
      BY <1>0, <1>4, <3>1 DEF SameOp
    <3>2. CASE oq # new
      <4>1. oq \in ops /\ oq # op
        BY <1>4, <3>2
      <4>2. oq.action = "created" /\ oq.target # 0 => oq.target \in KeyIds /\ oq.target # n
        BY <1>1, <4>1 DEF KeysInv, RowsInv, RevocationInv, OwnerOps, Targets
      <4>3. oq.action = "revoked" => oq.target \in KeyIds /\ oq.target # n
        BY <1>1, <4>1 DEF KeysInv, RowsInv, RevocationInv
      <4> QED
        BY <1>2, <4>1, <4>2, <4>3 DEF KeysInv, RevocationInv
    <3> QED
      BY <3>1, <3>2
  <2>5. \A r \in audit' : r.action = "revoked" => r.target \in KeyIds /\ keys'[r.target].status = "revoked"
    BY <1>0, <1>7 DEF KeysInv, RevocationInv, RevokedStays
  <2> QED
    BY <2>1, <2>2, <2>3, <2>4, <2>5 DEF RevocationInv
<1>9. TrailInv'
  <2>1. \A t \in Targets \ {n} : Row(t)' = Row(t)
    BY <1>0, <1>2 DEF Row, Targets
  <2>2. new \in ops' /\ WillAudit(new, n)'
    BY <1>1, <1>3, <1>4 DEF WillAudit, Shows, SameOp
  <2> QED
    BY <1>0, <1>1, <1>4, <2>1, <2>2, TrailKept
<1> QED
  BY <1>6, <1>7, <1>8, <1>9 DEF KeysInv

LEMMA WriteAppKeeps ==
    ASSUME KeysInv, requests \in Nat, UNCHANGED requests, NEW op \in ops, WriteApp(op)
    PROVE  KeysInv' /\ RevokedStays
<1>0. /\ op \in OwnerOps /\ op.pc = "write" /\ op.action \in {"updated", "disabled"}
      /\ op.target = 0 /\ op.data \in Statuses /\ UNCHANGED <<keys, audit, cutOff>>
      /\ app \in AppRows /\ keys \in [KeyIds -> KeyRows] /\ audit \subseteq AuditRows
  BY DEF KeysInv, RowsInv, WriteApp
<1>1. app' \in AppRows /\ app'.writes = app.writes + 1
  BY <1>0 DEF WriteApp, AppRows
<1>2. PICK new \in OwnerOps : /\ SameOp(new, op) /\ new.pc = "reread"
                              /\ ops' = (ops \ {op}) \cup {new}
  <2> DEFINE new == [op EXCEPT !.pc = "reread"]
  <2>1. SameOp(new, op) /\ new.pc = "reread"
    BY <1>0, OpReads
  <2>2. ops' = (ops \ {op}) \cup {new}
    BY DEF WriteApp, PutOp
  <2> HIDE DEF new
  <2> QED
    BY <2>1, <2>2 DEF SameOp
<1>3. Goes(op, {new})
  BY <1>2 DEF Goes
<1>4. RowsInv' /\ WritesInv'
  <2>1. app'.writes <= app.writes + 1
    BY <1>0, <1>1 DEF AppRows
  <2> QED
    BY <1>0, <1>1, <1>2, <1>3, <2>1, RowsKept
<1>5. RevocationInv' /\ RevokedStays
  <2>1. \A r \in audit' : r.action = "revoked" => r.target \in KeyIds /\ keys[r.target].status = "revoked"
    BY <1>0 DEF KeysInv, RevocationInv
  <2> QED
    BY <1>0, <1>2, <1>3, <2>1, RevocationKept
<1>6. TrailInv'
  <2>1. \A t \in Targets \ {0} : Row(t)' = Row(t)
    BY <1>0 DEF Row
  <2>2. new \in ops' /\ WillAudit(new, 0)'
    BY <1>0, <1>2 DEF WillAudit, SameOp
  <2> QED
    BY <1>0, <1>2, <2>1, <2>2, TrailKept
<1> QED
  BY <1>4, <1>5, <1>6 DEF KeysInv
LEMMA WriteRevokedKeeps ==
    ASSUME KeysInv, requests \in Nat, UNCHANGED requests, NEW op \in ops, WriteRevoked(op)
    PROVE  KeysInv' /\ RevokedStays
<1>0. /\ op \in OwnerOps /\ op.pc = "write" /\ op.action = "revoked"
      /\ UNCHANGED <<app, audit, cutOff>>
      /\ app \in AppRows /\ keys \in [KeyIds -> KeyRows] /\ audit \subseteq AuditRows
      /\ keys' = [keys EXCEPT ![op.target].status = "revoked"]
  BY DEF KeysInv, RowsInv, WriteRevoked
<1>1. PICK n \in KeyIds : n = op.target /\ keys[n].status # "absent" /\ n # 0
  BY <1>0, TargetsDiffer DEF KeysInv, RowsInv, RevocationInv
<1>2. /\ keys' \in [KeyIds -> KeyRows] /\ keys'[n].status = "revoked"
      /\ \A m \in KeyIds \ {n} : keys'[m] = keys[m]
  BY <1>0, <1>1, KeyWritten
<1>3. PICK new \in OwnerOps : /\ SameOp(new, op) /\ new.pc = "reread"
                              /\ ops' = (ops \ {op}) \cup {new}
  <2> DEFINE new == [op EXCEPT !.pc = "reread"]
  <2>1. SameOp(new, op) /\ new.pc = "reread"
    BY <1>0, OpReads
  <2>2. ops' = (ops \ {op}) \cup {new}
    BY DEF WriteRevoked, PutOp
  <2> HIDE DEF new
  <2> QED
    BY <2>1, <2>2 DEF SameOp
<1>4. Goes(op, {new})
  BY <1>3 DEF Goes
<1>5. RowsInv' /\ WritesInv'
  <2>1. app'.writes <= app.writes + 1
    BY <1>0 DEF AppRows
  <2> QED
    BY <1>0, <1>2, <1>3, <1>4, <2>1, RowsKept
<1>6. RevokedStays
  BY <1>2 DEF RevokedStays
<1>7. RevocationInv'
  <2>1. \A oq \in ops' : oq.id \in Known'
    BY <1>3, <1>4, OpGoes
  <2>2. \A oq, or \in ops' : oq.id = or.id => oq = or
    BY <1>3, <1>4, OpGoes
  <2>3. \A m \in KeyIds : keys'[m].status # "absent" => m \in Known' \cup {OldKey}
    BY <1>1, <1>2 DEF KeysInv, RevocationInv, Known
  <2>4. ASSUME NEW oq \in ops'
        PROVE  /\ oq.action = "created" /\ oq.target # 0 /\ oq.pc = "write"
                     => keys'[oq.target].status = "absent"
               /\ oq.action = "revoked" => keys'[oq.target].status # "absent"
               /\ oq.action = "revoked" /\ oq.pc # "write" => keys'[oq.target].status = "revoked"
    <3>1. CASE oq = new
      BY <1>0, <1>1, <1>2, <1>3, <3>1 DEF SameOp
    <3>2. CASE oq # new
      <4>1. oq \in ops
        BY <1>3, <3>2
      <4>2. oq.action = "created" /\ oq.target # 0 /\ oq.pc = "write" =>
               oq.target \in KeyIds /\ oq.target # n
        BY <1>1, <4>1 DEF KeysInv, RowsInv, RevocationInv, OwnerOps, Targets
      <4>3. oq.action = "revoked" => oq.target \in KeyIds
        BY <4>1 DEF KeysInv, RowsInv
      <4> QED
        BY <1>2, <4>1, <4>2, <4>3 DEF KeysInv, RevocationInv
    <3> QED
      BY <3>1, <3>2
  <2>5. \A r \in audit' : r.action = "revoked" => r.target \in KeyIds /\ keys'[r.target].status = "revoked"
    BY <1>0, <1>6 DEF KeysInv, RevocationInv, RevokedStays
  <2> QED
    BY <2>1, <2>2, <2>3, <2>4, <2>5 DEF RevocationInv
<1>8. TrailInv'
  <2>1. \A t \in Targets \ {n} : Row(t)' = Row(t)
    BY <1>0, <1>2 DEF Row, Targets
  <2>2. new \in ops' /\ WillAudit(new, n)'
    BY <1>1, <1>3 DEF WillAudit, SameOp
  <2> QED
    BY <1>0, <1>1, <1>3, <2>1, <2>2, TrailKept
<1> QED
  BY <1>5, <1>6, <1>7, <1>8 DEF KeysInv

LEMMA RereadKeeps ==
    ASSUME KeysInv, requests \in Nat, UNCHANGED requests, NEW op \in ops, Reread(op)
    PROVE  KeysInv' /\ RevokedStays
<1>0. /\ op \in OwnerOps /\ op.pc = "reread" /\ UNCHANGED <<app, keys, audit, cutOff>>
      /\ app \in AppRows /\ keys \in [KeyIds -> KeyRows] /\ audit \subseteq AuditRows
      /\ op.target \in Targets
  BY DEF KeysInv, RowsInv, Reread, OwnerOps
<1>1. PICK row \in AppRows \cup KeyRows : row = Row(op.target)
  BY <1>0, TargetsDiffer DEF Row
<1>2. PICK new \in OwnerOps :
        /\ SameOp(new, op) /\ new.pc = "audit" /\ new.after = row
        /\ ops' = (ops \ {op}) \cup {new}
  <2> DEFINE new == [op EXCEPT !.pc = "audit", !.after = row]
  <2>1. SameOp(new, op) /\ new.pc = "audit" /\ new.after = row
    BY <1>0, OpAt
  <2>2. ops' = (ops \ {op}) \cup {new}
    BY <1>1 DEF Reread, PutOp
  <2> HIDE DEF new
  <2> QED
    BY <2>1, <2>2 DEF SameOp
<1>3. Goes(op, {new})
  BY <1>2 DEF Goes
<1>4. RowsInv' /\ WritesInv'
  <2>1. app'.writes <= app.writes + 0
    BY <1>0 DEF AppRows
  <2> QED
    BY <1>0, <1>2, <1>3, <2>1, RowsKept
<1>5. RevocationInv' /\ RevokedStays
  <2>1. \A r \in audit' : r.action = "revoked" => r.target \in KeyIds /\ keys[r.target].status = "revoked"
    BY <1>0 DEF KeysInv, RevocationInv
  <2> QED
    BY <1>0, <1>2, <1>3, <2>1, RevocationKept
<1>6. TrailInv'
  <2>1. \A t \in Targets : Row(t)' = Row(t)
    BY <1>0 DEF Row
  <2>2. new \in ops' /\ WillAudit(new, op.target)'
    BY <1>0, <1>1, <1>2, <2>1 DEF WillAudit, Shows, Row, SameOp
  <2> QED
    BY <1>0, <1>2, <2>1, <2>2, TrailKept
<1> QED
  BY <1>4, <1>5, <1>6 DEF KeysInv

\* A request ends without a write of rows.
LEMMA OpEnds ==
    ASSUME KeysInv, requests \in Nat, UNCHANGED <<requests, app, keys>>, NEW op \in ops,
           ops' = ops \ {op}, audit \subseteq audit', audit' \subseteq AuditRows,
           \A r \in audit' : r.action = "revoked" =>
              r.target \in KeyIds /\ keys[r.target].status = "revoked",
           cutOff \subseteq cutOff',
           \A t \in Targets : WillAudit(op, t) =>
              t \in cutOff' \/ \E r \in audit' : r.target = t /\ Shows(r.after, t)
    PROVE  KeysInv' /\ RevokedStays
<1>1. ops' = (ops \ {op}) \cup {} /\ Goes(op, {})
  BY DEF Goes
<1>2. RowsInv' /\ WritesInv'
  <2>1. app' \in AppRows /\ keys' \in [KeyIds -> KeyRows]
    BY DEF KeysInv, RowsInv
  <2>2. app'.writes <= app.writes + (IF op.pc = "write" THEN 1 ELSE 0)
    BY <2>1 DEF AppRows
  <2> QED
    BY <1>1, <2>1, <2>2, RowsKept
<1>3. RevocationInv' /\ RevokedStays
  BY <1>1, RevocationKept
<1>4. TrailInv'
  <2>1. \A t \in Targets : Row(t)' = Row(t)
    BY DEF Row
  <2> SUFFICES ASSUME NEW t \in Targets, Present(t)', t \notin cutOff'
               PROVE  \/ \E r \in audit' : r.target = t /\ Shows(r.after, t)'
                      \/ \E oq \in ops' : WillAudit(oq, t)'
    BY DEF TrailInv
  <2>2. \/ \E r \in audit : r.target = t /\ Shows(r.after, t)
        \/ \E oq \in ops : WillAudit(oq, t)
    BY <2>1 DEF KeysInv, TrailInv, Present
  <2>3. \A oq \in ops : WillAudit(oq, t) => oq = op \/ (oq \in ops' /\ WillAudit(oq, t)')
    BY <2>1, ShowsKept DEF WillAudit
  <2>4. \A r \in audit' : Shows(r.after, t) => Shows(r.after, t)'
    BY <2>1, ShowsKept
  <2> QED
    BY <2>2, <2>3, <2>4
<1> QED
  BY <1>2, <1>3, <1>4 DEF KeysInv

LEMMA AuditKeeps ==
    ASSUME KeysInv, requests \in Nat, UNCHANGED requests, NEW op \in ops,
           createAuditLogForRequest(op)
    PROVE  KeysInv' /\ RevokedStays
<1>0. /\ op \in OwnerOps /\ op.pc = "audit" /\ UNCHANGED <<app, keys, cutOff>>
      /\ audit \subseteq AuditRows /\ ops' = ops \ {op}
  BY DEF KeysInv, RowsInv, createAuditLogForRequest, PutOp
<1>1. PICK r \in AuditRows :
        /\ r.action = op.action /\ r.target = op.target /\ r.after = op.after
        /\ audit' = audit \cup {r}
  <2> DEFINE r == [action |-> op.action, target |-> op.target, after |-> op.after]
  <2>1. r \in AuditRows /\ r.action = op.action /\ r.target = op.target /\ r.after = op.after
    BY <1>0 DEF AuditRows, OwnerOps
  <2>2. audit' = audit \cup {r}
    BY DEF createAuditLogForRequest
  <2> HIDE DEF r
  <2> QED
    BY <2>1, <2>2
<1>2. \A s \in audit' : s.action = "revoked" =>
         s.target \in KeyIds /\ keys[s.target].status = "revoked"
  BY <1>0, <1>1 DEF KeysInv, RowsInv, RevocationInv
<1>3. \A t \in Targets : WillAudit(op, t) => \E s \in audit' : s.target = t /\ Shows(s.after, t)
  BY <1>0, <1>1 DEF WillAudit
<1> QED
  BY <1>0, <1>1, <1>2, <1>3, OpEnds

LEMMA CutOffKeeps ==
    ASSUME KeysInv, requests \in Nat, UNCHANGED requests, NEW op \in ops, CutOff(op)
    PROVE  KeysInv' /\ RevokedStays
<1>0. UNCHANGED <<app, keys, audit>> /\ audit \subseteq AuditRows /\ ops' = ops \ {op}
  BY DEF KeysInv, RowsInv, CutOff, PutOp
<1>1. \A r \in audit' : r.action = "revoked" => r.target \in KeyIds /\ keys[r.target].status = "revoked"
  BY <1>0 DEF KeysInv, RevocationInv
<1>2. cutOff \subseteq cutOff' /\ \A t \in Targets : WillAudit(op, t) => t \in cutOff'
  BY DEF CutOff, WillAudit
<1> QED
  BY <1>0, <1>1, <1>2, OpEnds

LEMMA OwnerStepKeeps ==
    ASSUME KeysInv, requests \in Nat, UNCHANGED requests, OwnerStep
    PROVE  KeysInv' /\ RevokedStays
BY AppCreatedKeeps, KeyCreatedKeeps, WriteAppKeeps, WriteRevokedKeeps, RereadKeeps, AuditKeeps,
   CutOffKeeps DEF OwnerStep

-----------------------------------------------------------------------------
(* Calls with an API key                                                   *)

LEMMA CallsFrame ==
    ASSUME CallsInv, RevokedStays, UNCHANGED calls
    PROVE  CallsInv'
BY DEF CallsInv, RevokedStays, Calls

LEMMA LimiterFrame ==
    ASSUME LimiterInv, UNCHANGED <<redis, redisUp, failClosed, buckets, admitted>>
    PROVE  LimiterInv'
BY DEF LimiterInv

LEMMA BeginCallKeeps ==
    ASSUME RowsInv, RevocationInv, CallsInv, NEW id \in Nat, NEW server \in Servers,
           NEW key \in KeyIds, BeginCall(id, server, key), UNCHANGED keys
    PROVE  CallsInv'
<1> DEFINE late == Reported(key)
           c == [id |-> id, server |-> server, key |-> key, pc |-> "authenticate", late |-> late]
<1>1. late \in BOOLEAN
  BY DEF Reported
<1>2. late => keys[key].status = "revoked"
  BY DEF Reported, RevocationInv
<1>3. calls' = calls \cup {c}
  BY DEF BeginCall
<1> HIDE DEF late
<1>4. c \in Calls /\ c.late = late /\ c.pc = "authenticate" /\ c.key = key
  BY <1>1 DEF Calls
<1> HIDE DEF c
<1> QED
  BY <1>2, <1>3, <1>4 DEF CallsInv

\* A call goes on only when it is not late.
LEMMA CallGoes ==
    ASSUME CallsInv, RevokedStays, NEW c \in calls, NEW pc \in {"use", "key", "tenant"},
           EndCall(c) \/ (~c.late /\ PutCall(c, pc))
    PROVE  CallsInv'
<1> DEFINE d == [c EXCEPT !.pc = pc]
<1>1. d \in Calls /\ d.late = c.late
  BY DEF CallsInv, Calls
<1>2. calls' = calls \ {c} \/ (~c.late /\ calls' = (calls \ {c}) \cup {d})
  BY DEF EndCall, PutCall
<1> HIDE DEF d
<1>3. \A e \in calls : e.key \in KeyIds
  BY DEF CallsInv, Calls
<1> QED
  BY <1>1, <1>2, <1>3 DEF CallsInv, RevokedStays

LEMMA AuthenticateKeeps ==
    ASSUME CallsInv, RevokedStays, NEW c \in calls, authenticateApiKey(c)
    PROVE  CallsInv'
<1>1. c.late => ~findActiveApiKeyByHash(c.key)
  BY DEF CallsInv, findActiveApiKeyByHash
<1>2. EndCall(c) \/ (~c.late /\ PutCall(c, "use"))
  BY <1>1 DEF authenticateApiKey
<1> QED
  BY <1>2, CallGoes

LEMMA RateLimitCalls ==
    ASSUME CallsInv, RevokedStays, NEW c \in calls, RateLimit(c)
    PROVE  CallsInv'
<1>1. ~c.late
  BY DEF CallsInv, RateLimit
<1>2. EndCall(c) \/ PutCall(c, "tenant")
  BY DEF RateLimit
<1> QED
  BY <1>1, <1>2, CallGoes

LEMMA UseCalls ==
    ASSUME CallsInv, RevokedStays, NEW c \in calls, updateApiKeyLastUsedAt(c)
    PROVE  CallsInv'
<1>1. ~c.late
  BY DEF CallsInv, updateApiKeyLastUsedAt
<1>2. EndCall(c) \/ PutCall(c, "key")
  BY DEF updateApiKeyLastUsedAt
<1> QED
  BY <1>1, <1>2, CallGoes

\* lastUsedAt is written into a key's row, and nothing that is audited changes.
LEMMA UseKeeps ==
    ASSUME KeysInv, requests \in Nat, UNCHANGED <<requests, app, audit, ops, cutOff>>,
           NEW n \in KeyIds, keys' = [keys EXCEPT ![n].uses = @ + 1]
    PROVE  KeysInv' /\ RevokedStays
<1> DEFINE row == [keys[n] EXCEPT !.uses = @ + 1]
<1>0. keys \in [KeyIds -> KeyRows]
  BY DEF KeysInv, RowsInv
<1>1. row \in KeyRows /\ row.status = keys[n].status
  BY <1>0 DEF KeyRows
<1>2. keys' = [keys EXCEPT ![n] = row]
  OBVIOUS
<1> HIDE DEF row
<1>3. keys' \in [KeyIds -> KeyRows] /\ \A m \in KeyIds : keys'[m].status = keys[m].status
  BY <1>0, <1>1, <1>2
<1>4. RowsInv'
  BY <1>3 DEF KeysInv, RowsInv
<1>5. WritesInv'
  BY DEF KeysInv, WritesInv, Writing
<1>6. RevocationInv'
  <2>1. Known' = Known
    BY DEF Known
  <2>2. \A op \in ops : /\ op.action = "created" /\ op.target # 0 => op.target \in KeyIds
                        /\ op.action = "revoked" => op.target \in KeyIds
    BY DEF KeysInv, RowsInv, OwnerOps, Targets
  <2> QED
    BY <1>3, <2>1, <2>2 DEF KeysInv, RevocationInv
<1>7. TrailInv'
  <2> SUFFICES ASSUME NEW t \in Targets, Present(t)', t \notin cutOff'
               PROVE  \/ \E r \in audit' : r.target = t /\ Shows(r.after, t)'
                      \/ \E op \in ops' : WillAudit(op, t)'
    BY DEF TrailInv
  <2>1. Present(t) <=> Present(t)'
    BY <1>3, TargetsDiffer DEF Present, Row
  <2>2. \A after : Shows(after, t) <=> Shows(after, t)'
    BY <1>3, TargetsDiffer DEF Shows
  <2>3. \A op \in ops : WillAudit(op, t) => WillAudit(op, t)'
    BY <2>2 DEF WillAudit
  <2> QED
    BY <2>1, <2>2, <2>3 DEF KeysInv, TrailInv
<1> QED
  BY <1>3, <1>4, <1>5, <1>6, <1>7 DEF KeysInv, RevokedStays

LEMMA LimitsCount == \A b \in Buckets : Limit(b) \in Nat
BY LimitsPositive DEF Limit, Buckets

\* Where a bucket may be counted.
LEMMA PlaceOfCount ==
    ASSUME LimiterInv, redis \in BOOLEAN, NEW server \in Servers
    PROVE  /\ consume(server) \subseteq Places
           /\ redis /\ failClosed => consume(server) \in {{}, {"redis"}}
BY DEF consume, Places, LimiterInv

LEMMA RateLimitCounts ==
    ASSUME LimiterInv, redis \in BOOLEAN, CallsInv, NEW c \in calls, RateLimit(c), UNCHANGED redis
    PROVE  LimiterInv'
<1>0. PICK b \in Buckets : b = IF c.pc = "key" THEN c.key ELSE 0
  BY DEF CallsInv, Calls, Buckets, Targets
<1>1. PICK place : place = consume(c.server)
  OBVIOUS
<1>2. place \subseteq Places /\ (redis /\ failClosed => place \in {{}, {"redis"}})
  BY <1>1, PlaceOfCount DEF CallsInv, Calls
<1>3. /\ buckets' = [p \in Places |-> [buckets[p] EXCEPT ![b] =
                        IF p \in place /\ @ <= Limit(b) THEN @ + 1 ELSE @]]
      /\ \/ /\ place # {} /\ \A p \in place : buckets[p][b] < Limit(b)
            /\ admitted' = [admitted EXCEPT ![b] = IF @ <= Limit(b) THEN @ + 1 ELSE @]
         \/ admitted' = admitted
      /\ UNCHANGED <<redisUp, failClosed>>
  BY <1>0, <1>1 DEF RateLimit
<1>4. /\ buckets \in [Places -> [Buckets -> Nat]] /\ admitted \in [Buckets -> Nat]
      /\ \A e \in Buckets : Limit(e) \in Nat
  BY LimitsCount DEF LimiterInv
<1>5. ASSUME NEW p \in Places
      PROVE  /\ buckets'[p] \in [Buckets -> Nat]
             /\ \A e \in Buckets \ {b} : buckets'[p][e] = buckets[p][e]
             /\ buckets'[p][b] = IF p \in place /\ buckets[p][b] <= Limit(b)
                                 THEN buckets[p][b] + 1 ELSE buckets[p][b]
  <2>1. buckets[p] \in [Buckets -> Nat]
    BY <1>4
  <2>2. buckets'[p] = [buckets[p] EXCEPT ![b] =
                         IF p \in place /\ buckets[p][b] <= Limit(b) THEN buckets[p][b] + 1 ELSE buckets[p][b]]
    BY <1>3
  <2> QED
    BY <2>1, <2>2
<1>6. buckets' \in [Places -> [Buckets -> Nat]]
  BY <1>3, <1>5
<1>7. \A p \in Places, e \in Buckets : buckets'[p][e] <= Limit(e) + 1
  <2> SUFFICES ASSUME NEW p \in Places, NEW e \in Buckets PROVE buckets'[p][e] <= Limit(e) + 1
    OBVIOUS
  <2>1. buckets[p][e] \in Nat /\ buckets[p][e] <= Limit(e) + 1 /\ Limit(e) \in Nat
    BY <1>4 DEF LimiterInv
  <2> QED
    BY <1>5, <2>1
<1>8. /\ admitted' \in [Buckets -> Nat] /\ \A e \in Buckets : admitted'[e] <= Limit(e) + 1
      /\ \A e \in Buckets \ {b} : admitted'[e] = admitted[e]
      /\ admitted'[b] \in {admitted[b], admitted[b] + 1}
      /\ admitted'[b] # admitted[b] => place # {} /\ \A p \in place : buckets[p][b] < Limit(b)
  BY <1>3, <1>4 DEF LimiterInv
<1>9. ASSUME redis, failClosed, NEW e \in Buckets
      PROVE  admitted'[e] <= Limit(e) /\ admitted'[e] <= buckets'["redis"][e]
  <2>0. "redis" \in Places
    BY DEF Places
  <2>1. /\ admitted[e] \in Nat /\ buckets["redis"][e] \in Nat /\ Limit(e) \in Nat
        /\ admitted[e] <= Limit(e) /\ admitted[e] <= buckets["redis"][e]
    BY <1>4, <1>9, <2>0 DEF LimiterInv
  <2>2. buckets["redis"][e] <= buckets'["redis"][e] /\ buckets'["redis"][e] \in Nat
    BY <1>5, <2>0, <2>1
  <2>3. CASE admitted'[e] = admitted[e]
    BY <2>1, <2>2, <2>3
  <2>4. CASE admitted'[e] # admitted[e]
    <3>1. e = b /\ admitted'[e] = admitted[e] + 1
      BY <1>8, <2>4
    <3>2. place = {"redis"} /\ buckets["redis"][e] < Limit(e)
      BY <1>2, <1>8, <1>9, <2>4, <3>1
    <3>3. buckets'["redis"][e] = buckets["redis"][e] + 1
      BY <1>5, <2>0, <2>1, <3>1, <3>2
    <3> QED
      BY <2>1, <3>1, <3>2, <3>3
  <2> QED
    BY <2>3, <2>4
<1> QED
  BY <1>3, <1>6, <1>7, <1>8, <1>9 DEF LimiterInv

LEMMA LimiterChangesKeeps ==
    ASSUME LimiterInv, LimiterChanges, UNCHANGED redis
    PROVE  LimiterInv'
<1>0. /\ buckets \in [Places -> [Buckets -> Nat]] /\ admitted \in [Buckets -> Nat]
      /\ \A e \in Buckets : Limit(e) \in Nat
  BY LimitsCount DEF LimiterInv
<1>1. ASSUME NEW place \in Places, NEW b \in Buckets, WindowEnds(place, b) PROVE LimiterInv'
  <2>1. /\ buckets' = [buckets EXCEPT ![place][b] = 0]
        /\ admitted' = IF place = "redis" THEN [admitted EXCEPT ![b] = 0] ELSE admitted
        /\ UNCHANGED <<redisUp, failClosed>>
    BY <1>1 DEF WindowEnds
  <2>2. /\ buckets' \in [Places -> [Buckets -> Nat]]
        /\ \A p \in Places, e \in Buckets :
              buckets'[p][e] = IF p = place /\ e = b THEN 0 ELSE buckets[p][e]
    BY <1>0, <2>1
  <2>3. /\ admitted' \in [Buckets -> Nat]
        /\ \A e \in Buckets :
              admitted'[e] = IF place = "redis" /\ e = b THEN 0 ELSE admitted[e]
    BY <1>0, <2>1
  <2>4. \A p \in Places, e \in Buckets : buckets'[p][e] <= Limit(e) + 1
    BY <1>0, <2>2 DEF LimiterInv
  <2>5. \A e \in Buckets : admitted'[e] <= Limit(e) + 1
    BY <1>0, <2>3 DEF LimiterInv
  <2>6. ASSUME redis, failClosed, NEW e \in Buckets
        PROVE  admitted'[e] <= Limit(e) /\ admitted'[e] <= buckets'["redis"][e]
    <3>1. "redis" \in Places
      BY DEF Places
    <3>2. /\ admitted[e] \in Nat /\ buckets["redis"][e] \in Nat /\ Limit(e) \in Nat
          /\ admitted[e] <= Limit(e) /\ admitted[e] <= buckets["redis"][e]
      BY <1>0, <2>6, <3>1 DEF LimiterInv
    <3> QED
      BY <2>2, <2>3, <3>1, <3>2
  <2> QED
    BY <2>1, <2>2, <2>3, <2>4, <2>5, <2>6 DEF LimiterInv
<1>2. CASE RedisChanges
  BY <1>2 DEF RedisChanges, LimiterInv
<1> QED
  BY <1>1, <1>2 DEF LimiterChanges
-----------------------------------------------------------------------------
(* The inductive invariant and the properties it implies                   *)

LEMMA ServerInvInit == Init => ServerInv
<1> SUFFICES ASSUME Init PROVE ServerInv
  OBVIOUS
<1>0. requests \in 0..MaxRequests /\ requests = 0 /\ ops = {}
  BY LimitsPositive DEF Init, KeysInit
<1>1. AuthInv
  <2>1. challenge \in [Places -> 0..MaxChallenges] /\ created \in 0..MaxChallenges
    BY ChallengesBounded DEF Init, AuthInit
  <2>2. "redis" \in Places
    BY DEF Places
  <2> QED
    BY <2>1, <2>2 DEF Init, AuthInit, AuthInv
<1>2. KeysInv
  <2>1. CASE /\ app = [status |-> "absent", writes |-> 0]
             /\ keys = [n \in KeyIds |-> NoKey] /\ audit = {}
    <3>1. NoKey \in KeyRows /\ NoKey.status = "absent"
      BY DEF NoKey, KeyRows
    <3>2. RowsInv
      BY <1>0, <2>1, <3>1 DEF RowsInv, AppRows
    <3>3. WritesInv
      BY <1>0, <2>1, FS_EmptySet DEF WritesInv, Writing
    <3>4. RevocationInv
      BY <1>0, <2>1, <3>1 DEF RevocationInv
    <3>5. \A t \in Targets : ~Present(t)
      BY <2>1, <3>1, TargetsDiffer DEF Present, Row
    <3> QED
      BY <3>2, <3>3, <3>4, <3>5 DEF KeysInv, TrailInv
  <2>2. CASE /\ app = [status |-> "active", writes |-> 1]
             /\ keys = [n \in KeyIds |-> IF n = OldKey THEN [NoKey EXCEPT !.status = "active"] ELSE NoKey]
             /\ audit = {Created(0, app), Created(OldKey, keys[OldKey])}
    <3>1. NoKey \in KeyRows /\ NoKey.status = "absent"
      BY DEF NoKey, KeyRows
    <3>2. OldKey \in KeyIds /\ OldKey # 0 /\ {0, OldKey} \subseteq Targets
      BY TargetsDiffer DEF KeyIds
    <3>3. /\ app \in AppRows /\ app.writes = 1 /\ keys \in [KeyIds -> KeyRows]
          /\ keys[OldKey].status = "active"
          /\ \A n \in KeyIds \ {OldKey} : keys[n].status = "absent"
      <4>1. /\ [NoKey EXCEPT !.status = "active"] \in KeyRows
            /\ [NoKey EXCEPT !.status = "active"].status = "active"
        BY DEF NoKey, KeyRows
      <4> QED
        BY <2>2, <3>1, <3>2, <4>1 DEF AppRows, Statuses
    <3>4. \A t \in {0, OldKey}, row \in AppRows \cup KeyRows :
            /\ Created(t, row) \in AuditRows /\ Created(t, row).target = t
            /\ Created(t, row).after = row /\ Created(t, row).action = "created"
      BY <3>2 DEF Created, AuditRows
    <3>5. RowsInv
      BY <1>0, <2>2, <3>2, <3>3, <3>4 DEF RowsInv
    <3>6. WritesInv
      <4>1. Writing = {} /\ IsFiniteSet(ops) /\ Cardinality({}) = 0
        BY <1>0, FS_EmptySet DEF Writing
      <4> QED
        BY <1>0, <3>3, <4>1 DEF WritesInv
    <3>7. RevocationInv
      BY <1>0, <2>2, <3>2, <3>3, <3>4 DEF RevocationInv
    <3>8. TrailInv
      <4> SUFFICES ASSUME NEW t \in Targets, Present(t)
                   PROVE  \E r \in audit : r.target = t /\ Shows(r.after, t)
        BY DEF TrailInv
      <4>1. t \in {0, OldKey}
        BY <3>3 DEF Present, Row, Targets
      <4>2. Row(t) \in AppRows \cup KeyRows /\ Created(t, Row(t)) \in audit
        BY <2>2, <3>2, <3>3, <4>1 DEF Row
      <4>3. Shows(Row(t), t)
        BY <3>2, <4>1 DEF Shows, Row
      <4> QED
        BY <3>4, <4>1, <4>2, <4>3
    <3> QED
      BY <3>5, <3>6, <3>7, <3>8 DEF KeysInv
  <2> QED
    BY <2>1, <2>2 DEF Init, KeysInit
<1>3. CallsInv
  BY DEF Init, KeysInit, CallsInv
<1>4. LimiterInv
  <2>1. redisUp \in BOOLEAN /\ failClosed \in BOOLEAN
    BY DEF Init, AuthInit, KeysInit
  <2>2. /\ buckets \in [Places -> [Buckets -> Nat]] /\ admitted \in [Buckets -> Nat]
        /\ \A p \in Places, b \in Buckets : buckets[p][b] = 0
        /\ \A b \in Buckets : admitted[b] = 0
    BY DEF Init, KeysInit
  <2>3. "redis" \in Places
    BY DEF Places
  <2>4. \A b \in Buckets : 0 <= Limit(b) /\ 0 <= Limit(b) + 1
    BY LimitsCount
  <2> QED
    BY <2>1, <2>2, <2>3, <2>4 DEF LimiterInv
<1>5. ProviderInv
  <2>1. active = 0 /\ waiters = <<>> /\ providerCalls = {} /\ circuit = [failures |-> 0, open |-> FALSE]
    BY DEF Init, ProviderInit
  <2>2. IsFiniteSet({}) /\ Cardinality({}) = 0
    BY FS_EmptySet
  <2>3. \A pc : WithPc(pc) = {}
    BY <2>1 DEF WithPc
  <2>4. NoLostWakeup
    <3>1. DOMAIN waiters = {}
      BY <2>1
    <3>2. {waiters[i] : i \in DOMAIN waiters} = {c.id : c \in WithPc("waiting")}
      BY <2>3, <3>1
    <3>3. active = Cardinality(WithPc("running"))
      BY <2>1, <2>2, <2>3
    <3> QED
      BY <2>1, <3>2, <3>3 DEF NoLostWakeup
  <2>5. circuit \in [failures: 0..FailureThreshold, open: BOOLEAN]
    BY <2>1, PoolPositive
  <2> QED
    BY <2>1, <2>2, <2>4, <2>5 DEF ProviderInv
<1> QED
  BY <1>0, <1>1, <1>2, <1>3, <1>4, <1>5 DEF ServerInv

LEMMA ServerInvNext == ServerInv /\ [Next]_vars => ServerInv' /\ LatestStep
<1> SUFFICES ASSUME ServerInv, [Next]_vars PROVE ServerInv' /\ LatestStep
  OBVIOUS
<1>0. /\ requests \in Nat /\ AuthInv /\ KeysInv /\ CallsInv /\ LimiterInv /\ ProviderInv
      /\ redis \in BOOLEAN /\ RowsInv /\ RevocationInv
  BY LimitsPositive DEF ServerInv, AuthInv, KeysInv
<1>1. requests' \in 0..MaxRequests /\ requests' \in {requests, requests + 1} /\ Counted
  <2>1. \/ requests < MaxRequests /\ requests' = requests + 1
        \/ requests' = requests
    BY DEF Next, SignIn, OwnerRequest, KeyRequest, ReadinessCheck, StoreChanges, Step, Arrives, vars
  <2> QED
    BY <1>0, <2>1, LimitsPositive DEF ServerInv, Counted
<1>2. UNCHANGED appVars => KeysInv' /\ RevokedStays
  BY <1>0, <1>1, KeysFrame
<1>3. UNCHANGED appVars /\ UNCHANGED callVars => CallsInv'
  BY <1>0, <1>2, CallsFrame DEF callVars
<1>4. UNCHANGED callVars /\ redis' = redis => LimiterInv'
  BY <1>0, LimiterFrame DEF callVars
<1>5. UNCHANGED providerVars => ProviderInv'
  BY <1>0, <1>1, ProviderFrame
<1>6. UNCHANGED authVars => AuthInv' /\ LatestStep /\ redis' = redis
  BY <1>0, AuthFrame DEF authVars
<1>7. CASE SignIn
  <2>1. UNCHANGED <<appVars, callVars, providerVars>> /\ requests + 1 \in Nat
    BY <1>0, <1>7 DEF SignIn
  <2>2. AuthInv' /\ LatestStep /\ redis' = redis
    <3>1. ASSUME NEW server \in Servers, createChallenge(server)
          PROVE  AuthInv' /\ LatestStep /\ redis' = redis
      BY <1>0, <3>1, CreateChallengeKeeps DEF createChallenge
    <3>2. ASSUME NEW server \in Servers, NEW n \in Nonces, BeginVerify(requests + 1, server, n)
          PROVE  AuthInv' /\ LatestStep /\ redis' = redis
      BY <1>0, <2>1, <3>2, BeginVerifyKeeps DEF BeginVerify
    <3> QED
      BY <1>7, <3>1, <3>2 DEF SignIn, Id
  <2> QED
    BY <1>1, <1>2, <1>3, <1>4, <1>5, <2>1, <2>2 DEF ServerInv
<1>8. CASE OwnerRequest
  <2>1. UNCHANGED <<authVars, callVars, providerVars>>
    BY <1>8 DEF OwnerRequest
  <2>2. KeysInv' /\ RevokedStays
    BY <1>0, <1>8, OwnerRequestKeeps
  <2>3. CallsInv'
    BY <1>0, <2>1, <2>2, CallsFrame DEF callVars
  <2> QED
    BY <1>1, <1>4, <1>5, <1>6, <2>1, <2>2, <2>3 DEF ServerInv
<1>9. CASE KeyRequest
  <2>1. UNCHANGED <<authVars, appVars, providerVars>> /\ requests + 1 \in Nat /\ keys' = keys
    BY <1>0, <1>9 DEF KeyRequest, appVars
  <2>2. PICK server \in Servers, key \in KeyIds : BeginCall(requests + 1, server, key)
    BY <1>9 DEF KeyRequest, Id
  <2>3. CallsInv'
    BY <1>0, <2>1, <2>2, BeginCallKeeps
  <2>4. redis' = redis /\ UNCHANGED <<redisUp, failClosed, buckets, admitted>>
    BY <2>1, <2>2 DEF authVars, BeginCall
  <2>5. LimiterInv'
    BY <1>0, <2>4, LimiterFrame
  <2> QED
    BY <1>1, <1>2, <1>5, <1>6, <2>1, <2>3, <2>5 DEF ServerInv
<1>10. CASE ReadinessCheck
  <2>1. UNCHANGED <<authVars, appVars, callVars>> /\ requests' = requests + 1
    BY <1>10 DEF ReadinessCheck, Arrives
  <2>2. ProviderInv'
    BY <1>0, <1>10, <2>1, ExecuteKeeps DEF ReadinessCheck, Id
  <2> QED
    BY <1>1, <1>2, <1>3, <1>4, <1>6, <2>1, <2>2 DEF ServerInv
<1>11. CASE StoreChanges
  <2>1. ASSUME NEW p \in Places, Expires(p), UNCHANGED <<appVars, callVars, providerVars>>
        PROVE  ServerInv' /\ LatestStep
    <3>1. AuthInv' /\ LatestStep /\ redis' = redis
      BY <1>0, <2>1, ExpiresKeeps DEF Expires
    <3> QED
      BY <1>1, <1>2, <1>3, <1>4, <1>5, <2>1, <3>1 DEF ServerInv
  <2>2. ASSUME LimiterChanges, UNCHANGED <<authVars, appVars, providerVars>>
        PROVE  ServerInv' /\ LatestStep
    <3>1. LimiterInv' /\ calls' = calls
      BY <1>0, <1>6, <2>2, LimiterChangesKeeps DEF LimiterChanges, WindowEnds, RedisChanges
    <3>2. CallsInv'
      BY <1>0, <1>2, <2>2, <3>1, CallsFrame
    <3> QED
      BY <1>1, <1>2, <1>5, <1>6, <2>2, <3>1, <3>2 DEF ServerInv
  <2> QED
    BY <1>11, <2>1, <2>2 DEF StoreChanges
<1>12. CASE Step
  <2>0. requests' = requests
    BY <1>12 DEF Step
  <2>1. CASE VerifyStep /\ UNCHANGED <<appVars, callVars, providerVars>>
    <3>1. AuthInv' /\ LatestStep
      BY <1>0, <2>1, VerifyStepKeeps
    <3>2. redis' = redis
      BY <2>1 DEF VerifyStep, CheckSignature, ConsumeRedis, ConsumeGet, ConsumeDelete
    <3> QED
      BY <1>1, <1>2, <1>3, <1>4, <1>5, <2>1, <3>1, <3>2 DEF ServerInv
  <2>2. CASE OwnerStep /\ UNCHANGED <<authVars, callVars, providerVars>>
    <3>1. KeysInv' /\ RevokedStays
      BY <1>0, <2>0, <2>2, OwnerStepKeeps
    <3>2. CallsInv'
      BY <1>0, <2>2, <3>1, CallsFrame DEF callVars
    <3> QED
      BY <1>1, <1>4, <1>5, <1>6, <2>2, <3>1, <3>2 DEF ServerInv
  <2>3. CASE CallStep /\ UNCHANGED <<authVars, providerVars>>
    <3>1. redis' = redis
      BY <2>3 DEF authVars
    <3>2. KeysInv' /\ CallsInv' /\ LimiterInv'
      <4>1. ASSUME NEW c \in calls, authenticateApiKey(c)
            PROVE  KeysInv' /\ CallsInv' /\ LimiterInv'
        <5>1. UNCHANGED <<appVars, redisUp, failClosed, buckets, admitted>>
          BY <4>1 DEF authenticateApiKey
        <5> QED
          BY <1>0, <1>2, <3>1, <4>1, <5>1, AuthenticateKeeps, LimiterFrame
      <4>2. ASSUME NEW c \in calls, updateApiKeyLastUsedAt(c)
            PROVE  KeysInv' /\ CallsInv' /\ LimiterInv'
        <5>1. /\ UNCHANGED <<app, audit, ops, cutOff, redisUp, failClosed, buckets, admitted>>
              /\ keys' = [keys EXCEPT ![c.key].uses = @ + 1] \/ keys' = keys
          BY <4>2 DEF updateApiKeyLastUsedAt
        <5>2. c.key \in KeyIds
          BY <1>0 DEF CallsInv, Calls
        <5>3. KeysInv' /\ RevokedStays
          BY <1>0, <1>2, <2>0, <5>1, <5>2, UseKeeps DEF appVars
        <5> QED
          BY <1>0, <3>1, <4>2, <5>1, <5>3, UseCalls, LimiterFrame
      <4>3. ASSUME NEW c \in calls, RateLimit(c)
            PROVE  KeysInv' /\ CallsInv' /\ LimiterInv'
        <5>1. UNCHANGED appVars
          BY <4>3 DEF RateLimit
        <5> QED
          BY <1>0, <1>2, <3>1, <4>3, <5>1, RateLimitCalls, RateLimitCounts
      <4> QED
        BY <2>3, <4>1, <4>2, <4>3 DEF CallStep
    <3> QED
      BY <1>1, <1>5, <1>6, <2>3, <3>2 DEF ServerInv
  <2>4. CASE ProviderStep /\ UNCHANGED <<authVars, appVars, callVars>>
    <3>1. ProviderInv'
      BY <1>0, <2>0, <2>4, ProviderStepKeeps
    <3> QED
      BY <1>1, <1>2, <1>3, <1>4, <1>6, <2>4, <3>1 DEF ServerInv
  <2> QED
    BY <1>12, <2>1, <2>2, <2>3, <2>4 DEF Step
<1>13. CASE UNCHANGED vars
  BY <1>1, <1>2, <1>3, <1>4, <1>5, <1>6, <1>13 DEF vars, ServerInv
<1> QED
  BY <1>7, <1>8, <1>9, <1>10, <1>11, <1>12, <1>13 DEF Next

\* The inductive invariant of the API's processes.
THEOREM ServerInvAlways == Spec => []ServerInv
BY ServerInvInit, ServerInvNext, PTL DEF Spec

\* Sessions, rows, calls and counters keep their types; no more writes reach the
\* app's row than requests asked for.
THEOREM TypeCorrect == Spec => []TypeOK
<1>1. ServerInv => TypeOK
  <2> SUFFICES ASSUME ServerInv PROVE TypeOK
    OBVIOUS
  <2>1. AuthTypeOK
    <3>1. \A v \in verifying : v.n \in 1..created
      BY ChallengesBounded DEF ServerInv, AuthInv, Verifications, Nonces
    <3> QED
      BY <3>1 DEF ServerInv, AuthInv, AuthTypeOK, Verifications
  <2>2. KeysTypeOK
    <3>1. app.writes \in 0..(MaxRequests + 1)
      <4>1. IsFiniteSet(Writing)
        BY FS_Subset DEF ServerInv, KeysInv, WritesInv, Writing
      <4>2. Cardinality(Writing) \in Nat
        BY <4>1, FS_CardinalityType
      <4>3. /\ app.writes \in Nat /\ app.writes + Cardinality(Writing) <= requests + 1
            /\ requests \in 0..MaxRequests
        BY DEF ServerInv, KeysInv, RowsInv, AppRows, WritesInv
      <4> QED
        BY <4>2, <4>3, LimitsPositive
    <3>2. app.status \in Statuses \cup {"absent"} /\ keys \in [KeyIds -> [status: {"absent", "active", "revoked"}, uses: Nat]]
      BY DEF ServerInv, KeysInv, RowsInv, AppRows, KeyRows
    <3>3. /\ \A b \in Buckets : admitted[b] \in 0..(Limit(b) + 1)
          /\ \A p \in Places, b \in Buckets : buckets[p][b] \in 0..(Limit(b) + 1)
      BY LimitsCount DEF ServerInv, LimiterInv
    <3> QED
      BY <3>1, <3>2, <3>3 DEF KeysTypeOK
  <2>3. ProviderTypeOK
    BY DEF ServerInv, ProviderInv, ProviderTypeOK, PCalls
  <2> QED
    BY <2>1, <2>2, <2>3 DEF TypeOK, ServerInv
<1> QED
  BY <1>1, ServerInvAlways, PTL

\* requireApiKey refuses every call begun after revokeApiKeyForOwner answered,
\* whatever else was written to the app and its keys.
THEOREM RefusedAfterRevocationAlways == Spec => []RefusedAfterRevocation
<1>1. ServerInv => RefusedAfterRevocation
  BY DEF ServerInv, CallsInv, RefusedAfterRevocation
<1> QED
  BY <1>1, ServerInvAlways, PTL

\* Without a failure between its statements, the last of the owner's requests
\* leaves the row in the audit trail as it stands, apart from the lastUsedAt of a
\* key, which updateApiKeyLastUsedAt writes without a record.
THEOREM AuditShowsRowAlways == Spec => []AuditShowsRow
<1>1. ServerInv => AuditShowsRow
  <2> SUFFICES ASSUME ServerInv, NEW t \in Targets, Present(t), t \notin cutOff,
                      \A op \in ops : op.target # t
               PROVE  \E r \in audit : r.target = t /\ Shows(r.after, t)
    BY DEF AuditShowsRow, Targets
  <2> QED
    BY DEF ServerInv, KeysInv, TrailInv, WillAudit
<1> QED
  BY <1>1, ServerInvAlways, PTL

\* A limiter that fails closed admits at most the limit of each API key, and of the
\* app over all its keys, in a window of Redis, over all servers and whatever
\* outages there are (createInfrastructureRateLimit, consume).
THEOREM LimitHoldsAlways == Spec => []LimitHolds
<1>1. ServerInv => LimitHolds
  BY DEF ServerInv, LimiterInv, LimitHolds
<1> QED
  BY <1>1, ServerInvAlways, PTL

\* acquire and the release it returns never leave a call waiting for nobody,
\* for every pool size and every number of calls that slip in.
THEOREM NoLostWakeupAlways == Spec => []NoLostWakeup
<1>1. ServerInv => NoLostWakeup
  BY DEF ServerInv, ProviderInv
<1> QED
  BY <1>1, ServerInvAlways, PTL

\* verifyChallenge over Redis turns only the latest challenge into a token, and
\* only once, for any servers and simultaneous verifications.
THEOREM LatestChallengeOnceAlways == Spec => LatestChallengeOnce
<1>1. ServerInv /\ [Next]_vars =>
        [\A n \in Nonces :
           (redis /\ tokens'[n] # tokens[n]) => n = created /\ tokens[n] = 0]_tokens
  BY ServerInvNext DEF LatestStep
<1> QED
  BY <1>1, ServerInvAlways, PTL DEF Spec, LatestChallengeOnce
=============================================================================
