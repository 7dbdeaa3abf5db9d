----------------------- MODULE WebhookDeliveryProofs ------------------------
(***************************************************************************)
(* Webhook deliveries under any number of workers, jobs, runs and faults,  *)
(* for any endpoints, URLs and answers of the resolver.                    *)
(*                                                                         *)
(* That an undecided delivery has a job which can still work on it is not  *)
(* inductive: completing a job is safe only because of what its runs know. *)
(* RecoverInv keeps one job for each undecided delivery such that every    *)
(* run of that job either has not read the row yet or knows it as it is,   *)
(* and none is about to complete the job.  A run that finds the row        *)
(* changed is therefore a run of another job.                              *)
(***************************************************************************)
EXTENDS WebhookDelivery, JobRunsProofs, FiniteSetTheorems

DeliveryStatuses == {"PENDING", "RETRY", "DELIVERED", "FAILED", "DELETED"}
EventTypes == {"event", "failure"}
DeliveryRows ==
    [type: EventTypes, endpoint: Endpoints, status: DeliveryStatuses, attempts: Nat]
LiveEndpoints == [status: {"active", "disabled"}, deleted: BOOLEAN, url: Urls]
Edits == [e: Endpoints, status: {"active", "disabled"}, url: Urls]
Circuits == [failures: 0..FailureThreshold, open: BOOLEAN]

\* What a request may go to.
AllowedAddresses == {a \in Addresses : Recognised(a) => ~IsSpecial(a)}

\* What a run remembers once it has read its row.
NoteRecords ==
    [status: {"PENDING", "RETRY", "FAILED"}, attempts: Nat,
     fetch: {<<>>} \cup (Urls \X Nat), to: Seq(AllowedAddresses)]
Notes == {<<>>} \cup NoteRecords
Working(r) == r.work \in {"send", "ok", "bad", "inactive"}

TablesInv ==
    /\ deliveries \in Seq(DeliveryRows)
    /\ endpoints \in [Endpoints -> {NoEndpoint} \cup LiveEndpoints]
    /\ edits \subseteq Edits
    /\ circuit \in [Workers -> Circuits]
    /\ \A d \in DOMAIN deliveries : endpoints[deliveries[d].endpoint] \in LiveEndpoints
    /\ \A edit \in edits : endpoints[edit.e] \in LiveEndpoints

\* Jobs are about rows that exist, and the key of a later attempt is not taken.
LinksInv ==
    \A j \in DOMAIN jobs :
        /\ jobs[j].payload \in Transactions \cup DOMAIN deliveries
        /\ \A d, n \in Nat : jobs[j].key = <<d, n>> =>
              d \in DOMAIN deliveries /\ n <= deliveries[d].attempts

RunsInv ==
    \A r \in runs : Working(r) =>
        /\ DeliveryRun(r)
        /\ r.note \in NoteRecords
        /\ r.work = "send" => r.note.fetch \in Urls \X Nat

\* The statuses of a job that is not lost.
Kept == JobActive \cup {"DEAD_LETTER", "LETTER_DELETED"}

\* No run of job j may complete it before it has seen delivery d as it is.
Faithful(j, d) ==
    \A r \in runs : r.j = j =>
        /\ r.side # "complete"
        /\ Working(r) => /\ r.note.status = deliveries[d].status
                         /\ r.note.attempts = deliveries[d].attempts

RecoverInv ==
    \A d \in DOMAIN deliveries : Undecided(d) =>
        \E j \in DOMAIN jobs :
            jobs[j].payload = d /\ jobs[j].status \in Kept /\ Faithful(j, d)

DeliveryInv == JobsInv(Notes) /\ TablesInv /\ LinksInv /\ RunsInv /\ RecoverInv

-----------------------------------------------------------------------------
(* The destinations                                                        *)

\* The ranges of isBlockedIpv4Address cover the special blocks.
LEMMA BlocksCovered ==
    ASSUME NEW a \in Octets, NEW b \in Octets, NEW block \in Ipv4Blocks,
           InBlock(256 * a + b, block)
    PROVE  isBlockedIpv4Address(a, b)
<1>1. 2 ^ (16 - 4) = 4096 /\ 2 ^ (16 - 8) = 256 /\ 2 ^ (16 - 10) = 64
  BY SMT
<1>2. 2 ^ (16 - 12) = 16 /\ 2 ^ (16 - 15) = 2 /\ 2 ^ (16 - 16) = 1
  BY SMT
<1> USE DEF InBlock, isBlockedIpv4Address, Octets
<1>3. CASE block = <<0, 0, 8>>
  BY <1>1, <1>3, SMT
<1>4. CASE block = <<10, 0, 8>>
  BY <1>1, <1>4, SMT
<1>5. CASE block = <<127, 0, 8>>
  BY <1>1, <1>5, SMT
<1>6. CASE block = <<100, 64, 10>>
  BY <1>1, <1>6, SMT
<1>7. CASE block = <<169, 254, 16>>
  BY <1>2, <1>7, SMT
<1>8. CASE block = <<172, 16, 12>>
  BY <1>2, <1>8, SMT
<1>9. CASE block = <<192, 168, 16>>
  BY <1>2, <1>9, SMT
<1>10. CASE block = <<198, 18, 15>>
  BY <1>2, <1>10, SMT
<1>11. CASE block = <<224, 0, 4>>
  BY <1>1, <1>11, SMT
<1>12. CASE block = <<240, 0, 4>>
  BY <1>1, <1>12, SMT
<1> QED
  BY <1>3, <1>4, <1>5, <1>6, <1>7, <1>8, <1>9, <1>10, <1>11, <1>12 DEF Ipv4Blocks

\* The prefixes of isBlockedIpv6Address cover the special blocks but for the
\* groups fe81 to febf.
LEMMA HeadsCovered ==
    ASSUME NEW head \in Groups, NEW block \in Ipv6Blocks,
           InBlock(head, block),
           head \div 64 = 1018 => head = 65152
    PROVE  (\E byte \in {252, 253, 255} : StartsWith(head, byte)) \/ head = 65152
<1> USE DEF Groups
<1>1. 2 ^ (16 - 7) = 512 /\ 2 ^ (16 - 10) = 64 /\ 2 ^ (16 - 8) = 256
  BY SMT
<1>2. \A byte \in Nat : head \div 256 = byte => StartsWith(head, byte)
  BY DEF StartsWith
<1>3. CASE block = <<252, 0, 7>>
  <2>1. head \div 256 \in {252, 253}
    BY <1>1, <1>3, SMT DEF InBlock
  <2> QED
    BY <1>2, <2>1
<1>4. CASE block = <<254, 128, 10>>
  <2>1. head \div 64 = 1018
    BY <1>1, <1>4, SMT DEF InBlock
  <2> QED
    BY <2>1
<1>5. CASE block = <<255, 0, 8>>
  <2>1. head \div 256 = 255
    BY <1>1, <1>5, SMT DEF InBlock
  <2> QED
    BY <1>2, <2>1
<1> QED
  BY <1>3, <1>4, <1>5 DEF Ipv6Blocks

\* What isBlockedIpAddress lets pass is public, when its class is recognised.
LEMMA UnblockedIsPublic ==
    ASSUME NEW addr \in Addresses, ~isBlockedIpAddress(addr), Recognised(addr)
    PROVE  ~IsSpecial(addr)
<1>1. CASE addr \in Ipv6Addresses
  <2>1. addr.ver = 6 /\ addr.head \in Groups
    BY <1>1 DEF Ipv6Addresses
  <2>2. addr.head \div 64 = 1018 => addr.head = 65152
    BY <2>1 DEF Recognised
  <2>3. /\ ~(addr.head = 0 /\ addr.rest \in {"zero", "one"})
        /\ ~\E byte \in {252, 253, 255} : StartsWith(addr.head, byte)
        /\ addr.head # 65152
    BY <2>1 DEF isBlockedIpAddress, isBlockedIpv6Address
  <2> QED
    BY <2>1, <2>2, <2>3, HeadsCovered DEF IsSpecial
<1>2. ASSUME addr.ver \in {4, 46}, addr.a \in Octets, addr.b \in Octets,
             ~isBlockedIpv4Address(addr.a, addr.b)
      PROVE  ~IsSpecial(addr)
  BY <1>2, BlocksCovered DEF IsSpecial
<1>3. CASE addr \in Ipv4Addresses
  <2>1. addr.ver = 4 /\ addr.a \in Octets /\ addr.b \in Octets
    BY <1>3 DEF Ipv4Addresses
  <2> QED
    BY <1>2, <2>1 DEF isBlockedIpAddress
<1>4. CASE addr \in EmbeddedAddresses
  <2>1. addr.ver = 46 /\ addr.a \in Octets /\ addr.b \in Octets
    BY <1>4 DEF EmbeddedAddresses
  <2>2. addr.form = "dotted"
    BY <2>1 DEF Recognised, isBlockedIpAddress, isBlockedIpv6Address
  <2> QED
    BY <1>2, <2>1, <2>2 DEF isBlockedIpAddress
<1> QED
  BY <1>1, <1>3, <1>4 DEF Addresses

\* The address a request goes to, when its target was allowed.
LEMMA TargetIsAllowed ==
    ASSUME NEW url \in Urls, NEW answer \in DnsAnswers,
           resolveAllowedTarget(url, Environment, answer)
    PROVE  Head(resolveHostname(url.host, answer)) \in AllowedAddresses
<1> DEFINE to == resolveHostname(url.host, answer)
<1>1. to \in Seq(Addresses)
  BY TargetsKnown DEF resolveHostname
<1>2. to # <<>> /\ \A i \in DOMAIN to : ~isBlockedIpAddress(to[i])
  BY DEF resolveAllowedTarget
<1> HIDE DEF to
<1>3. 1 \in DOMAIN to /\ Head(to) = to[1] /\ to[1] \in Addresses
  BY <1>1, <1>2
<1> QED
  BY <1>2, <1>3, UnblockedIsPublic DEF to, AllowedAddresses

-----------------------------------------------------------------------------
(* Events                                                                  *)

\* The subscribers of an event are endpoints that exist.
LEMMA SubscribersExist ==
    ASSUME TablesInv, NEW type
    PROVE  /\ Subscribers(type) \in Seq(Endpoints)
           /\ \A i \in DOMAIN Subscribers(type) :
                 endpoints[Subscribers(type)[i]] \in LiveEndpoints
<1> DEFINE S == {e \in Endpoints : /\ Found(e) /\ endpoints[e].status = "active"
                                   /\ type = "failure" => e \in FailureSubscribers}
<1>1. IsFiniteSet(S)
  BY EndpointsFinite, FS_Subset
<1>2. Cardinality(S) \in Nat /\ ExistsBijection(1..Cardinality(S), S)
  BY <1>1, FS_CardinalityType
<1>3. \E f \in [1..Cardinality(S) -> S] : IsInjective(f)
  BY <1>2 DEF ExistsBijection, Bijection, Injection
<1>4. Subscribers(type) \in [1..Cardinality(S) -> S]
  BY <1>3 DEF Subscribers, SetToSeq
<1>5. \A e \in S : endpoints[e] \in LiveEndpoints
  BY DEF TablesInv, Found, NoEndpoint
<1>6. S \subseteq Endpoints
  OBVIOUS
<1> HIDE DEF S
<1> QED
  BY <1>2, <1>4, <1>5, <1>6

-----------------------------------------------------------------------------
(* What a step may do to deliveries, jobs and runs                         *)

\* A row of a delivery, before and after.
RowStep(a, b) ==
    /\ a.status = "DELIVERED" => b.status \in {"DELIVERED", "DELETED"}
    /\ a.status = "DELETED" => b = a
    /\ b.attempts \in {a.attempts, a.attempts + 1}
    /\ b.endpoint = a.endpoint
DeliveriesStep == \A d \in DOMAIN deliveries : RowStep(deliveries[d], deliveries'[d])

\* A row that is undecided afterwards was so before, as it is, or has a new job.
RowSame(d) ==
    /\ d \in DOMAIN deliveries
    /\ deliveries'[d].status = deliveries[d].status
    /\ deliveries'[d].attempts = deliveries[d].attempts
FreshJob(d) ==
    \E j \in DOMAIN jobs' \ DOMAIN jobs : jobs'[j].payload = d /\ jobs'[j].status = "QUEUED"
RowsRecoverable ==
    \A d \in DOMAIN deliveries' : Undecided(d)' => RowSame(d) \/ FreshJob(d)

\* Jobs are not lost, unless a run completes them.
JobSafe(j) ==
    /\ j \in DOMAIN jobs' /\ jobs'[j].payload = jobs[j].payload
    /\ (jobs[j].status \in Kept /\ \A r \in runs : r.j = j => r.side # "complete")
          => jobs'[j].status \in Kept

\* A run means to complete its job only when the row needs it no more, or when
\* it has found the row changed; and it knows the row as it read it.
RunSafe(s) ==
    \/ s.work = "start" /\ s.side # "complete"
    \/ \E r \in runs :
          /\ s.j = r.j
          /\ s.side = "complete" =>
                \/ r.side = "complete"
                \/ ~(RowSame(jobs[r.j].payload) /\ Undecided(jobs[r.j].payload))
                \/ Working(r) /\ ~Unchanged(r)
          /\ Working(s) =>
                \/ /\ Working(r)
                   /\ s.note.status = r.note.status /\ s.note.attempts = r.note.attempts
                \/ s.note.status = Row(r).status /\ s.note.attempts = Row(r).attempts

LEMMA Recovers ==
    ASSUME RecoverInv, RowsRecoverable, \A j \in DOMAIN jobs : JobSafe(j),
           \A s \in runs' : s.j \in DOMAIN jobs /\ RunSafe(s)
    PROVE  RecoverInv'
<1> SUFFICES ASSUME NEW d \in DOMAIN deliveries', Undecided(d)'
             PROVE  \E j \in DOMAIN jobs' :
                       jobs'[j].payload = d /\ jobs'[j].status \in Kept /\ Faithful(j, d)'
  BY DEF RecoverInv
<1>1. CASE FreshJob(d)
  <2>1. PICK j \in DOMAIN jobs' \ DOMAIN jobs : jobs'[j].payload = d /\ jobs'[j].status = "QUEUED"
    BY <1>1 DEF FreshJob
  <2>2. Faithful(j, d)'
    BY <2>1 DEF Faithful
  <2> QED
    BY <2>1, <2>2 DEF Kept, JobActive
<1>2. CASE RowSame(d)
  <2>1. d \in DOMAIN deliveries /\ Undecided(d)
    BY <1>2 DEF RowSame, Undecided
  <2>2. PICK j \in DOMAIN jobs : jobs[j].payload = d /\ jobs[j].status \in Kept /\ Faithful(j, d)
    BY <2>1 DEF RecoverInv
  <2>3. j \in DOMAIN jobs' /\ jobs'[j].payload = d /\ jobs'[j].status \in Kept
    BY <2>2 DEF JobSafe, Faithful
  <2>4. ASSUME NEW s \in runs', s.j = j
        PROVE  /\ s.side # "complete"
               /\ Working(s) => /\ s.note.status = deliveries'[d].status
                                /\ s.note.attempts = deliveries'[d].attempts
    <3>1. CASE s.work = "start" /\ s.side # "complete"
      BY <3>1 DEF Working
    <3>2. ASSUME NEW r \in runs, s.j = r.j,
                 s.side = "complete" =>
                    \/ r.side = "complete"
                    \/ ~(RowSame(jobs[r.j].payload) /\ Undecided(jobs[r.j].payload))
                    \/ Working(r) /\ ~Unchanged(r),
                 Working(s) =>
                    \/ /\ Working(r)
                       /\ s.note.status = r.note.status /\ s.note.attempts = r.note.attempts
                    \/ s.note.status = Row(r).status /\ s.note.attempts = Row(r).attempts
          PROVE  /\ s.side # "complete"
                 /\ Working(s) => /\ s.note.status = deliveries'[d].status
                                  /\ s.note.attempts = deliveries'[d].attempts
      <4>1. /\ r.side # "complete" /\ Row(r) = deliveries[d]
            /\ Working(r) => /\ r.note.status = deliveries[d].status
                             /\ r.note.attempts = deliveries[d].attempts
        BY <2>2, <2>4, <3>2 DEF Faithful, Row
      <4>2. ~(Working(r) /\ ~Unchanged(r))
        BY <4>1 DEF Unchanged
      <4>3. jobs[r.j].payload = d
        BY <2>2, <2>4, <3>2
      <4> QED
        BY <1>2, <2>1, <3>2, <4>1, <4>2, <4>3 DEF RowSame
    <3> QED
      BY <3>1, <3>2 DEF RunSafe
  <2> QED
    BY <2>3, <2>4 DEF Faithful, Working
<1> QED
  BY <1>1, <1>2 DEF RowsRecoverable

\* Rows and jobs are only added, and rows only written as allowed.
Written ==
    /\ jobs' \in Seq(JobRows) /\ DOMAIN jobs \subseteq DOMAIN jobs'
    /\ \A j \in DOMAIN jobs :
          /\ jobs'[j].payload = jobs[j].payload
          /\ jobs[j].status \in Kept => jobs'[j].status \in Kept
    /\ deliveries' \in Seq(DeliveryRows) /\ DOMAIN deliveries \subseteq DOMAIN deliveries'
    /\ \A d \in DOMAIN deliveries' : endpoints[deliveries'[d].endpoint] \in LiveEndpoints
    /\ RowsRecoverable
    /\ LinksInv'
    /\ DeliveriesStep

RunKnows(s) == Working(s) =>
    /\ jobs[s.j].payload \in DOMAIN deliveries
    /\ s.note \in NoteRecords
    /\ s.work = "send" => s.note.fetch \in Urls \X Nat

LEMMA WriteKeeps ==
    ASSUME DeliveryInv, Written, runs' \subseteq RunRecords(Notes),
           \A s \in runs' : s.j \in DOMAIN jobs /\ RunSafe(s) /\ RunKnows(s),
           UNCHANGED <<endpoints, edits>>, circuit' \in [Workers -> Circuits],
           faults' \in 0..MaxFaults, requests' \in 0..MaxRequests
    PROVE  DeliveryInv'
<1>1. JobsInv(Notes)'
  BY DEF JobsInv, Written
<1>2. TablesInv'
  BY DEF TablesInv, Written, DeliveryInv
<1>3. RunsInv'
  BY DEF RunsInv, RunKnows, Written, DeliveryRun, Working
<1>4. RecoverInv'
  BY Recovers DEF Written, JobSafe, DeliveryInv
<1> QED
  BY <1>1, <1>2, <1>3, <1>4 DEF DeliveryInv, Written

LEMMA DeliveriesSame ==
    ASSUME TablesInv, deliveries' = deliveries
    PROVE  DeliveriesStep
<1>1. \A d \in DOMAIN deliveries : deliveries[d] \in DeliveryRows
  BY DEF TablesInv
<1> QED
  BY <1>1 DEF DeliveriesStep, RowStep, DeliveryRows

LEMMA NothingWritten ==
    ASSUME DeliveryInv, UNCHANGED <<jobs, deliveries>>
    PROVE  Written
<1>1. RowsRecoverable
  BY DEF RowsRecoverable, RowSame, Undecided
<1>2. LinksInv'
  BY DEF LinksInv, DeliveryInv
<1>3. DeliveriesStep
  BY DeliveriesSame DEF DeliveryInv
<1> QED
  BY <1>1, <1>2, <1>3 DEF Written, DeliveryInv, TablesInv, JobsInv

LEMMA RunsSame ==
    ASSUME DeliveryInv, NEW s \in runs
    PROVE  s.j \in DOMAIN jobs /\ RunSafe(s) /\ RunKnows(s)
BY DEF DeliveryInv, JobsInv, RunSafe, RunKnows, RunsInv, DeliveryRun

-----------------------------------------------------------------------------
(* Steps of the queue                                                      *)

LEMMA JobsMoveKeeps ==
    ASSUME DeliveryInv, JobsMove(Notes), UNCHANGED deliveries, TablesInv'
    PROVE  DeliveryInv' /\ DeliveriesStep
<1>1. /\ JobsInv(Notes) /\ JobsInv(Notes)' /\ RowsMove /\ RowAppended /\ LinksInv
      /\ jobs \in Seq(JobRows) /\ jobs' \in Seq(JobRows)
      /\ \A s \in runs' : RunFollows(s)
  BY DEF DeliveryInv, JobsMove, JobsInv
<1>2. DOMAIN jobs \subseteq DOMAIN jobs'
  BY <1>1 DEF RowsMove
<1>3. LinksInv'
  <2> SUFFICES ASSUME NEW j \in DOMAIN jobs'
               PROVE  /\ jobs'[j].payload \in Transactions \cup DOMAIN deliveries
                      /\ \A d, n \in Nat : jobs'[j].key = <<d, n>> =>
                            d \in DOMAIN deliveries /\ n <= deliveries[d].attempts
    BY DEF LinksInv
  <2>1. \A d, n \in Nat : <<d, n>> # NoKey /\ <<d, n>> \notin Transactions
    BY TransactionsAreIds
  <2>2. CASE j \in DOMAIN jobs
    <3>1. jobs'[j].payload = jobs[j].payload /\ jobs'[j].key \in {jobs[j].key, NoKey}
      BY <1>1, <2>2 DEF RowsMove, RowMoves
    <3> QED
      BY <1>1, <2>1, <2>2, <3>1 DEF LinksInv
  <2>3. CASE j \notin DOMAIN jobs
    <3>1. /\ jobs'[j].key \in {NoKey} \cup Transactions
          /\ jobs'[j].payload \in Transactions \cup DOMAIN deliveries
      BY <1>1, <2>3 DEF RowAppended, LinksInv
    <3> QED
      BY <2>1, <3>1
  <2> QED
    BY <2>2, <2>3
<1>4. ASSUME NEW s \in runs', NEW r \in runs, s.j = r.j, s.note = r.note,
             \/ s.work = r.work /\ (s.side = "complete" => r.side = "complete")
             \/ jobs[r.j].payload \in Transactions /\ s.work = "end"
      PROVE  /\ RunSafe(s)
             /\ Working(s) => Working(r) /\ s.note = r.note /\ s.work = r.work
  <2>1. CASE s.work = r.work /\ (s.side = "complete" => r.side = "complete")
    BY <1>4, <2>1 DEF RunSafe, Working
  <2>2. CASE jobs[r.j].payload \in Transactions /\ s.work = "end"
    <3>1. jobs[r.j].payload \notin Nat
      BY <2>2, TransactionsAreIds
    <3>2. DOMAIN deliveries \subseteq Nat
      BY DEF DeliveryInv, TablesInv
    <3>3. ~RowSame(jobs[r.j].payload)
      BY <3>1, <3>2 DEF RowSame
    <3> QED
      BY <1>4, <2>2, <3>3 DEF RunSafe, Working
  <2> QED
    BY <1>4, <2>1, <2>2
<1>5. ASSUME NEW s \in runs' PROVE s.j \in DOMAIN jobs /\ RunSafe(s)
  BY <1>1, <1>4 DEF RunFollows, RunSafe, JobsMove
<1>6. ASSUME NEW j \in DOMAIN jobs PROVE JobSafe(j)
  <2>1. /\ RowMoves(jobs[j], jobs'[j])
        /\ jobs'[j].status = "COMPLETED" =>
              \/ jobs[j].status = "COMPLETED"
              \/ \E r \in runs : r.j = j /\ r.side = "complete"
    BY <1>1 DEF RowsMove
  <2> QED
    BY <1>2, <2>1 DEF JobSafe, RowMoves, Kept, JobActive, JobTerminal
<1>7. RowsRecoverable
  BY DEF RowsRecoverable, RowSame, Undecided
<1>8. RecoverInv'
  BY <1>5, <1>6, <1>7, Recovers DEF DeliveryInv
<1>9. RunsInv'
  <2> SUFFICES ASSUME NEW s \in runs', Working(s)
               PROVE  /\ jobs'[s.j].payload \in DOMAIN deliveries
                      /\ s.note \in NoteRecords
                      /\ s.work = "send" => s.note.fetch \in Urls \X Nat
    BY DEF RunsInv, DeliveryRun, Working
  <2>1. PICK r \in runs : s.j = r.j /\ Working(r) /\ s.note = r.note /\ s.work = r.work
    BY <1>1, <1>4 DEF RunFollows, Working
  <2>2. jobs'[s.j].payload = jobs[r.j].payload
    BY <1>5, <1>6, <2>1 DEF JobSafe
  <2> QED
    BY <2>1, <2>2 DEF DeliveryInv, RunsInv, DeliveryRun
<1>10. DeliveriesStep
  BY DeliveriesSame DEF DeliveryInv
<1> QED
  BY <1>1, <1>3, <1>8, <1>9, <1>10 DEF DeliveryInv

-----------------------------------------------------------------------------
(* Steps of a run                                                          *)

RunsSafe ==
    /\ runs' \subseteq RunRecords(Notes)
    /\ \A t \in runs' : t.j \in DOMAIN jobs /\ RunSafe(t) /\ RunKnows(t)

LEMMA PutSafe ==
    ASSUME DeliveryInv, NEW r \in runs, NEW s \in RunRecords(Notes), s.j \in DOMAIN jobs,
           RunSafe(s), RunKnows(s), runs' = Put(r, s)
    PROVE  RunsSafe
<1>1. \A t \in runs' : t \in runs \/ t = s
  BY PutRun
<1>2. runs \subseteq RunRecords(Notes)
  BY DEF DeliveryInv, JobsInv
<1> QED
  BY <1>1, <1>2, RunsSame DEF RunsSafe

\* A run may end its work successfully when the row is decided or not as it knew.
LEMMA WorkEnded ==
    ASSUME DeliveryInv, NEW r \in runs, NEW outcome \in {"complete", "fail"},
           outcome = "complete" =>
              \/ ~(RowSame(jobs[r.j].payload) /\ Undecided(jobs[r.j].payload))
              \/ Working(r) /\ ~Unchanged(r),
           runs' = WorkEnds(r, outcome)
    PROVE  RunsSafe
<1> DEFINE s == [r EXCEPT !.work = "end", !.side = IF @ = "await" THEN outcome ELSE @]
<1>1. r \in RunRecords(Notes) /\ r.j \in DOMAIN jobs
  BY DEF DeliveryInv, JobsInv
<1>2. /\ s \in RunRecords(Notes) /\ s.j = r.j /\ s.work = "end"
      /\ s.side = IF r.side = "await" THEN outcome ELSE r.side
  BY <1>1 DEF RunRecords
<1>3. runs' = Put(r, s)
  BY DEF WorkEnds
<1> HIDE DEF s
<1>4. RunSafe(s) /\ RunKnows(s)
  BY <1>2 DEF RunSafe, RunKnows, Working
<1> QED
  BY <1>1, <1>2, <1>3, <1>4, PutSafe

LEMMA ReadDeliveryKeeps ==
    ASSUME DeliveryInv, NEW r \in runs, ReadDelivery(r)
    PROVE  DeliveryInv' /\ DeliveriesStep
<1>0. /\ jobs[r.j].payload \in DOMAIN deliveries /\ r \in RunRecords(Notes)
      /\ r.j \in DOMAIN jobs /\ Row(r) \in DeliveryRows
      /\ endpoints[Row(r).endpoint] \in LiveEndpoints
  BY DEF ReadDelivery, DeliveryRun, DeliveryInv, JobsInv, TablesInv, Row
<1>1. RunsSafe
  <2>1. CASE Row(r).status = "DELIVERED"
    <3>1. ~Undecided(jobs[r.j].payload)
      BY <2>1 DEF Undecided, Row
    <3> QED
      BY <2>1, <3>1, WorkEnded DEF ReadDelivery
  <2>2. CASE Row(r).status # "DELIVERED"
    <3> DEFINE seen == [status |-> Row(r).status, attempts |-> Row(r).attempts,
                        fetch |-> <<endpoints[Row(r).endpoint].url, 0>>, to |-> <<>>]
    <3>1. PICK next \in {"inactive", "bad", "send"} :
            runs' = Put(r, [r EXCEPT !.work = next, !.note = seen])
      BY <2>2 DEF ReadDelivery
    <3>2. Row(r).status \in {"PENDING", "RETRY", "FAILED"} /\ Row(r).attempts \in Nat
      BY <1>0, <2>2 DEF ReadDelivery, DeliveryRows, DeliveryStatuses
    <3>3. endpoints[Row(r).endpoint].url \in Urls
      BY <1>0 DEF LiveEndpoints
    <3>4. /\ seen \in NoteRecords /\ seen.fetch \in Urls \X Nat
          /\ seen.status = Row(r).status /\ seen.attempts = Row(r).attempts
      BY <3>2, <3>3 DEF NoteRecords
    <3> HIDE DEF seen
    <3> DEFINE s == [r EXCEPT !.work = next, !.note = seen]
    <3>5. /\ s \in RunRecords(Notes) /\ s.j = r.j /\ s.work = next /\ s.note = seen
          /\ s.side = r.side
      BY <1>0, <3>4 DEF RunRecords, Notes
    <3>6. runs' = Put(r, s)
      BY <3>1
    <3> HIDE DEF s
    <3>7. RunSafe(s) /\ RunKnows(s)
      BY <1>0, <3>4, <3>5 DEF RunSafe, RunKnows
    <3> QED
      BY <1>0, <3>5, <3>6, <3>7, PutSafe
  <2> QED
    BY <2>1, <2>2
<1>2. Written
  BY NothingWritten DEF ReadDelivery, webhookVars
<1> QED
  BY <1>1, <1>2, WriteKeeps DEF ReadDelivery, webhookVars, RunsSafe, DeliveryInv, TablesInv,
     JobsInv, Written

LEMMA ReadFailsKeeps ==
    ASSUME DeliveryInv, NEW r \in runs, ReadFails(r)
    PROVE  DeliveryInv' /\ DeliveriesStep
<1>1. RunsSafe
  BY WorkEnded DEF ReadFails
<1>2. Written
  BY NothingWritten DEF ReadFails, webhookVars
<1>3. faults' \in 0..MaxFaults
  BY FaultCounted DEF ReadFails, DeliveryInv, JobsInv
<1> QED
  BY <1>1, <1>2, <1>3, WriteKeeps DEF ReadFails, webhookVars, RunsSafe, DeliveryInv,
     TablesInv, JobsInv, Written

\* The note after a turn of the loop of fetchWebhookUrl.
LEMMA AnsweredNote ==
    ASSUME NEW r \in RunRecords(Notes), NEW work, NEW to
    PROVE  Answered(r, work, to) =
              Put(r, [r EXCEPT !.work = work,
                               !.note = [r.note EXCEPT !.fetch = <<>>, !.to = to]])
BY DEF Answered, RunRecords

LEMMA TurnSafe ==
    ASSUME DeliveryInv, NEW r \in runs, r.work = "send",
           NEW work \in {"send", "ok", "bad"},
           NEW fetch \in {<<>>} \cup (Urls \X Nat), work = "send" => fetch \in Urls \X Nat,
           NEW to \in Seq(AllowedAddresses),
           runs' = Put(r, [r EXCEPT !.work = work,
                                    !.note = [r.note EXCEPT !.fetch = fetch, !.to = to]])
    PROVE  RunsSafe
<1>1. /\ r \in RunRecords(Notes) /\ r.j \in DOMAIN jobs /\ Working(r)
      /\ jobs[r.j].payload \in DOMAIN deliveries /\ r.note \in NoteRecords
  BY DEF DeliveryInv, JobsInv, RunsInv, Working, DeliveryRun
<1> DEFINE note == [r.note EXCEPT !.fetch = fetch, !.to = to]
<1>2. /\ note \in NoteRecords /\ note.fetch = fetch
      /\ note.status = r.note.status /\ note.attempts = r.note.attempts
  BY <1>1 DEF NoteRecords
<1> HIDE DEF note
<1> DEFINE s == [r EXCEPT !.work = work, !.note = note]
<1>3. /\ s \in RunRecords(Notes) /\ s.j = r.j /\ s.work = work /\ s.note = note
      /\ s.side = r.side
  BY <1>1, <1>2 DEF RunRecords, Notes
<1>4. runs' = Put(r, s)
  BY DEF note
<1> HIDE DEF s
<1>5. RunSafe(s) /\ RunKnows(s)
  BY <1>1, <1>2, <1>3 DEF RunSafe, RunKnows
<1> QED
  BY <1>1, <1>3, <1>4, <1>5, PutSafe

LEMMA FailedType ==
    ASSUME circuit \in [Workers -> Circuits], NEW p \in Workers
    PROVE  Failed(p) \in Circuits /\ Closed \in Circuits
<1>1. /\ circuit[p].failures \in 0..FailureThreshold /\ circuit[p].open \in BOOLEAN
      /\ FailureThreshold \in Nat
  BY LimitsAreNumbers DEF Circuits
<1> DEFINE n == IF circuit[p].failures < FailureThreshold
                THEN circuit[p].failures + 1 ELSE FailureThreshold
<1>2. n \in 0..FailureThreshold
  BY <1>1
<1>3. (circuit[p].open \/ n = FailureThreshold) \in BOOLEAN
  OBVIOUS
<1> HIDE DEF n
<1>4. [failures |-> n, open |-> circuit[p].open \/ n = FailureThreshold] \in Circuits
  BY <1>2, <1>3 DEF Circuits
<1> QED
  BY <1>1, <1>4 DEF Failed, n, Closed, Circuits

LEMMA SendKeeps ==
    ASSUME DeliveryInv, NEW r \in runs, Send(r)
    PROVE  DeliveryInv' /\ DeliveriesStep
<1> DEFINE url == r.note.fetch[1]
           hop == r.note.fetch[2]
<1>0. /\ r.work = "send" /\ r.note \in NoteRecords /\ r.note.fetch \in Urls \X Nat
      /\ r.p \in Workers /\ r \in RunRecords(Notes)
  BY DEF Send, DeliveryInv, RunsInv, Working, JobsInv, RunRecords
<1>1. url \in Urls /\ hop \in Nat
  BY <1>0
<1>2. PICK answer \in DnsAnswers :
        \/ /\ runs' = Answered(r, "bad", <<>>)
           /\ circuit' = [circuit EXCEPT ![r.p] = Failed(r.p)]
        \/ /\ resolveAllowedTarget(url, Environment, answer)
           /\ LET to == resolveHostname(url.host, answer)
              IN \/ /\ runs' = Answered(r, "bad", <<Head(to)>>)
                    /\ circuit' = [circuit EXCEPT ![r.p] = Failed(r.p)]
                 \/ /\ runs' = Answered(r, "ok", <<Head(to)>>)
                    /\ circuit' = [circuit EXCEPT ![r.p].failures = 0]
                 \/ /\ \E location \in Urls :
                          runs' = Put(r, [r EXCEPT !.note.fetch = <<location, hop + 1>>,
                                                   !.note.to = <<Head(to)>>])
                    /\ UNCHANGED circuit
  BY DEF Send
<1> DEFINE to == Head(resolveHostname(url.host, answer))
<1> HIDE DEF url, hop
<1>3. resolveAllowedTarget(url, Environment, answer)
        => <<to>> \in Seq(AllowedAddresses)
  BY <1>1, TargetIsAllowed
<1>4. <<>> \in Seq(AllowedAddresses)
  OBVIOUS
<1> HIDE DEF to
<1>5. RunsSafe
  <2>1. CASE runs' = Answered(r, "bad", <<>>)
    <3>1. runs' = Put(r, [r EXCEPT !.work = "bad",
                                   !.note = [r.note EXCEPT !.fetch = <<>>, !.to = <<>>]])
      BY <1>0, <2>1, AnsweredNote
    <3> QED
      BY <1>0, <1>4, <3>1, TurnSafe
  <2>2. CASE /\ resolveAllowedTarget(url, Environment, answer)
             /\ \E work \in {"ok", "bad"} : runs' = Answered(r, work, <<to>>)
    <3>1. PICK work \in {"ok", "bad"} : runs' = Answered(r, work, <<to>>)
      BY <2>2
    <3>2. runs' = Put(r, [r EXCEPT !.work = work,
                                   !.note = [r.note EXCEPT !.fetch = <<>>, !.to = <<to>>]])
      BY <1>0, <3>1, AnsweredNote
    <3> QED
      BY <1>0, <1>3, <2>2, <3>2, TurnSafe
  <2>3. CASE /\ resolveAllowedTarget(url, Environment, answer)
             /\ \E location \in Urls :
                   runs' = Put(r, [r EXCEPT !.note.fetch = <<location, hop + 1>>,
                                            !.note.to = <<to>>])
    <3>1. PICK location \in Urls :
            runs' = Put(r, [r EXCEPT !.note.fetch = <<location, hop + 1>>,
                                     !.note.to = <<to>>])
      BY <2>3
    <3>2. <<location, hop + 1>> \in Urls \X Nat
      BY <1>1
    <3>3. r = [r EXCEPT !.work = "send"] /\ r \in RunRecords(Notes)
      BY <1>0 DEF DeliveryInv, JobsInv, RunRecords
    <3>4. runs' = Put(r, [r EXCEPT !.work = "send",
                                   !.note = [r.note EXCEPT !.fetch = <<location, hop + 1>>,
                                                           !.to = <<to>>]])
      BY <3>1, <3>3 DEF RunRecords
    <3> QED
      BY <1>0, <1>3, <2>3, <3>2, <3>4, TurnSafe
  <2> QED
    BY <1>2, <2>1, <2>2, <2>3 DEF to
<1>6. circuit' \in [Workers -> Circuits]
  <2>1. circuit \in [Workers -> Circuits]
    BY DEF DeliveryInv, TablesInv
  <2>2. [circuit[r.p] EXCEPT !.failures = 0] \in Circuits
    BY <1>0, <2>1, LimitsAreNumbers DEF Circuits
  <2>3. \/ circuit' = circuit
        \/ circuit' = [circuit EXCEPT ![r.p] = Failed(r.p)]
        \/ circuit' = [circuit EXCEPT ![r.p] = [circuit[r.p] EXCEPT !.failures = 0]]
    BY <1>2
  <2> QED
    BY <1>0, <2>1, <2>2, <2>3, FailedType
<1>7. Written
  BY NothingWritten DEF Send
<1> QED
  BY <1>5, <1>6, <1>7, WriteKeeps DEF Send, RunsSafe, DeliveryInv, JobsInv, Written

-----------------------------------------------------------------------------
(* Steps that write deliveries                                             *)

\* New jobs are about rows that exist and carry keys that fit them.
LEMMA LinksGrow ==
    ASSUME LinksInv, TablesInv, deliveries' \in Seq(DeliveryRows),
           DOMAIN deliveries \subseteq DOMAIN deliveries', DeliveriesStep,
           \A j \in DOMAIN jobs : /\ jobs'[j].payload = jobs[j].payload
                                  /\ jobs'[j].key \in {jobs[j].key, NoKey},
           \A j \in DOMAIN jobs' \ DOMAIN jobs :
              /\ jobs'[j].payload \in DOMAIN deliveries'
              /\ \/ jobs'[j].key = NoKey
                 \/ \E n \in Nat : /\ jobs'[j].key = <<jobs'[j].payload, n>>
                                   /\ n <= deliveries'[jobs'[j].payload].attempts
    PROVE  LinksInv'
<1>1. \A d, n \in Nat : <<d, n>> # NoKey
  BY TransactionsAreIds
<1>2. \A d \in DOMAIN deliveries : deliveries[d].attempts <= deliveries'[d].attempts
  <2>0. \A d \in DOMAIN deliveries : deliveries[d] \in DeliveryRows
    BY DEF TablesInv
  <2>1. \A d \in DOMAIN deliveries : deliveries[d].attempts \in Nat
    BY <2>0 DEF DeliveryRows
  <2> QED
    BY <2>1 DEF DeliveriesStep, RowStep
<1>3. \A d \in DOMAIN deliveries : deliveries[d].attempts \in Nat /\ deliveries'[d].attempts \in Nat
  <2>1. \A d \in DOMAIN deliveries : deliveries[d] \in DeliveryRows /\ deliveries'[d] \in DeliveryRows
    BY DEF TablesInv
  <2> QED
    BY <2>1 DEF DeliveryRows
<1>4. ASSUME NEW j \in DOMAIN jobs', NEW d \in Nat, NEW n \in Nat, jobs'[j].key = <<d, n>>
      PROVE  d \in DOMAIN deliveries' /\ n <= deliveries'[d].attempts
  <2>1. CASE j \in DOMAIN jobs
    <3>1. jobs[j].key = <<d, n>>
      BY <1>1, <1>4, <2>1
    <3>2. d \in DOMAIN deliveries /\ n <= deliveries[d].attempts
      BY <2>1, <3>1 DEF LinksInv
    <3> QED
      BY <1>2, <1>3, <3>2
  <2>2. CASE j \notin DOMAIN jobs
    <3>1. PICK m \in Nat : /\ jobs'[j].key = <<jobs'[j].payload, m>>
                           /\ m <= deliveries'[jobs'[j].payload].attempts
      BY <1>1, <1>4, <2>2
    <3>2. jobs'[j].payload = d /\ m = n
      BY <1>4, <3>1
    <3> QED
      BY <2>2, <3>1, <3>2
  <2> QED
    BY <2>1, <2>2
<1>5. ASSUME NEW j \in DOMAIN jobs' PROVE jobs'[j].payload \in Transactions \cup DOMAIN deliveries'
  BY DEF LinksInv
<1> QED
  BY <1>4, <1>5 DEF LinksInv

\* The job of a new delivery.
LEMMA EventJob ==
    ASSUME NEW d \in Nat
    PROVE  /\ NewJob(d, <<d, 0>>, 1, FALSE) \in JobRows
           /\ NewJob(d, <<d, 0>>, 1, FALSE).payload = d
           /\ NewJob(d, <<d, 0>>, 1, FALSE).key = <<d, 0>>
           /\ NewJob(d, <<d, 0>>, 1, FALSE).status = "QUEUED"
<1> DEFINE key == <<d, 0>>
<1>1. d \in Payloads /\ key \in Keys
  BY DEF Payloads, Keys
<1> HIDE DEF key
<1>2. /\ NewJob(d, key, 1, FALSE) \in JobRows
      /\ NewJob(d, key, 1, FALSE).payload = d
      /\ NewJob(d, key, 1, FALSE).key = key
      /\ NewJob(d, key, 1, FALSE).status = "QUEUED"
  BY <1>1 DEF NewJob, JobRows, JobStatuses, JobActive
<1> QED
  BY <1>2 DEF key

\* Two sequences, one after the other.
LEMMA Concatenated ==
    ASSUME NEW S, NEW a \in Seq(S), NEW b \in Seq(S)
    PROVE  /\ a \o b \in Seq(S) /\ Len(a \o b) = Len(a) + Len(b)
           /\ \A i \in 1..Len(a) : (a \o b)[i] = a[i]
           /\ \A i \in 1..Len(b) : (a \o b)[Len(a) + i] = b[i]
<1>1. Len(a) \in Nat /\ Len(b) \in Nat
  OBVIOUS
<1> QED
  BY <1>1, ConcatProperties

\* The rows of an event and their jobs.
LEMMA EventAdded ==
    ASSUME TablesInv, jobs \in Seq(JobRows), NEW rows \in Seq(DeliveryRows),
           NEW type \in EventTypes, deliveries' = WithEvent(rows, type),
           jobs' = WithEventJobs(jobs, rows, type)
    PROVE  \E n \in Nat :
              /\ deliveries' \in Seq(DeliveryRows) /\ Len(deliveries') = Len(rows) + n
              /\ \A d \in 1..Len(rows) : deliveries'[d] = rows[d]
              /\ \A i \in 1..n :
                    /\ deliveries'[Len(rows) + i].attempts = 0
                    /\ endpoints[deliveries'[Len(rows) + i].endpoint] \in LiveEndpoints
              /\ jobs' \in Seq(JobRows) /\ Len(jobs') = Len(jobs) + n
              /\ \A j \in 1..Len(jobs) : jobs'[j] = jobs[j]
              /\ \A i \in 1..n :
                    /\ jobs'[Len(jobs) + i].payload = Len(rows) + i
                    /\ jobs'[Len(jobs) + i].key = <<Len(rows) + i, 0>>
                    /\ jobs'[Len(jobs) + i].status = "QUEUED"
<1> DEFINE subs == Subscribers(type)
           n == Len(subs)
           newRows == [i \in DOMAIN subs |-> NewDelivery(type, subs[i])]
           newJobs == [i \in DOMAIN subs |->
                          NewJob(Len(rows) + i, <<Len(rows) + i, 0>>, 1, FALSE)]
           job(i) == NewJob(Len(rows) + i, <<Len(rows) + i, 0>>, 1, FALSE)
<1>1. /\ subs \in Seq(Endpoints) /\ n \in Nat /\ DOMAIN subs = 1..n
      /\ \A i \in DOMAIN subs : endpoints[subs[i]] \in LiveEndpoints
  BY SubscribersExist
<1>2. deliveries' = rows \o newRows /\ jobs' = jobs \o newJobs
  BY DEF WithEvent, WithEventJobs
<1> HIDE DEF subs, n
<1>3. \A i \in 1..n : /\ NewDelivery(type, subs[i]) \in DeliveryRows
                      /\ NewDelivery(type, subs[i]).attempts = 0
                      /\ NewDelivery(type, subs[i]).endpoint = subs[i]
  BY <1>1 DEF NewDelivery, DeliveryRows, DeliveryStatuses
<1>4. newRows \in Seq(DeliveryRows) /\ Len(newRows) = n
  BY <1>1, <1>3
<1>5. ASSUME NEW i \in 1..n
      PROVE  /\ job(i) \in JobRows /\ job(i).payload = Len(rows) + i
             /\ job(i).key = <<Len(rows) + i, 0>> /\ job(i).status = "QUEUED"
  <2>1. Len(rows) + i \in Nat
    BY <1>1
  <2> QED
    BY <2>1, EventJob
<1>6. newJobs \in Seq(JobRows) /\ Len(newJobs) = n
  <2>1. newJobs = [i \in 1..n |-> job(i)]
    BY <1>1
  <2> HIDE DEF job, newJobs
  <2> QED
    BY <1>1, <1>5, <2>1
<1>7. /\ deliveries' \in Seq(DeliveryRows) /\ Len(deliveries') = Len(rows) + n
      /\ \A d \in 1..Len(rows) : deliveries'[d] = rows[d]
      /\ \A i \in 1..n : deliveries'[Len(rows) + i] = newRows[i]
  <2> HIDE DEF newRows
  <2>1. /\ rows \o newRows \in Seq(DeliveryRows)
        /\ Len(rows \o newRows) = Len(rows) + Len(newRows)
        /\ \A i \in 1..Len(rows) : (rows \o newRows)[i] = rows[i]
        /\ \A i \in 1..Len(newRows) : (rows \o newRows)[Len(rows) + i] = newRows[i]
    BY <1>4, Concatenated
  <2> QED
    BY <1>2, <1>4, <2>1, Zenon
<1>8. /\ jobs' \in Seq(JobRows) /\ Len(jobs') = Len(jobs) + n
      /\ \A j \in 1..Len(jobs) : jobs'[j] = jobs[j]
      /\ \A i \in 1..n : jobs'[Len(jobs) + i] = newJobs[i]
  <2> HIDE DEF newJobs
  <2>1. /\ jobs \o newJobs \in Seq(JobRows)
        /\ Len(jobs \o newJobs) = Len(jobs) + Len(newJobs)
        /\ \A i \in 1..Len(jobs) : (jobs \o newJobs)[i] = jobs[i]
        /\ \A i \in 1..Len(newJobs) : (jobs \o newJobs)[Len(jobs) + i] = newJobs[i]
    BY <1>6, Concatenated
  <2> QED
    BY <1>2, <1>6, <2>1, Zenon
<1>9. \A i \in 1..n : /\ newRows[i] = NewDelivery(type, subs[i])
                      /\ newJobs[i] = job(i)
  BY <1>1
<1> HIDE DEF newRows, newJobs, job
<1>10. \A i \in 1..n : /\ deliveries'[Len(rows) + i].attempts = 0
                       /\ endpoints[deliveries'[Len(rows) + i].endpoint] \in LiveEndpoints
  <2> SUFFICES ASSUME NEW i \in 1..n
               PROVE  /\ deliveries'[Len(rows) + i].attempts = 0
                      /\ endpoints[deliveries'[Len(rows) + i].endpoint] \in LiveEndpoints
    OBVIOUS
  <2>1. deliveries'[Len(rows) + i] = NewDelivery(type, subs[i])
    BY <1>7, <1>9
  <2> QED
    BY <1>1, <1>3, <2>1
<1>11. \A i \in 1..n : /\ jobs'[Len(jobs) + i].payload = Len(rows) + i
                       /\ jobs'[Len(jobs) + i].key = <<Len(rows) + i, 0>>
                       /\ jobs'[Len(jobs) + i].status = "QUEUED"
  BY <1>5, <1>8, <1>9
<1> QED
  BY <1>1, <1>7, <1>8, <1>10, <1>11

\* Publishing an event, alone or with a delivery that has just failed.
LEMMA EventWrites ==
    ASSUME DeliveryInv, NEW rows \in Seq(DeliveryRows), DOMAIN rows = DOMAIN deliveries,
           \A d \in DOMAIN rows :
              /\ RowStep(deliveries[d], rows[d])
              /\ rows[d].status \in {"PENDING", "RETRY"} =>
                    /\ rows[d].status = deliveries[d].status
                    /\ rows[d].attempts = deliveries[d].attempts,
           NEW type \in EventTypes, deliveries' = WithEvent(rows, type),
           jobs' = WithEventJobs(jobs, rows, type)
    PROVE  Written
<1>0. TablesInv /\ LinksInv /\ jobs \in Seq(JobRows) /\ deliveries \in Seq(DeliveryRows)
  BY DEF DeliveryInv, JobsInv, TablesInv
<1>1. PICK n \in Nat :
        /\ deliveries' \in Seq(DeliveryRows) /\ Len(deliveries') = Len(rows) + n
        /\ \A d \in 1..Len(rows) : deliveries'[d] = rows[d]
        /\ \A i \in 1..n :
              /\ deliveries'[Len(rows) + i].attempts = 0
              /\ endpoints[deliveries'[Len(rows) + i].endpoint] \in LiveEndpoints
        /\ jobs' \in Seq(JobRows) /\ Len(jobs') = Len(jobs) + n
        /\ \A j \in 1..Len(jobs) : jobs'[j] = jobs[j]
        /\ \A i \in 1..n :
              /\ jobs'[Len(jobs) + i].payload = Len(rows) + i
              /\ jobs'[Len(jobs) + i].key = <<Len(rows) + i, 0>>
              /\ jobs'[Len(jobs) + i].status = "QUEUED"
  BY <1>0, EventAdded
<1>2. /\ DOMAIN jobs = 1..Len(jobs) /\ DOMAIN jobs' = 1..(Len(jobs) + n) /\ Len(jobs) \in Nat
      /\ DOMAIN rows = 1..Len(rows) /\ DOMAIN deliveries' = 1..(Len(rows) + n)
      /\ Len(rows) \in Nat
  BY <1>0, <1>1
<1>3. \A d \in DOMAIN deliveries' \ DOMAIN rows : \E i \in 1..n : d = Len(rows) + i
  <2> SUFFICES ASSUME NEW d \in DOMAIN deliveries' \ DOMAIN rows
               PROVE  d - Len(rows) \in 1..n /\ d = Len(rows) + (d - Len(rows))
    OBVIOUS
  <2> QED
    BY <1>2
<1>4. \A j \in DOMAIN jobs' \ DOMAIN jobs : \E i \in 1..n : j = Len(jobs) + i
  <2> SUFFICES ASSUME NEW j \in DOMAIN jobs' \ DOMAIN jobs
               PROVE  j - Len(jobs) \in 1..n /\ j = Len(jobs) + (j - Len(jobs))
    OBVIOUS
  <2> QED
    BY <1>2
<1>5. DeliveriesStep
  BY <1>1, <1>2 DEF DeliveriesStep
<1>6. \A d \in DOMAIN deliveries' : endpoints[deliveries'[d].endpoint] \in LiveEndpoints
  <2> SUFFICES ASSUME NEW d \in DOMAIN deliveries'
               PROVE  endpoints[deliveries'[d].endpoint] \in LiveEndpoints
    OBVIOUS
  <2>1. CASE d \in DOMAIN rows
    <3>1. deliveries'[d].endpoint = deliveries[d].endpoint
      BY <1>1, <1>2, <2>1 DEF RowStep
    <3> QED
      BY <1>0, <2>1, <3>1 DEF TablesInv
  <2>2. CASE d \notin DOMAIN rows
    BY <1>1, <1>3, <2>2
  <2> QED
    BY <2>1, <2>2
<1>7. RowsRecoverable
  <2> SUFFICES ASSUME NEW d \in DOMAIN deliveries', Undecided(d)'
               PROVE  RowSame(d) \/ FreshJob(d)
    BY DEF RowsRecoverable
  <2>1. CASE d \in DOMAIN rows
    BY <1>1, <1>2, <2>1 DEF Undecided, RowSame
  <2>2. CASE d \notin DOMAIN rows
    <3>1. PICK i \in 1..n : d = Len(rows) + i
      BY <1>3, <2>2
    <3>2. Len(jobs) + i \in DOMAIN jobs' \ DOMAIN jobs
      BY <1>2
    <3> QED
      BY <1>1, <3>1, <3>2 DEF FreshJob
  <2> QED
    BY <2>1, <2>2
<1>8. LinksInv'
  <2>1. ASSUME NEW j \in DOMAIN jobs' \ DOMAIN jobs
        PROVE  /\ jobs'[j].payload \in DOMAIN deliveries'
               /\ \E k \in Nat : /\ jobs'[j].key = <<jobs'[j].payload, k>>
                                 /\ k <= deliveries'[jobs'[j].payload].attempts
    <3>1. PICK i \in 1..n : j = Len(jobs) + i
      BY <1>4
    <3>2. jobs'[j].payload = Len(rows) + i /\ jobs'[j].key = <<Len(rows) + i, 0>>
      BY <1>1, <3>1
    <3>3. deliveries'[Len(rows) + i].attempts = 0
      BY <1>1
    <3>5. Len(rows) + i \in DOMAIN deliveries'
      BY <1>2
    <3>4. 0 \in Nat /\ 0 <= deliveries'[jobs'[j].payload].attempts
      BY <3>2, <3>3
    <3> QED
      BY <3>2, <3>3, <3>4, <3>5
  <2>2. \A j \in DOMAIN jobs : jobs'[j].payload = jobs[j].payload /\ jobs'[j].key = jobs[j].key
    BY <1>1, <1>2
  <2>3. DOMAIN deliveries \subseteq DOMAIN deliveries'
    BY <1>2
  <2> QED
    BY <1>0, <1>1, <1>5, <2>1, <2>2, <2>3, LinksGrow
<1>9. /\ DOMAIN jobs \subseteq DOMAIN jobs' /\ DOMAIN deliveries \subseteq DOMAIN deliveries'
      /\ \A j \in DOMAIN jobs : jobs'[j] = jobs[j]
  BY <1>1, <1>2
<1> QED
  BY <1>1, <1>5, <1>6, <1>7, <1>8, <1>9 DEF Written

\* One row gets a status and perhaps another attempt.
Marked(row, status, n) == [row EXCEPT !.status = status, !.attempts = n]

LEMMA OneRowWritten ==
    ASSUME deliveries \in Seq(DeliveryRows), NEW d \in DOMAIN deliveries,
           NEW status \in DeliveryStatuses, NEW n \in Nat, NEW rows,
           rows = [deliveries EXCEPT ![d] = Marked(deliveries[d], status, n)]
    PROVE  /\ rows \in Seq(DeliveryRows) /\ DOMAIN rows = DOMAIN deliveries
           /\ rows[d].status = status /\ rows[d].attempts = n
           /\ rows[d].endpoint = deliveries[d].endpoint
           /\ \A e \in DOMAIN deliveries \ {d} : rows[e] = deliveries[e]
<1> DEFINE row == Marked(deliveries[d], status, n)
<1>1. deliveries[d] \in DeliveryRows
  OBVIOUS
<1>2. /\ row \in DeliveryRows /\ row.status = status /\ row.attempts = n
      /\ row.endpoint = deliveries[d].endpoint
  BY <1>1 DEF DeliveryRows, Marked
<1>3. rows = [deliveries EXCEPT ![d] = row]
  OBVIOUS
<1> HIDE DEF row
<1>4. rows \in Seq(DeliveryRows) /\ DOMAIN rows = DOMAIN deliveries
  BY <1>2, <1>3
<1>5. \A e \in DOMAIN deliveries : rows[e] = IF e = d THEN row ELSE deliveries[e]
  BY <1>3
<1> QED
  BY <1>2, <1>4, <1>5

\* A step that writes row d and may enqueue a job for it.
LEMMA RowWrites ==
    ASSUME DeliveryInv, NEW d \in DOMAIN deliveries,
           deliveries' \in Seq(DeliveryRows), DOMAIN deliveries' = DOMAIN deliveries,
           \A e \in DOMAIN deliveries \ {d} : deliveries'[e] = deliveries[e],
           RowStep(deliveries[d], deliveries'[d]),
           Undecided(d)' => FreshJob(d),
           jobs' \in Seq(JobRows), DOMAIN jobs \subseteq DOMAIN jobs',
           \A j \in DOMAIN jobs :
              /\ jobs'[j].payload = jobs[j].payload
              /\ jobs'[j].key \in {jobs[j].key, NoKey}
              /\ jobs[j].status \in Kept => jobs'[j].status \in Kept,
           \A j \in DOMAIN jobs' \ DOMAIN jobs :
              /\ jobs'[j].payload = d
              /\ \/ jobs'[j].key = NoKey
                 \/ \E n \in Nat : jobs'[j].key = <<d, n>> /\ n <= deliveries'[d].attempts
    PROVE  Written
<1>1. TablesInv /\ LinksInv
  BY DEF DeliveryInv
<1>2. DeliveriesStep
  <2>1. \A e \in DOMAIN deliveries : deliveries[e] \in DeliveryRows
    BY <1>1 DEF TablesInv
  <2>2. \A e \in DOMAIN deliveries \ {d} : RowStep(deliveries[e], deliveries'[e])
    BY <2>1 DEF RowStep, DeliveryRows
  <2> QED
    BY <2>2 DEF DeliveriesStep
<1>3. LinksInv'
  BY <1>1, <1>2, LinksGrow
<1>4. RowsRecoverable
  BY DEF RowsRecoverable, RowSame, Undecided
<1>5. \A e \in DOMAIN deliveries' : endpoints[deliveries'[e].endpoint] \in LiveEndpoints
  <2>1. \A e \in DOMAIN deliveries : deliveries'[e].endpoint = deliveries[e].endpoint
    BY <1>2 DEF DeliveriesStep, RowStep
  <2> QED
    BY <1>1, <2>1 DEF TablesInv
<1> QED
  BY <1>2, <1>3, <1>4, <1>5 DEF Written

\* What a run records.
LEMMA ResultIs ==
    ASSUME NEW r, Recording(r)
    PROVE  Result(r) \in {"DELIVERED", "RETRY", "FAILED"}
<1>1. CASE r.work = "ok"
  BY <1>1 DEF Result
<1>2. CASE r.work = "inactive"
  BY <1>2 DEF Result
<1>3. CASE r.work = "bad"
  BY <1>3 DEF Result
<1> QED
  BY <1>1, <1>2, <1>3 DEF Recording

\* The transaction of recordDeliveryResult counts the attempt, and enqueues the
\* next one under a key nobody holds.
LEMMA CommitWrites ==
    ASSUME DeliveryInv, NEW r \in runs, Recording(r), Unchanged(r), Commit(r)
    PROVE  Written /\ ~RowSame(jobs[r.j].payload)
<1>0. PICK d : d = jobs[r.j].payload
  OBVIOUS
<1> PICK n : n = deliveries[d].attempts + 1
  OBVIOUS
<1> PICK status : status = Result(r)
  OBVIOUS
<1>1. /\ d \in DOMAIN deliveries /\ r.note \in NoteRecords /\ r.j \in DOMAIN jobs
      /\ jobs \in Seq(JobRows) /\ deliveries \in Seq(DeliveryRows) /\ LinksInv
  BY <1>0 DEF DeliveryInv, RunsInv, Working, Recording, DeliveryRun, JobsInv, TablesInv
<1>2. /\ deliveries[d].status = r.note.status /\ deliveries[d].attempts = r.note.attempts
      /\ r.note.status \in {"PENDING", "RETRY", "FAILED"} /\ r.note.attempts \in Nat
  BY <1>0, <1>1 DEF Unchanged, Row, NoteRecords
<1>3. Result(r) \in {"DELIVERED", "RETRY", "FAILED"} /\ Result(r) \in DeliveryStatuses
  BY ResultIs DEF DeliveryStatuses
<1> PICK rows : rows = [deliveries EXCEPT ![d] = Marked(deliveries[d], status, n)]
  OBVIOUS
<1>4. /\ rows \in Seq(DeliveryRows) /\ DOMAIN rows = DOMAIN deliveries
      /\ rows[d].status = Result(r) /\ rows[d].attempts = deliveries[d].attempts + 1
      /\ rows[d].endpoint = deliveries[d].endpoint
      /\ \A e \in DOMAIN deliveries \ {d} : rows[e] = deliveries[e]
  <2>1. n \in Nat /\ status \in DeliveryStatuses
    BY <1>2, <1>3
  <2>2. /\ rows \in Seq(DeliveryRows) /\ DOMAIN rows = DOMAIN deliveries
        /\ rows[d].status = status /\ rows[d].attempts = n
        /\ rows[d].endpoint = deliveries[d].endpoint
        /\ \A e \in DOMAIN deliveries \ {d} : rows[e] = deliveries[e]
    BY <1>1, <2>1, OneRowWritten
  <2> QED
    BY <2>2
<1>5. [deliveries EXCEPT ![d].status = Result(r), ![d].attempts = @ + 1] = rows
  <2>1. deliveries[d] \in DeliveryRows
    BY <1>1
  <2> QED
    BY <1>1, <2>1 DEF DeliveryRows, Marked
<1>6. IF Result(r) = "FAILED" /\ Row(r).type # "failure"
      THEN deliveries' = WithEvent(rows, "failure") /\ jobs' = WithEventJobs(jobs, rows, "failure")
      ELSE /\ deliveries' = rows
           /\ jobs' = IF Result(r) = "RETRY"
                      THEN enqueueJob(jobs, d, <<d, r.note.attempts + 1>>, 1)
                      ELSE jobs
  BY <1>0, <1>5 DEF Commit
<1>7. RowStep(deliveries[d], rows[d])
  BY <1>2, <1>4 DEF RowStep
<1>8. CASE Result(r) = "FAILED" /\ Row(r).type # "failure"
  <2>1. deliveries' = WithEvent(rows, "failure") /\ jobs' = WithEventJobs(jobs, rows, "failure")
    BY <1>6, <1>8
  <2>2. \A e \in DOMAIN rows :
          /\ RowStep(deliveries[e], rows[e])
          /\ rows[e].status \in {"PENDING", "RETRY"} =>
                /\ rows[e].status = deliveries[e].status
                /\ rows[e].attempts = deliveries[e].attempts
    <3>1. \A e \in DOMAIN deliveries : deliveries[e] \in DeliveryRows
      BY <1>1
    <3>2. \A e \in DOMAIN deliveries \ {d} : RowStep(deliveries[e], rows[e])
      BY <1>4, <3>1 DEF RowStep, DeliveryRows
    <3> QED
      BY <1>4, <1>7, <1>8, <3>2
  <2>3. Written
    BY <1>4, <2>1, <2>2, EventWrites DEF EventTypes
  <2>4. deliveries'[d].attempts = deliveries[d].attempts + 1
    <3>1. deliveries'[d] = rows[d]
      <4>1. \A e \in 1..Len(rows) : deliveries'[e] = rows[e]
        BY <1>1, <1>4, <2>1, EventAdded DEF EventTypes, DeliveryInv
      <4> QED
        BY <1>1, <1>4, <4>1
    <3> QED
      BY <1>4, <3>1
  <2> QED
    BY <1>0, <1>2, <2>3, <2>4 DEF RowSame
<1>9. CASE ~(Result(r) = "FAILED" /\ Row(r).type # "failure")
  <2>1. deliveries' = rows
    BY <1>6, <1>9
  <2>2. ~RowSame(d)
    BY <1>2, <1>4, <2>1 DEF RowSame
  <2>3. CASE Result(r) = "RETRY"
    <3> DEFINE key == <<d, r.note.attempts + 1>>
    <3>1. jobs' = enqueueJob(jobs, d, key, 1)
      BY <1>6, <2>3
    <3>2. d \in Nat /\ r.note.attempts + 1 \in Nat
      BY <1>1, <1>2
    <3>3. d \in Payloads /\ key \in Keys
      BY <3>2 DEF Payloads, Keys
    <3>4. key # NoKey
      BY <3>2, TransactionsAreIds
    <3>5. ~\E j \in DOMAIN jobs : jobs[j].key = key
      <4> SUFFICES ASSUME NEW j \in DOMAIN jobs, jobs[j].key = key PROVE FALSE
        OBVIOUS
      <4>1. r.note.attempts + 1 <= deliveries[d].attempts
        BY <1>1, <3>2 DEF LinksInv
      <4> QED
        BY <1>2, <4>1
    <3>6. key = <<d, rows[d].attempts>> /\ rows[d].attempts \in Nat
      BY <1>2, <1>4
    <3> HIDE DEF key
    <3>7. /\ jobs' \in Seq(JobRows) /\ Len(jobs') = Len(jobs) + 1
          /\ DOMAIN jobs' = DOMAIN jobs \cup {Len(jobs) + 1}
          /\ jobs'[Len(jobs) + 1] = NewJob(d, key, 1, FALSE)
          /\ \A j \in DOMAIN jobs : RowMoves(jobs[j], jobs'[j]) /\ jobs'[j].status = jobs[j].status
      BY <1>1, <3>1, <3>3, <3>5, Enqueued
    <3>8. /\ NewJob(d, key, 1, FALSE).payload = d /\ NewJob(d, key, 1, FALSE).key = key
          /\ NewJob(d, key, 1, FALSE).status = "QUEUED"
      BY DEF NewJob
    <3>9. DOMAIN jobs = 1..Len(jobs) /\ Len(jobs) \in Nat
      BY <1>1
    <3>10. Len(jobs) + 1 \in DOMAIN jobs' \ DOMAIN jobs
      BY <3>7, <3>9
    <3>11. \A j \in DOMAIN jobs' \ DOMAIN jobs : jobs'[j].payload = d /\ jobs'[j].key = key
      BY <3>7, <3>8
    <3>12. FreshJob(d)
      BY <3>7, <3>8, <3>10 DEF FreshJob
    <3>13. \A j \in DOMAIN jobs : /\ jobs'[j].payload = jobs[j].payload
                                  /\ jobs'[j].key \in {jobs[j].key, NoKey}
                                  /\ jobs[j].status \in Kept => jobs'[j].status \in Kept
      BY <3>7 DEF RowMoves
    <3>14. \A j \in DOMAIN jobs' \ DOMAIN jobs :
              /\ jobs'[j].payload = d
              /\ \/ jobs'[j].key = NoKey
                 \/ \E k \in Nat : jobs'[j].key = <<d, k>> /\ k <= deliveries'[d].attempts
      BY <2>1, <3>6, <3>11
    <3>15. Written
      BY <1>1, <1>4, <1>7, <2>1, <3>7, <3>12, <3>13, <3>14, RowWrites
    <3> QED
      BY <1>0, <2>2, <3>15
  <2>4. CASE Result(r) # "RETRY"
    <3>1. jobs' = jobs
      BY <1>6, <1>9, <2>4
    <3>2. ~Undecided(d)'
      BY <1>3, <1>4, <2>1, <2>4 DEF Undecided
    <3>3. Written
      BY <1>1, <1>4, <1>7, <2>1, <3>1, <3>2, RowWrites
    <3> QED
      BY <1>0, <2>2, <3>3
  <2> QED
    BY <2>3, <2>4
<1> QED
  BY <1>8, <1>9

\* Recording a result, or finding that the row has changed.
LEMMA RecordWrites ==
    ASSUME DeliveryInv, NEW r \in runs, Recording(r),
           RecordDelivery(r) \/ UNCHANGED <<deliveries, jobs>>
    PROVE  /\ Written
           /\ RecordDelivery(r) => \/ ~RowSame(jobs[r.j].payload)
                                   \/ Working(r) /\ ~Unchanged(r)
<1>1. Working(r)
  BY DEF Working, Recording
<1>2. CASE UNCHANGED <<deliveries, jobs>> /\ ~(RecordDelivery(r) /\ Unchanged(r))
  BY <1>1, <1>2, NothingWritten
<1>3. CASE RecordDelivery(r) /\ Unchanged(r)
  <2>1. Commit(r)
    BY <1>3 DEF RecordDelivery
  <2> QED
    BY <1>3, <2>1, CommitWrites
<1> QED
  BY <1>2, <1>3 DEF RecordDelivery

LEMMA RecordResultKeeps ==
    ASSUME DeliveryInv, NEW r \in runs, RecordResult(r)
    PROVE  DeliveryInv' /\ DeliveriesStep
<1>1. /\ Written
      /\ ~RowSame(jobs[r.j].payload) \/ (Working(r) /\ ~Unchanged(r))
  BY RecordWrites DEF RecordResult
<1>2. RunsSafe
  BY <1>1, WorkEnded DEF RecordResult
<1>3. DeliveriesStep
  BY <1>1 DEF Written
<1> QED
  BY <1>1, <1>2, <1>3, WriteKeeps DEF RecordResult, RunsSafe, DeliveryInv, TablesInv, JobsInv

LEMMA RecordFailsKeeps ==
    ASSUME DeliveryInv, NEW r \in runs, RecordFails(r)
    PROVE  DeliveryInv' /\ DeliveriesStep
<1>1. Written
  BY RecordWrites DEF RecordFails
<1>2. RunsSafe
  <2>1. CASE r.work = "ok"
    <3> DEFINE s == [r EXCEPT !.work = "bad"]
    <3>1. /\ r \in RunRecords(Notes) /\ r.j \in DOMAIN jobs /\ Working(r)
          /\ jobs[r.j].payload \in DOMAIN deliveries /\ r.note \in NoteRecords
      BY <2>1 DEF DeliveryInv, JobsInv, RunsInv, Working, DeliveryRun
    <3>2. /\ s \in RunRecords(Notes) /\ s.j = r.j /\ s.work = "bad" /\ s.note = r.note
          /\ s.side = r.side
      BY <3>1 DEF RunRecords
    <3>3. runs' = Put(r, s)
      BY <2>1 DEF RecordFails
    <3> HIDE DEF s
    <3>4. RunSafe(s) /\ RunKnows(s)
      BY <3>1, <3>2 DEF RunSafe, RunKnows
    <3> QED
      BY <3>1, <3>2, <3>3, <3>4, PutSafe
  <2>2. CASE r.work # "ok"
    BY <2>2, WorkEnded DEF RecordFails
  <2> QED
    BY <2>1, <2>2
<1>3. faults' \in 0..MaxFaults
  BY FaultCounted DEF RecordFails, DeliveryInv, JobsInv
<1>4. DeliveriesStep
  BY <1>1 DEF Written
<1> QED
  BY <1>1, <1>2, <1>3, <1>4, WriteKeeps DEF RecordFails, RunsSafe, DeliveryInv, TablesInv, JobsInv

-----------------------------------------------------------------------------
(* Requests and retention                                                  *)

\* A request that writes rows and leaves the runs alone.
LEMMA RequestKeeps ==
    ASSUME DeliveryInv, Written, Request, UNCHANGED <<runs, faults, endpoints, edits, circuit>>
    PROVE  DeliveryInv' /\ DeliveriesStep
<1>1. runs \subseteq RunRecords(Notes) /\ circuit \in [Workers -> Circuits]
  BY DEF DeliveryInv, JobsInv, TablesInv
<1>2. requests' \in 0..MaxRequests /\ faults' \in 0..MaxFaults
  BY RequestCounted DEF DeliveryInv, JobsInv
<1>3. \A s \in runs' : s.j \in DOMAIN jobs /\ RunSafe(s) /\ RunKnows(s)
  BY RunsSame
<1> QED
  BY <1>1, <1>2, <1>3, WriteKeeps DEF Written

LEMMA CreateEventKeeps ==
    ASSUME DeliveryInv, CreateEvent
    PROVE  DeliveryInv' /\ DeliveriesStep
<1>1. deliveries \in Seq(DeliveryRows)
  BY DEF DeliveryInv, TablesInv
<1>2. \A d \in DOMAIN deliveries : deliveries[d] \in DeliveryRows
  BY <1>1
<1>3. \A d \in DOMAIN deliveries : RowStep(deliveries[d], deliveries[d])
  BY <1>2 DEF RowStep, DeliveryRows
<1>4. Written
  BY <1>1, <1>3, EventWrites DEF CreateEvent, EventTypes
<1> QED
  BY <1>4, RequestKeeps DEF CreateEvent

LEMMA RetryDeliveryKeeps ==
    ASSUME DeliveryInv, NEW d \in DOMAIN deliveries, RetryDelivery(d)
    PROVE  DeliveryInv' /\ DeliveriesStep
<1>1. /\ deliveries \in Seq(DeliveryRows) /\ jobs \in Seq(JobRows)
      /\ deliveries[d] \in DeliveryRows /\ deliveries[d].status \in {"FAILED", "RETRY"}
  BY DEF DeliveryInv, TablesInv, JobsInv, RetryDelivery
<1>2. deliveries[d].attempts \in Nat /\ "PENDING" \in DeliveryStatuses /\ d \in Nat
  BY <1>1 DEF DeliveryRows, DeliveryStatuses
<1>3. deliveries' = [deliveries EXCEPT ![d] = Marked(deliveries[d], "PENDING", deliveries[d].attempts)]
  BY <1>1 DEF RetryDelivery, Marked, DeliveryRows
<1>4. /\ deliveries' \in Seq(DeliveryRows) /\ DOMAIN deliveries' = DOMAIN deliveries
      /\ deliveries'[d].status = "PENDING" /\ deliveries'[d].attempts = deliveries[d].attempts
      /\ deliveries'[d].endpoint = deliveries[d].endpoint
      /\ \A e \in DOMAIN deliveries \ {d} : deliveries'[e] = deliveries[e]
  BY <1>1, <1>2, <1>3, OneRowWritten
<1>5. RowStep(deliveries[d], deliveries'[d])
  BY <1>1, <1>4 DEF RowStep
<1>6. d \in Payloads /\ NoKey \in Keys
  BY <1>2 DEF Payloads, Keys
<1>7. /\ jobs' \in Seq(JobRows) /\ Len(jobs') = Len(jobs) + 1
      /\ DOMAIN jobs' = DOMAIN jobs \cup {Len(jobs) + 1}
      /\ jobs'[Len(jobs) + 1] = NewJob(d, NoKey, 1, FALSE)
      /\ \A j \in DOMAIN jobs : RowMoves(jobs[j], jobs'[j]) /\ jobs'[j].status = jobs[j].status
  BY <1>1, <1>6, Enqueued DEF RetryDelivery
<1>8. /\ NewJob(d, NoKey, 1, FALSE).payload = d /\ NewJob(d, NoKey, 1, FALSE).key = NoKey
      /\ NewJob(d, NoKey, 1, FALSE).status = "QUEUED"
  BY DEF NewJob
<1>9. Len(jobs) + 1 \in DOMAIN jobs' \ DOMAIN jobs
  BY <1>1, <1>7
<1>10. \A j \in DOMAIN jobs' \ DOMAIN jobs : jobs'[j].payload = d /\ jobs'[j].key = NoKey
  BY <1>7, <1>8
<1>11. FreshJob(d)
  BY <1>7, <1>8, <1>9 DEF FreshJob
<1>12. \A j \in DOMAIN jobs : /\ jobs'[j].payload = jobs[j].payload
                              /\ jobs'[j].key \in {jobs[j].key, NoKey}
                              /\ jobs[j].status \in Kept => jobs'[j].status \in Kept
  BY <1>7 DEF RowMoves
<1>13. Written
  BY <1>4, <1>5, <1>7, <1>10, <1>11, <1>12, RowWrites
<1> QED
  BY <1>13, RequestKeeps DEF RetryDelivery

LEMMA RetentionOfDeliveryKeeps ==
    ASSUME DeliveryInv, NEW d \in DOMAIN deliveries, RetentionOfDelivery(d)
    PROVE  DeliveryInv' /\ DeliveriesStep
<1>1. /\ deliveries \in Seq(DeliveryRows) /\ jobs \in Seq(JobRows)
      /\ deliveries[d] \in DeliveryRows /\ deliveries[d].status \in {"DELIVERED", "FAILED"}
  BY DEF DeliveryInv, TablesInv, JobsInv, RetentionOfDelivery
<1>2. deliveries[d].attempts \in Nat /\ "DELETED" \in DeliveryStatuses
  BY <1>1 DEF DeliveryRows, DeliveryStatuses
<1>3. deliveries' = [deliveries EXCEPT ![d] = Marked(deliveries[d], "DELETED", deliveries[d].attempts)]
  BY <1>1 DEF RetentionOfDelivery, Marked, DeliveryRows
<1>4. /\ deliveries' \in Seq(DeliveryRows) /\ DOMAIN deliveries' = DOMAIN deliveries
      /\ deliveries'[d].status = "DELETED" /\ deliveries'[d].attempts = deliveries[d].attempts
      /\ deliveries'[d].endpoint = deliveries[d].endpoint
      /\ \A e \in DOMAIN deliveries \ {d} : deliveries'[e] = deliveries[e]
  BY <1>1, <1>2, <1>3, OneRowWritten
<1>5. RowStep(deliveries[d], deliveries'[d]) /\ ~Undecided(d)'
  BY <1>1, <1>4 DEF RowStep, Undecided
<1>6. jobs' = jobs
  BY DEF RetentionOfDelivery
<1>7. Written
  BY <1>1, <1>4, <1>5, <1>6, RowWrites
<1> QED
  BY <1>7, RequestKeeps DEF RetentionOfDelivery

LEMMA RetentionOfJobKeeps ==
    ASSUME DeliveryInv, NEW j \in DOMAIN jobs, RetentionOfJob(j)
    PROVE  DeliveryInv' /\ DeliveriesStep
<1>1. /\ jobs \in Seq(JobRows) /\ jobs[j] \in JobRows /\ jobs[j].status \in JobTerminal
      /\ TablesInv /\ LinksInv
  BY DEF DeliveryInv, JobsInv, RetentionOfJob
<1>2. PICK status \in JobDeleted :
        /\ status = IF jobs[j].status = "DEAD_LETTER" THEN "LETTER_DELETED" ELSE "DELETED"
        /\ jobs' = [jobs EXCEPT ![j] = [jobs[j] EXCEPT !.status = status]]
  BY <1>1 DEF RetentionOfJob, deleteExpiredJob, JobDeleted
<1> DEFINE row == [jobs[j] EXCEPT !.status = status]
<1>3. /\ row \in JobRows /\ row.payload = jobs[j].payload /\ row.key = jobs[j].key
      /\ row.status = status
  BY <1>1, <1>2 DEF JobRows, JobStatuses
<1>4. jobs' = [jobs EXCEPT ![j] = row]
  BY <1>2
<1> HIDE DEF row
<1>5. jobs' \in Seq(JobRows) /\ DOMAIN jobs' = DOMAIN jobs
  BY <1>1, <1>3, <1>4
<1>6. \A i \in DOMAIN jobs : jobs'[i] = IF i = j THEN row ELSE jobs[i]
  BY <1>1, <1>4
<1>7. jobs[j].status \in Kept => status \in Kept
  BY <1>1, <1>2 DEF Kept, JobActive, JobTerminal
<1>8. \A i \in DOMAIN jobs : /\ jobs'[i].payload = jobs[i].payload /\ jobs'[i].key = jobs[i].key
                             /\ jobs[i].status \in Kept => jobs'[i].status \in Kept
  BY <1>3, <1>6, <1>7
<1>9. deliveries' = deliveries /\ deliveries \in Seq(DeliveryRows)
  BY <1>1 DEF RetentionOfJob, webhookVars, TablesInv
<1>10. DeliveriesStep
  BY <1>1, <1>9, DeliveriesSame
<1>11. LinksInv'
  BY <1>1, <1>5, <1>8, <1>9, <1>10, LinksGrow
<1>12. RowsRecoverable
  BY <1>9 DEF RowsRecoverable, RowSame, Undecided
<1>13. Written
  BY <1>1, <1>5, <1>8, <1>9, <1>10, <1>11, <1>12 DEF Written, TablesInv
<1> QED
  BY <1>13, RequestKeeps DEF RetentionOfJob, webhookVars

-----------------------------------------------------------------------------
(* Endpoints                                                               *)

\* A step that leaves jobs and runs alone.
LEMMA QuietMoves ==
    ASSUME DeliveryInv, UNCHANGED <<jobs, runs, faults>>, requests' = requests \/ Request
    PROVE  JobsMove(Notes)
<1>1. requests' \in 0..MaxRequests
  BY RequestCounted DEF DeliveryInv, JobsInv
<1> QED
  BY <1>1, RowsUntouched, RunsUntouched, StepComposed DEF DeliveryInv, JobsInv

\* One endpoint that exists is written, and exists.
LEMMA EndpointWritten ==
    ASSUME TablesInv, NEW e \in Endpoints, NEW row \in LiveEndpoints,
           endpoints' = [endpoints EXCEPT ![e] = row], edits' \subseteq edits,
           UNCHANGED <<deliveries, circuit>>
    PROVE  TablesInv'
<1>1. endpoints \in [Endpoints -> {NoEndpoint} \cup LiveEndpoints]
  BY DEF TablesInv
<1>2. endpoints' \in [Endpoints -> {NoEndpoint} \cup LiveEndpoints]
  BY <1>1
<1>3. \A f \in Endpoints : endpoints[f] \in LiveEndpoints => endpoints'[f] \in LiveEndpoints
  BY <1>1
<1>4. \A d \in DOMAIN deliveries : deliveries[d].endpoint \in Endpoints
  <2>1. \A d \in DOMAIN deliveries : deliveries[d] \in DeliveryRows
    BY DEF TablesInv
  <2> QED
    BY <2>1 DEF DeliveryRows
<1>5. \A edit \in edits : edit.e \in Endpoints
  BY DEF TablesInv, Edits
<1> QED
  BY <1>2, <1>3, <1>4, <1>5 DEF TablesInv

LEMMA EndpointsKeep ==
    ASSUME DeliveryInv, NEW e \in Endpoints,
           CreateEndpoint(e) \/ BeginUpdate(e) \/ DeleteEndpoint(e)
    PROVE  DeliveryInv' /\ DeliveriesStep
<1>0. TablesInv
  BY DEF DeliveryInv
<1>1. JobsMove(Notes) /\ UNCHANGED deliveries
  BY QuietMoves DEF CreateEndpoint, BeginUpdate, DeleteEndpoint, runVars
<1>2. TablesInv'
  <2>1. CASE CreateEndpoint(e)
    <3>1. PICK url \in Urls :
            endpoints' = [endpoints EXCEPT ![e] =
                             [status |-> "active", deleted |-> FALSE, url |-> url]]
      BY <2>1 DEF CreateEndpoint
    <3>2. [status |-> "active", deleted |-> FALSE, url |-> url] \in LiveEndpoints
      BY DEF LiveEndpoints
    <3> QED
      BY <1>0, <2>1, <3>1, <3>2, EndpointWritten DEF CreateEndpoint
  <2>2. CASE BeginUpdate(e)
    <3>1. PICK status \in {"active", "disabled"}, url \in Urls :
            edits' = edits \cup {[e |-> e, status |-> status, url |-> url]}
      BY <2>2 DEF BeginUpdate
    <3>2. [e |-> e, status |-> status, url |-> url] \in Edits
      BY DEF Edits
    <3>3. endpoints[e] \in LiveEndpoints
      BY <1>0, <2>2 DEF TablesInv, BeginUpdate, Found, NoEndpoint
    <3>4. UNCHANGED <<endpoints, deliveries, circuit>>
      BY <2>2 DEF BeginUpdate
    <3> QED
      BY <1>0, <3>1, <3>2, <3>3, <3>4 DEF TablesInv
  <2>3. CASE DeleteEndpoint(e)
    <3>1. endpoints[e] \in LiveEndpoints
      BY <1>0, <2>3 DEF TablesInv, DeleteEndpoint, Found, NoEndpoint
    <3> DEFINE row == [endpoints[e] EXCEPT !.status = "disabled", !.deleted = TRUE]
    <3>2. row \in LiveEndpoints
      BY <3>1 DEF LiveEndpoints
    <3>3. endpoints' = [endpoints EXCEPT ![e] = row]
      BY <1>0, <2>3, <3>1 DEF DeleteEndpoint, TablesInv, LiveEndpoints
    <3> HIDE DEF row
    <3> QED
      BY <1>0, <2>3, <3>2, <3>3, EndpointWritten DEF DeleteEndpoint
  <2> QED
    BY <2>1, <2>2, <2>3
<1> QED
  BY <1>1, <1>2, JobsMoveKeeps

LEMMA EndUpdateKeeps ==
    ASSUME DeliveryInv, NEW edit \in edits, EndUpdate(edit)
    PROVE  DeliveryInv' /\ DeliveriesStep
<1>0. /\ TablesInv /\ edit \in Edits /\ endpoints[edit.e] \in LiveEndpoints
      /\ edit.e \in Endpoints /\ edit.status \in {"active", "disabled"} /\ edit.url \in Urls
  BY DEF DeliveryInv, TablesInv, Edits
<1>1. JobsMove(Notes) /\ UNCHANGED deliveries
  BY QuietMoves DEF EndUpdate, runVars
<1> DEFINE row == [endpoints[edit.e] EXCEPT !.status = edit.status, !.url = edit.url]
<1>2. row \in LiveEndpoints
  BY <1>0 DEF LiveEndpoints
<1>3. endpoints' = [endpoints EXCEPT ![edit.e] = row]
  BY <1>0 DEF EndUpdate, TablesInv, LiveEndpoints
<1>4. edits' \subseteq edits /\ UNCHANGED <<deliveries, circuit>>
  BY DEF EndUpdate
<1> HIDE DEF row
<1>5. TablesInv'
  BY <1>0, <1>2, <1>3, <1>4, EndpointWritten
<1> QED
  BY <1>1, <1>5, JobsMoveKeeps

-----------------------------------------------------------------------------
(* Workers                                                                 *)

LEMMA WorkersKeep ==
    ASSUME DeliveryInv, NEW p \in Workers, Polls(p) \/ CircuitCloses(p) \/ Dies(p)
    PROVE  DeliveryInv' /\ DeliveriesStep
<1>0. JobsInv(Notes) /\ TablesInv /\ circuit \in [Workers -> Circuits] /\ <<>> \in Notes
  BY DEF DeliveryInv, TablesInv, Notes
<1>1. CASE Polls(p)
  <2>1. JobsMove(Notes)
    BY <1>0, <1>1, PollMoves DEF Polls
  <2>2. TablesInv' /\ UNCHANGED deliveries
    BY <1>0, <1>1 DEF Polls, TablesInv, webhookVars
  <2> QED
    BY <2>1, <2>2, JobsMoveKeeps
<1>2. CASE CircuitCloses(p)
  <2>1. JobsMove(Notes)
    BY <1>2, QuietMoves DEF CircuitCloses, runVars
  <2>2. [circuit[p] EXCEPT !.open = FALSE] \in Circuits
    BY <1>0 DEF Circuits
  <2>3. circuit' \in [Workers -> Circuits]
    BY <1>0, <1>2, <2>2 DEF CircuitCloses
  <2>4. TablesInv' /\ UNCHANGED deliveries
    BY <1>0, <1>2, <2>3 DEF CircuitCloses, TablesInv
  <2> QED
    BY <2>1, <2>4, JobsMoveKeeps
<1>3. CASE Dies(p)
  <2>1. faults' \in 0..MaxFaults
    BY <1>0, <1>3, FaultCounted DEF Dies, JobsInv
  <2>2. JobsMove(Notes)
    BY <1>0, <1>3, <2>1, KillMoves DEF Dies
  <2>3. circuit' \in [Workers -> Circuits]
    BY <1>0, <1>3, FailedType DEF Dies
  <2>4. TablesInv' /\ UNCHANGED deliveries
    BY <1>0, <1>3, <2>3 DEF Dies, TablesInv
  <2> QED
    BY <2>2, <2>4, JobsMoveKeeps
<1> QED
  BY <1>1, <1>2, <1>3

\* A step of the queue that leaves the tables of the webhooks alone.
LEMMA QueueKeeps ==
    ASSUME DeliveryInv, UNCHANGED webhookVars,
           JobStep \/ (\E r \in runs : FailThrows(r)) \/ UNCHANGED runVars
    PROVE  DeliveryInv' /\ DeliveriesStep
<1>0. JobsInv(Notes) /\ TablesInv
  BY DEF DeliveryInv
<1>1. JobsMove(Notes)
  BY <1>0, JobStepMoves, FailThrowsMoves, QuietMoves DEF runVars
<1>2. TablesInv' /\ UNCHANGED deliveries
  BY <1>0 DEF TablesInv, webhookVars
<1> QED
  BY <1>1, <1>2, JobsMoveKeeps

-----------------------------------------------------------------------------
(* The theorems                                                            *)

\* The invariant is inductive, and rows only change as they may.
LEMMA DeliveryInvNext ==
    ASSUME DeliveryInv, [Next]_vars
    PROVE  DeliveryInv' /\ DeliveriesStep
<1>1. CASE UNCHANGED vars
  BY <1>1, QueueKeeps DEF vars
<1>2. CASE JobStep /\ UNCHANGED webhookVars
  BY <1>2, QueueKeeps
<1>3. CASE \E r \in runs : FailThrows(r) /\ UNCHANGED webhookVars
  BY <1>3, QueueKeeps
<1>4. CASE \E p \in Workers : Polls(p) \/ CircuitCloses(p) \/ Dies(p)
  BY <1>4, WorkersKeep
<1>5. CASE \E r \in runs : DeliverStep(r) \/ ReadFails(r) \/ RecordFails(r)
  BY <1>5, ReadDeliveryKeeps, ReadFailsKeeps, SendKeeps, RecordResultKeeps, RecordFailsKeeps
     DEF DeliverStep
<1>6. CASE \E d \in DOMAIN deliveries : RetryDelivery(d) \/ RetentionOfDelivery(d)
  BY <1>6, RetryDeliveryKeeps, RetentionOfDeliveryKeeps
<1>7. CASE \E j \in DOMAIN jobs : RetentionOfJob(j)
  BY <1>7, RetentionOfJobKeeps
<1>8. CASE \E e \in Endpoints : CreateEndpoint(e) \/ BeginUpdate(e) \/ DeleteEndpoint(e)
  BY <1>8, EndpointsKeep
<1>9. CASE \E edit \in edits : EndUpdate(edit)
  BY <1>9, EndUpdateKeeps
<1>10. CASE CreateEvent
  BY <1>10, CreateEventKeeps
<1> QED
  BY <1>1, <1>2, <1>3, <1>4, <1>5, <1>6, <1>7, <1>8, <1>9, <1>10 DEF Next

LEMMA DeliveryInvInit == Init => DeliveryInv
<1> SUFFICES ASSUME Init PROVE DeliveryInv
  OBVIOUS
<1>1. /\ jobs \in Seq(JobRows) /\ DOMAIN jobs = {}
      /\ deliveries \in Seq(DeliveryRows) /\ DOMAIN deliveries = {}
  BY DEF Init, RunInit
<1>2. JobsInv(Notes)
  BY <1>1, BoundsAreNumbers DEF Init, RunInit, JobsInv
<1>3. Closed \in Circuits
  BY LimitsAreNumbers DEF Closed, Circuits
<1>4. TablesInv
  BY <1>1, <1>3 DEF Init, TablesInv
<1> QED
  BY <1>1, <1>2, <1>4 DEF DeliveryInv, LinksInv, RunsInv, RecoverInv, Init, RunInit

\* Jobs are about rows that exist, a run under way knows what it read, and an
\* undecided delivery has a job whose runs know it as it is.
THEOREM DeliveryInvAlways == Spec => []DeliveryInv
<1>1. DeliveryInv /\ [Next]_vars => DeliveryInv'
  BY DeliveryInvNext
<1> QED
  BY <1>1, DeliveryInvInit, PTL DEF Spec

\* Rows, runs, statuses and counters of the circuits are well formed.
THEOREM TypeCorrect == Spec => []TypeOK
<1>1. DeliveryInv => TypeOK
  <2> SUFFICES ASSUME DeliveryInv PROVE TypeOK
    OBVIOUS
  <2>1. JobsTypeOK
    BY JobsInvTypes DEF DeliveryInv
  <2>2. \A j \in DOMAIN jobs : jobs[j].payload \in Transactions \cup DOMAIN deliveries
    BY DEF DeliveryInv, LinksInv
  <2>3. \A r \in runs : r.work \in {"start", "send", "ok", "bad", "inactive", "end"}
    BY DEF DeliveryInv, JobsInv, RunRecords
  <2>4. \A d \in DOMAIN deliveries : deliveries[d] \in DeliveryRows
    BY DEF DeliveryInv, TablesInv
  <2>5. \A p \in Workers : circuit[p] \in Circuits
    BY DEF DeliveryInv, TablesInv
  <2> QED
    BY <2>1, <2>2, <2>3, <2>4, <2>5 DEF TypeOK, DeliveryRows, DeliveryStatuses, Circuits
<1> QED
  BY <1>1, DeliveryInvAlways, PTL

\* No interleaving of workers, retries, deadlines, crashes and failing
\* transactions leaves an undecided delivery without a job
\* (deliverWebhookDelivery, recordDeliveryResult).
THEOREM UndecidedIsRecoverableAlways == Spec => []UndecidedIsRecoverable
<1>1. DeliveryInv => UndecidedIsRecoverable
  BY DEF DeliveryInv, RecoverInv, UndecidedIsRecoverable, JobsOf, Kept
<1> QED
  BY <1>1, DeliveryInvAlways, PTL

\* Of the addresses whose class the code recognises, every request of a delivery
\* and every hop of its redirects goes to a public one, whatever the resolver
\* answers (resolveAllowedTarget, fetchWebhookUrl).
THEOREM RecognisedContactsPublicAlways == Spec => []RecognisedContactsPublic
<1>1. DeliveryInv => RecognisedContactsPublic
  <2> SUFFICES ASSUME DeliveryInv, NEW r \in runs, r.work \in {"send", "ok", "bad"},
                      r.note.to # <<>>
               PROVE  Recognised(r.note.to[1]) => ~IsSpecial(r.note.to[1])
    BY DEF RecognisedContactsPublic, Contacted
  <2>1. r.note \in NoteRecords
    BY DEF DeliveryInv, RunsInv, Working
  <2>2. r.note.to \in Seq(AllowedAddresses)
    BY <2>1 DEF NoteRecords
  <2>3. r.note.to[1] \in AllowedAddresses
    BY <2>2
  <2> QED
    BY <2>3 DEF AllowedAddresses
<1> QED
  BY <1>1, DeliveryInvAlways, PTL

\* No late result, failing transaction or manual retry takes a delivery back,
\* and each recorded attempt counts once (updateWebhookDeliveryResult).
THEOREM DeliveredStaysAlways == Spec => DeliveredStays
<1>1. DeliveryInv /\ [Next]_vars =>
        [\A d \in DOMAIN deliveries :
          /\ deliveries[d].status = "DELIVERED" => deliveries'[d].status \in {"DELIVERED", "DELETED"}
          /\ deliveries[d].status = "DELETED" => deliveries'[d] = deliveries[d]
          /\ deliveries'[d].attempts \in {deliveries[d].attempts, deliveries[d].attempts + 1}
        ]_deliveries
  BY DeliveryInvNext DEF DeliveriesStep, RowStep
<1> QED
  BY <1>1, DeliveryInvAlways, PTL DEF Spec, DeliveredStays
=============================================================================
