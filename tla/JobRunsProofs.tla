---------------------------- MODULE JobRunsProofs ----------------------------
(***************************************************************************)
(* What any step of the job queue and its runs may do, for every number of *)
(* workers, jobs and faults.                                               *)
(*                                                                         *)
(* A step leaves finished rows alone, moves active ones between active and *)
(* finished, and appends at most one row; a row is completed only by a run *)
(* that means to complete it.  WorkerLoopProofs and WebhookDeliveryProofs  *)
(* build on this summary (JobsMove) rather than on the actions.            *)
(***************************************************************************)
EXTENDS JobRuns, SequenceTheorems, TLAPS

-----------------------------------------------------------------------------
(* Rows and runs                                                           *)

\* Payloads and dedupe keys of reconciliation jobs and of webhook deliveries.
Payloads == Transactions \cup Nat
Keys == {NoKey} \cup Transactions \cup (Nat \X Nat)

JobStatuses == JobActive \cup JobTerminal \cup JobDeleted
JobRows ==
    [payload: Payloads, key: Keys, status: JobStatuses, attempts: Nat, max: Nat,
     lockedBy: Workers \cup {NoWorker}, lease: {"none", "live", "expired"},
     replay: BOOLEAN]

\* notes: what the work of a run may remember.
RunRecords(notes) ==
    [p: Workers, j: Nat, n: Nat, side: {"await", "complete", "defer", "fail", "done"},
     work: {"start", "send", "ok", "bad", "inactive", "end"}, cyc: BOOLEAN, note: notes]

JobsInv(notes) ==
    /\ jobs \in Seq(JobRows)
    /\ runs \subseteq RunRecords(notes)
    /\ \A r \in runs : r.j \in DOMAIN jobs
    /\ faults \in 0..MaxFaults
    /\ requests \in 0..MaxRequests

LEMMA JobsInvTypes ==
    ASSUME NEW notes, JobsInv(notes)
    PROVE  JobsTypeOK
<1>1. \A j \in DOMAIN jobs : jobs[j] \in JobRows
  BY DEF JobsInv
<1>2. \A r \in runs : r \in RunRecords(notes)
  BY DEF JobsInv
<1> QED
  BY <1>1, <1>2 DEF JobsInv, JobsTypeOK, JobRows, JobStatuses, RunRecords

-----------------------------------------------------------------------------
(* What a step may do                                                      *)

\* A row moves: it keeps what it is about, gives its key up only when it is
\* not active any more, and leaves a finished status never.
RowMoves(a, b) ==
    /\ b.payload = a.payload /\ b.replay = a.replay
    /\ b.key = a.key \/ (b.key = NoKey /\ b.status \notin JobActive)
    /\ IF a.status \in JobActive THEN b.status \in JobActive \cup JobTerminal
                                 ELSE b.status = a.status

RowsMove ==
    /\ jobs' \in Seq(JobRows)
    /\ Len(jobs') \in {Len(jobs), Len(jobs) + 1}
    /\ \A j \in DOMAIN jobs :
          /\ RowMoves(jobs[j], jobs'[j])
          /\ jobs'[j].status = "COMPLETED" =>
                \/ jobs[j].status = "COMPLETED"
                \/ \E r \in runs : r.j = j /\ r.side = "complete"

\* An appended row is a replay, or the only one with its key.
RowAppended ==
    \A j \in DOMAIN jobs' \ DOMAIN jobs :
        \/ /\ jobs'[j].replay /\ jobs'[j].key = NoKey
           /\ \E i \in DOMAIN jobs : jobs'[j].payload = jobs[i].payload
        \/ /\ jobs'[j].payload \in Transactions
           /\ jobs'[j].key = jobs'[j].payload
           /\ \A i \in DOMAIN jobs : jobs'[i].key # jobs'[j].key

\* A run goes on, or ends work that is no delivery, or has just been started.
RunFollows(s) ==
    \/ \E r \in runs :
          /\ s.p = r.p /\ s.j = r.j /\ s.note = r.note
          /\ \/ s.work = r.work /\ (s.side = "complete" => r.side = "complete")
             \/ jobs[r.j].payload \in Transactions /\ s.work = "end"
    \/ s.work = "start" /\ s.side = "await" /\ s.note = <<>>

JobsMove(notes) ==
    /\ RowsMove
    /\ RowAppended
    /\ \A s \in runs' : RunFollows(s) /\ s.j \in DOMAIN jobs
    /\ JobsInv(notes)'

-----------------------------------------------------------------------------
(* Operations on rows                                                      *)

LEMMA RowKept == \A a : RowMoves(a, a)
BY DEF RowMoves, JobActive, JobTerminal

\* The row that its worker lets go.
LEMMA Unlocked ==
    ASSUME NEW a \in JobRows, NEW status \in JobStatuses, NEW key \in Keys
    PROVE  /\ Unlock(a, status, key) \in JobRows
           /\ Unlock(a, status, key).status = status
           /\ Unlock(a, status, key).key = key
           /\ Unlock(a, status, key).payload = a.payload
           /\ Unlock(a, status, key).replay = a.replay
BY DEF Unlock, JobRows

LEMMA UnlockedMoves ==
    ASSUME NEW a \in JobRows, a.status = "RUNNING"
    PROVE  /\ RowMoves(a, Unlock(a, "COMPLETED", NoKey))
           /\ RowMoves(a, Unlock(a, "DEAD_LETTER", NoKey))
           /\ RowMoves(a, Unlock(a, "RETRY", a.key))
           /\ Unlock(a, "COMPLETED", NoKey) \in JobRows
           /\ Unlock(a, "DEAD_LETTER", NoKey) \in JobRows
           /\ Unlock(a, "RETRY", a.key) \in JobRows
           /\ Unlock(a, "DEAD_LETTER", NoKey).status = "DEAD_LETTER"
           /\ Unlock(a, "RETRY", a.key).status = "RETRY"
<1>1. a.key \in Keys /\ NoKey \in Keys
  BY DEF JobRows, Keys
<1>2. {"COMPLETED", "DEAD_LETTER", "RETRY"} \subseteq JobStatuses
  BY DEF JobStatuses, JobActive, JobTerminal
<1>3. \A status \in {"COMPLETED", "DEAD_LETTER"} :
        LET b == Unlock(a, status, NoKey)
        IN  /\ b \in JobRows /\ b.status = status /\ b.key = NoKey
            /\ b.payload = a.payload /\ b.replay = a.replay
  BY <1>1, <1>2, Unlocked
<1>4. LET b == Unlock(a, "RETRY", a.key)
      IN  /\ b \in JobRows /\ b.status = "RETRY" /\ b.key = a.key
          /\ b.payload = a.payload /\ b.replay = a.replay
  BY <1>1, <1>2, Unlocked
<1> QED
  BY <1>3, <1>4 DEF RowMoves, JobActive, JobTerminal

LEMMA NewJobRow ==
    ASSUME NEW payload \in Payloads, NEW key \in Keys, NEW max \in Nat,
           NEW replay \in BOOLEAN
    PROVE  /\ NewJob(payload, key, max, replay) \in JobRows
           /\ NewJob(payload, key, max, replay).payload = payload
           /\ NewJob(payload, key, max, replay).key = key
           /\ NewJob(payload, key, max, replay).replay = replay
           /\ NewJob(payload, key, max, replay).status = "QUEUED"
BY DEF NewJob, JobRows, JobStatuses, JobActive

\* One row of the table is written.
LEMMA RowWritten ==
    ASSUME jobs \in Seq(JobRows), NEW j \in DOMAIN jobs, NEW b \in JobRows,
           RowMoves(jobs[j], b), jobs' = [jobs EXCEPT ![j] = b],
           b.status = "COMPLETED" => \/ jobs[j].status = "COMPLETED"
                                     \/ \E r \in runs : r.j = j /\ r.side = "complete"
    PROVE  RowsMove /\ RowAppended
<1>1. jobs' \in Seq(JobRows) /\ Len(jobs') = Len(jobs) /\ DOMAIN jobs' = DOMAIN jobs
  OBVIOUS
<1>2. \A i \in DOMAIN jobs : jobs'[i] = IF i = j THEN b ELSE jobs[i]
  OBVIOUS
<1> QED
  BY <1>1, <1>2, RowKept DEF RowsMove, RowAppended

LEMMA RowsUntouched ==
    ASSUME jobs \in Seq(JobRows), jobs' = jobs
    PROVE  RowsMove /\ RowAppended
BY RowKept DEF RowsMove, RowAppended

-----------------------------------------------------------------------------
(* Operations on runs                                                      *)

LEMMA PutRun == ASSUME NEW r, NEW s, NEW t \in Put(r, s) PROVE t \in runs \/ t = s
BY DEF Put

\* A run that goes on leaves the others as they are.
LEMMA RunPut ==
    ASSUME NEW notes, JobsInv(notes), NEW r \in runs, NEW s \in RunRecords(notes),
           s.p = r.p, s.j = r.j, s.note = r.note,
           \/ s.work = r.work /\ (s.side = "complete" => r.side = "complete")
           \/ jobs[r.j].payload \in Transactions /\ s.work = "end",
           runs' = Put(r, s)
    PROVE  /\ runs' \subseteq RunRecords(notes)
           /\ \A t \in runs' : RunFollows(t) /\ t.j \in DOMAIN jobs
<1>1. \A t \in runs' : t \in runs \/ t = s
  BY PutRun
<1> QED
  BY <1>1 DEF RunFollows, JobsInv

LEMMA RunsUntouched ==
    ASSUME NEW notes, JobsInv(notes), runs' \subseteq runs
    PROVE  /\ runs' \subseteq RunRecords(notes)
           /\ \A t \in runs' : RunFollows(t) /\ t.j \in DOMAIN jobs
BY DEF RunFollows, JobsInv

\* The parts of a step make the whole.
LEMMA StepComposed ==
    ASSUME NEW notes, JobsInv(notes), RowsMove, RowAppended,
           runs' \subseteq RunRecords(notes),
           \A t \in runs' : RunFollows(t) /\ t.j \in DOMAIN jobs,
           faults' \in 0..MaxFaults, requests' \in 0..MaxRequests
    PROVE  JobsMove(notes)
<1>1. DOMAIN jobs \subseteq DOMAIN jobs'
  BY DEF RowsMove, JobsInv
<1> QED
  BY <1>1 DEF JobsMove, JobsInv, RowsMove

LEMMA FaultCounted ==
    ASSUME faults \in 0..MaxFaults
    PROVE  /\ \A kind : Fault(kind) => faults' \in 0..MaxFaults
           /\ NoFault => faults' \in 0..MaxFaults
BY BoundsAreNumbers DEF Fault, NoFault

LEMMA RequestCounted ==
    ASSUME requests \in 0..MaxRequests, Request
    PROVE  requests' \in 0..MaxRequests
BY BoundsAreNumbers DEF Request

-----------------------------------------------------------------------------
(* The steps                                                               *)

LEMMA DeadlineMoves ==
    ASSUME NEW notes, JobsInv(notes), NEW r \in runs, Deadline(r)
    PROVE  JobsMove(notes)
<1> DEFINE s == [r EXCEPT !.side = "fail"]
<1>1. r \in RunRecords(notes)
  BY DEF JobsInv
<1>2. /\ s \in RunRecords(notes) /\ s.p = r.p /\ s.j = r.j /\ s.note = r.note
      /\ s.work = r.work /\ s.side # "complete"
  BY <1>1 DEF RunRecords
<1>3. runs' = Put(r, s) /\ jobs' = jobs /\ requests' = requests
  BY DEF Deadline
<1>4. faults' \in 0..MaxFaults
  BY FaultCounted DEF Deadline, JobsInv
<1> HIDE DEF s
<1>5. RowsMove /\ RowAppended
  BY <1>3, RowsUntouched DEF JobsInv
<1> QED
  BY <1>2, <1>3, <1>4, <1>5, RunPut, StepComposed DEF JobsInv

LEMMA SettleMoves ==
    ASSUME NEW notes, JobsInv(notes), NEW r \in runs, Settle(r)
    PROVE  JobsMove(notes)
<1> DEFINE done == [r EXCEPT !.side = "done", !.cyc = FALSE]
           fail == [r EXCEPT !.side = "fail"]
<1>1. r \in RunRecords(notes) /\ r.j \in DOMAIN jobs
  BY DEF JobsInv
<1>2. /\ done \in RunRecords(notes) /\ done.p = r.p /\ done.j = r.j
      /\ done.note = r.note /\ done.work = r.work /\ done.side # "complete"
  BY <1>1 DEF RunRecords
<1>3. /\ fail \in RunRecords(notes) /\ fail.p = r.p /\ fail.j = r.j
      /\ fail.note = r.note /\ fail.work = r.work /\ fail.side # "complete"
  BY <1>1 DEF RunRecords
<1>4. faults' \in 0..MaxFaults /\ requests' = requests
  BY FaultCounted DEF Settle, JobsInv
<1>5. CASE /\ Owns(r.j, r.p) /\ runs' = Put(r, done)
           /\ jobs' = IF r.side = "complete" THEN completeJob(r.j) ELSE deferJob(r.j)
  <2> HIDE DEF done, fail
  <2>1. jobs[r.j] \in JobRows /\ jobs[r.j].status = "RUNNING"
    BY <1>1, <1>5 DEF JobsInv, Owns
  <2>2. CASE r.side = "complete"
    <3>1. jobs' = [jobs EXCEPT ![r.j] = Unlock(jobs[r.j], "COMPLETED", NoKey)]
      BY <1>5, <2>2 DEF completeJob
    <3>2. RowsMove /\ RowAppended
      BY <1>1, <2>1, <2>2, <3>1, UnlockedMoves, RowWritten DEF JobsInv
    <3> QED
      BY <1>2, <1>4, <1>5, <3>2, RunPut, StepComposed DEF JobsInv
  <2>3. CASE r.side # "complete"
    <3>1. jobs' = [jobs EXCEPT ![r.j] = Unlock(jobs[r.j], "RETRY", jobs[r.j].key)]
      BY <1>5, <2>3 DEF deferJob
    <3>2. RowsMove /\ RowAppended
      BY <1>1, <2>1, <3>1, UnlockedMoves, RowWritten DEF JobsInv
    <3> QED
      BY <1>2, <1>4, <1>5, <3>2, RunPut, StepComposed DEF JobsInv
  <2> QED
    BY <2>2, <2>3
<1>6. CASE runs' = Put(r, fail) /\ jobs' = jobs
  <2> HIDE DEF done, fail
  <2>1. RowsMove /\ RowAppended
    BY <1>6, RowsUntouched DEF JobsInv
  <2> QED
    BY <1>3, <1>4, <1>6, <2>1, RunPut, StepComposed DEF JobsInv
<1> QED
  BY <1>5, <1>6 DEF Settle

LEMMA FailMoves ==
    ASSUME NEW notes, JobsInv(notes), NEW r \in runs, Fail(r)
    PROVE  JobsMove(notes)
<1> DEFINE done == [r EXCEPT !.side = "done", !.cyc = FALSE]
           row == IF r.n >= jobs[r.j].max
                  THEN Unlock(jobs[r.j], "DEAD_LETTER", NoKey)
                  ELSE Unlock(jobs[r.j], "RETRY", jobs[r.j].key)
<1>1. r \in RunRecords(notes) /\ r.j \in DOMAIN jobs
  BY DEF JobsInv
<1>2. /\ done \in RunRecords(notes) /\ done.p = r.p /\ done.j = r.j
      /\ done.note = r.note /\ done.work = r.work /\ done.side # "complete"
  BY <1>1 DEF RunRecords
<1>3. jobs' = [jobs EXCEPT ![r.j] = row] /\ runs' = Put(r, done)
  BY DEF Fail, failJob
<1>4. jobs[r.j] \in JobRows /\ jobs[r.j].status = "RUNNING"
  BY <1>1 DEF Fail, Owns, JobsInv
<1>5. row \in JobRows /\ RowMoves(jobs[r.j], row) /\ row.status # "COMPLETED"
  BY <1>4, UnlockedMoves
<1> HIDE DEF done, row
<1>6. RowsMove /\ RowAppended
  BY <1>1, <1>3, <1>5, RowWritten DEF JobsInv
<1> QED
  BY <1>2, <1>3, <1>6, RunPut, StepComposed DEF JobsInv, Fail

LEMMA FailThrowsMoves ==
    ASSUME NEW notes, JobsInv(notes), NEW r \in runs, FailThrows(r)
    PROVE  JobsMove(notes)
<1> DEFINE done == [r EXCEPT !.side = "done", !.cyc = FALSE]
           apart(s) == IF r.cyc /\ s.p = r.p THEN [s EXCEPT !.cyc = FALSE] ELSE s
<1>1. r \in RunRecords(notes)
  BY DEF JobsInv
<1>2. /\ done \in RunRecords(notes) /\ done.p = r.p /\ done.j = r.j
      /\ done.note = r.note /\ done.work = r.work /\ done.side # "complete"
  BY <1>1 DEF RunRecords
<1>3. \A s \in RunRecords(notes) :
        /\ apart(s) \in RunRecords(notes) /\ apart(s).p = s.p /\ apart(s).j = s.j
        /\ apart(s).note = s.note /\ apart(s).work = s.work /\ apart(s).side = s.side
  BY DEF RunRecords
<1>4. runs' = {apart(s) : s \in Put(r, done)} /\ jobs' = jobs /\ requests' = requests
  BY DEF FailThrows
<1>5. faults' \in 0..MaxFaults
  BY FaultCounted DEF FailThrows, JobsInv
<1>6. RowsMove /\ RowAppended
  BY <1>4, RowsUntouched DEF JobsInv
<1> HIDE DEF done, apart
<1>7. \A t \in runs' : \E s \in runs \cup {done} : t = apart(s)
  BY <1>4, PutRun
<1>8. runs' \subseteq RunRecords(notes)
  BY <1>2, <1>3, <1>7 DEF JobsInv
<1>9. ASSUME NEW t \in runs' PROVE RunFollows(t) /\ t.j \in DOMAIN jobs
  <2>1. PICK s \in runs \cup {done} : t = apart(s)
    BY <1>7
  <2>2. s \in RunRecords(notes)
    BY <1>2 DEF JobsInv
  <2>3. CASE s \in runs
    BY <1>3, <2>1, <2>2, <2>3 DEF RunFollows, JobsInv
  <2>4. CASE s = done
    BY <1>2, <1>3, <2>1, <2>2, <2>4 DEF RunFollows, JobsInv
  <2> QED
    BY <2>3, <2>4
<1> QED
  BY <1>4, <1>5, <1>6, <1>8, <1>9, StepComposed DEF JobsInv

\* Leases change nothing that shows.
LEMMA LeaseMoves ==
    ASSUME NEW notes, JobsInv(notes), NEW j \in DOMAIN jobs,
           NEW lease \in {"live", "expired"}, jobs' = [jobs EXCEPT ![j].lease = lease],
           UNCHANGED <<runs, requests>>, faults' \in 0..MaxFaults
    PROVE  JobsMove(notes)
<1> DEFINE row == [jobs[j] EXCEPT !.lease = lease]
<1>1. jobs[j] \in JobRows
  BY DEF JobsInv
<1>2. row \in JobRows /\ RowMoves(jobs[j], row) /\ row.status = jobs[j].status
  BY <1>1 DEF JobRows, RowMoves, JobActive, JobTerminal
<1>3. jobs' = [jobs EXCEPT ![j] = row]
  OBVIOUS
<1> HIDE DEF row
<1>4. RowsMove /\ RowAppended
  BY <1>2, <1>3, RowWritten DEF JobsInv
<1> QED
  BY <1>4, RunsUntouched, StepComposed DEF JobsInv

LEMMA ReconcileMoves ==
    ASSUME NEW notes, JobsInv(notes), NEW r \in runs, Reconcile(r)
    PROVE  JobsMove(notes)
<1>1. PICK outcome \in {"complete", "defer", "fail"} : runs' = WorkEnds(r, outcome)
  BY DEF Reconcile
<1> DEFINE s == [r EXCEPT !.work = "end", !.side = IF @ = "await" THEN outcome ELSE @]
<1>2. r \in RunRecords(notes)
  BY DEF JobsInv
<1>3. /\ s \in RunRecords(notes) /\ s.p = r.p /\ s.j = r.j /\ s.note = r.note
      /\ s.work = "end"
  BY <1>2 DEF RunRecords
<1>4. runs' = Put(r, s)
  BY <1>1 DEF WorkEnds
<1> HIDE DEF s
<1>5. RowsMove /\ RowAppended
  BY RowsUntouched DEF JobsInv, Reconcile
<1> QED
  BY <1>3, <1>4, <1>5, RunPut, StepComposed DEF JobsInv, Reconcile

\* An appended row disturbs no other.
LEMMA Appended ==
    ASSUME NEW q \in Seq(JobRows), NEW row \in JobRows
    PROVE  /\ Append(q, row) \in Seq(JobRows) /\ Len(Append(q, row)) = Len(q) + 1
           /\ DOMAIN Append(q, row) = DOMAIN q \cup {Len(q) + 1}
           /\ Append(q, row)[Len(q) + 1] = row
           /\ \A j \in DOMAIN q : Append(q, row)[j] = q[j]
<1>1. Append(q, row) \in Seq(JobRows) /\ Len(Append(q, row)) = Len(q) + 1
  BY AppendProperties
<1>2. DOMAIN Append(q, row) = 1..(Len(q) + 1) /\ DOMAIN q = 1..Len(q) /\ Len(q) \in Nat
  BY <1>1
<1> QED
  BY <1>1, <1>2, AppendProperties

LEMMA ReplayMoves ==
    ASSUME NEW notes, JobsInv(notes), NEW j \in DOMAIN jobs, Replay(j)
    PROVE  JobsMove(notes)
<1> DEFINE row == NewJob(jobs[j].payload, NoKey, jobs[j].max, TRUE)
<1>1. jobs[j] \in JobRows /\ jobs \in Seq(JobRows)
  BY DEF JobsInv
<1>2. jobs[j].payload \in Payloads /\ NoKey \in Keys /\ jobs[j].max \in Nat
  BY <1>1 DEF JobRows, Keys
<1>3. /\ row \in JobRows /\ row.payload = jobs[j].payload /\ row.replay
      /\ row.key = NoKey
  BY <1>2, NewJobRow
<1>4. jobs' = Append(jobs, row)
  BY DEF Replay, replayJob
<1> HIDE DEF row
<1>5. RowsMove
  BY <1>1, <1>3, <1>4, Appended, RowKept DEF RowsMove
<1>6. RowAppended
  BY <1>1, <1>3, <1>4, Appended DEF RowAppended
<1> QED
  BY <1>5, <1>6, RunsUntouched, StepComposed, RequestCounted DEF JobsInv, Replay

-----------------------------------------------------------------------------
(* enqueueJob                                                              *)

\* enqueueJob keeps the table when an active row holds the key; otherwise it
\* appends a row and no other holds its key any more.
LEMMA Enqueued ==
    ASSUME jobs \in Seq(JobRows), NEW payload \in Payloads, NEW key \in Keys,
           NEW max \in Nat, jobs' = enqueueJob(jobs, payload, key, max)
    PROVE  \/ /\ jobs' = jobs /\ key # NoKey
              /\ \E j \in DOMAIN jobs : jobs[j].key = key /\ jobs[j].status \in JobActive
           \/ /\ jobs' \in Seq(JobRows) /\ Len(jobs') = Len(jobs) + 1
              /\ DOMAIN jobs' = DOMAIN jobs \cup {Len(jobs) + 1}
              /\ jobs'[Len(jobs) + 1] = NewJob(payload, key, max, FALSE)
              /\ \A j \in DOMAIN jobs :
                    /\ RowMoves(jobs[j], jobs'[j]) /\ jobs'[j].status = jobs[j].status
                    /\ key = NoKey \/ jobs'[j].key # key
<1> DEFINE holders == {j \in DOMAIN jobs : key # NoKey /\ jobs[j].key = key}
           job == NewJob(payload, key, max, FALSE)
           cleared(j) == IF j \in holders THEN [jobs[j] EXCEPT !.key = NoKey] ELSE jobs[j]
           q == [j \in DOMAIN jobs |-> cleared(j)]
<1>1. CASE \E j \in holders : jobs[j].status \in JobActive
  BY <1>1 DEF enqueueJob
<1>2. CASE ~ \E j \in holders : jobs[j].status \in JobActive
  <2>1. jobs' = Append(q, job)
    BY <1>2 DEF enqueueJob
  <2>2. job \in JobRows
    BY NewJobRow
  <2>3. ASSUME NEW j \in DOMAIN jobs
        PROVE  /\ cleared(j) \in JobRows /\ RowMoves(jobs[j], cleared(j))
               /\ cleared(j).status = jobs[j].status
               /\ key = NoKey \/ cleared(j).key # key
    <3>1. jobs[j] \in JobRows
      OBVIOUS
    <3>2. CASE j \in holders
      BY <1>2, <3>1, <3>2 DEF JobRows, Keys, RowMoves
    <3>3. CASE j \notin holders
      BY <3>1, <3>3, RowKept
    <3> QED
      BY <3>2, <3>3
  <2> HIDE DEF job, holders
  <2>4. \A j \in DOMAIN jobs : cleared(j) \in JobRows
    BY <2>3
  <2>5. q \in Seq(JobRows) /\ Len(q) = Len(jobs) /\ DOMAIN q = DOMAIN jobs
    BY <2>4
  <2>6. \A j \in DOMAIN jobs : jobs'[j] = cleared(j)
    BY <2>1, <2>2, <2>5, Appended
  <2>7. /\ jobs' \in Seq(JobRows) /\ Len(jobs') = Len(jobs) + 1
        /\ DOMAIN jobs' = DOMAIN jobs \cup {Len(jobs) + 1}
        /\ jobs'[Len(jobs) + 1] = job
    BY <2>1, <2>2, <2>5, Appended
  <2> HIDE DEF cleared, q
  <2>8. \A j \in DOMAIN jobs :
          /\ RowMoves(jobs[j], jobs'[j]) /\ jobs'[j].status = jobs[j].status
          /\ key = NoKey \/ jobs'[j].key # key
    BY <2>3, <2>6
  <2> QED
    BY <2>7, <2>8 DEF job
<1> QED
  BY <1>1, <1>2

LEMMA EnqueueReconciliationMoves ==
    ASSUME NEW notes, JobsInv(notes), NEW t \in Transactions, EnqueueReconciliation(t)
    PROVE  JobsMove(notes)
<1>1. jobs' = enqueueJob(jobs, t, t, DefaultMaxAttempts) /\ jobs \in Seq(JobRows)
  BY DEF EnqueueReconciliation, JobsInv
<1>2. t \in Payloads /\ t \in Keys /\ t # NoKey /\ DefaultMaxAttempts \in Nat
  BY BoundsAreNumbers, NoKeyFresh DEF Payloads, Keys
<1>3. CASE jobs' = jobs
  BY <1>3, RowsUntouched, RunsUntouched, StepComposed, RequestCounted
     DEF JobsInv, EnqueueReconciliation
<1>4. CASE /\ jobs' \in Seq(JobRows) /\ Len(jobs') = Len(jobs) + 1
           /\ DOMAIN jobs' = DOMAIN jobs \cup {Len(jobs) + 1}
           /\ jobs'[Len(jobs) + 1] = NewJob(t, t, DefaultMaxAttempts, FALSE)
           /\ \A j \in DOMAIN jobs :
                 /\ RowMoves(jobs[j], jobs'[j]) /\ jobs'[j].status = jobs[j].status
                 /\ t = NoKey \/ jobs'[j].key # t
  <2>1. RowsMove
    BY <1>4 DEF RowsMove
  <2>2. RowAppended
    <3> DEFINE row == NewJob(t, t, DefaultMaxAttempts, FALSE)
    <3>1. row.payload = t /\ row.key = t
      BY <1>2, NewJobRow
    <3> HIDE DEF row
    <3>2. \A j \in DOMAIN jobs' \ DOMAIN jobs : jobs'[j] = row
      BY <1>4 DEF row
    <3>3. \A i \in DOMAIN jobs : jobs'[i].key # t
      BY <1>2, <1>4
    <3> QED
      BY <3>1, <3>2, <3>3 DEF RowAppended
  <2> QED
    BY <2>1, <2>2, RunsUntouched, StepComposed, RequestCounted
       DEF JobsInv, EnqueueReconciliation
<1> QED
  BY <1>1, <1>2, <1>3, <1>4, Enqueued

-----------------------------------------------------------------------------
(* The poll                                                                *)

\* releaseStaleLocks only takes expired claims back.
LEMMA Released ==
    ASSUME jobs \in Seq(JobRows)
    PROVE  /\ releaseStaleLocks \in Seq(JobRows)
           /\ Len(releaseStaleLocks) = Len(jobs)
           /\ DOMAIN releaseStaleLocks = DOMAIN jobs
           /\ \A j \in DOMAIN jobs :
                 /\ RowMoves(jobs[j], releaseStaleLocks[j])
                 /\ \/ releaseStaleLocks[j].status = jobs[j].status
                    \/ releaseStaleLocks[j].status = "RETRY"
<1> DEFINE row(j) == IF jobs[j].status = "RUNNING" /\ jobs[j].lease = "expired"
                     THEN Unlock(jobs[j], "RETRY", jobs[j].key)
                     ELSE jobs[j]
<1>1. ASSUME NEW j \in DOMAIN jobs
      PROVE  /\ row(j) \in JobRows /\ RowMoves(jobs[j], row(j))
             /\ row(j).status = jobs[j].status \/ row(j).status = "RETRY"
  BY UnlockedMoves, RowKept
<1>2. releaseStaleLocks = [j \in DOMAIN jobs |-> row(j)]
  BY DEF releaseStaleLocks
<1> HIDE DEF row
<1>3. \A j \in DOMAIN jobs : row(j) \in JobRows
  BY <1>1
<1>4. /\ releaseStaleLocks \in Seq(JobRows) /\ Len(releaseStaleLocks) = Len(jobs)
      /\ DOMAIN releaseStaleLocks = DOMAIN jobs
  BY <1>2, <1>3
<1> QED
  BY <1>1, <1>2, <1>4

\* The row that a worker takes.
LEMMA ClaimedRow ==
    ASSUME NEW a \in JobRows, NEW w \in Workers
    PROVE  LET b == [a EXCEPT !.status = "RUNNING", !.lockedBy = w,
                              !.lease = "live", !.attempts = @ + 1]
           IN  /\ b \in JobRows /\ b.status = "RUNNING" /\ b.key = a.key
               /\ b.payload = a.payload /\ b.replay = a.replay
<1>1. a.attempts + 1 \in Nat
  BY DEF JobRows
<1>2. "RUNNING" \in JobStatuses
  BY DEF JobStatuses, JobActive
<1> QED
  BY <1>1, <1>2 DEF JobRows

\* claimAvailableJobs only takes rows that wait.
LEMMA Claimed ==
    ASSUME NEW q \in Seq(JobRows), NEW w \in Workers, NEW S \in SUBSET Claimable(q)
    PROVE  /\ claimAvailableJobs(q, w, S) \in Seq(JobRows)
           /\ Len(claimAvailableJobs(q, w, S)) = Len(q)
           /\ \A j \in DOMAIN q :
                 /\ RowMoves(q[j], claimAvailableJobs(q, w, S)[j])
                 /\ \/ claimAvailableJobs(q, w, S)[j].status = q[j].status
                    \/ claimAvailableJobs(q, w, S)[j].status = "RUNNING"
<1> DEFINE row(j) == IF j \in S
                     THEN [q[j] EXCEPT !.status = "RUNNING", !.lockedBy = w,
                                       !.lease = "live", !.attempts = @ + 1]
                     ELSE q[j]
<1>1. ASSUME NEW j \in DOMAIN q
      PROVE  /\ row(j) \in JobRows /\ RowMoves(q[j], row(j))
             /\ row(j).status = q[j].status \/ row(j).status = "RUNNING"
  <2>1. q[j] \in JobRows
    OBVIOUS
  <2>2. CASE j \in S
    <3>1. q[j].status \in JobActive
      BY <2>2 DEF Claimable, JobActive
    <3>2. /\ row(j) \in JobRows /\ row(j).status = "RUNNING"
          /\ row(j).key = q[j].key /\ row(j).payload = q[j].payload
          /\ row(j).replay = q[j].replay
      BY <2>1, <2>2, ClaimedRow
    <3> QED
      BY <3>1, <3>2 DEF RowMoves, JobActive
  <2>3. CASE j \notin S
    BY <2>1, <2>3, RowKept
  <2> QED
    BY <2>2, <2>3
<1>2. claimAvailableJobs(q, w, S) = [j \in DOMAIN q |-> row(j)]
  BY DEF claimAvailableJobs
<1> HIDE DEF row
<1>3. \A j \in DOMAIN q : row(j) \in JobRows
  BY <1>1
<1>4. /\ claimAvailableJobs(q, w, S) \in Seq(JobRows)
      /\ Len(claimAvailableJobs(q, w, S)) = Len(q)
  BY <1>2, <1>3
<1> QED
  BY <1>1, <1>2, <1>4

LEMMA MovesCompose ==
    ASSUME NEW a, NEW b, NEW c, RowMoves(a, b), RowMoves(b, c)
    PROVE  RowMoves(a, c)
BY DEF RowMoves, JobActive, JobTerminal

LEMMA PollMoves ==
    ASSUME NEW notes, <<>> \in notes, JobsInv(notes), NEW p \in Workers, Poll(p)
    PROVE  JobsMove(notes)
<1>1. PICK S \in SUBSET Claimable(releaseStaleLocks) :
        /\ jobs' = claimAvailableJobs(releaseStaleLocks, p, S)
        /\ runs' = runs \cup {NewRun(p, j) : j \in S}
        /\ UNCHANGED <<faults, requests>>
  BY DEF Poll
<1>2. jobs \in Seq(JobRows)
  BY DEF JobsInv
<1>3. RowsMove
  <2>1. \A j \in DOMAIN jobs : RowMoves(jobs[j], jobs'[j])
    BY <1>1, <1>2, Released, Claimed, MovesCompose
  <2>2. \A j \in DOMAIN jobs : jobs'[j].status \in {jobs[j].status, "RETRY", "RUNNING"}
    BY <1>1, <1>2, Released, Claimed
  <2>3. jobs' \in Seq(JobRows) /\ Len(jobs') = Len(jobs)
    BY <1>1, <1>2, Released, Claimed
  <2> QED
    BY <2>1, <2>2, <2>3 DEF RowsMove
<1>4. RowAppended
  <2>1. jobs' \in Seq(JobRows) /\ Len(jobs') = Len(jobs)
    BY <1>1, <1>2, Released, Claimed
  <2> QED
    BY <1>2, <2>1 DEF RowAppended
<1>5. S \subseteq DOMAIN jobs
  BY <1>2, Released DEF Claimable
<1>6. ASSUME NEW j \in S
      PROVE  /\ NewRun(p, j) \in RunRecords(notes) /\ NewRun(p, j).j = j
             /\ RunFollows(NewRun(p, j))
  <2>1. jobs[j] \in JobRows /\ j \in Nat
    BY <1>2, <1>5
  <2>2. jobs[j].attempts + 1 \in Nat
    BY <2>1 DEF JobRows
  <2>3. NewRun(p, j) \in RunRecords(notes)
    BY <2>1, <2>2 DEF NewRun, RunRecords
  <2> QED
    BY <2>3 DEF NewRun, RunFollows
<1>7. runs' \subseteq RunRecords(notes)
  BY <1>1, <1>6 DEF JobsInv
<1>8. \A t \in runs' : RunFollows(t) /\ t.j \in DOMAIN jobs
  BY <1>1, <1>5, <1>6, RunsUntouched DEF JobsInv, RunFollows
<1> QED
  BY <1>1, <1>3, <1>4, <1>7, <1>8, StepComposed DEF JobsInv

LEMMA KillMoves ==
    ASSUME NEW notes, JobsInv(notes), NEW p, Kill(p), faults' \in 0..MaxFaults
    PROVE  JobsMove(notes)
BY RowsUntouched, RunsUntouched, StepComposed DEF Kill, JobsInv

\* Whatever runs and requests do, the table moves as said.
LEMMA JobStepMoves ==
    ASSUME NEW notes, JobsInv(notes), JobStep
    PROVE  JobsMove(notes)
<1>1. ASSUME NEW r \in runs, RunStep(r) \/ Deadline(r) PROVE JobsMove(notes)
  <2>1. CASE Renew(r)
    BY <2>1, LeaseMoves DEF Renew, renewJobLease, JobsInv
  <2> QED
    BY <1>1, <2>1, SettleMoves, FailMoves, ReconcileMoves, DeadlineMoves DEF RunStep
<1>2. ASSUME NEW j \in DOMAIN jobs, LeaseExpires(j) PROVE JobsMove(notes)
  <2>1. faults' \in 0..MaxFaults
    BY <1>2, FaultCounted DEF LeaseExpires, JobsInv
  <2> QED
    BY <1>2, <2>1, LeaseMoves DEF LeaseExpires
<1> QED
  BY <1>1, <1>2, ReplayMoves, EnqueueReconciliationMoves DEF JobStep
=============================================================================
