-------------------------- MODULE WorkerLoopProofs --------------------------
(***************************************************************************)
(* The durable job queue under any number of worker processes that start,  *)
(* drain, crash and lose leases.                                           *)
(*                                                                         *)
(* That two active rows are never for the same transaction is not          *)
(* inductive: it needs KeyInv, that an active row which is not a replay    *)
(* still holds its transaction as its dedupe key, and that no two rows     *)
(* hold the same key.                                                      *)
(***************************************************************************)
EXTENDS WorkerLoop, JobRunsProofs

\* In this module the work of a run remembers nothing.
Notes == {<<>>}

KeyInv ==
    /\ \A j \in DOMAIN jobs :
          /\ jobs[j].payload \in Transactions
          /\ (jobs[j].status \in JobActive /\ ~jobs[j].replay)
                => jobs[j].key = jobs[j].payload
    /\ \A i, j \in DOMAIN jobs :
          (i # j /\ jobs[i].key = jobs[j].key) => jobs[i].key = NoKey

ProcInv ==
    /\ proc \in [Workers -> ProcStates]
    /\ heartbeat \in [Workers -> {"none", "running", "degraded", "stopped"}]

LoopInv == JobsInv(Notes) /\ KeyInv /\ ProcInv

-----------------------------------------------------------------------------
(* Keys                                                                    *)

\* However the table moves, active rows keep their keys and keys their rows.
LEMMA KeysKept ==
    ASSUME JobsInv(Notes), KeyInv, JobsMove(Notes)
    PROVE  KeyInv'
<1>1. /\ jobs \in Seq(JobRows) /\ jobs' \in Seq(JobRows)
      /\ RowsMove /\ RowAppended
  BY DEF JobsInv, JobsMove, RowsMove
<1>2. \A j \in DOMAIN jobs' \ DOMAIN jobs : j = Len(jobs) + 1
  BY <1>1 DEF RowsMove
<1>3. \A j \in DOMAIN jobs : RowMoves(jobs[j], jobs'[j])
  BY <1>1 DEF RowsMove
<1>4. ASSUME NEW j \in DOMAIN jobs'
      PROVE  /\ jobs'[j].payload \in Transactions
             /\ (jobs'[j].status \in JobActive /\ ~jobs'[j].replay)
                   => jobs'[j].key = jobs'[j].payload
  <2>1. CASE j \in DOMAIN jobs
    BY <1>3, <2>1 DEF KeyInv, RowMoves
  <2>2. CASE j \notin DOMAIN jobs
    BY <1>1, <2>2 DEF KeyInv, RowAppended
  <2> QED
    BY <2>1, <2>2
<1>5. ASSUME NEW i \in DOMAIN jobs, NEW j \in DOMAIN jobs, i # j,
             jobs'[i].key = jobs'[j].key
      PROVE  jobs'[i].key = NoKey
  BY <1>3, <1>5 DEF KeyInv, RowMoves
<1>6. ASSUME NEW i \in DOMAIN jobs, NEW j \in DOMAIN jobs' \ DOMAIN jobs,
             jobs'[i].key = jobs'[j].key
      PROVE  jobs'[i].key = NoKey
  BY <1>1, <1>6 DEF RowAppended
<1>7. ASSUME NEW i \in DOMAIN jobs', NEW j \in DOMAIN jobs', i # j,
             jobs'[i].key = jobs'[j].key
      PROVE  jobs'[i].key = NoKey
  BY <1>2, <1>5, <1>6, <1>7
<1> QED
  BY <1>4, <1>7 DEF KeyInv

-----------------------------------------------------------------------------
(* The process around the runs                                             *)

LEMMA CycleOverType == ASSUME NEW state \in ProcStates PROVE CycleOver(state) \in ProcStates
BY DEF CycleOver, ProcStates

LEMMA ProcSet ==
    ASSUME ProcInv, NEW p \in Workers, NEW state \in ProcStates,
           proc' = [proc EXCEPT ![p] = state],
           \/ heartbeat' = heartbeat
           \/ \E mark \in {"running", "degraded", "stopped"} :
                 heartbeat' = [heartbeat EXCEPT ![p] = mark]
    PROVE  ProcInv'
BY DEF ProcInv

LEMMA DownType == Down \in ProcStates
BY DEF Down, ProcStates

\* A step that leaves rows and runs alone moves them, too.
LEMMA RunVarsKept ==
    ASSUME JobsInv(Notes), UNCHANGED runVars
    PROVE  JobsMove(Notes)
BY RowsUntouched, RunsUntouched, StepComposed DEF JobsInv, runVars

LEMMA CycleMoves ==
    ASSUME LoopInv, NEW p \in Workers, NEW stage \in {"first", "loop"}, Cycle(p, stage)
    PROVE  JobsMove(Notes) /\ ProcInv'
<1>1. JobsMove(Notes)
  BY PollMoves DEF Cycle, LoopInv, Notes
<1> DEFINE state == [proc[p] EXCEPT !.stage = stage, !.timer = FALSE, !.cycle = "busy"]
<1>2. state \in ProcStates
  BY DEF LoopInv, ProcInv, ProcStates
<1>3. \/ proc' = [proc EXCEPT ![p] = state]
      \/ proc' = [proc EXCEPT ![p] = CycleOver(state)]
  BY DEF Cycle
<1>4. heartbeat' = [heartbeat EXCEPT ![p] = "running"] \/ heartbeat' = heartbeat
  <2>1. \/ heartbeat' = [heartbeat EXCEPT ![p] = "running"]
        \/ heartbeat' = [heartbeat EXCEPT ![p] = heartbeat[p]]
    BY DEF Cycle
  <2> QED
    BY <2>1 DEF LoopInv, ProcInv
<1> HIDE DEF state
<1> QED
  BY <1>1, <1>2, <1>3, <1>4, CycleOverType, ProcSet DEF LoopInv

LEMMA ProcessMoves ==
    ASSUME LoopInv, NEW p \in Workers, ProcStep(p) \/ Sigterm(p) \/ Crash(p)
    PROVE  JobsMove(Notes) /\ ProcInv'
<1>0. JobsInv(Notes) /\ ProcInv /\ proc[p] \in ProcStates /\ faults \in 0..MaxFaults
  BY DEF LoopInv, ProcInv, JobsInv
<1>1. CASE Start(p)
  <2>1. [Down EXCEPT !.stage = "boot"] \in ProcStates
    BY DEF Down, ProcStates
  <2> QED
    BY <1>0, <1>1, <2>1, ProcSet, RunVarsKept DEF Start
<1>2. CASE Register(p) \/ TimerFires(p)
  BY <1>2, CycleMoves DEF Register, TimerFires
<1>3. CASE EndCycle(p)
  <2>1. proc' = [proc EXCEPT ![p] = CycleOver(proc[p])]
    BY <1>3 DEF EndCycle
  <2> QED
    BY <1>0, <1>3, <2>1, CycleOverType, ProcSet, RunVarsKept DEF EndCycle
<1>4. CASE ShutdownCompletes(p)
  <2>1. [proc[p] EXCEPT !.shutdown = "over"] \in ProcStates
    BY <1>0 DEF ProcStates
  <2> QED
    BY <1>0, <1>4, <2>1, ProcSet, RunVarsKept DEF ShutdownCompletes
<1>5. CASE DrainTimeout(p)
  <2>1. [proc[p] EXCEPT !.shutdown = "failed"] \in ProcStates
    BY <1>0 DEF ProcStates
  <2> QED
    BY <1>0, <1>5, <2>1, ProcSet, RunVarsKept DEF DrainTimeout
<1>6. CASE Exit(p)
  BY <1>0, <1>6, DownType, ProcSet, RunVarsKept DEF Exit
<1>7. CASE KilledAfterDrain(p) \/ Crash(p)
  <2>1. Kill(p) /\ faults' \in 0..MaxFaults
    BY <1>0, <1>7, FaultCounted DEF KilledAfterDrain, Crash, Killed
  <2>2. ProcInv'
    BY <1>0, <1>7, DownType, ProcSet DEF KilledAfterDrain, Crash, Killed
  <2> QED
    BY <1>0, <2>1, <2>2, KillMoves
<1>8. CASE Sigterm(p)
  <2>1. /\ faults' \in 0..MaxFaults
        /\ UNCHANGED <<jobs, runs, requests, heartbeat>>
    BY <1>0, <1>8, FaultCounted DEF Sigterm
  <2>2. JobsMove(Notes)
    BY <1>0, <2>1, RowsUntouched, RunsUntouched, StepComposed DEF JobsInv
  <2>3. PICK mode \in {"failed", "closing", "draining"} :
          proc' = [proc EXCEPT ![p].timer = FALSE, ![p].shutdown = mode]
    BY <1>8 DEF Sigterm
  <2>4. [proc[p] EXCEPT !.timer = FALSE, !.shutdown = mode] \in ProcStates
    BY <1>0 DEF ProcStates
  <2>5. proc' = [proc EXCEPT ![p] = [proc[p] EXCEPT !.timer = FALSE, !.shutdown = mode]]
    BY <1>0, <2>3 DEF ProcInv
  <2>6. ProcInv'
    BY <1>0, <2>1, <2>4, <2>5, ProcSet
  <2> QED
    BY <2>2, <2>6
<1> QED
  BY <1>1, <1>2, <1>3, <1>4, <1>5, <1>6, <1>7, <1>8 DEF ProcStep

LEMMA LoopMoves ==
    ASSUME LoopInv, [Next]_vars
    PROVE  JobsMove(Notes) /\ ProcInv'
<1>0. JobsInv(Notes) /\ ProcInv
  BY DEF LoopInv
<1>1. CASE JobStep /\ UNCHANGED <<proc, heartbeat>>
  BY <1>0, <1>1, JobStepMoves DEF ProcInv
<1>2. ASSUME NEW r \in runs, CycleBreaks(r) PROVE JobsMove(Notes) /\ ProcInv'
  <2>1. r.p \in Workers
    BY <1>0 DEF JobsInv, RunRecords
  <2>2. CycleOver(proc[r.p]) \in ProcStates
    BY <1>0, <2>1, CycleOverType DEF ProcInv
  <2>3. ProcInv'
    BY <1>0, <1>2, <2>1, <2>2, ProcSet DEF CycleBreaks, ProcInv
  <2> QED
    BY <1>0, <1>2, <2>3, FailThrowsMoves DEF CycleBreaks
<1>3. CASE UNCHANGED vars
  BY <1>0, <1>3, RunVarsKept DEF vars, ProcInv
<1> QED
  BY <1>1, <1>2, <1>3, ProcessMoves DEF Next

-----------------------------------------------------------------------------
(* The theorems                                                            *)

\* Rows, runs and processes keep their types and active rows their keys,
\* whatever the processes do (jobQueueService.ts, agentLoop.ts).
THEOREM LoopInvAlways == Spec => []LoopInv
<1>1. Init => LoopInv
  <2> SUFFICES ASSUME Init PROVE LoopInv
    OBVIOUS
  <2>1. jobs \in Seq(JobRows) /\ DOMAIN jobs = {}
    BY DEF Init, RunInit
  <2>2. JobsInv(Notes)
    BY <2>1, BoundsAreNumbers DEF Init, RunInit, JobsInv
  <2>3. ProcInv
    BY DownType DEF Init, ProcInv
  <2> QED
    BY <2>1, <2>2, <2>3 DEF LoopInv, KeyInv
<1>2. LoopInv /\ [Next]_vars => LoopInv'
  BY LoopMoves, KeysKept DEF LoopInv, JobsMove
<1> QED
  BY <1>1, <1>2, PTL DEF Spec

\* Every row, run, process record and heartbeat is well formed.
THEOREM TypeCorrect == Spec => []TypeOK
<1>1. LoopInv => TypeOK
  BY JobsInvTypes DEF LoopInv, ProcInv, TypeOK
<1> QED
  BY <1>1, LoopInvAlways, PTL

\* A settlement transaction has one active job, replays aside, through every
\* crash, deferral, lost lease and failed attempt (enqueueJob, failJob,
\* releaseStaleLocks).
THEOREM DuplicatesAreReplaysAlways == Spec => []DuplicatesAreReplays
<1>1. LoopInv => DuplicatesAreReplays
  <2> SUFFICES ASSUME LoopInv, NEW i \in DOMAIN jobs, NEW j \in DOMAIN jobs, i # j,
                      jobs[i].payload = jobs[j].payload,
                      {jobs[i].status, jobs[j].status} \subseteq JobActive,
                      ~jobs[i].replay, ~jobs[j].replay
               PROVE  FALSE
    BY DEF DuplicatesAreReplays
  <2>1. jobs[i].key = jobs[i].payload /\ jobs[j].key = jobs[j].payload
    BY DEF LoopInv, KeyInv
  <2>2. jobs[i].key = NoKey
    BY <2>1 DEF LoopInv, KeyInv
  <2> QED
    BY <2>1, <2>2, NoKeyFresh DEF LoopInv, KeyInv
<1> QED
  BY <1>1, LoopInvAlways, PTL

\* No late completion, deferral, failure or claim touches a finished row
\* (the status and lockedBy fence of completeJob, deferJob and failJob).
THEOREM FinishedJobsRestAlways == Spec => FinishedJobsRest
<1>1. LoopInv /\ [Next]_vars =>
        [\A j \in DOMAIN jobs :
            jobs[j].status \in JobTerminal => jobs'[j].status = jobs[j].status]_jobs
  <2> SUFFICES ASSUME LoopInv, [Next]_vars, NEW j \in DOMAIN jobs,
                      jobs[j].status \in JobTerminal
               PROVE  jobs'[j].status = jobs[j].status
    OBVIOUS
  <2>1. RowMoves(jobs[j], jobs'[j])
    BY LoopMoves DEF JobsMove, RowsMove
  <2> QED
    BY <2>1 DEF RowMoves, JobActive, JobTerminal
<1> QED
  BY <1>1, LoopInvAlways, PTL DEF Spec, FinishedJobsRest

-----------------------------------------------------------------------------
(***************************************************************************)
(* Cycles and shutdown.                                                    *)
(*                                                                         *)
(* A process is in one cycle at a time although three places start one:    *)
(* main, the timer that main sets without asking isShuttingDown, and the   *)
(* timer that a cycle sets.  For the same reason polling does not stop at  *)
(* a signal; what is left of it is bounded and used up poll by poll.       *)
(***************************************************************************)
CycleInv ==
    \A p \in Workers :
        /\ InCycle(p) => proc[p].cycle = "busy"
        /\ proc[p].cycle = "busy" => ~proc[p].timer /\ proc[p].stage \in {"first", "loop"}
        /\ proc[p].stage \in {"down", "boot"} => ~proc[p].timer
        /\ proc[p].stage = "down" => proc[p].shutdown = "no"

\* A process that may start a cycle waits for no run of an earlier one.
CyclesNeverOverlap ==
    \A p \in Workers : proc[p].timer \/ proc[p].stage = "boot" => ~InCycle(p)

\* The polls a process may still make once it was told to stop: two when it
\* boots (the first cycle, and the one main schedules after it), one in its first
\* cycle, one when a timer is set.
PollsLeft(state) ==
    IF state.stage = "boot" THEN 2
    ELSE IF state.stage = "first" \/ state.timer THEN 1 ELSE 0

\* A process that was told to stop stays so until it is gone, and every cycle it
\* still begins uses up one of its polls.
WindsDown(p) ==
    proc[p].shutdown # "no" /\ proc'[p].stage # "down" =>
        /\ proc'[p].shutdown # "no"
        /\ PollsLeft(proc'[p]) <= PollsLeft(proc[p])
        /\ proc[p].cycle = "idle" /\ proc'[p].cycle = "busy" =>
              PollsLeft(proc'[p]) < PollsLeft(proc[p])

\* A run that is replaced joins no cycle.
LEMMA PutJoinsNone ==
    ASSUME NEW r \in runs, NEW s, s.p = r.p, s.cyc => r.cyc, runs' = Put(r, s)
    PROVE  \A p \in Workers : InCycle(p)' => InCycle(p)
<1>1. \A t \in runs' : t \in runs \/ t = s
  BY PutRun
<1> QED
  BY <1>1 DEF InCycle

\* No run, request or clock puts a process into a cycle.
LEMMA JobStepJoinsNone ==
    ASSUME JobsInv(Notes), JobStep
    PROVE  \A p \in Workers : InCycle(p)' => InCycle(p)
<1>0. UNCHANGED runs => \A p \in Workers : InCycle(p)' => InCycle(p)
  BY DEF InCycle
<1>1. ASSUME NEW r \in runs, RunStep(r) \/ Deadline(r)
      PROVE  \A p \in Workers : InCycle(p)' => InCycle(p)
  <2>0. r \in RunRecords(Notes)
    BY DEF JobsInv
  <2>1. CASE UNCHANGED runs
    BY <1>0, <2>1
  <2>2. ASSUME NEW outcome, runs' = Put(r, [r EXCEPT !.side = outcome])
        PROVE  \A p \in Workers : InCycle(p)' => InCycle(p)
    <3> DEFINE t == [r EXCEPT !.side = outcome]
    <3>1. t.p = r.p /\ t.cyc = r.cyc
      BY <2>0 DEF RunRecords
    <3> HIDE DEF t
    <3> QED
      BY <2>2, <3>1, PutJoinsNone DEF t
  <2>3. CASE runs' = Put(r, [r EXCEPT !.side = "done", !.cyc = FALSE])
    <3> DEFINE t == [r EXCEPT !.side = "done", !.cyc = FALSE]
    <3>1. t.p = r.p /\ ~t.cyc
      BY <2>0 DEF RunRecords
    <3> HIDE DEF t
    <3> QED
      BY <2>3, <3>1, PutJoinsNone DEF t
  <2>4. ASSUME NEW outcome, runs' = WorkEnds(r, outcome)
        PROVE  \A p \in Workers : InCycle(p)' => InCycle(p)
    <3> DEFINE t == [r EXCEPT !.work = "end", !.side = IF @ = "await" THEN outcome ELSE @]
    <3>1. t.p = r.p /\ t.cyc = r.cyc
      BY <2>0 DEF RunRecords
    <3>2. runs' = Put(r, t)
      BY <2>4 DEF WorkEnds
    <3> HIDE DEF t
    <3> QED
      BY <3>1, <3>2, PutJoinsNone
  <2> QED
    BY <1>1, <2>1, <2>2, <2>3, <2>4 DEF RunStep, Settle, Fail, Renew, Reconcile, Deadline
<1>2. CASE \/ \E j \in DOMAIN jobs : LeaseExpires(j) \/ Replay(j)
           \/ \E t \in Transactions : EnqueueReconciliation(t)
  BY <1>0, <1>2 DEF LeaseExpires, Replay, EnqueueReconciliation
<1> QED
  BY <1>1, <1>2 DEF JobStep

\* What a step may make of a process.
ProcMoves(p) ==
    \/ proc'[p] = proc[p] /\ (InCycle(p)' => InCycle(p))
    \/ proc'[p] = Down /\ ~InCycle(p)'
    \/ /\ proc[p].stage = "down" /\ proc'[p] = [Down EXCEPT !.stage = "boot"]
       /\ InCycle(p)' => InCycle(p)
    \/ /\ \E mode \in {"failed", "closing", "draining"} :
             proc'[p] = [proc[p] EXCEPT !.timer = FALSE, !.shutdown = mode]
       /\ proc[p].shutdown = "no" /\ proc[p].stage # "down" /\ (InCycle(p)' => InCycle(p))
    \/ /\ \E mode \in {"over", "failed"} : proc'[p] = [proc[p] EXCEPT !.shutdown = mode]
       /\ proc[p].shutdown # "no" /\ (InCycle(p)' => InCycle(p))
    \/ \E stage \in {"first", "loop"} :
          LET state == [proc[p] EXCEPT !.stage = stage, !.timer = FALSE, !.cycle = "busy"]
          IN  /\ IF stage = "first" THEN proc[p].stage = "boot" ELSE proc[p].timer
              /\ \/ proc'[p] = state
                 \/ proc'[p] = CycleOver(state) /\ (InCycle(p)' => InCycle(p))
    \/ proc[p].cycle = "busy" /\ proc'[p] = CycleOver(proc[p]) /\ ~InCycle(p)'

\* A process that is left alone.
LEMMA OthersStay ==
    ASSUME ProcInv, NEW p \in Workers, NEW state, proc' = [proc EXCEPT ![p] = state],
           \A q \in Workers \ {p} : InCycle(q)' => InCycle(q), ProcMoves(p)
    PROVE  \A q \in Workers : ProcMoves(q)
<1>1. \A q \in Workers \ {p} : proc'[q] = proc[q]
  BY DEF ProcInv
<1> QED
  BY <1>1 DEF ProcMoves

LEMMA CycleStarts ==
    ASSUME ProcInv, NEW p \in Workers, NEW stage \in {"first", "loop"}, Cycle(p, stage),
           IF stage = "first" THEN proc[p].stage = "boot" ELSE proc[p].timer
    PROVE  \A q \in Workers : ProcMoves(q)
<1> DEFINE state == [proc[p] EXCEPT !.stage = stage, !.timer = FALSE, !.cycle = "busy"]
<1>1. PICK next : /\ proc' = [proc EXCEPT ![p] = next]
                  /\ next = state \/ (next = CycleOver(state) /\ runs' = runs)
  BY DEF Cycle
<1>2. proc'[p] = next
  BY <1>1 DEF ProcInv
<1>3. ProcMoves(p)
  BY <1>1, <1>2 DEF ProcMoves, InCycle
<1>4. \A q \in Workers \ {p} : InCycle(q)' => InCycle(q)
  <2>1. PICK S : runs' = runs \cup {NewRun(p, j) : j \in S}
    BY DEF Cycle, Poll
  <2>2. \A j \in S : NewRun(p, j).p = p
    BY DEF NewRun
  <2> QED
    BY <2>1, <2>2 DEF InCycle
<1> QED
  BY <1>1, <1>3, <1>4, OthersStay

LEMMA StepMovesProcs ==
    ASSUME LoopInv, CycleInv, [Next]_vars
    PROVE  \A q \in Workers : ProcMoves(q)
<1>0. JobsInv(Notes) /\ ProcInv
  BY DEF LoopInv
<1>1. ASSUME UNCHANGED proc, \A q \in Workers : InCycle(q)' => InCycle(q)
      PROVE  \A q \in Workers : ProcMoves(q)
  BY <1>1 DEF ProcMoves
<1>2. CASE JobStep /\ UNCHANGED <<proc, heartbeat>>
  BY <1>0, <1>1, <1>2, JobStepJoinsNone
<1>3. CASE UNCHANGED vars
  BY <1>1, <1>3 DEF vars, runVars, InCycle
<1>4. ASSUME NEW r \in runs, CycleBreaks(r) PROVE \A q \in Workers : ProcMoves(q)
  <2>0. r \in RunRecords(Notes) /\ r.p \in Workers
    BY <1>0 DEF JobsInv, RunRecords
  <2> DEFINE done == [r EXCEPT !.side = "done", !.cyc = FALSE]
             left(s) == IF r.cyc /\ s.p = r.p THEN [s EXCEPT !.cyc = FALSE] ELSE s
  <2>1. runs' = {left(s) : s \in Put(r, done)}
    BY <1>4 DEF CycleBreaks, FailThrows
  <2>2. done \in RunRecords(Notes) /\ done.p = r.p /\ ~done.cyc
    BY <2>0 DEF RunRecords
  <2>3. ASSUME NEW s \in Put(r, done)
        PROVE  /\ left(s).p = s.p /\ (left(s).cyc => s.cyc /\ s \in runs)
               /\ r.cyc /\ s.p = r.p => ~left(s).cyc
    <3>1. s \in runs \/ s = done
      BY <2>3, PutRun
    <3>2. s \in RunRecords(Notes)
      BY <1>0, <2>2, <3>1 DEF JobsInv
    <3> HIDE DEF done
    <3>3. [s EXCEPT !.cyc = FALSE].p = s.p /\ ~[s EXCEPT !.cyc = FALSE].cyc
      BY <3>2 DEF RunRecords
    <3> QED
      BY <2>2, <3>1, <3>3
  <2> HIDE DEF done, left
  <2>4. \A q \in Workers : InCycle(q)' => InCycle(q)
    BY <2>1, <2>3 DEF InCycle
  <2>5. CASE r.cyc
    <3>1. ~InCycle(r.p)'
      BY <2>1, <2>3, <2>5 DEF InCycle
    <3>2. proc' = [proc EXCEPT ![r.p] = CycleOver(proc[r.p])]
      BY <1>4, <2>5 DEF CycleBreaks
    <3>3. proc[r.p].cycle = "busy" /\ proc'[r.p] = CycleOver(proc[r.p])
      BY <1>0, <2>0, <2>5, <3>2 DEF CycleInv, InCycle, ProcInv
    <3> QED
      BY <1>0, <2>0, <2>4, <3>1, <3>2, <3>3, OthersStay DEF ProcMoves
  <2>6. CASE ~r.cyc
    BY <1>1, <1>4, <2>4, <2>6 DEF CycleBreaks
  <2> QED
    BY <2>5, <2>6
<1>5. ASSUME NEW p \in Workers, ProcStep(p) \/ Sigterm(p) \/ Crash(p)
      PROVE  \A q \in Workers : ProcMoves(q)
  <2>0. proc[p] \in ProcStates
    BY <1>0 DEF ProcInv
  <2>1. CASE Register(p)
    BY <1>0, <2>1, CycleStarts DEF Register
  <2>2. CASE TimerFires(p)
    BY <1>0, <2>2, CycleStarts DEF TimerFires
  <2>3. ASSUME NEW state, proc' = [proc EXCEPT ![p] = state], UNCHANGED runs,
               proc'[p] = state => ProcMoves(p)
        PROVE  \A q \in Workers : ProcMoves(q)
    <3>1. proc'[p] = state
      BY <1>0, <2>3 DEF ProcInv
    <3> QED
      BY <1>0, <2>3, <3>1, OthersStay DEF InCycle
  <2>4. CASE Start(p)
    BY <2>3, <2>4 DEF Start, runVars, ProcMoves, InCycle
  <2>5. CASE EndCycle(p)
    <3>1. proc' = [proc EXCEPT ![p] = CycleOver(proc[p])] /\ UNCHANGED runs
      BY <2>5 DEF EndCycle, runVars
    <3> QED
      BY <2>3, <2>5, <3>1 DEF EndCycle, ProcMoves, InCycle
  <2>6. CASE ShutdownCompletes(p) \/ DrainTimeout(p)
    <3>1. PICK mode \in {"over", "failed"} :
            proc' = [proc EXCEPT ![p] = [proc[p] EXCEPT !.shutdown = mode]]
      BY <2>6 DEF ShutdownCompletes, DrainTimeout
    <3> QED
      BY <2>3, <2>6, <3>1 DEF ShutdownCompletes, DrainTimeout, runVars, ProcMoves, InCycle
  <2>7. CASE Sigterm(p)
    <3>1. PICK mode \in {"failed", "closing", "draining"} :
            proc' = [proc EXCEPT ![p].timer = FALSE, ![p].shutdown = mode]
      BY <2>7 DEF Sigterm
    <3>2. proc' = [proc EXCEPT ![p] = [proc[p] EXCEPT !.timer = FALSE, !.shutdown = mode]]
      BY <1>0, <3>1 DEF ProcInv
    <3> QED
      BY <2>3, <2>7, <3>2 DEF Sigterm, ProcMoves, InCycle
  <2>8. CASE Exit(p)
    <3>1. ~InCycle(p)' /\ proc' = [proc EXCEPT ![p] = Down] /\ UNCHANGED runs
      BY <2>8 DEF Exit, runVars, InCycle
    <3> QED
      BY <2>3, <3>1 DEF ProcMoves
  <2>9. CASE KilledAfterDrain(p) \/ Crash(p)
    <3>1. proc' = [proc EXCEPT ![p] = Down] /\ runs' = {r \in runs : r.p # p}
      BY <2>9 DEF KilledAfterDrain, Crash, Killed, Kill
    <3>2. proc'[p] = Down /\ ~InCycle(p)'
      BY <1>0, <3>1 DEF ProcInv, InCycle
    <3>3. \A q \in Workers : InCycle(q)' => InCycle(q)
      BY <3>1 DEF InCycle
    <3> QED
      BY <1>0, <3>1, <3>2, <3>3, OthersStay DEF ProcMoves
  <2> QED
    BY <1>5, <2>1, <2>2, <2>4, <2>5, <2>6, <2>7, <2>8, <2>9 DEF ProcStep
<1> QED
  BY <1>2, <1>3, <1>4, <1>5 DEF Next

\* A cycle that ends leaves its process idle, in the timer loop.
LEMMA CycleOverState ==
    ASSUME NEW state \in ProcStates
    PROVE  /\ CycleOver(state).cycle = "idle" /\ CycleOver(state).stage = "loop"
           /\ CycleOver(state).timer <=> state.stage = "first" \/ state.shutdown = "no"
           /\ CycleOver(state).shutdown = "no" <=> state.shutdown = "no"
BY DEF CycleOver, ProcStates

LEMMA ProcessKeeps ==
    ASSUME ProcInv, CycleInv, NEW p \in Workers, ProcMoves(p)
    PROVE  /\ InCycle(p)' => proc'[p].cycle = "busy"
           /\ proc'[p].cycle = "busy" => ~proc'[p].timer /\ proc'[p].stage \in {"first", "loop"}
           /\ proc'[p].stage \in {"down", "boot"} => ~proc'[p].timer
           /\ proc'[p].stage = "down" => proc'[p].shutdown = "no"
           /\ WindsDown(p)
<1> DEFINE Goal == /\ InCycle(p)' => proc'[p].cycle = "busy"
                   /\ proc'[p].cycle = "busy" => ~proc'[p].timer /\ proc'[p].stage \in {"first", "loop"}
                   /\ proc'[p].stage \in {"down", "boot"} => ~proc'[p].timer
                   /\ proc'[p].stage = "down" => proc'[p].shutdown = "no"
                   /\ WindsDown(p)
<1>0. /\ proc[p] \in ProcStates
      /\ InCycle(p) => proc[p].cycle = "busy"
      /\ proc[p].cycle = "busy" => ~proc[p].timer /\ proc[p].stage \in {"first", "loop"}
      /\ proc[p].stage \in {"down", "boot"} => ~proc[p].timer
      /\ proc[p].stage = "down" => proc[p].shutdown = "no"
  BY DEF ProcInv, CycleInv
<1>1. CASE proc'[p] = proc[p] /\ (InCycle(p)' => InCycle(p))
  BY <1>0, <1>1 DEF WindsDown, PollsLeft
<1>2. CASE proc'[p] = Down /\ ~InCycle(p)'
  BY <1>2 DEF Down, WindsDown
<1>3. CASE /\ proc[p].stage = "down" /\ proc'[p] = [Down EXCEPT !.stage = "boot"]
           /\ InCycle(p)' => InCycle(p)
  <2>1. proc[p].cycle = "idle" /\ ~InCycle(p)'
    BY <1>0, <1>3 DEF ProcStates
  <2> QED
    BY <1>0, <1>3, <2>1 DEF Down, WindsDown, PollsLeft
<1>4. ASSUME NEW mode \in {"failed", "closing", "draining"},
             proc'[p] = [proc[p] EXCEPT !.timer = FALSE, !.shutdown = mode],
             proc[p].shutdown = "no", proc[p].stage # "down", InCycle(p)' => InCycle(p)
      PROVE  Goal
  BY <1>0, <1>4 DEF ProcStates, WindsDown
<1>5. ASSUME NEW mode \in {"over", "failed"}, proc'[p] = [proc[p] EXCEPT !.shutdown = mode],
             proc[p].shutdown # "no", InCycle(p)' => InCycle(p)
      PROVE  Goal
  BY <1>0, <1>5 DEF ProcStates, WindsDown, PollsLeft
<1>6. ASSUME NEW stage \in {"first", "loop"}, NEW state,
             state = [proc[p] EXCEPT !.stage = stage, !.timer = FALSE, !.cycle = "busy"],
             IF stage = "first" THEN proc[p].stage = "boot" ELSE proc[p].timer,
             \/ proc'[p] = state
             \/ proc'[p] = CycleOver(state) /\ (InCycle(p)' => InCycle(p))
      PROVE  Goal
  <2>1. /\ state \in ProcStates /\ state.stage = stage /\ ~state.timer /\ state.cycle = "busy"
        /\ state.shutdown = proc[p].shutdown
    BY <1>0, <1>6 DEF ProcStates
  <2>2. CASE proc'[p] = state
    BY <1>0, <1>6, <2>1, <2>2 DEF WindsDown, PollsLeft, ProcStates
  <2>3. CASE proc'[p] = CycleOver(state) /\ (InCycle(p)' => InCycle(p))
    <3>1. ~InCycle(p)'
      BY <1>0, <1>6, <2>3
    <3>2. /\ proc'[p].cycle = "idle" /\ proc'[p].stage = "loop"
          /\ proc'[p].timer <=> stage = "first" \/ proc[p].shutdown = "no"
          /\ proc'[p].shutdown = "no" <=> proc[p].shutdown = "no"
      BY <2>1, <2>3, CycleOverState
    <3>3. WindsDown(p)
      <4>1. CASE stage = "first"
        BY <1>6, <3>2, <4>1 DEF WindsDown, PollsLeft
      <4>2. CASE stage = "loop"
        BY <1>6, <3>2, <4>2 DEF WindsDown, PollsLeft
      <4> QED
        BY <4>1, <4>2
    <3> QED
      BY <3>1, <3>2, <3>3
  <2> QED
    BY <1>6, <2>2, <2>3
<1>7. CASE proc[p].cycle = "busy" /\ proc'[p] = CycleOver(proc[p]) /\ ~InCycle(p)'
  BY <1>0, <1>7, CycleOverState DEF WindsDown, PollsLeft, ProcStates
<1> QED
  BY <1>1, <1>2, <1>3, <1>4, <1>5, <1>6, <1>7 DEF ProcMoves

\* The state of each process agrees with the runs it waits for.
THEOREM CycleInvAlways == Spec => []CycleInv
<1>1. Init => CycleInv
  BY DEF Init, RunInit, CycleInv, InCycle, Down
<1>2. LoopInv /\ CycleInv /\ [Next]_vars => CycleInv'
  <2> SUFFICES ASSUME LoopInv, CycleInv, [Next]_vars PROVE CycleInv'
    OBVIOUS
  <2>1. \A p \in Workers : ProcMoves(p)
    BY StepMovesProcs
  <2> QED
    BY <2>1, ProcessKeeps DEF LoopInv, CycleInv
<1> QED
  BY <1>1, <1>2, LoopInvAlways, PTL DEF Spec

\* main, the timer that main sets and the timer that a cycle sets never start a
\* cycle beside one that is still waited for (worker/index.ts executeCycle), so
\* that one process never has the runs of two polls in hand in its cycle.
THEOREM CyclesNeverOverlapAlways == Spec => []CyclesNeverOverlap
<1>1. CycleInv => CyclesNeverOverlap
  BY DEF CycleInv, CyclesNeverOverlap
<1> QED
  BY <1>1, CycleInvAlways, PTL

\* What is true of "polling stops": after a signal a process begins at most two
\* more cycles if it was still booting, one if it was in its first, and none
\* otherwise, whatever fails meanwhile (worker/index.ts shutdown, main).
THEOREM PollingWindsDown == Spec => [][\A p \in Workers : WindsDown(p)]_vars
<1>1. LoopInv /\ CycleInv /\ [Next]_vars => [\A p \in Workers : WindsDown(p)]_vars
  BY StepMovesProcs, ProcessKeeps DEF LoopInv
<1> QED
  BY <1>1, LoopInvAlways, CycleInvAlways, PTL DEF Spec
=============================================================================
