----------------------------- MODULE WorkerLoop -----------------------------
(***************************************************************************)
(* The worker processes of worker/index.ts around the runs of JobRuns:     *)
(* start, first cycle, timer, shutdown, and the WorkerHeartbeat row.       *)
(***************************************************************************)
EXTENDS JobRuns

VARIABLES
    proc,       \* the worker processes
    heartbeat   \* status of the WorkerHeartbeat rows

vars == <<runVars, proc, heartbeat>>

\* stage: booting, in the first cycle, or in the timer loop; shutdown: waiting
\* for the cycle, closing, over, or given up after shutdownTimeoutMs.
ProcStates ==
    [stage: {"down", "boot", "first", "loop"},
     cycle: {"idle", "busy"},
     timer: BOOLEAN,
     shutdown: {"no", "draining", "closing", "over", "failed"}]

Down == [stage |-> "down", cycle |-> "idle", timer |-> FALSE, shutdown |-> "no"]

Init ==
    /\ RunInit
    /\ proc = [p \in Workers |-> Down]
    /\ heartbeat = [p \in Workers |-> "none"]

-----------------------------------------------------------------------------
(* The process                                                             *)

\* main up to registerWorker.
Start(p) ==
    /\ proc[p].stage = "down"
    /\ proc' = [proc EXCEPT ![p] = [Down EXCEPT !.stage = "boot"]]
    /\ UNCHANGED <<runVars, heartbeat>>

\* shutdown, up to its first await: it waits for the current cycle if any.  Before
\* registerWorker the health server does not listen yet and closing it fails,
\* which ends the shutdown and not the process.
Sigterm(p) ==
    /\ proc[p].stage # "down" /\ proc[p].shutdown = "no"
    /\ Fault("sigterm")
    /\ proc' = [proc EXCEPT
          ![p].timer = FALSE,
          ![p].shutdown = IF proc[p].stage = "boot" THEN "failed"
                          ELSE IF proc[p].cycle = "idle" THEN "closing" ELSE "draining"]
    /\ UNCHANGED <<jobs, runs, requests, heartbeat>>

\* The health server is closed and stopWorker marks the row.
ShutdownCompletes(p) ==
    /\ proc[p].shutdown = "closing"
    /\ proc' = [proc EXCEPT ![p].shutdown = "over"]
    /\ heartbeat' = [heartbeat EXCEPT ![p] = "stopped"]
    /\ UNCHANGED runVars

\* The drain timer wins the race: the error is logged, nothing is closed and the
\* process stays until the platform kills it.
DrainTimeout(p) ==
    /\ proc[p].shutdown = "draining"
    /\ proc' = [proc EXCEPT ![p].shutdown = "failed"]
    /\ UNCHANGED <<runVars, heartbeat>>

\* Node exits when nothing is left to do.
Exit(p) ==
    /\ proc[p].shutdown = "over"
    /\ ~proc[p].timer /\ proc[p].cycle = "idle"
    /\ \A r \in runs : r.p # p
    /\ proc' = [proc EXCEPT ![p] = Down]
    /\ UNCHANGED <<runVars, heartbeat>>

Killed(p) ==
    /\ Kill(p)
    /\ proc' = [proc EXCEPT ![p] = Down]
    /\ UNCHANGED heartbeat

Crash(p) == proc[p].stage # "down" /\ Fault("crash") /\ Killed(p)
KilledAfterDrain(p) == proc[p].shutdown = "failed" /\ NoFault /\ Killed(p)

-----------------------------------------------------------------------------
(* The cycle                                                               *)

\* executeCycle records the cycle; what comes next depends on the stage.  main
\* schedules the next cycle without asking isShuttingDown, the timer asks.
CycleOver(state) ==
    [state EXCEPT
        !.cycle = "idle",
        !.stage = "loop",
        !.timer = state.stage = "first" \/ state.shutdown = "no",
        !.shutdown = IF @ = "draining" THEN "closing" ELSE @]

\* A poll that finds nothing due is over at once.
Cycle(p, stage) ==
    /\ Poll(p)
    /\ LET idle == runs' = runs
           state == [proc[p] EXCEPT !.stage = stage, !.timer = FALSE, !.cycle = "busy"]
       IN  /\ heartbeat' = [heartbeat EXCEPT ![p] =
                                IF idle \/ stage = "first" THEN "running" ELSE @]
           /\ proc' = [proc EXCEPT ![p] = IF idle THEN CycleOver(state) ELSE state]

\* registerWorker marks the row as running; the first cycle follows at once.
Register(p) == proc[p].stage = "boot" /\ Cycle(p, "first")

\* scheduleNextCycle's timer.
TimerFires(p) == proc[p].timer /\ Cycle(p, "loop")

EndCycle(p) ==
    /\ proc[p].cycle = "busy" /\ ~InCycle(p)
    /\ proc' = [proc EXCEPT ![p] = CycleOver(@)]
    /\ heartbeat' = [heartbeat EXCEPT ![p] = "running"]
    /\ UNCHANGED runVars

\* A cycle that threw.
CycleBreaks(r) ==
    /\ FailThrows(r)
    /\ IF r.cyc
       THEN /\ proc' = [proc EXCEPT ![r.p] = CycleOver(@)]
            /\ heartbeat' = [heartbeat EXCEPT ![r.p] = "degraded"]
       ELSE UNCHANGED <<proc, heartbeat>>

-----------------------------------------------------------------------------
ProcStep(p) ==
    \/ Start(p) \/ Register(p) \/ TimerFires(p) \/ EndCycle(p)
    \/ ShutdownCompletes(p) \/ DrainTimeout(p) \/ Exit(p) \/ KilledAfterDrain(p)

RunEnds(r) == CycleBreaks(r) \/ (RunStep(r) /\ UNCHANGED <<proc, heartbeat>>)

Next ==
    \/ JobStep /\ UNCHANGED <<proc, heartbeat>>
    \/ \E r \in runs : CycleBreaks(r)
    \/ \E p \in Workers : ProcStep(p) \/ Sigterm(p) \/ Crash(p)

Spec == Init /\ [][Next]_vars

\* The platform restarts processes, Node runs what is due and the clock moves.
Fairness ==
    /\ \A p \in Workers : WF_vars(ProcStep(p))
    /\ WF_vars(\E r \in runs : RunEnds(r))
    /\ WF_vars(\E j \in DOMAIN jobs : LeaseExpires(j) /\ UNCHANGED <<proc, heartbeat>>)

FairSpec == Spec /\ Fairness

-----------------------------------------------------------------------------
(* Properties                                                              *)

(* Rows, runs, processes and heartbeats keep their types.                  *)
TypeOK ==
    /\ JobsTypeOK
    /\ proc \in [Workers -> ProcStates]
    /\ heartbeat \in [Workers -> {"none", "running", "degraded", "stopped"}]

(* Two active rows for one settlement transaction exist only when an       *)
(* administrator replayed one of them: enqueueJob returns the active row   *)
(* until it has finished, through every crash, deferral, lost lease and    *)
(* failed attempt.                                                         *)
DuplicatesAreReplays ==
    \A i, j \in DOMAIN jobs :
        (/\ i # j
         /\ jobs[i].payload = jobs[j].payload
         /\ {jobs[i].status, jobs[j].status} \subseteq JobActive)
        => jobs[i].replay \/ jobs[j].replay

(* No claim lasts: whatever became of the process that holds a job, killed *)
(* or drained or stalled or unable to reach the database, the row leaves   *)
(* RUNNING, by its own run or by the lease that some poll releases.        *)
ClaimsEnd ==
    LET Running(j) == j \in DOMAIN jobs /\ jobs[j].status = "RUNNING"
    IN  \A j \in 1..MaxRequests : Running(j) ~> ~Running(j)

(* worker-jobs.md: "On SIGTERM or SIGINT, polling stops".                  *)
PollingStops ==
    [][\A p \in Workers :
          (proc[p].shutdown # "no" /\ proc[p].cycle = "idle")
              => proc'[p].cycle = "idle"]_proc
=============================================================================
