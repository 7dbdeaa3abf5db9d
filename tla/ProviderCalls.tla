---------------------------- MODULE ProviderCalls ----------------------------
(***************************************************************************)
(* common/resilience/provider.ts in one process: the bulkhead that bounds  *)
(* the requests to a provider, the attempts of each, and the circuit.      *)
(*                                                                         *)
(* A call that has to wait resolves a promise; it goes on in a later       *)
(* microtask, before which other calls may pass.                           *)
(***************************************************************************)
EXTENDS Naturals, Sequences, FiniteSets

CONSTANTS
    PoolSize,       \* concurrency
    MaxAttempts,    \* attempts of one call
    FailureThreshold    \* failures that open the circuit

ASSUME PoolPositive ==
    PoolSize \in Nat \ {0} /\ MaxAttempts \in Nat \ {0} /\ FailureThreshold \in Nat \ {0}

VARIABLES
    active,     \* state.active
    waiters,    \* state.waiters: the calls that wait, in order
    providerCalls,  \* the calls in progress
    circuit     \* failures in a row, and whether the circuit is open

providerVars == <<active, waiters, providerCalls, circuit>>

ProviderInit ==
    /\ active = 0
    /\ waiters = <<>>
    /\ providerCalls = {}
    /\ circuit = [failures |-> 0, open |-> FALSE]

Put(c, next) == (providerCalls \ {c}) \cup next
Running(id) == [id |-> id, pc |-> "running", attempt |-> 1]

\* executeProviderRequest up to acquire: with an open circuit the call fails at
\* once, otherwise it takes a place or waits for one.
Execute(id) ==
    /\ ~circuit.open
    /\ IF active >= PoolSize
       THEN /\ waiters' = Append(waiters, id)
            /\ providerCalls' = providerCalls \cup {[Running(id) EXCEPT !.pc = "waiting"]}
            /\ UNCHANGED active
       ELSE /\ active' = active + 1
            /\ providerCalls' = providerCalls \cup {Running(id)}
            /\ UNCHANGED waiters
    /\ UNCHANGED circuit

\* The waiting call that was woken goes on.
Resume(c) ==
    /\ c.pc = "woken"
    /\ active' = active + 1
    /\ providerCalls' = Put(c, {[c EXCEPT !.pc = "running"]})
    /\ UNCHANGED <<waiters, circuit>>

\* A seeded fault: the waiter is taken off the queue and not woken.
ReleaseMutSilent(c) ==
    /\ active' = active - 1
    /\ providerCalls' = Put(c, {})
    /\ waiters' = IF active > PoolSize \/ waiters = <<>> THEN waiters ELSE Tail(waiters)

\* The function acquire returns, called in the finally: it wakes one waiter.
release(c) ==
    /\ active' = active - 1
    /\ IF waiters = <<>>
       THEN providerCalls' = Put(c, {}) /\ UNCHANGED waiters
       ELSE /\ waiters' = Tail(waiters)
            /\ providerCalls' = {IF d.id = Head(waiters) THEN [d EXCEPT !.pc = "woken"] ELSE d :
                                    d \in Put(c, {})}

Succeed(c) ==
    /\ c.pc = "running"
    /\ circuit' = [circuit EXCEPT !.failures = 0]
    /\ release(c)

\* A failure that may be retried, before the last attempt.
Retry(c) ==
    /\ c.pc = "running" /\ c.attempt < MaxAttempts
    /\ providerCalls' = Put(c, {[c EXCEPT !.attempt = @ + 1]})
    /\ UNCHANGED <<active, waiters, circuit>>

\* A failure that may not, or the last attempt's.  failures stays at the threshold
\* here once it is reached: only the comparison with it matters.
GiveUp(c) ==
    /\ c.pc = "running"
    /\ LET n == IF circuit.failures < FailureThreshold THEN circuit.failures + 1
                ELSE FailureThreshold
       IN  circuit' = [failures |-> n, open |-> circuit.open \/ n >= FailureThreshold]
    /\ release(c)

\* openUntil passes; the next call clears it.
CircuitCloses ==
    /\ circuit.open
    /\ circuit' = [circuit EXCEPT !.open = FALSE]
    /\ UNCHANGED <<active, waiters, providerCalls>>

ProviderStep ==
    \/ \E c \in providerCalls : Resume(c) \/ Succeed(c) \/ Retry(c) \/ GiveUp(c)
    \/ CircuitCloses

ProviderTypeOK ==
    /\ active \in Nat
    /\ circuit.failures \in 0..FailureThreshold
    /\ \A c \in providerCalls :
          c.pc \in {"waiting", "woken", "running"} /\ c.attempt \in 1..MaxAttempts

WithPc(pc) == {c \in providerCalls : c.pc = pc}

(* No call waits for nobody: while the queue is not empty, enough calls    *)
(* hold a place, or are about to take one, that each waiting call has some *)
(* release to come, although callers that did not wait slip in between a   *)
(* release and the call it woke.                                           *)
NoLostWakeup ==
    /\ waiters # <<>> => active + Cardinality(WithPc("woken")) >= PoolSize
    /\ {waiters[i] : i \in DOMAIN waiters} = {c.id : c \in WithPc("waiting")}
    /\ active = Cardinality(WithPc("running"))

(* provider-resilience.md: "concurrency limits".  A call that slips in     *)
(* between a release and the call it woke exceeds the limit, and as nobody *)
(* looks at active when a call resumes, the excess may grow with every     *)
(* round of releases.                                                      *)
PoolIsBounded == active <= PoolSize
=============================================================================
