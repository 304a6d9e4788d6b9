---------------------------- MODULE CircuitBreaker ----------------------------
(***************************************************************************)
(* resilience.CircuitBreaker under the threads that share it.              *)
(*                                                                         *)
(* call() holds the lock twice, once to admit the call and once to record  *)
(* its outcome; the guarded function runs between the two without it.      *)
(* Each locked region is one step here, and so is the function's return,   *)
(* which decides the outcome before the lock is taken again.               *)
(***************************************************************************)
EXTENDS BreakerOps, FiniteSets

CONSTANT Threads    \* those that may share a breaker

VARIABLES callers,     \* the threads that do
          shared,      \* the breaker: _state, _failure_count and what is left of the cooldown
          at,          \* at[t]: where thread t is in call()
          outcome,     \* outcome[t]: how t's last call() ended, as its caller sees it
          serviceUp    \* external: whether the guarded service answers

breakerVars == <<callers, shared, at, outcome, serviceUp>>

\* "trial" is a call admitted in HALF_OPEN, "calling" one admitted in CLOSED.
InFunc == {"calling", "trial"}
Recording == {"returned", "raised"}

BreakerTypeOK ==
  /\ callers \subseteq Threads
  /\ shared \in Breaker
  /\ at \in [Threads -> {"idle"} \cup InFunc \cup Recording]
  /\ outcome \in [Threads -> {"none", "ok", "error", "rejected"}]
  /\ serviceUp \in BOOLEAN

BreakerInit ==
  /\ callers \in SUBSET Threads \ {{}}
  /\ shared = NewBreaker
  /\ at = [t \in Threads |-> "idle"]
  /\ outcome = [t \in Threads |-> "none"]
  /\ serviceUp = TRUE

(***************************************************************************)
(* The steps of call()                                                     *)
(***************************************************************************)
Admit(t) ==
  /\ at[t] = "idle" /\ ~Rejects(shared)
  /\ shared' = Resolve(shared)
  /\ at' = [at EXCEPT ![t] = IF shared'.state = "HALF_OPEN" THEN "trial" ELSE "calling"]
  /\ UNCHANGED <<callers, outcome, serviceUp>>

Reject(t) ==
  /\ at[t] = "idle" /\ Rejects(shared)
  /\ outcome' = [outcome EXCEPT ![t] = "rejected"]
  /\ UNCHANGED <<callers, shared, at, serviceUp>>

Execute(t) ==
  /\ at[t] \in InFunc
  /\ at' = [at EXCEPT ![t] = IF serviceUp THEN "returned" ELSE "raised"]
  /\ UNCHANGED <<callers, shared, outcome, serviceUp>>

FinishOk(t) ==
  /\ at[t] = "returned"
  /\ shared' = RecordSuccess(shared)
  /\ at' = [at EXCEPT ![t] = "idle"]
  /\ outcome' = [outcome EXCEPT ![t] = "ok"]
  /\ UNCHANGED <<callers, serviceUp>>

FinishError(t) ==
  /\ at[t] = "raised"
  /\ shared' = RecordFailure(shared)
  /\ at' = [at EXCEPT ![t] = "idle"]
  /\ outcome' = [outcome EXCEPT ![t] = "error"]
  /\ UNCHANGED <<callers, serviceUp>>

\* The state property: a health check that looks may move OPEN to HALF_OPEN.
ReadState ==
  /\ shared' = Resolve(shared)
  /\ UNCHANGED <<callers, at, outcome, serviceUp>>

(***************************************************************************)
(* The environment                                                         *)
(***************************************************************************)
CooldownTicks ==
  /\ shared.cool > 0
  /\ shared' = Elapse(shared)
  /\ UNCHANGED <<callers, at, outcome, serviceUp>>

ServiceChanges ==
  /\ serviceUp' = ~serviceUp
  /\ UNCHANGED <<callers, shared, at, outcome>>

Call(t) ==
  /\ t \in callers
  /\ Admit(t) \/ Reject(t) \/ Execute(t) \/ FinishOk(t) \/ FinishError(t)

BreakerNext == (\E t \in Threads : Call(t)) \/ ReadState \/ CooldownTicks \/ ServiceChanges

BreakerSpec == BreakerInit /\ [][BreakerNext]_breakerVars

\* A thread that uses the breaker keeps calling, a call ends (the client has
\* timeouts), and time passes.
BreakerFairness == WF_breakerVars(CooldownTicks) /\ \A t \in Threads : WF_breakerVars(Call(t))

FairBreakerSpec == BreakerSpec /\ BreakerFairness

(***************************************************************************)
(* Safety                                                                  *)
(***************************************************************************)

\* A CLOSED breaker always has a failure to spare: whatever the interleaving
\* of recorded outcomes, it is never CLOSED with a count that should have
\* opened it (_record_success resets, _record_failure trips).
ClosedBelowThreshold ==
  shared.state = "CLOSED" => shared.failures < FailureThreshold

OneCaller == \A t, u \in callers : t = u

\* While the cooldown runs the breaker is OPEN and no call to the service is
\* in flight or waiting to be recorded.  With one caller, as in the ingest
\* consumer, this is what "stops hammering a database that is down" means.
QuietCooldown ==
  OneCaller /\ shared.cool > 0 =>
    shared.state = "OPEN" /\ \A t \in Threads : at[t] = "idle"

(***************************************************************************)
(* Liveness                                                                *)
(***************************************************************************)

\* Once the service stays up, the breaker ends up CLOSED for good: no stale
\* failure and no lost HALF_OPEN transition can keep callers rejected.
RecoversForGood == <>[]serviceUp => <>[](shared.state = "CLOSED")

(***************************************************************************)
(* With one caller the breaker implements LoadShedding                     *)
(***************************************************************************)
Busy == \E t \in Threads : at[t] # "idle"

\* With several callers the mapping stands still: nothing is claimed of them.
Alone(x, y) == IF OneCaller THEN x ELSE y

Shedding == INSTANCE LoadShedding WITH
  Budget <- FailureThreshold,
  Quiet  <- ResetTimeout,
  phase  <- Alone(CASE shared.state = "CLOSED" -> "flowing"
                    [] shared.state = "HALF_OPEN" /\ Busy -> "probing"
                    [] OTHER -> "shedding",
                  "flowing"),
  budget <- Alone(IF shared.state = "CLOSED" THEN FailureThreshold - shared.failures ELSE 0,
                  FailureThreshold),
  wait   <- Alone(shared.cool, 0)

\* The service sees the abstract promise: at most FailureThreshold failures in
\* a row, then silence for ResetTimeout, then one probe at a time.
ShedsLoad == Shedding!Spec
===============================================================================
