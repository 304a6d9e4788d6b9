------------------------------ MODULE BreakerOps ------------------------------
(***************************************************************************)
(* The critical sections of resilience.CircuitBreaker, each as a function  *)
(* from the breaker to the breaker.  CircuitBreaker interleaves them over  *)
(* threads; TelemetryIngest calls them from the one ingest thread.         *)
(*                                                                         *)
(* Two values are abstracted.  `cool' is what is left of the cooldown,     *)
(* where the code keeps opened_at and subtracts it from the clock.         *)
(* `failures' saturates at FailureThreshold: the code compares the counter *)
(* with the threshold and otherwise only logs it.                          *)
(***************************************************************************)
EXTENDS Naturals

CONSTANTS FailureThreshold,   \* failure_threshold
          ResetTimeout        \* reset_timeout_s, in units of the model's clock

ASSUME BreakerAssumption ==
  /\ FailureThreshold \in Nat \ {0}
  /\ ResetTimeout \in Nat

Breaker == [state    : {"CLOSED", "OPEN", "HALF_OPEN"},
            failures : 0..FailureThreshold,
            cool     : 0..ResetTimeout]

NewBreaker == [state |-> "CLOSED", failures |-> 0, cool |-> 0]

\* Defect: without the test of the cooldown.
MutResolveTooSoon(b) == IF b.state = "OPEN" THEN [b EXCEPT !.state = "HALF_OPEN"] ELSE b

\* _resolve_state: an OPEN breaker whose cooldown has run out turns HALF_OPEN
\* when somebody looks, not by itself.
Resolve(b) ==
  IF b.state = "OPEN" /\ b.cool = 0 THEN [b EXCEPT !.state = "HALF_OPEN"] ELSE b

\* Defect: call() does not resolve the state first.
MutRejectsUnresolved(b) == b.state = "OPEN"

\* call() raises CircuitBreakerOpenError without calling the function.
Rejects(b) == Resolve(b).state = "OPEN"

\* Defect: without the reset of the count.
MutSuccessKeepsCount(b) == [b EXCEPT !.state = "CLOSED"]

RecordSuccess(b) == [state |-> "CLOSED", failures |-> 0, cool |-> b.cool]

OneMoreFailure(b) == IF b.failures < FailureThreshold THEN b.failures + 1 ELSE b.failures

\* Defect: a failed trial does not open the breaker again.
MutFailureKeepsHalfOpen(b) ==
  IF OneMoreFailure(b) >= FailureThreshold /\ b.state = "CLOSED"
  THEN [state |-> "OPEN", failures |-> OneMoreFailure(b), cool |-> ResetTimeout]
  ELSE [b EXCEPT !.failures = OneMoreFailure(b)]

RecordFailure(b) ==
  IF b.state = "HALF_OPEN" \/ OneMoreFailure(b) >= FailureThreshold
  THEN [state |-> "OPEN", failures |-> OneMoreFailure(b), cool |-> ResetTimeout]
  ELSE [b EXCEPT !.failures = OneMoreFailure(b)]

\* The clock moves by one unit; only the remaining cooldown can see it.
Elapse(b) == [b EXCEPT !.cool = IF @ > 0 THEN @ - 1 ELSE 0]
===============================================================================
