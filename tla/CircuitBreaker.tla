--------------------------- MODULE CircuitBreaker ---------------------------
(***************************************************************************)
(* resilience/circuit_breaker.py as functions of a breaker.  The lock of a *)
(* breaker is never held across a suspension, so each method is one step.  *)
(* Of the clock only this matters: has the recovery timeout passed since   *)
(* the breaker opened (`cooled`)?                                          *)
(***************************************************************************)
EXTENDS Integers

CONSTANTS FailureThreshold, HalfOpenMaxCalls

ASSUME BreakerAssumption ==
  FailureThreshold \in Nat \ {0} /\ HalfOpenMaxCalls \in Nat \ {0}

CircuitState == {"CLOSED", "OPEN", "HALF_OPEN"}

Breaker == [state : CircuitState, failures : Nat, probes : Nat, cooled : BOOLEAN]

NewBreaker == [state |-> "CLOSED", failures |-> 0, probes |-> 0, cooled |-> FALSE]

\* _before_call() does not raise CircuitOpenError.
Admits(b) ==
  \/ b.state = "CLOSED"
  \/ b.state = "OPEN" /\ b.cooled
  \/ b.state = "HALF_OPEN" /\ b.probes < HalfOpenMaxCalls

\* The breaker after an admitted _before_call(), whose result is its state.
BeforeCall(b) ==
  CASE b.state = "CLOSED"    -> b
    [] b.state = "OPEN"      -> [b EXCEPT !.state = "HALF_OPEN", !.probes = 1]
    [] b.state = "HALF_OPEN" -> [b EXCEPT !.probes = @ + 1]

\* One probe less; a count that is already zero stays so.
ProbeOver(n) == IF n = 0 THEN 0 ELSE n - 1

\* Mutant: a probe that succeeds only resets the count of failures.
RecordSuccessKeepsSlot(b, start) == [b EXCEPT !.failures = 0]

RecordSuccess(b, start) ==
  IF start = "HALF_OPEN"
  THEN [state |-> "CLOSED", failures |-> 0, probes |-> ProbeOver(b.probes), cooled |-> FALSE]
  ELSE [b EXCEPT !.failures = 0]

\* A failed probe opens the breaker; so does the failure that fills the count,
\* whatever the state is by then.
RecordFailure(b, start) ==
  CASE start = "HALF_OPEN" ->
         [state |-> "OPEN", failures |-> FailureThreshold,
          probes |-> ProbeOver(b.probes), cooled |-> FALSE]
    [] start # "HALF_OPEN" /\ b.failures + 1 >= FailureThreshold ->
         [b EXCEPT !.state = "OPEN", !.failures = @ + 1, !.cooled = FALSE]
    [] OTHER -> [b EXCEPT !.failures = @ + 1]

\* The recovery timeout passes.
Cooled(b) == [b EXCEPT !.cooled = TRUE]
=============================================================================
