--------------------------- MODULE CircuitBreaker ---------------------------
(***************************************************************************)
(* The circuit breaker kept for one upstream server                        *)
(* (internal/resolver/circuit_breaker.go).  A breaker is a value: every    *)
(* method of the Go type runs under the breaker's mutex, so it is one      *)
(* function from the breaker before to the breaker after.  The clock is    *)
(* abstracted to the time elapsed since lastFailureTime, because that      *)
(* difference is all that Allow looks at.                                  *)
(***************************************************************************)
EXTENDS Integers

States == {"closed", "open", "half_open"}

(* The tunables of a breaker: CB_FAILURE_THRESHOLD, CB_SUCCESS_THRESHOLD   *)
(* and CB_OPEN_TIMEOUT.                                                    *)
Thresholds ==
    [failureThreshold : Nat \ {0}, successThreshold : Nat \ {0}, openTimeout : Nat \ {0}]

Breakers ==
    [state : States, failures : Nat, successes : Nat, elapsed : Nat, limits : Thresholds]

NewCircuitBreaker(limits) ==
    [state |-> "closed", failures |-> 0, successes |-> 0, elapsed |-> 0, limits |-> limits]

(* An open circuit lets a request through once openTimeout has elapsed.    *)
Allows(b) == b.state = "open" => b.elapsed >= b.limits.openTimeout

(* Allow: the request that finds the timeout elapsed moves the circuit to  *)
(* half_open; every other call leaves the breaker as it is.                *)
Allow(b) ==
    IF b.state = "open" /\ Allows(b)
    THEN [b EXCEPT !.state = "half_open", !.successes = 0]
    ELSE b

Trip(b) == [b EXCEPT !.state = "open", !.elapsed = 0, !.successes = 0]

(* Mutant: a success in the closed state keeps the failure count.          *)
OnSuccess_KeepsFailures(b) ==
    CASE b.state = "half_open" /\ b.successes + 1 >= b.limits.successThreshold ->
           [b EXCEPT !.state = "closed", !.failures = 0, !.successes = 0]
      [] b.state = "half_open" /\ b.successes + 1 < b.limits.successThreshold ->
           [b EXCEPT !.successes = b.successes + 1]
      [] OTHER -> b

OnSuccess(b) ==
    CASE b.state = "closed" -> [b EXCEPT !.failures = 0]
      [] b.state = "half_open" ->
           IF b.successes + 1 >= b.limits.successThreshold
           THEN [b EXCEPT !.state = "closed", !.failures = 0, !.successes = 0]
           ELSE [b EXCEPT !.successes = b.successes + 1]
      [] b.state = "open" -> b

(* Mutant: a failed probe leaves the circuit half open.                    *)
OnFailure_ToleratesProbe(b) ==
    CASE b.state = "closed" ->
           LET counted == [b EXCEPT !.failures = b.failures + 1]
           IN  IF counted.failures >= b.limits.failureThreshold THEN Trip(counted) ELSE counted
      [] b.state = "half_open" -> b
      [] b.state = "open" -> [b EXCEPT !.elapsed = 0]

OnFailure(b) ==
    CASE b.state = "closed" ->
           LET counted == [b EXCEPT !.failures = b.failures + 1]
           IN  IF counted.failures >= b.limits.failureThreshold THEN Trip(counted) ELSE counted
      [] b.state = "half_open" ->
           [Trip(b) EXCEPT !.failures = b.limits.failureThreshold]
      [] b.state = "open" -> [b EXCEPT !.elapsed = 0]

(* Runtime settings replace the tunables and keep state and counters.      *)
UpdateConfig(b, limits) == [b EXCEPT !.limits = limits]

(* One unit of time passes; past the horizon the exact age is irrelevant.  *)
Age(b, horizon) == [b EXCEPT !.elapsed = IF b.elapsed < horizon THEN b.elapsed + 1 ELSE b.elapsed]
=============================================================================
