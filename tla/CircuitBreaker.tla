--------------------------- MODULE CircuitBreaker ---------------------------
(***************************************************************************)
(* The per-source circuit breaker (manager/circuit_breaker.py) as a record *)
(* and the functions its three methods compute.  Each method holds the     *)
(* breaker's lock from its first to its last read or write, so each is one *)
(* step.  "age" is the time since _opened_at, which only matters up to     *)
(* recovery_seconds, and _failures only matters up to the threshold: both  *)
(* stop counting there.                                                    *)
(***************************************************************************)
EXTENDS Integers

CONSTANTS FailureThreshold,   \* CircuitPolicy.failure_threshold
          RecoverySeconds,    \* CircuitPolicy.recovery_seconds
          FailureCap          \* where the failure count stops counting

\* The policy has no validation, so a threshold may also be zero or less.
ASSUME PolicyAssumption ==
    /\ FailureThreshold \in Int
    /\ RecoverySeconds \in Nat
    /\ FailureCap \in Nat \ {0}
    /\ FailureThreshold <= FailureCap

Breakers == [state : {"closed", "open", "half_open"},
             failures : 0..FailureCap,
             age : 0..RecoverySeconds]

NewBreaker == [state |-> "closed", failures |-> 0, age |-> RecoverySeconds]

MutRefusesForever(b) == b.state = "open"

MutRefusesTooShort(b) == b.state = "open" /\ b.age + 1 < RecoverySeconds

\* before() raises CircuitOpen.
Refuses(b) == b.state = "open" /\ b.age < RecoverySeconds

\* before() lets the call through: an open breaker becomes half open.
Before(b) == IF b.state = "open" THEN [b EXCEPT !.state = "half_open"] ELSE b

MutSuccessKeepsCount(b) == [b EXCEPT !.state = "closed"]

\* on_success
OnSuccess(b) == [state |-> "closed", failures |-> 0, age |-> b.age]

\* on_failure
OnFailure(b) ==
    LET n == IF b.failures < FailureCap THEN b.failures + 1 ELSE FailureCap
    IN  IF b.state = "half_open" \/ n >= FailureThreshold
        THEN [state |-> "open", failures |-> n, age |-> 0]
        ELSE [b EXCEPT !.failures = n]

\* time.monotonic() moves on.
Elapse(b) == IF b.age < RecoverySeconds THEN [b EXCEPT !.age = @ + 1] ELSE b
=============================================================================
