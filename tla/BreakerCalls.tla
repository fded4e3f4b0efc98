---------------------------- MODULE BreakerCalls ----------------------------
(***************************************************************************)
(* One circuit breaker and the runs that share it: up to max_parallelism   *)
(* runs of a source are under way at once in a worker, each passes         *)
(* before(), and reports on_success() or on_failure() when it ends, or     *)
(* nothing when it is cancelled.                                           *)
(***************************************************************************)
EXTENDS CircuitBreaker

CONSTANT Callers

VARIABLES breaker, call

vars == <<breaker, call>>

Init ==
    /\ breaker = NewBreaker
    /\ call = [c \in Callers |-> "idle"]

\* A refused caller returns FAILED at once and changes nothing.
Enter(c) ==
    /\ call[c] = "idle"
    /\ ~Refuses(breaker)
    /\ breaker' = Before(breaker)
    /\ call' = [call EXCEPT ![c] = "running"]

Leave(c) == call[c] = "running" /\ call' = [call EXCEPT ![c] = "idle"]

Succeed(c) == Leave(c) /\ breaker' = OnSuccess(breaker)
Fail(c) == Leave(c) /\ breaker' = OnFailure(breaker)

\* CancelledError passes both except clauses of execute().
Vanish(c) == Leave(c) /\ UNCHANGED breaker

Tick == breaker' = Elapse(breaker) /\ UNCHANGED call

Next ==
    \/ \E c \in Callers : Enter(c) \/ Succeed(c) \/ Fail(c) \/ Vanish(c)
    \/ Tick

Spec == Init /\ [][Next]_vars

\* Time passes, and the scheduler goes on starting runs of the source.
FairSpec ==
    /\ Spec
    /\ WF_vars(Tick)
    /\ WF_vars(\E c \in Callers : Enter(c))
    /\ \A c \in Callers : WF_vars(Succeed(c) \/ Fail(c) \/ Vanish(c))

\* The breaker and the calls have their types.
TypeOK == breaker \in Breakers /\ call \in [Callers -> {"idle", "running"}]

\* The count and the state agree, in whatever order overlapping runs report:
\* a closed breaker has not reached the threshold (a further failure is what
\* opens it), and one that is open or half open remembers a failure.
CountMatchesState ==
    /\ breaker.state = "closed" =>
          breaker.failures = 0 \/ breaker.failures < FailureThreshold
    /\ breaker.state # "closed" => breaker.failures > 0

\* A source is never shut out for good: an open breaker is tried again after
\* recovery_seconds, even if late failures keep moving _opened_at.
NotStuckOpen == breaker.state = "open" ~> breaker.state # "open"
=============================================================================
