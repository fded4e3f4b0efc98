----------------------------- MODULE IdealBucket -----------------------------
(***************************************************************************)
(* What a token bucket promises: it fills by Rate a tick up to Burst, and  *)
(* a call goes through only by taking its whole cost out of it.            *)
(***************************************************************************)
EXTENDS Integers

CONSTANTS Callers, Cost, Rate, Burst

VARIABLE level   \* tokens in the bucket at this very moment

IdealInit == level = Burst

Refill == level' = IF level + Rate < Burst THEN level + Rate ELSE Burst

Grant(c) == level >= Cost[c] /\ level' = level - Cost[c]

IdealNext == Refill \/ \E c \in Callers : Grant(c)

Ideal == IdealInit /\ [][IdealNext]_level
=============================================================================
