--------------------------- MODULE BreakerProofs ---------------------------
(***************************************************************************)
(* Proofs about the circuit breaker, for every policy and any number of    *)
(* overlapping runs.                                                       *)
(***************************************************************************)
EXTENDS BreakerCalls, TLAPS

BreakerInv == TypeOK /\ CountMatchesState

\* What each method does to a breaker whose count and state agree.
Sound(b) ==
    /\ b \in Breakers
    /\ b.state = "closed" => b.failures = 0 \/ b.failures < FailureThreshold
    /\ b.state # "closed" => b.failures > 0

LEMMA MethodsSound ==
    ASSUME NEW b, Sound(b)
    PROVE  Sound(Before(b)) /\ Sound(OnSuccess(b)) /\ Sound(OnFailure(b)) /\ Sound(Elapse(b))
<1> USE PolicyAssumption
<1>1. Sound(Before(b))
  BY DEF Sound, Before, Breakers
<1>2. Sound(OnSuccess(b))
  BY DEF Sound, OnSuccess, Breakers
<1>3. Sound(OnFailure(b))
  <2> DEFINE n == IF b.failures < FailureCap THEN b.failures + 1 ELSE FailureCap
  <2>1. n \in 0..FailureCap /\ n > 0
    BY DEF Sound, Breakers
  <2>2. CASE b.state = "half_open" \/ n >= FailureThreshold
    BY <2>1, <2>2 DEF Sound, OnFailure, Breakers
  <2>3. CASE ~(b.state = "half_open" \/ n >= FailureThreshold)
    BY <2>1, <2>3 DEF Sound, OnFailure, Breakers
  <2> QED BY <2>2, <2>3
<1>4. Sound(Elapse(b))
  BY DEF Sound, Elapse, Breakers
<1> QED BY <1>1, <1>2, <1>3, <1>4

\* In every order in which overlapping runs enter, report or are cancelled,
\* the failure count and the breaker's state agree.
THEOREM CountAlwaysMatches == Spec => []CountMatchesState
<1>1. Init => BreakerInv
  BY PolicyAssumption DEF Init, BreakerInv, TypeOK, CountMatchesState, NewBreaker, Breakers
<1>2. BreakerInv /\ [Next]_vars => BreakerInv'
  <2> SUFFICES ASSUME BreakerInv, [Next]_vars PROVE BreakerInv'
    OBVIOUS
  <2>1. Sound(breaker)
    BY DEF BreakerInv, TypeOK, CountMatchesState, Sound
  <2>2. Sound(breaker')
    BY <2>1, MethodsSound
       DEF Next, Enter, Succeed, Fail, Vanish, Tick, vars
  <2>3. call' \in [Callers -> {"idle", "running"}]
    BY DEF BreakerInv, TypeOK, Next, Enter, Succeed, Fail, Vanish, Leave, Tick, vars
  <2> QED BY <2>2, <2>3 DEF BreakerInv, TypeOK, CountMatchesState, Sound
<1>3. BreakerInv => CountMatchesState
  BY DEF BreakerInv
<1> QED BY <1>1, <1>2, <1>3, PTL DEF Spec
=============================================================================
