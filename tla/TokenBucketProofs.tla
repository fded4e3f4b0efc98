-------------------------- MODULE TokenBucketProofs --------------------------
(***************************************************************************)
(* The in-process token bucket implements the ideal one and keeps to its   *)
(* rate through every window of time, for any number of callers, costs,    *)
(* rates and burst sizes.                                                  *)
(***************************************************************************)
EXTENDS BucketWindow, TLAPS

\* A product over a tick and over an interval, for the refills.
LEMMA Distributes ==
    ASSUME NEW a \in Nat
    PROVE  Rate * (a + 1) = Rate * a + Rate /\ Rate * a \in Nat /\ Rate * 0 = 0
BY BucketAssumption

\* _try_local finds the tokens the ideal bucket holds.
LEMMA FilledIsLevel == Filled(age) = Level
BY DEF Filled, Level

LEMMA LevelType ==
    ASSUME TypeOK
    PROVE  Level \in 0..Burst
<1>1. age \in Nat /\ tokens \in Nat
  BY BucketAssumption DEF TypeOK
<1>2. Rate * age \in Nat
  BY <1>1, Distributes
<1> QED BY <1>1, <1>2, BucketAssumption DEF Level

\* The same after a step.
LEMMA LevelTypeNext ==
    ASSUME TypeOK'
    PROVE  Level' \in 0..Burst
<1>1. age' \in Nat /\ tokens' \in Nat
  BY BucketAssumption DEF TypeOK
<1>2. Rate * age' \in Nat
  BY <1>1, Distributes
<1>3. \/ Level' = tokens' + Rate * age' /\ tokens' + Rate * age' < Burst
      \/ Level' = Burst
  BY Zenon DEF Level
<1>4. Burst \in Nat
  BY BucketAssumption
<1>5. CASE Level' = Burst
  BY <1>4, <1>5
<1>6. CASE Level' = tokens' + Rate * age' /\ tokens' + Rate * age' < Burst
  BY <1>1, <1>2, <1>4, <1>6
<1> QED BY <1>3, <1>5, <1>6

LEMMA WaitType ==
    ASSUME NEW c \in Callers, NEW l \in 0..Burst, l < Cost[c]
    PROVE  Wait(c, l) \in Nat
<1>1. Cost[c] \in Nat /\ Rate \in Nat \ {0} /\ l \in Nat
  BY BucketAssumption
<1>2. Cost[c] - l + Rate - 1 \in Nat
  BY <1>1
<1> QED BY <1>1, <1>2 DEF Wait

-----------------------------------------------------------------------------
LEMMA InitTypeOK == Init => TypeOK
<1> SUFFICES ASSUME Init PROVE TypeOK
  OBVIOUS
<1>1. exists \in BOOLEAN
  BY Zenon DEF Init
<1>2. tokens \in 0..Burst /\ age \in 0..AgeCap
  BY BucketAssumption DEF Init
<1>3. /\ pc \in [Callers -> {"idle", "try", "asleep"}]
      /\ sleep \in [Callers -> Nat]
  BY BucketAssumption DEF Init
<1> QED BY <1>1, <1>2, <1>3 DEF TypeOK

LEMMA StepInv == TypeOK /\ [Next]_vars => TypeOK'
<1> SUFFICES ASSUME TypeOK, [Next]_vars PROVE TypeOK'
  OBVIOUS
<1> USE BucketAssumption
<1>1. ASSUME NEW c \in Callers, Acquire(c) PROVE TypeOK'
  BY <1>1 DEF Acquire, TypeOK
<1>2. ASSUME NEW c \in Callers, TryLocal(c) PROVE TypeOK'
  <2>1. Level \in 0..Burst /\ Filled(age) = Level
    BY LevelType, FilledIsLevel
  <2>3. CASE Level >= Cost[c]
    <3>1. /\ tokens' = Level - Cost[c]
          /\ pc' = [pc EXCEPT ![c] = "idle"] /\ sleep' = sleep
      BY <1>2, <2>1, <2>3 DEF TryLocal, TakeOrSleep
    <3>2. tokens' \in 0..Burst
      BY <2>1, <2>3, <3>1
    <3> QED BY <1>2, <3>1, <3>2 DEF TryLocal, TypeOK
  <2>4. CASE ~(Level >= Cost[c])
    <3>1. /\ tokens' = Level /\ sleep' = [sleep EXCEPT ![c] = Wait(c, Level)]
          /\ pc' = [pc EXCEPT ![c] = "asleep"]
      BY <1>2, <2>1, <2>4 DEF TryLocal, TakeOrSleep
    <3>2. Wait(c, Level) \in Nat
      BY <2>1, <2>4, WaitType
    <3> QED BY <1>2, <2>1, <3>1, <3>2 DEF TryLocal, TypeOK
  <2> QED BY <2>3, <2>4
<1>3. ASSUME NEW c \in Callers, Wake(c) PROVE TypeOK'
  BY <1>3 DEF Wake, TypeOK
<1>4. CASE Tick
  BY <1>4 DEF Tick, TypeOK
<1>5. CASE UNCHANGED vars
  BY <1>5 DEF vars, TypeOK
<1> QED BY <1>1, <1>2, <1>3, <1>4, <1>5 DEF Next, Step

-----------------------------------------------------------------------------
(* The refinement.                                                         *)

LEMMA InitRefines == Init => IB!IdealInit
BY DEF Init, IB!IdealInit, Level

LEMMA TickRefills ==
    ASSUME TypeOK, Tick
    PROVE  IB!Refill
<1> USE BucketAssumption
<1>1. age \in Nat /\ tokens \in Nat /\ age <= AgeCap
  BY DEF TypeOK
<1>2. Rate * (age + 1) = Rate * age + Rate /\ Rate * age \in Nat
  BY <1>1, Distributes
<1>3. exists' = exists /\ tokens' = tokens
  BY DEF Tick
<1>4. CASE age < AgeCap
  <2>1. age' = age + 1
    BY <1>4 DEF Tick
  <2>2. Rate * age' = Rate * age + Rate
    BY <1>2, <2>1
  <2> QED BY <1>1, <1>2, <1>3, <2>2 DEF IB!Refill, Level
<1>5. CASE ~(age < AgeCap)
  <2>1. age = AgeCap /\ age' = AgeCap
    BY <1>1, <1>5 DEF Tick
  <2>2. Rate * age >= Burst
    BY <2>1
  <2> QED BY <1>1, <1>2, <1>3, <2>1, <2>2 DEF IB!Refill, Level
<1> QED BY <1>4, <1>5

\* A call that goes through takes its cost out of the ideal bucket, and one
\* that is sent to sleep found less in it.
LEMMA TryRefines ==
    ASSUME TypeOK, NEW c \in Callers, TryLocal(c)
    PROVE  \/ Returns(c) /\ Level >= Cost[c] /\ Level' = Level - Cost[c]
           \/ pc'[c] = "asleep" /\ Level < Cost[c] /\ Level' = Level
<1> USE BucketAssumption
<1>1. Level \in 0..Burst /\ Filled(age) = Level
  BY LevelType, FilledIsLevel
<1>2. exists' = TRUE /\ age' = 0 /\ Rate * 0 = 0 /\ pc[c] = "try"
  BY Distributes DEF TryLocal
<1>3. ASSUME tokens' \in 0..Burst PROVE Level' = tokens'
  <2>1. Rate * age' = 0
    BY <1>2
  <2>2. tokens' + Rate * age' = tokens'
    BY <1>3, <2>1
  <2>3. exists'
    BY <1>2, Zenon
  <2>4. Level' = IF tokens' + Rate * age' < Burst THEN tokens' + Rate * age' ELSE Burst
    BY <2>3, Zenon DEF Level
  <2>5. tokens' \in Int /\ Burst \in Int /\ tokens' <= Burst
    BY <1>3
  <2> QED BY <2>2, <2>4, <2>5
<1>4. CASE Level >= Cost[c]
  <2>1. tokens' = Level - Cost[c] /\ pc'[c] = "idle"
    BY <1>1, <1>4 DEF TryLocal, TakeOrSleep, TypeOK
  <2>2. tokens' \in 0..Burst
    BY <1>1, <1>4, <2>1
  <2>3. Level' = Level - Cost[c]
    BY <1>3, <2>1, <2>2
  <2> QED BY <1>2, <1>4, <2>1, <2>3 DEF Returns
<1>5. CASE ~(Level >= Cost[c])
  <2>1. tokens' = Level /\ pc'[c] = "asleep"
    BY <1>1, <1>5 DEF TryLocal, TakeOrSleep, TypeOK
  <2>2. Level' = Level
    BY <1>1, <1>3, <2>1
  <2>3. Level < Cost[c]
    BY <1>1, <1>5
  <2> QED BY <2>1, <2>2, <2>3
<1> QED BY <1>4, <1>5

LEMMA StepRefines == TypeOK /\ [Next]_vars => [IB!IdealNext]_Level
<1> SUFFICES ASSUME TypeOK, [Next]_vars
             PROVE  IB!IdealNext \/ UNCHANGED Level
  OBVIOUS
<1>1. ASSUME NEW c \in Callers, Acquire(c) PROVE UNCHANGED Level
  BY <1>1 DEF Acquire, Level
<1>2. ASSUME NEW c \in Callers, TryLocal(c) PROVE IB!IdealNext \/ UNCHANGED Level
  BY <1>2, TryRefines DEF IB!IdealNext, IB!Grant
<1>3. ASSUME NEW c \in Callers, Wake(c) PROVE UNCHANGED Level
  BY <1>3 DEF Wake, Level
<1>4. CASE Tick
  BY <1>4, TickRefills DEF IB!IdealNext
<1>5. CASE UNCHANGED vars
  BY <1>5 DEF vars, Level
<1> QED BY <1>1, <1>2, <1>3, <1>4, <1>5 DEF Next, Step

\* Only _try_local, called by the caller itself, ends a try.
LEMMA TriesEnd ==
    ASSUME TypeOK, [Next]_vars, NEW c \in Callers, pc[c] = "try", pc'[c] # "try"
    PROVE  TryLocal(c)
BY DEF Next, Step, Acquire, TryLocal, TakeOrSleep, Wake, Tick, vars, TypeOK

LEMMA StepRefuses ==
    ASSUME TypeOK, [Next]_vars, NEW c \in Callers, pc[c] = "try", pc'[c] = "asleep"
    PROVE  Level < Cost[c]
<1>1. TryLocal(c)
  BY TriesEnd
<1> QED BY <1>1, TryRefines DEF Returns

\* The lazily refilled bucket of ratelimit.py admits what the ideal bucket
\* admits, and refuses only what that bucket does not hold.
THEOREM LazyRefillIsIdeal == Spec => BucketIsIdeal
<1>1. TypeOK /\ [Next]_vars =>
        [\A c \in Callers : pc[c] = "try" /\ pc'[c] = "asleep" => Level < Cost[c]]_vars
  BY StepRefuses
<1> QED BY <1>1, InitTypeOK, StepInv, InitRefines, StepRefines, PTL
        DEF Spec, BucketIsIdeal, IB!Ideal

-----------------------------------------------------------------------------
(* Costs beyond the burst size.                                            *)

LEMMA StepOversized ==
    ASSUME TypeOK, [Next]_vars, NEW c \in Callers, Cost[c] > Burst
    PROVE  ~Returns(c)
<1> SUFFICES ASSUME Returns(c) PROVE FALSE
  OBVIOUS
<1>1. TryLocal(c)
  BY TriesEnd DEF Returns
<1>2. Level >= Cost[c]
  BY <1>1, TryRefines DEF Returns
<1> QED BY <1>2, LevelType, BucketAssumption

\* Block until `cost` tokens are available, in ratelimit.py, means for ever
\* when the cost is larger than the burst: min(burst, ...) caps every refill.
THEOREM OversizedBlocksForever == Spec => OversizedNeverReturns
<1>1. TypeOK /\ [Next]_vars =>
        [\A c \in Callers : Cost[c] > Burst => ~Returns(c)]_vars
  BY StepOversized
<1> QED BY <1>1, InitTypeOK, StepInv, PTL DEF Spec, OversizedNeverReturns

-----------------------------------------------------------------------------
(* Windows.  WithinRate is not inductive: what the bucket still holds could *)
(* be taken in the next step, so it has to be within the allowance as well. *)

WindowInv ==
    /\ span \in Nat
    /\ admitted \in Nat
    /\ admitted + Level <= Burst + Rate * span

\* The history variables do not get in the limiter's way.
LEMMA WindowOnlyRecords == [WindowNext]_windowVars => [Next]_vars
BY DEF WindowNext, WindowStep, WindowTick, Open, Next, windowVars, vars

\* So what holds of the limiter holds of the recorded one.
LEMMA WindowSpecIsSpec == WindowSpec => Spec
<1>1. WindowInit => Init
  BY DEF WindowInit
<1> QED BY <1>1, WindowOnlyRecords, PTL DEF WindowSpec, Spec

LEMMA InitWindowInv == WindowInit => WindowInv
<1> SUFFICES ASSUME WindowInit PROVE WindowInv
  OBVIOUS
<1>1. span = 0 /\ admitted = 0 /\ Level \in 0..Burst
  BY InitTypeOK, LevelType DEF WindowInit
<1>2. Rate * span = 0
  BY <1>1, Distributes
<1> QED BY <1>1, <1>2, BucketAssumption DEF WindowInv

\* A new window finds at most a full bucket.
LEMMA FreshWindow ==
    ASSUME TypeOK', span' = 0, admitted' = 0
    PROVE  WindowInv'
<1>1. Level' \in 0..Burst
  BY LevelTypeNext
<1>2. Rate * span' = 0
  BY Distributes
<1>3. admitted' + Level' <= Burst + Rate * span'
  <2>1. Burst \in Nat
    BY BucketAssumption
  <2>2. PICK l \in Nat : l = Level'
    BY <1>1, <2>1
  <2>3. l <= Burst
    BY <1>1, <2>1, <2>2
  <2>4. 0 + l <= Burst + 0
    BY <2>1, <2>3
  <2> QED BY <1>2, <2>2, <2>4
<1>4. span' \in Nat /\ admitted' \in Nat
  OBVIOUS
<1> QED BY <1>3, <1>4, Zenon DEF WindowInv

LEMMA TickWindow ==
    ASSUME TypeOK, TypeOK', WindowInv, WindowTick
    PROVE  WindowInv'
<1>1. CASE span = MaxSpan /\ span' = 0 /\ admitted' = 0
  BY <1>1, FreshWindow
<1>2. CASE span' = span + 1 /\ admitted' = admitted
  <2>1. IB!Refill
    BY TickRefills DEF WindowTick
  <2>2. Level \in Int /\ Rate \in Nat /\ Burst \in Nat
    BY LevelType, BucketAssumption
  <2>3. Level' <= Level + Rate
    BY <2>1, <2>2 DEF IB!Refill
  <2>4. Level' \in Int
    BY LevelTypeNext, BucketAssumption
  <2>5. Rate * span' = Rate * span + Rate /\ Rate * span \in Nat
    BY <1>2, Distributes DEF WindowInv
  <2>6. span \in Nat /\ admitted \in Nat /\ admitted + Level <= Burst + Rate * span
    BY DEF WindowInv
  <2>7. admitted' + Level' <= Burst + Rate * span'
    <3>1. PICK l \in Int : l = Level'
      BY <2>4
    <3>2. PICK m \in Int : m = Rate * span
      BY <2>5
    <3>3. l <= Level + Rate /\ admitted + Level <= Burst + m
      BY <2>3, <2>6, <3>1, <3>2
    <3>4. admitted + l <= Burst + (m + Rate)
      BY <2>2, <2>6, <3>3
    <3> QED BY <1>2, <2>5, <3>1, <3>2, <3>4
  <2>8. span' \in Nat /\ admitted' \in Nat
    BY <1>2, <2>6
  <2> QED BY <2>7, <2>8, Zenon DEF WindowInv
<1> QED BY <1>1, <1>2 DEF WindowTick

\* What a step of a caller lets through comes out of the bucket.
LEMMA StepWindow ==
    ASSUME TypeOK, TypeOK', WindowInv, NEW c \in Callers, WindowStep(c)
    PROVE  WindowInv'
<1>0. /\ Level \in Nat /\ Level' \in Int /\ Cost[c] \in Nat
      /\ Rate * span \in Nat /\ Burst \in Nat
  BY LevelType, LevelTypeNext, Distributes, BucketAssumption DEF TypeOK, WindowInv
<1>1. span' = span /\ admitted' = admitted + Admits(c)
  BY DEF WindowStep
<1>2. CASE Level' = Level - Cost[c] /\ Returns(c)
  <2>1. Admits(c) = Cost[c]
    BY <1>2 DEF Admits
  <2> QED BY <1>0, <1>1, <1>2, <2>1 DEF WindowInv
<1>3. CASE Level' = Level /\ ~Returns(c)
  <2>1. Admits(c) = 0
    BY <1>3 DEF Admits
  <2> QED BY <1>0, <1>1, <1>3, <2>1 DEF WindowInv
<1>4. CASE TryLocal(c)
  <2>1. CASE pc'[c] = "asleep" /\ Level' = Level
    BY <1>3, <2>1 DEF Returns
  <2> QED BY <1>2, <1>4, <2>1, TryRefines
<1>5. CASE Acquire(c) \/ Wake(c)
  BY <1>3, <1>5 DEF Acquire, Wake, Level, Returns
<1> QED BY <1>4, <1>5 DEF WindowStep, Step

LEMMA StepWindowInv ==
    ASSUME TypeOK, TypeOK', WindowInv, [WindowNext]_windowVars
    PROVE  WindowInv'
<1>1. CASE Open
  BY <1>1, FreshWindow DEF Open
<1>2. CASE UNCHANGED windowVars
  BY <1>2 DEF windowVars, WindowInv, Level
<1> QED BY <1>1, <1>2, StepWindow, TickWindow DEF WindowNext

\* The limiter of ratelimit.py keeps to its rate: in every stretch of time,
\* wherever it begins, the calls that acquire() let through cost no more than
\* Burst + Rate times its length, for any callers, costs, rate and burst.
THEOREM RateIsKept == WindowSpec => []WithinRate
<1>1. WindowInit => Init
  BY DEF WindowInit
<1>2. TypeOK /\ WindowInv => WithinRate
  <2> SUFFICES ASSUME TypeOK, WindowInv PROVE WithinRate
    OBVIOUS
  <2>1. Level \in Nat /\ Rate * span \in Nat /\ Burst \in Nat
    BY LevelType, Distributes, BucketAssumption DEF WindowInv
  <2> QED BY <2>1 DEF WindowInv, WithinRate
<1> QED BY <1>1, <1>2, InitTypeOK, StepInv, InitWindowInv, StepWindowInv,
           WindowOnlyRecords, PTL DEF WindowSpec
=============================================================================
