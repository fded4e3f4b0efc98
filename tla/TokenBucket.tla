----------------------------- MODULE TokenBucket -----------------------------
(***************************************************************************)
(* The per-host rate limiter (core/ratelimit.py) for one host, with the    *)
(* bucket in the process: acquire() loops over _try_local, which refills   *)
(* the bucket lazily from the time since the last call, and sleeps for as  *)
(* long as the missing tokens take.                                        *)
(*                                                                         *)
(* Time is counted in ticks and kept relative to now: "age" is now minus   *)
(* updated_at and stops counting at AgeCap, when the bucket is full        *)
(* whatever it held.                                                       *)
(***************************************************************************)
EXTENDS Integers

CONSTANTS Callers,
          Cost,     \* what each caller asks for
          Rate,     \* rate_per_sec
          Burst,
          AgeCap    \* bound on the age of the bucket

ASSUME BucketAssumption ==
    /\ Rate \in Nat \ {0}
    /\ Burst \in Nat
    /\ Cost \in [Callers -> Nat \ {0}]
    /\ AgeCap \in Nat
    /\ Rate * AgeCap >= Burst

VARIABLES
    exists,   \* there is a bucket for the host
    tokens,   \* its tokens when it was last used
    age,      \* the time since then
    pc,       \* where each acquire() stands
    sleep     \* what is left of its asyncio.sleep

vars == <<exists, tokens, age, pc, sleep>>

Init ==
    /\ exists = FALSE
    /\ tokens = 0
    /\ age = 0
    /\ pc = [c \in Callers |-> "idle"]
    /\ sleep = [c \in Callers |-> 0]

\* A caller may call again and again.
Acquire(c) ==
    /\ pc[c] = "idle"
    /\ pc' = [pc EXCEPT ![c] = "try"]
    /\ UNCHANGED <<exists, tokens, age, sleep>>

MutFilledUncapped(elapsed) == IF exists THEN tokens + Rate * elapsed ELSE Burst

\* The tokens after the refill for the given time; a new bucket is full.
Filled(elapsed) ==
    IF ~exists THEN Burst
    ELSE IF tokens + Rate * elapsed < Burst THEN tokens + Rate * elapsed ELSE Burst

\* (cost - tokens) / rate, up to the next tick.
Wait(c, level) == (Cost[c] - level + Rate - 1) \div Rate

MutStrictlyMore(c, level) ==
    IF level > Cost[c]
    THEN /\ tokens' = level - Cost[c]
         /\ pc' = [pc EXCEPT ![c] = "idle"]
         /\ UNCHANGED sleep
    ELSE /\ tokens' = level
         /\ sleep' = [sleep EXCEPT ![c] = Wait(c, level)]
         /\ pc' = [pc EXCEPT ![c] = "asleep"]

\* The cost is taken and acquire() returns, or it sleeps.
TakeOrSleep(c, level) ==
    IF level >= Cost[c]
    THEN /\ tokens' = level - Cost[c]
         /\ pc' = [pc EXCEPT ![c] = "idle"]
         /\ UNCHANGED sleep
    ELSE /\ tokens' = level
         /\ sleep' = [sleep EXCEPT ![c] = Wait(c, level)]
         /\ pc' = [pc EXCEPT ![c] = "asleep"]

MutClockOnGrant(c) ==
    /\ pc[c] = "try"
    /\ exists' = TRUE
    /\ TakeOrSleep(c, Filled(age))
    /\ age' = IF pc'[c] = "idle" THEN 0 ELSE age

\* _try_local holds the lock from the reading of the clock to the end.
TryLocal(c) ==
    /\ pc[c] = "try"
    /\ exists' = TRUE
    /\ age' = 0
    /\ TakeOrSleep(c, Filled(age))

Wake(c) ==
    /\ pc[c] = "asleep"
    /\ sleep[c] = 0
    /\ pc' = [pc EXCEPT ![c] = "try"]
    /\ UNCHANGED <<exists, tokens, age, sleep>>

\* time.monotonic() moves on.
Tick ==
    /\ age' = IF age < AgeCap THEN age + 1 ELSE AgeCap
    /\ sleep' = [c \in Callers |-> IF sleep[c] > 0 THEN sleep[c] - 1 ELSE 0]
    /\ UNCHANGED <<exists, tokens, pc>>

Step(c) == Acquire(c) \/ TryLocal(c) \/ Wake(c)

Next == (\E c \in Callers : Step(c)) \/ Tick

Spec == Init /\ [][Next]_vars

-----------------------------------------------------------------------------
(* Properties.                                                             *)

\* Every variable has its type.
TypeOK ==
    /\ exists \in BOOLEAN
    /\ tokens \in 0..Burst
    /\ age \in 0..AgeCap
    /\ pc \in [Callers -> {"idle", "try", "asleep"}]
    /\ sleep \in [Callers -> Nat]

\* What the bucket would hold if it were brought up to date right now.
Level ==
    IF exists /\ tokens + Rate * age < Burst THEN tokens + Rate * age ELSE Burst

Returns(c) == pc[c] = "try" /\ pc'[c] = "idle"

\* The lazy refill is a bucket that fills all the time, however the callers
\* are interleaved and however long the host was idle: a call goes through by
\* taking its cost out of that bucket, no token is lost, and a call is sent to
\* sleep only when that bucket holds less than it asks for.
IB == INSTANCE IdealBucket WITH level <- Level
BucketIsIdeal ==
    /\ IB!Ideal
    /\ [][\A c \in Callers : pc[c] = "try" /\ pc'[c] = "asleep" => Level < Cost[c]]_vars

\* acquire() has no queue, so others may wake up before a caller and take what
\* it has waited for, again and again.  This is the only thing that keeps a
\* call of at most Burst tokens from returning: it is never the bucket that
\* stands still, nor a caller that asks for more than it ever holds.
Served ==
    \A c \in Callers : Cost[c] <= Burst =>
        \/ []<>(pc[c] = "idle")
        \/ \E d \in Callers \ {c} : []<><<Returns(d)>>_vars

\* An acquire() of more than Burst tokens never returns: its loop goes on for
\* as long as its caller does, however long the host is idle.
OversizedNeverReturns ==
    [][\A c \in Callers : Cost[c] > Burst => ~Returns(c)]_vars
=============================================================================
