---------------------------- MODULE BucketWindow ----------------------------
(***************************************************************************)
(* What the far end of a rate-limited host sees (core/ratelimit.py):       *)
(* TokenBucket with two history variables for a window of time, which may  *)
(* begin at any moment.  They only record; no step of the limiter depends  *)
(* on them.                                                                *)
(***************************************************************************)
EXTENDS TokenBucket

CONSTANT MaxSpan   \* bound on the length of a window

ASSUME WindowAssumption == MaxSpan \in Nat

VARIABLES
    span,      \* the ticks since the window began
    admitted   \* the cost of the calls that went through since then

windowVars == <<exists, tokens, age, pc, sleep, span, admitted>>

WindowInit == Init /\ span = 0 /\ admitted = 0

\* The cost of what a step lets through.
Admits(c) == IF Returns(c) THEN Cost[c] ELSE 0

\* A window begins; the limiter does nothing.
Open == span' = 0 /\ admitted' = 0 /\ UNCHANGED vars

WindowStep(c) ==
    /\ Step(c)
    /\ admitted' = admitted + Admits(c)
    /\ UNCHANGED span

\* A window that has its full length makes room for a new one.
WindowTick ==
    /\ Tick
    /\ \/ span < MaxSpan /\ span' = span + 1 /\ UNCHANGED admitted
       \/ span = MaxSpan /\ span' = 0 /\ admitted' = 0

WindowNext == (\E c \in Callers : WindowStep(c)) \/ WindowTick \/ Open

WindowSpec == WindowInit /\ [][WindowNext]_windowVars

\* Time passes, and a call that has begun and can go on does; nobody has to call.
FairWindowSpec ==
    /\ WindowSpec
    /\ WF_windowVars(WindowTick)
    /\ \A c \in Callers : WF_windowVars(pc[c] # "idle" /\ WindowStep(c))

-----------------------------------------------------------------------------
(* Properties.                                                             *)

\* Through no window of time does acquire() let more through than a burst and
\* the rate times its length, however long the host was idle before and
\* however the callers are interleaved.
WithinRate == admitted <= Burst + Rate * span
=============================================================================
