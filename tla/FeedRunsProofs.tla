--------------------------- MODULE FeedRunsProofs ---------------------------
(***************************************************************************)
(* Proofs about FeedRuns for any number of processes, sources and runs,    *)
(* any limits and any policy.                                              *)
(***************************************************************************)
EXTENDS FeedRuns, TLAPS

Locations == {"idle", "global", "source", "done"} \cup Inside
Outcomes == {"none", "SUCCESS", "PARTIAL", "FAILED", "transient", "permanent", "other"}

-----------------------------------------------------------------------------
(* The breaker's methods stay inside Breakers.                             *)

LEMMA BreakerType ==
    ASSUME NEW b \in Breakers
    PROVE  /\ Before(b) \in Breakers /\ OnSuccess(b) \in Breakers
           /\ OnFailure(b) \in Breakers /\ Elapse(b) \in Breakers
<1> USE PolicyAssumption
<1>1. Before(b) \in Breakers
  BY DEF Before, Breakers
<1>2. OnSuccess(b) \in Breakers
  BY DEF OnSuccess, Breakers
<1>3. OnFailure(b) \in Breakers
  <2> DEFINE n == IF b.failures < FailureCap THEN b.failures + 1 ELSE FailureCap
  <2>1. n \in 0..FailureCap
    BY DEF Breakers
  <2>2. CASE b.state = "half_open" \/ n >= FailureThreshold
    BY <2>1, <2>2 DEF OnFailure, Breakers
  <2>3. CASE ~(b.state = "half_open" \/ n >= FailureThreshold)
    BY <2>1, <2>3 DEF OnFailure, Breakers
  <2> QED BY <2>2, <2>3
<1>4. Elapse(b) \in Breakers
  BY DEF Elapse, Breakers
<1> QED BY <1>1, <1>2, <1>3, <1>4

LEMMA NewBreakerType == NewBreaker \in Breakers
BY PolicyAssumption DEF NewBreaker, Breakers

\* The run's semaphore and breaker exist.
LEMMA KeyType ==
    ASSUME TypeOK, NEW r \in Runs
    PROVE  Key(r) \in Procs \X Sources /\ proc[r] \in Procs /\ src[r] \in Sources
BY DEF TypeOK, Key

(* The inductive invariant.  TypeOK alone is not inductive, because         *)
(* finalize_run writes the outcome into the row; and the watermark is safe *)
(* because of what each run knows about the ETag it carries.               *)

Results == {"SUCCESS", "PARTIAL", "FAILED"}

\* The version that ctx.watermark names is durable.
Known(r) == mark[r] \in stored[src[r]] \cup {0}

RunInv(r) ==
    /\ pc[r] = "fetch" => Known(r)
    /\ pc[r] = "ingest" => mark[r] = got[r] \/ Known(r)
    /\ pc[r] = "stored" => Known(r)
    /\ pc[r] = "finalize" => outcome[r] \in Results
    /\ pc[r] = "finalize" /\ outcome[r] = "SUCCESS" => Known(r)

CoverInv == WatermarkCovered /\ \A r \in Runs : RunInv(r)

\* How an attempt may end, and where execute() goes from there: to another
\* attempt never, because run_with_outcome has turned every error that
\* with_retry would try again into a result.
LEMMA AttemptEndsOK ==
    ASSUME TypeOK, NEW r \in Runs, NEW e \in Errors \cup {"ok"}, AttemptEnds(r, e)
    PROVE  /\ outcome' \in [Runs -> Outcomes]
           /\ attempts' \in [Runs -> 0..MaxAttempts + 1]
           /\ pc' \in [Runs -> Locations]
           /\ pc'[r] \in {"finalize", "except"}
           /\ \A q \in Runs \ {r} : outcome'[q] = outcome[q] /\ pc'[q] = pc[q]
           /\ e # "ok" => outcome'[r] # "SUCCESS"
           /\ pc'[r] = "finalize" => outcome'[r] \in Results
<1>1. e \in {"ok", "transient", "permanent", "other"}
  BY RunsAssumption
<1>2. ~(RunWithOutcome(e) = "raised" /\ e = "transient")
  BY <1>1 DEF RunWithOutcome
<1>3. RunWithOutcome(e) \in Results \cup {"raised"}
      /\ (e # "ok" => RunWithOutcome(e) # "SUCCESS")
  BY <1>1 DEF RunWithOutcome, Results
<1>4. RunWithOutcome(e) = "raised" => e \in Outcomes
  BY <1>1 DEF RunWithOutcome, Outcomes
<1> HIDE DEF RunWithOutcome
<1>5. outcome' = [outcome EXCEPT ![r] = IF RunWithOutcome(e) = "raised" THEN e
                                        ELSE RunWithOutcome(e)]
  BY DEF AttemptEnds
<1>6. attempts' \in [Runs -> 0..MaxAttempts + 1]
  BY <1>2 DEF AttemptEnds, TypeOK
<1>7. pc' = [pc EXCEPT ![r] = IF RunWithOutcome(e) = "raised" THEN "except" ELSE "finalize"]
  BY <1>2 DEF AttemptEnds, GoTo
<1>8. /\ pc' \in [Runs -> Locations]
      /\ pc'[r] = IF RunWithOutcome(e) = "raised" THEN "except" ELSE "finalize"
      /\ \A q \in Runs \ {r} : pc'[q] = pc[q]
  BY <1>7 DEF TypeOK, Locations, Inside
<1>9. /\ outcome'[r] = IF RunWithOutcome(e) = "raised" THEN e ELSE RunWithOutcome(e)
      /\ \A q \in Runs \ {r} : outcome'[q] = outcome[q]
  BY <1>5 DEF TypeOK
<1>10. outcome' \in [Runs -> Outcomes]
  BY <1>3, <1>4, <1>5 DEF TypeOK, Outcomes, Results
<1> QED BY <1>1, <1>3, <1>6, <1>8, <1>9, <1>10 DEF Results

-----------------------------------------------------------------------------
(* Type correctness.                                                       *)

\* Leaving the "async with" block.
LEMMA LeaveOK ==
    ASSUME TypeOK, NEW r \in Runs, Leave(r)
    PROVE  /\ pc' \in [Runs -> Locations]
           /\ globalFree' \in [Procs -> Int]
           /\ sourceFree' \in [Procs \X Sources -> Int]
<1>1. Key(r) \in Procs \X Sources /\ proc[r] \in Procs
  BY KeyType
<1> QED BY <1>1 DEF TypeOK, Leave, GoTo, Locations

LEMMA InitTypeOK == Init => TypeOK
<1> SUFFICES ASSUME Init PROVE TypeOK
  OBVIOUS
<1>1. SourceSlots \in Int
  BY RunsAssumption DEF SourceSlots
<1> QED BY <1>1, NewBreakerType, RunsAssumption DEF Init, TypeOK, Versions

LEMMA StepTypeOK == TypeOK /\ CoverInv /\ [Next]_vars => TypeOK'
<1> SUFFICES ASSUME TypeOK, CoverInv, [Next]_vars PROVE TypeOK'
  OBVIOUS
<1> USE RunsAssumption
<1>1. ASSUME NEW r \in Runs, Start(r) PROVE TypeOK'
  BY <1>1 DEF Start, GoTo, TypeOK, local, tables, slots
<1>2. ASSUME NEW r \in Runs, Backfill(r) PROVE TypeOK'
  <2>1. src[r] \in Sources
    BY KeyType
  <2>2. fresh' \subseteq Runs
    BY <1>2 DEF Backfill, StillFresh, TypeOK
  <2> QED BY <1>2, <2>1, <2>2 DEF Backfill, GoTo, TypeOK, Versions, local, slots
<1>3. ASSUME NEW r \in Runs, EnterGlobal(r) PROVE TypeOK'
  BY <1>3, KeyType DEF EnterGlobal, GoTo, TypeOK, local, tables
<1>4. ASSUME NEW r \in Runs, EnterSource(r) PROVE TypeOK'
  <2>1. Key(r) \in Procs \X Sources
    BY KeyType
  <2> QED BY <1>4, <2>1 DEF EnterSource, GoTo, TypeOK, local, tables, Inside
<1>5. ASSUME NEW r \in Runs, Gate(r) PROVE TypeOK'
  <2>1. Key(r) \in Procs \X Sources /\ breaker[Key(r)] \in Breakers
    BY KeyType DEF TypeOK
  <2>2. Before(breaker[Key(r)]) \in Breakers
    BY <2>1, BreakerType
  <2>3. CASE Leave(r) /\ UNCHANGED breaker
    BY <1>5, <2>3, LeaveOK DEF Gate, TypeOK, Locations, local, tables
  <2>4. CASE /\ breaker' = [breaker EXCEPT ![Key(r)] = Before(@)]
             /\ GoTo(r, "build") /\ UNCHANGED slots
    BY <1>5, <2>1, <2>2, <2>4 DEF Gate, GoTo, TypeOK, Inside, local, tables, slots
  <2> QED BY <1>5, <2>3, <2>4 DEF Gate
<1>6. ASSUME NEW r \in Runs, Build(r) PROVE TypeOK'
  <2>1. CASE GoTo(r, "open") /\ UNCHANGED slots
    BY <1>6, <2>1 DEF Build, GoTo, TypeOK, Inside, local, tables, slots
  <2>2. CASE Leave(r)
    BY <1>6, <2>2, LeaveOK DEF Build, TypeOK, Locations, local, tables
  <2> QED BY <1>6, <2>1, <2>2 DEF Build
<1>7. ASSUME NEW r \in Runs, OpenRun(r) PROVE TypeOK'
  <2>1. src[r] \in Sources
    BY KeyType
  <2>2. CASE /\ row' = [row EXCEPT ![r] = "RUNNING"]
             /\ mark' = [mark EXCEPT ![r] = watermark[src[r]]]
             /\ attempts' = [attempts EXCEPT ![r] = 1]
             /\ GoTo(r, "fetch") /\ UNCHANGED outcome
    <3>1. /\ row' \in [Runs -> {"absent", "RUNNING", "SUCCESS", "PARTIAL", "FAILED"}]
          /\ pc' \in [Runs -> {"idle", "global", "source", "done"} \cup Inside]
      BY <2>2 DEF GoTo, TypeOK, Inside
    <3>2. mark' \in [Runs -> Versions] /\ attempts' \in [Runs -> 0..MaxAttempts + 1]
      BY <2>1, <2>2 DEF TypeOK
    <3> QED BY <1>7, <2>2, <3>1, <3>2 DEF OpenRun, TypeOK, slots
  <2>3. CASE /\ outcome' = [outcome EXCEPT ![r] = "other"]
             /\ GoTo(r, "except") /\ UNCHANGED <<row, mark, attempts>>
    BY <1>7, <2>3 DEF OpenRun, GoTo, TypeOK, Inside, slots
  <2> QED BY <1>7, <2>2, <2>3 DEF OpenRun
<1>8. ASSUME NEW r \in Runs, Fetch(r) PROVE TypeOK'
  <2>1. src[r] \in Sources
    BY KeyType
  <2>2. CASE /\ got' = [got EXCEPT ![r] = 0]
             /\ GoTo(r, "ingest") /\ UNCHANGED <<mark, attempts, outcome>>
    BY <1>8, <2>2 DEF Fetch, GoTo, TypeOK, Versions, Inside, tables, slots
  <2>3. CASE /\ mark' = [mark EXCEPT ![r] = upstream[src[r]]]
             /\ got' = [got EXCEPT ![r] = upstream[src[r]]]
             /\ GoTo(r, "ingest") /\ UNCHANGED <<attempts, outcome>>
    BY <1>8, <2>1, <2>3 DEF Fetch, GoTo, TypeOK, Versions, Inside, tables, slots
  <2>4. CASE (\E e \in Errors : AttemptEnds(r, e)) /\ UNCHANGED <<mark, got>>
    <3>1. PICK e \in Errors : AttemptEnds(r, e)
      BY <2>4
    <3> QED BY <1>8, <2>4, <3>1, AttemptEndsOK
            DEF Fetch, TypeOK, Outcomes, Locations, tables, slots
  <2> QED BY <1>8, <2>2, <2>3, <2>4 DEF Fetch
<1>9. ASSUME NEW r \in Runs, Ingest(r) PROVE TypeOK'
  <2>1. src[r] \in Sources
    BY KeyType
  <2>2. CASE /\ stored' = [stored EXCEPT ![src[r]] = @ \cup ({got[r]} \ {0})]
             /\ GoTo(r, "stored") /\ UNCHANGED <<attempts, outcome>>
    BY <1>9, <2>1, <2>2 DEF Ingest, GoTo, TypeOK, Versions, Inside, slots
  <2>3. CASE (\E e \in Errors : AttemptEnds(r, e)) /\ UNCHANGED stored
    <3>1. PICK e \in Errors : AttemptEnds(r, e)
      BY <2>3
    <3> QED BY <1>9, <2>3, <3>1, AttemptEndsOK DEF Ingest, TypeOK, Outcomes, Locations, slots
  <2> QED BY <1>9, <2>2, <2>3 DEF Ingest
<1>10. ASSUME NEW r \in Runs, Conclude(r) PROVE TypeOK'
  <2>1. PICK e \in Errors \cup {"ok"} : AttemptEnds(r, e)
    BY <1>10 DEF Conclude
  <2> QED BY <1>10, <2>1, AttemptEndsOK
          DEF Conclude, TypeOK, Outcomes, Locations, tables, slots
<1>11. ASSUME NEW r \in Runs, Finalize(r) PROVE TypeOK'
  <2>1. src[r] \in Sources
    BY KeyType
  <2>2. CASE /\ row' = [row EXCEPT ![r] = outcome[r]]
             /\ watermark' = IF Advances(r) THEN [watermark EXCEPT ![src[r]] = mark[r]]
                             ELSE watermark
             /\ GoTo(r, "report") /\ UNCHANGED outcome
    <3>1. outcome[r] \in Results
      BY <1>11 DEF Finalize, CoverInv, RunInv
    <3>2. /\ row' \in [Runs -> {"absent", "RUNNING", "SUCCESS", "PARTIAL", "FAILED"}]
          /\ pc' \in [Runs -> {"idle", "global", "source", "done"} \cup Inside]
      BY <2>2, <3>1 DEF GoTo, TypeOK, Inside, Results
    <3>3. watermark' \in [Sources -> Versions]
      BY <2>1, <2>2 DEF TypeOK
    <3>4. fresh' \subseteq Runs
      BY <1>11 DEF Finalize, StillFresh, TypeOK
    <3> QED BY <1>11, <2>2, <3>2, <3>3, <3>4 DEF Finalize, TypeOK, slots
  <2>3. CASE /\ outcome' = [outcome EXCEPT ![r] = "other"]
             /\ GoTo(r, "except") /\ UNCHANGED <<row, fresh, watermark>>
    BY <1>11, <2>3 DEF Finalize, GoTo, TypeOK, Inside, slots
  <2> QED BY <1>11, <2>2, <2>3 DEF Finalize, NewWatermark
<1>12. ASSUME NEW r \in Runs, Report(r) PROVE TypeOK'
  <2>1. Key(r) \in Procs \X Sources /\ breaker[Key(r)] \in Breakers
    BY KeyType DEF TypeOK
  <2>2. breaker' \in [Procs \X Sources -> Breakers]
    BY <1>12, <2>1, BreakerType DEF Report, TypeOK
  <2> QED BY <1>12, <2>2, LeaveOK DEF Report, TypeOK, Locations, local, tables
<1>13. ASSUME NEW r \in Runs, Except(r) PROVE TypeOK'
  <2>1. Key(r) \in Procs \X Sources /\ breaker[Key(r)] \in Breakers
    BY KeyType DEF TypeOK
  <2>2. breaker' \in [Procs \X Sources -> Breakers]
    BY <1>13, <2>1, BreakerType DEF Except, TypeOK
  <2> QED BY <1>13, <2>2, LeaveOK DEF Except, RecordDeadLetter, TypeOK, Locations, local
<1>14. ASSUME NEW r \in Runs, Cancel(r) PROVE TypeOK'
  <2>1. proc[r] \in Procs
    BY KeyType
  <2>2. CASE Leave(r)
    BY <1>14, <2>2, LeaveOK DEF Cancel, TypeOK, Locations, local, tables
  <2>3. CASE GoTo(r, "done") /\ UNCHANGED slots
    BY <1>14, <2>3 DEF Cancel, GoTo, TypeOK, local, tables, slots
  <2>4. CASE /\ globalFree' = [globalFree EXCEPT ![proc[r]] = @ + 1]
             /\ GoTo(r, "done") /\ UNCHANGED sourceFree
    BY <1>14, <2>1, <2>4 DEF Cancel, GoTo, TypeOK, local, tables
  <2> QED BY <1>14, <2>2, <2>3, <2>4 DEF Cancel
<1>15. ASSUME NEW p \in Procs, Crash(p) PROVE TypeOK'
  <2>1. SourceSlots \in Int
    BY DEF SourceSlots
  <2>2. breaker' \in [Procs \X Sources -> Breakers]
    BY <1>15, NewBreakerType DEF Crash, TypeOK
  <2>3. pc' \in [Runs -> {"idle", "global", "source", "done"} \cup Inside]
    BY <1>15 DEF Crash, TypeOK
  <2>4. sourceFree' \in [Procs \X Sources -> Int]
    BY <1>15, <2>1 DEF Crash, TypeOK
  <2> QED BY <1>15, <2>2, <2>3, <2>4 DEF Crash, TypeOK, local, tables
<1>16. ASSUME NEW s \in Sources, Publish(s) PROVE TypeOK'
  BY <1>16 DEF Publish, TypeOK, local, tables, slots
<1>17. CASE Tick
  <2>1. breaker' \in [Procs \X Sources -> Breakers]
    BY <1>17, BreakerType DEF Tick, TypeOK
  <2> QED BY <1>17, <2>1 DEF Tick, TypeOK, local, tables, slots
<1>18. ASSUME NEW r \in Runs, Hang(r) PROVE TypeOK'
  BY <1>18 DEF Hang, GoTo, TypeOK, Inside, local, tables, slots
<1>19. CASE UNCHANGED vars
  BY <1>19 DEF vars, TypeOK
<1> QED
  BY <1>1, <1>2, <1>3, <1>4, <1>5, <1>6, <1>7, <1>8, <1>9, <1>10, <1>11, <1>12,
     <1>13, <1>14, <1>15, <1>16, <1>17, <1>18, <1>19 DEF Next, Step, AllDone

-----------------------------------------------------------------------------
(* The watermark.                                                          *)

\* A step of another run disturbs nothing: what is durable stays durable.
LEMMA RunInvFrame ==
    ASSUME NEW q \in Runs, RunInv(q), pc'[q] = pc[q], mark'[q] = mark[q],
           got'[q] = got[q], outcome'[q] = outcome[q], src' = src,
           stored[src[q]] \subseteq stored'[src[q]]
    PROVE  RunInv(q)'
BY DEF RunInv, Known

\* A run that is at none of the places RunInv speaks of.
LEMMA RunInvElsewhere ==
    ASSUME NEW q \in Runs, pc'[q] \notin {"fetch", "ingest", "stored", "finalize"}
    PROVE  RunInv(q)'
BY DEF RunInv

\* Steps that leave every ETag and every stored version alone, and bring no
\* run to a place that RunInv speaks of.
LEMMA QuietStep ==
    ASSUME CoverInv, UNCHANGED <<src, local, watermark, stored>>,
           \A q \in Runs : pc'[q] = pc[q]
                          \/ pc'[q] \notin {"fetch", "ingest", "stored", "finalize"}
    PROVE  CoverInv'
<1>1. WatermarkCovered'
  BY DEF CoverInv, WatermarkCovered
<1>2. ASSUME NEW q \in Runs PROVE RunInv(q)'
  <2>1. CASE pc'[q] = pc[q]
    BY <2>1, RunInvFrame DEF CoverInv, local
  <2>2. CASE pc'[q] \notin {"fetch", "ingest", "stored", "finalize"}
    BY <2>2, RunInvElsewhere
  <2> QED BY <2>1, <2>2
<1> QED BY <1>1, <1>2 DEF CoverInv

LEMMA InitCoverInv == Init => CoverInv
BY DEF Init, CoverInv, WatermarkCovered, RunInv

LEMMA StepCoverInv == TypeOK /\ CoverInv /\ [Next]_vars => CoverInv'
<1> SUFFICES ASSUME TypeOK, CoverInv, [Next]_vars PROVE CoverInv'
  OBVIOUS
<1>1. ASSUME NEW r \in Runs, Start(r) PROVE CoverInv'
  BY <1>1, QuietStep DEF Start, GoTo, TypeOK, tables
<1>2. ASSUME NEW r \in Runs, Backfill(r) PROVE CoverInv'
  <2>1. WatermarkCovered'
    BY <1>2, KeyType DEF Backfill, CoverInv, WatermarkCovered, TypeOK
  <2>2. ASSUME NEW q \in Runs PROVE RunInv(q)'
    <3>1. pc'[q] = pc[q] \/ pc'[q] = "global"
      BY <1>2 DEF Backfill, GoTo, TypeOK
    <3> QED BY <1>2, <3>1, RunInvFrame, RunInvElsewhere DEF Backfill, CoverInv, local
  <2> QED BY <2>1, <2>2 DEF CoverInv
<1>3. ASSUME NEW r \in Runs, EnterGlobal(r) PROVE CoverInv'
  BY <1>3, QuietStep DEF EnterGlobal, GoTo, TypeOK, tables
<1>4. ASSUME NEW r \in Runs, EnterSource(r) PROVE CoverInv'
  BY <1>4, QuietStep DEF EnterSource, GoTo, TypeOK, tables
<1>5. ASSUME NEW r \in Runs, Gate(r) PROVE CoverInv'
  <2>1. \A q \in Runs : pc'[q] = pc[q] \/ pc'[q] \in {"build", "done"}
    BY <1>5 DEF Gate, Leave, GoTo, TypeOK
  <2> QED BY <1>5, <2>1, QuietStep DEF Gate, tables
<1>6. ASSUME NEW r \in Runs, Build(r) PROVE CoverInv'
  <2>1. \A q \in Runs : pc'[q] = pc[q] \/ pc'[q] \in {"open", "done"}
    BY <1>6 DEF Build, Leave, GoTo, TypeOK
  <2> QED BY <1>6, <2>1, QuietStep DEF Build, tables
<1>7. ASSUME NEW r \in Runs, OpenRun(r) PROVE CoverInv'
  <2>1. src[r] \in Sources
    BY KeyType
  <2>2. WatermarkCovered'
    BY <1>7 DEF OpenRun, CoverInv, WatermarkCovered
  <2>3. RunInv(r)'
    <3>1. CASE mark' = [mark EXCEPT ![r] = watermark[src[r]]] /\ GoTo(r, "fetch")
      <4>1. pc'[r] = "fetch" /\ mark'[r] = watermark[src[r]]
        BY <3>1 DEF GoTo, TypeOK
      <4>2. Known(r)'
        BY <1>7, <2>1, <4>1 DEF OpenRun, Known, CoverInv, WatermarkCovered
      <4> QED BY <4>1, <4>2 DEF RunInv
    <3>2. CASE GoTo(r, "except")
      BY <3>2, RunInvElsewhere DEF GoTo, TypeOK
    <3> QED BY <1>7, <3>1, <3>2 DEF OpenRun
  <2>4. ASSUME NEW q \in Runs \ {r} PROVE RunInv(q)'
    <3>1. pc'[q] = pc[q] /\ mark'[q] = mark[q] /\ outcome'[q] = outcome[q]
      BY <1>7 DEF OpenRun, GoTo, TypeOK
    <3> QED BY <1>7, <3>1, RunInvFrame DEF OpenRun, CoverInv
  <2> QED BY <2>2, <2>3, <2>4 DEF CoverInv
<1>8. ASSUME NEW r \in Runs, Fetch(r) PROVE CoverInv'
  <2>1. WatermarkCovered'
    BY <1>8 DEF Fetch, tables, CoverInv, WatermarkCovered
  <2>2. CASE /\ got' = [got EXCEPT ![r] = 0]
             /\ GoTo(r, "ingest") /\ UNCHANGED <<mark, attempts, outcome>>
    <3>1. RunInv(r)'
      <4>1. Known(r) /\ pc'[r] = "ingest"
        BY <1>8, <2>2 DEF Fetch, CoverInv, RunInv, GoTo, TypeOK
      <4>2. Known(r)'
        BY <1>8, <2>2, <4>1 DEF Fetch, Known, tables
      <4> QED BY <4>1, <4>2 DEF RunInv
    <3>2. ASSUME NEW q \in Runs \ {r} PROVE RunInv(q)'
      <4>1. pc'[q] = pc[q] /\ got'[q] = got[q]
        BY <2>2 DEF GoTo, TypeOK
      <4> QED BY <1>8, <2>2, <4>1, RunInvFrame DEF Fetch, CoverInv, tables
    <3> QED BY <2>1, <3>1, <3>2 DEF CoverInv
  <2>3. CASE /\ mark' = [mark EXCEPT ![r] = upstream[src[r]]]
             /\ got' = [got EXCEPT ![r] = upstream[src[r]]]
             /\ GoTo(r, "ingest") /\ UNCHANGED <<attempts, outcome>>
    <3>1. RunInv(r)'
      BY <2>3 DEF RunInv, GoTo, TypeOK
    <3>2. ASSUME NEW q \in Runs \ {r} PROVE RunInv(q)'
      <4>1. pc'[q] = pc[q] /\ mark'[q] = mark[q] /\ got'[q] = got[q]
        BY <2>3 DEF GoTo, TypeOK
      <4> QED BY <1>8, <2>3, <4>1, RunInvFrame DEF Fetch, CoverInv, tables
    <3> QED BY <2>1, <3>1, <3>2 DEF CoverInv
  <2>4. CASE (\E e \in Errors : AttemptEnds(r, e)) /\ UNCHANGED <<mark, got>>
    <3>1. PICK e \in Errors : AttemptEnds(r, e)
      BY <2>4
    <3>2. e # "ok"
      BY RunsAssumption
    <3>3. RunInv(r)'
      BY <3>1, <3>2, AttemptEndsOK DEF RunInv
    <3>4. ASSUME NEW q \in Runs \ {r} PROVE RunInv(q)'
      <4>1. pc'[q] = pc[q] /\ outcome'[q] = outcome[q]
        BY <3>1, AttemptEndsOK
      <4> QED BY <1>8, <2>4, <4>1, RunInvFrame DEF Fetch, CoverInv, tables
    <3> QED BY <2>1, <3>3, <3>4 DEF CoverInv
  <2> QED BY <1>8, <2>2, <2>3, <2>4 DEF Fetch
<1>9. ASSUME NEW r \in Runs, Ingest(r) PROVE CoverInv'
  <2>1. src[r] \in Sources
    BY KeyType
  <2>2. CASE /\ stored' = [stored EXCEPT ![src[r]] = @ \cup ({got[r]} \ {0})]
             /\ GoTo(r, "stored") /\ UNCHANGED <<attempts, outcome>>
    <3>1. /\ \A s \in Sources : stored[s] \subseteq stored'[s]
          /\ got[r] \in stored'[src[r]] \cup {0}
      BY <2>1, <2>2 DEF TypeOK
    <3>2. WatermarkCovered'
      BY <1>9, <3>1 DEF Ingest, CoverInv, WatermarkCovered
    <3>3. RunInv(r)'
      <4>1. pc[r] = "ingest" /\ pc'[r] = "stored"
        BY <1>9, <2>2 DEF Ingest, GoTo, TypeOK
      <4>2. mark[r] = got[r] \/ Known(r)
        BY <4>1 DEF CoverInv, RunInv
      <4>3. Known(r)'
        BY <1>9, <2>1, <3>1, <4>2 DEF Ingest, Known
      <4> QED BY <4>1, <4>3 DEF RunInv
    <3>4. ASSUME NEW q \in Runs \ {r} PROVE RunInv(q)'
      <4>1. pc'[q] = pc[q] /\ src[q] \in Sources
        BY <2>2 DEF GoTo, TypeOK
      <4> QED BY <1>9, <2>2, <3>1, <4>1, RunInvFrame DEF Ingest, CoverInv
    <3> QED BY <3>2, <3>3, <3>4 DEF CoverInv
  <2>3. CASE (\E e \in Errors : AttemptEnds(r, e)) /\ UNCHANGED stored
    <3>1. PICK e \in Errors : AttemptEnds(r, e)
      BY <2>3
    <3>2. WatermarkCovered'
      BY <1>9, <2>3 DEF Ingest, CoverInv, WatermarkCovered
    <3>3. RunInv(r)'
      BY <3>1, RunsAssumption, AttemptEndsOK DEF RunInv
    <3>4. ASSUME NEW q \in Runs \ {r} PROVE RunInv(q)'
      <4>1. pc'[q] = pc[q] /\ outcome'[q] = outcome[q]
        BY <3>1, AttemptEndsOK
      <4> QED BY <1>9, <2>3, <4>1, RunInvFrame DEF Ingest, CoverInv
    <3> QED BY <3>2, <3>3, <3>4 DEF CoverInv
  <2> QED BY <1>9, <2>2, <2>3 DEF Ingest
<1>10. ASSUME NEW r \in Runs, Conclude(r) PROVE CoverInv'
  <2>1. PICK e \in Errors \cup {"ok"} : AttemptEnds(r, e)
    BY <1>10 DEF Conclude
  <2>2. WatermarkCovered'
    BY <1>10 DEF Conclude, tables, CoverInv, WatermarkCovered
  <2>3. RunInv(r)'
    <3>1. Known(r)
      BY <1>10 DEF Conclude, CoverInv, RunInv
    <3>2. Known(r)'
      BY <1>10, <3>1 DEF Conclude, Known, tables
    <3> QED BY <2>1, <3>2, AttemptEndsOK DEF RunInv
  <2>4. ASSUME NEW q \in Runs \ {r} PROVE RunInv(q)'
    <3>1. pc'[q] = pc[q] /\ outcome'[q] = outcome[q]
      BY <2>1, AttemptEndsOK
    <3> QED BY <1>10, <3>1, RunInvFrame DEF Conclude, CoverInv, tables
  <2> QED BY <2>2, <2>3, <2>4 DEF CoverInv
<1>11. ASSUME NEW r \in Runs, Finalize(r) PROVE CoverInv'
  <2>1. src[r] \in Sources
    BY KeyType
  <2>2. WatermarkCovered'
    <3>1. CASE watermark' = IF Advances(r) THEN [watermark EXCEPT ![src[r]] = mark[r]]
                            ELSE watermark
      <4>1. Advances(r) => Known(r)
        BY <1>11 DEF Finalize, Advances, CoverInv, RunInv
      <4> QED BY <1>11, <2>1, <3>1, <4>1
              DEF Finalize, Known, CoverInv, WatermarkCovered, TypeOK
    <3>2. CASE UNCHANGED watermark
      BY <1>11, <3>2 DEF Finalize, CoverInv, WatermarkCovered
    <3> QED BY <1>11, <3>1, <3>2 DEF Finalize, NewWatermark
  <2>3. ASSUME NEW q \in Runs PROVE RunInv(q)'
    <3>1. \/ pc'[q] = pc[q] /\ outcome'[q] = outcome[q]
          \/ pc'[q] \in {"report", "except"}
      BY <1>11 DEF Finalize, GoTo, TypeOK
    <3> QED BY <1>11, <3>1, RunInvFrame, RunInvElsewhere DEF Finalize, CoverInv
  <2> QED BY <2>2, <2>3 DEF CoverInv
<1>12. ASSUME NEW r \in Runs, Report(r) PROVE CoverInv'
  BY <1>12, QuietStep DEF Report, Leave, GoTo, TypeOK, tables
<1>13. ASSUME NEW r \in Runs, Except(r) PROVE CoverInv'
  BY <1>13, QuietStep DEF Except, Leave, GoTo, TypeOK
<1>14. ASSUME NEW r \in Runs, Cancel(r) PROVE CoverInv'
  <2>1. \A q \in Runs : pc'[q] = pc[q] \/ pc'[q] = "done"
    BY <1>14 DEF Cancel, Leave, GoTo, TypeOK
  <2> QED BY <1>14, <2>1, QuietStep DEF Cancel, tables
<1>15. ASSUME NEW p \in Procs, Crash(p) PROVE CoverInv'
  <2>1. \A q \in Runs : pc'[q] = pc[q] \/ pc'[q] = "done"
    BY <1>15 DEF Crash, TypeOK
  <2> QED BY <1>15, <2>1, QuietStep DEF Crash, tables
<1>16. ASSUME NEW s \in Sources, Publish(s) PROVE CoverInv'
  BY <1>16, QuietStep DEF Publish, tables
<1>17. CASE Tick
  BY <1>17, QuietStep DEF Tick, tables
<1>18. ASSUME NEW r \in Runs, Hang(r) PROVE CoverInv'
  BY <1>18, QuietStep DEF Hang, GoTo, TypeOK, tables
<1>19. CASE UNCHANGED vars
  BY <1>19, QuietStep DEF vars, local
<1> QED
  BY <1>1, <1>2, <1>3, <1>4, <1>5, <1>6, <1>7, <1>8, <1>9, <1>10, <1>11, <1>12,
     <1>13, <1>14, <1>15, <1>16, <1>17, <1>18, <1>19 DEF Next, Step, AllDone

-----------------------------------------------------------------------------
\* Every variable keeps its type, and a finalized row holds a RunState,
\* through overlapping runs, cancellations, crashes and backfills of any
\* number of processes (manager/runner.py, state.py).
THEOREM RunsTypeCorrect == Spec => []TypeOK
<1> QED BY InitTypeOK, StepTypeOK, InitCoverInv, StepCoverInv, PTL DEF Spec

\* No silent gap: finalize_run (state.py) never moves a source's watermark to
\* a version that is not durable, although its row lock does not keep runs of
\* two workers apart.
THEOREM WatermarkSafe == Spec => []WatermarkCovered
<1>1. CoverInv => WatermarkCovered
  BY DEF CoverInv
<1> QED BY <1>1, InitTypeOK, StepTypeOK, InitCoverInv, StepCoverInv, PTL DEF Spec

-----------------------------------------------------------------------------
(* The tables account for each other.  A mark must not be the empty one by *)
(* the time it is written, and a run with a SUCCESS row must be past every *)
(* place where its mark could still change.                                *)

Ended == {"report", "done"}

Accounts(r) ==
    /\ pc[r] \in {"ingest", "stored"} => mark[r] # 0
    /\ pc[r] = "finalize" /\ outcome[r] = "SUCCESS" => mark[r] # 0
    /\ row[r] = "SUCCESS" => pc[r] \in Ended /\ mark[r] \in stored[src[r]]

HasRow(s) ==
    watermark[s] # 0 =>
        \E r \in Runs : src[r] = s /\ row[r] = "SUCCESS" /\ mark[r] = watermark[s]

AccountInv ==
    /\ \A s \in Sources : upstream[s] # 0 /\ HasRow(s)
    /\ \A r \in Runs : Accounts(r)

LEMMA InitAccountInv == Init => AccountInv
BY DEF Init, AccountInv, Accounts, HasRow

\* A run that keeps its mark, its outcome and its row, and comes to none of
\* the places at which Accounts says more.
LEMMA AccountsFrame ==
    ASSUME NEW q \in Runs, Accounts(q), src' = src, mark'[q] = mark[q],
           outcome'[q] = outcome[q], row'[q] = row[q],
           stored[src[q]] \subseteq stored'[src[q]],
           \/ pc'[q] = pc[q]
           \/ /\ pc'[q] \notin {"ingest", "stored", "finalize"}
              /\ pc[q] \in Ended => pc'[q] \in Ended
    PROVE  Accounts(q)'
BY DEF Accounts, Ended

\* A step that takes no SUCCESS row away, and no watermark forward.
LEMMA HasRowFrame ==
    ASSUME NEW s \in Sources, HasRow(s), src' = src,
           watermark'[s] \in {watermark[s], 0},
           \A q \in Runs : row[q] = "SUCCESS" =>
                              row'[q] = "SUCCESS" /\ mark'[q] = mark[q]
    PROVE  HasRow(s)'
BY DEF HasRow

LEMMA QuietAccounts ==
    ASSUME AccountInv, UNCHANGED <<src, mark, outcome, row, stored>>,
           \A s \in Sources : upstream'[s] # 0 /\ watermark'[s] \in {watermark[s], 0},
           \A q \in Runs : \/ pc'[q] = pc[q]
                           \/ /\ pc'[q] \notin {"ingest", "stored", "finalize"}
                              /\ pc[q] \in Ended => pc'[q] \in Ended
    PROVE  AccountInv'
<1>1. ASSUME NEW q \in Runs PROVE Accounts(q)'
  BY AccountsFrame DEF AccountInv
<1>2. ASSUME NEW s \in Sources PROVE HasRow(s)'
  BY HasRowFrame DEF AccountInv
<1> QED BY <1>1, <1>2 DEF AccountInv

\* A step of a run that has no SUCCESS row and writes none.
LEMMA OneRunAccounts ==
    ASSUME TypeOK, AccountInv, NEW r \in Runs, pc[r] \notin Ended, Accounts(r)',
           UNCHANGED <<src, watermark, upstream>>,
           \A s \in Sources : stored[s] \subseteq stored'[s],
           \A q \in Runs \ {r} : /\ pc'[q] = pc[q] /\ mark'[q] = mark[q]
                                 /\ outcome'[q] = outcome[q] /\ row'[q] = row[q]
    PROVE  AccountInv'
<1>1. row[r] # "SUCCESS"
  BY DEF AccountInv, Accounts
<1>2. ASSUME NEW q \in Runs \ {r} PROVE Accounts(q)'
  <2>1. src[q] \in Sources /\ Accounts(q)
    BY KeyType DEF AccountInv
  <2> QED BY <2>1, AccountsFrame
<1>3. ASSUME NEW s \in Sources PROVE HasRow(s)'
  <2>1. \A q \in Runs : row[q] = "SUCCESS" => row'[q] = "SUCCESS" /\ mark'[q] = mark[q]
    BY <1>1
  <2> QED BY <2>1, HasRowFrame DEF AccountInv
<1> QED BY <1>2, <1>3 DEF AccountInv

LEMMA AttemptAccounts ==
    ASSUME TypeOK, AccountInv, NEW r \in Runs,
           OpenRun(r) \/ Fetch(r) \/ Ingest(r) \/ Conclude(r)
    PROVE  AccountInv'
<1>1. /\ pc[r] \in {"open", "fetch", "ingest", "stored"} /\ pc[r] \notin Ended
      /\ UNCHANGED <<src, watermark, upstream>> /\ src[r] \in Sources
  BY KeyType DEF OpenRun, Fetch, Ingest, Conclude, Ended, tables
<1>2. row[r] # "SUCCESS" /\ upstream[src[r]] # 0
  BY <1>1 DEF AccountInv, Accounts
<1>3. \A s \in Sources : stored[s] \subseteq stored'[s]
  BY <1>1 DEF OpenRun, Fetch, Ingest, Conclude, tables, TypeOK
<1>4. CASE OpenRun(r)
  <2>1. /\ pc'[r] \in {"fetch", "except"} /\ row'[r] # "SUCCESS"
        /\ \A q \in Runs \ {r} : /\ pc'[q] = pc[q] /\ mark'[q] = mark[q]
                                 /\ outcome'[q] = outcome[q] /\ row'[q] = row[q]
    BY <1>2, <1>4 DEF OpenRun, GoTo, TypeOK
  <2>2. Accounts(r)'
    BY <2>1 DEF Accounts
  <2> QED BY <1>1, <1>3, <2>1, <2>2, OneRunAccounts
<1>5. ASSUME NEW e \in Errors \cup {"ok"}, AttemptEnds(r, e), UNCHANGED <<mark, row>>,
             e \in Errors \/ pc[r] = "stored"
      PROVE  AccountInv'
  <2>1. /\ pc'[r] \in {"finalize", "except"}
        /\ \A q \in Runs \ {r} : outcome'[q] = outcome[q] /\ pc'[q] = pc[q]
        /\ e # "ok" => outcome'[r] # "SUCCESS"
    BY <1>5, AttemptEndsOK
  <2>2. outcome'[r] = "SUCCESS" => mark[r] # 0
    BY <1>5, <2>1, RunsAssumption DEF AccountInv, Accounts
  <2>3. Accounts(r)'
    BY <1>2, <1>5, <2>1, <2>2 DEF Accounts
  <2> QED BY <1>1, <1>3, <1>5, <2>1, <2>3, OneRunAccounts
<1>6. ASSUME GoTo(r, "ingest"), UNCHANGED <<outcome, row>>,
             \/ mark[r] = upstream[src[r]] /\ UNCHANGED mark
             \/ mark' = [mark EXCEPT ![r] = upstream[src[r]]]
      PROVE  AccountInv'
  <2>1. /\ pc'[r] = "ingest" /\ mark'[r] = upstream[src[r]]
        /\ \A q \in Runs \ {r} : pc'[q] = pc[q] /\ mark'[q] = mark[q]
    BY <1>6 DEF GoTo, TypeOK
  <2>2. Accounts(r)'
    BY <1>2, <1>6, <2>1 DEF Accounts
  <2> QED BY <1>1, <1>3, <1>6, <2>1, <2>2, OneRunAccounts
<1>7. ASSUME pc[r] = "ingest", GoTo(r, "stored"), UNCHANGED <<outcome, mark, row>>
      PROVE  AccountInv'
  <2>1. /\ pc'[r] = "stored" /\ mark[r] # 0
        /\ \A q \in Runs \ {r} : pc'[q] = pc[q]
    BY <1>7 DEF GoTo, TypeOK, AccountInv, Accounts
  <2>2. Accounts(r)'
    BY <1>2, <1>7, <2>1 DEF Accounts
  <2> QED BY <1>1, <1>3, <1>7, <2>1, <2>2, OneRunAccounts
<1>8. CASE Fetch(r)
  BY <1>5, <1>6, <1>8 DEF Fetch, tables
<1>9. CASE Ingest(r)
  BY <1>5, <1>7, <1>9 DEF Ingest
<1>10. CASE Conclude(r)
  BY <1>5, <1>10 DEF Conclude, tables
<1> QED BY <1>4, <1>8, <1>9, <1>10

\* finalize_run writes row and watermark in one transaction.
LEMMA FinalizeAccounts ==
    ASSUME TypeOK, CoverInv, AccountInv, NEW r \in Runs, Finalize(r)
    PROVE  AccountInv'
<1>1. /\ pc[r] = "finalize" /\ UNCHANGED <<src, mark, stored, upstream>>
      /\ src[r] \in Sources /\ row[r] # "SUCCESS"
  BY KeyType DEF Finalize, AccountInv, Accounts, Ended
<1>2. CASE UNCHANGED <<row, watermark>>
  <2>1. /\ pc'[r] \in {"report", "except"}
        /\ \A q \in Runs \ {r} : pc'[q] = pc[q] /\ outcome'[q] = outcome[q]
    BY DEF Finalize, GoTo, TypeOK
  <2>2. Accounts(r)'
    BY <1>1, <1>2, <2>1 DEF Accounts
  <2> QED BY <1>1, <1>2, <2>1, <2>2, OneRunAccounts DEF Ended
<1>3. CASE /\ row' = [row EXCEPT ![r] = outcome[r]] /\ GoTo(r, "report")
           /\ watermark' = IF Advances(r) THEN [watermark EXCEPT ![src[r]] = mark[r]]
                           ELSE watermark
           /\ UNCHANGED outcome
  <2>1. /\ pc'[r] = "report" /\ row'[r] = outcome[r]
        /\ \A q \in Runs \ {r} : pc'[q] = pc[q] /\ row'[q] = row[q]
    BY <1>3 DEF GoTo, TypeOK
  <2>2. outcome[r] = "SUCCESS" => mark[r] \in stored[src[r]]
    BY <1>1 DEF CoverInv, RunInv, Known, AccountInv, Accounts
  <2>3. Accounts(r)'
    BY <1>1, <2>1, <2>2 DEF Accounts, Ended
  <2>4. ASSUME NEW q \in Runs \ {r} PROVE Accounts(q)'
    BY <1>1, <1>3, <2>1, AccountsFrame DEF AccountInv
  <2>5. ASSUME NEW s \in Sources PROVE HasRow(s)'
    <3>1. CASE Advances(r) /\ s = src[r]
      <4>1. watermark'[s] = mark[r] /\ row'[r] = "SUCCESS"
        BY <1>1, <1>3, <2>1, <3>1 DEF Advances, TypeOK
      <4> QED BY <1>1, <3>1, <4>1 DEF HasRow
    <3>2. CASE ~(Advances(r) /\ s = src[r])
      <4>1. watermark'[s] = watermark[s]
        BY <1>1, <1>3, <3>2 DEF TypeOK
      <4> QED BY <1>1, <2>1, <4>1, HasRowFrame DEF AccountInv
    <3> QED BY <3>1, <3>2
  <2> QED BY <1>1, <2>3, <2>4, <2>5 DEF AccountInv
<1> QED BY <1>2, <1>3 DEF Finalize, NewWatermark

LEMMA StepAccountInv == TypeOK /\ CoverInv /\ AccountInv /\ [Next]_vars => AccountInv'
<1> SUFFICES ASSUME TypeOK, CoverInv, AccountInv, [Next]_vars PROVE AccountInv'
  OBVIOUS
<1>0. \A s \in Sources : upstream[s] # 0
  BY DEF AccountInv
<1>1. ASSUME NEW r \in Runs, Start(r) \/ EnterGlobal(r) \/ EnterSource(r) PROVE AccountInv'
  <2>1. \A q \in Runs : \/ pc'[q] = pc[q]
                        \/ pc'[q] \in {"global", "source", "gate"} /\ pc[q] \notin Ended
    BY <1>1 DEF Start, EnterGlobal, EnterSource, GoTo, TypeOK, Ended
  <2> QED BY <1>0, <1>1, <2>1, QuietAccounts
          DEF Start, EnterGlobal, EnterSource, tables, local
<1>2. ASSUME NEW r \in Runs, Backfill(r) PROVE AccountInv'
  <2>1. \A q \in Runs : \/ pc'[q] = pc[q]
                        \/ pc'[q] = "global" /\ pc[q] \notin Ended
    BY <1>2 DEF Backfill, GoTo, TypeOK, Ended
  <2>2. \A s \in Sources : watermark'[s] \in {watermark[s], 0}
    BY <1>2, KeyType DEF Backfill, TypeOK
  <2> QED BY <1>0, <1>2, <2>1, <2>2, QuietAccounts DEF Backfill, local
<1>3. ASSUME NEW r \in Runs, Gate(r) \/ Build(r) PROVE AccountInv'
  <2>1. \A q \in Runs : \/ pc'[q] = pc[q]
                        \/ pc'[q] \in {"build", "open", "done"} /\ pc[q] \notin Ended
    BY <1>3 DEF Gate, Build, Leave, GoTo, TypeOK, Ended
  <2> QED BY <1>0, <1>3, <2>1, QuietAccounts DEF Gate, Build, tables, local
<1>4. ASSUME NEW r \in Runs, OpenRun(r) \/ Fetch(r) \/ Ingest(r) \/ Conclude(r)
      PROVE  AccountInv'
  BY <1>4, AttemptAccounts
<1>5. ASSUME NEW r \in Runs, Finalize(r) PROVE AccountInv'
  BY <1>5, FinalizeAccounts
<1>6. ASSUME NEW r \in Runs, Hang(r) PROVE AccountInv'
  <2>1. \A q \in Runs : pc'[q] = pc[q] \/ (pc'[q] = "hung" /\ pc[q] \notin Ended)
    BY <1>6 DEF Hang, GoTo, TypeOK, Ended
  <2> QED BY <1>0, <1>6, <2>1, QuietAccounts DEF Hang, tables, local
<1>7. ASSUME NEW r \in Runs, Report(r) \/ Except(r) \/ Cancel(r) PROVE AccountInv'
  <2>1. \A q \in Runs : pc'[q] = pc[q] \/ pc'[q] = "done"
    BY <1>7 DEF Report, Except, Cancel, Leave, GoTo, TypeOK
  <2> QED BY <1>0, <1>7, <2>1, QuietAccounts DEF Report, Except, Cancel, tables, local, Ended
<1>8. ASSUME NEW p \in Procs, Crash(p) PROVE AccountInv'
  <2>1. \A q \in Runs : pc'[q] = pc[q] \/ pc'[q] = "done"
    BY <1>8 DEF Crash, TypeOK
  <2> QED BY <1>0, <1>8, <2>1, QuietAccounts DEF Crash, tables, local, Ended
<1>9. ASSUME NEW s \in Sources, Publish(s) PROVE AccountInv'
  <2>1. \A x \in Sources : upstream'[x] # 0
    BY <1>0, <1>9 DEF Publish, TypeOK
  <2> QED BY <1>9, <2>1, QuietAccounts DEF Publish, tables, local
<1>10. CASE Tick
  BY <1>0, <1>10, QuietAccounts DEF Tick, tables, local
<1>11. CASE UNCHANGED vars
  BY <1>0, <1>11, QuietAccounts DEF vars
<1> QED BY <1>1, <1>2, <1>3, <1>4, <1>5, <1>6, <1>7, <1>8, <1>9, <1>10, <1>11
        DEF Next, Step, AllDone

\* feed_runs tells the truth about the watermark: finalize_run (state.py)
\* leaves no SUCCESS row whose version is not durable and no watermark
\* without such a row, whichever runs overlap, are cancelled or die.
THEOREM TablesAccount == Spec => []RowsAccountForWatermarks
<1>1. AccountInv => RowsAccountForWatermarks
  BY DEF AccountInv, Accounts, HasRow, RowsAccountForWatermarks
<1> QED BY <1>1, InitTypeOK, StepTypeOK, InitCoverInv, StepCoverInv, InitAccountInv,
           StepAccountInv, PTL DEF Spec
=============================================================================
