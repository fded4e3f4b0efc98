------------------------------ MODULE FeedRuns ------------------------------
(***************************************************************************)
(* Feed runs of several processes against one database                     *)
(* (manager/runner.py, state.py, retry.py, concurrency.py, deadletter.py,  *)
(* cli/commands/backfill.py).  A run is one FeedRunner.execute() call of a *)
(* worker job or of a CLI command.  Each process has its own semaphores    *)
(* and circuit breakers; all share the sources, feed_runs and dead_letters *)
(* tables.  What one attempt does to the store is taken from RunContract:  *)
(* SUCCESS means that all of the fetched version is durable, any other end *)
(* may have stored all or only part of it.                                 *)
(*                                                                         *)
(* The upstream feed is a version number that its ETag names; 0 stands for *)
(* the empty watermark {}.                                                 *)
(***************************************************************************)
EXTENDS CircuitBreaker, FiniteSets

CONSTANTS
    Procs,        \* worker and CLI processes
    Sources,
    Runs,         \* run ids
    GlobalMax,    \* runtime.global_concurrency
    MaxParallel,  \* SourceConfig.max_parallelism
    MaxAttempts,  \* RetryPolicy.max_attempts
    MaxVersion,   \* bound on the versions of an upstream feed
    Errors,       \* the kinds of exception an attempt may end with
    CanHang,      \* a pipeline that fails or is cancelled may never end
    CanCancel,    \* runs are cancelled (job timeout, shutdown)
    CanCrash,     \* processes are killed
    CanBackfill   \* the backfill command is used

ASSUME RunsAssumption ==
    /\ GlobalMax \in Nat \ {0}
    /\ MaxParallel \in Int
    /\ MaxAttempts \in Nat
    /\ MaxVersion \in Nat
    /\ Errors \subseteq {"transient", "permanent", "other"}
    /\ {CanHang, CanCancel, CanCrash, CanBackfill} \subseteq BOOLEAN

VARIABLES
    pc,          \* where each execute() stands
    proc,        \* its process
    src,         \* its source
    mark,        \* ctx.watermark
    got,         \* the version this attempt has been sent, 0 for none
    attempts,    \* attempts made by with_retry
    outcome,     \* the state of the RunResult, or the exception that escaped
    backfill,    \* the runs started by the backfill command
    fresh,       \* history: the runs that have seen nobody else write the
                 \* watermark of their source since they read or cleared it
    row,         \* the state column of the run's feed_runs row
    watermark,   \* sources.watermark
    stored,      \* the versions of each source that are completely durable
    upstream,    \* the version each source serves now
    dlq,         \* the runs with a dead_letters row
    globalFree,  \* free slots of each process's GlobalConcurrency
    sourceFree,  \* free slots of each PerSourceConcurrency semaphore
    breaker      \* BreakerRegistry of each process

local == <<mark, got, attempts, outcome>>
tables == <<row, watermark, stored, dlq>>
slots == <<globalFree, sourceFree>>
vars == <<pc, proc, src, mark, got, attempts, outcome, backfill, fresh, row, watermark,
          stored, upstream, dlq, globalFree, sourceFree, breaker>>

\* asyncio.Semaphore(max(1, max_parallelism))
SourceSlots == IF MaxParallel < 1 THEN 1 ELSE MaxParallel

Init ==
    /\ pc = [r \in Runs |-> "idle"]
    /\ proc \in [Runs -> Procs]
    /\ src \in [Runs -> Sources]
    /\ mark = [r \in Runs |-> 0]
    /\ got = [r \in Runs |-> 0]
    /\ attempts = [r \in Runs |-> 0]
    /\ outcome = [r \in Runs |-> "none"]
    /\ backfill = {}
    /\ fresh = {}
    /\ row = [r \in Runs |-> "absent"]
    /\ watermark = [s \in Sources |-> 0]
    /\ stored = [s \in Sources |-> {}]
    /\ upstream = [s \in Sources |-> 1]
    /\ dlq = {}
    /\ globalFree = [p \in Procs |-> GlobalMax]
    /\ sourceFree = [k \in Procs \X Sources |-> SourceSlots]
    /\ breaker = [k \in Procs \X Sources |-> NewBreaker]

\* The semaphore and the breaker a run uses.
Key(r) == <<proc[r], src[r]>>
GoTo(r, loc) == pc' = [pc EXCEPT ![r] = loc]

\* The runs that the write of a watermark does not overtake.
StillFresh == {r \in fresh : watermark'[src[r]] = watermark[src[r]]}

-----------------------------------------------------------------------------
(* execute(), up to the first attempt.                                     *)

\* A worker takes a run_feed job, or run-once is called.
Start(r) ==
    /\ pc[r] = "idle"
    /\ GoTo(r, "global")
    /\ UNCHANGED <<proc, src, local, backfill, fresh, tables, upstream, slots, breaker>>

MutBackfillKeepsWatermark(r) ==
    /\ CanBackfill
    /\ pc[r] = "idle"
    /\ backfill' = backfill \cup {r}
    /\ fresh' = fresh \cup {r}
    /\ GoTo(r, "global")
    /\ UNCHANGED <<proc, src, local, tables, upstream, slots, breaker>>

\* backfill clears the source's watermark, commits, and then runs once.
Backfill(r) ==
    /\ CanBackfill
    /\ pc[r] = "idle"
    /\ watermark' = [watermark EXCEPT ![src[r]] = 0]
    /\ backfill' = backfill \cup {r}
    /\ fresh' = StillFresh \cup {r}
    /\ GoTo(r, "global")
    /\ UNCHANGED <<proc, src, local, row, stored, dlq, upstream, slots, breaker>>

\* "async with self._globals, sem": the global slot first.
EnterGlobal(r) ==
    /\ pc[r] = "global"
    /\ globalFree[proc[r]] > 0
    /\ globalFree' = [globalFree EXCEPT ![proc[r]] = @ - 1]
    /\ GoTo(r, "source")
    /\ UNCHANGED <<proc, src, local, backfill, fresh, tables, upstream, sourceFree, breaker>>

EnterSource(r) ==
    /\ pc[r] = "source"
    /\ sourceFree[Key(r)] > 0
    /\ sourceFree' = [sourceFree EXCEPT ![Key(r)] = @ - 1]
    /\ GoTo(r, "gate")
    /\ UNCHANGED <<proc, src, local, backfill, fresh, tables, upstream, globalFree, breaker>>

\* Leaving the "async with" block, by return or exception.
Leave(r) ==
    /\ globalFree' = [globalFree EXCEPT ![proc[r]] = @ + 1]
    /\ sourceFree' = [sourceFree EXCEPT ![Key(r)] = @ + 1]
    /\ GoTo(r, "done")

MutGateLeaks(r) ==
    /\ pc[r] = "gate"
    /\ IF Refuses(breaker[Key(r)])
       THEN GoTo(r, "done") /\ UNCHANGED <<slots, breaker>>
       ELSE /\ breaker' = [breaker EXCEPT ![Key(r)] = Before(@)]
            /\ GoTo(r, "build")
            /\ UNCHANGED slots
    /\ UNCHANGED <<proc, src, local, backfill, fresh, tables, upstream>>

\* breaker.before(): an open circuit ends the call without a feed_runs row.
Gate(r) ==
    /\ pc[r] = "gate"
    /\ IF Refuses(breaker[Key(r)])
       THEN Leave(r) /\ UNCHANGED breaker
       ELSE /\ breaker' = [breaker EXCEPT ![Key(r)] = Before(@)]
            /\ GoTo(r, "build")
            /\ UNCHANGED slots
    /\ UNCHANGED <<proc, src, local, backfill, fresh, tables, upstream>>

\* build_pipeline_spec stands in front of the try block: what it raises
\* leaves execute() without a report to the breaker.
Build(r) ==
    /\ pc[r] = "build"
    /\ \/ GoTo(r, "open") /\ UNCHANGED slots
       \/ Leave(r)
    /\ UNCHANGED <<proc, src, local, backfill, fresh, tables, upstream, breaker>>

\* open_run and mark_running in one transaction; the row lock on the source
\* ends with it.  It fails when the source has no row or the database is away.
OpenRun(r) ==
    /\ pc[r] = "open"
    /\ \/ /\ row' = [row EXCEPT ![r] = "RUNNING"]
          /\ mark' = [mark EXCEPT ![r] = watermark[src[r]]]
          /\ fresh' = fresh \cup {r}
          /\ attempts' = [attempts EXCEPT ![r] = 1]
          /\ GoTo(r, "fetch")
          /\ UNCHANGED outcome
       \/ /\ outcome' = [outcome EXCEPT ![r] = "other"]
          /\ GoTo(r, "except")
          /\ UNCHANGED <<row, mark, fresh, attempts>>
    /\ UNCHANGED <<proc, src, got, backfill, watermark, stored, upstream, dlq,
                   slots, breaker>>

-----------------------------------------------------------------------------
(* with_retry(run_with_outcome).                                           *)

MutTransientEscapes(e) ==
    CASE e = "ok" -> "SUCCESS"
      [] e = "permanent" -> "FAILED"
      [] OTHER -> "raised"

MutStateFromError(e) == IF e = "ok" THEN "SUCCESS" ELSE e

\* run_with_outcome turns every CTIError into a result; others escape.
RunWithOutcome(e) ==
    CASE e = "ok" -> "SUCCESS"
      [] e = "permanent" -> "FAILED"
      [] e = "transient" -> "PARTIAL"
      [] OTHER -> "raised"

\* with_retry tries again only what escapes as a TransientError.
AttemptEnds(r, e) ==
    LET out   == RunWithOutcome(e)
        again == out = "raised" /\ e = "transient" /\ attempts[r] < MaxAttempts
    IN  /\ outcome' = [outcome EXCEPT ![r] = IF out = "raised" THEN e ELSE out]
        /\ attempts' = [attempts EXCEPT ![r] = IF again THEN @ + 1 ELSE @]
        /\ GoTo(r, IF again THEN "fetch" ELSE IF out = "raised" THEN "except" ELSE "finalize")

\* The conditional GET of the HTTP connectors: the run is sent the current
\* version, whose ETag goes into ctx.watermark, or 304 when ctx.watermark
\* already names it; or the request fails.
Fetch(r) ==
    /\ pc[r] = "fetch"
    /\ \/ /\ mark[r] = upstream[src[r]]
          /\ got' = [got EXCEPT ![r] = 0]
          /\ GoTo(r, "ingest")
          /\ UNCHANGED <<mark, attempts, outcome>>
       \/ /\ mark[r] # upstream[src[r]]
          /\ mark' = [mark EXCEPT ![r] = upstream[src[r]]]
          /\ got' = [got EXCEPT ![r] = upstream[src[r]]]
          /\ GoTo(r, "ingest")
          /\ UNCHANGED <<attempts, outcome>>
       \/ /\ \E e \in Errors : AttemptEnds(r, e)
          /\ UNCHANGED <<mark, got>>
    /\ UNCHANGED <<proc, src, backfill, fresh, tables, upstream, slots, breaker>>

\* The rest of the pipeline, as RunContract has it: all of the version sent
\* becomes durable, or the attempt ends before that.
Ingest(r) ==
    /\ pc[r] = "ingest"
    /\ \/ /\ stored' = [stored EXCEPT ![src[r]] = @ \cup ({got[r]} \ {0})]
          /\ GoTo(r, "stored")
          /\ UNCHANGED <<attempts, outcome>>
       \/ /\ \E e \in Errors : AttemptEnds(r, e)
          /\ UNCHANGED stored
    /\ UNCHANGED <<proc, src, mark, got, backfill, fresh, row, watermark, upstream, dlq,
                   slots, breaker>>

\* An attempt succeeds, or fails late, say in an extra publisher.
Conclude(r) ==
    /\ pc[r] = "stored"
    /\ \E e \in Errors \cup {"ok"} : AttemptEnds(r, e)
    /\ UNCHANGED <<proc, src, mark, got, backfill, fresh, tables, upstream, slots, breaker>>

-----------------------------------------------------------------------------
(* The end of execute().                                                   *)

MutAdvancesUnlessFailed(r) == outcome[r] # "FAILED"

\* Only a SUCCESS moves the watermark of the source.
Advances(r) == outcome[r] = "SUCCESS"

MutWatermarkOfAttempt(r) == got[r]

\* RunResult.watermark is ctx.watermark.
NewWatermark(r) == mark[r]

\* finalize_run in its own transaction.
Finalize(r) ==
    /\ pc[r] = "finalize"
    /\ \/ /\ row' = [row EXCEPT ![r] = outcome[r]]
          /\ watermark' = IF Advances(r) THEN [watermark EXCEPT ![src[r]] = NewWatermark(r)]
                          ELSE watermark
          /\ fresh' = StillFresh
          /\ GoTo(r, "report")
          /\ UNCHANGED outcome
       \/ /\ outcome' = [outcome EXCEPT ![r] = "other"]
          /\ GoTo(r, "except")
          /\ UNCHANGED <<row, fresh, watermark>>
    /\ UNCHANGED <<proc, src, mark, got, attempts, backfill, stored, upstream, dlq,
                   slots, breaker>>

\* on_success or on_failure, the plugins are closed, and the slots are free.
Report(r) ==
    /\ pc[r] = "report"
    /\ breaker' = [breaker EXCEPT ![Key(r)] =
                      IF outcome[r] = "SUCCESS" THEN OnSuccess(@) ELSE OnFailure(@)]
    /\ Leave(r)
    /\ UNCHANGED <<proc, src, local, backfill, fresh, tables, upstream>>

\* record_dead_letter: a row in dead_letters, in a transaction of its own.
RecordDeadLetter(r) == dlq \cup {r}

\* The two except clauses: on_failure, and a dead letter for PermanentError.
Except(r) ==
    /\ pc[r] = "except"
    /\ breaker' = [breaker EXCEPT ![Key(r)] = OnFailure(@)]
    /\ dlq' = IF outcome[r] = "permanent" THEN RecordDeadLetter(r) ELSE dlq
    /\ Leave(r)
    /\ UNCHANGED <<proc, src, local, backfill, fresh, row, watermark, stored, upstream>>

-----------------------------------------------------------------------------
(* Cancellation, crashes and the environment.                              *)

Inside == {"gate", "build", "open", "fetch", "ingest", "stored", "hung",
           "finalize", "report", "except"}

\* An attempt that fails or is cancelled while its queues are full: a stage
\* waits in close() for a consumer that is gone, so pipeline.run never ends
\* (Pipeline, Termination).  The task group swallows a later cancellation.
Hang(r) ==
    /\ CanHang
    /\ pc[r] \in {"ingest", "stored"}
    /\ GoTo(r, "hung")
    /\ UNCHANGED <<proc, src, local, backfill, fresh, tables, upstream, slots, breaker>>

HungIn(p) == \E r \in Runs : proc[r] = p /\ pc[r] = "hung"

\* CancelledError is no Exception: nothing is reported, and no table is
\* written, but the "async with" blocks already entered are left.
Cancel(r) ==
    /\ CanCancel
    /\ \/ /\ pc[r] = "global"
          /\ GoTo(r, "done")
          /\ UNCHANGED slots
       \/ /\ pc[r] = "source"
          /\ globalFree' = [globalFree EXCEPT ![proc[r]] = @ + 1]
          /\ GoTo(r, "done")
          /\ UNCHANGED sourceFree
       \/ /\ pc[r] \in Inside \ {"hung"}
          /\ Leave(r)
    /\ UNCHANGED <<proc, src, local, backfill, fresh, tables, upstream, breaker>>

\* A process dies with all its runs and comes back with fresh semaphores and
\* breakers; the tables stay as they are.
Crash(p) ==
    /\ CanCrash
    /\ \E r \in Runs : proc[r] = p /\ pc[r] \notin {"idle", "done"}
    /\ pc' = [r \in Runs |-> IF proc[r] = p /\ pc[r] # "idle" THEN "done" ELSE pc[r]]
    /\ globalFree' = [globalFree EXCEPT ![p] = GlobalMax]
    /\ sourceFree' = [k \in Procs \X Sources |->
                         IF k[1] = p THEN SourceSlots ELSE sourceFree[k]]
    /\ breaker' = [k \in Procs \X Sources |-> IF k[1] = p THEN NewBreaker ELSE breaker[k]]
    /\ UNCHANGED <<proc, src, local, backfill, fresh, tables, upstream>>

\* The source publishes a new version.
Publish(s) ==
    /\ upstream[s] < MaxVersion
    /\ upstream' = [upstream EXCEPT ![s] = @ + 1]
    /\ UNCHANGED <<pc, proc, src, local, backfill, fresh, tables, slots, breaker>>

Tick ==
    /\ \E k \in Procs \X Sources : breaker[k].age < RecoverySeconds
    /\ breaker' = [k \in Procs \X Sources |-> Elapse(breaker[k])]
    /\ UNCHANGED <<pc, proc, src, local, backfill, fresh, tables, upstream, slots>>

\* Every run has ended, or may wait for one that hangs.
AllDone == (\A r \in Runs : pc[r] = "done" \/ HungIn(proc[r])) /\ UNCHANGED vars

\* What a run does once it is started.
Step(r) ==
    \/ EnterGlobal(r) \/ EnterSource(r) \/ Gate(r) \/ Build(r) \/ OpenRun(r)
    \/ Fetch(r) \/ Ingest(r) \/ Conclude(r) \/ Finalize(r) \/ Report(r) \/ Except(r)

Next ==
    \/ \E r \in Runs : Start(r) \/ Backfill(r) \/ Step(r) \/ Hang(r) \/ Cancel(r)
    \/ \E p \in Procs : Crash(p)
    \/ \E s \in Sources : Publish(s)
    \/ Tick
    \/ AllDone

Spec == Init /\ [][Next]_vars

\* A run that can go on does, unless its pipeline hangs; nothing forces runs to
\* start, clocks to tick or anything to fail.
FairSpec == Spec /\ \A r \in Runs : WF_vars(Step(r))

-----------------------------------------------------------------------------
(* Properties.                                                             *)

Versions == Nat

\* Every variable has its type.
TypeOK ==
    /\ pc \in [Runs -> {"idle", "global", "source", "done"} \cup Inside]
    /\ proc \in [Runs -> Procs]
    /\ src \in [Runs -> Sources]
    /\ mark \in [Runs -> Versions]
    /\ got \in [Runs -> Versions]
    /\ attempts \in [Runs -> 0..MaxAttempts + 1]
    /\ outcome \in [Runs -> {"none", "SUCCESS", "PARTIAL", "FAILED", "transient",
                             "permanent", "other"}]
    /\ backfill \subseteq Runs
    /\ fresh \subseteq Runs
    /\ row \in [Runs -> {"absent", "RUNNING", "SUCCESS", "PARTIAL", "FAILED"}]
    /\ watermark \in [Sources -> Versions]
    /\ stored \in [Sources -> SUBSET Versions]
    /\ upstream \in [Sources -> Nat]
    /\ dlq \subseteq Runs
    /\ globalFree \in [Procs -> Int]
    /\ sourceFree \in [Procs \X Sources -> Int]
    /\ breaker \in [Procs \X Sources -> Breakers]

\* No silent gap: the watermark of a source, which later runs send upstream
\* to be told "not modified", only ever names a version that is durable,
\* whichever runs overlap, fail, are cancelled or die.
WatermarkCovered ==
    \A s \in Sources : watermark[s] # 0 => watermark[s] \in stored[s]

\* The tables account for each other: the watermark in a SUCCESS row names a
\* version that is durable, and the watermark of a source is the one of such
\* a row, also when a process dies around the transaction of finalize_run.
RowsAccountForWatermarks ==
    /\ \A r \in Runs : row[r] = "SUCCESS" => mark[r] \in stored[src[r]]
    /\ \A s \in Sources : watermark[s] # 0 =>
          \E r \in Runs : src[r] = s /\ row[r] = "SUCCESS" /\ mark[r] = watermark[s]

\* open_run takes the snapshot of the watermark.
Opens(r) == pc[r] = "open" /\ pc'[r] = "fetch"

\* finalize_run writes back a watermark read in another transaction, and
\* nothing keeps other processes from writing in between.  That is the only
\* way for a watermark to go back: apart from a backfill, only a run that has
\* been overtaken by another writer puts an older version in place of a newer.
OnlyStaleRunsGoBack ==
    [][\A s \in Sources : watermark'[s] < watermark[s] =>
          \/ backfill' # backfill
          \/ \E r \in Runs \ fresh : src[r] = s /\ pc[r] = "finalize" /\ pc'[r] = "report"]_vars

\* backfill clears the watermark in one transaction and reads it back in
\* another, after waiting for slots: it fetches the feed from the start unless
\* some other run has written the watermark in the meantime.
BackfillStartsOver ==
    [][\A r \in backfill \cap fresh : Opens(r) => mark'[r] = 0]_vars

\* Every exit path gives back exactly the slots it took: free slots and runs
\* that hold one always add up, so capacity is neither lost nor exceeded.
SlotsConserved ==
    /\ \A p \in Procs :
          /\ globalFree[p] >= 0
          /\ globalFree[p] + Cardinality({r \in Runs :
                proc[r] = p /\ pc[r] \in Inside \cup {"source"}}) = GlobalMax
    /\ \A k \in Procs \X Sources :
          /\ sourceFree[k] >= 0
          /\ sourceFree[k] + Cardinality({r \in Runs :
                Key(r) = k /\ pc[r] \in Inside}) = SourceSlots

\* Runs that wait for each other's slots never all stand still: behind a full
\* source semaphore, and behind the global one when runs of a busy source
\* hold all of it, there is a run of the same process that can go on, or whose
\* pipeline hangs.
SomeHolderMoves ==
    \A r \in Runs :
       /\ pc[r] = "source" /\ sourceFree[Key(r)] = 0 =>
             \E q \in Runs : Key(q) = Key(r) /\ pc[q] \in Inside
       /\ pc[r] = "global" /\ globalFree[proc[r]] = 0 =>
             \E q \in Runs : /\ proc[q] = proc[r]
                             /\ \/ pc[q] \in Inside
                                \/ pc[q] = "source" /\ sourceFree[Key(q)] > 0

\* A run that has snapshotted the watermark and not yet written it back.
UnderWay(r) == pc[r] \in {"fetch", "ingest", "stored", "finalize"}

\* state.py: the row lock is taken "to prevent two workers running the same
\* source concurrently".
NoOverlap ==
    \A q, r \in Runs : q # r /\ src[q] = src[r] => ~(UnderWay(q) /\ UnderWay(r))

\* With one run at a time per source, a run gets past the breaker no sooner
\* than recovery_seconds after the failure that opened it.
CoolDown ==
    [][\A r \in Runs : pc[r] = "gate" /\ pc'[r] = "build"
          => breaker[Key(r)].age = RecoverySeconds]_vars

\* Nobody waits forever for a slot or a breaker: a run that has started comes
\* to an end, unless a pipeline of its process hangs.  One that does keeps its
\* slots, and runs of its source that wait behind it keep the global ones from
\* every other source.
RunsEnd ==
    \A r \in Runs : pc[r] = "global" ~> pc[r] = "done" \/ HungIn(proc[r])

\* architecture.md: a feed_runs row goes PENDING -> RUNNING -> SUCCESS,
\* PARTIAL or FAILED.
RowsSettle == \A r \in Runs : row[r] = "RUNNING" ~> row[r] \in {"SUCCESS", "PARTIAL", "FAILED"}
=============================================================================
