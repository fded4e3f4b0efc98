# A TLA+ model of the CTI feed-ingestion service

The repository ingests threat-intelligence feeds: a scheduler enqueues a job
per source, a worker runs the job, a run fetches the feed, passes it through a
pipeline of seven concurrent stages, stores indicators and observations in
Postgres, fans them out to extra publishers and finally moves the source's
watermark. This directory holds TLA+ modules for the parts of it whose
correctness depends on interleaving, failure and order, TLC runs on small
instances, and TLAPS proofs for every instance. Paths below are relative to
`src/src/cti/`.

## 1. The system

| component | state | operations | talks to | what is hard | what makes it correct |
|---|---|---|---|---|---|
| pipeline (`core/pipeline.py`, `core/queue.py`, `core/stages/`) | six bounded queues, a batch per batching stage, the task group | put, get, close; one loop per stage; abort and cancellation | plugins, database, publishers | a failure or a cancellation at any await, a full queue, the last partial batch | nothing downstream of persist that is not durable; order kept; SUCCESS only if complete; the run ends |
| runner (`manager/runner.py`, `state.py`, `retry.py`, `concurrency.py`, `deadletter.py`) | two semaphores, `sources.watermark`, `feed_runs`, `dead_letters` | open, attempt, finalize, report, dead-letter | pipeline, breaker, database | several processes on one source, crashes, cancellation, errors of different classes | the watermark never names data that is not stored; it goes back only where a run was overtaken; slots come back; rows settle |
| circuit breaker (`manager/circuit_breaker.py`) | state, failure count, time of opening | before, on_success, on_failure | runner | runs that overlap report late | count and state agree; cool-down kept; never shut for good |
| rate limiter (`core/ratelimit.py`) | a bucket per host, local or in Redis | acquire | (no caller in the repository yet) | lazy refill, callers that wake together | admits what an ideal bucket admits and refuses only what it would refuse; keeps to its rate over any time; an acquire is kept from returning by others only |
| scheduler, job queue, worker (`manager/scheduler.py`, `worker.py`) | APScheduler jobs, arq queue | enqueue, run job, time out, restart | runner | misfires, jitter, two workers | a due source is run, once at a time (which two workers do not keep, see 6.2) |
| repositories (`persistence/repositories.py`) | indicators, observations | upsert_batch, queries | Postgres | transactions on the same indicators in different orders, a second statement that fails, two unique indexes | the two tables agree; a row sums up its sightings; no transaction waits for ever |
| partitions (`persistence/partitioning.py`) | month partitions | ensure_partition, ensure_next_n_months | Postgres | year ends, missed maintenance | today is covered unless maintenance is missed for too long; maintenance never fails |
| connectors, parsers, enrichers, publishers (`plugins/`) | HTTP clients | fetch, parse, enrich, publish | the outside world | conditional requests, interrupted sends, TLP | modelled inside the pipeline and the runner |
| identity (`core/hashing.py`, `core/models.py`, `plugins/enrichers/defang.py`) | none | canonicalize, indicator_uuid, build, defang | normalize and enrich stages | one indicator written in many ways, values rewritten later | one id per indicator, and it is the one of the stored value |
| registry, configuration, security guards, HTTP API, metrics, CLI | mostly none | read, validate, report | all of the above | backfill and replay while workers run | a backfill is a full pull |

Hazards, each with its line and the properties aimed at it, are listed in
`PROJECT.json`.

## 2. Modules

| module | models | extends |
|---|---|---|
| `Pipeline` | one `run_with_outcome` call: seven stage tasks, six `StageQueue`s, the `TaskGroup`, the outcome | |
| `RunContract` | the promise of one attempt to its caller | |
| `CircuitBreaker` | the breaker as a record, its methods as functions | |
| `BreakerCalls` | one breaker shared by overlapping runs | `CircuitBreaker` |
| `FeedRuns` | `FeedRunner.execute` of several processes on one database | `CircuitBreaker` |
| `IdealBucket` | the promise of a token bucket | |
| `TokenBucket` | `TokenBucket.acquire` / `_try_local` for one host | |
| `BucketWindow` | the same, with a record of what it lets through in a window of time | `TokenBucket` |
| `Partitions` | the monthly partitions of `indicator_observations` and their maintenance | |
| `IndicatorStore` | concurrent `upsert_batch` transactions on the two tables, on top of the partitions | `Partitions` |
| `Identity` | a feed value from its spelling through `Indicator.build` to the defang enricher | |
| `MCPipeline`, `MCBreakerCalls`, `MCFeedRuns`, `MCTokenBucket`, `MCIndicatorStore`, `MCIdentity` | values of constants for TLC | the component |
| `PipelineProofs`, `BreakerProofs`, `FeedRunsProofs`, `TokenBucketProofs`, `PartitionsProofs`, `IndicatorStoreProofs` | types and the first safety theorems | the component |
| `PipelineOrderProofs` | order, completeness, contract and progress of a pipeline run | `PipelineProofs` |
| `FeedRunsSlotsProofs` | slots, what they protect, and the watermark where they protect nothing | `FeedRunsProofs` |

Operators whose names start with `Mut`, or whose comment says "Seeded fault",
are single-fault variants of a definition that follows them. They are not part
of any specification: they serve to see that a property notices the fault.

### Pipeline

A record is its position in the feed; `Kind` says what normalize and the
enrichers make of it, `Ind` which indicator it is, `Tlp` its marking.
`pc[s]` is the await at which stage `s` is suspended. Each stage has one action
per stretch of code between two awaits: for persist, `PersistGet` (get, append,
decide on a flush), `PersistCommit` (the canonical publisher's transaction),
`PersistForward` (one `out.put`), `Close` (the `finally`). `Fault(s)` is an
exception of the stage's plugin, `Deliver(s)` the `CancelledError` that
`TaskGroup` sends once to each unfinished task. Both may leave behind the
effect of the call they interrupt (`SideEffect`): the commit, or a request to
a publisher of which a prefix arrived. `Unwind` has the difference between the
stages: fetch closes its queue only after a normal end, publish has none, the
five others close in `finally`. `Outcome` is the mapping of `run_with_outcome`
from the collected exceptions to SUCCESS, PARTIAL, FAILED or a re-raise.
asyncio switches tasks only at awaits that really wait; the model may switch
at every await and so has at least the interleavings of the code.

Left out: the order of records inside one request (a request is the set of its
records), counters, log lines, the bloom filter's answers (`run_dedup` passes
on every record whatever they are), the contents of records.

### RunContract and FeedRuns

`RunContract` says that an attempt stores wanted records prefix by prefix and
answers SUCCESS only when all are stored. `Pipeline` is checked to implement it
(`ImplementsContract`). `FeedRuns` is built on that promise: an attempt is
`Fetch` (the conditional GET of `http_base.py`), `Ingest` (the version becomes
durable, or an error comes first) and `Conclude` (success, or an error
after everything was stored). A feed is a version number that stands for its
ETag, 0 stands for the empty watermark.

The rest follows `execute()` line by line: `EnterGlobal`, `EnterSource`
(`async with self._globals, sem`), `Gate` (`breaker.before()`), `Build` (in
front of the `try`), `OpenRun` (one transaction, after which the row lock is
gone), `AttemptEnds` (`run_with_outcome` inside `with_retry`), `Finalize`,
`Report`, `Except`. `Cancel` is a job timeout or shutdown, `Crash` the death of
a process: its semaphores and breakers start afresh, the tables stay.
`Backfill` is the CLI command, whose wipe is a transaction of its own. `Hang`
is what `Pipeline` shows in 6.1: an attempt that fails or is cancelled may never
end. It keeps its slots; a later cancellation does not reach it, because a task
group that is aborting takes it for its own, so only the end of the process
frees them. `CanHang` is FALSE only where a property is refuted without it.

The variable `fresh` is a history: the runs for which, since their snapshot (for
a backfill, since its wipe), nobody has changed the watermark of their source.
No step depends on it.

Left out: feeds without an ETag; a commit that takes effect although the
client sees an error (a lost answer of the database); `replay_from_uri`; a
cancellation that a pipeline swallows because another stage also failed is the
same as that failure.

### CircuitBreaker, BreakerCalls

Every method holds the breaker's lock from its first to its last access, so a
method is a function. Time is the age of the opening, counted up to
`RecoverySeconds`; the failure count stops at `FailureCap`, which is at least
the threshold, beyond which the code only compares it.

### TokenBucket, BucketWindow, IdealBucket

`_try_local` holds the limiter's lock, so it is one step; a caller that is
refused sleeps for the time the missing tokens take, rounded up to the next
tick, and tries again. The refinement mapping takes the ideal level to be the
lazily refilled one (`Level`). A caller may call again and again, and never has
to: nothing bounds the calls or the order in which callers wake. One host: buckets of different hosts share
nothing but the lock.

`BucketWindow` adds two history variables, the age of a window and the cost of
what went through since it began. `Open` begins one at any moment, so what
holds of the window holds of every interval up to `MaxSpan`; no step of the
limiter depends on the history (`WindowSpecIsSpec`).

### Partitions, IndicatorStore

`Partitions` keeps the current month, the partitions that exist and how many
months have begun since maintenance last ran. `MonthAhead` is the arithmetic of
`ensure_next_n_months`, `PartitionBounds` that of `_partition_bounds`;
`Following` is the calendar, as Postgres' interval arithmetic in the migration
counts it. `IF NOT EXISTS` goes by the name of the table, the refusal of an
overlapping range by the bounds: the model keeps both, since a disagreement
between them is what could go wrong.

`IndicatorStore` has one writer per concurrent run. A sighting has two times,
which the code reads in different stages: `seen`, read by `Indicator.build` in
normalize (`Normalize`), is what `first_seen_by_us` and `last_seen_by_us` get;
`at`, read when persist makes the `Observation` (`Flush`), is `observed_at`.
Enrichment and queues lie between them, so months may pass, and two runs may
be in one order at the first reading and in the other at the second. `Flush` is
also persist's call of the canonical publisher; then `UpsertRow` once per row (the rows of a
multi-row UPSERT are locked in their order), `InsertObservations`, `Commit`.
Nothing of a transaction is visible before `Commit`, where the merge of
`ON CONFLICT DO UPDATE` is applied; the rows are locked from `UpsertRow` on, so
the merge cannot see older values than the statement did. `Duplicate` and
`WaitsFor` know the second unique index, on `(type, value)`, which is no
conflict target. `Fail` is a lost connection or a cancelled run,
`DeadlockVictim` the transaction Postgres ends; all of them are a `Rollback`,
the end of `async with db_session()`. Of a sighting the model keeps the
confidence and the months. The rows of one batch share them: rows merge one by
one, and a batch that straddles a month is refused if either month has no
partition.

`first_seen_by_us` is the time of the sighting that is committed first. With
overlapping runs this need not be the earliest one, and `RowSumsUp` claims only
that it is the time of some sighting. `last_seen_by_us` is the latest time at
which a sighting was built; a sighting that was built earlier may well have
been observed later, so it need not be the latest `observed_at`.

Left out: the session's time zone, in which Postgres reads the bounds of
partitions while the code counts months in UTC; partitions that operators
detach (`docs/user-guide/operations.md:83`).

### Identity

A value is a sequence of tokens, since refanging works on patterns such as
`[.]` and its order matters: letters and digits are one token each, words of
which only the whole matters (`hxxp`, `80`, `{dot}`) are one token. A UUID is
represented by the canonical value it is derived from, uuid5 being injective
for all that matters here. The feed means a value (`meant`) and writes it in
some spelling (`raw`), which may be defanged whether or not the code refangs
values of that type: `Write` adds a token, `Normalize` is
`_record_to_indicator`, `Enrich` the defang enricher, where a source has it.

The operators were compared with the functions of the repository on all of the
1,259,018 values that `identity` builds and enriches. They agree on all but 48
malformed hosts that begin with `][::`, which Python's `urlparse` accepts and
the model rejects.

Left out: IDNA, IPv6 addresses, query strings, label lengths; one hash type and
one plain-text type stand for the three and four there are.

## 3. Runs

| run | instance | checks | shows |
|---|---|---|---|
| `pipeline_tight` | 4 records, 2 payloads, queues of 1, batches of 2, 2 publishers, every plugin may fail, cancellation | `TypeOK`, `DurabilityFence`, `PersistInOrder`, `FanOutInOrder`, `SuccessIsComplete`, `NothingLost`, `NeverStalls`, `ImplementsContract` | safety of one attempt, 4.0 million states |
| `pipeline_roomy` | 4 records, queues longer than the feed, a repeated indicator, a record without a value, a malformed one, failures, cancellation | `Termination` | with room for the sentinel every run ends, 1.5 million states |
| `pipeline_hang` | 3 records, queues of 1, failures, no cancellation | `Termination` is violated | see 6.1 |
| `breaker_shared` | 3 overlapping runs, threshold 3, recovery 4 | `CountMatchesState`, `NotStuckOpen` | late reports do no lasting harm |
| `token_bucket` | 4 callers with costs 1, 2, 5, 6, rate 2, burst 5, windows of up to 3 ticks, any number of calls | `OversizedNeverReturns`, `WithinRate`, `BucketIsIdeal`, `Served` | refinement; the rate is kept; only other callers that are served can keep a caller waiting, 51 thousand states |
| `runs_worker` | 1 process, 2 sources, 3 runs, 2 global slots; pipelines may hang | `SomeHolderMoves`, `CoolDown`, `RunsEnd` | the two semaphores do not deadlock, and what stops a worker is a pipeline that hangs, 0.6 million states |
| `runs_fleet` | 2 processes, 1 source, 3 runs; errors, hangs, cancellation, crashes, backfills | `TypeOK`, `WatermarkCovered`, `RowsAccountForWatermarks`, `SlotsConserved`, `OnlyStaleRunsGoBack`, `BackfillStartsOver` | what holds for any fleet, 3.3 million states |
| `runs_overlap`, `runs_stuck_row` | 2 or 3 runs | one property each, violated | see 6.2, 6.3 |
| `store` | 2 writers, 3 indicators of which two share a value, batches of 1 or 2, 2 confidences, November to February, at most 1 month between the readings of the clock | `TypeOK`, `MaintainedIsCovered`, `MaintenanceSucceeds`, `StoredIffObserved`, `RowSumsUp`, `TransactionsEnd` | the tables under concurrent batches, deadlocks, failures and missed maintenance, 0.7 million states |
| `identity` | values of up to 9 tokens (5 to 8 for most types), up to 2 of them written otherwise | `SpellingsAgree`, `IdNamesValue` | one indicator, one id, 1.7 million states |
| `identity_defang` | URLs | `EveryIdNamesItsValue` is violated | see 6.4 |

Why the bounds are enough. Queues of one slot are the tightest case of
back-pressure; batches of two with four records, one of which is dropped on
the way, give a full batch and a rest, and the feed has a payload boundary. Three
runs on two global slots are the smallest instance in which runs of one source
can take every global slot while another source waits. Two versions of a feed
let a slow run write an old watermark over a new one. In the bucket, costs
below, at and beyond the burst size compete, the burst is no multiple of the
rate, and a window of three ticks sees the bucket filled again after it was
emptied. In the store, two batches of two rows in opposite orders are the
smallest deadlock, a batch can name an indicator twice, two ids with one value
meet the second index, and the four months cross the end of a year and let
maintenance be missed until a month is not covered. One month between normalize
and the commit (`MaxLag`) lets an observation fall into another month than its
row's times, and two writers exchange their order. The values of `identity`
have room for a scheme, a host with a port and a path, for three labels, and
for a replacement that makes the pattern of another one. `runs_fleet` uses
symmetry over runs and processes, and no liveness property is checked there.
`pipeline_tight` does not check deadlock, since the state 6.1 describes is one
(`NeverStalls` excludes it for runs in which nothing has failed); `identity`
does not, because a value is enriched once.

Fairness. `Pipeline`: weak fairness of `Step`, i.e. the event loop goes on as
long as some task is ready, and plugin calls return or raise; HTTP clients have
timeouts. Faults and cancellation are never forced. `FeedRuns`: each started
run goes on when it can, except one whose pipeline hangs, for which nothing is
assumed; asyncio's semaphores are first-in first-out, and with
finitely many runs weak fairness of each run is enough. Nothing forces runs to
start. `IndicatorStore`: the database executes the next statement of a writer
when its locks are free and ends a transaction that is on a cycle of waiting
ones; neither input nor faults nor maintenance are forced. `BreakerCalls`: time
passes, the scheduler goes on starting runs, and a run ends in one of three
ways. `BucketWindow`: time passes and a call that has begun goes on; nobody has
to call. That is too little to serve everybody: a loop of calls for one token
keeps a call for five asleep, and `Served` says so.

## 4. Theorems

All are proved without bounds on the constants, from the named assumptions of
the component modules (sizes are natural numbers, `LastOf` is monotone,
publishers are distinct, the policy's numbers are integers, months have numbers
from 1 to 12).

- `TypeCorrect` (`PipelineProofs`): queues never exceed `queue_maxsize`, and
  all variables have their types. `TypeOK` is not inductive: it needs
  `LocationInv`, that the batch is not empty where it is forwarded and that
  publish holds a record and a valid index where it uses them.
- `FenceHolds` (`PipelineProofs`): `DurabilityFence`. The strengthening
  `FenceInv` adds the two places between persist's commit and the publishers'
  batches: what persist still has to forward, and what publish holds in hand.
- `RowsInOrder`, `NothingIsLost` (`PipelineOrderProofs`): the argument goes from
  queue to queue. `hand[s]` is the last item stage `s` took, so it is a cursor,
  and `FlowInv` says that each queue holds, in feed order, exactly the records
  between the cursor of its consumer and that of its producer (`Link`, `Fed`);
  `PersistLine` continues this through the batch, the rows and the queue behind
  persist, where the rows are the wanted records up to some record `m`. A stage
  that raises leaves its link as it is, so the order survives failures and
  `PersistInOrder` holds in failing runs too. `OrderInv` is the induction:
  `FlowInv` with the types, the fence, `KindInv` (what gets past normalize and
  the enrichers), `SentinelInv` (nothing behind a sentinel) and `GroupInv`
  (tasks are cancelled only by a group that aborts or is cancelled, SUCCESS only
  when none raised).
- `SuccessMeansComplete`, `RunImplementsContract` (`PipelineOrderProofs`):
  `EndsInv` says that a stage that ends normally has left nothing behind it,
  neither in the queue it reads nor in its batch. With all stages done and none
  raised the links are empty, so the rows are all wanted records
  (`CompleteRun`). A `Commit` of the contract is a commit of persist, `End` is
  `Finish`, all else stutters.
- `FanOutIsOrdered` (`PipelineOrderProofs`): `SinkInv` has one `Share` per
  publisher: what it got is what it is cleared for up to some record `cut`, and
  its batch is the stretch from `cut` to the last record it was offered. A
  request that a fault cuts short is a part of the batch and ends the stage, so
  it keeps the order although it breaks the share. `SuccessMeansComplete` takes
  its second half from the share with an empty batch.
- `HealthyRunMoves` (`PipelineOrderProofs`): `KeepsMoving` is `NeverStalls` with
  the guards of the stages (`CanStep`) in place of `ENABLED`. If publish waits
  at an empty queue, persist has room, so it can only wait at an empty queue
  itself, and so on up to fetch, which never waits. What has to be excluded is
  a stage that waits for a sentinel that does not come: `HandoverInv` says that
  the sentinel of a stage that ended normally is in its queue or was heard. It
  is this that fails after a failure (6.1), when a cancelled `close()` loses
  the sentinel, or has nobody to make room for it. That `CanStep` is exactly
  when a stage's own actions are enabled was checked by TLC on the instances of
  `pipeline_tight` and `pipeline_roomy`, as were all parts of the inductive
  invariants.
- `CountAlwaysMatches` (`BreakerProofs`): each method preserves the agreement
  of count and state (`MethodsSound`), so overlapping reports do. It holds for
  thresholds of zero and less too, which the policy does not exclude.
- `WatermarkSafe`, `RunsTypeCorrect` (`FeedRunsProofs`): the invariant
  `CoverInv` says what each run knows of the ETag it carries: at the fetch it
  names durable data or nothing; during ingestion it may name the version just
  sent; at a successful finalize it is durable again. The two theorems share
  one induction, because `finalize_run` copies the outcome into the row and
  needs `CoverInv` to be a run state. The step through `AttemptEnds` uses that
  `run_with_outcome` turns every retryable error into a result, so `with_retry`
  never starts a second attempt with the ETag of a version that is not stored;
  `MutTransientEscapes` shows what would happen otherwise.
- `TablesAccount` (`FeedRunsProofs`): `RowsAccountForWatermarks`. A SUCCESS row
  is written long after the mark it vouches for was read, so `AccountInv` adds
  that a run with such a row is past every place where its mark could change,
  and that the mark of a run that has been answered is never the empty one,
  which `CoverInv` leaves open.
- `SlotsAreConserved` (`FeedRunsSlotsProofs`): for every semaphore the free
  slots and the runs inside add up to the limit, for any limits and any fleet.
  The proof counts holders; the set of runs may be infinite, those inside are
  finitely many.
- `WaitersAreServed` (`FeedRunsSlotsProofs`): `SomeHolderMoves`, from the same
  counts. An exhausted semaphore has a holder, because its limit is at least
  one (`GlobalMax` by assumption, `SourceSlots` because of `max(1, ...)`). A
  holder of a global slot that is stuck behind its source's semaphore leads to
  a holder of that one, which is past both and waits for no slot: what remains
  between `before()` and the end of `execute()` has no guard on other runs.
  This is the safety half of `RunsEnd`, for any limits and any fleet.
- `RecoveryIsRespected` (`FeedRunsSlotsProofs`): what a limit of one protects.
  It assumes `Serial`, that `max_parallelism` is 1 or less, which is its default
  (`manager/registry.py:37`, `config/defaults.yaml`), in any number of
  processes. With one slot two runs inside are one run (`OneHolder`), and
  `CoolInv` says that a circuit is opened only by the run that is leaving, so a
  breaker that is not open has its recovery time behind it. Without `Serial` a
  late failure can open the circuit while another run is past `before()`.
- `OnlyOvertakenGoBack`, `BackfillBeginsEmpty` (`FeedRunsSlotsProofs`): what
  remains of the order of watermarks between processes, where no limit protects
  it. `MarkInv` keeps watermarks and marks at or below the version upstream
  has. `FreshInv` says that the mark of a fresh run has not fallen behind the
  watermark of its source, and that the source of a fresh backfill which waits
  for its slots still has the empty one.
- `LazyRefillIsIdeal` (`TokenBucketProofs`): `TokenBucket` implements
  `IdealBucket`: a tick is a `Refill` (or a stutter when full), a successful
  try a `Grant`, everything else a stutter; a try that is refused finds the
  ideal level below its cost.
- `RateIsKept` (`TokenBucketProofs`): `WithinRate`. What is still in the bucket
  can be taken at once, so the invariant is that what was admitted and what the
  bucket holds (`Level`) together stay within `Burst + Rate * span`
  (`WindowInv`): a tick raises the right side by `Rate` and the left by no more,
  a grant moves its cost from the level to what was admitted, and a new window
  finds at most a full bucket. The proof takes the effect of ticks and grants
  on the level from the refinement.
- `OversizedBlocksForever` (`TokenBucketProofs`): `OversizedNeverReturns`, since
  no refill takes the level beyond `Burst`.
- `TablesAgree`, `MergeSumsUp`, `StoreTypeCorrect` (`IndicatorStoreProofs`):
  the two tables agree and every row sums up its sightings. `SeenInv` orders the
  two times of a sighting on its way. `RowSumsUp`
  alone is not inductive: a batch with an indicator twice would store two
  observations and merge only one. `DistinctInv` (the rows an UPSERT has been
  through are of different indicators) and `LocksInv` (at the commit it has
  been through all of them) exclude that, so the proof shows that the refusal
  of a second touch is what the merge relies on.
- `CurrentMonthCovered`, `PartitionsNeverRefused` (`IndicatorStoreProofs`, on
  the lemmas of `PartitionsProofs`): every month gets a number (`Index`), which
  `Following` raises by 1 and `MonthAhead(i)` by i, across the ends of years.
  `PartInv` says that partitions are whole months named after themselves, and
  that the k-th month from now has one as long as `missed + k` is below both
  `Months` and the three months of the migration.

Model-checked only: the liveness properties (`Termination`, `NotStuckOpen`,
`Served`, `RunsEnd`, `TransactionsEnd`), `NeverStalls` as it is stated, because
of `ENABLED` (`HealthyRunMoves` proves what it says in terms of guards), and
`SpellingsAgree` and `IdNamesValue` of `Identity`, which are about what the
recursive `Replace` computes for every value. All other safety properties of the
passing runs are theorems.

## 5. Not modelled

- Parsers, the enrichers' look-ups, egress rules, archive limits: functions of
  one input without state. A parser is the records it yields or its error.
- Configuration, the source registry, logging, metrics, tracing, the read-only
  HTTP API: no state that a run depends on after the start. The API's trigger
  endpoint enqueues a run, which `FeedRuns` may start at any time anyway.
- The job queue: arq is a library; what of it matters to the service (a job
  starts, times out, is cut off by a restart, two workers take jobs of one
  source) is in `FeedRuns`. The scheduler's triggers and jitter only choose
  when.
- The Redis script of the rate limiter: its behaviour depends on the clocks of
  several machines, and nothing in the repository constructs a limiter.
- `replay_from_uri` and the dead-letter commands: they edit or read one row, and
  a replay is a run with another connector.
- The status of a webhook's answer: the code does not look at it.

## 6. Where the code and its documents disagree

1. `pipeline_hang`. `StageQueue.close()` needs room. A stage fails and the
   group cancels each unfinished task once; a middle stage whose output queue
   is full takes its cancellation and unwinds into `await out.close()`, which
   waits for a consumer that the same cancellation has already ended. The task group never
   ends, where the documentation expects an exception group. The job timeout
   does not end such a run either: a task group that is aborting swallows the
   cancellation, and only the end of the process does. Until then the run keeps
   its slots, and runs of its source that wait behind it may keep the rest of
   the global ones: one hung run can stop a worker (`RunsEnd`).
2. `runs_overlap`. `open_run` takes a row lock "to prevent two workers running
   the same source concurrently" (`manager/state.py:21-22`). The lock ends with
   the transaction, before the first attempt, and the semaphores belong to one
   process, so the two workers of `docker-compose.yml:67-68` overlap. Then a
   slower run may write an older watermark over a newer one
   (`OnlyStaleRunsGoBack`), which costs a second pull of data that is stored;
   `WatermarkCovered` holds for any fleet.
3. `runs_stuck_row`. After an exception that is no `CTIError` (a database
   or HTTP client error), the runner returns FAILED and leaves the
   `feed_runs` row RUNNING.
4. `identity_defang`. `Indicator.build` derives the id from the canonical value;
   the defang enricher knows a pattern that `canonicalize` does not (`{dot}`)
   and rewrites the value afterwards. The id is then not the one of the stored
   value, and a feed that writes the rewritten value plainly is refused by
   `uq_indicators_type_value`, together with its batch (`Duplicate` in
   `IndicatorStore`).

Disagreements that no run of its own refutes, because the model shows them
directly:

- Nothing is ever retried, and a `PermanentError` of a run leaves no dead letter:
  `run_with_outcome` turns every `CTIError` into a result (`RunWithOutcome`), so
  `with_retry` and the `PermanentError` clause of the runner never see one.
  `docs/technical/plugin-sdk.md:143-145` and `docs/technical/architecture.md:39`
  promise retries of `TransientError` and `RateLimited`,
  `docs/user-guide/operations.md:32` and `manager/runner.py:6` the dead letter.
- `rate_limit_rps` is a "per-host ceiling" (`docs/user-guide/configuration.md:78`)
  that nothing enforces: no code constructs a limiter.
- `docs/technical/data-model.md:41` calls `indicator_id` a foreign key. The
  migration has none; `StoredIffObserved` is what keeps the tables together.
- `docs/technical/data-model.md:23-24` has the first and the last observation
  time. `first_seen_by_us` is that of the first commit, and both are times of
  normalisation, not of observation.
- `core/hashing.py:16-17` and `docs/technical/data-model.md:64` have every
  defanged value refanged. `canonicalize` refangs domains, URLs and the domains
  of e-mail addresses; a defanged IPv4 address and an e-mail address with `[at]`
  are dropped, a defanged local part or text is stored as it is written
  (`SpellingsAgree` states both).

Limits of what holds, which the documents do not mention:

- A caller of the rate limiter may starve: there is no queue, and callers that
  want fewer tokens may take them first for ever (`Served`). One that wants
  more than the burst size waits for ever in any case.
- A worker's run may put the watermark back between the wipe and the fetch of a
  backfill, which is then no full pull (`BackfillStartsOver`).
- `IdNamesValue` is stated for URLs with at most one port and without brackets:
  `canonicalize` strips one default port per call, so `http://a:80:80` has the
  id of another value.

## 7. Plan

Done, in this order: `Pipeline` with its contract; `CircuitBreaker`;
`FeedRuns`; `TokenBucket` and `BucketWindow`; `Partitions` and
`IndicatorStore`; `Identity`; the theorems of section 4.

Every safety invariant and action property of a passing run that does not need
`ENABLED` or recursion is now a theorem.

Next:

1. `RunContract` is proved of `Pipeline`, and `FeedRuns` is built on the same
   promise by construction; a theorem that connects the two would need a module
   that composes them.
2. The Redis bucket of the rate limiter, should a caller appear.
