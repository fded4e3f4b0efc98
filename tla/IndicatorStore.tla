--------------------------- MODULE IndicatorStore ---------------------------
(***************************************************************************)
(* Persist stages of concurrent runs writing to the indicators and         *)
(* indicator_observations tables (core/stages/persist.py,                  *)
(* plugins/publishers/postgres.py, persistence/repositories.py, the tables *)
(* of migration 0001_initial).  A writer collects sightings into a batch   *)
(* and stores the batch in one transaction: an UPSERT of the indicators,   *)
(* which locks their rows one after the other, and an INSERT of the        *)
(* observations, which needs a partition for each of their months.         *)
(*                                                                         *)
(* A sighting is an indicator with its observation.  Of its columns the    *)
(* model keeps the confidence and two readings of the clock, of which it   *)
(* keeps the month: "seen" by Indicator.build, in the normalize stage, for *)
(* first_seen_by_us and last_seen_by_us, and "at" by the persist stage for *)
(* observed_at.  Enrichment and two queues lie between them.               *)
(* Rows stay locked until their transaction ends, so what the UPSERT makes *)
(* of a row is computed when the transaction commits.                      *)
(***************************************************************************)
EXTENDS Partitions, Sequences, FiniteSets

CONSTANTS
    Writers,      \* persist stages, one per run
    Ids,          \* indicator UUIDs
    Value,        \* the (type, value) of each UUID
    Confidences,
    BatchSize,    \* PipelineSpec.batch_size
    MaxBatches,   \* bound on the batches built
    MaxLag        \* bound on the months that end while a batch is on its way

ASSUME StoreAssumption ==
    /\ DOMAIN Value = Ids
    /\ Confidences \subseteq Nat
    /\ BatchSize \in Nat \ {0}
    /\ MaxBatches \in Nat
    /\ MaxLag \in Nat

VARIABLES
    pc,            \* where each writer stands
    batch,         \* the sightings it has collected
    locked,        \* how many of them its UPSERT has been through
    indicators,    \* the indicators table
    observations,  \* the indicator_observations table
    flushed        \* batches built so far

vars == <<now, partitions, missed, pc, batch, locked, indicators, observations, flushed>>

Sighting == [id : Ids, confidence : Confidences, seen : Month, at : Month]
NoRow == [confidence |-> -1]
Row == [confidence : Confidences, first_seen : Month, last_seen : Month]

StoreInit ==
    /\ PartitionsInit
    /\ pc = [w \in Writers |-> "collect"]
    /\ batch = [w \in Writers |-> <<>>]
    /\ locked = [w \in Writers |-> 0]
    /\ indicators = [i \in Ids |-> NoRow]
    /\ observations = {}
    /\ flushed = 0

-----------------------------------------------------------------------------
(* From normalize to the flush *)

\* The indicators of a batch are built.  The rows of a batch do not affect
\* each other, so one confidence and one month stand for all of them.
Normalize(w) ==
    /\ pc[w] = "collect" /\ flushed < MaxBatches
    /\ \E n \in 1..BatchSize : \E ids \in [1..n -> Ids], c \in Confidences :
         batch' = [batch EXCEPT ![w] = [k \in 1..n |->
                     [id |-> ids[k], confidence |-> c, seen |-> now, at |-> now]]]
    /\ pc' = [pc EXCEPT ![w] = "queued"]
    /\ flushed' = flushed + 1
    /\ UNCHANGED <<now, partitions, missed, locked, indicators, observations>>

\* Persist stamps their observations; when the batch is full, or the input has
\* ended, publish() opens a transaction.
Flush(w) ==
    /\ pc[w] = "queued"
    /\ batch' = [batch EXCEPT ![w] =
                   [k \in 1..Len(batch[w]) |-> [batch[w][k] EXCEPT !.at = now]]]
    /\ pc' = [pc EXCEPT ![w] = "upsert"]
    /\ UNCHANGED <<now, partitions, missed, locked, indicators, observations, flushed>>

-----------------------------------------------------------------------------
(* The transaction *)

InTransaction(w) == pc[w] \in {"upsert", "insert", "commit"}

Locks(w) == {batch[w][k].id : k \in 1..locked[w]}

\* The sighting whose row the UPSERT comes to next.
NextId(w) == batch[w][locked[w] + 1].id

\* The unique indexes make an UPSERT wait for a transaction that has written
\* a row of the same id or of the same (type, value).
WaitsFor(w, v) ==
    /\ v # w
    /\ pc[w] = "upsert" /\ locked[w] < Len(batch[w])
    /\ \E j \in Locks(v) : Value[j] = Value[NextId(w)]

\* ON CONFLICT DO UPDATE refuses to touch a row twice in one statement.
TouchedTwice(w) == NextId(w) \in Locks(w)

\* The conflict target is the id alone: a new id with a (type, value) that
\* another row has violates uq_indicators_type_value.
Duplicate(w) ==
    /\ indicators[NextId(w)] = NoRow
    /\ \E j \in Ids \ {NextId(w)} :
         /\ Value[j] = Value[NextId(w)]
         /\ indicators[j] # NoRow \/ j \in Locks(w)

\* Seeded fault: the columns of the row are overwritten.
Overwritten(row, s) ==
    [confidence |-> s.confidence, first_seen |-> s.seen, last_seen |-> s.seen]

\* The row an UPSERT leaves: GREATEST of two columns, first_seen_by_us as the
\* first to commit has written it.
Upserted(row, s) ==
    IF row = NoRow
    THEN [confidence |-> s.confidence, first_seen |-> s.seen, last_seen |-> s.seen]
    ELSE [row EXCEPT !.confidence = IF s.confidence > @ THEN s.confidence ELSE @,
                     !.last_seen = IF Before(@, s.seen) THEN s.seen ELSE @]

\* The positions of an id in the batch of w (at most one once it is locked).
Positions(w, i) == {k \in 1..Len(batch[w]) : batch[w][k].id = i}

UpsertedTable(w) ==
    [i \in Ids |-> IF Positions(w, i) = {} THEN indicators[i]
                   ELSE Upserted(indicators[i], batch[w][CHOOSE k \in Positions(w, i) : TRUE])]

\* The end of `async with db_session()`: the locks are gone either way.
EndTransaction(w) ==
    /\ pc' = [pc EXCEPT ![w] = "collect"]
    /\ batch' = [batch EXCEPT ![w] = <<>>]
    /\ locked' = [locked EXCEPT ![w] = 0]

\* Seeded fault: the session of a transaction that fails is not closed.
SessionLeaks(w) ==
    /\ pc' = [pc EXCEPT ![w] = "leaked"]
    /\ UNCHANGED <<now, partitions, missed, batch, locked, indicators, observations, flushed>>

\* The transaction is rolled back and the exception ends the run; the writer
\* stands for the next run from here on.
Rollback(w) ==
    /\ EndTransaction(w)
    /\ UNCHANGED <<now, partitions, missed, indicators, observations, flushed>>

UpsertRow(w) ==
    /\ pc[w] = "upsert" /\ locked[w] < Len(batch[w])
    /\ \A v \in Writers : ~WaitsFor(w, v)
    /\ IF TouchedTwice(w) \/ Duplicate(w)
       THEN Rollback(w)
       ELSE /\ locked' = [locked EXCEPT ![w] = @ + 1]
            /\ pc' = [pc EXCEPT ![w] = IF locked'[w] = Len(batch[w]) THEN "insert" ELSE @]
            /\ UNCHANGED <<now, partitions, missed, batch, indicators, observations, flushed>>

\* Seeded fault: each statement commits by itself.
AutoCommit(w) ==
    /\ pc[w] = "insert"
    /\ IF \A k \in 1..Len(batch[w]) : Covered(batch[w][k].at)
       THEN /\ pc' = [pc EXCEPT ![w] = "commit"]
            /\ UNCHANGED <<batch, locked, indicators>>
       ELSE indicators' = UpsertedTable(w) /\ EndTransaction(w)
    /\ UNCHANGED <<now, partitions, missed, observations, flushed>>

\* Two statements of one transaction: the second fails without a partition.
InsertObservations(w) ==
    /\ pc[w] = "insert"
    /\ IF \A k \in 1..Len(batch[w]) : Covered(batch[w][k].at)
       THEN /\ pc' = [pc EXCEPT ![w] = "commit"]
            /\ UNCHANGED <<now, partitions, missed, batch, locked, indicators,
                           observations, flushed>>
       ELSE Rollback(w)

Commit(w) ==
    /\ pc[w] = "commit"
    /\ indicators' = UpsertedTable(w)
    /\ observations' = observations \cup {batch[w][k] : k \in 1..Len(batch[w])}
    /\ EndTransaction(w)
    /\ UNCHANGED <<now, partitions, missed, flushed>>

\* The connection, the process or the run ends in the middle.
Fail(w) ==
    /\ pc[w] # "collect"
    /\ Rollback(w)

\* Postgres ends a transaction that is on a cycle of waiting ones.
DeadlockVictim(w) ==
    /\ \E S \in SUBSET Writers :
         /\ w \in S
         /\ \A u \in S : \E v, x \in S : WaitsFor(u, v) /\ WaitsFor(x, u)
    /\ Rollback(w)

Writer(w) ==
    \/ Normalize(w) \/ Flush(w) \/ UpsertRow(w) \/ InsertObservations(w)
    \/ Commit(w) \/ Fail(w) \/ DeadlockVictim(w)

\* No batch on its way has seen MaxLag ends of a month.
WithinLag ==
    \A w \in Writers : \A k \in 1..Len(batch[w]) :
        LET d == batch[w][k].seen
        IN  12 * (now.year - d.year) + now.month - d.month < MaxLag

storeVars == <<pc, batch, locked, indicators, observations, flushed>>

StoreNext ==
    \/ \E w \in Writers : Writer(w)
    \/ EnsurePartitions /\ UNCHANGED storeVars
    \/ MonthPasses /\ WithinLag /\ UNCHANGED storeVars

StoreSpec == StoreInit /\ [][StoreNext]_vars

\* The database executes the statements of a connected client and looks for
\* deadlocks; nothing is assumed of the input, of the faults or of the cron.
FairStoreSpec ==
    /\ StoreSpec
    /\ \A w \in Writers :
         WF_vars(UpsertRow(w) \/ InsertObservations(w) \/ Commit(w) \/ DeadlockVictim(w))

-----------------------------------------------------------------------------
(* Properties *)

TypeOK ==
    /\ PartitionsTypeOK
    /\ pc \in [Writers -> {"collect", "queued", "upsert", "insert", "commit"}]
    /\ batch \in [Writers -> Seq(Sighting)]
    /\ locked \in [Writers -> Nat]
    /\ indicators \in [Ids -> Row \cup {NoRow}]
    /\ observations \subseteq Sighting
    /\ flushed \in Nat

\* The two tables agree, although no foreign key ties them: an indicator is
\* stored if and only if it has been observed, whichever statement of a batch
\* fails.
StoredIffObserved ==
    \A i \in Ids : indicators[i] # NoRow <=> \E o \in observations : o.id = i

\* The row of an indicator sums up its sightings, whatever the order in which
\* runs build, observe and commit them: its confidence is the highest of
\* theirs, and last_seen_by_us the latest time at which one of them was built,
\* which is not ahead of the observed_at of that one.  first_seen_by_us is such
\* a time too, of the first to be committed, which need not be the earliest.
RowSumsUp ==
    \A i \in Ids : indicators[i] # NoRow =>
        LET row == indicators[i]
            of  == {o \in observations : o.id = i}
        IN  /\ \E o \in of : o.confidence = row.confidence
            /\ \E o \in of : o.seen = row.last_seen /\ ~Before(o.at, row.last_seen)
            /\ \E o \in of : o.seen = row.first_seen
            /\ \A o \in of : /\ o.confidence <= row.confidence
                             /\ ~Before(row.last_seen, o.seen)

\* Writers of batches that share indicators in different orders do not wait
\* for each other for ever: every transaction commits or is rolled back.
TransactionsEnd ==
    \A w \in Writers : []<>~InTransaction(w)
=============================================================================
