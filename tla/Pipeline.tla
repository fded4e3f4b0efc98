------------------------------ MODULE Pipeline ------------------------------
(***************************************************************************)
(* One run of the ingestion pipeline (src/cti/core/pipeline.py): the seven *)
(* stages fetch, parse, normalize, enrich, dedup, persist and publish are  *)
(* the tasks of one asyncio.TaskGroup, joined by six bounded StageQueues.  *)
(* A queue is named after the stage that fills it.                         *)
(*                                                                         *)
(* A record is its position in the feed, 1..NumRecords, so that order,     *)
(* loss and repetition can be told apart and nothing else can.  EOS is the *)
(* SENTINEL of queue.py.  Every await of a stage (queue get, queue put,    *)
(* plugin call) is a point where other tasks may run and where a           *)
(* cancellation may be delivered.  asyncio only suspends at the awaits     *)
(* that have to wait, so the model has every interleaving of the code.     *)
(***************************************************************************)
EXTENDS Integers, Sequences, Functions

CONSTANTS
    NumRecords,   \* records in the feed
    NumPayloads,  \* payloads the connector yields
    LastOf,       \* LastOf[k] is the last record of payload k, LastOf[0] = 0
    Kind,         \* what normalize and the enrichers make of a record
    Ind,          \* the indicator (type, value) of a record
    Publishers,   \* the extra publishers, in configuration order
    Tlp,          \* the TLP rank of a record
    MaxTlp,       \* the strictest TLP rank a publisher accepts
    QueueMax,     \* PipelineSpec.queue_maxsize
    BatchSize,    \* PipelineSpec.batch_size
    SkipOnError,  \* NormalizeConfig.skip_on_error
    Faults,       \* the kinds of exception the plugin of a stage may raise
    Cancellable   \* whether the run's own task may be cancelled

Stages == {"fetch", "parse", "normalize", "enrich", "dedup", "persist", "publish"}
Producers == Stages \ {"publish"}
Upstream == [parse |-> "fetch", normalize |-> "parse", enrich |-> "normalize",
             dedup |-> "enrich", persist |-> "dedup", publish |-> "persist"]
Records == 1..NumRecords
EOS == 0
Sinks == Range(Publishers)

(* CTIError splits into PermanentError and the rest (TransientError,       *)
(* RateLimited, ...); "other" is any exception that is not a CTIError.     *)
ErrorKinds == {"permanent", "cti", "other"}

ASSUME SizeAssumption ==
    /\ NumRecords \in Nat
    /\ NumPayloads \in Nat
    /\ QueueMax \in Nat \ {0}
    /\ BatchSize \in Nat \ {0}
    /\ SkipOnError \in BOOLEAN
    /\ Cancellable \in BOOLEAN

ASSUME FeedAssumption ==
    /\ LastOf \in [0..NumPayloads -> 0..NumRecords]
    /\ LastOf[0] = 0
    /\ LastOf[NumPayloads] = NumRecords
    /\ \A k \in 1..NumPayloads : LastOf[k - 1] <= LastOf[k]
    /\ Kind \in [Records -> {"good", "rejected", "empty", "permanent", "other"}]
    /\ Tlp \in [Records -> Nat]
    /\ DOMAIN Ind = Records

ASSUME PluginAssumption ==
    /\ Publishers \in Seq(Sinks)
    /\ \A i, j \in 1..Len(Publishers) : Publishers[i] = Publishers[j] => i = j
    /\ MaxTlp \in [Sinks -> Nat]
    /\ Faults \in [Stages -> SUBSET ErrorKinds]

VARIABLES
    pc,         \* where each stage task stands
    queue,      \* the StageQueue each producer fills
    hand,       \* the item a stage has taken and not yet passed on
    emitted,    \* the last record the parser has yielded
    batch,      \* persist: the batch, then its pairs still to be forwarded
    pending,    \* publish: the batch of each extra publisher
    turn,       \* publish: the index in Publishers of the loop over them
    ended,      \* the batching stages that have received the sentinel
    raised,     \* the exception a stage task ends, or is unwinding, with
    cancel,     \* Task.cancel() called and not yet delivered
    group,      \* the TaskGroup: open, aborting, or its own task cancelled
    db,         \* committed observation rows of this run, in commit order
    delivered,  \* per extra publisher, the requests it accepted, in order
    result      \* what run_with_outcome returns or raises

vars == <<pc, queue, hand, emitted, batch, pending, turn, ended, raised,
          cancel, group, db, delivered, result>>

Init ==
    /\ pc = [s \in Stages |-> IF s = "fetch" THEN "next" ELSE "get"]
    /\ queue = [s \in Producers |-> <<>>]
    /\ hand = [s \in Stages |-> 0]
    /\ emitted = 0
    /\ batch = <<>>
    /\ pending = [p \in Sinks |-> <<>>]
    /\ turn = 1
    /\ ended = {}
    /\ raised = [s \in Stages |-> "none"]
    /\ cancel = [s \in Stages |-> FALSE]
    /\ group = "open"
    /\ db = <<>>
    /\ delivered = [p \in Sinks |-> <<>>]
    /\ result = "none"

-----------------------------------------------------------------------------
(* StageQueue and the task machinery.                                      *)

At(s, loc) == pc[s] = loc /\ ~cancel[s]
GoTo(s, loc) == pc' = [pc EXCEPT ![s] = loc]
Room(s) == Len(queue[s]) < QueueMax

MutPutUnbounded(s, item) == queue' = [queue EXCEPT ![s] = Append(@, item)]

\* StageQueue.put: waits for room.
Put(s, item) == Room(s) /\ queue' = [queue EXCEPT ![s] = Append(@, item)]

\* StageQueue.get on the queue a stage consumes: waits for an item.
Arrived(s) == queue[Upstream[s]] # <<>>
Arrival(s) == Head(queue[Upstream[s]])
Take(s) == Arrived(s) /\ queue' = [queue EXCEPT ![Upstream[s]] = Tail(@)]

\* An exception leaves the stage: through "finally: await out.close()" for
\* the five middle stages, at once for fetch and publish, which have none.
Unwind(s) == IF s \in {"fetch", "publish"} THEN "done" ELSE "closing"
Raise(s, e) == raised' = [raised EXCEPT ![s] = e] /\ GoTo(s, Unwind(s))

\* StageQueue.close: the sentinel needs room like any other item.
Close(s) ==
    /\ At(s, "closing")
    /\ Put(s, EOS)
    /\ GoTo(s, "done")
    /\ UNCHANGED <<hand, emitted, batch, pending, turn, ended, raised, cancel,
                   group, db, delivered, result>>

\* The put that ends one turn of the loops of normalize, enrich and dedup.
Pass(s) ==
    /\ At(s, "put")
    /\ Put(s, hand[s])
    /\ GoTo(s, "get")
    /\ UNCHANGED <<hand, emitted, batch, pending, turn, ended, raised, cancel,
                   group, db, delivered, result>>

-----------------------------------------------------------------------------
(* fetch: one payload at a time; close only after a normal end.            *)

MutFetchNoClose ==
    /\ At("fetch", "next")
    /\ IF hand["fetch"] < NumPayloads
       THEN hand' = [hand EXCEPT !["fetch"] = @ + 1] /\ GoTo("fetch", "put")
       ELSE GoTo("fetch", "done") /\ UNCHANGED hand
    /\ UNCHANGED <<queue, emitted, batch, pending, turn, ended, raised, cancel,
                   group, db, delivered, result>>

FetchNext ==
    /\ At("fetch", "next")
    /\ IF hand["fetch"] < NumPayloads
       THEN hand' = [hand EXCEPT !["fetch"] = @ + 1] /\ GoTo("fetch", "put")
       ELSE GoTo("fetch", "closing") /\ UNCHANGED hand
    /\ UNCHANGED <<queue, emitted, batch, pending, turn, ended, raised, cancel,
                   group, db, delivered, result>>

FetchPut ==
    /\ At("fetch", "put")
    /\ Put("fetch", hand["fetch"])
    /\ GoTo("fetch", "next")
    /\ UNCHANGED <<hand, emitted, batch, pending, turn, ended, raised, cancel,
                   group, db, delivered, result>>

(* parse: the records of a payload, in order.                              *)

ParseGet ==
    /\ At("parse", "get")
    /\ Take("parse")
    /\ IF Arrival("parse") = EOS
       THEN GoTo("parse", "closing") /\ UNCHANGED hand
       ELSE hand' = [hand EXCEPT !["parse"] = Arrival("parse")] /\ GoTo("parse", "emit")
    /\ UNCHANGED <<emitted, batch, pending, turn, ended, raised, cancel, group,
                   db, delivered, result>>

ParsePut ==
    /\ At("parse", "emit")
    /\ emitted < LastOf[hand["parse"]]
    /\ Put("parse", emitted + 1)
    /\ emitted' = emitted + 1
    /\ UNCHANGED <<pc, hand, batch, pending, turn, ended, raised, cancel, group,
                   db, delivered, result>>

ParseExhausted ==
    /\ At("parse", "emit")
    /\ emitted >= LastOf[hand["parse"]]
    /\ GoTo("parse", "get")
    /\ UNCHANGED <<queue, hand, emitted, batch, pending, turn, ended, raised,
                   cancel, group, db, delivered, result>>

(* normalize: a record without type or value is skipped silently; one that *)
(* cannot be converted is skipped, or ends the stage, by skip_on_error.    *)

NormalizeGet ==
    /\ At("normalize", "get")
    /\ Take("normalize")
    /\ LET r == Arrival("normalize") IN
       \/ /\ r = EOS
          /\ GoTo("normalize", "closing")
          /\ UNCHANGED <<hand, raised>>
       \/ /\ r # EOS
          /\ Kind[r] = "empty" \/ (Kind[r] \in ErrorKinds /\ SkipOnError)
          /\ UNCHANGED <<pc, hand, raised>>
       \/ /\ r # EOS
          /\ Kind[r] \in ErrorKinds /\ ~SkipOnError
          /\ Raise("normalize", Kind[r])
          /\ UNCHANGED hand
       \/ /\ r # EOS
          /\ Kind[r] \in {"good", "rejected"}
          /\ hand' = [hand EXCEPT !["normalize"] = r]
          /\ GoTo("normalize", "put")
          /\ UNCHANGED raised
    /\ UNCHANGED <<emitted, batch, pending, turn, ended, cancel, group, db,
                   delivered, result>>

(* enrich: the chain of enrichers is awaited; None drops the record.       *)

EnrichGet ==
    /\ At("enrich", "get")
    /\ Take("enrich")
    /\ IF Arrival("enrich") = EOS
       THEN GoTo("enrich", "closing") /\ UNCHANGED hand
       ELSE hand' = [hand EXCEPT !["enrich"] = Arrival("enrich")] /\ GoTo("enrich", "work")
    /\ UNCHANGED <<emitted, batch, pending, turn, ended, raised, cancel, group,
                   db, delivered, result>>

MutEnrichForwardsNone ==
    /\ At("enrich", "work")
    /\ GoTo("enrich", "put")
    /\ UNCHANGED <<queue, hand, emitted, batch, pending, turn, ended, raised,
                   cancel, group, db, delivered, result>>

EnrichWork ==
    /\ At("enrich", "work")
    /\ GoTo("enrich", IF Kind[hand["enrich"]] = "rejected" THEN "get" ELSE "put")
    /\ UNCHANGED <<queue, hand, emitted, batch, pending, turn, ended, raised,
                   cancel, group, db, delivered, result>>

(* dedup: the bloom filter is advisory, every record is passed on.         *)

DedupGet ==
    /\ At("dedup", "get")
    /\ Take("dedup")
    /\ IF Arrival("dedup") = EOS
       THEN GoTo("dedup", "closing") /\ UNCHANGED hand
       ELSE hand' = [hand EXCEPT !["dedup"] = Arrival("dedup")] /\ GoTo("dedup", "put")
    /\ UNCHANGED <<emitted, batch, pending, turn, ended, raised, cancel, group,
                   db, delivered, result>>

-----------------------------------------------------------------------------
(* persist: batches go to the canonical publisher in one transaction and   *)
(* only then, pair by pair, to the publish stage.                          *)

MutForwardFirst == "forward"

\* flush() first has the canonical publisher commit the batch.
FlushStart == "commit"

MutNoFinalFlush == "closing"

\* The flush() after the loop, for the batch that is not full.
FinalFlush == IF batch = <<>> THEN "closing" ELSE FlushStart

PersistGet ==
    /\ At("persist", "get")
    /\ Take("persist")
    /\ LET r == Arrival("persist") IN
       \/ /\ r = EOS
          /\ ended' = ended \cup {"persist"}
          /\ GoTo("persist", FinalFlush)
          /\ UNCHANGED batch
       \/ /\ r # EOS
          /\ batch' = Append(batch, r)
          /\ GoTo("persist", IF Len(batch) + 1 >= BatchSize THEN FlushStart ELSE "get")
          /\ UNCHANGED ended
    /\ UNCHANGED <<hand, emitted, pending, turn, raised, cancel, group, db,
                   delivered, result>>

\* ON CONFLICT DO UPDATE refuses to touch one row twice in one statement, so
\* a batch that repeats an indicator is rejected as a whole by the database.
Acceptable(b) ==
    \A i, j \in 1..Len(b) : Ind[b[i]] = Ind[b[j]] => i = j

PersistCommit ==
    /\ At("persist", "commit")
    /\ IF Acceptable(batch)
       THEN /\ db' = db \o batch
            /\ GoTo("persist", "forward")
            /\ UNCHANGED raised
       ELSE Raise("persist", "other") /\ UNCHANGED db
    /\ UNCHANGED <<queue, hand, emitted, batch, pending, turn, ended, cancel,
                   group, delivered, result>>

PersistForward ==
    /\ At("persist", "forward")
    /\ Put("persist", Head(batch))
    /\ batch' = Tail(batch)
    /\ GoTo("persist", IF Len(batch) > 1 THEN "forward"
                       ELSE IF "persist" \in ended THEN "closing" ELSE "get")
    /\ UNCHANGED <<hand, emitted, pending, turn, ended, raised, cancel, group,
                   db, delivered, result>>

-----------------------------------------------------------------------------
(* publish: every record joins the batch of every extra publisher; a batch *)
(* is sent when full, and what is left is sent after the sentinel.         *)

PublishGet ==
    /\ At("publish", "get")
    /\ Take("publish")
    /\ turn' = 1
    /\ IF Arrival("publish") = EOS
       THEN ended' = ended \cup {"publish"} /\ UNCHANGED hand
       ELSE hand' = [hand EXCEPT !["publish"] = Arrival("publish")] /\ UNCHANGED ended
    /\ GoTo("publish", "offer")
    /\ UNCHANGED <<emitted, batch, pending, raised, cancel, group, db,
                   delivered, result>>

\* One turn of the loop over the publishers, up to the send it may need.
PublishOffer ==
    /\ At("publish", "offer")
    /\ turn <= Len(Publishers)
    /\ LET p    == Publishers[turn]
           last == "publish" \in ended
           b    == IF last THEN pending[p] ELSE Append(pending[p], hand["publish"])
           due  == IF last THEN b # <<>> ELSE Len(b) >= BatchSize
       IN  /\ pending' = [pending EXCEPT ![p] = b]
           /\ IF due THEN GoTo("publish", "send") /\ UNCHANGED turn
                     ELSE turn' = turn + 1 /\ UNCHANGED pc
    /\ UNCHANGED <<queue, hand, emitted, batch, ended, raised, cancel, group,
                   db, delivered, result>>

PublishOffered ==
    /\ At("publish", "offer")
    /\ turn > Len(Publishers)
    /\ GoTo("publish", IF "publish" \in ended THEN "done" ELSE "get")
    /\ UNCHANGED <<queue, hand, emitted, batch, pending, turn, ended, raised,
                   cancel, group, db, delivered, result>>

\* The TLP filter of the webhook and kafka publishers.
Cleared(p) == {r \in Range(pending[p]) : Tlp[r] <= MaxTlp[p]}

MutSendKeepsBatch ==
    /\ At("publish", "send")
    /\ LET p == Publishers[turn] IN
       delivered' = IF Cleared(p) = {} THEN delivered
                    ELSE [delivered EXCEPT ![p] = Append(@, Cleared(p))]
    /\ turn' = turn + 1
    /\ GoTo("publish", "offer")
    /\ UNCHANGED <<queue, hand, emitted, batch, pending, ended, raised, cancel,
                   group, db, result>>

\* publisher.publish: TLPViolation when nothing is left is caught by flush.
PublishSend ==
    /\ At("publish", "send")
    /\ LET p == Publishers[turn] IN
       /\ delivered' = IF Cleared(p) = {} THEN delivered
                       ELSE [delivered EXCEPT ![p] = Append(@, Cleared(p))]
       /\ pending' = [pending EXCEPT ![p] = <<>>]
    /\ turn' = turn + 1
    /\ GoTo("publish", "offer")
    /\ UNCHANGED <<queue, hand, emitted, batch, ended, raised, cancel, group,
                   db, result>>

-----------------------------------------------------------------------------
(* Failure, cancellation and the TaskGroup.                                *)

\* What an interrupted await on the outside world may have done all the same.
SideEffect(s) ==
    \/ UNCHANGED <<db, delivered>>
    \/ /\ s = "persist" /\ pc[s] = "commit" /\ Acceptable(batch)
       /\ db' = db \o batch
       /\ UNCHANGED delivered
    \/ /\ s = "publish" /\ pc[s] = "send"
       /\ LET p == Publishers[turn] IN
          \E k \in Cleared(p) :
             delivered' = [delivered EXCEPT ![p] = Append(@, {r \in Cleared(p) : r <= k})]
       /\ UNCHANGED db

PluginCall == [fetch |-> "next", parse |-> "emit", enrich |-> "work",
               persist |-> "commit", publish |-> "send"]

\* The plugin of a stage raises.
Fault(s) ==
    /\ At(s, PluginCall[s])
    /\ \E e \in Faults[s] : Raise(s, e)
    /\ SideEffect(s)
    /\ UNCHANGED <<queue, hand, emitted, batch, pending, turn, ended, cancel,
                   group, result>>

Done == {s \in Stages : pc[s] = "done"}
Errors == {raised[s] : s \in Done} \cap ErrorKinds

MutCancelNothing == UNCHANGED cancel

\* TaskGroup._abort: cancels once every task that is not done.
CancelTasks == cancel' = [s \in Stages |-> s \notin Done]

\* The first task that ends with an exception aborts the group.
Abort ==
    /\ group = "open"
    /\ Errors # {}
    /\ group' = "aborting"
    /\ CancelTasks
    /\ UNCHANGED <<pc, queue, hand, emitted, batch, pending, turn, ended, raised,
                   db, delivered, result>>

\* Job timeout or shutdown cancels the task that waits for the group; when
\* the group is already aborting this has no effect on it.
CancelRun ==
    /\ Cancellable
    /\ group = "open"
    /\ result = "none"
    /\ group' = "cancelled"
    /\ CancelTasks
    /\ UNCHANGED <<pc, queue, hand, emitted, batch, pending, turn, ended, raised,
                   db, delivered, result>>

\* CancelledError at the await a task is suspended in.  In the await of
\* close() it replaces the exception being handled and the sentinel is lost.
Deliver(s) ==
    /\ cancel[s]
    /\ pc[s] # "done"
    /\ cancel' = [cancel EXCEPT ![s] = FALSE]
    /\ raised' = [raised EXCEPT ![s] = "cancelled"]
    /\ GoTo(s, IF pc[s] = "closing" THEN "done" ELSE Unwind(s))
    /\ SideEffect(s)
    /\ UNCHANGED <<queue, hand, emitted, batch, pending, turn, ended, group, result>>

MutOutcomeSwallowsOther(errs, cancelled) ==
    CASE "permanent" \in errs -> "FAILED"
      [] "permanent" \notin errs /\ "cti" \in errs -> "PARTIAL"
      [] OTHER -> "SUCCESS"

\* run_with_outcome, from the exceptions the group collected.
Outcome(errs, cancelled) ==
    CASE "permanent" \in errs -> "FAILED"
      [] "permanent" \notin errs /\ "cti" \in errs -> "PARTIAL"
      [] errs = {"other"} -> "raised"
      [] errs = {} /\ cancelled -> "raised"
      [] OTHER -> "SUCCESS"

\* The group is left when every task is done.
Finish ==
    /\ result = "none"
    /\ Done = Stages
    /\ result' = Outcome(Errors, group = "cancelled")
    /\ UNCHANGED <<pc, queue, hand, emitted, batch, pending, turn, ended, raised,
                   cancel, group, db, delivered>>

\* After the run: nothing more happens.
Terminated == result # "none" /\ UNCHANGED vars

-----------------------------------------------------------------------------
RunFetch == FetchNext \/ FetchPut \/ Close("fetch")
RunParse == ParseGet \/ ParsePut \/ ParseExhausted \/ Close("parse")
RunNormalize == NormalizeGet \/ Pass("normalize") \/ Close("normalize")
RunEnrich == EnrichGet \/ EnrichWork \/ Pass("enrich") \/ Close("enrich")
RunDedup == DedupGet \/ Pass("dedup") \/ Close("dedup")
RunPersist == PersistGet \/ PersistCommit \/ PersistForward \/ Close("persist")
RunPublish == PublishGet \/ PublishOffer \/ PublishOffered \/ PublishSend

\* What the event loop does by itself: run the tasks that are ready.
Step ==
    \/ RunFetch \/ RunParse \/ RunNormalize \/ RunEnrich
    \/ RunDedup \/ RunPersist \/ RunPublish
    \/ \E s \in Stages : Deliver(s)
    \/ Abort
    \/ Finish

Next ==
    \/ Step
    \/ \E s \in DOMAIN PluginCall : Fault(s)
    \/ CancelRun
    \/ Terminated

Spec == Init /\ [][Next]_vars

\* The event loop never stops running ready tasks while one is ready, and
\* every plugin call returns or raises (the clients all have timeouts).
FairSpec == Spec /\ WF_vars(Step)

-----------------------------------------------------------------------------
(* Properties.                                                             *)

Items(s) == IF s = "fetch" THEN 0..NumPayloads ELSE 0..NumRecords
Locations == {"next", "get", "emit", "work", "put", "commit", "forward",
              "offer", "send", "closing", "done"}

\* The queues: items of the right kind, never more than queue_maxsize.
QueueOK ==
    /\ DOMAIN queue = Producers
    /\ \A s \in Producers : queue[s] \in Seq(Items(s)) /\ Len(queue[s]) <= QueueMax

\* The tasks and the group.
TaskOK ==
    /\ pc \in [Stages -> Locations]
    /\ raised \in [Stages -> ErrorKinds \cup {"none", "cancelled"}]
    /\ cancel \in [Stages -> BOOLEAN]
    /\ group \in {"open", "aborting", "cancelled"}
    /\ result \in {"none", "SUCCESS", "PARTIAL", "FAILED", "raised"}

\* What the stages hold.
HandOK ==
    /\ hand \in [Stages -> Nat]
    /\ hand["fetch"] <= NumPayloads /\ hand["parse"] <= NumPayloads
    /\ \A s \in Stages \ {"fetch", "parse"} : hand[s] <= NumRecords
    /\ emitted \in 0..NumRecords

\* The batches and what has left the process.
BatchOK ==
    /\ batch \in Seq(Records)
    /\ pending \in [Sinks -> Seq(Records)]
    /\ turn \in 1..(Len(Publishers) + 1)
    /\ ended \subseteq {"persist", "publish"}
    /\ db \in Seq(Records)
    /\ delivered \in [Sinks -> Seq(SUBSET Records)]

\* Every variable of the pipeline has its type and its bound.
TypeOK == QueueOK /\ TaskOK /\ HandOK /\ BatchOK

Stored == Range(db)
Wanted == {r \in Records : Kind[r] = "good"}

\* persist.py is "the durability fence": whatever is downstream of it, in
\* the queue, in a publisher's batch or already handed to an extra
\* publisher, is committed, whichever stage fails or is cancelled when.
DurabilityFence ==
    /\ Range(queue["persist"]) \subseteq Stored \cup {EOS}
    /\ \A p \in Sinks : Range(pending[p]) \subseteq Stored
    /\ \A p \in Sinks : UNION Range(delivered[p]) \subseteq Stored

\* Committed rows are wanted records, each once, in feed order, also in a
\* run that fails half way.
PersistInOrder ==
    /\ Stored \subseteq Wanted
    /\ \A i, j \in 1..Len(db) : i < j => db[i] < db[j]

\* An extra publisher gets each record at most once and in feed order over
\* all its requests, and none above its max_tlp.
FanOutInOrder ==
    \A p \in Sinks :
       /\ \A i, j \in 1..Len(delivered[p]) :
             i < j => \A q \in delivered[p][i], r \in delivered[p][j] : q < r
       /\ \A r \in UNION Range(delivered[p]) : Tlp[r] <= MaxTlp[p]

\* Records that are on their way to the database.
InFlight ==
    (UNION {Range(queue[s]) : s \in {"parse", "normalize", "enrich", "dedup"}})
    \cup {hand[s] : s \in {x \in Stages \ {"fetch"} : pc[x] \in {"work", "put"}}}
    \cup (IF pc["persist"] \in {"get", "commit"} THEN Range(batch) ELSE {})

\* While no stage has raised or been cancelled, a wanted record that the
\* parser has emitted is committed or still in flight: no stage, batch or
\* sentinel hand-over loses one.
NothingLost ==
    (\A s \in Stages : raised[s] = "none")
        => \A r \in Wanted : r <= emitted => r \in Stored \cup InFlight

\* SUCCESS is never reported for an incomplete run: every wanted record is
\* committed, and every publisher got all it is cleared for.
SuccessIsComplete ==
    result = "SUCCESS" =>
        /\ Stored = Wanted
        /\ \A p \in Sinks :
              UNION Range(delivered[p]) = {r \in Wanted : Tlp[r] <= MaxTlp[p]}

\* The pipeline implements the contract its caller relies on.
RC == INSTANCE RunContract WITH stored <- Stored, outcome <- result
ImplementsContract == RC!Contract

\* Backpressure alone never blocks the stages: while nothing has raised and
\* nobody has cancelled the run, some task can take its next step, however
\* small the queues, up to the sentinel that ends the last stage.
NeverStalls ==
    group = "open" /\ result = "none" /\ (\A s \in Stages : raised[s] = "none")
        => ENABLED Step

\* Pipeline.run comes to an end: it returns or raises.
Termination == <>(result # "none")
=============================================================================
