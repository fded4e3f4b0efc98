--------------------------- MODULE PipelineProofs ---------------------------
(***************************************************************************)
(* Proofs about Pipeline for every feed, every queue and batch size, every *)
(* list of extra publishers and every choice of failing plugins.           *)
(***************************************************************************)
EXTENDS Pipeline, SequenceTheorems, TLAPS

\* The locations at which the stages that batch depend on more than types.
LocationInv ==
    /\ pc["persist"] \in {"commit", "forward"} => batch # <<>>
    /\ pc["publish"] = "send" => turn <= Len(Publishers)
    /\ pc["publish"] \in {"offer", "send"} /\ "publish" \notin ended
          => hand["publish"] \in Records

TypeInv == TypeOK /\ LocationInv

-----------------------------------------------------------------------------
(* StageQueue.put and StageQueue.get keep the queues well formed.          *)

LEMMA PutOK ==
    ASSUME QueueOK, NEW s \in Producers, NEW item \in Items(s), Put(s, item)
    PROVE  QueueOK'
<1>1. queue[s] \in Seq(Items(s)) /\ Len(queue[s]) < QueueMax
  BY DEF QueueOK, Put, Room
<1>2. /\ Append(queue[s], item) \in Seq(Items(s))
      /\ Len(Append(queue[s], item)) = Len(queue[s]) + 1
  BY <1>1, AppendProperties
<1>3. Len(queue[s]) \in Nat
  BY <1>1, LenProperties
<1>4. DOMAIN queue' = Producers
  BY DEF QueueOK, Put
<1>5. ASSUME NEW t \in Producers
      PROVE  queue'[t] \in Seq(Items(t)) /\ Len(queue'[t]) <= QueueMax
  <2>1. CASE t = s
    BY <2>1, <1>1, <1>2, <1>3, SizeAssumption DEF Put, QueueOK
  <2>2. CASE t # s
    BY <2>2, <1>1 DEF Put, QueueOK
  <2> QED BY <2>1, <2>2
<1> QED BY <1>4, <1>5 DEF QueueOK, Items

LEMMA TakeOK ==
    ASSUME QueueOK, NEW s \in Stages \ {"fetch"}, Take(s)
    PROVE  QueueOK' /\ Arrival(s) \in Items(Upstream[s]) /\ Upstream[s] \in Producers
<1> DEFINE u == Upstream[s]
<1>1. u \in Producers
  BY DEF Stages, Producers, Upstream
<1>2. queue[u] \in Seq(Items(u)) /\ queue[u] # <<>> /\ Len(queue[u]) <= QueueMax
  BY <1>1 DEF QueueOK, Take, Arrived
<1>3. /\ Head(queue[u]) \in Items(u)
      /\ Tail(queue[u]) \in Seq(Items(u))
      /\ Len(Tail(queue[u])) = Len(queue[u]) - 1
  BY <1>2, HeadTailProperties
<1>4. Len(queue[u]) \in Nat
  BY <1>2, LenProperties
<1>5. ASSUME NEW t \in Producers
      PROVE  queue'[t] \in Seq(Items(t)) /\ Len(queue'[t]) <= QueueMax
  <2>1. CASE t = u
    BY <2>1, <1>1, <1>2, <1>3, <1>4, SizeAssumption DEF Take, QueueOK
  <2>2. CASE t # u
    BY <2>2 DEF Take, QueueOK
  <2> QED BY <2>1, <2>2
<1>6. DOMAIN queue' = Producers
  BY DEF Take, QueueOK
<1> QED BY <1>1, <1>3, <1>5, <1>6 DEF QueueOK, Items, Arrival

-----------------------------------------------------------------------------
(* Type correctness, with the bound on the queues.                         *)

LEMMA InitTypeInv == Init => TypeInv
<1> SUFFICES ASSUME Init PROVE TypeInv
  OBVIOUS
<1>1. QueueOK
  BY SizeAssumption DEF Init, QueueOK, Items
<1>2. TaskOK
  BY DEF Init, TaskOK, Stages, Locations
<1>3. HandOK
  BY SizeAssumption DEF Init, HandOK, Stages
<1>4. Len(Publishers) \in Nat
  BY PluginAssumption, LenProperties
<1>5. BatchOK
  BY <1>4 DEF Init, BatchOK
<1>6. LocationInv
  BY DEF Init, LocationInv, Stages
<1> QED BY <1>1, <1>2, <1>3, <1>5, <1>6 DEF TypeInv, TypeOK

\* A step that leaves the batches, the sinks and publish alone.
LEMMA FrontTypeInv ==
    ASSUME TypeInv, QueueOK', TaskOK', HandOK',
           UNCHANGED <<batch, pending, turn, ended, db, delivered>>,
           pc'["persist"] \in {pc["persist"], "closing", "done"},
           pc'["publish"] \in {pc["publish"], "done"},
           hand'["publish"] = hand["publish"]
    PROVE  TypeInv'
BY DEF TypeInv, TypeOK, BatchOK, LocationInv

LEMMA CloseTypeInv ==
    ASSUME TypeInv, NEW s \in Producers, Close(s)
    PROVE  TypeInv'
<1>1. QueueOK'
  BY PutOK, SizeAssumption DEF Close, TypeInv, TypeOK, Items, EOS
<1>2. TaskOK'
  BY DEF Close, GoTo, TypeInv, TypeOK, TaskOK, Locations, Stages, Producers
<1>3. HandOK'
  BY DEF Close, TypeInv, TypeOK, HandOK
<1>4. /\ pc'["persist"] \in {pc["persist"], "done"}
      /\ pc'["publish"] = pc["publish"]
  BY DEF Close, GoTo, TypeInv, TypeOK, TaskOK, Stages, Producers
<1> QED BY <1>1, <1>2, <1>3, <1>4, FrontTypeInv DEF Close

LEMMA PassTypeInv ==
    ASSUME TypeInv, NEW s \in {"normalize", "enrich", "dedup"}, Pass(s)
    PROVE  TypeInv'
<1>1. hand[s] \in Items(s) /\ s \in Producers
  BY SizeAssumption DEF TypeInv, TypeOK, HandOK, Items, Stages, Producers
<1>2. QueueOK'
  BY <1>1, PutOK DEF Pass, TypeInv, TypeOK
<1>3. TaskOK'
  BY DEF Pass, GoTo, TypeInv, TypeOK, TaskOK, Locations, Stages
<1>4. HandOK'
  BY DEF Pass, TypeInv, TypeOK, HandOK
<1>5. pc'["persist"] = pc["persist"] /\ pc'["publish"] = pc["publish"]
  BY DEF Pass, GoTo, TypeInv, TypeOK, TaskOK, Stages
<1> QED BY <1>2, <1>3, <1>4, <1>5, FrontTypeInv DEF Pass

LEMMA FetchTypeInv ==
    ASSUME TypeInv, FetchNext \/ FetchPut
    PROVE  TypeInv'
<1>1. CASE FetchNext
  <2>1. QueueOK'
    BY <1>1 DEF FetchNext, TypeInv, TypeOK, QueueOK
  <2>2. TaskOK'
    BY <1>1 DEF FetchNext, GoTo, TypeInv, TypeOK, TaskOK, Locations, Stages
  <2>3. HandOK'
    BY <1>1, SizeAssumption DEF FetchNext, TypeInv, TypeOK, HandOK, Stages
  <2>4. /\ pc'["persist"] = pc["persist"] /\ pc'["publish"] = pc["publish"]
        /\ hand'["publish"] = hand["publish"]
    BY <1>1 DEF FetchNext, GoTo, TypeInv, TypeOK, TaskOK, HandOK, Stages
  <2> QED BY <1>1, <2>1, <2>2, <2>3, <2>4, FrontTypeInv DEF FetchNext
<1>2. CASE FetchPut
  <2>1. QueueOK'
    <3>1. hand["fetch"] \in Items("fetch") /\ "fetch" \in Producers
      BY DEF TypeInv, TypeOK, HandOK, Items, Stages, Producers
    <3> QED BY <1>2, <3>1, PutOK DEF FetchPut, TypeInv, TypeOK
  <2>2. TaskOK'
    BY <1>2 DEF FetchPut, GoTo, TypeInv, TypeOK, TaskOK, Locations, Stages
  <2>3. HandOK'
    BY <1>2 DEF FetchPut, TypeInv, TypeOK, HandOK
  <2>4. pc'["persist"] = pc["persist"] /\ pc'["publish"] = pc["publish"]
    BY <1>2 DEF FetchPut, GoTo, TypeInv, TypeOK, TaskOK, Stages
  <2> QED BY <1>2, <2>1, <2>2, <2>3, <2>4, FrontTypeInv DEF FetchPut
<1> QED BY <1>1, <1>2

LEMMA ParseTypeInv ==
    ASSUME TypeInv, ParseGet \/ ParsePut \/ ParseExhausted
    PROVE  TypeInv'
<1>1. CASE ParseGet
  <2>1. QueueOK' /\ Arrival("parse") \in 0..NumPayloads
    BY <1>1, TakeOK DEF ParseGet, TypeInv, TypeOK, Items, Upstream, Stages
  <2>2. TaskOK'
    BY <1>1 DEF ParseGet, GoTo, TypeInv, TypeOK, TaskOK, Locations, Stages
  <2>3. HandOK'
    BY <1>1, <2>1 DEF ParseGet, TypeInv, TypeOK, HandOK, Stages
  <2>4. /\ pc'["persist"] = pc["persist"] /\ pc'["publish"] = pc["publish"]
        /\ hand'["publish"] = hand["publish"]
    BY <1>1 DEF ParseGet, GoTo, TypeInv, TypeOK, TaskOK, HandOK, Stages
  <2> QED BY <1>1, <2>1, <2>2, <2>3, <2>4, FrontTypeInv DEF ParseGet
<1>2. CASE ParsePut
  <2>1. emitted + 1 \in 0..NumRecords
    <3>1. hand["parse"] \in 0..NumPayloads
      BY DEF TypeInv, TypeOK, HandOK, Stages
    <3>2. LastOf[hand["parse"]] \in 0..NumRecords
      BY <3>1, FeedAssumption
    <3> QED BY <1>2, <3>2, SizeAssumption DEF ParsePut, TypeInv, TypeOK, HandOK
  <2>2. QueueOK'
    <3>1. emitted + 1 \in Items("parse") /\ "parse" \in Producers
      BY <2>1 DEF Items, Stages, Producers
    <3> QED BY <1>2, <3>1, PutOK DEF ParsePut, TypeInv, TypeOK
  <2>3. HandOK'
    BY <1>2, <2>1 DEF ParsePut, TypeInv, TypeOK, HandOK
  <2>4. TaskOK'
    BY <1>2 DEF ParsePut, TypeInv, TypeOK, TaskOK
  <2> QED BY <1>2, <2>2, <2>3, <2>4, FrontTypeInv DEF ParsePut
<1>3. CASE ParseExhausted
  <2>1. QueueOK' /\ HandOK'
    BY <1>3 DEF ParseExhausted, TypeInv, TypeOK, QueueOK, HandOK
  <2>2. TaskOK'
    BY <1>3 DEF ParseExhausted, GoTo, TypeInv, TypeOK, TaskOK, Locations, Stages
  <2>3. pc'["persist"] = pc["persist"] /\ pc'["publish"] = pc["publish"]
    BY <1>3 DEF ParseExhausted, GoTo, TypeInv, TypeOK, TaskOK, Stages
  <2> QED BY <1>3, <2>1, <2>2, <2>3, FrontTypeInv DEF ParseExhausted
<1> QED BY <1>1, <1>2, <1>3

LEMMA NormalizeTypeInv ==
    ASSUME TypeInv, NormalizeGet
    PROVE  TypeInv'
<1>1. QueueOK' /\ Arrival("normalize") \in 0..NumRecords
  BY TakeOK DEF NormalizeGet, TypeInv, TypeOK, Items, Upstream, Stages
<1>2. TaskOK'
  BY DEF NormalizeGet, GoTo, Raise, Unwind, TypeInv, TypeOK, TaskOK, Locations,
         Stages, ErrorKinds
<1>3. HandOK'
  BY <1>1 DEF NormalizeGet, TypeInv, TypeOK, HandOK, Stages
<1>4. /\ pc'["persist"] = pc["persist"] /\ pc'["publish"] = pc["publish"]
      /\ hand'["publish"] = hand["publish"]
  BY DEF NormalizeGet, GoTo, Raise, TypeInv, TypeOK, TaskOK, HandOK, Stages
<1> QED BY <1>1, <1>2, <1>3, <1>4, FrontTypeInv DEF NormalizeGet

LEMMA EnrichDedupTypeInv ==
    ASSUME TypeInv, EnrichGet \/ EnrichWork \/ DedupGet
    PROVE  TypeInv'
<1>1. CASE EnrichGet
  <2>1. QueueOK' /\ Arrival("enrich") \in 0..NumRecords
    BY <1>1, TakeOK DEF EnrichGet, TypeInv, TypeOK, Items, Upstream, Stages
  <2>2. TaskOK'
    BY <1>1 DEF EnrichGet, GoTo, TypeInv, TypeOK, TaskOK, Locations, Stages
  <2>3. HandOK'
    BY <1>1, <2>1 DEF EnrichGet, TypeInv, TypeOK, HandOK, Stages
  <2>4. /\ pc'["persist"] = pc["persist"] /\ pc'["publish"] = pc["publish"]
        /\ hand'["publish"] = hand["publish"]
    BY <1>1 DEF EnrichGet, GoTo, TypeInv, TypeOK, TaskOK, HandOK, Stages
  <2> QED BY <1>1, <2>1, <2>2, <2>3, <2>4, FrontTypeInv DEF EnrichGet
<1>2. CASE EnrichWork
  <2>1. QueueOK' /\ HandOK'
    BY <1>2 DEF EnrichWork, TypeInv, TypeOK, QueueOK, HandOK
  <2>2. TaskOK'
    BY <1>2 DEF EnrichWork, GoTo, TypeInv, TypeOK, TaskOK, Locations, Stages
  <2>3. pc'["persist"] = pc["persist"] /\ pc'["publish"] = pc["publish"]
    BY <1>2 DEF EnrichWork, GoTo, TypeInv, TypeOK, TaskOK, Stages
  <2> QED BY <1>2, <2>1, <2>2, <2>3, FrontTypeInv DEF EnrichWork
<1>3. CASE DedupGet
  <2>1. QueueOK' /\ Arrival("dedup") \in 0..NumRecords
    BY <1>3, TakeOK DEF DedupGet, TypeInv, TypeOK, Items, Upstream, Stages
  <2>2. TaskOK'
    BY <1>3 DEF DedupGet, GoTo, TypeInv, TypeOK, TaskOK, Locations, Stages
  <2>3. HandOK'
    BY <1>3, <2>1 DEF DedupGet, TypeInv, TypeOK, HandOK, Stages
  <2>4. /\ pc'["persist"] = pc["persist"] /\ pc'["publish"] = pc["publish"]
        /\ hand'["publish"] = hand["publish"]
    BY <1>3 DEF DedupGet, GoTo, TypeInv, TypeOK, TaskOK, HandOK, Stages
  <2> QED BY <1>3, <2>1, <2>2, <2>3, <2>4, FrontTypeInv DEF DedupGet
<1> QED BY <1>1, <1>2, <1>3

LEMMA PersistTypeInv ==
    ASSUME TypeInv, PersistGet \/ PersistCommit \/ PersistForward
    PROVE  TypeInv'
<1>0. /\ batch \in Seq(Records) /\ db \in Seq(Records)
      /\ Len(batch) \in Nat
      /\ pc \in [Stages -> Locations]
  BY LenProperties DEF TypeInv, TypeOK, BatchOK, TaskOK
<1>1. CASE PersistGet
  <2>1. QueueOK' /\ Arrival("persist") \in 0..NumRecords
    BY <1>1, TakeOK DEF PersistGet, TypeInv, TypeOK, Items, Upstream, Stages
  <2>2. TaskOK' /\ pc'["publish"] = pc["publish"]
    BY <1>1 DEF PersistGet, FinalFlush, FlushStart, GoTo, TypeInv, TypeOK, TaskOK,
                Locations, Stages
  <2>3. /\ batch' \in Seq(Records)
        /\ pc'["persist"] \in {"commit", "forward"} => batch' # <<>>
    <3>1. CASE Arrival("persist") = EOS
      BY <1>0, <1>1, <3>1 DEF PersistGet, FinalFlush, FlushStart, GoTo, Stages
    <3>2. CASE Arrival("persist") # EOS
      <4>1. Arrival("persist") \in Records
        BY <2>1, <3>2, SizeAssumption DEF Records, EOS
      <4>2. batch' = Append(batch, Arrival("persist"))
        BY <1>1, <3>2 DEF PersistGet
      <4>3. batch' \in Seq(Records) /\ batch' # <<>>
        BY <1>0, <4>1, <4>2, AppendProperties
      <4> QED BY <4>3
    <3> QED BY <3>1, <3>2
  <2>4. ended' \subseteq {"persist", "publish"} /\ ("publish" \in ended' <=> "publish" \in ended)
    BY <1>1 DEF PersistGet, TypeInv, TypeOK, BatchOK
  <2>5. HandOK' /\ BatchOK' /\ LocationInv'
    BY <1>1, <2>2, <2>3, <2>4
       DEF PersistGet, TypeInv, TypeOK, HandOK, BatchOK, LocationInv
  <2> QED BY <2>1, <2>2, <2>5 DEF TypeInv, TypeOK
<1>2. CASE PersistCommit
  <2>1. QueueOK' /\ HandOK'
    BY <1>2 DEF PersistCommit, TypeInv, TypeOK, QueueOK, HandOK
  <2>2. TaskOK' /\ pc'["publish"] = pc["publish"]
    BY <1>2 DEF PersistCommit, Raise, Unwind, GoTo, TypeInv, TypeOK, TaskOK,
                Locations, Stages, ErrorKinds
  <2>3. db' \in Seq(Records)
    BY <1>0, <1>2, ConcatProperties DEF PersistCommit
  <2>4. batch # <<>>
    BY <1>2 DEF PersistCommit, At, TypeInv, LocationInv
  <2>5. BatchOK' /\ LocationInv'
    BY <1>2, <2>2, <2>3, <2>4 DEF PersistCommit, TypeInv, TypeOK, BatchOK, LocationInv
  <2> QED BY <2>1, <2>2, <2>5 DEF TypeInv, TypeOK
<1>3. CASE PersistForward
  <2>1. /\ Head(batch) \in Records /\ Tail(batch) \in Seq(Records)
        /\ Len(Tail(batch)) = Len(batch) - 1
    BY <1>0, <1>3, HeadTailProperties DEF PersistForward, At, TypeInv, LocationInv
  <2>2. QueueOK'
    <3>1. Head(batch) \in Items("persist") /\ "persist" \in Producers
      BY <2>1, SizeAssumption DEF Items, Records, Producers, Stages
    <3> QED BY <1>3, <3>1, PutOK DEF PersistForward, TypeInv, TypeOK
  <2>3. TaskOK' /\ HandOK' /\ pc'["publish"] = pc["publish"]
    BY <1>3 DEF PersistForward, GoTo, TypeInv, TypeOK, TaskOK, HandOK, Locations, Stages
  <2>4. pc'["persist"] \in {"commit", "forward"} => batch' # <<>>
    <3>1. CASE Len(batch) > 1
      <4>1. Len(batch') # 0
        BY <1>0, <1>3, <2>1, <3>1 DEF PersistForward
      <4>2. Len(<<>>) = 0
        BY EmptySeq
      <4> QED BY <4>1, <4>2
    <3>2. CASE ~(Len(batch) > 1)
      BY <1>0, <1>3, <3>2 DEF PersistForward, GoTo, Stages
    <3> QED BY <3>1, <3>2
  <2>5. BatchOK' /\ LocationInv'
    BY <1>3, <2>1, <2>3, <2>4 DEF PersistForward, TypeInv, TypeOK, BatchOK, LocationInv
  <2> QED BY <2>2, <2>3, <2>5 DEF TypeInv, TypeOK
<1> QED BY <1>1, <1>2, <1>3

\* The publisher whose turn it is.
LEMMA TurnOK ==
    ASSUME TypeInv, turn <= Len(Publishers)
    PROVE  /\ turn \in 1..Len(Publishers) /\ turn + 1 \in 1..(Len(Publishers) + 1)
           /\ Publishers[turn] \in Sinks
           /\ Len(Publishers) \in Nat
<1>1. Len(Publishers) \in Nat /\ Publishers \in Seq(Sinks)
  BY PluginAssumption, LenProperties
<1>2. turn \in 1..Len(Publishers) /\ turn + 1 \in 1..(Len(Publishers) + 1)
  BY <1>1 DEF TypeInv, TypeOK, BatchOK
<1>3. Publishers[turn] \in Sinks
  BY <1>1, <1>2, ElementOfSeq
<1> QED BY <1>1, <1>2, <1>3

\* What the filter lets through comes from the batch.
LEMMA ClearedOK ==
    ASSUME TypeInv, NEW p \in Sinks
    PROVE  Cleared(p) \subseteq Range(pending[p]) /\ Cleared(p) \subseteq Records
<1>1. pending[p] \in Seq(Records)
  BY DEF TypeInv, TypeOK, BatchOK
<1>2. Range(pending[p]) \subseteq Records
  BY <1>1, RangeOfSeq
<1> QED BY <1>2 DEF Cleared

LEMMA PublishTypeInv ==
    ASSUME TypeInv, RunPublish
    PROVE  TypeInv'
<1>0. Len(Publishers) \in Nat
  BY PluginAssumption, LenProperties
<1>1. CASE PublishGet
  <2>1. QueueOK' /\ Arrival("publish") \in 0..NumRecords
    BY <1>1, TakeOK DEF PublishGet, TypeInv, TypeOK, Items, Upstream, Stages
  <2>2. TaskOK' /\ pc'["persist"] = pc["persist"]
    BY <1>1 DEF PublishGet, GoTo, TypeInv, TypeOK, TaskOK, Locations, Stages
  <2>3. HandOK'
    BY <1>1, <2>1 DEF PublishGet, TypeInv, TypeOK, HandOK, Stages
  <2>4. BatchOK'
    <3>1. turn' \in 1..(Len(Publishers) + 1)
      BY <1>0, <1>1 DEF PublishGet
    <3>2. ended' \subseteq {"persist", "publish"}
      BY <1>1 DEF PublishGet, TypeInv, TypeOK, BatchOK
    <3> QED BY <1>1, <3>1, <3>2 DEF PublishGet, TypeInv, TypeOK, BatchOK
  <2>5. "publish" \notin ended' => hand'["publish"] \in Records
    BY <1>1, <2>1, SizeAssumption DEF PublishGet, TypeInv, TypeOK, HandOK, Records, EOS, Stages
  <2>6. LocationInv'
    BY <1>1, <2>2, <2>5 DEF PublishGet, GoTo, TypeInv, TypeOK, TaskOK, LocationInv, Stages
  <2> QED BY <2>1, <2>2, <2>3, <2>4, <2>6 DEF TypeInv, TypeOK
<1>2. CASE PublishOffer
  <2>1. QueueOK' /\ HandOK'
    BY <1>2 DEF PublishOffer, TypeInv, TypeOK, QueueOK, HandOK
  <2>2. TaskOK' /\ pc'["persist"] = pc["persist"]
    BY <1>2 DEF PublishOffer, GoTo, TypeInv, TypeOK, TaskOK, Locations, Stages
  <2>3. /\ Publishers[turn] \in Sinks
        /\ turn' \in 1..(Len(Publishers) + 1)
        /\ pc'["publish"] = "send" => turn' <= Len(Publishers)
        /\ pc'["publish"] \in {"offer", "send"}
    BY <1>0, <1>2, TurnOK DEF PublishOffer, GoTo, At, TypeInv, TypeOK, TaskOK, BatchOK, Stages
  <2>4. pending' \in [Sinks -> Seq(Records)]
    <3>1. pending[Publishers[turn]] \in Seq(Records)
      BY <2>3 DEF TypeInv, TypeOK, BatchOK
    <3>2. "publish" \notin ended => hand["publish"] \in Records
      BY <1>2 DEF PublishOffer, At, TypeInv, LocationInv
    <3>3. "publish" \notin ended
             => Append(pending[Publishers[turn]], hand["publish"]) \in Seq(Records)
      BY <3>1, <3>2, AppendProperties
    <3> QED BY <1>2, <2>3, <3>1, <3>3 DEF PublishOffer, TypeInv, TypeOK, BatchOK
  <2>5. BatchOK'
    BY <1>2, <2>3, <2>4 DEF PublishOffer, TypeInv, TypeOK, BatchOK
  <2>6. LocationInv'
    BY <1>2, <2>2, <2>3 DEF PublishOffer, At, TypeInv, LocationInv
  <2> QED BY <2>1, <2>2, <2>5, <2>6 DEF TypeInv, TypeOK
<1>3. CASE PublishOffered
  <2>1. QueueOK' /\ HandOK'
    BY <1>3 DEF PublishOffered, TypeInv, TypeOK, QueueOK, HandOK
  <2>2. /\ TaskOK' /\ pc'["persist"] = pc["persist"]
        /\ pc'["publish"] \in {"done", "get"}
    BY <1>3 DEF PublishOffered, GoTo, TypeInv, TypeOK, TaskOK, Locations, Stages
  <2>3. BatchOK' /\ LocationInv'
    BY <1>3, <2>2 DEF PublishOffered, TypeInv, TypeOK, BatchOK, LocationInv
  <2> QED BY <2>1, <2>2, <2>3 DEF TypeInv, TypeOK
<1>4. CASE PublishSend
  <2> DEFINE p == Publishers[turn]
  <2>1. QueueOK' /\ HandOK'
    BY <1>4 DEF PublishSend, TypeInv, TypeOK, QueueOK, HandOK
  <2>2. /\ TaskOK' /\ pc'["persist"] = pc["persist"]
        /\ pc'["publish"] = "offer"
    BY <1>4 DEF PublishSend, GoTo, TypeInv, TypeOK, TaskOK, Locations, Stages
  <2>3. turn <= Len(Publishers)
    BY <1>4 DEF PublishSend, At, TypeInv, LocationInv
  <2>4. p \in Sinks /\ turn' \in 1..(Len(Publishers) + 1)
    BY <1>4, <2>3, TurnOK DEF PublishSend
  <2>5. delivered' \in [Sinks -> Seq(SUBSET Records)]
    <3>1. delivered[p] \in Seq(SUBSET Records)
      BY <2>4 DEF TypeInv, TypeOK, BatchOK
    <3>2. Append(delivered[p], Cleared(p)) \in Seq(SUBSET Records)
      BY <2>4, <3>1, ClearedOK, AppendProperties
    <3> QED BY <1>4, <2>4, <3>2 DEF PublishSend, TypeInv, TypeOK, BatchOK
  <2>6. pending' \in [Sinks -> Seq(Records)]
    BY <1>4, <2>4, EmptySeq DEF PublishSend, TypeInv, TypeOK, BatchOK
  <2>7. BatchOK'
    BY <1>4, <2>4, <2>5, <2>6 DEF PublishSend, TypeInv, TypeOK, BatchOK
  <2>8. LocationInv'
    BY <1>4, <2>2 DEF PublishSend, At, TypeInv, LocationInv
  <2> QED BY <2>1, <2>2, <2>7, <2>8 DEF TypeInv, TypeOK
<1> QED BY <1>1, <1>2, <1>3, <1>4 DEF RunPublish

\* An interrupted call leaves the database and the sinks well formed.
LEMMA SideEffectOK ==
    ASSUME TypeInv, NEW s \in Stages, SideEffect(s)
    PROVE  /\ db' \in Seq(Records)
           /\ delivered' \in [Sinks -> Seq(SUBSET Records)]
<1>1. /\ batch \in Seq(Records) /\ db \in Seq(Records)
      /\ delivered \in [Sinks -> Seq(SUBSET Records)]
  BY DEF TypeInv, TypeOK, BatchOK
<1>2. CASE UNCHANGED <<db, delivered>>
  BY <1>1, <1>2
<1>3. CASE db' = db \o batch /\ UNCHANGED delivered
  BY <1>1, <1>3, ConcatProperties
<1>4. CASE /\ s = "publish" /\ pc[s] = "send"
           /\ LET p == Publishers[turn] IN
              \E k \in Cleared(p) :
                 delivered' = [delivered EXCEPT ![p] = Append(@, {r \in Cleared(p) : r <= k})]
           /\ UNCHANGED db
  <2> DEFINE p == Publishers[turn]
  <2>1. PICK k \in Cleared(p) :
           delivered' = [delivered EXCEPT ![p] = Append(@, {r \in Cleared(p) : r <= k})]
    BY <1>4
  <2>2. p \in Sinks
    BY <1>4, TurnOK DEF TypeInv, LocationInv
  <2>3. {r \in Cleared(p) : r <= k} \in SUBSET Records
    BY <2>2, ClearedOK
  <2>4. Append(delivered[p], {r \in Cleared(p) : r <= k}) \in Seq(SUBSET Records)
    BY <1>1, <2>2, <2>3, AppendProperties
  <2> QED BY <1>1, <1>4, <2>1, <2>2, <2>4
<1> QED BY <1>2, <1>3, <1>4 DEF SideEffect

LEMMA FailureTypeInv ==
    ASSUME TypeInv, NEW s \in Stages, Deliver(s) \/ (s \in DOMAIN PluginCall /\ Fault(s))
    PROVE  TypeInv'
<1>1. QueueOK' /\ HandOK'
  BY DEF Deliver, Fault, TypeInv, TypeOK, QueueOK, HandOK
<1>2. SideEffect(s)
  BY DEF Deliver, Fault
<1>3. BatchOK'
  BY <1>2, SideEffectOK DEF Deliver, Fault, TypeInv, TypeOK, BatchOK
<1>4. /\ raised' \in [Stages -> ErrorKinds \cup {"none", "cancelled"}]
      /\ cancel' \in [Stages -> BOOLEAN]
      /\ \E l \in {"closing", "done"} : pc' = [pc EXCEPT ![s] = l]
  <2>1. CASE Deliver(s)
    BY <2>1 DEF Deliver, GoTo, Unwind, TypeInv, TypeOK, TaskOK
  <2>2. CASE s \in DOMAIN PluginCall /\ Fault(s)
    <3>1. PICK e \in Faults[s] : Raise(s, e)
      BY <2>2 DEF Fault
    <3>2. e \in ErrorKinds
      BY <3>1, PluginAssumption
    <3>3. cancel' \in [Stages -> BOOLEAN]
      BY <2>2 DEF Fault, TypeInv, TypeOK, TaskOK
    <3> QED BY <3>1, <3>2, <3>3 DEF Raise, GoTo, Unwind, TypeInv, TypeOK, TaskOK
  <2> QED BY <2>1, <2>2
<1>5. TaskOK'
  BY <1>4 DEF Deliver, Fault, TypeInv, TypeOK, TaskOK, Locations
<1>6. LocationInv'
  BY <1>4 DEF Deliver, Fault, TypeInv, TypeOK, TaskOK, LocationInv, Stages
<1> QED BY <1>1, <1>3, <1>5, <1>6 DEF TypeInv, TypeOK

LEMMA GroupTypeInv ==
    ASSUME TypeInv, Abort \/ CancelRun \/ Finish
    PROVE  TypeInv'
<1>1. QueueOK' /\ HandOK' /\ BatchOK' /\ LocationInv'
  BY DEF Abort, CancelRun, Finish, TypeInv, TypeOK, QueueOK, HandOK, BatchOK, LocationInv
<1>3. CASE Finish
  <2>1. result' \in {"SUCCESS", "PARTIAL", "FAILED", "raised"}
    BY <1>3 DEF Finish, Outcome
  <2> QED BY <1>1, <1>3, <2>1 DEF Finish, TypeInv, TypeOK, TaskOK
<1>4. CASE Abort \/ CancelRun
  <2>1. TaskOK'
    BY <1>4 DEF Abort, CancelRun, CancelTasks, TypeInv, TypeOK, TaskOK
  <2> QED BY <1>1, <2>1 DEF TypeInv, TypeOK
<1> QED BY <1>3, <1>4

\* Every step of the pipeline keeps the types and the bounds.
LEMMA NextTypeInv ==
    ASSUME TypeInv, [Next]_vars
    PROVE  TypeInv'
<1>1. CASE RunFetch
  BY <1>1, FetchTypeInv, CloseTypeInv DEF RunFetch, Producers, Stages
<1>2. CASE RunParse
  BY <1>2, ParseTypeInv, CloseTypeInv DEF RunParse, Producers, Stages
<1>3. CASE RunNormalize
  BY <1>3, NormalizeTypeInv, PassTypeInv, CloseTypeInv DEF RunNormalize, Producers, Stages
<1>4. CASE RunEnrich
  BY <1>4, EnrichDedupTypeInv, PassTypeInv, CloseTypeInv DEF RunEnrich, Producers, Stages
<1>5. CASE RunDedup
  BY <1>5, EnrichDedupTypeInv, PassTypeInv, CloseTypeInv DEF RunDedup, Producers, Stages
<1>6. CASE RunPersist
  BY <1>6, PersistTypeInv, CloseTypeInv DEF RunPersist, Producers, Stages
<1>7. CASE RunPublish
  BY <1>7, PublishTypeInv
<1>8. CASE \E s \in Stages : Deliver(s)
  BY <1>8, FailureTypeInv
<1>9. CASE \E s \in DOMAIN PluginCall : Fault(s)
  BY <1>9, FailureTypeInv DEF PluginCall, Stages
<1>10. CASE Abort \/ CancelRun \/ Finish
  BY <1>10, GroupTypeInv
<1>11. CASE UNCHANGED vars
  BY <1>11 DEF vars, TypeInv, TypeOK, QueueOK, TaskOK, HandOK, BatchOK, LocationInv
<1> QED
  BY <1>1, <1>2, <1>3, <1>4, <1>5, <1>6, <1>7, <1>8, <1>9, <1>10, <1>11
     DEF Next, Step, Terminated

\* The variables keep their types, and no StageQueue ever holds more than
\* queue_maxsize items, for every feed and every way the run can fail.
THEOREM TypeCorrect == Spec => []TypeOK
<1>1. TypeInv /\ [Next]_vars => TypeInv'
  BY NextTypeInv
<1>2. TypeInv => TypeOK
  BY DEF TypeInv
<1> QED BY InitTypeInv, <1>1, <1>2, PTL DEF Spec

-----------------------------------------------------------------------------
(* The durability fence.  Beyond DurabilityFence itself the invariant says *)
(* that the pairs persist still has to forward, and the pair publish is    *)
(* handing out, are committed.                                             *)

FenceInv ==
    /\ DurabilityFence
    /\ pc["persist"] = "forward" => Range(batch) \subseteq Stored
    /\ pc["publish"] \in {"offer", "send"} /\ "publish" \notin ended
          => hand["publish"] \in Stored

LEMMA RangeEmpty == Range(<<>>) = {}
BY DEF Range

LEMMA RangeAppend ==
    ASSUME NEW S, NEW sq \in Seq(S), NEW x \in S
    PROVE  Range(Append(sq, x)) = Range(sq) \cup {x}
<1>1. Append(sq, x) \in Seq(S) /\ Len(Append(sq, x)) = Len(sq) + 1
      /\ (\A i \in 1..Len(sq) : Append(sq, x)[i] = sq[i])
      /\ Append(sq, x)[Len(sq) + 1] = x
  BY AppendProperties
<1>2. Len(sq) \in Nat
  BY LenProperties
<1>3. Range(Append(sq, x)) = {Append(sq, x)[i] : i \in 1..(Len(sq) + 1)}
  BY <1>1, RangeEquality
<1>4. Range(sq) = {sq[i] : i \in 1..Len(sq)}
  BY RangeEquality
<1> QED BY <1>1, <1>2, <1>3, <1>4

LEMMA RangeHeadTail ==
    ASSUME NEW S, NEW sq \in Seq(S), sq # <<>>
    PROVE  Head(sq) \in Range(sq) /\ Range(Tail(sq)) \subseteq Range(sq)
<1>1. /\ Head(sq) = sq[1] /\ Tail(sq) \in Seq(S) /\ Len(Tail(sq)) = Len(sq) - 1
      /\ \A i \in 1..Len(Tail(sq)) : Tail(sq)[i] = sq[i + 1]
  BY HeadTailProperties
<1>2. Len(sq) \in Nat /\ Len(sq) # 0
  BY LenProperties, EmptySeq
<1>3. Range(sq) = {sq[i] : i \in 1..Len(sq)}
  BY RangeEquality
<1>4. Range(Tail(sq)) = {Tail(sq)[i] : i \in 1..Len(Tail(sq))}
  BY <1>1, RangeEquality
<1> QED BY <1>1, <1>2, <1>3, <1>4

\* A step that adds nothing downstream of the fence and removes no row.
LEMMA FenceKept ==
    ASSUME FenceInv, Stored \subseteq Stored',
           queue'["persist"] = queue["persist"],
           UNCHANGED <<batch, pending, delivered, ended>>,
           pc'["persist"] \in {pc["persist"], "closing", "done"},
           pc'["publish"] \in {pc["publish"], "get", "done"},
           hand'["publish"] = hand["publish"]
    PROVE  FenceInv'
BY DEF FenceInv, DurabilityFence, EOS

\* The stages in front of persist do not reach past the fence.
LEMMA FrontFence ==
    ASSUME TypeInv, FenceInv,
           \/ RunFetch \/ RunParse \/ RunNormalize \/ RunEnrich \/ RunDedup
    PROVE  FenceInv'
<1>1. UNCHANGED <<batch, pending, delivered, ended, db>>
  BY DEF RunFetch, RunParse, RunNormalize, RunEnrich, RunDedup, FetchNext, FetchPut,
         ParseGet, ParsePut, ParseExhausted, NormalizeGet, EnrichGet, EnrichWork,
         DedupGet, Close, Pass
<1>2. queue'["persist"] = queue["persist"]
  BY DEF RunFetch, RunParse, RunNormalize, RunEnrich, RunDedup, FetchNext, FetchPut,
         ParseGet, ParsePut, ParseExhausted, NormalizeGet, EnrichGet, EnrichWork,
         DedupGet, Close, Pass, Put, Take, Upstream, TypeInv, TypeOK, QueueOK, Producers,
         Stages
<1>3. pc'["persist"] = pc["persist"] /\ pc'["publish"] = pc["publish"]
  BY DEF RunFetch, RunParse, RunNormalize, RunEnrich, RunDedup, FetchNext, FetchPut,
         ParseGet, ParsePut, ParseExhausted, NormalizeGet, EnrichGet, EnrichWork,
         DedupGet, Close, Pass, GoTo, Raise, TypeInv, TypeOK, TaskOK, Stages
<1>4. hand'["publish"] = hand["publish"]
  BY DEF RunFetch, RunParse, RunNormalize, RunEnrich, RunDedup, FetchNext, FetchPut,
         ParseGet, ParsePut, ParseExhausted, NormalizeGet, EnrichGet, EnrichWork,
         DedupGet, Close, Pass, TypeInv, TypeOK, HandOK, Stages
<1> QED BY <1>1, <1>2, <1>3, <1>4, FenceKept DEF Stored

LEMMA PersistFence ==
    ASSUME TypeInv, FenceInv, RunPersist
    PROVE  FenceInv'
<1>0. /\ batch \in Seq(Records) /\ db \in Seq(Records)
      /\ pc \in [Stages -> Locations]
      /\ queue["persist"] \in Seq(Items("persist"))
  BY DEF TypeInv, TypeOK, BatchOK, TaskOK, QueueOK, Producers, Stages
<1>1. CASE PersistGet
  <2>1. /\ UNCHANGED <<db, pending, delivered, hand>>
        /\ "publish" \in ended' <=> "publish" \in ended
    BY <1>1 DEF PersistGet
  <2>2. /\ pc'["persist"] \in {"closing", "commit", "get"}
        /\ pc'["publish"] = pc["publish"]
        /\ queue'["persist"] = queue["persist"]
    BY <1>0, <1>1 DEF PersistGet, FinalFlush, FlushStart, GoTo, Take, Upstream, Stages,
                      TypeInv, TypeOK, QueueOK, Producers
  <2> QED BY <2>1, <2>2 DEF FenceInv, DurabilityFence, Stored
<1>2. CASE PersistCommit
  <2>1. /\ UNCHANGED <<queue, pending, delivered, hand, ended, batch>>
        /\ pc'["publish"] = pc["publish"]
    BY <1>0, <1>2 DEF PersistCommit, Raise, GoTo, Stages
  <2>2. CASE Acceptable(batch)
    <3>1. Stored' = Stored \cup Range(batch)
      BY <1>0, <1>2, <2>2, RangeConcatenation DEF PersistCommit, Stored
    <3> QED BY <2>1, <3>1 DEF FenceInv, DurabilityFence
  <2>3. CASE ~Acceptable(batch)
    <3>1. pc'["persist"] = "closing" /\ db' = db
      BY <1>0, <1>2, <2>3 DEF PersistCommit, Raise, Unwind, GoTo, Stages
    <3> QED BY <2>1, <3>1 DEF FenceInv, DurabilityFence, Stored
  <2> QED BY <2>2, <2>3
<1>3. CASE PersistForward
  <2>1. /\ UNCHANGED <<db, pending, delivered, hand, ended>>
        /\ pc'["publish"] = pc["publish"]
        /\ batch' = Tail(batch)
        /\ queue'["persist"] = Append(queue["persist"], Head(batch))
    BY <1>0, <1>3 DEF PersistForward, Put, GoTo, TypeInv, TypeOK, QueueOK, Producers, Stages
  <2>2. batch # <<>> /\ Range(batch) \subseteq Stored
    BY <1>3 DEF PersistForward, At, TypeInv, LocationInv, FenceInv
  <2>3. Head(batch) \in Stored /\ Range(Tail(batch)) \subseteq Stored
    BY <1>0, <2>2, RangeHeadTail
  <2>4. Head(batch) \in Items("persist")
    BY <1>0, <2>3, RangeOfSeq, SizeAssumption DEF Stored, Records, Items
  <2>5. Range(queue'["persist"]) = Range(queue["persist"]) \cup {Head(batch)}
    <3>1. Range(Append(queue["persist"], Head(batch))) = Range(queue["persist"]) \cup {Head(batch)}
      BY <1>0, <2>4, RangeAppend
    <3> QED BY <2>1, <3>1
  <2> QED BY <2>1, <2>3, <2>5 DEF FenceInv, DurabilityFence, Stored
<1>4. CASE Close("persist")
  <2>1. /\ UNCHANGED <<db, pending, delivered, hand, ended, batch>>
        /\ pc'["publish"] = pc["publish"] /\ pc'["persist"] = "done"
        /\ queue'["persist"] = Append(queue["persist"], EOS)
    BY <1>0, <1>4 DEF Close, Put, GoTo, TypeInv, TypeOK, QueueOK, Producers, Stages
  <2>2. Range(queue'["persist"]) = Range(queue["persist"]) \cup {EOS}
    <3>1. EOS \in Items("persist")
      BY SizeAssumption DEF EOS, Items
    <3>2. Range(Append(queue["persist"], EOS)) = Range(queue["persist"]) \cup {EOS}
      BY <1>0, <3>1, RangeAppend
    <3> QED BY <2>1, <3>2
  <2> QED BY <2>1, <2>2 DEF FenceInv, DurabilityFence, Stored
<1> QED BY <1>1, <1>2, <1>3, <1>4 DEF RunPersist

LEMMA PublishFence ==
    ASSUME TypeInv, FenceInv, RunPublish
    PROVE  FenceInv'
<1>0. /\ pending \in [Sinks -> Seq(Records)]
      /\ delivered \in [Sinks -> Seq(SUBSET Records)]
      /\ pc \in [Stages -> Locations] /\ hand \in [Stages -> Nat]
      /\ queue["persist"] \in Seq(0..NumRecords)
  BY DEF TypeInv, TypeOK, BatchOK, TaskOK, HandOK, QueueOK, Producers, Stages, Items
<1>1. CASE PublishGet
  <2>1. /\ UNCHANGED <<db, pending, delivered, batch>>
        /\ pc'["persist"] = pc["persist"]
        /\ queue'["persist"] = Tail(queue["persist"])
        /\ queue["persist"] # <<>>
    BY <1>0, <1>1 DEF PublishGet, Take, Arrived, Upstream, GoTo, TypeInv, TypeOK, QueueOK,
                      Producers, Stages
  <2>2. /\ Range(queue'["persist"]) \subseteq Stored \cup {EOS}
        /\ Head(queue["persist"]) \in Stored \cup {EOS}
    BY <1>0, <2>1, RangeHeadTail DEF FenceInv, DurabilityFence
  <2>3. "publish" \notin ended' => hand'["publish"] \in Stored
    BY <1>0, <1>1, <2>2 DEF PublishGet, Arrival, Upstream, Stages
  <2> QED BY <2>1, <2>2, <2>3 DEF FenceInv, DurabilityFence, Stored
<1>2. CASE PublishOffer
  <2> DEFINE p == Publishers[turn]
  <2>1. /\ UNCHANGED <<db, queue, delivered, batch, hand, ended>>
        /\ pc'["persist"] = pc["persist"]
        /\ p \in Sinks
        /\ pc["publish"] = "offer"
    BY <1>0, <1>2, TurnOK DEF PublishOffer, GoTo, At, Stages
  <2>2. "publish" \notin ended => hand["publish"] \in Stored /\ hand["publish"] \in Records
    BY <2>1 DEF FenceInv, TypeInv, LocationInv
  <2>3. \A q \in Sinks : Range(pending'[q]) \subseteq Stored
    <3>1. ASSUME NEW q \in Sinks, q # p PROVE pending'[q] = pending[q]
      BY <1>0, <1>2, <3>1 DEF PublishOffer
    <3>2. CASE "publish" \in ended
      <4>1. pending'[p] = pending[p]
        BY <1>0, <1>2, <2>1, <3>2 DEF PublishOffer
      <4> QED BY <3>1, <4>1 DEF FenceInv, DurabilityFence
    <3>3. CASE "publish" \notin ended
      <4>1. pending'[p] = Append(pending[p], hand["publish"])
        BY <1>0, <1>2, <2>1, <3>3 DEF PublishOffer
      <4>2. Range(pending'[p]) = Range(pending[p]) \cup {hand["publish"]}
        BY <1>0, <2>1, <2>2, <3>3, <4>1, RangeAppend
      <4> QED BY <2>1, <2>2, <3>1, <3>3, <4>2 DEF FenceInv, DurabilityFence
    <3> QED BY <3>2, <3>3
  <2>4. Stored' = Stored
    BY <2>1 DEF Stored
  <2>5. DurabilityFence'
    BY <2>1, <2>3, <2>4 DEF FenceInv, DurabilityFence
  <2> QED BY <2>1, <2>2, <2>4, <2>5 DEF FenceInv
<1>3. CASE PublishOffered
  BY <1>0, <1>3, FenceKept DEF PublishOffered, GoTo, Stored, Stages
<1>4. CASE PublishSend
  <2> DEFINE p == Publishers[turn]
  <2>1. /\ UNCHANGED <<db, queue, batch, hand, ended>>
        /\ pc'["persist"] = pc["persist"] /\ pc["publish"] = "send"
        /\ p \in Sinks
    BY <1>0, <1>4, TurnOK DEF PublishSend, GoTo, At, Stages, TypeInv, LocationInv
  <2>2. Stored' = Stored
    BY <2>1 DEF Stored
  <2>3. \A q \in Sinks : Range(pending'[q]) \subseteq Stored
    BY <1>0, <1>4, <2>1, RangeEmpty DEF PublishSend, FenceInv, DurabilityFence
  <2>4. \A q \in Sinks : UNION Range(delivered'[q]) \subseteq Stored
    <3>1. Cleared(p) \subseteq Stored /\ Cleared(p) \in SUBSET Records
      BY <2>1, ClearedOK DEF FenceInv, DurabilityFence
    <3>2. Range(Append(delivered[p], Cleared(p))) = Range(delivered[p]) \cup {Cleared(p)}
      <4>1. delivered[p] \in Seq(SUBSET Records)
        BY <1>0, <2>1
      <4> HIDE DEF p
      <4> QED BY <3>1, <4>1, RangeAppend
    <3>3. UNION Range(Append(delivered[p], Cleared(p))) \subseteq Stored
      BY <2>1, <3>1, <3>2 DEF FenceInv, DurabilityFence
    <3>4. ASSUME NEW q \in Sinks
          PROVE  delivered'[q] \in {delivered[q], Append(delivered[p], Cleared(p))}
      BY <1>0, <1>4, <2>1 DEF PublishSend
    <3> QED BY <3>3, <3>4 DEF FenceInv, DurabilityFence
  <2>5. DurabilityFence'
    BY <2>1, <2>2, <2>3, <2>4 DEF FenceInv, DurabilityFence
  <2> QED BY <2>1, <2>2, <2>5 DEF FenceInv
<1> QED BY <1>1, <1>2, <1>3, <1>4 DEF RunPublish

LEMMA FailureFence ==
    ASSUME TypeInv, FenceInv, NEW s \in Stages,
           Deliver(s) \/ (s \in DOMAIN PluginCall /\ Fault(s))
    PROVE  FenceInv'
<1>0. /\ batch \in Seq(Records) /\ db \in Seq(Records)
      /\ delivered \in [Sinks -> Seq(SUBSET Records)]
      /\ pc \in [Stages -> Locations]
  BY DEF TypeInv, TypeOK, BatchOK, TaskOK
<1>1. UNCHANGED <<queue, batch, pending, ended, hand>> /\ SideEffect(s)
  BY DEF Deliver, Fault
<1>2. /\ pc'["persist"] \in {pc["persist"], "closing", "done"}
      /\ pc'["publish"] \in {pc["publish"], "done"}
  BY <1>0 DEF Deliver, Fault, Raise, GoTo, Unwind, Stages
<1>3. CASE UNCHANGED delivered
  <2>1. Stored \subseteq Stored'
    <3>1. db' = db \/ db' = db \o batch
      BY <1>1 DEF SideEffect
    <3>2. Range(db \o batch) = Range(db) \cup Range(batch)
      BY <1>0, RangeConcatenation
    <3> QED BY <3>1, <3>2 DEF Stored
  <2> QED BY <1>1, <1>2, <1>3, <2>1, FenceKept
<1>4. CASE ~UNCHANGED delivered
  <2> DEFINE p == Publishers[turn]
  <2>1. s = "publish" /\ pc[s] = "send" /\ UNCHANGED db
    BY <1>1, <1>4 DEF SideEffect
  <2>2. PICK k \in Cleared(p) :
           delivered' = [delivered EXCEPT ![p] = Append(@, {r \in Cleared(p) : r <= k})]
    BY <1>1, <1>4 DEF SideEffect
  <2>3. p \in Sinks
    BY <2>1, TurnOK DEF TypeInv, LocationInv
  <2> DEFINE C == {r \in Cleared(p) : r <= k}
  <2>4. C \subseteq Stored /\ C \in SUBSET Records
    BY <2>3, ClearedOK DEF FenceInv, DurabilityFence
  <2> HIDE DEF C
  <2>5. Range(Append(delivered[p], C)) = Range(delivered[p]) \cup {C}
    <3>1. delivered[p] \in Seq(SUBSET Records)
      BY <1>0, <2>3
    <3> HIDE DEF p
    <3> QED BY <2>4, <3>1, RangeAppend
  <2>6. \A q \in Sinks : UNION Range(delivered'[q]) \subseteq Stored
    <3>1. ASSUME NEW q \in Sinks
          PROVE  delivered'[q] \in {delivered[q], Append(delivered[p], C)}
      BY <1>0, <2>2, <2>3 DEF C
    <3>2. UNION Range(Append(delivered[p], C)) \subseteq Stored
      BY <2>3, <2>4, <2>5 DEF FenceInv, DurabilityFence
    <3> QED BY <3>1, <3>2 DEF FenceInv, DurabilityFence
  <2>7. Stored' = Stored
    BY <2>1 DEF Stored
  <2>8. DurabilityFence'
    BY <1>1, <2>6, <2>7 DEF FenceInv, DurabilityFence
  <2> QED BY <1>1, <1>2, <2>7, <2>8 DEF FenceInv
<1> QED BY <1>3, <1>4

LEMMA InitFenceInv == Init => FenceInv
<1> SUFFICES ASSUME Init PROVE FenceInv
  OBVIOUS
<1> QED BY RangeEmpty DEF Init, FenceInv, DurabilityFence, Producers, Stages

LEMMA NextFenceInv ==
    ASSUME TypeInv, FenceInv, [Next]_vars
    PROVE  FenceInv'
<1>1. CASE RunFetch \/ RunParse \/ RunNormalize \/ RunEnrich \/ RunDedup
  BY <1>1, FrontFence
<1>2. CASE RunPersist
  BY <1>2, PersistFence
<1>3. CASE RunPublish
  BY <1>3, PublishFence
<1>4. CASE \E s \in Stages : Deliver(s)
  BY <1>4, FailureFence
<1>5. CASE \E s \in DOMAIN PluginCall : Fault(s)
  BY <1>5, FailureFence DEF PluginCall, Stages
<1>6. CASE Abort \/ CancelRun \/ Finish
  BY <1>6, FenceKept DEF Abort, CancelRun, Finish, Stored
<1>7. CASE UNCHANGED vars
  BY <1>7, FenceKept DEF vars, Stored
<1> QED
  BY <1>1, <1>2, <1>3, <1>4, <1>5, <1>6, <1>7 DEF Next, Step, Terminated

\* persist is a durability fence: in every run, failing or not, whatever is
\* downstream of persist.py or already with an extra publisher is committed.
THEOREM FenceHolds == Spec => []DurabilityFence
<1>1. TypeInv /\ [Next]_vars => TypeInv'
  BY NextTypeInv
<1>2. TypeInv /\ FenceInv /\ [Next]_vars => FenceInv'
  BY NextFenceInv
<1>3. FenceInv => DurabilityFence
  BY DEF FenceInv
<1> QED BY InitTypeInv, InitFenceInv, <1>1, <1>2, <1>3, PTL DEF Spec
=============================================================================
