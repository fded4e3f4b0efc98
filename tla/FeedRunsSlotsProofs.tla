------------------------ MODULE FeedRunsSlotsProofs ------------------------
(***************************************************************************)
(* Proofs about the semaphores of FeedRuns, about the recovery time of the *)
(* breaker that they protect, and about what remains of the watermark's    *)
(* order where they protect nothing: between processes.                    *)
(***************************************************************************)
EXTENDS FeedRunsProofs, FiniteSetTheorems

\* The runs that hold a global slot of a process, and a slot of a source.
InGlobal(p) == {r \in Runs : proc[r] = p /\ pc[r] \in Inside \cup {"source"}}
InSource(k) == {r \in Runs : Key(r) = k /\ pc[r] \in Inside}

\* Slots and holders add up, for one process and for one source of it.  Runs
\* may be infinite, so that the counts mean something only together with the
\* finiteness of what is counted.
GlobalCounted(p) ==
    /\ IsFiniteSet(InGlobal(p))
    /\ globalFree[p] >= 0
    /\ globalFree[p] + Cardinality(InGlobal(p)) = GlobalMax

SourceCounted(k) ==
    /\ IsFiniteSet(InSource(k))
    /\ sourceFree[k] >= 0
    /\ sourceFree[k] + Cardinality(InSource(k)) = SourceSlots

SlotInv ==
    /\ \A p \in Procs : GlobalCounted(p)
    /\ \A k \in Procs \X Sources : SourceCounted(k)

-----------------------------------------------------------------------------
(* Counting holders.                                                       *)

\* free slots + holders = limit, before and after one more holder.
LEMMA OneMore ==
    ASSUME NEW S, IsFiniteSet(S), NEW x, x \notin S,
           NEW free \in Int, NEW limit \in Int, free + Cardinality(S) = limit
    PROVE  /\ IsFiniteSet(S \cup {x})
           /\ (free - 1) + Cardinality(S \cup {x}) = limit
<1>1. IsFiniteSet(S \cup {x}) /\ Cardinality(S \cup {x}) = Cardinality(S) + 1
  BY FS_AddElement
<1>2. Cardinality(S) \in Nat
  BY FS_CardinalityType
<1> QED BY <1>1, <1>2

\* The same for one holder less.
LEMMA OneLess ==
    ASSUME NEW S, IsFiniteSet(S), NEW x \in S,
           NEW free \in Int, NEW limit \in Int, free + Cardinality(S) = limit
    PROVE  /\ IsFiniteSet(S \ {x})
           /\ (free + 1) + Cardinality(S \ {x}) = limit
<1>1. IsFiniteSet(S \ {x}) /\ Cardinality(S \ {x}) = Cardinality(S) - 1
  BY FS_RemoveElement
<1>2. Cardinality(S) \in Nat
  BY FS_CardinalityType
<1> QED BY <1>1, <1>2

LEMMA SlotsType ==
    SourceSlots \in Nat \ {0} /\ (MaxParallel <= 1 => SourceSlots = 1)
BY RunsAssumption DEF SourceSlots

\* A step that neither lets a run of p in or out nor touches p's counter.
LEMMA GlobalFrame ==
    ASSUME NEW p \in Procs, GlobalCounted(p), InGlobal(p)' = InGlobal(p),
           globalFree'[p] = globalFree[p]
    PROVE  GlobalCounted(p)'
BY DEF GlobalCounted

LEMMA SourceFrame ==
    ASSUME NEW k \in Procs \X Sources, SourceCounted(k), InSource(k)' = InSource(k),
           sourceFree'[k] = sourceFree[k]
    PROVE  SourceCounted(k)'
<1>1. SourceSlots' = SourceSlots
  BY DEF SourceSlots
<1> QED BY <1>1 DEF SourceCounted


\* A run moves on without taking or giving back a slot.
LEMMA QuietSlots ==
    ASSUME SlotInv, UNCHANGED <<proc, src, slots>>,
           \A q \in Runs : /\ pc'[q] \in Inside <=> pc[q] \in Inside
                           /\ pc'[q] = "source" <=> pc[q] = "source"
    PROVE  SlotInv'
<1>1. \A p \in Procs : InGlobal(p)' = InGlobal(p)
  BY DEF InGlobal
<1>2. \A k \in Procs \X Sources : InSource(k)' = InSource(k)
  BY DEF InSource, Key
<1>3. \A p \in Procs : GlobalCounted(p)'
  BY <1>1, GlobalFrame DEF SlotInv, slots
<1>4. \A k \in Procs \X Sources : SourceCounted(k)'
  BY <1>2, SourceFrame DEF SlotInv, slots
<1> QED BY <1>3, <1>4 DEF SlotInv

LEMMA EnterGlobalSlots ==
    ASSUME TypeOK, SlotInv, NEW r \in Runs, EnterGlobal(r)
    PROVE  SlotInv'
<1>0. /\ pc[r] = "global" /\ pc' = [pc EXCEPT ![r] = "source"]
      /\ UNCHANGED <<proc, src, sourceFree>>
      /\ globalFree' = [globalFree EXCEPT ![proc[r]] = @ - 1] /\ globalFree[proc[r]] > 0
      /\ proc[r] \in Procs
  BY KeyType DEF EnterGlobal, GoTo
<1>1. ASSUME NEW p \in Procs PROVE GlobalCounted(p)'
  <2>1. CASE p # proc[r]
    <3>1. InGlobal(p)' = InGlobal(p) /\ globalFree'[p] = globalFree[p]
      BY <1>0, <2>1 DEF InGlobal, TypeOK
    <3> QED BY <3>1, GlobalFrame DEF SlotInv
  <2>2. CASE p = proc[r]
    <3>1. /\ InGlobal(p)' = InGlobal(p) \cup {r} /\ r \notin InGlobal(p)
          /\ globalFree'[p] = globalFree[p] - 1 /\ globalFree[p] \in Int
          /\ globalFree[p] > 0
      BY <1>0, <2>2 DEF InGlobal, TypeOK, Inside
    <3>2. /\ IsFiniteSet(InGlobal(p))
          /\ globalFree[p] + Cardinality(InGlobal(p)) = GlobalMax
      BY DEF SlotInv, GlobalCounted
    <3>3. /\ IsFiniteSet(InGlobal(p) \cup {r})
          /\ (globalFree[p] - 1) + Cardinality(InGlobal(p) \cup {r}) = GlobalMax
      BY <3>1, <3>2, OneMore, RunsAssumption
    <3> QED BY <3>1, <3>3 DEF GlobalCounted
  <2> QED BY <2>1, <2>2
<1>2. ASSUME NEW k \in Procs \X Sources PROVE SourceCounted(k)'
  <2>1. InSource(k)' = InSource(k)
    BY <1>0 DEF InSource, Key, TypeOK, Inside
  <2> QED BY <1>0, <2>1, SourceFrame DEF SlotInv
<1> QED BY <1>1, <1>2 DEF SlotInv

LEMMA EnterSourceSlots ==
    ASSUME TypeOK, SlotInv, NEW r \in Runs, EnterSource(r)
    PROVE  SlotInv'
<1>0. /\ pc[r] = "source" /\ pc' = [pc EXCEPT ![r] = "gate"]
      /\ UNCHANGED <<proc, src, globalFree>>
      /\ sourceFree' = [sourceFree EXCEPT ![Key(r)] = @ - 1] /\ sourceFree[Key(r)] > 0
      /\ Key(r) \in Procs \X Sources
  BY KeyType DEF EnterSource, GoTo
<1>1. ASSUME NEW p \in Procs PROVE GlobalCounted(p)'
  <2>1. InGlobal(p)' = InGlobal(p)
    BY <1>0 DEF InGlobal, TypeOK, Inside
  <2> QED BY <1>0, <2>1, GlobalFrame DEF SlotInv
<1>2. ASSUME NEW k \in Procs \X Sources PROVE SourceCounted(k)'
  <2>1. CASE k # Key(r)
    <3>1. InSource(k)' = InSource(k)
      BY <1>0, <2>1 DEF InSource, Key, TypeOK
    <3>2. sourceFree'[k] = sourceFree[k]
      BY <1>0, <2>1 DEF TypeOK
    <3> QED BY <3>1, <3>2, SourceFrame DEF SlotInv
  <2>2. CASE k = Key(r)
    <3>1. InSource(k)' = InSource(k) \cup {r} /\ r \notin InSource(k)
      BY <1>0, <2>2 DEF InSource, Key, TypeOK, Inside
    <3>2. /\ sourceFree'[k] = sourceFree[k] - 1 /\ sourceFree[k] \in Int
          /\ sourceFree[k] > 0
      BY <1>0, <2>2 DEF TypeOK
    <3>3. /\ IsFiniteSet(InSource(k))
          /\ sourceFree[k] + Cardinality(InSource(k)) = SourceSlots
      BY DEF SlotInv, SourceCounted
    <3>4. /\ IsFiniteSet(InSource(k) \cup {r})
          /\ (sourceFree[k] - 1) + Cardinality(InSource(k) \cup {r}) = SourceSlots
      BY <3>1, <3>2, <3>3, OneMore, SlotsType
    <3> QED BY <3>1, <3>2, <3>4 DEF SourceCounted, SourceSlots
  <2> QED BY <2>1, <2>2
<1> QED BY <1>1, <1>2 DEF SlotInv

\* Giving back a global slot.
LEMMA GlobalBack ==
    ASSUME TypeOK, SlotInv, NEW r \in Runs, pc[r] \in Inside \cup {"source"},
           globalFree' = [globalFree EXCEPT ![proc[r]] = @ + 1],
           pc' = [pc EXCEPT ![r] = "done"], UNCHANGED proc
    PROVE  \A p \in Procs : GlobalCounted(p)'
<1> SUFFICES ASSUME NEW p \in Procs PROVE GlobalCounted(p)'
  OBVIOUS
<1>1. proc[r] \in Procs
  BY KeyType
<1>2. CASE p # proc[r]
  <2>1. InGlobal(p)' = InGlobal(p) /\ globalFree'[p] = globalFree[p]
    BY <1>1, <1>2 DEF InGlobal, TypeOK
  <2> QED BY <2>1, GlobalFrame DEF SlotInv
<1>3. CASE p = proc[r]
  <2>1. /\ InGlobal(p)' = InGlobal(p) \ {r} /\ r \in InGlobal(p)
        /\ globalFree'[p] = globalFree[p] + 1 /\ globalFree[p] \in Int
    BY <1>1, <1>3 DEF InGlobal, TypeOK, Inside
  <2>2. /\ IsFiniteSet(InGlobal(p)) /\ globalFree[p] >= 0
        /\ globalFree[p] + Cardinality(InGlobal(p)) = GlobalMax
    BY DEF SlotInv, GlobalCounted
  <2>3. /\ IsFiniteSet(InGlobal(p) \ {r})
        /\ (globalFree[p] + 1) + Cardinality(InGlobal(p) \ {r}) = GlobalMax
    BY <2>1, <2>2, OneLess, RunsAssumption
  <2> QED BY <2>1, <2>2, <2>3 DEF GlobalCounted
<1> QED BY <1>2, <1>3

\* Leaving the "async with" block gives back both slots.
LEMMA LeaveSlots ==
    ASSUME TypeOK, SlotInv, NEW r \in Runs, pc[r] \in Inside, Leave(r),
           UNCHANGED <<proc, src>>
    PROVE  SlotInv'
<1>0. /\ pc' = [pc EXCEPT ![r] = "done"]
      /\ globalFree' = [globalFree EXCEPT ![proc[r]] = @ + 1]
      /\ sourceFree' = [sourceFree EXCEPT ![Key(r)] = @ + 1]
      /\ Key(r) \in Procs \X Sources
  BY KeyType DEF Leave, GoTo
<1>1. \A p \in Procs : GlobalCounted(p)'
  BY <1>0, GlobalBack
<1>2. ASSUME NEW k \in Procs \X Sources PROVE SourceCounted(k)'
  <2>1. CASE k # Key(r)
    <3>1. InSource(k)' = InSource(k)
      BY <1>0, <2>1 DEF InSource, Key, TypeOK
    <3>2. sourceFree'[k] = sourceFree[k]
      BY <1>0, <2>1 DEF TypeOK
    <3> QED BY <3>1, <3>2, SourceFrame DEF SlotInv
  <2>2. CASE k = Key(r)
    <3>1. InSource(k)' = InSource(k) \ {r} /\ r \in InSource(k)
      BY <1>0, <2>2 DEF InSource, Key, TypeOK, Inside
    <3>2. sourceFree'[k] = sourceFree[k] + 1 /\ sourceFree[k] \in Int
      BY <1>0, <2>2 DEF TypeOK
    <3>3. /\ IsFiniteSet(InSource(k)) /\ sourceFree[k] >= 0
          /\ sourceFree[k] + Cardinality(InSource(k)) = SourceSlots
      BY DEF SlotInv, SourceCounted
    <3>4. /\ IsFiniteSet(InSource(k) \ {r})
          /\ (sourceFree[k] + 1) + Cardinality(InSource(k) \ {r}) = SourceSlots
      BY <3>1, <3>2, <3>3, OneLess, SlotsType
    <3> QED BY <3>1, <3>2, <3>3, <3>4 DEF SourceCounted, SourceSlots
  <2> QED BY <2>1, <2>2
<1> QED BY <1>1, <1>2 DEF SlotInv

\* CancelledError while a run waits for the slot of its source.
LEMMA CancelWaitingSlots ==
    ASSUME TypeOK, SlotInv, NEW r \in Runs, pc[r] = "source",
           globalFree' = [globalFree EXCEPT ![proc[r]] = @ + 1],
           pc' = [pc EXCEPT ![r] = "done"], UNCHANGED <<proc, src, sourceFree>>
    PROVE  SlotInv'
<1>1. \A p \in Procs : GlobalCounted(p)'
  BY GlobalBack
<1>2. ASSUME NEW k \in Procs \X Sources PROVE SourceCounted(k)'
  <2>1. InSource(k)' = InSource(k)
    BY DEF InSource, Key, TypeOK, Inside
  <2> QED BY <2>1, SourceFrame DEF SlotInv
<1> QED BY <1>1, <1>2 DEF SlotInv

\* A process that dies takes its holders and its counters with it.
LEMMA CrashSlots ==
    ASSUME TypeOK, SlotInv, NEW p \in Procs, Crash(p)
    PROVE  SlotInv'
<1>0. /\ pc' = [r \in Runs |-> IF proc[r] = p /\ pc[r] # "idle" THEN "done" ELSE pc[r]]
      /\ UNCHANGED <<proc, src>>
      /\ globalFree' = [globalFree EXCEPT ![p] = GlobalMax]
      /\ sourceFree' = [k \in Procs \X Sources |->
                           IF k[1] = p THEN SourceSlots ELSE sourceFree[k]]
  BY DEF Crash
<1>1. ASSUME NEW q \in Procs PROVE GlobalCounted(q)'
  <2>1. CASE q # p
    <3>1. InGlobal(q)' = InGlobal(q) /\ globalFree'[q] = globalFree[q]
      BY <1>0, <2>1 DEF InGlobal, TypeOK
    <3> QED BY <3>1, GlobalFrame DEF SlotInv
  <2>2. CASE q = p
    <3>1. InGlobal(q)' = {} /\ globalFree'[q] = GlobalMax
      BY <1>0, <2>2 DEF InGlobal, TypeOK, Inside
    <3> QED BY <3>1, FS_EmptySet, RunsAssumption DEF GlobalCounted
  <2> QED BY <2>1, <2>2
<1>2. ASSUME NEW k \in Procs \X Sources PROVE SourceCounted(k)'
  <2>1. CASE k[1] # p
    <3>1. InSource(k)' = InSource(k)
      BY <1>0, <2>1 DEF InSource, Key, TypeOK
    <3>2. sourceFree'[k] = sourceFree[k]
      BY <1>0, <2>1
    <3> QED BY <3>1, <3>2, SourceFrame DEF SlotInv
  <2>2. CASE k[1] = p
    <3>1. InSource(k)' = {}
      BY <1>0, <2>2 DEF InSource, Key, TypeOK, Inside
    <3>2. sourceFree'[k] = SourceSlots
      BY <1>0, <2>2
    <3> QED BY <3>1, <3>2, FS_EmptySet, SlotsType DEF SourceCounted, SourceSlots
  <2> QED BY <2>1, <2>2
<1> QED BY <1>1, <1>2 DEF SlotInv

LEMMA InitSlotInv == Init => SlotInv
<1> SUFFICES ASSUME Init PROVE SlotInv
  OBVIOUS
<1>1. ASSUME NEW p \in Procs PROVE GlobalCounted(p)
  <2>1. InGlobal(p) = {} /\ globalFree[p] = GlobalMax
    BY DEF Init, InGlobal, Inside
  <2> QED BY <2>1, FS_EmptySet, RunsAssumption DEF GlobalCounted
<1>2. ASSUME NEW k \in Procs \X Sources PROVE SourceCounted(k)
  <2>1. InSource(k) = {} /\ sourceFree[k] = SourceSlots
    BY DEF Init, InSource, Inside
  <2> QED BY <2>1, FS_EmptySet, SlotsType DEF SourceCounted
<1> QED BY <1>1, <1>2 DEF SlotInv

\* The steps of execute() between the gate and the end keep both slots.
LEMMA AttemptSlots ==
    ASSUME TypeOK, SlotInv, NEW r \in Runs,
           OpenRun(r) \/ Fetch(r) \/ Ingest(r) \/ Conclude(r) \/ Hang(r) \/ Finalize(r)
    PROVE  SlotInv'
<1>1. pc[r] \in Inside /\ UNCHANGED <<proc, src, slots>>
  BY DEF OpenRun, Fetch, Ingest, Conclude, Hang, Finalize, Inside, slots
<1>2. pc'[r] \in Inside /\ \A q \in Runs \ {r} : pc'[q] = pc[q]
  <2>1. CASE \E e \in Errors \cup {"ok"} : AttemptEnds(r, e)
    BY <2>1, AttemptEndsOK DEF Inside
  <2>2. CASE \E loc \in {"fetch", "except", "ingest", "stored", "hung", "report"} :
                GoTo(r, loc)
    BY <2>2 DEF GoTo, TypeOK, Inside
  <2> QED BY <2>1, <2>2 DEF OpenRun, Fetch, Ingest, Conclude, Hang, Finalize
<1>3. \A q \in Runs : /\ pc'[q] \in Inside <=> pc[q] \in Inside
                      /\ pc'[q] = "source" <=> pc[q] = "source"
  BY <1>1, <1>2 DEF Inside
<1> QED BY <1>1, <1>3, QuietSlots

LEMMA StepSlotInv == TypeOK /\ SlotInv /\ [Next]_vars => SlotInv'
<1> SUFFICES ASSUME TypeOK, SlotInv, [Next]_vars PROVE SlotInv'
  OBVIOUS
<1>1. ASSUME NEW r \in Runs, Start(r) \/ Backfill(r) PROVE SlotInv'
  <2>1. \A q \in Runs : /\ pc'[q] \in Inside <=> pc[q] \in Inside
                        /\ pc'[q] = "source" <=> pc[q] = "source"
    BY <1>1 DEF Start, Backfill, GoTo, TypeOK, Inside
  <2> QED BY <1>1, <2>1, QuietSlots DEF Start, Backfill
<1>2. ASSUME NEW r \in Runs, EnterGlobal(r) \/ EnterSource(r) PROVE SlotInv'
  BY <1>2, EnterGlobalSlots, EnterSourceSlots
<1>3. ASSUME NEW r \in Runs, Gate(r) \/ Build(r) PROVE SlotInv'
  <2>1. pc[r] \in Inside /\ UNCHANGED <<proc, src>>
    BY <1>3 DEF Gate, Build, Inside
  <2>2. CASE Leave(r)
    BY <2>1, <2>2, LeaveSlots
  <2>3. CASE ~Leave(r)
    <3>1. UNCHANGED slots /\ \E loc \in {"build", "open"} : GoTo(r, loc)
      BY <1>3, <2>3 DEF Gate, Build
    <3>2. \A q \in Runs : /\ pc'[q] \in Inside <=> pc[q] \in Inside
                          /\ pc'[q] = "source" <=> pc[q] = "source"
      BY <2>1, <3>1 DEF GoTo, TypeOK, Inside
    <3> QED BY <2>1, <3>1, <3>2, QuietSlots
  <2> QED BY <2>2, <2>3
<1>4. ASSUME NEW r \in Runs,
             OpenRun(r) \/ Fetch(r) \/ Ingest(r) \/ Conclude(r) \/ Hang(r) \/ Finalize(r)
      PROVE  SlotInv'
  BY <1>4, AttemptSlots
<1>5. ASSUME NEW r \in Runs, Report(r) \/ Except(r) PROVE SlotInv'
  BY <1>5, LeaveSlots DEF Report, Except, Inside
<1>6. ASSUME NEW r \in Runs, Cancel(r) PROVE SlotInv'
  <2>1. CASE pc[r] = "global" /\ GoTo(r, "done") /\ UNCHANGED slots
    <3>1. \A q \in Runs : /\ pc'[q] \in Inside <=> pc[q] \in Inside
                          /\ pc'[q] = "source" <=> pc[q] = "source"
      BY <2>1 DEF GoTo, TypeOK, Inside
    <3> QED BY <1>6, <2>1, <3>1, QuietSlots DEF Cancel
  <2>2. CASE /\ pc[r] = "source" /\ GoTo(r, "done") /\ UNCHANGED sourceFree
             /\ globalFree' = [globalFree EXCEPT ![proc[r]] = @ + 1]
    BY <1>6, <2>2, CancelWaitingSlots DEF Cancel, GoTo
  <2>3. CASE pc[r] \in Inside /\ Leave(r)
    BY <1>6, <2>3, LeaveSlots DEF Cancel
  <2> QED BY <1>6, <2>1, <2>2, <2>3 DEF Cancel
<1>7. ASSUME NEW p \in Procs, Crash(p) PROVE SlotInv'
  BY <1>7, CrashSlots
<1>8. CASE (\E s \in Sources : Publish(s)) \/ Tick \/ UNCHANGED vars
  BY <1>8, QuietSlots DEF Publish, Tick, vars, slots
<1> QED
  BY <1>1, <1>2, <1>3, <1>4, <1>5, <1>6, <1>7, <1>8 DEF Next, Step, AllDone

-----------------------------------------------------------------------------
\* Capacity is neither lost nor exceeded: on every exit path of execute()
\* (runner.py) and through every cancellation and crash, the free slots of
\* concurrency.py and the runs that hold one add up to the configured limit.
THEOREM SlotsAreConserved == Spec => []SlotsConserved
<1>1. SlotInv => SlotsConserved
  BY DEF SlotInv, GlobalCounted, SourceCounted, SlotsConserved, InGlobal, InSource
<1> QED BY <1>1, InitTypeOK, StepTypeOK, InitCoverInv, StepCoverInv, InitSlotInv,
           StepSlotInv, PTL DEF Spec

-----------------------------------------------------------------------------
(* Whoever waits for a slot waits for a run that can go on.                *)

\* Nobody has all of a semaphore when nobody holds it.
LEMMA FullIsHeld ==
    ASSUME NEW S, IsFiniteSet(S), NEW limit \in Nat \ {0}, 0 + Cardinality(S) = limit
    PROVE  \E x : x \in S
<1>1. Cardinality(S) \in Nat
  BY FS_CardinalityType
<1>2. S # {}
  BY <1>1, FS_EmptySet
<1> QED BY <1>2

LEMMA SourceHeld ==
    ASSUME SlotInv, TypeOK, NEW r \in Runs, sourceFree[Key(r)] = 0
    PROVE  \E q \in Runs : Key(q) = Key(r) /\ pc[q] \in Inside
<1>1. Key(r) \in Procs \X Sources
  BY KeyType
<1>2. IsFiniteSet(InSource(Key(r))) /\ 0 + Cardinality(InSource(Key(r))) = SourceSlots
  BY <1>1 DEF SlotInv, SourceCounted
<1>3. \E x : x \in InSource(Key(r))
  BY <1>2, SlotsType, FullIsHeld
<1> QED BY <1>3 DEF InSource

LEMMA GlobalHeld ==
    ASSUME SlotInv, TypeOK, NEW r \in Runs, globalFree[proc[r]] = 0
    PROVE  \E q \in Runs : /\ proc[q] = proc[r]
                           /\ \/ pc[q] \in Inside
                              \/ pc[q] = "source" /\ sourceFree[Key(q)] > 0
<1>1. proc[r] \in Procs
  BY KeyType
<1>2. IsFiniteSet(InGlobal(proc[r])) /\ 0 + Cardinality(InGlobal(proc[r])) = GlobalMax
  BY <1>1 DEF SlotInv, GlobalCounted
<1>3. \E x : x \in InGlobal(proc[r])
  BY <1>2, RunsAssumption, FullIsHeld
<1>4. PICK h \in Runs : proc[h] = proc[r] /\ pc[h] \in Inside \cup {"source"}
  BY <1>3 DEF InGlobal
<1>5. CASE sourceFree[Key(h)] = 0
  <2>1. PICK q \in Runs : Key(q) = Key(h) /\ pc[q] \in Inside
    BY <1>5, SourceHeld
  <2> QED BY <1>4, <2>1 DEF Key
<1>6. CASE sourceFree[Key(h)] # 0
  <2>1. Key(h) \in Procs \X Sources
    BY KeyType
  <2>2. sourceFree[Key(h)] \in Int /\ sourceFree[Key(h)] >= 0
    BY <2>1 DEF SlotInv, SourceCounted, TypeOK
  <2>3. sourceFree[Key(h)] > 0
    BY <1>6, <2>2
  <2> QED BY <1>4, <2>3
<1> QED BY <1>5, <1>6

\* "async with self._globals, sem" (runner.py) takes the slots in an order
\* that excludes a deadlock: although runs of one source may hold every global
\* slot, some run of the process is past both semaphores, or can pass the
\* second, for any limits and any fleet.
THEOREM WaitersAreServed == Spec => []SomeHolderMoves
<1>1. SlotInv /\ TypeOK => SomeHolderMoves
  BY SourceHeld, GlobalHeld DEF SomeHolderMoves
<1> QED BY <1>1, InitTypeOK, StepTypeOK, InitCoverInv, StepCoverInv, InitSlotInv,
           StepSlotInv, PTL DEF Spec

-----------------------------------------------------------------------------
(* What a limit of one protects.                                           *)

\* The configuration under which the code's "one run of a source at a time"
\* is meant: max_parallelism is 1 (or less, which counts as 1).
Serial == MaxParallel <= 1

\* The semaphore of a source is a mutex among the runs that share it.
LEMMA OneHolder ==
    ASSUME Serial, SlotInv, TypeOK, NEW q \in Runs, NEW r \in Runs,
           Key(q) = Key(r), pc[q] \in Inside, pc[r] \in Inside
    PROVE  q = r
<1> DEFINE k == Key(r)
<1>1. k \in Procs \X Sources /\ SourceSlots = 1
  BY KeyType, SlotsType DEF Serial
<1>2. q \in InSource(k) /\ r \in InSource(k)
  BY DEF InSource
<1>3. IsFiniteSet(InSource(k)) /\ Cardinality(InSource(k)) <= 1
  <2>1. /\ IsFiniteSet(InSource(k)) /\ sourceFree[k] >= 0
        /\ sourceFree[k] + Cardinality(InSource(k)) = 1
    BY <1>1 DEF SlotInv, SourceCounted
  <2>2. Cardinality(InSource(k)) \in Nat /\ sourceFree[k] \in Int
    BY <1>1, <2>1, FS_CardinalityType DEF TypeOK
  <2> QED BY <2>1, <2>2
<1> HIDE DEF k
<1>4. SUFFICES ASSUME q # r PROVE FALSE
  OBVIOUS
<1>5. IsFiniteSet({q, r}) /\ Cardinality({q, r}) = 2
  <2>1. IsFiniteSet({q}) /\ Cardinality({q}) = 1
    BY FS_Singleton
  <2>2. {q, r} = {q} \cup {r} /\ r \notin {q}
    BY <1>4
  <2>3. IsFiniteSet({q} \cup {r}) /\ Cardinality({q} \cup {r}) = 1 + 1
    BY ONLY <2>1, <2>2, FS_AddElement
  <2> QED BY <2>2, <2>3
<1>6. Cardinality({q, r}) <= Cardinality(InSource(k))
  BY <1>2, <1>3, FS_Subset
<1>7. Cardinality(InSource(k)) \in Nat
  BY <1>3, FS_CardinalityType
<1> QED BY <1>3, <1>5, <1>6, <1>7

-----------------------------------------------------------------------------
(* The breaker's recovery time.  With one holder per breaker a circuit is  *)
(* opened only by the run that leaves, so a breaker that is not open has   *)
(* its last opening at least recovery_seconds behind it.                   *)

Recovered(b) == b.state # "open" => b.age = RecoverySeconds

CoolInv ==
    /\ \A k \in Procs \X Sources : Recovered(breaker[k])
    /\ \A r \in Runs : pc[r] \in Inside \ {"gate"} => breaker[Key(r)].state # "open"

\* What the methods do to a breaker that Recovered holds of.
LEMMA RecoveredMethods ==
    ASSUME NEW b \in Breakers, Recovered(b)
    PROVE  /\ ~Refuses(b) => /\ b.age = RecoverySeconds
                             /\ Recovered(Before(b)) /\ Before(b).state # "open"
           /\ b.state # "open" => Recovered(OnSuccess(b)) /\ Recovered(OnFailure(b))
           /\ Recovered(Elapse(b)) /\ Elapse(b).state = b.state
<1> USE PolicyAssumption
<1>1. ~Refuses(b) => /\ b.age = RecoverySeconds
                     /\ Recovered(Before(b)) /\ Before(b).state # "open"
  BY DEF Refuses, Before, Recovered, Breakers
<1>2. b.state # "open" => Recovered(OnSuccess(b))
  BY DEF OnSuccess, Recovered, Breakers
<1>3. b.state # "open" => Recovered(OnFailure(b))
  BY DEF OnFailure, Recovered, Breakers
<1>4. Recovered(Elapse(b)) /\ Elapse(b).state = b.state
  BY DEF Elapse, Recovered, Breakers
<1> QED BY <1>1, <1>2, <1>3, <1>4

LEMMA InitCoolInv == Init => CoolInv
BY DEF Init, CoolInv, Recovered, NewBreaker, Inside

\* A step that calls no breaker and takes no run past its gate.
LEMMA CoolFrame ==
    ASSUME CoolInv, UNCHANGED <<proc, src, breaker>>,
           \A q \in Runs : pc'[q] \in Inside \ {"gate"} => pc[q] \in Inside \ {"gate"}
    PROVE  CoolInv'
BY DEF CoolInv, Recovered, Key

\* A run that is through reports to its breaker and leaves.
LEMMA LeaveCool ==
    ASSUME Serial, TypeOK, SlotInv, CoolInv, NEW r \in Runs, Report(r) \/ Except(r)
    PROVE  CoolInv'
<1> DEFINE k == Key(r)
           b == breaker[k]
<1>1. /\ k \in Procs \X Sources /\ b \in Breakers /\ UNCHANGED <<proc, src>>
      /\ pc[r] \in Inside \ {"gate"}
  BY KeyType DEF TypeOK, Report, Except, Inside
<1>2. b.state # "open" /\ Recovered(b)
  BY <1>1 DEF CoolInv
<1>3. pc' = [pc EXCEPT ![r] = "done"]
  BY DEF Report, Except, Leave, GoTo
<1>4. \/ breaker' = [breaker EXCEPT ![k] = OnSuccess(b)]
      \/ breaker' = [breaker EXCEPT ![k] = OnFailure(b)]
  BY DEF Report, Except
<1>5. Recovered(OnSuccess(b)) /\ Recovered(OnFailure(b))
  BY <1>1, <1>2, RecoveredMethods
<1>6. ASSUME NEW j \in Procs \X Sources PROVE Recovered(breaker'[j])
  <2>1. CASE j = k
    BY <1>1, <1>4, <1>5, <2>1 DEF TypeOK
  <2>2. CASE j # k
    BY <1>4, <2>2 DEF TypeOK, CoolInv
  <2> QED BY <2>1, <2>2
<1>7. ASSUME NEW q \in Runs, pc'[q] \in Inside \ {"gate"}
      PROVE  breaker'[Key(q)'].state # "open"
  <2>1. q # r /\ pc[q] = pc'[q] /\ Key(q)' = Key(q)
    BY <1>1, <1>3, <1>7 DEF TypeOK, Inside, Key
  <2>2. Key(q) # k
    BY <1>1, <1>7, <2>1, OneHolder
  <2>3. breaker'[Key(q)] = breaker[Key(q)]
    BY <1>4, <2>2, KeyType DEF TypeOK
  <2> QED BY <1>7, <2>1, <2>3 DEF CoolInv
<1>8. \A j \in Procs \X Sources : Recovered(breaker[j])'
  BY <1>6 DEF Recovered
<1> QED BY <1>7, <1>8 DEF CoolInv

\* The gate: a run gets past it only when the circuit has recovered.
LEMMA GateCool ==
    ASSUME TypeOK, CoolInv, NEW r \in Runs, Gate(r)
    PROVE  CoolInv' /\ (pc'[r] = "build" => breaker[Key(r)].age = RecoverySeconds)
<1> DEFINE k == Key(r)
           b == breaker[k]
<1>1. /\ k \in Procs \X Sources /\ b \in Breakers /\ UNCHANGED <<proc, src>>
      /\ Recovered(b)
  BY KeyType DEF TypeOK, Gate, CoolInv
<1>2. CASE Refuses(b)
  <2>1. UNCHANGED breaker /\ pc' = [pc EXCEPT ![r] = "done"]
    BY <1>2 DEF Gate, Leave, GoTo
  <2>2. pc'[r] = "done" /\ \A q \in Runs \ {r} : pc'[q] = pc[q]
    BY <2>1 DEF TypeOK
  <2>3. \A q \in Runs : pc'[q] \in Inside \ {"gate"} => pc[q] \in Inside \ {"gate"}
    BY <2>2 DEF Inside
  <2> QED BY <1>1, <2>1, <2>2, <2>3, CoolFrame
<1>3. CASE ~Refuses(b)
  <2>1. breaker' = [breaker EXCEPT ![k] = Before(b)] /\ pc' = [pc EXCEPT ![r] = "build"]
    BY <1>3 DEF Gate, GoTo
  <2>2. b.age = RecoverySeconds /\ Recovered(Before(b)) /\ Before(b).state # "open"
    BY <1>1, <1>3, RecoveredMethods
  <2>3. ASSUME NEW j \in Procs \X Sources
        PROVE  breaker'[j] = IF j = k THEN Before(b) ELSE breaker[j]
    BY <2>1 DEF TypeOK
  <2>4. \A j \in Procs \X Sources : Recovered(breaker[j])'
    BY <2>2, <2>3 DEF CoolInv, Recovered
  <2>5. ASSUME NEW q \in Runs, pc'[q] \in Inside \ {"gate"}
        PROVE  breaker'[Key(q)'].state # "open"
    <3>1. Key(q)' = Key(q) /\ Key(q) \in Procs \X Sources
      BY <1>1, KeyType DEF Key
    <3>2. q = r \/ pc[q] = pc'[q]
      BY <2>1 DEF TypeOK
    <3> QED BY <2>2, <2>3, <2>5, <3>1, <3>2 DEF CoolInv
  <2> QED BY <2>2, <2>4, <2>5 DEF CoolInv
<1> QED BY <1>2, <1>3

\* Fresh breakers, or a clock that moves on.
LEMMA OutsideCool ==
    ASSUME TypeOK, CoolInv, (\E p \in Procs : Crash(p)) \/ Tick
    PROVE  CoolInv' /\ \A q \in Runs : pc'[q] \in {pc[q], "done"}
<1>1. CASE \E p \in Procs : Crash(p)
  <2>1. PICK p \in Procs : Crash(p)
    BY <1>1
  <2>2. /\ \A q \in Runs : pc'[q] = IF proc[q] = p /\ pc[q] # "idle" THEN "done" ELSE pc[q]
        /\ UNCHANGED <<proc, src>>
    BY <2>1 DEF Crash
  <2>3. \A k \in Procs \X Sources :
           breaker'[k] = IF k[1] = p THEN NewBreaker ELSE breaker[k]
    BY <2>1 DEF Crash
  <2>4. \A k \in Procs \X Sources : Recovered(breaker[k])'
    BY <2>3 DEF CoolInv, Recovered, NewBreaker
  <2>5. ASSUME NEW q \in Runs, pc'[q] \in Inside \ {"gate"}
        PROVE  breaker'[Key(q)'].state # "open"
    <3>1. pc[q] = pc'[q] /\ Key(q)' = Key(q) /\ Key(q) \in Procs \X Sources
      BY <2>2, <2>5, KeyType DEF Inside, Key
    <3>2. breaker'[Key(q)] \in {NewBreaker, breaker[Key(q)]}
      BY <2>3, <3>1
    <3> QED BY <2>5, <3>1, <3>2 DEF CoolInv, NewBreaker
  <2> QED BY <2>2, <2>4, <2>5 DEF CoolInv
<1>2. CASE Tick
  <2>1. UNCHANGED <<pc, proc, src>>
    BY <1>2 DEF Tick
  <2>2. ASSUME NEW k \in Procs \X Sources
        PROVE  Recovered(breaker'[k]) /\ breaker'[k].state = breaker[k].state
    <3>1. breaker'[k] = Elapse(breaker[k]) /\ breaker[k] \in Breakers /\ Recovered(breaker[k])
      BY <1>2 DEF Tick, TypeOK, CoolInv
    <3> QED BY <3>1, RecoveredMethods
  <2>3. \A k \in Procs \X Sources : Recovered(breaker[k])'
    BY <2>2 DEF Recovered
  <2>4. \A q \in Runs : pc'[q] \in Inside \ {"gate"} => breaker'[Key(q)'].state # "open"
    BY <2>1, <2>2, KeyType DEF CoolInv, Key
  <2> QED BY <2>1, <2>3, <2>4 DEF CoolInv
<1> QED BY <1>1, <1>2

LEMMA StepCool ==
    ASSUME Serial, TypeOK, SlotInv, CoolInv, [Next]_vars
    PROVE  /\ CoolInv'
           /\ \A r \in Runs : pc[r] = "gate" /\ pc'[r] = "build"
                                 => breaker[Key(r)].age = RecoverySeconds
<1>1. ASSUME NEW r \in Runs, Gate(r)
      PROVE  CoolInv' /\ \A q \in Runs : pc[q] = "gate" /\ pc'[q] = "build"
                                             => breaker[Key(q)].age = RecoverySeconds
  <2>1. \A q \in Runs \ {r} : pc'[q] = pc[q]
    BY <1>1 DEF Gate, Leave, GoTo, TypeOK
  <2> QED BY <1>1, <2>1, GateCool
<1>2. ASSUME NEW r \in Runs, Report(r) \/ Except(r)
      PROVE  CoolInv' /\ \A q \in Runs : pc'[q] \in {pc[q], "done"}
  BY <1>2, LeaveCool DEF Report, Except, Leave, GoTo, TypeOK
<1>3. CASE (\E p \in Procs : Crash(p)) \/ Tick
  BY <1>3, OutsideCool
<1>4. CASE \E r \in Runs : \/ Start(r) \/ Backfill(r) \/ EnterGlobal(r) \/ EnterSource(r)
                           \/ Build(r) \/ OpenRun(r) \/ Fetch(r) \/ Ingest(r)
                           \/ Conclude(r) \/ Hang(r) \/ Finalize(r) \/ Cancel(r)
  <2>1. PICK r \in Runs : \/ Start(r) \/ Backfill(r) \/ EnterGlobal(r) \/ EnterSource(r)
                          \/ Build(r) \/ OpenRun(r) \/ Fetch(r) \/ Ingest(r)
                          \/ Conclude(r) \/ Hang(r) \/ Finalize(r) \/ Cancel(r)
    BY <1>4
  <2>2. UNCHANGED <<proc, src, breaker>>
    BY <2>1 DEF Start, Backfill, EnterGlobal, EnterSource, Build, OpenRun, Fetch, Ingest,
                Conclude, Hang, Finalize, Cancel
  <2>3. /\ \A q \in Runs \ {r} : pc'[q] = pc[q]
        /\ pc'[r] \in Inside \ {"gate"} => pc[r] \in Inside \ {"gate"}
        /\ pc'[r] # "build"
    <3>1. CASE Fetch(r) \/ Ingest(r) \/ Conclude(r)
      <4>1. pc[r] \in Inside \ {"gate"}
        BY <3>1 DEF Fetch, Ingest, Conclude, Inside
      <4>2. CASE \E e \in Errors \cup {"ok"} : AttemptEnds(r, e)
        BY <4>1, <4>2, AttemptEndsOK
      <4>3. CASE GoTo(r, "ingest") \/ GoTo(r, "stored")
        BY <4>1, <4>3 DEF GoTo, TypeOK
      <4> QED BY <3>1, <4>2, <4>3 DEF Fetch, Ingest, Conclude
    <3>2. CASE ~(Fetch(r) \/ Ingest(r) \/ Conclude(r))
      BY <2>1, <3>2 DEF Start, Backfill, EnterGlobal, EnterSource, Build, OpenRun,
                        Hang, Finalize, Cancel, Leave, GoTo, TypeOK, Inside
    <3> QED BY <3>1, <3>2
  <2>4. \A q \in Runs : pc'[q] \in Inside \ {"gate"} => pc[q] \in Inside \ {"gate"}
    BY <2>3
  <2> QED BY <2>2, <2>3, <2>4, CoolFrame
<1>5. CASE (\E s \in Sources : Publish(s)) \/ UNCHANGED vars
  <2>1. UNCHANGED <<pc, proc, src, breaker>>
    BY <1>5 DEF Publish, vars
  <2> QED BY <2>1, CoolFrame
<1> QED BY <1>1, <1>2, <1>3, <1>4, <1>5 DEF Next, Step, AllDone

\* With one run at a time per source and process, no run gets past before()
\* (circuit_breaker.py) sooner than recovery_seconds after the failure that
\* opened the circuit, whatever the other processes do.
THEOREM RecoveryIsRespected == Serial => (Spec => CoolDown)
<1> SUFFICES ASSUME Serial PROVE Spec => CoolDown
  OBVIOUS
<1>1. TypeOK /\ SlotInv /\ CoolInv /\ [Next]_vars
         => CoolInv' /\ [\A r \in Runs : pc[r] = "gate" /\ pc'[r] = "build"
                            => breaker[Key(r)].age = RecoverySeconds]_vars
  BY StepCool
<1> QED BY <1>1, InitTypeOK, StepTypeOK, InitCoverInv, StepCoverInv, InitSlotInv,
           StepSlotInv, InitCoolInv, PTL DEF Spec, CoolDown

-----------------------------------------------------------------------------
(* The order of watermarks.  Nothing keeps the runs of different processes *)
(* apart between open_run and finalize_run, but a run under way carries    *)
(* the ETag of a version that upstream has had, and one that nobody has    *)
(* overtaken carries no older one than the watermark it found.             *)

MarkInv ==
    /\ \A s \in Sources : watermark[s] <= upstream[s]
    /\ \A r \in Runs : UnderWay(r) => mark[r] <= upstream[src[r]]
    /\ \A r \in backfill : pc[r] # "idle"

\* The backfill command clears the watermark before its run.
Clears(r) == r \in backfill' \ backfill

\* A run that is to open, or to wait for that.
Waiting(r) == pc[r] \in {"global", "source", "gate", "build", "open"}

FreshInv ==
    \A r \in fresh : /\ r \in Runs
                     /\ UnderWay(r) => watermark[src[r]] <= mark[r]
                     /\ r \in backfill /\ Waiting(r) => watermark[src[r]] = 0

\* What any step does to a run: it opens with the watermark there is, and
\* afterwards takes on nothing but the ETag of upstream.
Moves(q) ==
    /\ Opens(q) => mark'[q] = watermark[src[q]] /\ UNCHANGED watermark
    /\ UnderWay(q)' => \/ Opens(q)
                       \/ UnderWay(q) /\ mark'[q] \in {mark[q], upstream[src[q]]}
    /\ Waiting(q)' => Waiting(q) \/ pc[q] = "idle"

\* What any step does to the watermark of a source.
Writes(s) ==
    \/ watermark'[s] = watermark[s]
    \/ \E r \in Runs : src[r] = s /\ Clears(r) /\ watermark'[s] = 0
    \/ \E r \in Runs : /\ src[r] = s /\ pc[r] = "finalize" /\ pc'[r] = "report"
                       /\ watermark'[s] = mark[r]

\* A step of one run that is under way, leaves the other runs alone and does
\* not go back to the start.
LEMMA OneMoves ==
    ASSUME NEW r \in Runs, UnderWay(r), ~Waiting(r)',
           UnderWay(r)' => mark'[r] \in {mark[r], upstream[src[r]]},
           \A q \in Runs \ {r} : pc'[q] = pc[q] /\ mark'[q] = mark[q]
    PROVE  \A q \in Runs : Moves(q)
BY DEF Moves, UnderWay, Opens, Waiting

\* A step that neither writes a watermark nor opens a run.
LEMMA QuietMoves ==
    ASSUME UNCHANGED mark,
           \A q \in Runs : \/ pc'[q] = pc[q]
                           \/ /\ UnderWay(q)' => UnderWay(q)
                              /\ Waiting(q)' => Waiting(q) \/ pc[q] = "idle"
                              /\ pc'[q] # "fetch"
    PROVE  \A q \in Runs : Moves(q)
BY DEF Moves, UnderWay, Opens, Waiting

LEMMA FetchMoves ==
    ASSUME TypeOK, NEW r \in Runs, Fetch(r)
    PROVE  \A q \in Runs : Moves(q)
<1>1. UnderWay(r) /\ mark'[r] \in {mark[r], upstream[src[r]]}
  BY DEF Fetch, UnderWay, TypeOK
<1>2. \A q \in Runs \ {r} : mark'[q] = mark[q]
  BY DEF Fetch, TypeOK
<1>3. (\A q \in Runs \ {r} : pc'[q] = pc[q]) /\ ~Waiting(r)'
  <2>1. CASE \E e \in Errors : AttemptEnds(r, e)
    BY <2>1, AttemptEndsOK DEF Waiting
  <2>2. CASE GoTo(r, "ingest")
    BY <2>2 DEF GoTo, TypeOK, Waiting
  <2> QED BY <2>1, <2>2 DEF Fetch
<1> QED BY <1>1, <1>2, <1>3, OneMoves

LEMMA AttemptMoves ==
    ASSUME TypeOK, NEW r \in Runs, Ingest(r) \/ Conclude(r) \/ Finalize(r)
    PROVE  \A q \in Runs : Moves(q)
<1>1. UnderWay(r) /\ UNCHANGED mark
  BY DEF Ingest, Conclude, Finalize, UnderWay
<1>2. (\A q \in Runs \ {r} : pc'[q] = pc[q]) /\ ~Waiting(r)'
  <2>1. CASE \E e \in Errors \cup {"ok"} : AttemptEnds(r, e)
    BY <2>1, AttemptEndsOK DEF Waiting
  <2>2. CASE \E loc \in {"stored", "report", "except"} : GoTo(r, loc)
    BY <2>2 DEF GoTo, TypeOK, Waiting
  <2> QED BY <2>1, <2>2 DEF Ingest, Conclude, Finalize
<1> QED BY <1>1, <1>2, OneMoves

LEMMA OpenMoves ==
    ASSUME TypeOK, NEW r \in Runs, OpenRun(r)
    PROVE  \A q \in Runs : Moves(q)
<1>1. (\A q \in Runs \ {r} : pc'[q] = pc[q] /\ mark'[q] = mark[q]) /\ UNCHANGED watermark
  BY DEF OpenRun, GoTo, TypeOK
<1>2. \/ pc[r] = "open" /\ pc'[r] = "fetch" /\ mark'[r] = watermark[src[r]]
      \/ pc'[r] = "except"
  BY DEF OpenRun, GoTo, TypeOK
<1> QED BY <1>1, <1>2 DEF Moves, UnderWay, Opens, Waiting

LEMMA OtherMoves ==
    ASSUME TypeOK,
           \/ \E r \in Runs : \/ Start(r) \/ Backfill(r) \/ EnterGlobal(r) \/ EnterSource(r)
                              \/ Gate(r) \/ Build(r) \/ Hang(r) \/ Report(r) \/ Except(r)
                              \/ Cancel(r)
           \/ \E p \in Procs : Crash(p)
           \/ \E s \in Sources : Publish(s)
           \/ Tick \/ UNCHANGED vars
    PROVE  \A q \in Runs : Moves(q)
<1>1. UNCHANGED mark
  BY DEF Start, Backfill, EnterGlobal, EnterSource, Gate, Build, Hang, Report, Except,
         Cancel, Crash, Publish, Tick, vars, local
<1>2. CASE \E r \in Runs : GoTo(r, "done") \/ GoTo(r, "hung")
  BY <1>1, <1>2, QuietMoves DEF GoTo, TypeOK, UnderWay, Waiting
<1>3. CASE \E r \in Runs : \E loc \in {"global", "source", "gate", "build", "open"} :
              (Waiting(r) \/ pc[r] = "idle") /\ GoTo(r, loc)
  BY <1>1, <1>3, QuietMoves DEF GoTo, TypeOK, UnderWay, Waiting
<1>4. CASE \E p \in Procs : Crash(p)
  BY <1>1, <1>4, QuietMoves DEF Crash, TypeOK, UnderWay, Waiting
<1>5. CASE UNCHANGED pc
  BY <1>1, <1>5, QuietMoves
<1> QED BY <1>2, <1>3, <1>4, <1>5
        DEF Start, Backfill, EnterGlobal, EnterSource, Gate, Build, Hang, Report, Except,
            Cancel, Leave, Publish, Tick, vars, Waiting

LEMMA StepMoves ==
    ASSUME TypeOK, [Next]_vars
    PROVE  \A q \in Runs : Moves(q)
BY FetchMoves, AttemptMoves, OpenMoves, OtherMoves DEF Next, Step, AllDone

LEMMA StepWrites ==
    ASSUME TypeOK, MarkInv, [Next]_vars, NEW s \in Sources
    PROVE  Writes(s)
<1>1. ASSUME NEW r \in Runs, Backfill(r) PROVE Writes(s)
  <2>1. r \notin backfill /\ backfill' = backfill \cup {r}
    BY <1>1 DEF Backfill, MarkInv
  <2>2. watermark'[s] = IF s = src[r] THEN 0 ELSE watermark[s]
    BY <1>1 DEF Backfill, TypeOK
  <2> QED BY <2>1, <2>2 DEF Writes, Clears
<1>2. ASSUME NEW r \in Runs, Finalize(r) PROVE Writes(s)
  <2>1. CASE UNCHANGED watermark
    BY <2>1 DEF Writes
  <2>2. CASE pc'[r] = "report" /\ watermark' = [watermark EXCEPT ![src[r]] = mark[r]]
    <3>1. watermark'[s] = IF s = src[r] THEN mark[r] ELSE watermark[s]
      BY <2>2 DEF TypeOK
    <3> QED BY <1>2, <2>2, <3>1 DEF Writes, Finalize
  <2> QED BY <1>2, <2>1, <2>2 DEF Finalize, NewWatermark, GoTo, TypeOK
<1>3. CASE UNCHANGED watermark
  BY <1>3 DEF Writes
<1> QED BY <1>1, <1>2, <1>3
        DEF Next, Step, Start, EnterGlobal, EnterSource, Gate, Build, OpenRun, Fetch, Ingest,
            Conclude, Report, Except, Hang, Cancel, Crash, Publish, Tick, AllDone, vars, tables

\* The sources and upstream, and who is a backfill.
LEMMA StepRest ==
    ASSUME TypeOK, [Next]_vars
    PROVE  /\ src' = src
           /\ \A s \in Sources : upstream[s] <= upstream'[s]
           /\ \A q \in backfill' : q \in backfill \/ (q \in Runs /\ pc'[q] = "global")
           /\ \A q \in backfill' \ backfill : watermark'[src[q]] = 0
<1>1. src' = src
  BY DEF Next, Step, Start, Backfill, EnterGlobal, EnterSource, Gate, Build, OpenRun, Fetch,
         Ingest, Conclude, Finalize, Report, Except, Hang, Cancel, Crash, Publish, Tick,
         AllDone, vars
<1>2. ASSUME UNCHANGED upstream
      PROVE  \A x \in Sources : upstream[x] <= upstream'[x]
  BY <1>2 DEF TypeOK
<1>3. ASSUME NEW s \in Sources, Publish(s)
      PROVE  \A x \in Sources : upstream[x] <= upstream'[x]
  BY <1>3 DEF Publish, TypeOK
<1>4. \A s \in Sources : upstream[s] <= upstream'[s]
  BY <1>2, <1>3 DEF Next, Step, Start, Backfill, EnterGlobal, EnterSource, Gate, Build,
     OpenRun, Fetch, Ingest, Conclude, Finalize, Report, Except, Hang, Cancel, Crash, Tick,
     AllDone, vars, TypeOK
<1>5. CASE UNCHANGED backfill
  <2>1. /\ \A q \in backfill' : q \in backfill
        /\ \A q \in backfill' \ backfill : FALSE
    BY <1>5
  <2> QED BY <1>1, <1>4, <2>1
<1>6. ASSUME NEW r \in Runs, Backfill(r)
      PROVE  /\ \A q \in backfill' : q \in backfill \/ (q \in Runs /\ pc'[q] = "global")
             /\ \A q \in backfill' \ backfill : watermark'[src[q]] = 0
  BY <1>6, KeyType DEF Backfill, GoTo, TypeOK
<1> QED BY <1>1, <1>4, <1>5, <1>6
        DEF Next, Step, Start, EnterGlobal, EnterSource, Gate, Build, OpenRun, Fetch, Ingest,
            Conclude, Finalize, Report, Except, Hang, Cancel, Crash, Publish, Tick, AllDone, vars

LEMMA NeverIdleAgain ==
    ASSUME TypeOK, [Next]_vars, NEW q \in Runs, pc[q] # "idle"
    PROVE  pc'[q] # "idle"
<1>1. ASSUME NEW r \in Runs, NEW e \in Errors \cup {"ok"}, AttemptEnds(r, e)
      PROVE  pc'[q] # "idle"
  BY <1>1, AttemptEndsOK
<1>2. CASE UNCHANGED pc
  BY <1>2
<1>3. ASSUME NEW r \in Runs, Fetch(r) \/ Ingest(r) \/ Conclude(r) PROVE pc'[q] # "idle"
  BY <1>1, <1>3 DEF Fetch, Ingest, Conclude, GoTo, TypeOK
<1> QED BY <1>2, <1>3
        DEF Next, Step, Start, Backfill, EnterGlobal, EnterSource, Gate, Build, OpenRun,
            Finalize, Report, Except, Leave, Hang, Cancel, Crash, Publish, Tick, AllDone,
            GoTo, vars, TypeOK

LEMMA InitMarkInv == Init => MarkInv
BY DEF Init, MarkInv, UnderWay

LEMMA StepMarkInv == TypeOK /\ TypeOK' /\ MarkInv /\ [Next]_vars => MarkInv'
<1> SUFFICES ASSUME TypeOK, TypeOK', MarkInv, [Next]_vars PROVE MarkInv'
  OBVIOUS
<1>1. ASSUME NEW s \in Sources
      PROVE  /\ watermark[s] \in Nat /\ upstream[s] \in Nat /\ upstream'[s] \in Nat
             /\ watermark[s] <= upstream[s] /\ upstream[s] <= upstream'[s]
  BY StepRest DEF TypeOK, Versions, MarkInv
<1>2. ASSUME NEW s \in Sources PROVE watermark'[s] <= upstream'[s]
  <2>1. ASSUME NEW r \in Runs, src[r] = s, pc[r] = "finalize", watermark'[s] = mark[r]
        PROVE  watermark'[s] <= upstream'[s]
    <3>1. mark[r] <= upstream[s] /\ mark[r] \in Nat
      BY <2>1 DEF MarkInv, UnderWay, TypeOK, Versions
    <3> QED BY <1>1, <2>1, <3>1
  <2> QED BY <1>1, <2>1, StepWrites DEF Writes
<1>3. ASSUME NEW q \in Runs, UnderWay(q)' PROVE mark'[q] <= upstream'[src'[q]]
  <2>1. src'[q] = src[q] /\ src[q] \in Sources /\ Moves(q)
    BY StepMoves, StepRest, KeyType
  <2>2. CASE mark'[q] = watermark[src[q]]
    BY <1>1, <2>1, <2>2
  <2>3. CASE UnderWay(q) /\ mark'[q] \in {mark[q], upstream[src[q]]}
    <3>1. mark[q] <= upstream[src[q]] /\ mark[q] \in Nat
      BY <2>3 DEF MarkInv, TypeOK, Versions
    <3> QED BY <1>1, <2>1, <2>3, <3>1
  <2> QED BY <1>3, <2>1, <2>2, <2>3 DEF Moves
<1>4. ASSUME NEW q \in backfill' PROVE pc'[q] # "idle"
  <2>1. CASE q \in backfill
    <3>1. q \in Runs /\ pc[q] # "idle"
      BY <2>1 DEF MarkInv, TypeOK
    <3> QED BY <3>1, NeverIdleAgain
  <2> QED BY <2>1, StepRest
<1> QED BY <1>2, <1>3, <1>4 DEF MarkInv

-----------------------------------------------------------------------------
\* Which runs are fresh after a step.
LEMMA StepFresh ==
    ASSUME TypeOK, MarkInv, [Next]_vars, NEW q \in fresh'
    PROVE  /\ q \in Runs
           /\ \/ Opens(q)
              \/ Clears(q)
              \/ q \in fresh /\ watermark'[src[q]] = watermark[src[q]]
<1>0. fresh \subseteq Runs
  BY DEF TypeOK
<1>1. CASE UNCHANGED <<fresh, watermark>>
  BY <1>0, <1>1
<1>2. ASSUME NEW r \in Runs, Backfill(r)
      PROVE  q \in Runs /\ (Clears(q) \/ (q \in fresh /\ watermark'[src[q]] = watermark[src[q]]))
  <2>1. r \notin backfill /\ backfill' = backfill \cup {r} /\ fresh' = StillFresh \cup {r}
    BY <1>2 DEF Backfill, MarkInv
  <2> QED BY <1>0, <2>1 DEF StillFresh, Clears
<1>3. ASSUME NEW r \in Runs, OpenRun(r), ~UNCHANGED fresh
      PROVE  q \in Runs /\ (Opens(q) \/ (q \in fresh /\ watermark'[src[q]] = watermark[src[q]]))
  <2>1. /\ fresh' = fresh \cup {r} /\ pc[r] = "open" /\ pc'[r] = "fetch"
        /\ watermark' = watermark
    BY <1>3 DEF OpenRun, GoTo, TypeOK
  <2> QED BY <1>0, <2>1 DEF Opens
<1>4. ASSUME NEW r \in Runs, Finalize(r)
      PROVE  q \in Runs /\ q \in fresh /\ watermark'[src[q]] = watermark[src[q]]
  BY <1>0, <1>4 DEF Finalize, StillFresh
<1>5. ASSUME NEW r \in Runs, OpenRun(r), UNCHANGED fresh
      PROVE  q \in Runs /\ q \in fresh /\ watermark'[src[q]] = watermark[src[q]]
  BY <1>0, <1>5 DEF OpenRun
<1> QED BY <1>1, <1>2, <1>3, <1>4, <1>5
        DEF Next, Step, Start, EnterGlobal, EnterSource, Gate, Build, Fetch, Ingest,
            Conclude, Report, Except, Hang, Cancel, Crash, Publish, Tick, AllDone, vars, tables

LEMMA InitFreshInv == Init => FreshInv
BY DEF Init, FreshInv

LEMMA StepFreshInv ==
    TypeOK /\ TypeOK' /\ MarkInv /\ FreshInv /\ [Next]_vars => FreshInv'
<1> SUFFICES ASSUME TypeOK, TypeOK', MarkInv, FreshInv, [Next]_vars, NEW q \in fresh'
             PROVE  /\ q \in Runs
                    /\ UnderWay(q)' => watermark'[src'[q]] <= mark'[q]
                    /\ q \in backfill' /\ Waiting(q)' => watermark'[src'[q]] = 0
  BY DEF FreshInv
<1>1. /\ q \in Runs /\ src'[q] = src[q] /\ src[q] \in Sources /\ Moves(q)
      /\ q \in backfill' => q \in backfill \/ Clears(q)
      /\ Clears(q) => watermark'[src[q]] = 0 /\ pc'[q] = "global"
  BY StepFresh, StepMoves, StepRest, KeyType DEF Clears
<1>2. CASE Opens(q)
  <2>1. watermark'[src[q]] = mark'[q] /\ mark'[q] \in Nat /\ ~Waiting(q)'
    BY <1>1, <1>2 DEF Moves, Opens, Waiting, TypeOK, Versions
  <2> QED BY <1>1, <2>1
<1>3. CASE Clears(q)
  BY <1>1, <1>3 DEF UnderWay
<1>4. CASE /\ q \in fresh /\ ~Opens(q) /\ ~Clears(q)
           /\ watermark'[src[q]] = watermark[src[q]]
  <2>1. ASSUME UnderWay(q)' PROVE watermark'[src[q]] <= mark'[q]
    <3>1. UnderWay(q) /\ mark'[q] \in {mark[q], upstream[src[q]]}
      BY <1>1, <1>4, <2>1 DEF Moves
    <3>2. watermark[src[q]] <= mark[q] /\ watermark[src[q]] <= upstream[src[q]]
      BY <1>1, <1>4, <3>1 DEF FreshInv, MarkInv
    <3> QED BY <1>4, <3>1, <3>2
  <2>2. ASSUME q \in backfill', Waiting(q)' PROVE watermark'[src[q]] = 0
    <3>1. q \in backfill /\ Waiting(q)
      BY <1>1, <1>4, <2>2 DEF Moves, MarkInv
    <3> QED BY <1>4, <3>1 DEF FreshInv
  <2> QED BY <1>1, <2>1, <2>2
<1> QED BY <1>2, <1>3, <1>4, StepFresh

LEMMA StepGoesBack ==
    ASSUME TypeOK, MarkInv, FreshInv, [Next]_vars, NEW s \in Sources,
           watermark'[s] < watermark[s], backfill' = backfill
    PROVE  \E r \in Runs \ fresh : src[r] = s /\ pc[r] = "finalize" /\ pc'[r] = "report"
<1>1. watermark[s] \in Nat
  BY DEF TypeOK, Versions
<1>2. PICK r \in Runs : /\ src[r] = s /\ pc[r] = "finalize" /\ pc'[r] = "report"
                        /\ watermark'[s] = mark[r]
  BY <1>1, StepWrites DEF Writes, Clears
<1>3. ~(watermark[s] <= mark[r])
  BY <1>1, <1>2 DEF TypeOK, Versions
<1>4. r \notin fresh
  BY <1>2, <1>3 DEF FreshInv, UnderWay
<1> QED BY <1>2, <1>4

\* Any number of processes may overlap on a source (state.py, open_run and
\* finalize_run), yet a watermark goes back only at the hands of a run that
\* another writer has overtaken, or of a backfill.
THEOREM OnlyOvertakenGoBack == Spec => OnlyStaleRunsGoBack
<1>1. TypeOK /\ MarkInv /\ FreshInv /\ [Next]_vars =>
        [\A s \in Sources : watermark'[s] < watermark[s] =>
            \/ backfill' # backfill
            \/ \E r \in Runs \ fresh :
                  src[r] = s /\ pc[r] = "finalize" /\ pc'[r] = "report"]_vars
  BY StepGoesBack
<1> QED BY <1>1, InitTypeOK, StepTypeOK, InitCoverInv, StepCoverInv, InitMarkInv,
           StepMarkInv, InitFreshInv, StepFreshInv, PTL
        DEF Spec, OnlyStaleRunsGoBack

LEMMA StepStartsOver ==
    ASSUME TypeOK, FreshInv, [Next]_vars, NEW r \in backfill \cap fresh, Opens(r)
    PROVE  mark'[r] = 0
<1>1. r \in Runs /\ watermark[src[r]] = 0
  BY DEF FreshInv, Opens, Waiting
<1> QED BY <1>1, StepMoves DEF Moves

\* The run of a backfill (cli/commands/backfill.py) begins with the empty
\* watermark, in spite of the transactions and the waiting that lie between,
\* unless another run has written the watermark of its source.
THEOREM BackfillBeginsEmpty == Spec => BackfillStartsOver
<1>1. TypeOK /\ FreshInv /\ [Next]_vars =>
        [\A r \in backfill \cap fresh : Opens(r) => mark'[r] = 0]_vars
  BY StepStartsOver
<1> QED BY <1>1, InitTypeOK, StepTypeOK, InitCoverInv, StepCoverInv, InitMarkInv,
           StepMarkInv, InitFreshInv, StepFreshInv, PTL
        DEF Spec, BackfillStartsOver
=============================================================================
