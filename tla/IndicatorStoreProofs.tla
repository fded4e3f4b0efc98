------------------------ MODULE IndicatorStoreProofs ------------------------
(***************************************************************************)
(* The tables stay in step for any writers, indicators, batches and months.*)
(* What a transaction has locked so far names every indicator once, so the *)
(* batch it commits has at most one sighting per row.                      *)
(***************************************************************************)
EXTENDS IndicatorStore, PartitionsProofs

\* How far the UPSERT of a writer has come, and where it stands then.
LocksInv ==
    \A w \in Writers :
        /\ locked[w] <= Len(batch[w])
        /\ pc[w] \in {"collect", "queued"} => locked[w] = 0
        /\ pc[w] \in {"insert", "commit"} => locked[w] = Len(batch[w])

\* The positions an UPSERT has been through are of different indicators.
DistinctInv ==
    \A w \in Writers : \A j, k \in 1..locked[w] :
        batch[w][j].id = batch[w][k].id => j = k

\* A sighting is not built after it is observed, nor in the future.
SeenInv ==
    \A w \in Writers : \A k \in 1..Len(batch[w]) :
        /\ Index(batch[w][k].seen) <= Index(batch[w][k].at)
        /\ Index(batch[w][k].seen) <= Index(now)

StoreInv ==
    /\ TypeOK
    /\ PartInv
    /\ SeenInv
    /\ LocksInv
    /\ DistinctInv
    /\ StoredIffObserved
    /\ RowSumsUp

\* A stored row is not NoRow.
LEMMA RowIsNotNoRow == NoRow \notin Row
BY StoreAssumption DEF NoRow, Row

\* What the UPSERT leaves is a row.
LEMMA UpsertedIsRow ==
    ASSUME NEW row \in Row \cup {NoRow}, NEW s \in Sighting
    PROVE  Upserted(row, s) \in Row
<1>1. s.confidence \in Confidences /\ s.seen \in Month
  BY DEF Sighting
<1>2. CASE row = NoRow
  BY <1>1, <1>2 DEF Upserted, Row
<1>3. CASE row # NoRow
  <2>1. /\ row.confidence \in Confidences /\ row.first_seen \in Month /\ row.last_seen \in Month
        /\ row \in Row
    BY <1>3 DEF Row
  <2> DEFINE c == IF s.confidence > row.confidence THEN s.confidence ELSE row.confidence
             l == IF Before(row.last_seen, s.seen) THEN s.seen ELSE row.last_seen
  <2>2. Upserted(row, s) = [row EXCEPT !.confidence = c, !.last_seen = l]
    BY <1>3 DEF Upserted
  <2>3. c \in Confidences /\ l \in Month
    BY <1>1, <2>1
  <2> HIDE DEF c, l
  <2> QED  BY <2>1, <2>2, <2>3 DEF Row
<1> QED  BY <1>2, <1>3

\* The merge of a sighting into a row: the greater confidence, the later time.
LEMMA UpsertedSumsUp ==
    ASSUME NEW row \in Row, NEW s \in Sighting
    PROVE  LET r == Upserted(row, s)
           IN  /\ r.confidence \in {row.confidence, s.confidence}
               /\ r.confidence >= row.confidence /\ r.confidence >= s.confidence
               /\ r.last_seen \in {row.last_seen, s.seen}
               /\ Index(r.last_seen) >= Index(row.last_seen)
               /\ Index(r.last_seen) >= Index(s.seen)
               /\ r.first_seen = row.first_seen
<1>1. s.confidence \in Nat /\ s.seen \in Month
  BY StoreAssumption DEF Sighting
<1>2. /\ row.confidence \in Nat /\ row.first_seen \in Month /\ row.last_seen \in Month
      /\ row # NoRow
  BY StoreAssumption, RowIsNotNoRow DEF Row
<1> DEFINE c == IF s.confidence > row.confidence THEN s.confidence ELSE row.confidence
           l == IF Before(row.last_seen, s.seen) THEN s.seen ELSE row.last_seen
<1>3. Upserted(row, s) = [row EXCEPT !.confidence = c, !.last_seen = l]
  BY <1>2 DEF Upserted
<1>4. /\ Upserted(row, s).confidence = c
      /\ Upserted(row, s).last_seen = l
      /\ Upserted(row, s).first_seen = row.first_seen
  <2> HIDE DEF c, l
  <2> QED  BY <1>3 DEF Row
<1>5. c \in {row.confidence, s.confidence} /\ c >= row.confidence /\ c >= s.confidence
  BY <1>1, <1>2
<1>6. l \in {row.last_seen, s.seen} /\ Index(l) >= Index(row.last_seen) /\ Index(l) >= Index(s.seen)
  BY <1>1, <1>2, BeforeIndex
<1> QED  BY <1>4, <1>5, <1>6

-----------------------------------------------------------------------------
(* Initial states *)

\* The partitions that exist have their types.
LEMMA PartitionsTyped ==
    ASSUME PartInv
    PROVE  PartitionsTypeOK
BY FollowingIndex DEF PartInv, WellFormed, OfMonth, PartitionsTypeOK

\* Empty tables, and writers that have collected nothing, satisfy the invariant.
LEMMA StoreInitInv == StoreInit => StoreInv
<1> SUFFICES ASSUME StoreInit PROVE StoreInv
  OBVIOUS
<1>1. PartInv
  BY PartitionsInitInv DEF StoreInit
<1>2. TypeOK
  BY <1>1, PartitionsTyped DEF StoreInit, TypeOK
<1> QED  BY <1>1, <1>2 DEF StoreInit, StoreInv, SeenInv, LocksInv, DistinctInv, StoredIffObserved, RowSumsUp

-----------------------------------------------------------------------------
(* Steps *)

\* The tables and the partitions agree as before when no step touches them.
LEMMA TablesUnchanged ==
    ASSUME StoreInv, UNCHANGED <<now, partitions, missed, indicators, observations>>
    PROVE  PartInv' /\ PartitionsTypeOK' /\ StoredIffObserved' /\ RowSumsUp'
<1>1. PartInv'
  BY UnchangedInv DEF StoreInv, partVars
<1>2. PartitionsTypeOK'
  BY DEF StoreInv, TypeOK, PartitionsTypeOK
<1>3. StoredIffObserved'
  BY DEF StoreInv, StoredIffObserved
<1>4. RowSumsUp'
  BY DEF StoreInv, RowSumsUp
<1> QED  BY <1>1, <1>2, <1>3, <1>4

\* Months are counted by natural numbers.
LEMMA IndexNow == ASSUME StoreInv PROVE Index(now) \in Nat
BY BeforeIndex DEF StoreInv, TypeOK, PartitionsTypeOK

\* The sightings of a new batch are built now.
LEMMA NormalizeInv ==
    ASSUME StoreInv, NEW w \in Writers, Normalize(w)
    PROVE  StoreInv'
<1> USE StoreAssumption
<1>1. PICK n \in 1..BatchSize : \E ids \in [1..n -> Ids], c \in Confidences :
        batch' = [batch EXCEPT ![w] = [k \in 1..n |->
                    [id |-> ids[k], confidence |-> c, seen |-> now, at |-> now]]]
  BY DEF Normalize
<1>2. PICK ids \in [1..n -> Ids], c \in Confidences :
        batch' = [batch EXCEPT ![w] = [k \in 1..n |->
                    [id |-> ids[k], confidence |-> c, seen |-> now, at |-> now]]]
  BY <1>1
<1> DEFINE b == [k \in 1..n |-> [id |-> ids[k], confidence |-> c, seen |-> now, at |-> now]]
<1>3. /\ b \in Seq(Sighting) /\ Len(b) \in Nat
      /\ \A k \in 1..Len(b) : b[k].seen = now /\ b[k].at = now
  <2>1. \A k \in 1..n :
          [id |-> ids[k], confidence |-> c, seen |-> now, at |-> now] \in Sighting
    BY DEF Sighting, StoreInv, PartInv
  <2>2. n \in Nat
    OBVIOUS
  <2> QED  BY <2>1, <2>2
<1>4. batch' = [batch EXCEPT ![w] = b]
  BY <1>2
<1> HIDE DEF b
<1>5. TypeOK'
  BY <1>3, <1>4, TablesUnchanged DEF Normalize, StoreInv, TypeOK
<1>6. LocksInv' /\ DistinctInv'
  BY <1>3, <1>4 DEF Normalize, StoreInv, TypeOK, LocksInv, DistinctInv
<1>7. SeenInv'
  <2>1. Index(now) <= Index(now) /\ now' = now
    BY IndexNow DEF Normalize
  <2> QED  BY <1>3, <1>4, <2>1 DEF StoreInv, TypeOK, SeenInv
<1> QED  BY <1>5, <1>6, <1>7, TablesUnchanged DEF Normalize, StoreInv

\* A flush stamps the observations and opens a transaction that has locked
\* nothing yet.
LEMMA FlushInv ==
    ASSUME StoreInv, NEW w \in Writers, Flush(w)
    PROVE  StoreInv'
<1> DEFINE b == [k \in 1..Len(batch[w]) |-> [batch[w][k] EXCEPT !.at = now]]
<1>1. batch[w] \in Seq(Sighting) /\ Len(batch[w]) \in Nat /\ now \in Month
  BY DEF StoreInv, TypeOK, PartitionsTypeOK
<1>2. \A k \in 1..Len(batch[w]) :
        /\ [batch[w][k] EXCEPT !.at = now] \in Sighting
        /\ [batch[w][k] EXCEPT !.at = now].seen = batch[w][k].seen
        /\ [batch[w][k] EXCEPT !.at = now].at = now
  <2> SUFFICES ASSUME NEW k \in 1..Len(batch[w])
               PROVE  /\ [batch[w][k] EXCEPT !.at = now] \in Sighting
                      /\ [batch[w][k] EXCEPT !.at = now].seen = batch[w][k].seen
                      /\ [batch[w][k] EXCEPT !.at = now].at = now
    OBVIOUS
  <2>1. batch[w][k] \in Sighting
    BY <1>1
  <2> QED  BY <1>1, <2>1 DEF Sighting
<1>3. /\ b \in Seq(Sighting) /\ Len(b) = Len(batch[w])
      /\ \A k \in 1..Len(b) : b[k].seen = batch[w][k].seen /\ b[k].at = now
  BY <1>1, <1>2
<1>4. batch' = [batch EXCEPT ![w] = b] /\ pc[w] = "queued"
  BY DEF Flush
<1> HIDE DEF b
<1>5. TypeOK'
  BY <1>3, <1>4, TablesUnchanged DEF Flush, StoreInv, TypeOK
<1>6. LocksInv' /\ DistinctInv'
  BY <1>1, <1>3, <1>4 DEF Flush, StoreInv, TypeOK, LocksInv, DistinctInv
<1>7. SeenInv'
  <2>1. now' = now
    BY DEF Flush
  <2> QED  BY <1>3, <1>4, <2>1 DEF StoreInv, TypeOK, SeenInv
<1> QED  BY <1>5, <1>6, <1>7, TablesUnchanged DEF Flush, StoreInv

\* A rollback drops the batch and its locks.
LEMMA RollbackInv ==
    ASSUME StoreInv, NEW w \in Writers, Rollback(w)
    PROVE  StoreInv'
<1>1. TypeOK'
  BY TablesUnchanged DEF Rollback, EndTransaction, StoreInv, TypeOK
<1>2. LocksInv' /\ DistinctInv' /\ SeenInv'
  BY DEF Rollback, EndTransaction, StoreInv, TypeOK, LocksInv, DistinctInv, SeenInv
<1> QED  BY <1>1, <1>2, TablesUnchanged DEF Rollback, StoreInv

\* An UPSERT locks one more row, which it has not touched before.
LEMMA UpsertRowInv ==
    ASSUME StoreInv, NEW w \in Writers, UpsertRow(w)
    PROVE  StoreInv'
<1>1. CASE TouchedTwice(w) \/ Duplicate(w)
  BY <1>1, RollbackInv DEF UpsertRow
<1>2. CASE ~(TouchedTwice(w) \/ Duplicate(w))
  <2>1. /\ pc[w] = "upsert" /\ locked[w] < Len(batch[w])
        /\ locked' = [locked EXCEPT ![w] = @ + 1]
        /\ pc' = [pc EXCEPT ![w] = IF locked'[w] = Len(batch[w]) THEN "insert" ELSE @]
        /\ batch' = batch /\ flushed' = flushed
        /\ UNCHANGED <<now, partitions, missed, indicators, observations>>
    BY <1>2 DEF UpsertRow
  <2>2. TypeOK'
    BY <2>1, TablesUnchanged DEF StoreInv, TypeOK
  <2>3. LocksInv'
    BY <2>1 DEF StoreInv, TypeOK, LocksInv
  <2>4. DistinctInv'
    <3> SUFFICES ASSUME NEW v \in Writers, NEW j \in 1..locked'[v], NEW k \in 1..locked'[v],
                        batch[v][j].id = batch[v][k].id
                 PROVE  j = k
      BY <2>1 DEF DistinctInv
    <3>1. CASE v # w
      BY <3>1, <2>1 DEF StoreInv, TypeOK, DistinctInv
    <3>2. CASE v = w
      <4>1. locked[w] \in Nat /\ locked'[w] = locked[w] + 1
        BY <2>1 DEF StoreInv, TypeOK
      <4>2. \A m \in 1..locked[w] : batch[w][m].id # batch[w][locked[w] + 1].id
        BY <1>2 DEF TouchedTwice, Locks, NextId
      <4> QED  BY <3>2, <4>1, <4>2 DEF StoreInv, DistinctInv
    <3> QED  BY <3>1, <3>2
  <2>5. SeenInv'
    BY <2>1 DEF StoreInv, SeenInv
  <2> QED  BY <2>1, <2>2, <2>3, <2>4, <2>5, TablesUnchanged DEF StoreInv
<1> QED  BY <1>1, <1>2

\* The INSERT changes no committed row.
LEMMA InsertObservationsInv ==
    ASSUME StoreInv, NEW w \in Writers, InsertObservations(w)
    PROVE  StoreInv'
<1>1. CASE Rollback(w)
  BY <1>1, RollbackInv
<1>2. CASE /\ pc[w] = "insert" /\ pc' = [pc EXCEPT ![w] = "commit"]
           /\ UNCHANGED <<now, partitions, missed, batch, locked, indicators,
                          observations, flushed>>
  <2>1. TypeOK'
    BY <1>2, TablesUnchanged DEF StoreInv, TypeOK
  <2>2. LocksInv' /\ DistinctInv' /\ SeenInv'
    BY <1>2 DEF StoreInv, TypeOK, LocksInv, DistinctInv, SeenInv
  <2> QED  BY <1>2, <2>1, <2>2, TablesUnchanged DEF StoreInv
<1> QED  BY <1>1, <1>2 DEF InsertObservations

\* A commit merges one sighting into each row it touches, and stores the same
\* sightings as observations.
LEMMA CommitInv ==
    ASSUME StoreInv, NEW w \in Writers, Commit(w)
    PROVE  StoreInv'
<1> USE StoreAssumption
<1> DEFINE new == {batch[w][k] : k \in 1..Len(batch[w])}
           Chosen(i) == batch[w][CHOOSE k \in Positions(w, i) : TRUE]
<1>1. /\ pc[w] = "commit"
      /\ indicators' = UpsertedTable(w)
      /\ observations' = observations \cup new
      /\ EndTransaction(w)
      /\ UNCHANGED <<now, partitions, missed, flushed>>
  BY DEF Commit
<1>2. /\ batch[w] \in Seq(Sighting) /\ Len(batch[w]) \in Nat
      /\ \A k \in 1..Len(batch[w]) : batch[w][k] \in Sighting
  BY DEF StoreInv, TypeOK
<1>3. \A j, k \in 1..Len(batch[w]) : batch[w][j].id = batch[w][k].id => j = k
  BY <1>1 DEF StoreInv, LocksInv, DistinctInv
<1>4. ASSUME NEW i \in Ids, Positions(w, i) = {}
      PROVE  indicators'[i] = indicators[i] /\ \A o \in new : o.id # i
  BY <1>1, <1>4 DEF UpsertedTable, Positions
<1>5. ASSUME NEW i \in Ids, Positions(w, i) # {}
      PROVE  /\ indicators'[i] = Upserted(indicators[i], Chosen(i))
             /\ Chosen(i) \in new /\ Chosen(i) \in Sighting /\ Chosen(i).id = i
             /\ \A o \in new : o.id = i => o = Chosen(i)
  <2>1. (CHOOSE k \in Positions(w, i) : TRUE) \in Positions(w, i)
    BY <1>5
  <2>2. indicators'[i] = Upserted(indicators[i], Chosen(i))
    BY <1>1, <1>5 DEF UpsertedTable
  <2>3. PICK c \in 1..Len(batch[w]) : Chosen(i) = batch[w][c] /\ batch[w][c].id = i
    BY <2>1 DEF Positions
  <2> HIDE DEF Chosen
  <2> QED  BY <1>2, <1>3, <2>2, <2>3
<1> HIDE DEF Chosen, new
<1>6. indicators \in [Ids -> Row \cup {NoRow}] /\ observations \subseteq Sighting
  BY DEF StoreInv, TypeOK
<1>7. \A i \in Ids : indicators'[i] \in Row \cup {NoRow}
  BY <1>4, <1>5, <1>6, UpsertedIsRow
<1>8. TypeOK'
  <2>1. indicators' \in [Ids -> Row \cup {NoRow}]
    BY <1>1, <1>7 DEF UpsertedTable
  <2>2. observations' \subseteq Sighting
    BY <1>1, <1>2, <1>6 DEF new
  <2>3. PartitionsTypeOK'
    BY <1>1 DEF StoreInv, TypeOK, PartitionsTypeOK
  <2> QED  BY <1>1, <2>1, <2>2, <2>3 DEF StoreInv, TypeOK, EndTransaction
<1>9. LocksInv' /\ DistinctInv' /\ SeenInv'
  BY <1>1 DEF EndTransaction, StoreInv, TypeOK, LocksInv, DistinctInv, SeenInv
<1>10. PartInv'
  BY <1>1, UnchangedInv DEF StoreInv, partVars
<1>11. StoredIffObserved'
  <2> SUFFICES ASSUME NEW i \in Ids
               PROVE  indicators'[i] # NoRow <=> \E o \in observations' : o.id = i
    BY DEF StoredIffObserved
  <2>1. CASE Positions(w, i) = {}
    BY <2>1, <1>1, <1>4 DEF StoreInv, StoredIffObserved
  <2>2. CASE Positions(w, i) # {}
    BY <2>2, <1>1, <1>5, <1>6, UpsertedIsRow, RowIsNotNoRow
  <2> QED  BY <2>1, <2>2
<1>13. ASSUME NEW i \in Ids, Positions(w, i) # {}
       PROVE  ~Before(Chosen(i).at, Chosen(i).seen)
  <2>1. PICK k \in 1..Len(batch[w]) : Chosen(i) = batch[w][k]
    BY <1>5, <1>13 DEF new
  <2>2. /\ batch[w][k].at \in Month /\ batch[w][k].seen \in Month
        /\ Index(batch[w][k].seen) <= Index(batch[w][k].at)
    BY <1>2 DEF StoreInv, SeenInv, Sighting
  <2> QED  BY <2>1, <2>2, BeforeIndex
<1>12. RowSumsUp'
  <2> DEFINE Sums(row, obs, i) ==
               /\ \E o \in obs : o.id = i /\ o.confidence = row.confidence
               /\ \E o \in obs : /\ o.id = i /\ o.seen = row.last_seen
                                 /\ ~Before(o.at, row.last_seen)
               /\ \E o \in obs : o.id = i /\ o.seen = row.first_seen
               /\ \A o \in obs : o.id = i =>
                    o.confidence <= row.confidence /\ ~Before(row.last_seen, o.seen)
  <2>1. \A i \in Ids : indicators[i] # NoRow => Sums(indicators[i], observations, i)
    BY DEF StoreInv, RowSumsUp
  <2>2. SUFFICES ASSUME NEW i \in Ids, indicators'[i] # NoRow
                 PROVE  Sums(indicators'[i], observations', i)
    BY DEF RowSumsUp
  <2>3. CASE Positions(w, i) = {}
    <3>1. indicators'[i] = indicators[i] /\ \A o \in observations' : o.id = i <=> (o \in observations /\ o.id = i)
      BY <2>3, <1>1, <1>4
    <3> QED  BY <3>1, <2>1, <2>2, <1>1
  <2>4. CASE Positions(w, i) # {} /\ indicators[i] = NoRow
    <3> DEFINE s == Chosen(i)
               row == indicators'[i]
    <3>1. /\ s \in Sighting /\ s \in observations' /\ s.id = i
          /\ \A o \in observations' : o.id = i => o = s
      BY <2>4, <1>1, <1>5 DEF StoreInv, StoredIffObserved
    <3>2. row = Upserted(NoRow, s)
      BY <2>4, <1>5
    <3>3. s.confidence \in Nat /\ s.seen \in Month /\ ~Before(s.at, s.seen)
      BY <2>4, <3>1, <1>13 DEF Sighting
    <3> HIDE DEF s, row
    <3>4. row.confidence = s.confidence /\ row.last_seen = s.seen /\ row.first_seen = s.seen
      BY <3>2 DEF Upserted
    <3>5. s.confidence <= s.confidence /\ ~Before(s.seen, s.seen)
      <4>1. Index(s.seen) \in Nat /\ (Before(s.seen, s.seen) <=> Index(s.seen) < Index(s.seen))
        BY <3>3, BeforeIndex
      <4> QED  BY <3>3, <4>1
    <3>6. Sums(row, observations', i)
      BY <3>1, <3>3, <3>4, <3>5
    <3> QED  BY <3>6 DEF row
  <2>5. CASE Positions(w, i) # {} /\ indicators[i] # NoRow
    <3> DEFINE s == Chosen(i)
               old == indicators[i]
               row == indicators'[i]
    <3>1. /\ s \in Sighting /\ s \in observations' /\ s.id = i
          /\ \A o \in observations' : o.id = i => o = s \/ o \in observations
      BY <2>5, <1>1, <1>5
    <3>8. ~Before(s.at, s.seen)
      BY <2>5, <1>13
    <3>2. old \in Row /\ row = Upserted(old, s) /\ row \in Row
      BY <2>5, <1>5, <1>6, UpsertedIsRow, <3>1
    <3>3. Sums(old, observations, i)
      BY <2>5, <2>1
    <3> HIDE DEF s, old, row
    <3>4. /\ row.confidence \in {old.confidence, s.confidence}
          /\ row.confidence >= old.confidence /\ row.confidence >= s.confidence
          /\ row.last_seen \in {old.last_seen, s.seen}
          /\ Index(row.last_seen) >= Index(old.last_seen)
          /\ Index(row.last_seen) >= Index(s.seen)
          /\ row.first_seen = old.first_seen
      BY <3>1, <3>2, UpsertedSumsUp
    <3>5. /\ \E o \in observations' : o.id = i /\ o.confidence = row.confidence
          /\ \E o \in observations' : /\ o.id = i /\ o.seen = row.last_seen
                                      /\ ~Before(o.at, row.last_seen)
          /\ \E o \in observations' : o.id = i /\ o.seen = row.first_seen
      BY <1>1, <3>1, <3>3, <3>4, <3>8
    <3>6. ASSUME NEW o \in observations', o.id = i
          PROVE  o.confidence <= row.confidence /\ ~Before(row.last_seen, o.seen)
      <4>1. /\ o \in Sighting /\ o.confidence \in Nat /\ o.seen \in Month
            /\ s.confidence \in Nat /\ s.seen \in Month
        BY <3>1, <3>6, <1>6 DEF Sighting
      <4>2. /\ old.confidence \in Nat /\ old.last_seen \in Month
            /\ row.confidence \in Nat /\ row.last_seen \in Month
        BY <3>2 DEF Row
      <4>3. CASE o = s
        BY <4>1, <4>2, <4>3, <3>4, BeforeIndex
      <4>4. CASE o \in observations
        <5>1. o.confidence <= old.confidence /\ ~Before(old.last_seen, o.seen)
          BY <4>4, <3>3, <3>6
        <5> QED  BY <5>1, <4>1, <4>2, <3>4, BeforeIndex
      <4> QED  BY <3>1, <3>6, <4>3, <4>4
    <3>7. Sums(row, observations', i)
      BY <3>5, <3>6
    <3> QED  BY <3>7 DEF row
  <2> QED  BY <2>3, <2>4, <2>5
<1> QED  BY <1>8, <1>9, <1>10, <1>11, <1>12 DEF StoreInv

\* Maintenance and the calendar leave the writers and their tables alone.
LEMMA PartitionStepInv ==
    ASSUME StoreInv, EnsurePartitions \/ MonthPasses, UNCHANGED storeVars
    PROVE  StoreInv'
<1>1. PartInv'
  BY EnsureInv, MonthPassesInv DEF StoreInv
<1>2. PartitionsTypeOK'
  BY <1>1, FollowingIndex DEF PartInv, WellFormed, OfMonth, PartitionsTypeOK
<1>3. TypeOK' /\ LocksInv' /\ DistinctInv'
  BY <1>2 DEF StoreInv, storeVars, TypeOK, LocksInv, DistinctInv
<1>5. SeenInv'
  <2>1. Index(now) \in Nat /\ Index(now') \in Nat /\ Index(now) <= Index(now')
    BY IndexNow, FollowingIndex DEF StoreInv, TypeOK, PartitionsTypeOK, EnsurePartitions, MonthPasses
  <2>2. \A w \in Writers : \A k \in 1..Len(batch[w]) : Index(batch[w][k].seen) \in Nat
    <3> SUFFICES ASSUME NEW w \in Writers, NEW k \in 1..Len(batch[w])
                 PROVE  Index(batch[w][k].seen) \in Nat
      OBVIOUS
    <3>1. batch[w][k] \in Sighting
      BY DEF StoreInv, TypeOK
    <3>2. batch[w][k].seen \in Month
      BY <3>1 DEF Sighting
    <3> QED  BY <3>2, BeforeIndex
  <2> QED  BY <2>1, <2>2 DEF StoreInv, storeVars, SeenInv
<1>4. StoredIffObserved' /\ RowSumsUp'
  BY DEF StoreInv, storeVars, StoredIffObserved, RowSumsUp
<1> QED  BY <1>1, <1>3, <1>4, <1>5 DEF StoreInv

\* Every step of the store preserves the invariant.
LEMMA StoreStepInv == StoreInv /\ [StoreNext]_vars => StoreInv'
<1> SUFFICES ASSUME StoreInv, [StoreNext]_vars PROVE StoreInv'
  OBVIOUS
<1>1. ASSUME NEW w \in Writers, Writer(w)
      PROVE  StoreInv'
  <2>6. CASE Normalize(w)
    BY <2>6, NormalizeInv
  <2>1. CASE Flush(w)
    BY <2>1, FlushInv
  <2>2. CASE UpsertRow(w)
    BY <2>2, UpsertRowInv
  <2>3. CASE InsertObservations(w)
    BY <2>3, InsertObservationsInv
  <2>4. CASE Commit(w)
    BY <2>4, CommitInv
  <2>5. CASE Fail(w) \/ DeadlockVictim(w)
    BY <2>5, RollbackInv DEF Fail, DeadlockVictim
  <2> QED  BY <1>1, <2>1, <2>2, <2>3, <2>4, <2>5, <2>6 DEF Writer
<1>2. CASE (EnsurePartitions \/ MonthPasses) /\ UNCHANGED storeVars
  BY <1>2, PartitionStepInv
<1>3. CASE UNCHANGED vars
  <2>1. TypeOK' /\ LocksInv' /\ DistinctInv' /\ SeenInv'
    BY <1>3 DEF StoreInv, vars, TypeOK, PartitionsTypeOK, LocksInv, DistinctInv, SeenInv
  <2> QED  BY <1>3, <2>1, TablesUnchanged DEF StoreInv, vars
<1> QED  BY <1>1, <1>2, <1>3 DEF StoreNext

\* The invariant holds in every reachable state of the store.
LEMMA StoreInvariant == StoreSpec => []StoreInv
BY StoreInitInv, StoreStepInv, PTL DEF StoreSpec

-----------------------------------------------------------------------------
(* Theorems *)

\* The two tables agree for any writers, batches, partitions and failures:
\* an indicator is stored if and only if it has been observed.
THEOREM TablesAgree == StoreSpec => []StoredIffObserved
<1>1. StoreInv => StoredIffObserved
  BY DEF StoreInv
<1> QED  BY <1>1, StoreInvariant, PTL

\* The merge of upsert_batch loses nothing, whatever the order in which the
\* batches are built, observed and committed: a row has the highest confidence
\* of its sightings and the latest time at which one was built, and that one
\* was observed no earlier.
THEOREM MergeSumsUp == StoreSpec => []RowSumsUp
<1>1. StoreInv => RowSumsUp
  BY DEF StoreInv
<1> QED  BY <1>1, StoreInvariant, PTL

\* For any --months, any first month and any length of the calendar, a month
\* that maintenance has seen to in time has its partition.
THEOREM CurrentMonthCovered == StoreSpec => []MaintainedIsCovered
<1>1. StoreInv => MaintainedIsCovered
  BY CoveredFromInv DEF StoreInv
<1> QED  BY <1>1, StoreInvariant, PTL

\* For any history of maintenance, Postgres refuses none of the partitions
\* that ensure_next_n_months creates.
THEOREM PartitionsNeverRefused == StoreSpec => []MaintenanceSucceeds
<1>1. StoreInv => MaintenanceSucceeds
  BY SucceedsFromInv DEF StoreInv
<1> QED  BY <1>1, StoreInvariant, PTL

\* Every variable of the store keeps its type.
THEOREM StoreTypeCorrect == StoreSpec => []TypeOK
<1>1. StoreInv => TypeOK
  BY DEF StoreInv
<1> QED  BY <1>1, StoreInvariant, PTL
=============================================================================
