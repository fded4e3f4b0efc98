-------------------------- MODULE PartitionsProofs --------------------------
(***************************************************************************)
(* The calendar of Partitions is counted with one number per month, and    *)
(* the partitions are shown to be those of whole months, with no month     *)
(* missing that maintenance has seen to.                                   *)
(***************************************************************************)
EXTENDS Partitions, TLAPS

Index(d) == 12 * d.year + d.month

\* A partition is the month it is named after.
OfMonth(d) == [name |-> d, start |-> d, end |-> Following(d)]

WellFormed(P) == \A p \in P : p.name \in Month /\ p = OfMonth(p.name)

\* The k-th month from now on has a partition, as long as maintenance has not
\* been missed too often for it.
Ahead ==
    \A k \in Nat : missed + k < Months /\ missed + k < 3 =>
        \E p \in partitions : Index(p.name) = Index(now) + k

PartInv ==
    /\ now \in Month
    /\ missed \in Nat
    /\ WellFormed(partitions)
    /\ Ahead

\* Following, as the calendar and as _partition_bounds compute it, is the next
\* number.
LEMMA FollowingIndex ==
    ASSUME NEW d \in Month
    PROVE  /\ Following(d) \in Month
           /\ Index(Following(d)) = Index(d) + 1
           /\ PartitionBounds(d) = OfMonth(d)
<1>1. CASE d.month = 12
  BY <1>1 DEF Month, Following, Index, PartitionBounds, OfMonth
<1>2. CASE d.month # 12
  <2>1. Following(d) = [year |-> d.year, month |-> d.month + 1]
    BY <1>2 DEF Following
  <2>2. d.month + 1 \in 1..12 /\ d.year \in Nat
    BY <1>2 DEF Month
  <2>3. PartitionBounds(d) = OfMonth(d)
    BY <1>2 DEF PartitionBounds, OfMonth, Following
  <2> QED  BY <2>1, <2>2, <2>3 DEF Month, Index
<1> QED  BY <1>1, <1>2

\* Before is the order of the numbers, and a month has a number of its own.
LEMMA BeforeIndex ==
    ASSUME NEW d \in Month, NEW e \in Month
    PROVE  /\ Before(d, e) <=> Index(d) < Index(e)
           /\ Index(d) = Index(e) => d = e
           /\ Index(d) \in Nat
<1>1. /\ d.year \in Nat /\ d.month \in 1..12 /\ e.year \in Nat /\ e.month \in 1..12
      /\ d = [year |-> d.year, month |-> d.month]
      /\ e = [year |-> e.year, month |-> e.month]
  BY DEF Month
<1>2. Index(d) = Index(e) => d.year = e.year /\ d.month = e.month
  BY <1>1 DEF Index
<1> QED  BY <1>1, <1>2 DEF Before, Index

\* The arithmetic of ensure_next_n_months counts i months on from now, across
\* the ends of years.
LEMMA MonthAheadIndex ==
    ASSUME now \in Month, NEW i \in Nat
    PROVE  MonthAhead(i) \in Month /\ Index(MonthAhead(i)) = Index(now) + i
<1> DEFINE x == now.month - 1 + i
<1>1. x \in Nat /\ now.year \in Nat
  BY DEF Month
<1>2. x = 12 * (x \div 12) + (x % 12) /\ (x \div 12) \in Nat /\ (x % 12) \in 0..11
  <2> HIDE DEF x
  <2> QED  BY <1>1
<1> DEFINE y == x \div 12
           m == x % 12
<1>3. MonthAhead(i) = [year |-> now.year + y, month |-> m + 1]
  BY DEF MonthAhead
<1>4. x = 12 * y + m /\ y \in Nat /\ m \in 0..11
  BY <1>2
<1> HIDE DEF y, m
<1>5. MonthAhead(i) \in Month /\ Index(MonthAhead(i)) = 12 * (now.year + y) + m + 1
  BY <1>1, <1>3, <1>4 DEF Month, Index
<1> QED  BY <1>1, <1>4, <1>5 DEF Index, Month

\* Partitions of whole months overlap only if they are the same.
LEMMA NoOverlapOfMonths ==
    ASSUME NEW P, WellFormed(P), NEW p \in P, NEW q \in P, Overlap(p, q)
    PROVE  p = q
<1>1. p.name \in Month /\ q.name \in Month /\ p = OfMonth(p.name) /\ q = OfMonth(q.name)
  BY DEF WellFormed
<1>2. Before(p.name, Following(q.name)) /\ Before(q.name, Following(p.name))
  BY <1>1 DEF Overlap, OfMonth
<1>3. Index(p.name) = Index(q.name)
  BY <1>1, <1>2, FollowingIndex, BeforeIndex
<1> QED  BY <1>1, <1>3, BeforeIndex

\* The months that maintenance creates are whole months with new names.
LEMMA MissingWellFormed ==
    ASSUME PartInv
    PROVE  /\ WellFormed(Missing)
           /\ \A k \in 0..(Months - 1) :
                \E p \in partitions \cup Missing : p.name = MonthAhead(k)
<1> USE PartitionsAssumption
<1>1. \A i \in 0..(Months - 1) :
        MonthAhead(i) \in Month /\ PartitionBounds(MonthAhead(i)) = OfMonth(MonthAhead(i))
  BY MonthAheadIndex, FollowingIndex DEF PartInv
<1>2. WellFormed(Missing)
  BY <1>1 DEF WellFormed, Missing, OfMonth
<1>3. ASSUME NEW k \in 0..(Months - 1)
      PROVE  \E p \in partitions \cup Missing : p.name = MonthAhead(k)
  BY <1>1 DEF Missing, OfMonth
<1> QED  BY <1>2, <1>3

\* PartInv is strong enough: Postgres refuses none of the missing partitions.
LEMMA SucceedsFromInv ==
    ASSUME PartInv
    PROVE  MaintenanceSucceeds
<1>1. WellFormed(partitions \cup Missing)
  BY MissingWellFormed DEF PartInv, WellFormed
<1> QED  BY <1>1, NoOverlapOfMonths DEF MaintenanceSucceeds, Refused

\* PartInv is strong enough: the current month has its partition.
LEMMA CoveredFromInv ==
    ASSUME PartInv
    PROVE  MaintainedIsCovered
<1> SUFFICES ASSUME missed < Months, missed < 3
             PROVE  Covered(now)
  BY DEF MaintainedIsCovered
<1>0. now \in Month /\ missed \in Nat
  BY DEF PartInv
<1>1. missed + 0 < Months /\ missed + 0 < 3
  BY <1>0, PartitionsAssumption
<1>2. PICK p \in partitions : Index(p.name) = Index(now) + 0
  BY <1>1 DEF PartInv, Ahead
<1>3. p.name \in Month /\ p = OfMonth(p.name)
  BY DEF PartInv, WellFormed
<1>4. p.name = now
  BY <1>0, <1>2, <1>3, BeforeIndex
<1>5. Following(now) \in Month /\ Index(Following(now)) = Index(now) + 1 /\ Index(now) \in Nat
  BY <1>0, FollowingIndex, BeforeIndex
<1>6. ~Before(now, now) /\ Before(now, Following(now))
  BY <1>0, <1>5, BeforeIndex
<1> QED  BY <1>3, <1>4, <1>6 DEF Covered, Covers, OfMonth

\* The migration establishes PartInv.
LEMMA PartitionsInitInv ==
    ASSUME PartitionsInit
    PROVE  PartInv
<1> DEFINE e == Following(now)
           f == Following(e)
<1>1. now \in Month
  BY PartitionsAssumption DEF PartitionsInit
<1>2. e \in Month /\ Index(e) = Index(now) + 1
  BY <1>1, FollowingIndex
<1>3. f \in Month /\ Index(f) = Index(e) + 1
  BY <1>2, FollowingIndex
<1>4. partitions = {OfMonth(now), OfMonth(e), OfMonth(f)}
  BY DEF PartitionsInit, Bootstrap, OfMonth
<1>5. \A d : OfMonth(d).name = d
  BY DEF OfMonth
<1> HIDE DEF e, f
<1>6. WellFormed(partitions)
  BY <1>1, <1>2, <1>3, <1>4, <1>5 DEF WellFormed
<1>7. Ahead
  <2> SUFFICES ASSUME NEW k \in Nat, missed + k < 3
               PROVE  \E p \in partitions : Index(p.name) = Index(now) + k
    BY DEF Ahead
  <2>1. k \in {0, 1, 2} /\ Index(now) \in Nat
    BY <1>1, BeforeIndex DEF PartitionsInit
  <2> QED  BY <2>1, <1>2, <1>3, <1>4, <1>5
<1> QED  BY <1>1, <1>6, <1>7 DEF PartInv, PartitionsInit

\* `cti db ensure-partitions` preserves PartInv.
LEMMA EnsureInv ==
    ASSUME PartInv, EnsurePartitions
    PROVE  PartInv'
<1>1. partitions' = partitions \cup Missing /\ missed' = 0 /\ now' = now
  BY SucceedsFromInv DEF EnsurePartitions, MaintenanceSucceeds
<1>2. WellFormed(partitions')
  BY <1>1, MissingWellFormed DEF PartInv, WellFormed
<1>3. ASSUME NEW k \in Nat, missed' + k < Months
      PROVE  \E p \in partitions' : Index(p.name) = Index(now') + k
  <2>1. k \in 0..(Months - 1)
    BY <1>1, <1>3, PartitionsAssumption
  <2>2. PICK p \in partitions' : p.name = MonthAhead(k)
    BY <1>1, <2>1, MissingWellFormed
  <2> QED  BY <1>1, <2>2, MonthAheadIndex DEF PartInv
<1> QED  BY <1>1, <1>2, <1>3 DEF PartInv, WellFormed, Ahead

\* The turn of a month preserves PartInv.
LEMMA MonthPassesInv ==
    ASSUME PartInv, MonthPasses
    PROVE  PartInv'
<1>1. now' = Following(now) /\ missed' = missed + 1 /\ partitions' = partitions
  BY DEF MonthPasses
<1>2. now' \in Month /\ Index(now') = Index(now) + 1 /\ Index(now) \in Nat
  BY <1>1, FollowingIndex, BeforeIndex DEF PartInv
<1>3. ASSUME NEW k \in Nat, missed' + k < Months, missed' + k < 3
      PROVE  \E p \in partitions' : Index(p.name) = Index(now') + k
  <2>1. missed + (k + 1) < Months /\ missed + (k + 1) < 3
    BY <1>1, <1>3, PartitionsAssumption DEF PartInv
  <2>2. PICK p \in partitions : Index(p.name) = Index(now) + (k + 1)
    BY <2>1 DEF PartInv, Ahead
  <2> QED  BY <1>1, <1>2, <2>2
<1> QED  BY <1>1, <1>2, <1>3 DEF PartInv, WellFormed, Ahead

\* Steps that leave the partitions and the calendar alone preserve PartInv.
LEMMA UnchangedInv ==
    ASSUME PartInv, UNCHANGED partVars
    PROVE  PartInv'
BY DEF PartInv, WellFormed, Ahead, partVars
=============================================================================
