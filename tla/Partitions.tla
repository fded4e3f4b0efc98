----------------------------- MODULE Partitions -----------------------------
(***************************************************************************)
(* The monthly partitions of cti.indicator_observations                    *)
(* (persistence/partitioning.py, `cti db ensure-partitions`, migration     *)
(* 0001_initial).  An observation is refused when no partition covers the  *)
(* month of its observed_at.  The migration creates the partitions of the  *)
(* first months; a monthly cron job creates further ones, and may be       *)
(* missed.  No partition is ever dropped by this code.                     *)
(***************************************************************************)
EXTENDS Integers

CONSTANTS
    Months,       \* the --months argument of ensure-partitions
    FirstMonths,  \* the months the migration may have run in
    LastMonth     \* bound on the calendar

Month == [year : Nat, month : 1..12]

ASSUME PartitionsAssumption ==
    /\ Months \in Nat \ {0}
    /\ FirstMonths \subseteq Month
    /\ LastMonth \in Month

VARIABLES
    now,         \* the current month
    partitions,  \* the partitions that exist
    missed       \* months begun since the partitions were last seen to

partVars == <<now, partitions, missed>>

\* The order of the calendar on the first days of months.
Before(d, e) == d.year < e.year \/ (d.year = e.year /\ d.month < e.month)

\* The calendar, as Postgres counts a month further.
Following(d) ==
    IF d.month = 12 THEN [year |-> d.year + 1, month |-> 1]
                    ELSE [year |-> d.year, month |-> d.month + 1]

\* Seeded faults: the year is not carried; a partition ends a month late.
YearNotCarried(i) ==
    [year |-> now.year, month |-> ((now.month - 1 + i) % 12) + 1]
EndsLate(d) ==
    [name |-> d, start |-> d, end |-> Following(Following(d))]

\* The month that iteration i of ensure_next_n_months is about.
MonthAhead(i) ==
    [year |-> now.year + ((now.month - 1 + i) \div 12),
     month |-> ((now.month - 1 + i) % 12) + 1]

\* _partition_bounds: a partition is named after its month.
PartitionBounds(d) ==
    [name |-> d,
     start |-> d,
     end |-> IF d.month = 12 THEN [year |-> d.year + 1, month |-> 1]
                             ELSE [year |-> d.year, month |-> d.month + 1]]

Covers(p, d) == ~Before(d, p.start) /\ Before(d, p.end)
Covered(d) == \E p \in partitions : Covers(p, d)
Overlap(p, q) == Before(p.start, q.end) /\ Before(q.start, p.end)

\* Migration 0001_initial: the current month and the next two.
Bootstrap(d) ==
    {[name |-> e, start |-> e, end |-> Following(e)] :
        e \in {d, Following(d), Following(Following(d))}}

PartitionsInit ==
    /\ now \in FirstMonths
    /\ partitions = Bootstrap(now)
    /\ missed = 0

\* The months seen to, less those whose table exists (IF NOT EXISTS goes by
\* the name of the table alone).
Missing ==
    {p \in {PartitionBounds(MonthAhead(i)) : i \in 0..(Months - 1)} :
        \A q \in partitions : q.name # p.name}

\* Postgres refuses a partition that overlaps another one.
Refused(new) ==
    \E p \in new : \E q \in (partitions \cup new) \ {p} : Overlap(p, q)

\* ensure-partitions: one transaction.
EnsurePartitions ==
    /\ partitions' = LET new == Missing
                     IN  IF Refused(new) THEN partitions ELSE partitions \cup new
    /\ missed' = 0
    /\ UNCHANGED now

MonthPasses ==
    /\ Before(now, LastMonth)
    /\ now' = Following(now)
    /\ missed' = missed + 1
    /\ UNCHANGED partitions

-----------------------------------------------------------------------------
(* Properties *)

PartitionsTypeOK ==
    /\ now \in Month
    /\ partitions \subseteq [name : Month, start : Month, end : Month]
    /\ missed \in Nat

\* operations.md prescribes a monthly `ensure-partitions --months 3`.  As long
\* as fewer than Months months have begun since it last ran, observations of
\* the current month have a partition: across the end of a year, with gaps
\* left by maintenance that was missed for longer, and whatever months the
\* migration had created.
MaintainedIsCovered == missed < Months /\ missed < 3 => Covered(now)

\* Maintenance never fails on the partitions that are there: the months it
\* creates overlap neither each other nor an existing partition, so the names,
\* by which IF NOT EXISTS goes, agree with the ranges.
MaintenanceSucceeds == ~Refused(Missing)
=============================================================================
