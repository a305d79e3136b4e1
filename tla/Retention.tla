------------------------------ MODULE Retention ------------------------------
(* What the clean-up of enrichment runs deletes, and what the readers of the *)
(* runs see, as functions of the rows of the table.                          *)
EXTENDS Integers, FiniteSets, FiniteSetsExt

Young(rows, now, maxAge) == {r \in rows : r.ts + maxAge >= now}

\* Any n rows that come first in the order of their timestamps.
OldestFirst(rows, n) == {d \in kSubset(n, rows) : \A x \in d, y \in rows \ d : x.ts <= y.ts}

\* do_cleanup: by age, then whatever is above the cap, oldest first.
do_cleanup(rows, now, maxAge, maxRows) ==
  LET young == Young(rows, now, maxAge)
      over == Cardinality(young) - maxRows
  IN IF over <= 0 THEN {young} ELSE {young \ d : d \in OldestFirst(young, over)}

\* A count, and the first and the last timestamp.
do_stats(rows) ==
  [current_row_count |-> Cardinality(rows),
   oldest |-> {r.ts : r \in {x \in rows : \A y \in rows : x.ts <= y.ts}},
   newest |-> {r.ts : r \in {x \in rows : \A y \in rows : x.ts >= y.ts}}]

\* The rows for the optimizer's report, all of them or those of one enricher.
do_read_records(rows, after) == {r \in rows : r.ts >= after}
do_read_records_by_enricher(rows, e) == {r \in rows : r.enricher = e}

------------------------------------------------------------------------------
\* The clean-up leaves at most the allowed number of rows; a row that it deletes was
\* too old, or as many rows that are no older stay; a reader that asks for the rows
\* from the first timestamp of the statistics on gets them all, and from the last one
\* on those that share it (do_cleanup, do_stats, do_read_records).
CleanupSound(rows, now, maxAge, maxRows) ==
  \A kept \in do_cleanup(rows, now, maxAge, maxRows) :
    /\ kept \subseteq rows /\ Cardinality(kept) <= maxRows
    /\ do_stats(kept).current_row_count = Cardinality(kept)
    /\ \A r \in kept : r.ts >= now - maxAge
    /\ \A r \in rows \ kept : r.ts >= now - maxAge =>
                               Cardinality(kept) = maxRows /\ \A k \in kept : k.ts >= r.ts
    /\ \A t \in do_stats(kept).oldest : do_read_records(kept, t) = kept
    /\ \A t \in do_stats(kept).newest : do_read_records(kept, t) = {r \in kept : r.ts = t}
==============================================================================
