----------------------------- MODULE CoreTracker -----------------------------
(***************************************************************************)
(* The operations of the core availability tracker of a schedule state     *)
(* (Core_availability_tracker): for every p, the interval in which p cores *)
(* become simultaneously available.                                        *)
(***************************************************************************)
EXTENDS Intervals, Sequences

\* Faulty variant of InsertFinish: the finish times are appended at the end.
AppendFinish(times, shown, finish, ncores_used, n) ==
    [i \in 1..(n + ncores_used) |-> IF i <= n THEN shown[i] ELSE finish]

\* The update loop on one of its two lists: the n old times are appended in
\* order, as shown, and the finish time of the dispatched job is inserted once
\* for each of the cores it uses before the first old time it precedes, or at
\* the end if it precedes none.
InsertFinish(times, shown, finish, ncores_used, n) ==
    [i \in 1..(n + ncores_used) |->
        IF i <= n /\ \A h \in 1..i : times[h] <= finish THEN shown[i]
        ELSE IF \E h \in 1..(i - ncores_used) : finish < times[h] THEN shown[i - ncores_used]
        ELSE finish]

\* Certain and possible availability after a job starts in the interval start
\* and finishes in the interval finish on ncores_used cores, when ncores_freed
\* cores were held by jobs that must have finished before it starts.
Update(from, start, finish, ncores_used, ncores_freed) ==
    LET base  == MaxOf(ncores_freed, ncores_used)
        extra == base - ncores_used
        n     == Len(from) - base
        rest  == 1..n
        pa    == InsertFinish([i \in rest |-> from[base + i].min],
                              [i \in rest |-> MaxOf(start.min, from[base + i].min)],
                              finish.min, ncores_used, n)
        ca    == InsertFinish([i \in rest |-> from[base + i].max],
                              [i \in rest |-> MaxOf(start.min, from[base + i].max)],
                              finish.max, ncores_used, n)
    IN  [i \in DOMAIN from |->
            IF i <= extra
            THEN Interval(start.min,
                          MinOf(start.max, MaxOf(start.min, from[ncores_used + i].max)))
            ELSE Interval(pa[i - extra], ca[i - extra])]

\* Faulty variants of MergeAvailability: one bound is not widened.
MergeEarliestOnly(a, b) == [i \in DOMAIN a |-> [a[i] EXCEPT !.min = MinOf(@, b[i].min)]]
MergeLatestOnly(a, b) == [i \in DOMAIN a |-> [a[i] EXCEPT !.max = MaxOf(@, b[i].max)]]

MergeAvailability(a, b) == [i \in DOMAIN a |-> Widen(a[i], b[i])]

\* overlap_with: one of the two trackers contains the other, or, when the
\* analysis is not asked to be conservative, they overlap core by core.
Overlap(a, b, conservative) ==
    IF conservative
    THEN \/ \A i \in DOMAIN a : ContainsInterval(a[i], b[i])
         \/ \A i \in DOMAIN a : ContainsInterval(b[i], a[i])
    ELSE \A i \in DOMAIN a : Intersects(a[i], b[i])

\* The class comment of Core_availability_tracker: one interval per core, and
\* the vector is sorted by increasing availability times, in both bounds.
IsTracker(a) ==
    /\ \A i \in DOMAIN a : a[i].min <= a[i].max
    /\ \A i, j \in DOMAIN a : i <= j => a[i].min <= a[j].min /\ a[i].max <= a[j].max
=============================================================================
