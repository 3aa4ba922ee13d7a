----------------------------- MODULE Intervals -----------------------------
(***************************************************************************)
(* The time intervals the analysis computes with (Interval<T>).  A time is *)
(* a discrete instant: the integer build of the analysis, in which the     *)
(* smallest step of time (epsilon) is 1.                                   *)
(***************************************************************************)
EXTENDS Integers

MinOf(a, b) == IF a <= b THEN a ELSE b
MaxOf(a, b) == IF a <= b THEN b ELSE a

\* The constructor orders its two arguments: an interval built the wrong way
\* round is silently turned over, it is never empty.
Interval(a, b) == IF a <= b THEN [min |-> a, max |-> b] ELSE [min |-> b, max |-> a]

ContainsInterval(i, other) == i.min <= other.min /\ other.max <= i.max

\* Consecutive intervals such as [2,3] and [4,5] are not disjoint.
Disjoint(i, other) == other.max + 1 < i.min \/ i.max + 1 < other.min

Intersects(i, other) == ~Disjoint(i, other)

Widen(i, other) == [min |-> MinOf(i.min, other.min), max |-> MaxOf(i.max, other.max)]

Shift(i, other) == Interval(i.min + other.min, i.max + other.max)

Intervals(T) == {i \in [min : T, max : T] : i.min <= i.max}
=============================================================================
