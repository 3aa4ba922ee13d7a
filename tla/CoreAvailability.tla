-------------------------- MODULE CoreAvailability --------------------------
(***************************************************************************)
(* The core availability tracker of a schedule state: for every p, the     *)
(* interval in which p cores become simultaneously available.              *)
(*                                                                         *)
(* The tracker is an abstraction of all the executions a schedule state    *)
(* stands for.  Beside the trackers of the states of one node (avail) the  *)
(* module follows one such execution: the instant at which each processor  *)
(* core becomes free and the instant of the last dispatch.  Covers says    *)
(* that this execution stays among those that its state's tracker          *)
(* describes, whatever jobs are dispatched and whatever states are merged. *)
(***************************************************************************)
EXTENDS CoreTracker, FiniteSets

CONSTANTS
    NumCores,   \* the number of processor cores
    Cores,      \* the cores
    Branches,   \* the states that the exploration follows side by side
    Platforms,  \* the initial availabilities considered, core by core
    Costs,      \* the execution-time intervals of the jobs considered
    Times       \* the instants considered

ASSUME NumCoresAssumption == NumCores \in Nat \ {0}
ASSUME CoresAssumption == IsFiniteSet(Cores) /\ Cardinality(Cores) = NumCores
ASSUME TimesAssumption ==
    /\ Times \subseteq Nat
    /\ Platforms \subseteq [Cores -> Intervals(Nat)]
    /\ Costs \subseteq Intervals(Nat)

VARIABLES
    avail,      \* the tracker of every state that was not merged away yet
    at,         \* the state that stands for the execution followed below
    free,       \* that execution: when each core becomes free
    now         \* that execution: the start time of the last job dispatched

vars == <<avail, at, free, now>>

-----------------------------------------------------------------------------
(***************************************************************************)
(* The initial tracker.                                                    *)
(***************************************************************************)

\* initialize_from_intervals: the earliest and the latest instants of the
\* platform's intervals are sorted independently of one another.
Orders == {f \in [1..NumCores -> Cores] : \A i, j \in 1..NumCores : f[i] = f[j] => i = j}

InitialAvailability(platform, f, g) ==
    [i \in 1..NumCores |-> Interval(platform[f[i]].min, platform[g[i]].max)]

Ascending(platform, f, g) ==
    \A i, j \in 1..NumCores : i <= j =>
        /\ platform[f[i]].min <= platform[f[j]].min
        /\ platform[g[i]].max <= platform[g[j]].max

-----------------------------------------------------------------------------
(***************************************************************************)
(* The exploration, as the trackers see it.  All states begin with the     *)
(* platform's initial availability, given core by core.                    *)
(***************************************************************************)
Init ==
    \E platform \in Platforms, f, g \in Orders :
        /\ Ascending(platform, f, g)
        /\ avail = [s \in Branches |-> InitialAvailability(platform, f, g)]
        /\ at \in Branches
        /\ free \in {h \in [Cores -> Times] :
                        \A c \in Cores : platform[c].min <= h[c] /\ h[c] <= platform[c].max}
        /\ now = 0

\* One run of a job in the execution: it starts at t on cores that are free,
\* not before the previous dispatch, and runs for d.  The cores of the
\* predecessors that had to finish first are free by then.
RunJob(t, d, S, ncores_used, ncores_freed) ==
    /\ now <= t
    /\ Cardinality(S) = ncores_used
    /\ \A c \in S : free[c] <= t
    /\ Cardinality({c \in Cores : free[c] <= t}) >= ncores_freed
    /\ free' = [c \in Cores |-> IF c \in S THEN t + d ELSE free[c]]
    /\ now' = t

\* A state dispatches a job whose earliest ready time is ready, whose start is
\* bounded by lst and whose execution time lies in cost.  The execution that
\* the state stands for runs that job.
Dispatch(s, ready, lst, cost, ncores_used, ncores_freed) ==
    LET est    == MaxOf(ready, avail[s][ncores_used].min)
        start  == Interval(est, lst)
        finish == Shift(start, cost)
    IN  /\ est <= lst
        /\ finish.max \in Times
        /\ avail' = [avail EXCEPT ![s] = Update(@, start, finish, ncores_used, ncores_freed)]
        /\ IF s = at
           THEN \E t \in ready..lst, d \in cost.min..cost.max, S \in SUBSET Cores :
                    RunJob(t, d, S, ncores_used, ncores_freed)
           ELSE UNCHANGED <<free, now>>
        /\ UNCHANGED at

\* The state u is merged into s and disappears.
MergeStates(s, u, conservative) ==
    /\ s # u
    /\ Overlap(avail[s], avail[u], conservative)
    /\ avail' = [x \in DOMAIN avail \ {u} |->
                    IF x = s THEN MergeAvailability(avail[s], avail[u]) ELSE avail[x]]
    /\ at' = IF at = u THEN s ELSE at
    /\ UNCHANGED <<free, now>>

Next ==
    \/ \E s \in DOMAIN avail, ready, lst \in Times, cost \in Costs,
          ncores_used \in 1..NumCores, ncores_freed \in 0..NumCores :
            Dispatch(s, ready, lst, cost, ncores_used, ncores_freed)
    \/ \E s, u \in DOMAIN avail, conservative \in BOOLEAN : MergeStates(s, u, conservative)

Spec == Init /\ [][Next]_vars
-----------------------------------------------------------------------------
(***************************************************************************)
(* Properties.                                                             *)
(***************************************************************************)

\* Every tracker is one of the intervals' kind, and sorted.
TypeOK ==
    /\ DOMAIN avail \subseteq Branches
    /\ \A s \in DOMAIN avail :
           avail[s] \in [1..NumCores -> Intervals(Nat)] /\ IsTracker(avail[s])
    /\ at \in DOMAIN avail
    /\ free \in [Cores -> Nat]
    /\ now \in Nat

\* Certain availability: in the execution, at least p cores are free by the
\* latest instant of the p-th interval.  Every "certainly dispatched by"
\* deduction of the exploration rests on it.
CertainlyAvailable ==
    \A p \in 1..NumCores : Cardinality({c \in Cores : free[c] <= avail[at][p].max}) >= p

\* Possible availability: p cores are not free before the earliest instant of
\* the p-th interval, except for instants that the last dispatch already left
\* behind.  The earliest start of every later dispatch rests on it.
PossiblyAvailable ==
    \A p \in 1..NumCores :
        now < avail[at][p].min => Cardinality({c \in Cores : free[c] < avail[at][p].min}) < p

Covers == CertainlyAvailable /\ PossiblyAvailable
=============================================================================
