---------------------------- MODULE SagSoundness ----------------------------
(***************************************************************************)
(* The soundness of the schedule-abstraction graph.  Once the exploration  *)
(* is over, the problem is executed: a global job-level fixed-priority     *)
(* scheduler, non-preemptive and work-conserving, dispatches the jobs of   *)
(* one execution scenario.  The scenario (arrivals, delays, abort times,   *)
(* branches, initial core availability) is any that the problem allows.    *)
(* The analysis promises that every completion lies in the interval it     *)
(* reports for the job.                                                    *)
(***************************************************************************)
EXTENDS Exploration

CONSTANT Executable     \* the problems that are executed, out of Problems

VARIABLES
    scenario,   \* what this execution does within the problem's bounds
    now,        \* the present instant
    core_free,  \* when each core becomes free
    started,    \* the start times of the jobs dispatched
    completed   \* and their completion times

executionVars == <<scenario, now, core_free, started, completed>>
vars == <<explorationVars, executionVars>>

Running == scenario # <<>>

\* Every function that picks a point in the interval range[x] for each x.
Picks(range) ==
    LET all == UNION {range[x].min..range[x].max : x \in DOMAIN range}
    IN  {f \in [DOMAIN range -> all] :
            \A x \in DOMAIN range : range[x].min <= f[x] /\ f[x] <= range[x].max}

Scenarios ==
    LET forks == {f \in Jobs : IsFork(f)}
    IN  [arrival : Picks([j \in Jobs |-> Arrival(j)]),
         delay   : Picks([c \in problem.prec \cup problem.excl |-> c.delay]),
         branch  : {b \in [forks -> Jobs] : \A f \in forks : b[f] \in AllSuccessors(f)},
         trigger : Picks([j \in DOMAIN problem.abort |-> problem.abort[j].trigger]),
         cleanup : Picks([j \in DOMAIN problem.abort |-> problem.abort[j].cleanup])]

\* The branches that are not taken.
Discarded ==
    UNION {Incompatible(scenario.branch[f]) \ {scenario.branch[f]} : f \in DOMAIN scenario.branch}

Instants(type) == IF type = "start" THEN started ELSE completed

\* What j waits for: each constraint with the instant from which it holds.
Waits(j) ==
    LET prec == {e \in problem.prec : e.to = j /\ e.from \notin Discarded}
        excl == {e \in problem.excl : j \in {e.a, e.b} /\ {e.a, e.b} \ {j} \subseteq DOMAIN started}
        other(e) == IF e.a = j THEN e.b ELSE e.a
    IN  [unmet |-> \E e \in prec : e.from \notin DOMAIN started,
         until |-> {Instants(e.type)[e.from] + scenario.delay[e] :
                        e \in {x \in prec : x.from \in DOMAIN started}}
                   \cup {Instants(e.type)[other(e)] + scenario.delay[e] : e \in excl}
                   \cup {scenario.arrival[j]}]

Pending == Jobs \ (DOMAIN started \cup Discarded)
Ready == {j \in Pending : ~Waits(j).unmet /\ Max(Waits(j).until) <= now}

FreeCores == {c \in 1..NumCores : core_free[c] <= now}
Dispatchable == {j \in Ready : MinParallelism(j) <= Cardinality(FreeCores)}

\* The instants at which something may change.
Events ==
    {core_free[c] : c \in 1..NumCores}
        \cup UNION {Waits(j).until : j \in {k \in Pending : ~Waits(k).unmet}}
-----------------------------------------------------------------------------
BeginExecution ==
    /\ Finished /\ ~aborted /\ ~Running /\ problem \in Executable
    /\ scenario' \in Scenarios
    /\ core_free' \in Picks(problem.platform)
    /\ UNCHANGED <<explorationVars, now, started, completed>>

\* The highest-priority job that fits starts on as many cores as it can use.
\* An abort action skips it if it was triggered before, else it ends it.
Run ==
    /\ Running
    /\ \E j \in Dispatchable :
        LET p == Max({q \in Parallelism(j) : q <= Cardinality(FreeCores)})
            cores == CHOOSE S \in SUBSET FreeCores : Cardinality(S) = p
            Finish(cost) ==
                IF j \notin DOMAIN problem.abort THEN now + cost
                ELSE IF scenario.trigger[j] <= now THEN now
                ELSE MinOf(now + cost, scenario.trigger[j] + scenario.cleanup[j])
            With(times, at) == [k \in DOMAIN times \cup {j} |-> IF k = j THEN at ELSE times[k]]
        IN  /\ \A k \in Dispatchable \ {j} : HigherPriority(j, k)
            /\ started' = With(started, now)
            /\ \E cost \in Cost(j)[p].min..Cost(j)[p].max :
                /\ completed' = With(completed, Finish(cost))
                /\ core_free' = [c \in 1..NumCores |-> IF c \in cores THEN Finish(cost)
                                                                      ELSE core_free[c]]
    /\ UNCHANGED <<explorationVars, scenario, now>>

\* Time passes when no job can be dispatched.
Wait ==
    /\ Running /\ Dispatchable = {}
    /\ \E t \in Events : t > now
    /\ now' = Min({t \in Events : t > now})
    /\ UNCHANGED <<explorationVars, scenario, core_free, started, completed>>

\* Every job of the branches that are taken is dispatched, or there is nothing
\* to execute because the analysis stopped early.
Executed ==
    /\ IF Running THEN Pending = {} ELSE Finished /\ aborted
    /\ UNCHANGED vars

SagInit ==
    /\ Init
    /\ scenario = <<>> /\ now = 0 /\ started = <<>> /\ completed = <<>>
    /\ core_free = [c \in 1..NumCores |-> 0]

SagNext ==
    \/ Next /\ UNCHANGED executionVars
    \/ BeginExecution
    \/ Run
    \/ Wait
    \/ Executed

SagSpec == SagInit /\ [][SagNext]_vars

\* Weak fairness of the exploration, of which some step is possible until the
\* main loop has ended: it does not stop by itself.
SagFairSpec == SagSpec /\ ([]<>Finished \/ []<><<TRUE>>_explorationVars)
-----------------------------------------------------------------------------
(***************************************************************************)
(* Properties.                                                             *)
(***************************************************************************)

\* README.md:299: the analysis computes "for each job the earliest and latest
\* possible completion times".  Whatever the scenario, no job that completes
\* was forgotten, and none completes outside the interval reported for it.
SoundCompletion ==
    \A j \in DOMAIN completed :
        /\ j \in DOMAIN completion
        /\ completion[j].min <= completed[j]
        /\ completed[j] <= completion[j].max

\* The verdict: when the analysis says schedulable, no execution misses a
\* deadline.
SchedulableIsSafe ==
    Running /\ IsSchedulable => \A j \in DOMAIN completed : completed[j] <= Deadline(j)
=============================================================================
