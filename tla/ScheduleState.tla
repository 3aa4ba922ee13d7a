--------------------------- MODULE ScheduleState ----------------------------
(***************************************************************************)
(* The states of the schedule-abstraction graph and their nodes.  A node   *)
(* stands for a set of dispatched jobs; each of its states stands for a    *)
(* set of executions that dispatched exactly those jobs.                   *)
(*                                                                         *)
(* A node n is a record with the fields scheduled, release, seq_release,   *)
(* source_release, ready, pending ("start", "finish"), and, over all its   *)
(* states, a_max, next_succ, next_gang, next_mutex; n.states is the list   *)
(* of states.  A state s is a record with the fields avail, running, start *)
(* and finish (the recorded times of the jobs that still constrain others), *)
(* succ, gang and mutex (the times by which a job of the class is certainly *)
(* dispatched) and min_prio (0: no job).                                   *)
(***************************************************************************)
EXTENDS SchedulingProblem, TLC

\* Options: merge a state only into one that contains it; merge only if the
\* recorded times overlap too; how many states one new state may be merged
\* with (-1: any number).
Conservative == problem.options.conservative
UseFinishTimes == problem.options.use_finish_times
MergeBudget == problem.options.budget

Latest(times, otherwise) == Max(times \cup {otherwise})
Earliest(times) == Min(times \cup {Infinity})

Avail(s, p) == s.avail[p]
RecordedTimes(s, type) == IF type = "start" THEN s.start ELSE s.finish

IsRecorded(s, type, k) == k \in DOMAIN RecordedTimes(s, type)

\* A job that left no time in the state may have started (finished) at any time.
TimeOf(s, type, k) ==
    IF IsRecorded(s, type, k) THEN RecordedTimes(s, type)[k] ELSE [min |-> 0, max |-> Infinity]

\* Times are 64-bit: a sum beyond the largest time wraps round.
Plus(t, delay) == IF t + delay <= Infinity THEN t + delay ELSE t + delay - 2 * (Infinity + 1)

Delayed(t, delay) == [min |-> Plus(t.min, delay.min), max |-> Plus(t.max, delay.max)]

\* The intervals in which the constraints cs become satisfied.
Satisfied(s, type, cs) == {Delayed(TimeOf(s, type, c.job), c.delay) : c \in cs}

RecordedConstraints(s, type, cs) == {c \in cs : IsRecorded(s, type, c.job)}

PrecedenceTimes(s, j) ==
    UNION {Satisfied(s, type, RecordedConstraints(s, type, Predecessors(type, j))) :
              type \in Types}
ExclusionTimes(s, j) ==
    UNION {Satisfied(s, type, RecordedConstraints(s, type, Exclusions(type, j))) :
              type \in Types}

\* An exclusion binds from the moment the other job is dispatched or discarded.
BindingExclusions(n, type, j) == {c \in Exclusions(type, j) : c.job \in n.scheduled}
BindingTimes(n, s, j) ==
    UNION {Satisfied(s, type, BindingExclusions(n, type, j)) : type \in Types}

\* Some predecessor of j left no time in the state.
LacksPredecessor(s, j) ==
    \E type \in Types : \E c \in Predecessors(type, j) :
        ~IsRecorded(s, type, c.job)
-----------------------------------------------------------------------------
(***************************************************************************)
(* When a job is ready (State_space_data).                                 *)
(***************************************************************************)

\* A conditional join waits for the branch that was taken, any other job for
\* all its predecessors.
ReadyTimes(n, s, j) ==
    LET after    == PrecedenceTimes(s, j)
        excluded == BindingTimes(n, s, j)
        by       == {t.min : t \in after}
        earliest == IF IsJoin(j) THEN Earliest(by) ELSE Latest(by, Arrival(j).min)
    IN  [min |-> Latest({t.min : t \in excluded} \cup {earliest}, Arrival(j).min),
         max |-> Latest({t.max : t \in after \cup excluded}, Arrival(j).max)]

\* No core can become available before k is finished.
IsCertainlyFinished(n, s, k) ==
    \/ NumCores = 1
    \/ TimeOf(s, "finish", k).max < Avail(s, 2).min
    \/ Successors("finish", k) \cap n.scheduled # {}

\* The constraint c is satisfied whenever j_low starts, because of what j_low
\* itself waits for.
Implied(n, s, type, c, j_low) ==
    LET after_start  == MinDelayAfter("start", c.job, j_low)
        after_finish == MinDelayAfter("finish", c.job, j_low)
    IN  IF type = "start"
        THEN \/ c.delay.max = 0
             \/ after_start # -1 /\ after_start >= c.delay.max
             \/ after_finish # -1 /\ after_finish + Bcet(c.job) >= c.delay.max
        ELSE \/ c.delay.max = 0 /\ IsCertainlyFinished(n, s, c.job)
             \/ after_finish # -1 /\ after_finish >= c.delay.max
             \/ after_start # -1 /\ after_start >= c.delay.max + Wcet(c.job)

InForce(n, s, type, j_high, j_low) ==
    {c \in RecordedConstraints(s, type, Predecessors(type, j_high))
             \cup BindingExclusions(n, type, j_high) : ~Implied(n, s, type, c, j_low)}

\* The latest time at which j_high is ready if j_low is dispatched next on
\* ncores: what holds of any start of j_low does not delay j_high.
ConditionalLatestReadyTime(n, s, j_high, j_low, ncores) ==
    LET waits == UNION {Satisfied(s, type, InForce(n, s, type, j_high, j_low)) : type \in Types}
        cores == IF MinParallelism(j_high) > ncores THEN {Avail(s, MinParallelism(j_high)).max} ELSE {}
    IN  Latest({t.max : t \in waits} \cup cores, Arrival(j_high).max)
-----------------------------------------------------------------------------
(***************************************************************************)
(* The trackers of a state other than the core availability.               *)
(***************************************************************************)

\* Faulty variant of RunningAfter: a job counts as certainly running although
\* it may finish at the very instant at which the dispatched job starts.
RunningUntilStart(from, j, start, finish, ncores) ==
    LET kept == {k \in DOMAIN from \ MustBeFinished(j) : start.max <= from[k].finish.min}
    IN  [k \in kept \cup {j} |->
            IF k = j THEN [cores |-> [min |-> ncores, max |-> ncores], finish |-> finish]
                     ELSE from[k]]

\* Certainly running jobs: those that j waits for are not running any more,
\* nor are those that may be finished when j starts.
RunningAfter(from, j, start, finish, ncores) ==
    LET kept == {k \in DOMAIN from \ MustBeFinished(j) : start.max < from[k].finish.min}
    IN  [k \in kept \cup {j} |->
            IF k = j THEN [cores |-> [min |-> ncores, max |-> ncores], finish |-> finish]
                     ELSE from[k]]

\* The number of cores that the running jobs js certainly hold.
CoresHeldBy(running, js) ==
    Cardinality(UNION {{k} \X (1..running[k].cores.min) : k \in js})

\* Those that were certainly held by jobs that j waits for.
CoresOfPredecessors(from, j) == CoresHeldBy(from, DOMAIN from \cap MustBeFinished(j))

\* The scan of the previous list stops at the first pending job it lacks.
StartTimesAfter(from, j, start, pending) ==
    LET kept == {k \in pending \ {j} : \A i \in pending \ {j} : i <= k => i \in DOMAIN from}
        wait(k) == MinDelayAfter("start", k, j)
    IN  [k \in kept \cup (pending \cap {j}) |->
            IF k = j THEN start
            ELSE IF wait(k) >= 0 THEN Interval(from[k].min, MinOf(from[k].max, start.max - wait(k)))
            ELSE from[k]]

FinishTimesAfter(from, j, start, finish, pending) ==
    LET kept == (pending \cap DOMAIN from) \ {j}
        wait(k) == MinDelayAfter("finish", k, j)
        latest(k) == IF NumCores = 1 /\ from[k].max > start.max THEN start.max
                     ELSE IF wait(k) >= 0 THEN MinOf(from[k].max, start.max - wait(k))
                     ELSE from[k].max
    IN  [k \in kept \cup (pending \cap {j}) |->
            IF k = j THEN finish ELSE Interval(from[k].min, latest(k))]

\* Certain dispatch times: when a job of the class is certainly ready and has
\* the cores it needs.
CertainlyFits(s, j) == MaxOf(Arrival(j).max, Avail(s, MinParallelism(j)).max)

GangDispatch(n, s) ==
    Earliest({CertainlyFits(s, j) : j \in {k \in GangIndependentJobs \ n.scheduled :
                                              Arrival(k).max >= n.source_release}})

MutexDispatch(n, s) ==
    Earliest({Latest({t.max : t \in ExclusionTimes(s, j)}, CertainlyFits(s, j)) :
                 j \in {k \in MutexSourceJobs \ n.scheduled : Arrival(k).max >= n.source_release}})

\* Of alternative branches it is not known which one is taken.
SuccessorDispatch(n, s) ==
    LET by(j) == IF LacksPredecessor(s, j) /\ ~IsJoin(j) THEN Infinity
                 ELSE Latest({t.max : t \in PrecedenceTimes(s, j) \cup ExclusionTimes(s, j)},
                             CertainlyFits(s, j))
    IN  Earliest({Max({by(sib) : sib \in Siblings(j)}) : j \in n.ready})

\* When the first core becomes available, the delay after the start (the
\* finish) of a dispatched job is certainly over.
CertainlyStarted(s, k, delay) ==
    delay = 0 \/ Plus(TimeOf(s, "start", k).max, delay) <= Avail(s, 1).min

CertainlyFinished(n, s, k, delay) ==
    IF delay = 0 THEN IsCertainlyFinished(n, s, k)
    ELSE Plus(TimeOf(s, "finish", k).max, delay) <= Avail(s, 1).min

\* certainly_ready: j is certainly ready when the first core becomes available.
CertainlyReady(n, s, j) ==
    LET waits(type) == Predecessors(type, j) \cup BindingExclusions(n, type, j)
    IN  /\ Arrival(j).max <= Avail(s, 1).min
        /\ \A c \in waits("start") : CertainlyStarted(s, c.job, c.delay.max)
        /\ \A c \in waits("finish") : CertainlyFinished(n, s, c.job, c.delay.max)

\* j is ready as soon as the jobs that it waits for complete, none of which
\* was counted for another job.
ReadyOnCompletion(n, s, j, counted) ==
    LET waits(type) == Predecessors(type, j) \cup BindingExclusions(n, type, j)
    IN  /\ \A type \in Types : \A c \in waits(type) :
            c.delay.max = 0 /\ c.job \notin counted
        /\ \E type \in Types : \E c \in waits(type) :
            /\ IsRecorded(s, type, c.job)
            /\ TimeOf(s, type, c.job).min >= Arrival(j).max

\* The jobs that j waits for, and others too.
SharedPredecessors(j) ==
    {k \in {c.job : c \in Predecessors("finish", j)} : Cardinality({e \in problem.prec : e.from = k}) > 1}

\* One ready job is looked at: the job that was found, if any, the cores and the
\* ready jobs that are left, and the jobs counted as completing for another.
Inspect(n, s, acc, j) ==
    IF acc.job # 0 THEN acc
    ELSE IF MinParallelism(j) > 1 \/ HasSiblings(j) THEN [acc EXCEPT !.rem = @ - 1]
    ELSE IF CertainlyReady(n, s, j) THEN [acc EXCEPT !.job = j]
    ELSE IF acc.rem >= acc.cores /\ ReadyOnCompletion(n, s, j, acc.counted)
    THEN [job |-> IF acc.cores = 1 THEN j ELSE 0, cores |-> acc.cores - 1,
          rem |-> acc.rem - 1, counted |-> acc.counted \cup SharedPredecessors(j)]
    ELSE [acc EXCEPT !.rem = @ - 1]

\* Priority_tracker::update: the ready job of the lowest priority that may be
\* dispatched next, 0 if none is known.  cores jobs that become ready when
\* their own predecessors complete are as good as one that is ready.
MinPriorityJob(n, s) ==
    LET num == Cardinality(n.ready)
        inspected[i \in 0..num] ==
            IF i = 0 THEN [job |-> 0, cores |-> NumCores, rem |-> num, counted |-> {}]
            ELSE Inspect(n, s, inspected[i - 1], ByPriority(n.ready)[i])
    IN  inspected[num].job
-----------------------------------------------------------------------------
(***************************************************************************)
(* States.                                                                 *)
(***************************************************************************)
WithDispatchTimes(n, s) ==
    [s EXCEPT !.succ = SuccessorDispatch(n, s), !.gang = GangDispatch(n, s),
              !.mutex = MutexDispatch(n, s), !.min_prio = MinPriorityJob(n, s)]

\* The state of node n that results from dispatching j in the state from.
NewState(n, from, j, start, finish, ncores) ==
    WithDispatchTimes(n,
        [from EXCEPT
            !.avail   = Update(@, start, finish, ncores, CoresOfPredecessors(from.running, j)),
            !.running = RunningAfter(@, j, start, finish, ncores),
            !.start   = StartTimesAfter(@, j, start, n.pending["start"]),
            !.finish  = FinishTimesAfter(@, j, start, finish, n.pending["finish"])])

\* The lists of recorded times overlap.  In a conservative merge one list must
\* be the beginning of the other, and contain it if the availability does.
TimesOverlap(a, b, b_in_a) ==
    LET Begins(x, y) == \A k \in DOMAIN y : k \in DOMAIN x \/ \A i \in DOMAIN x : i < k
        shared == DOMAIN a \cap DOMAIN b
    IN  IF Conservative
        THEN /\ \/ DOMAIN a \subseteq DOMAIN b /\ Begins(a, b)
                \/ DOMAIN b \subseteq DOMAIN a /\ Begins(b, a)
             /\ \A k \in shared : IF b_in_a THEN ContainsInterval(a[k], b[k])
                                            ELSE ContainsInterval(b[k], a[k])
        ELSE \A k \in shared : Intersects(a[k], b[k])

CanMergeWith(s, t) ==
    LET t_in_s == \A i \in 1..NumCores : ContainsInterval(s.avail[i], t.avail[i])
    IN  /\ Overlap(s.avail, t.avail, Conservative)
        /\ UseFinishTimes => /\ TimesOverlap(s.start, t.start, t_in_s)
                             /\ TimesOverlap(s.finish, t.finish, t_in_s)

WidenTimes(a, b) == [k \in DOMAIN a |-> IF k \in DOMAIN b THEN Widen(a[k], b[k]) ELSE a[k]]

\* What is certain in the merged state is certain in both, and the job of the
\* lowest priority that may come next is unknown if it is in one of them.
MergeRunning(a, b) ==
    [k \in DOMAIN a \cap DOMAIN b |-> [cores  |-> Widen(a[k].cores, b[k].cores),
                                      finish |-> Widen(a[k].finish, b[k].finish)]]

LowerPriority(i, j) ==
    IF i = 0 \/ j = 0 THEN 0 ELSE IF HigherPriority(i, j) THEN j ELSE i

MergeState(s, t) ==
    [avail    |-> MergeAvailability(s.avail, t.avail),
     running  |-> MergeRunning(s.running, t.running),
     start    |-> WidenTimes(s.start, t.start),
     finish   |-> WidenTimes(s.finish, t.finish),
     succ     |-> MaxOf(s.succ, t.succ),
     gang     |-> MaxOf(s.gang, t.gang),
     mutex    |-> MaxOf(s.mutex, t.mutex),
     min_prio |-> LowerPriority(s.min_prio, t.min_prio)]
=============================================================================
