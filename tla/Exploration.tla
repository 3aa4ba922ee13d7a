---------------------------- MODULE Exploration -----------------------------
(***************************************************************************)
(* The exploration of the schedule-abstraction graph (State_space): depth  *)
(* by depth, every node of the exploration front is expanded by every job  *)
(* that may be dispatched next in one of its states, and the new states    *)
(* are merged into the nodes of the following depths.                      *)
(*                                                                         *)
(* One step dispatches one job in one state with one level of parallelism. *)
(* The nodes of a front are taken in any order: the containers of the      *)
(* sequential and of the parallel build hand them out differently, and     *)
(* which states end up merged depends on that order.                       *)
(***************************************************************************)
EXTENDS ScheduleState

\* Options: a new node and a new state for every dispatch; stop at the first
\* deadline miss; the limits on time, memory or depth may be reached.
Naive == problem.options.be_naive
EarlyExit == problem.options.early_exit
Limited == problem.options.limited

VARIABLES
    current_job_count,  \* the depth of the exploration front
    nodes,              \* the nodes of each layer that is kept, a ring of layers
    exploring,          \* the node being expanded, and what is left to do for it
    completion,         \* the completion times found so far, by job
    observed_deadline_miss,
    aborted

explorationVars ==
    <<problem, sp_data, current_job_count, nodes, exploring, completion, observed_deadline_miss,
      aborted>>

Idle == [jobs |-> {}]

\* Faulty variant of NumLayers: the depth being explored is not counted.
NumLayersAhead == Max({1} \cup {Cardinality(Incompatible(j)) : j \in Jobs})

NumLayers == 1 + Max({1} \cup {Cardinality(Incompatible(j)) : j \in Jobs})
Layer(depth) == depth % NumLayers
ExplorationFront == nodes[Layer(current_job_count)]
AllJobsScheduled(n) == n.num_jobs_scheduled = Len(problem.job)
\* Faulty variant of Explored: the last depth is left out.
LastDepthReached == current_job_count = Len(problem.job) - 1

Explored == current_job_count = Len(problem.job)
Finished == exploring = Idle /\ (Explored \/ aborted)
IsSchedulable == Finished /\ ~aborted /\ ~observed_deadline_miss
-----------------------------------------------------------------------------
(***************************************************************************)
(* Nodes.                                                                  *)
(***************************************************************************)
LatestArrivals(js) == {Arrival(j).max : j \in js}
AtOrAfter(times, after) == {t \in times : t >= after}
SourceJobs == Jobs \ SuccessorJobs

InitialNode ==
    LET seq == Earliest(LatestArrivals(SequentialIndependentJobs))
    IN  [scheduled          |-> {},
         num_jobs_scheduled |-> 0,
         release            |-> Earliest({Arrival(j).min : j \in SourceJobs}),
         seq_release        |-> seq,
         source_release     |-> Earliest(LatestArrivals(SourceJobs)),
         ready              |-> {},
         pending            |-> [type \in Types |-> {}],
         a_max |-> 0, next_succ |-> 0, next_gang |-> 0, next_mutex |-> 0,
         states             |-> <<>>]

\* The first instant by which p of the cores, which become free at the instants
\* at, are free.
FreeBy(at, p) ==
    Min({at[i] : i \in {c \in 1..NumCores : Cardinality({k \in 1..NumCores : at[k] <= at[c]}) >= p}})

\* In the initial state the times of gang and mutex jobs do not account for
\* when the cores become available.
InitialState ==
    LET mins == [i \in 1..NumCores |-> problem.platform[i].min]
        maxs == [i \in 1..NumCores |-> problem.platform[i].max]
    IN  [avail    |-> [p \in 1..NumCores |-> Interval(FreeBy(mins, p), FreeBy(maxs, p))],
         running  |-> <<>>, start |-> <<>>, finish |-> <<>>,
         succ     |-> Infinity,
         gang     |-> Earliest(LatestArrivals(GangIndependentJobs)),
         mutex    |-> Earliest(LatestArrivals(MutexSourceJobs)),
         min_prio |-> 0]

\* Faulty variant of MadeReady: only the predecessors that must have finished
\* are looked at.
MadeReadyByFinish(j, scheduled) ==
    {k \in AllSuccessors(j) : \A e \in problem.prec :
        e.to = k /\ e.type = "finish" => e.from \in scheduled}

\* The successors of j that are ready once the jobs in scheduled are dispatched.
MadeReady(j, scheduled) ==
    {k \in AllSuccessors(j) : \A e \in problem.prec : e.to = k => e.from \in scheduled}

\* Faulty variant of PendingAfter: a job is forgotten with the first of its
\* successors.
PendingForFirstSuccessor(pending, type, j, scheduled) ==
    LET waiting(k) == Successors(type, k) \cap scheduled = {} /\ Successors(type, k) # {}
    IN  {k \in pending \cup IncompatibleWithPendingSuccessors(j) : waiting(k)}

PendingAfter(pending, type, j, scheduled) ==
    LET unscheduled(k) == \/ Successors(type, k) \ scheduled # {}
                          \/ \E c \in Exclusions(type, k) : c.job \notin scheduled
        waiting(k) == \/ Successors(type, k) # {}
                      \/ \E c \in Exclusions(type, k) : c.job \notin scheduled
    IN  IF HasConstraints(type)
        THEN {k \in pending : unscheduled(k)}
                \cup {k \in IncompatibleWithPendingSuccessors(j) : waiting(k)}
        ELSE {}

\* The node that dispatching j in node n leads to, without states.
NextNode(n, j) ==
    LET scheduled == n.scheduled \cup Incompatible(j)
        certain(js, after) == Earliest(AtOrAfter(LatestArrivals(js \ scheduled), after))
        seq == certain(SequentialIndependentJobs, n.seq_release)
    IN  [scheduled          |-> scheduled,
         num_jobs_scheduled |-> n.num_jobs_scheduled + Cardinality(Incompatible(j)),
         release            |-> Earliest(AtOrAfter({Arrival(k).min : k \in SourceJobs \ scheduled},
                                                   n.release)),
         seq_release        |-> seq,
         source_release     |-> MinOf(seq, certain(GangIndependentJobs \cup MutexSourceJobs,
                                                   n.source_release)),
         ready              |-> IF HasPrecedence
                                THEN {k \in n.ready : j \notin Incompatible(k)}
                                        \cup MadeReady(j, scheduled)
                                ELSE {},
         pending            |-> [type \in Types |->
                                    PendingAfter(n.pending[type], type, j, scheduled)],
         a_max |-> 0, next_succ |-> 0, next_gang |-> 0, next_mutex |-> 0,
         states             |-> <<>>]

\* Every state put into a node widens the bounds that the node keeps over its
\* states (0 as long as there is none).
WithBounds(n, s) ==
    [n EXCEPT !.a_max = MaxOf(@, Avail(s, NumCores).max), !.next_succ = MaxOf(@, s.succ),
              !.next_gang = MaxOf(@, s.gang), !.next_mutex = MaxOf(@, s.mutex)]

AddState(n, s) == [WithBounds(n, s) EXCEPT !.states = Append(@, s)]

\* The new state s is merged into the first state that it can be merged with;
\* while the budget lasts, later states are merged into the result.
MergeStates(states, s) ==
    LET first  == Min({i \in DOMAIN states : CanMergeWith(states[i], s)})
        later  == Len(states) - first
        budget == IF Conservative THEN 1 ELSE MergeBudget
        Absorb(acc, t) ==
            IF acc.budget # 0 /\ CanMergeWith(acc.merged, t)
            THEN [acc EXCEPT !.merged = MergeState(@, t), !.budget = @ - 1]
            ELSE [acc EXCEPT !.others = Append(@, t)]
        result[i \in 0..later] ==
            IF i = 0 THEN [merged |-> MergeState(states[first], s), budget |-> budget - 1,
                           others |-> <<>>]
            ELSE Absorb(result[i - 1], states[first + i])
    IN  SubSeq(states, 1, first - 1) \o <<result[later].merged>> \o result[later].others

\* Faulty variant of NewOrMergeState: the bounds follow added states only.
MergeWithoutBounds(n, s) ==
    IF \E i \in DOMAIN n.states : CanMergeWith(n.states[i], s)
    THEN [n EXCEPT !.states = MergeStates(@, s)]
    ELSE AddState(n, s)

NewOrMergeState(n, s) ==
    IF \E i \in DOMAIN n.states : CanMergeWith(n.states[i], s)
    THEN [WithBounds(n, s) EXCEPT !.states = MergeStates(@, s)]
    ELSE AddState(n, s)
-----------------------------------------------------------------------------
(***************************************************************************)
(* When a job may be dispatched next.                                      *)
(***************************************************************************)

\* Times are 64-bit: the instant after the largest time is the smallest one.
After(t) == IF t = Infinity THEN -(Infinity + 1) ELSE t + 1

CertainlyReadyBy(n, s) == Min({n.seq_release, s.gang, s.mutex, s.succ})

\* t_wc: by then some job is certainly dispatched.
TWorkConserving(n, s) == MaxOf(Avail(s, 1).max, CertainlyReadyBy(n, s))

\* An upper bound on t_wc over the states of the node.
LatestTwc(n) == MaxOf(n.a_max, Min({n.next_succ, n.seq_release, n.next_gang, n.next_mutex}))

HigherThan(j, js, n) == {k \in js \ n.scheduled : HigherPriority(k, j)}
ReleasedFrom(js, n) == {k \in js : Arrival(k).max >= n.source_release}

\* A sequential source job of higher priority than j is certainly released.
THighSequential(n, j) ==
    Min(LatestArrivals(ReleasedFrom(HigherThan(j, SequentialIndependentJobs, n), n))
            \cup {After(LatestTwc(n))})

\* The same for the gang, the mutex and the ready successor jobs, when j is
\* dispatched next on ncores in the state s.
THighGang(n, s, j, ncores) ==
    Earliest({IF MinParallelism(k) > ncores
              THEN MaxOf(Arrival(k).max, Avail(s, MinParallelism(k)).max) ELSE Arrival(k).max :
                 k \in ReleasedFrom(HigherThan(j, GangIndependentJobs, n), n)})

THighMutex(n, s, j, ncores) ==
    Earliest({ConditionalLatestReadyTime(n, s, k, j, ncores) :
                 k \in ReleasedFrom(HigherThan(j, MutexSourceJobs, n), n)})

THighSuccessor(n, s, j, ncores) ==
    LET relevant == {k \in n.ready : HigherPriority(k, j) /\ j \notin Incompatible(k)}
        certain  == {k \in relevant : \A sib \in Siblings(k) : HigherPriority(sib, j)}
    IN  Earliest({Max({ConditionalLatestReadyTime(n, s, sib, j, ncores) : sib \in Siblings(k)}) :
                     k \in certain})

THigh(n, s, j, ncores) ==
    Min({THighSequential(n, j), THighSuccessor(n, s, j, ncores),
         MinOf(THighGang(n, s, j, ncores), After(TWorkConserving(n, s))),
         MinOf(THighMutex(n, s, j, ncores), After(TWorkConserving(n, s)))})

\* By then the scheduler would give j more cores than ncores.
TMoreCores(s, j, ncores) ==
    LET more == {p \in Parallelism(j) : p > ncores}
    IN  IF more = {} THEN Infinity ELSE Avail(s, Min(more)).max

EarliestStart(n, s, j, ncores) == MaxOf(ReadyTimes(n, s, j).min, Avail(s, ncores).min)

\* Faulty variant of LatestStart: the job waits for no core.
LatestStartOnFreeCores(n, s, j, ncores) ==
    Min({ReadyTimes(n, s, j).max, TWorkConserving(n, s),
         MinOf(THigh(n, s, j, ncores), TMoreCores(s, j, ncores)) - 1})

LatestStart(n, s, j, ncores) ==
    Min({MaxOf(ReadyTimes(n, s, j).max, Avail(s, ncores).max), TWorkConserving(n, s),
         MinOf(THigh(n, s, j, ncores), TMoreCores(s, j, ncores)) - 1})

\* No other job is certainly dispatched before j can start on ncores.
Feasible(n, s, j, ncores) ==
    LET est == EarliestStart(n, s, j, ncores)
    IN  /\ s.min_prio # 0 => ~HigherPriority(s.min_prio, j)
        /\ est <= TWorkConserving(n, s)
        /\ est < THigh(n, s, j, ncores)
        /\ est < TMoreCores(s, j, ncores)

\* The states of n and the levels of parallelism with which j may come next.
Options(n, j) ==
    {o \in (DOMAIN n.states) \X Parallelism(j) : Feasible(n, n.states[o[1]], j, o[2])}

\* The jobs that may be dispatched next in the node.
Candidates(n) ==
    {j \in {k \in SourceJobs \ n.scheduled : Arrival(k).min >= n.release} \cup n.ready :
        Arrival(j).min <= LatestTwc(n) /\ Arrival(j).min < THighSequential(n, j)}

\* The source jobs come first, by earliest arrival, then the ready successors,
\* by priority.
ComesBefore(i, j) ==
    IF i \in SourceJobs THEN j \in SourceJobs => EarlierArrival(i, j)
                        ELSE j \notin SourceJobs /\ HigherPriority(i, j)

FirstOf(js) == CHOOSE j \in js : \A k \in js \ {j} : ComesBefore(j, k)
-----------------------------------------------------------------------------
(***************************************************************************)
(* The steps.                                                              *)
(***************************************************************************)
Init ==
    /\ problem \in Problems
    /\ sp_data = SpData
    /\ current_job_count = 0
    /\ nodes = [layer \in 0..(NumLayers - 1) |->
                   IF layer = 0 THEN <<AddState(InitialNode, InitialState)>> ELSE <<>>]
    /\ exploring = Idle
    /\ completion = <<>>
    /\ observed_deadline_miss = FALSE
    /\ aborted = FALSE

\* Faulty variant of NextDepth: the count of jobs runs round the ring.
NextLayer ==
    /\ exploring = Idle /\ ExplorationFront = <<>> /\ ~Explored /\ ~aborted
    /\ current_job_count' = Layer(current_job_count + 1)
    /\ UNCHANGED <<problem, sp_data, nodes, exploring, completion, observed_deadline_miss, aborted>>

\* The front is exhausted.
NextDepth ==
    /\ exploring = Idle /\ ExplorationFront = <<>> /\ ~Explored /\ ~aborted
    /\ current_job_count' = current_job_count + 1
    /\ UNCHANGED <<problem, sp_data, nodes, exploring, completion, observed_deadline_miss, aborted>>

\* A limit on time, memory or depth is reached: it is checked before each front
\* and after each node, the last one of a front too.
GiveUp ==
    /\ Limited
    /\ exploring = Idle /\ ~Explored /\ ~aborted
    /\ aborted' = TRUE
    /\ UNCHANGED <<problem, sp_data, current_job_count, nodes, exploring, completion, observed_deadline_miss>>

\* A node of the front is taken.  If none of its states can dispatch any job,
\* it is a dead end.
Explore(i) ==
    LET n    == ExplorationFront[i]
        jobs == {j \in Candidates(n) : Options(n, j) # {}}
        dead == jobs = {} /\ ~AllJobsScheduled(n)
    IN  /\ exploring = Idle /\ ~Explored /\ ~aborted
        /\ exploring' = IF jobs = {} THEN Idle
                        ELSE [node |-> n, jobs |-> jobs, left |-> Options(n, FirstOf(jobs)), next |-> 0]
        /\ nodes' = [nodes EXCEPT ![Layer(current_job_count)] = RemoveAt(@, i)]
        /\ observed_deadline_miss' = (observed_deadline_miss \/ dead)
        /\ aborted' = dead
        /\ UNCHANGED <<problem, sp_data, current_job_count, completion>>

\* Faulty variant of AbortTimes: no job is skipped.
CutAlways(j, start, finish) ==
    IF j \notin DOMAIN problem.abort THEN Interval(finish.min, finish.max)
    ELSE LET abort == Shift(problem.abort[j].trigger, problem.abort[j].cleanup)
         IN  Interval(MinOf(finish.min, abort.min), MinOf(finish.max, abort.max))

\* A job that has an abort action is skipped when it cannot start before the
\* latest trigger, else its finish times are cut at the abort times.
AbortTimes(j, start, finish) ==
    IF j \notin DOMAIN problem.abort THEN Interval(finish.min, finish.max)
    ELSE LET trigger == problem.abort[j].trigger
             abort   == Shift(trigger, problem.abort[j].cleanup)
         IN  IF start.min >= trigger.max THEN start
             ELSE Interval(MinOf(finish.min, abort.min), MinOf(finish.max, abort.max))

\* Faulty variant of WithCompletion: only the last dispatch is reported.
OverwriteCompletion(c, j, times) ==
    [k \in DOMAIN c \cup {j} |-> IF k = j THEN times ELSE c[k]]

\* The interval reported for a job covers all its dispatches.
WithCompletion(c, j, times) ==
    [k \in DOMAIN c \cup {j} |->
        IF k # j THEN c[k] ELSE IF j \in DOMAIN c THEN Widen(c[j], times) ELSE times]

\* Faulty variant of Misses: the job completes late whatever happens.
CertainlyMisses(j, finish) == finish.min > Deadline(j)

\* update_finish_times: the job can complete after its deadline.
Misses(j, finish) == finish.max > Deadline(j)

\* A node is found again by the set of its dispatched jobs: that of n and j
\* only, although dispatching j may discard other jobs too.  0 if there is none.
FindNode(layer, n, j) ==
    LET same == {i \in DOMAIN layer : /\ layer[i].scheduled = n.scheduled \cup {j}
                                      /\ Incompatible(j) = {j}}
    IN  IF same = {} THEN 0 ELSE Min(same)

LastState(n) == n.states[Len(n.states)]

\* The jobs that were not dispatched and can only miss their deadline when the
\* cores become available as in the last state of node next.  The search stops
\* at the first job that is not late, and at the first one that is.
GuaranteedMiss(n, next) ==
    LET from == Avail(n.states[1], 1).min
        Late(j) == Deadline(j) < Avail(LastState(next), MinParallelism(j)).min
        Before(i, j) == Deadline(i) < Deadline(j) \/ (Deadline(i) = Deadline(j) /\ i < j)
    IN  {j \in Jobs \ next.scheduled :
            /\ from <= Deadline(j)
            /\ Late(j)
            /\ \A i \in Jobs : from <= Deadline(i) /\ Before(i, j) => Late(i) /\ i \in next.scheduled}

\* The completion times that are reported for such a job.
LateTimes(next, j) ==
    LET p == MinParallelism(j) IN Shift(Avail(LastState(next), p), Cost(j)[p])

(***************************************************************************)
(* The next dispatch from the node being expanded: its first job, in one   *)
(* state, on one number of cores.                                          *)
(***************************************************************************)
CurrentJob == FirstOf(exploring.jobs)

CurrentOption ==
    CHOOSE o \in exploring.left : \A p \in exploring.left :
        o[1] < p[1] \/ (o[1] = p[1] /\ o[2] <= p[2])

CurrentState == exploring.node.states[CurrentOption[1]]

StartTimes ==
    Interval(EarliestStart(exploring.node, CurrentState, CurrentJob, CurrentOption[2]),
             LatestStart(exploring.node, CurrentState, CurrentJob, CurrentOption[2]))

FinishTimes ==
    LET cost == Cost(CurrentJob)[CurrentOption[2]]
    IN  AbortTimes(CurrentJob, StartTimes,
                   [min |-> StartTimes.min + cost.min, max |-> StartTimes.max + cost.max])

\* The layer with the node that the dispatch leads to, and where it is in it: a
\* node is created unless one was found for this state or another of the job.
TargetDepth == Layer(current_job_count + Cardinality(Incompatible(CurrentJob)))

Found ==
    IF Naive THEN 0
    ELSE IF exploring.next # 0 THEN exploring.next
    ELSE FindNode(nodes[TargetDepth], exploring.node, CurrentJob)

TargetLayer ==
    IF Found # 0 THEN nodes[TargetDepth]
    ELSE Append(nodes[TargetDepth], NextNode(exploring.node, CurrentJob))

Place == IF Found # 0 THEN Found ELSE Len(TargetLayer)

\* The node with the new state.
Target ==
    LET n == TargetLayer[Place]
    IN  NewOrMergeState(n, NewState(n, CurrentState, CurrentJob, StartTimes, FinishTimes,
                                    CurrentOption[2]))

Dispatch ==
    LET j      == CurrentJob
        target == Target
        missed == observed_deadline_miss \/ Misses(j, FinishTimes)
        last   == exploring.left = {CurrentOption}
        late   == IF EarlyExit /\ (Naive \/ (last /\ ~missed))
                  THEN GuaranteedMiss(exploring.node, target) ELSE {}
        times  == WithCompletion(completion, j, FinishTimes)
        over   == last \/ missed \/ late # {}    \* the dispatch of j is over
        rest   == exploring.jobs \ {j}
    IN  /\ exploring # Idle
        /\ nodes' = [nodes EXCEPT ![TargetDepth] = ReplaceAt(TargetLayer, Place, target)]
        /\ completion' = IF late = {} THEN times
                         ELSE WithCompletion(times, Min(late), LateTimes(target, Min(late)))
        /\ observed_deadline_miss' = (missed \/ late # {})
        /\ aborted' = (aborted \/ (EarlyExit /\ (Misses(j, FinishTimes) \/ late # {})))
        /\ exploring' = IF ~over THEN [exploring EXCEPT !.left = @ \ {CurrentOption}, !.next = Place]
                        ELSE IF rest = {} THEN Idle
                        ELSE [exploring EXCEPT !.jobs = rest, !.next = 0,
                                               !.left = Options(exploring.node, FirstOf(rest))]
        /\ UNCHANGED <<problem, sp_data, current_job_count>>

\* The main loop has ended.
Done == Finished /\ UNCHANGED explorationVars

Next ==
    \/ NextDepth
    \/ GiveUp
    \/ \E i \in DOMAIN ExplorationFront : Explore(i)
    \/ Dispatch
    \/ Done

Spec == Init /\ [][Next]_explorationVars
-----------------------------------------------------------------------------
(***************************************************************************)
(* Properties.                                                             *)
(***************************************************************************)
NodesOf(layer) == Range(nodes[layer])
KeptNodes ==
    (UNION {NodesOf(l) : l \in DOMAIN nodes}) \cup IF exploring = Idle THEN {} ELSE {exploring.node}
StatesOf(n) == Range(n.states)

\* Types, and what the classes promise of their own data: every state has a
\* sorted core availability, and what it records concerns dispatched jobs only.
TypeOK ==
    /\ current_job_count \in 0..Len(problem.job)
    /\ observed_deadline_miss \in BOOLEAN /\ aborted \in BOOLEAN
    /\ DOMAIN completion \subseteq Jobs
    /\ \A j \in DOMAIN completion : completion[j].min <= completion[j].max
    /\ \A n \in KeptNodes :
        /\ n.scheduled \subseteq Jobs /\ n.ready \subseteq Jobs
        /\ \A type \in Types : n.pending[type] \subseteq n.scheduled
        /\ \A s \in StatesOf(n) :
            /\ DOMAIN s.avail = 1..NumCores /\ IsTracker(s.avail)
            /\ DOMAIN s.running \cup DOMAIN s.start \cup DOMAIN s.finish \subseteq n.scheduled
            /\ s.min_prio \in n.ready \cup {0}

\* The ring of layers is large enough: although one dispatch may advance by
\* several depths, a layer never mixes nodes of different depths, and every
\* node counts as many jobs as its set of dispatched jobs has.
RingHoldsOneDepth ==
    \A l \in DOMAIN nodes : \A n \in NodesOf(l) :
        /\ n.num_jobs_scheduled = Cardinality(n.scheduled)
        /\ n.num_jobs_scheduled \in current_job_count..(current_job_count + NumLayers - 1)
        /\ Layer(n.num_jobs_scheduled) = l

\* upbnd_t_wc, which the node keeps up while states are added and merged, is
\* an upper bound of t_wc in each of its states.
WindowCoversStates ==
    \A n \in KeptNodes : \A s \in StatesOf(n) : TWorkConserving(n, s) <= LatestTwc(n)

\* The comment of Ready_jobs_tracker: the ready successors, which each node
\* derives from its parent's, are exactly the jobs not dispatched whose
\* predecessors are.
ReadyIsExact ==
    \A n \in KeptNodes :
        n.ready = {k \in SuccessorJobs \ n.scheduled :
                      \A e \in problem.prec : e.to = k => e.from \in n.scheduled}

\* What a state must know when it is asked how long a ready job waits: the
\* times of its predecessors (of the branch taken, for a join), and those of
\* the dispatched jobs that it excludes.  The lists are trimmed at each
\* dispatch and merged state by state.
RecordedTimesSuffice ==
    \A n \in KeptNodes : \A s \in StatesOf(n) : \A type \in Types :
        /\ \A j \in n.ready : IF IsJoin(j) THEN PrecedenceTimes(s, j) # {} ELSE ~LacksPredecessor(s, j)
        /\ \A j \in Jobs \ n.scheduled : \A c \in BindingExclusions(n, type, j) :
                IsRecorded(s, type, c.job)

\* state.hpp:651, assert(has_ft): certainly_finished is asked about a
\* predecessor of a ready job only when the finish time of the predecessor is
\* recorded.  It is asked about all of them unless one is not known to be
\* finished.  A join is the exception: those of its predecessors that are on
\* the branches not taken have no finish time, and the assertion does not
\* hold for them.
AskedFinishTimesAreRecorded ==
    \A n \in KeptNodes : \A s \in StatesOf(n) : \A j \in {k \in n.ready : ~IsJoin(k)} :
        LET after == Predecessors("finish", j)
            asked == {c \in after : NumCores > 1 \/ c.delay.max > 0}
            first == Avail(s, 1).min
        IN  /\ MinParallelism(j) = 1 /\ ~HasSiblings(j)
            /\ Arrival(j).max <= first
            /\ \A c \in Predecessors("start", j) : c.delay.max = 0
            /\ \A c \in asked : IsRecorded(s, "finish", c.job) =>
                  c.delay.max = 0 /\ IsCertainlyFinished(n, s, c.job)
            => \A c \in asked : IsRecorded(s, "finish", c.job)

\* The running jobs and the core availability agree: until the earliest finish
\* times of the jobs that are certainly running, their cores are not
\* available.  Freeing a predecessor's cores rests on it.
RunningJobsHoldCores ==
    \A n \in KeptNodes : \A s \in StatesOf(n) : \A k \in DOMAIN s.running :
        LET t == s.running[k].finish.min
        IN  Cardinality({i \in 1..NumCores : Avail(s, i).min >= t})
                >= CoresHeldBy(s.running, {r \in DOMAIN s.running : s.running[r].finish.min >= t})

\* The next dispatch starts certainly before its abort trigger, if it has one,
\* or certainly not before it.  For a trigger that may be on both sides of the
\* start, calculate_abort_time computes one of the two cases only.
TriggerIsClear ==
    exploring # Idle /\ CurrentJob \in DOMAIN problem.abort =>
        LET trigger == problem.abort[CurrentJob].trigger
        IN  StartTimes.max <= trigger.min \/ trigger.max <= StartTimes.min

\* A dispatched job whose trigger is on one side of its start does not complete
\* before it starts, whether it is aborted, skipped or neither: its finish times
\* are those that its cores become available at.
CompletesAfterStart ==
    exploring # Idle /\ TriggerIsClear => /\ StartTimes.min <= FinishTimes.min
                                          /\ StartTimes.max <= FinishTimes.max

\* The verdict is explained by the reported completion times: a deadline miss
\* is observed exactly when some job may complete late, and never because a
\* node with jobs left has no job to dispatch.
VerdictExplained ==
    Finished => (observed_deadline_miss <=> \E j \in DOMAIN completion :
                                                completion[j].max > Deadline(j))

\* A schedulable verdict comes with completion times of every job.
AllJobsReported == IsSchedulable => DOMAIN completion = Jobs

\* The exploration ends, whether it is exhausted or gives up.
Termination == <>Finished
-----------------------------------------------------------------------------
(***************************************************************************)
(* What comments and assertions of the source say, and the code does not   *)
(* meet in the problems that the runs *_violated give it.                  *)
(***************************************************************************)

\* space.hpp:954, "Since this job is is recorded as ready in the state, it
\* better be incomplete...": a ready successor was neither dispatched nor
\* discarded.
ReadyJobsAreIncomplete == \A n \in KeptNodes : n.ready \cap n.scheduled = {}

\* state_space_data.hpp:245, "only reason a predecessor of j might not have
\* start times is if it is a conditional join node": each state knows when the
\* predecessors started from whose start a ready job counts its delay.
StartTimesAreRecorded ==
    \A n \in KeptNodes : \A s \in StatesOf(n) : \A j \in {k \in n.ready : ~IsJoin(k)} :
        \A c \in Predecessors("start", j) : IsRecorded(s, "start", c.job)

\* state.hpp:53-55: at the time that the initial state keeps for gang jobs, one
\* of them "is certainly arrived and certainly has enough free cores".
InitialGangTimeIsCertain ==
    \A n \in KeptNodes : n.scheduled = {} =>
        \A s \in StatesOf(n) :
            s.gang < Infinity => \E j \in GangIndependentJobs : CertainlyFits(s, j) <= s.gang
=============================================================================
