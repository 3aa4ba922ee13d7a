------------------------------- MODULE Nptest -------------------------------
(***************************************************************************)
(* One run of nptest: the problem that was built is analysed under the     *)
(* options of the configuration and the result is saved and printed.       *)
(*                                                                         *)
(* The exploration is abstracted to one path through the schedule graph:   *)
(* of every node on it one dispatch is followed, which leads to the layer  *)
(* of as many jobs as are dispatched or discarded with a branch that was   *)
(* not taken.  What the dispatches of a node are is the subject of the     *)
(* module Exploration; here it matters which limits, pruning and logging   *)
(* conditions apply to them.                                               *)
(*                                                                         *)
(* A focus file is a record [loads, wrong, jobset, taskset, time, tasks,   *)
(* jobs, jobsets]: whether it is YAML, whether some value is not of the    *)
(* type it should have, and the conditions; jobs are given as sequences of *)
(* [ok, id].  A log file is [conditions, wrong, shown, shown_wrong]: two    *)
(* functions from the names of sections to their contents, each with the   *)
(* section at which reading it fails ("all" when the file is no YAML,      *)
(* "none" when reading does not fail).                                     *)
(***************************************************************************)
EXTENDS ProblemBuilder

CONSTANT Infinity   \* the largest time and depth

VARIABLES
    analysis,   \* the pruning and the logging condition
    progress,   \* how far the exploration is
    edges,      \* the dispatches that are logged
    output      \* what is printed and saved

vars == <<input, pc, exit_code, args_vars, config, problem, analysis, progress, edges, output>>
built == <<input, args_vars, config, problem>>

Jobs == DOMAIN problem.jobs
-----------------------------------------------------------------------------
(***************************************************************************)
(* Conditional branches, as in the module SchedulingProblem.               *)
(***************************************************************************)
Constraints ==
    [job  |-> [j \in Jobs |-> [type |-> IF problem.jobs[j].type = 1 THEN "C_FORK" ELSE "NORMAL"]],
     prec |-> ToSet(problem.prec)]

Graph == INSTANCE SchedulingProblem WITH problem <- Constraints, sp_data <- <<>>, Problems <- {}

Following(j) == Graph!SuccessorsOf(j)
Preceding(j) == {e.from : e \in {x \in ToSet(problem.prec) : x.to = j}}

\* The jobs that are not to be dispatched once j is: itself and those of the
\* branches that are not taken.
Incompatible(j) == Graph!FindIncompatible(j, Graph!BuildSiblings(j))
-----------------------------------------------------------------------------
(***************************************************************************)
(* Pruning.                                                                *)
(***************************************************************************)
NoPruning == [active |-> FALSE, jobs |-> {}, stop_job_sets |-> {}, time_limit |-> 0]

\* Pairs that are not written [task, job] are left out.
Pairs(list) == {list[i].id : i \in {i \in DOMAIN list : list[i].ok}}

\* Faulty variant of ParseFocus: what is not in focus is pruned, but what is to
\* be pruned is not.
FocusOnly(doc) ==
    [active |-> TRUE, time_limit |-> doc.time, stop_job_sets |-> {},
     jobs |-> {i \in Jobs : Pairs(doc.jobset) # {} /\ Id(problem.jobs[i]) \notin Pairs(doc.jobset)}]

ParseFocus(doc) ==
    IF ~doc.loads THEN [NoPruning EXCEPT !.active = TRUE]
    ELSE LET StopSet(list) == {LookupFirst(problem.jobs, id) : id \in Pairs(list) \cap JobIds(problem.jobs)}
             Pruned(job) ==
                \/ Id(job) \in Pairs(doc.jobs)
                \/ job.task \in doc.tasks
                \/ Pairs(doc.jobset) # {} /\ Id(job) \notin Pairs(doc.jobset)
                \/ doc.taskset # {} /\ job.task \notin doc.taskset
         IN  [active |-> TRUE, time_limit |-> doc.time,
              jobs |-> {i \in Jobs : Pruned(problem.jobs[i])},
              stop_job_sets |-> {StopSet(doc.jobsets[i]) : i \in DOMAIN doc.jobsets}]

\* prune_branch: node is the set of jobs that are dispatched or discarded,
\* available the time at which a core is free at the earliest.
PruneBranch(j, node, available) ==
    LET cond == analysis.prune
    IN  /\ cond.active
        /\ \/ j \in cond.jobs
           \/ \E stop \in cond.stop_job_sets : j \in stop /\ stop \ {j} \subseteq node
           \/ cond.time_limit > 0 /\ (problem.jobs[j].arrival.min > cond.time_limit \/ available > cond.time_limit)
-----------------------------------------------------------------------------
(***************************************************************************)
(* The condition under which a dispatch is logged.                         *)
(***************************************************************************)
LogSections == <<"all", "Time", "Depth", "Tasks", "Jobs", "Dispatched", "NotDispatched", "DeadlineMiss", "none">>
Section(name) == CHOOSE i \in DOMAIN LogSections : LogSections[i] = name

LogEverything ==
    [time |-> Interval(0, Infinity), depth |-> Interval(0, Infinity), tasks |-> {}, jobs |-> {},
     dispatched |-> {}, not_dispatched |-> {}, deadline_miss |-> FALSE]

\* A job that is not in the job set has the index that no job has.
Index(id) == IF id \in JobIds(problem.jobs) THEN LookupFirst(problem.jobs, id)
             ELSE Len(problem.jobs) + 1

\* The sections before the one that cannot be read apply.
ParseLogConfig(doc) ==
    LET Get(name, default) ==
            IF name \in DOMAIN doc.conditions /\ Section(name) < Section(doc.wrong)
            THEN doc.conditions[name] ELSE default
        Indices(name) == {Index(id) : id \in Get(name, {})}
    IN  [time |-> Get("Time", LogEverything.time), depth |-> Get("Depth", LogEverything.depth),
         tasks |-> Get("Tasks", {}), jobs |-> Indices("Jobs"), dispatched |-> Indices("Dispatched"),
         not_dispatched |-> Indices("NotDispatched"), deadline_miss |-> Get("DeadlineMiss", FALSE)]

\* is_true, with the node after the dispatch.
LogCondition(cond, node, j, start, missed, depth) ==
    \/ cond = LogEverything
    \/ /\ cond.dispatched \subseteq node
       /\ cond.not_dispatched \cap node = {}
       /\ cond.deadline_miss => missed
       /\ cond.depth.min <= depth /\ depth <= cond.depth.max
       /\ cond.time.min <= start.max /\ start.min <= cond.time.max
       /\ cond.jobs = {} \/ j \in cond.jobs
       /\ cond.tasks = {} \/ problem.jobs[j].task \in cond.tasks

\* The start times and the depth are not kept in an edge of the code.
Edge(j, start, finish) ==
    [job |-> j, source |-> progress.node, target |-> progress.node \cup Incompatible(j),
     start |-> start, finish |-> finish, depth |-> progress.depth]

\* Faulty variant of LogJobDispatched: the condition looks at the node before
\* the dispatch.
LogFromSource(j, start, finish) ==
    LET missed == finish.max > problem.jobs[j].deadline
    IN  edges' = IF analysis.log /\ LogCondition(analysis.log_cond, progress.node, j, start, missed, progress.depth)
                 THEN Append(edges, Edge(j, start, finish)) ELSE edges

LogJobDispatched(j, start, finish) ==
    LET missed == finish.max > problem.jobs[j].deadline
        target == progress.node \cup Incompatible(j)
    IN  edges' = IF analysis.log /\ LogCondition(analysis.log_cond, target, j, start, missed, progress.depth)
                 THEN Append(edges, Edge(j, start, finish)) ELSE edges
-----------------------------------------------------------------------------
(***************************************************************************)
(* analyze: the options of the analysis are read and the initial node made.*)
(***************************************************************************)
\* depth is the layer that is explored, count the layer of the node of the path.
NewProgress == [depth |-> 0, count |-> 0, node |-> {}, ready |-> {}, available |-> 0, front |-> TRUE, aborted |-> FALSE,
                missed |-> FALSE, timed_out |-> FALSE, out_of_memory |-> FALSE, finish |-> <<>>]

EarliestCore ==
    IF problem.platform = <<>> THEN 0
    ELSE Min({problem.platform[i].min : i \in DOMAIN problem.platform})

PruningAsked == Has("PRUNING") /\ config.want_focus /\ config.focus_file # ""
LogAsked == Has("COLLECT_SCHEDULE_GRAPH") /\ config.dot_file # ""

\* The windows of misses of the initial state: one for each of the tasks 0, 1, ...
WindowsExist == \A t \in 0..(Cardinality(DOMAIN problem.mk) - 1) : t \in DOMAIN problem.mk

Analyze ==
    /\ pc = "analysis"
    /\ IF \/ PruningAsked /\ ~CanOpen(config.focus_file)
          \/ PruningAsked /\ input.files[config.focus_file].loads /\ input.files[config.focus_file].wrong
          \/ LogAsked /\ ~CanOpen(config.dot_file)
          \/ ~WindowsExist
       THEN Exit(1) /\ UNCHANGED <<analysis, progress>>
       ELSE /\ analysis' =
                [prune |-> IF PruningAsked THEN ParseFocus(input.files[config.focus_file]) ELSE NoPruning,
                 log |-> config.want_dot_graph,
                 log_cond |-> IF LogAsked THEN ParseLogConfig(input.files[config.dot_file]) ELSE LogEverything]
            /\ progress' = [NewProgress EXCEPT !.available = EarliestCore]
            /\ pc' = "explore" /\ UNCHANGED exit_code
    /\ UNCHANGED <<built, edges, output>>
-----------------------------------------------------------------------------
(***************************************************************************)
(* The exploration.                                                        *)
(***************************************************************************)
DepthExceeded == config.max_depth > 0 /\ progress.depth > config.max_depth

\* The jobs without predecessors that are left, and the successors that have
\* become ready.
Eligible == {j \in Jobs \ progress.node : Preceding(j) = {}} \cup progress.ready

\* The node after the dispatch of j.  The jobs that are discarded with it count
\* as scheduled: a join is ready when one of its branches is through.
NextNode(j) ==
    LET node == progress.node \cup Incompatible(j)
    IN  [progress EXCEPT !.node = node, !.count = @ + Cardinality(Incompatible(j)),
                         !.ready = {k \in @ : j \notin Incompatible(k)}
                                        \cup {k \in Following(j) : Preceding(k) \subseteq node}]

\* Faulty variant of Exploring: one layer too many.
ExploringPastEnd == pc = "explore" /\ progress.depth <= Len(problem.jobs)

Exploring == pc = "explore" /\ progress.depth < Len(problem.jobs)
InLayer == progress.front /\ progress.depth = progress.count
InNode == Exploring /\ InLayer /\ ~DepthExceeded

Stop(p) == progress' = [p EXCEPT !.aborted = TRUE] /\ pc' = "results"

\* Faulty variant of SkipLayer: the depth is not advanced.
StayInLayer ==
    /\ Exploring /\ ~InLayer
    /\ UNCHANGED vars

\* An empty layer is passed over, without a look at the limits.
SkipLayer ==
    /\ Exploring /\ ~InLayer
    /\ progress' = [progress EXCEPT !.depth = @ + 1]
    /\ UNCHANGED <<built, pc, exit_code, analysis, edges, output>>

\* A layer that the path leaps over may hold nodes of other paths, and then the
\* limits are looked at.
CheckLimits ==
    /\ Exploring /\ progress.front
    /\ \/ DepthExceeded /\ Stop(progress)
       \/ config.timeout > 0 /\ Stop([progress EXCEPT !.timed_out = TRUE])
       \/ config.mem_max > 0 /\ Stop([progress EXCEPT !.out_of_memory = TRUE])
    /\ UNCHANGED <<built, exit_code, analysis, edges, output>>

\* The last abort action of a job applies, and to the first job with its id: the
\* job is skipped when it starts after the trigger, else it ends by the abort.
AbortTimes(j, start, finish) ==
    LET actions == {i \in DOMAIN problem.aborts : LookupFirst(problem.jobs, problem.aborts[i].id) = j}
        action  == problem.aborts[Max(actions)]
    IN  IF actions = {} THEN finish
        ELSE IF start.min >= action.trigger.max THEN start
        ELSE Interval(MinOf(finish.min, action.trigger.min + action.cleanup.min),
                      MinOf(finish.max, action.trigger.max + action.cleanup.max))

FinishTimes(j, start) ==
    LET cost == problem.jobs[j].cost[Min(DOMAIN problem.jobs[j].cost)]
    IN  AbortTimes(j, start, Interval(start.min + cost.min, start.max + cost.max))

\* The job starts when it is there and a core is; it may start up to one instant
\* later.  After it a core is free at once, or when it is finished.  A layer
\* counts as explored when the exploration stops in it.
Dispatch(j) ==
    LET earliest == MaxOf(progress.available, problem.jobs[j].arrival.min)
    IN  /\ InNode /\ j \in Eligible
        /\ ~PruneBranch(j, progress.node, progress.available)
        /\ \E start \in {Interval(earliest, earliest + slack) : slack \in 0..1},
              late \in IF config.timeout > 0 THEN BOOLEAN ELSE {FALSE} :
            LET finish == FinishTimes(j, start)
                missed == finish.max > problem.jobs[j].deadline
                after  == [NextNode(j) EXCEPT
                            !.depth = @ + 1, !.missed = @ \/ missed, !.timed_out = late,
                            !.finish = [i \in DOMAIN @ \cup {j} |-> IF i = j THEN finish ELSE @[i]]]
            IN  /\ LogJobDispatched(j, start, finish)
                /\ IF late \/ (missed /\ ~config.continue_after_dl_miss)
                   THEN Stop(after)
                   ELSE /\ \E free \in {progress.available, finish.min} :
                            progress' = [after EXCEPT !.available = free]
                        /\ UNCHANGED pc
        /\ UNCHANGED <<built, exit_code, analysis, output>>

\* No job is eligible although some are left.
DeadEnd ==
    /\ InNode /\ progress.count # Len(problem.jobs)
    /\ Stop([progress EXCEPT !.missed = TRUE, !.depth = @ + 1])
    /\ UNCHANGED <<built, exit_code, analysis, edges, output>>

\* All jobs that may come next are pruned: the path ends, and this is not a dead
\* end.
Prune ==
    /\ InNode
    /\ \E j \in Eligible : PruneBranch(j, progress.node, progress.available)
    /\ progress' = [progress EXCEPT !.front = FALSE, !.depth = @ + 1]
    /\ UNCHANGED <<built, pc, exit_code, analysis, edges, output>>

ExplorationEnds ==
    /\ pc = "explore" /\ progress.depth >= Len(problem.jobs)
    /\ pc' = "results"
    /\ UNCHANGED <<built, exit_code, analysis, progress, edges, output>>
-----------------------------------------------------------------------------
(***************************************************************************)
(* The results.                                                            *)
(***************************************************************************)
IsSchedulable == ~progress.aborted /\ ~progress.missed

\* Faulty variant of Verdict: the depth limit is looked at first.
LimitFirst ==
    IF config.max_depth # 0 /\ config.max_depth <= progress.depth THEN "X"
    ELSE IF IsSchedulable THEN "1" ELSE "0"

\* print_result: the verdict of the line that is printed.
Verdict ==
    IF ~IsSchedulable THEN "0"
    ELSE IF config.max_depth # 0 /\ config.max_depth < progress.depth THEN "X" ELSE "1"

\* The response times of a job that was never dispatched are defaults.
ResponseTimes ==
    [j \in Jobs |->
        LET finish == IF j \in DOMAIN progress.finish THEN progress.finish[j] ELSE Interval(0, Infinity)
            arrival == problem.jobs[j].arrival.min
        IN  [completion |-> finish, best |-> MaxOf(0, finish.min - arrival), worst |-> finish.max - arrival]]

\* Whether each of the items (four of ten) is shown in the graph; what stands
\* after the item that cannot be read keeps its default.
DotItems == <<"all", "DispatchedJob", "StartTime", "FinishTime", "NodeKey", "none">>
DotItem(name) == CHOOSE i \in DOMAIN DotItems : DotItems[i] = name
DotDefaults == [DispatchedJob |-> TRUE, StartTime |-> TRUE, FinishTime |-> TRUE, NodeKey |-> FALSE]

ParseDotFileConfig(doc) ==
    [item \in DOMAIN DotDefaults |->
        IF item \in DOMAIN doc.shown /\ DotItem(item) < DotItem(doc.shown_wrong)
        THEN doc.shown[item] ELSE DotDefaults[item]]

SavedFiles ==
    (IF config.want_rta_file THEN {"rta"} ELSE {})
        \cup (IF config.want_width_file THEN {"width"} ELSE {})
        \cup (IF config.want_deadline_miss_info /\ progress.missed THEN {"dl_miss"} ELSE {})
        \cup (IF config.want_dot_graph THEN {"dot"} ELSE {})

\* A log file that is no YAML is an error only now, for the graph.
GraphFails == config.want_dot_graph /\ LogAsked /\ input.files[config.dot_file].wrong = "all"

Report ==
    /\ pc = "results"
    /\ IF GraphFails THEN Exit(1) /\ UNCHANGED output
       ELSE /\ Exit(0)
            /\ output' = [verdict |-> Verdict, jobs |-> progress.depth, timeout |-> progress.timed_out,
                          mem_out |-> progress.out_of_memory, cpus |-> config.num_processors,
                          files |-> SavedFiles, rta |-> ResponseTimes,
                          shown |-> IF LogAsked THEN ParseDotFileConfig(input.files[config.dot_file])
                                    ELSE DotDefaults]
    /\ UNCHANGED <<built, analysis, progress, edges>>
-----------------------------------------------------------------------------
Init ==
    /\ CommandLineInit
    /\ config = DefaultConfig /\ problem = EmptyProblem
    /\ analysis = <<>> /\ progress = NewProgress /\ edges = <<>> /\ output = <<>>

ReadArgs == ParseArgs /\ UNCHANGED <<config, problem, analysis, progress, edges, output>>
Configure == (ParseConfigFile \/ ParseInputOptions) /\ UNCHANGED <<problem, analysis, progress, edges, output>>
Build == BuildProblem /\ UNCHANGED <<analysis, progress, edges, output>>
Explore ==
    \/ SkipLayer \/ CheckLimits \/ DeadEnd \/ Prune \/ ExplorationEnds
    \/ \E j \in Jobs : Dispatch(j)

Done == pc = "done" /\ UNCHANGED vars

Next == ReadArgs \/ Configure \/ Build \/ Analyze \/ Explore \/ Report \/ Done

\* The steps behind the reading of the problem, which is a fixed sequence.
Run == (RegisterExtensions /\ UNCHANGED <<analysis, progress, edges, output>>) \/ Analyze \/ Explore \/ Report

\* The program runs until it ends.
Spec == Init /\ [][Next]_vars /\ WF_vars(Run)
=============================================================================
