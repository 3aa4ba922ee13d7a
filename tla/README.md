# Schedule-abstraction graphs in TLA+

TLA+ modules, TLC configurations and TLAPS proofs for the schedule-abstraction
graph (SAG) analysis: the reachability-based response-time analysis of a set of
non-preemptive jobs under global job-level fixed-priority scheduling
(`src/README.md`). Paths below are relative to the repository; unless said
otherwise files are in `src/include/global/`.

Commands, in this directory: `tlasany M.tla` parses a module, `tlc -config X.cfg
M.tla` checks a configuration, `tlapm P.tla` checks the proofs of a module whose name ends in
`Proofs`.

## 1. The system

The program reads jobs (arrival window, execution time for every level of
parallelism, priority, deadline, type), precedence and mutual-exclusion
constraints with delays, abort actions and the initial availability of each
core. It builds a graph, depth by depth: a *node* is a set of dispatched jobs, each
of its *states* abstracts all the executions that dispatched exactly these jobs.
For each job it reports an interval that must contain every possible completion
time, and a verdict on the deadlines.

| Component | State it keeps | Operations | Interacts with |
|---|---|---|---|
| Time intervals (`../interval.hpp`, `../time.hpp`) | two bounds | contain, (dis)joint, widen, shift | everything |
| Scheduling problem (`../problem.hpp`, `../jobs.hpp`, `../precedence.hpp`, `../exclusion.hpp`, `../aborts.hpp`) | read-only data | look-ups, priority order | read by all |
| Inter-job constraints (`../inter_job_constraints.hpp`) | predecessors, successors, exclusions of each job | built once, queried | ready times, trackers |
| Conditional dispatch (`../conditional_dispatch_constraints.hpp`) | siblings and incompatible jobs of each job | built once, queried | nodes, pending lists |
| State-space data (`state_space_data.hpp`) | classes of jobs by arrival | ready times, times by which a higher-priority job is certainly ready | exploration, trackers |
| Core availability tracker (`trackers/core_availability_tracker.hpp`) | for every p, when p cores become available | initialise, update, merge, overlap | state |
| Other trackers (`trackers/`) | running jobs, start and finish times, certain dispatch times, lowest priority | update at a dispatch, merge | state |
| Schedule state (`state.hpp`) | the trackers | construct, `can_merge_with`, `merge` | node |
| Schedule node (`node.hpp`) | dispatched jobs, ready successors, jobs with pending successors, list of states, bounds over the states | construct by dispatch, `add_state`, `merge_states` | exploration |
| Exploration (`space.hpp`) | ring of layers of nodes, depth, completion times, verdict, flags | main loop, `explore(node)`, `dispatch`, early exit, limits | states manager, nodes |
| States manager and pools (`states_manager.hpp`, `../object_pool.hpp`) | nodes of the layers, look-up table, recycled objects | `new_node`, `find_node`, release | exploration |
| Parallel build (`CONFIG_PARALLEL`) | the same, shared by workers | the body of the main loop in parallel, locks in node and manager | all of the above |
| MK-firm extension (`extension/mk-firm/`) | windows of certain and of potential misses per task in each state; misses per job | update, merge, submit, export | state, extension framework |
| Pruning (`secateur.hpp`, `../pruning_cond.hpp`) | jobs to prune, stop sets, a limit of time | read the focus file, guard on candidates | exploration |
| Resource monitor, statistics | times, memory, counters | limits, measurements | exploration |
| Command line (`../../src/nptest.cpp`, option parser) | options set by the user, arguments left over | declare, parse | configuration |
| Configuration (`../analysis_config.hpp`) | one record of some forty settings | defaults, YAML file, options on top | builder, run, results |
| Input files (`../io.hpp`) | position in a file | one reader for each kind of file and format | builder |
| Problem builder (`../problem_builder.hpp`) | the problem under construction | read in order, resolve ids, rank, validate | input files, exploration |
| Results (`../analysis_result.hpp`, `nptest.cpp`) | the results of one run | verdict, response times, saved files, exit code | exploration, user |
| Schedule graph log (`../logger.hpp`) | logged edges, a condition | record at a dispatch, print the graph | exploration |

What is hard in this code:

* **Long protocols of incremental updates.** Every tracker is derived from its
  predecessor at each dispatch, trimmed to what may still be asked for, and widened
  at each merge. A wrong bound shows only several dispatches and merges later.
* **Order.** Which states are merged depends on the order in which nodes are
  expanded and states arrive. Soundness must not.
* **Caches of bounds.** A node keeps bounds over its states and a window of
  candidate jobs derived from them; states change in place under it.
* **Boundaries.** The latest start is the minimum of four bounds minus an
  instant; ties at this instant decide.
* **Skipped depths.** With conditional branches one dispatch discards several
  jobs, so that a node appears several depths ahead in a ring of layers.
* **Partial stops.** Early exit, dead ends and limits stop an expansion
  midway, and the results must still agree with one another.
* **Many small decisions before and after the analysis.** Three layers of configuration name each other's
  options by text; files may be half read when an error ends the reading; ids become
  indices; the printed verdict combines the result with the limits.
* **Concurrency** in the parallel build: workers share the nodes of the next depth, whose
  look-up, creation and filling are separate steps, and two plain flags.

What makes each part correct: the tracker must describe every execution of its
state (`CertainlyAvailable`, `PossiblyAvailable`); the running jobs must agree with
it (`RunningJobsHoldCores`); the node's bounds must cover its states
(`WindowCoversStates`) and its ready list must be exact (`ReadyIsExact`); the
trimmed lists must hold all that a later dispatch reads (`RecordedTimesSuffice`); the
ring must be long enough (`RingHoldsOneDepth`); the exploration must end
(`Termination`) with results that agree (`VerdictExplained`,
`AllJobsReported`); and the whole must be sound (`SoundCompletion`,
`SchedulableIsSafe`). Parallel workers must lose and invent nothing (`NothingLost`,
`ResultsComplete`, `NoMissOverlooked`, `MissIsReal`), and the reported numbers of misses must
bound those of every execution (`NeverMoreMisses`, `NeverFewerUnlessUncertain`). Around the
analysis, what is analysed must be what was written (`ReadAsWritten`, `CommandLineWins`) and
consistent (`AcceptedIsConsistent`, `RanksRespectOrder`), a focus or a log must contain what was asked for
(`FocusRespected`, `LoggedAsAsked`), and what is printed must be earned
(`VerdictEarned`, `ExitCodeExplained`).

## 2. The modules

```
Intervals <- CoreTracker <- CoreAvailability <- CoreAvailabilityProofs --> CoreTrackerProofs
                    ^               ^---------- MCCoreAvailability              ^
                    |                          ExplorationProofs (Exploration) -'
                    |
             SchedulingProblem <- ScheduleState <- Exploration <- SagSoundness <- ExplorationRefinement
                                       MCProblems --> MCExploration, MCSag             |      ^
                                                                             (INSTANCE) v      |
                                                 LayeredSearchProofs --> LayeredSearch        |
                                              ExplorationProofs <------------ SoundnessProofs

Intervals <- ParallelFront <- MCParallelFront       Intervals <- MKFirm <- MCMKFirm
             ParallelFront <- ParallelFrontProofs                MKFirm <- MKFirmProofs

CommandLine <- AnalysisConfig <- InputFiles <- ProblemBuilder <- Nptest <- NptestProperties <- MCReading
                                                                        NptestProperties <- NptestProofs
```

* **Intervals**: closed intervals of discrete time as `[min, max]` records.
* **CoreTracker**: the operations of `Core_availability_tracker`. The update loops
  over two lists that insert `ncores_used` copies of a finish time are one
  definition each (`InsertFinish`), without recursion, so that they can be proved about.
* **CoreAvailability**: a state machine around the tracker. `Branches` are states that
  the exploration follows side by side; `Dispatch` applies `update`, with any
  earliest ready time, latest start, execution time and number of freed cores;
  `MergeStates` applies `merge`. Beside them the module follows one *execution*
  (`free`, `now`) that `at` says which state stands for; a dispatch in that state
  makes the execution run the job at some instant that the interval allows. The two
  safety properties relate the trackers to that execution.
* **SchedulingProblem**: the input as a record, and what the constructors of
  `Inter_job_constraints`, `Conditional_dispatch_constraints` and
  `State_space_data` compute from it, once, into `sp_data`.
* **ScheduleState**: the other trackers, a state's construction by a dispatch
  (`NewState`), the merge test and the merge; ready times and conditional ready
  times. The fields of the records are listed in the module's header.
* **Exploration**: nodes and the analysis itself. Its actions and the code:

  | Action | Code |
  |---|---|
  | `Init` | `make_initial_node`, the constructors of the first node and state |
  | `Explore(i)` | `explore(node)`: a node is taken from the front; the candidate jobs are those of its window; a node without any is a dead end |
  | `Dispatch` | one iteration of the two loops of `dispatch`: one state, one level of parallelism. Start and finish intervals, abort action, completion times, look-up or creation of the next node, the new state, its merge, and the early-exit checks |
  | `NextDepth` | the end of an iteration of the main loop |
  | `GiveUp` | `check_cpu_time`, `check_memory_usage`, `check_depth_abort` reach their limit |
  | `Done` | the loop has ended |

  The candidates of a node are computed when it is taken, as the code's loop could: a
  node is never changed while it is expanded, since a dispatch only
  reaches deeper layers. The order of the candidates is kept, it matters after a miss.
  The nodes of a front are taken in *any* order, a superset of what the containers of
  the code do; the states of a node are kept in order.
* **SagSoundness**: the environment that the analysis is about. When the exploration is
  over, an execution scenario is chosen (arrivals, delays, branches, abort triggers and
  clean-ups within the problem's bounds) and the scheduler executes it: the
  highest-priority ready job that fits starts on as many cores as it can use, and time
  passes only when nothing fits.
* **LayeredSearch**: what the exploration promises without states, bounds and merging: layers of sets of
  jobs, each finished before the next one is begun; a node leads to larger sets, possibly several layers
  on; reported intervals only widen; a miss is seen when an interval shows it.
* **ExplorationRefinement**: the refinement mapping. The ring of layers becomes a function of the depth (empty
  outside the window that the ring holds), a node its set of jobs, the flags and completion times themselves.
  `ImplementsLayeredSearch` says that every step of `Exploration` is a step of `LayeredSearch` or a
  stutter. It breaks when the ring is one layer short, when a node is lost or put back, when a reported
  interval shrinks or a miss is seen late.
* **ParallelFront**: the workers of the parallel build on one front. What is dispatched is given
  (that is the subject of `Exploration`); the steps of a worker are cut where it touches what it
  shares:

  | Action | Code |
  |---|---|
  | `Pop` | `try_pop` and the test of `aborted` in the lambda of `parallel_for` |
  | `UpdateCompletion` | `update_finish_times`, under the mutex of the job, and the flags it sets |
  | `FindNode`, `NewNode`, `CacheNode` | `find_node`; `new_node`, which fills the layer; `cache_node` |
  | `NewState` | the unlocked read of `get_states()->empty()` |
  | `TryMerge`, `Add` | `merge_states` and `add_state`, each under the write lock of the node |
  | `CountEdge` | the test of `observed_deadline_miss` that ends `dispatch` |
  | `CheckForDeadlineMisses` | `check_for_deadline_misses` on the last state of the next node |
  | `EndNode`, `EndFront` | the dead-end test of `explore(node)`; the end of `parallel_for` |

  The flags `aborted` and `observed_deadline_miss` are plain booleans: a worker that has not set
  one itself may or may not see that another one has (`Sees`).
* **MKFirm**: the windows of misses of one task (`Misses_window`) in states that dispatch, merge
  and branch, and the misses reported for each job. A window is the set of positions that hold a
  miss. Like `CoreAvailability` it follows one execution beside the states (`actual`,
  `counted`), which the properties compare with what is reported.
* **CommandLine ... NptestProperties**: one run of the program `nptest`, from its arguments to its exit code,
  a chain of modules that each add the variables of a component:

  | Module | Actions | Code |
  |---|---|---|
  | `CommandLine` | `HandleLongOpt`, `HandleShortOpt`, `HandleText`, `HandleEnd`, `ArgsParsed` | the options declared in `main`, `OptionParser::parse_args` and its handlers |
  | `AnalysisConfig` | `ParseConfigFile`, `ParseInputOptions` | `parse_config_file`, `parse_input_options`, the limits and merge levels |
  | `InputFiles` | (operators) | the readers of `io.hpp` and of the (m,k) constraints |
  | `ProblemBuilder` | `ParseJobs`, `BuildGraph`, `ParseMutexes`, `ParsePlatform`, `ParseAborts`, `MakeProblem`, `RegisterExtensions` | `build_problem` step by step, `get_jobs_ranks`, the constructor of the problem |
  | `Nptest` | `Analyze`, `SkipLayer`, `CheckLimits`, `Dispatch`, `DeadEnd`, `Prune`, `ExplorationEnds`, `Report` | `analyze`, the loop of the exploration along one path, pruning, logging, `print_result` and the saved files |

  A CSV file is a sequence of tokens and line ends, since what matters of the text is where a number, a word, a brace
  or the end of a line stands; a reader is the function from positions to what is read that the
  stream operations compute. A YAML file is a document. `NptestProperties` compares what reaches the
  analysis with the problem that the files were written from (`input.meant`).
  In `Nptest` the exploration is one path through the schedule graph: of each node one dispatch is followed, with
  start times in a small range. Forks, joins and abort actions are as in `Exploration`, by the same operators of `SchedulingProblem`: a
  dispatch discards the alternatives to its job, leads to the layer of as many jobs as were dispatched or discarded, and may
  make a join ready. Which dispatches a node has belongs to `Exploration`; here it matters which limits,
  pruning and logging conditions apply to a dispatch and how they combine into the result.
* **MCProblems** holds families of small problems, **MC...** modules combine them.

## 3. What the runs check

| Run | Configuration | Shows |
|---|---|---|
| `tracker` | `CoreAvailability.cfg` | the tracker always covers the execution, 3 cores, 2 states, times 0..3 (21,835 states) |
| `sag` | `Sag.cfg` | step by step, the internal data of the exploration agree with one another, it implements `LayeredSearch` and ends; then every execution of every scenario lies in the reported intervals, and a schedulable verdict is safe (646 problems with their options, 68,242 states) |
| `reading` | `Reading.cfg` | 842 uses of the program are read, refused, analysed and reported as they should be (98,790 states) |
| `parallel_front` | `ParallelFront.cfg` | two workers on seven fronts of four nodes lose and invent nothing and always end (309,023 states) |
| `mk_firm` | `MKFirm.cfg` | the reported misses bound those of every execution, a window of 3, 4 jobs, 2 states (184,492 states) |
| `abort_at_start`, `merged_branches`, `forgotten_start`, `revived_job`, `initial_gang_time`, `fewer_misses`, `command_line` | `*Violated.cfg` | where the code does not meet what a comment, an assertion or `src/README.md` says (section 4) |

**Bounds.** In `tracker`, three cores are the least with a dispatch that leaves a core
untouched, takes one and takes a freed one; two states are what a merge needs, and the times are
large enough for jobs of different lengths to overtake each other. The symmetric
values (cores, states) are not distinguished by any operation. The run may deadlock:
once all instants up to `MaxTime` are used no dispatch is left, so deadlock is not checked.

The problems of `MCProblems` have three to eight jobs on one to three cores. The
families are chosen so that each mechanism decides something: priority ties and
overtaking (`Sequential`), gang and moldable jobs (`Gang`, `Mixed`), delays after starts and
finishes (`Precedence`), exclusions with and without precedence (`Exclusive`), four jobs in many
orders, which makes most merges (`Crowd`), forks and joins (`Conditional`, `Branches`,
with a nested fork and branches of different lengths, which skips depths), abort
actions (`Aborted`) and tight deadlines (`DueBy`). Within a family all combinations of a few
timings are taken, under the merge options of the command line: none of the exact
options changes what is reported for an execution, only which states share a node's
list. `Infinity` is 1000, far above any instant of a problem; `After` wraps around at
it as 64-bit times do. Within one problem the steps are almost deterministic; the
branching is in the order of nodes, the limits and the scenarios. Every
execution scenario of each problem of `SoundnessProblems` is run; those of `ExploredProblems` have too many, and
are only explored.

In `reading` the inputs are generated, not listed: small problems with every kind of constraint are
written in every format and layout (`Written`), with all graphs on three jobs, cyclic ones too (`Graphs`);
every file is broken by losing, replacing or inserting a token at every position
(`BrokenCsv`, `BrokenYaml`); configuration files with every kind of entry meet lists of arguments that hold every option
(`Overridden`); limits, focus files and logging conditions are combined with jobs that are early or late, and with a fork and
a join, whose dispatches skip layers (`Branched`). Three jobs are what a chain with a
middle needs and two tasks what a task filter needs. An unassigned variable reads as one of `Garbage`.

In `parallel_front` four nodes are the fewest that the code explores in parallel, and two workers
suffice for every race between a step and another worker's. In `Meeting` several nodes
lead to the same set of jobs with states that overlap, are consecutive or apart; in `Missing` a job may
be late, is certainly too late after some dispatches only, or a node is a dead end, with and without
early exit. The front ends, hence deadlock is not checked; `FrontEnds` says that it
does. In `mk_firm` four jobs are one more than the window holds, so that a miss leaves it after a merge;
the jobs and the states are symmetric, and the run stops when all jobs are dispatched.

**Problems that are legal.** The families only hold problems that the validation of the
program accepts. An exclusion between starts has a positive delay, and a job
directly follows at most one fork (the code keeps one list of siblings for a job).

**Fairness.** `SagFairSpec` adds weak fairness of the exploration: the main
loop is one thread that does not stop by itself, so as long as one of its steps is
possible it takes one. It is written as `[]<>Finished \/ []<><<TRUE>>_explorationVars`, which says the
same because such a step is possible until the loop has ended, and which spares TLC an
`ENABLED` of the whole next-state relation. No fairness is assumed between
steps: `Termination` holds for every order of nodes and whether or not a limit is reached.
In `ParallelFront` every worker has weak fairness of its steps: the threads of an arena are
preempted but not stopped, and the locks they take are held for one step each. `Nptest` has weak fairness of
`Run`, the steps after the problem is built: they are one sequential program. Its property `Ends` keeps the one
exception that the code has, the loop over a file of (m,k) constraints with a word in place of a number.

## 4. Where code and documentation disagree

Each is a run that TLC must find violated; `PROJECT.json` gives the lines.
Numbers 1 to 6 were confirmed by running the compiled program on the same problem.

1. `abort_at_start`: a job that may start before or after its abort trigger gets a latest
   completion that ignores the second case (`calculate_abort_time`).
2. `merged_branches`: states of different branches are merged although they recorded
   times of different jobs; those of the second are forgotten (`Job_timing_tracker::widen_intervals`),
   and a join after them is reported too late.
3. `forgotten_start`: the scan for recorded start times runs to the end of the list when a pending job is
   missing in it (`Start_times_tracker::update`), as a job discarded with its branch is. The start of a job of the
   branch that was taken is then forgotten at the next dispatch, although a ready job counts a delay from it. Of the two problems of the
   run, in one a job can complete at 11 and is reported to complete at 5, and in the other no time bounds the next
   dispatch any more, the bound overflows, and a schedulable problem is reported unschedulable.
4. `revived_job`: a discarded job with a predecessor outside its branch becomes ready
   again (`Ready_jobs_tracker::is_ready`).
5. `initial_gang_time`: the initial state's certain dispatch time of gang jobs
   ignores the cores' initial availability.
6. `fewer_misses`: a job that may be late does not move the window of certain misses, which keeps
   misses that have left the real window; the reported minimum is then too large.
7. `command_line`: `--merge` is declared under one name and looked for under another
   (`analysis_config.hpp:533`, `nptest.cpp:166`), so that the configuration file or the default wins. `CommandLineWins` states
   what is true of all other options but `--no-parallel`, which switches the parallel analysis on, and `-m`, which does
   not matter beside a platform of the file.

Seen while modelling, without a run of their own: after a deadline miss `dispatch` leaves out the remaining
states of a node even when the analysis was asked to run to completion with `-c` (`space.hpp:861`), so that the completion
times are then incomplete (found by TLC and confirmed with the program, on two gang jobs and two cores); in a debug build a conditional join fails the assertion at
`state.hpp:651`, because the finish time of a discarded predecessor is asked for (a release build reads [0, infinity],
`trackers/job_timing_tracker.hpp:67`, so that the predecessor never counts as finished, and a delay added to infinity overflows;
`AskedFinishTimesAreRecorded` states the assertion for all other jobs); `stop_at_first_deadline_miss: true` is read as its opposite
(`analysis_config.hpp:204`); `validate_mk_constraints` is never called; a YAML job file that cannot be read is an
empty problem, and schedulable; a cycle of precedence constraints is never reported as such
(`problem_builder.hpp:74`); the memory limit is not looked at in the first four seconds of processor time
(`space.hpp:1031`);
the exported misses of a job are those of the job whose index is its task id (`extension/mk-firm/mk_sp_data_extension.hpp:69`); and an exclusion with a job of a branch not taken binds
(`state_space_data.hpp:251`, `280`): with a fork to jobs 2 or 3, jobs whose starts exclude each other for 5 time
units being 2 and an independent 4, the branch of 3 ends in a dead end and a problem without any
deadline in reach is reported unschedulable (model and program agree on it; a debug
build fails the assertion instead).

The problems of the passing runs avoid the first five situations (aborts decided before the start, branches
whose jobs have no predecessor outside, equally recorded branches, gang jobs on
idle cores) and completion times after a miss (all jobs are early enough where they matter), so that what
they show is not masked by them. In `VerdictExplained`, dead ends do not occur for the
same reason: they are a symptom of 5.

## 5. What is proved

`CoreAvailabilityProofs` proves, with TLAPS, for **every** number of cores, set of
platforms, set of execution times and sequence of dispatches and merges:

* `TypeCorrect`: `Spec => []TypeOK`. The tracker keeps one interval per core and
  stays sorted in both bounds. The heart is `UpdateFacts`, built on
  `InsertFinishCases` (an inserted list is the old one, the finish time, or the old one
  shifted) and `LeftFacts` (the cores that are left after those used and freed).
* `AlwaysCertain`, `AlwaysPossible`: `Spec => []CertainlyAvailable` and `Spec =>
  []PossiblyAvailable`, from `TrackersCover`: `Spec => []Covers`.

The inductive invariant is `TypeOK /\ Covers`. `CertainlyAvailable` needs sortedness (dropping the first
`ncores_used` intervals is only right for a sorted vector), and `PossiblyAvailable`
needs it too, and the clause `now < min`: after a dispatch at `now` the tracker may
claim that cores are available no earlier than `est` although they were free before,
which is right since later jobs start no earlier. `UpdateCertain` and
`UpdatePossible` carry the argument, by cases on where the finish time is inserted, and
compare the sets of cores that are free before and after by cardinality
(`SubsetSizes`). `CoversInit` shows that sorting the earliest and latest instants separately, as
`initialize_from_intervals` does, still covers every execution.

The assumptions are `NumCoresAssumption` (at least one core), `CoresAssumption`
(`Cores` is a finite set of `NumCores` elements) and `TimesAssumption` (times are naturals,
platforms and costs intervals). `RunJob` states the assumption on the environment: the job
starts on free cores, in dispatch order, when the freed cores are indeed free.

`LayeredSearchProofs` proves, for **every** finite set of jobs and all deadlines, about the search by layers:

* `LayersAreExhausted`: each depth is exhausted before the next is begun, so that nothing that was reached is
  overlooked however many layers a dispatch skips. It needs `LayersAreConsistent`, that the nodes of a layer have as many
  jobs as its depth, and that the current node is of the present depth: a dispatch from it
  then only adds to later layers. The inductive invariant is `LInv`, these and the shape of the state.
* `NoMissUnseen`: as long as no miss was seen, every reported interval ends by its deadline.

`ExplorationProofs` proves about the exploration itself, for **every** problem (jobs, constraints, costs, platform, options)
and every order of its nodes: `TypesHold`, `WindowHolds` and `CoresAreHeld`, that is `TypeOK`, `WindowCoversStates` and
`RunningJobsHoldCores` of the run `sag`. It rests on lemmas about the core availability alone (`CoreTrackerProofs`: which
cores an update leaves, and that it keeps describing the execution), and about the trackers of a state, its construction by
a dispatch (`NewStateFacts`) and its merge (`MergeStateFacts`). The inductive invariant is `IInv`, of three parts:

* `DataOK`: what the constructors compute is computed from one of the problems.
* `NodesInv`: in each layer, and in the expansion under way, every node is well formed (`IsNode`) and its bounds cover its states
  (`WithinBounds`); what is left of the expansion can be dispatched; and the position of the node that the job led to so far is one of
  the right layer, although that layer grows meanwhile (`NextIsTarget`). In each state the availability is sorted, what it
  records concerns dispatched jobs, and the running jobs hold cores (`HoldsCores`): for every instant `t`, as many cores are busy
  until `t` as are held by those running jobs that finish no earlier. This is needed for every `t`, not only for the finish times that
  `RunningJobsHoldCores` names: a dispatch frees the cores of the jobs it waits for, a merge intersects the running jobs, and only the
  comparison by numbers at every instant survives both.
* `ReportsInv`: the reported completions are intervals of jobs.

`ProblemsAssumption` says what a problem is (`IsProblem`): intervals are not empty, a job runs on at least one core and at most as many
as there are, constraints relate existing jobs and no job follows itself. The program checks the first and, of the levels of
parallelism, the least only (a larger one than the platform fails an assertion later); it means to reject cycles
(`../problem_builder.hpp:74`) and does not.

The theorems have one hypothesis, `[]TriggerIsClear`: the abort trigger of a job that is dispatched comes certainly before it starts, or
certainly not before. Under it a job does not complete before it starts (`CompletionHolds`: `CompletesAfterStart`), which the
sortedness of the availability rests on; without abort actions there is nothing to suppose (`WithoutAborts`). The
hypothesis cannot be dropped: when
the trigger of a job may come both before and after its start, `calculate_abort_time` (`space.hpp:712`) takes the minimum with the
earliest abort time even if this is before the job can start. The availability vector that is updated with such a finish time is no longer sorted,
which the comment of `Core_availability_tracker` excludes ("always sorted by increasing availability times"); TLC finds `TypeOK` violated
with three jobs on three idle cores, of which one arrives at 4 and has an abort trigger in [2, 9]: it is said to complete from 2 on.

`SoundnessProofs` proves first that the exploration implements the search by layers, and what rests on the same
invariants, for **every** problem, merge option and order of nodes:

* `RingHolds` and `ReadyHolds`: `RingHoldsOneDepth` and `ReadyIsExact` (and that no discarded job is ever ready
  again), from `LayersInv`. A node of the ring is *plain*: it counts the jobs that it has dispatched or discarded, its
  ready list is exact, and these jobs are *closed* (`IsClosed`): with a job come its predecessors and the alternatives
  to it. It lies in the layer of its count. A dispatch from a plain node then only discards jobs that were still open
  (`NothingDiscardedTwice`), which is what the count relies on, and leads at most as many layers ahead as the ring
  has. While a node is expanded the other nodes of its depth stay in place, and nodes are added to later layers only
  (`ExploreKeepsNodes`, `DispatchAddsTarget`).
* `AllReported`: `AllJobsReported` for problems without conditional forks, from `ReportedInv`: every job that a node
  has dispatched is reported.
* `Refines`: `ImplementsLayeredSearch`, under `[]TriggerIsClear` as above. Each action maps to an action of
  `LayeredSearch` or to a stutter. The layers of the mapping are read off the ring modulo its length, hence
  `LayersInv`; that a miss is seen as soon as a reported interval shows it is `MissInv`. `RefinesWithoutAborts` needs no
  such hypothesis where no job has an abort action.
* `SchedulableIsOnTime`: for problems without forks and abort actions a schedulable verdict means that every job has
  a reported interval that ends by its deadline.
* `RecordedTimesHold` and `AskedTimesHold`: `RecordedTimesSuffice` and `AskedFinishTimesAreRecorded` for problems without forks, from
  `RecordingInv`: what a node lists as pending is exactly the dispatched jobs with a successor or an exclusion still to
  come (`Awaited`), and each of its states records exactly these. Both lists are derived from the parent's; for the
  start times this needs that no pending job is missing in it, or the scan would stop. With forks it is false: run
  `forgotten_start`.

Their hypotheses are `BranchesAssumption` and, where named, `NoForks` and `NoAborts`; without forks
`BranchesAssumption` holds. It says of the branches of every problem (`ClosedBranches`) what the code takes for granted
and does not check: a job that directly follows a fork follows nothing else, and a job discarded with its branch follows only
jobs that are discarded with it. Without it a discarded job becomes ready again, run `revived_job`. TLC checks it for
all problems of `MCSag`.

It then proves the purpose of the whole analysis for jobs that do not depend on each other, for **every** number of jobs and
cores, all arrivals, costs, levels of parallelism and priorities, every merge option and every order in which nodes are expanded:

* `CompletionsAreSound`: as long as no deadline miss was observed, every completion of every execution lies in the interval
  reported for the job (`SoundCompletion`).
* `VerdictIsSafe`: when the analysis says schedulable, no execution misses a deadline (`SchedulableIsSafe`).
* `VerdictIsExplained`: when it says that a miss is possible, the completion times that it reports show a late job, and never
  is the reason that a node with jobs left has none to dispatch (`VerdictExplained`).

The argument has four parts.

1. *States stand for executions.* An execution `e` is the arrivals, the jobs dispatched, when each core becomes free, and the instant
   of the last dispatch. A state stands for it (`StandsFor`) when the node has the same jobs and the core availability covers the cores
   in both directions (`Covered`, the property that `CoreAvailabilityProofs` proves of the tracker alone). The states keep that at the
   instant noted for gang jobs such a job has certainly arrived and its cores are certainly available (`CertainGang`). If the scheduler may dispatch `j` on `p` cores at `t` next
   (`Chosen`), the node does not filter `j` out of its window, `t` and the completion lie in the start and finish
   intervals of that state for `p` cores (`TimesCover`: each of `t_wc`, `t_high` and `t_avail` is later than `t`, for otherwise another job or
   another level of parallelism would come first, or this one earlier), and the new state stands for the
   execution after the dispatch (`NewStateStands`). A merge only adds executions (`MergedStands`), whatever states it picks.
2. *Every execution is pursued.* The inductive invariant `PathsInv` says of the present depth: each dispatch that could come next in an
   execution that as many dispatches reach from an initial one (`Reached`) is still to be taken with its node, or is left
   in the expansion under way, or is reported and its result is stood for in the next layer (`Pursued`); and of the
   earlier depths that every dispatch is reported. It holds as long as no miss is seen: after a miss the code leaves out the
   remaining states, and the statement is false.
3. *The scheduler takes such dispatches.* `ExecutionInv` relates `SagSoundness` to these executions: what has been dispatched is what some
   reached execution has dispatched, on the same cores, and nothing could have been dispatched earlier (`NothingBefore`). `Run` is then the
   dispatch that part 2 reports, and `Wait` only passes over instants at which nothing fits (`FitsAlready`).
4. *No node is a dead end.* Every state stands for some execution, the one in which everything is as late as the state knows
   (`SomeExecution`). An execution with jobs left goes on (`SomeDispatch`): there is a first instant at which one of them fits, of those
   that fit then one comes first, and it has a largest level of parallelism for which the cores are free. By part 1 that dispatch is an
   option of the node (`NoDeadEnd`). So a miss is only ever seen at a dispatch, where `DispatchReports` says that the
   completion times show it, and later they only widen (`MissIsShown`). `MissInv` is the converse.

The hypothesis `Simple` has three parts. `Independent`: no precedence or exclusion constraints, conditional jobs or abort actions.
With abort actions and with forks the claim is false (runs `abort_at_start`, `merged_branches`); with precedence and exclusion
constraints it is model-checked only. `Bounded`: arrivals, deadlines and the initial availability are less than the largest value
of the type, which stands for "never". `GangsFit`: when a gang job has certainly arrived, enough cores are available
initially; the initial state takes this for granted (`state.hpp:114`), and without it a job that comes next may be judged too late
(run `initial_gang_time`). Of the problems that the run `sag` executes, 138 satisfy `Simple`, on one to three cores, with and without gang jobs.

`ParallelFrontProofs` proves, for **every** front (nodes, states, dispatches, deadlines), every number of workers and every
interleaving of their steps, all the safety properties of the run `parallel_front`: `TypeCorrect`, `BoundsAlwaysCover`,
`ReportedMissIsReal`, `NothingIsLost`, `NoMissIsOverlooked` and `ResultsAreComplete`. The inductive invariant has four layers,
each proved from those below it:

* `Consistent`: the shape of what is shared and of what each worker is about to do, where it stands in its node, and that a
  node of the front is waiting, in the hands of one worker, or done.
* `BoundsCoverStates`: adding, merging, and a new node keep the bounds of a node at least as wide as its states.
* `Sound`: as long as no dispatch of the front can miss, every state in a node of the next layer is in time, so that a worker
  that looks at the states of a node which others are filling reports nothing. Whether there is a miss depends
  on the front alone (`MissExists`), which is why the origin of the states matters only where there is none.
* `Complete`: of every dispatch that a worker has left behind the state is in a node with the right jobs, and its completion
  time is in the results. What a node holds only grows (`Grown`), so that a step of one worker never undoes this for another.

The actions have a lemma each that says what they change (`PopStep`, `AddStep`, ...); the layers are proved
from these. `FrontsAssumption` only gives the shape of a front: the jobs that a node dispatches may even have been dispatched
before, which run `revived` shows to happen.

`MKFirmProofs` proves, for **every** size of the window from 1 to 31, the five properties of the run `mk_firm`. `IInv` is their inductive
invariant. Windows cannot be compared position by position, since a merge keeps as many of the most recent misses as the larger of
the two counts. They are compared by numbers: for every `k`, the execution has at most as many misses among the last `k`
jobs as the window of potential misses has among its first `k` positions (`AtMost`), and the dual holds of certain misses. A
shift keeps this (`ShiftedCount`), a merge too, since of two sets of the same size the most recent positions
count most for every `k`. That the merge picks as many positions as it says (`Ranks`) is what `CountersMatch` needs: its
proof bounds the rank of a position by cardinality, where an induction over the size would be the usual way.
`WindowAssumption` (a window of 1 to 31 jobs) is the only assumption.

`NptestProofs` proves, for **every** command line, all files and every path that the exploration may take:

* `VerdictIsEarned`: `VerdictEarned`, from `VerdictInv`. The verdict is computed at the end from what the path has become, so
  the work is in `PathSound`: no limit has stopped a path that goes on, a limit of time or memory aborts it, it ends on its own only
  after the last layer, and unless a branch was pruned its node lies in the layer that counts its jobs, at most one dispatch
  beyond the limit of depth (`InTime`). With forks a dispatch counts the jobs that it discards, so that the count says
  something only if no job is counted twice: `BranchesAreClosed`, which `VerdictEarned` supposes. Lemmas about the graph give what the
  count needs: what is behind a job is the least set that is closed under successors (`BehindIsClosed`, `BehindIsLeast`), an alternative
  of a fork has no other predecessor and what is discarded with it follows only discarded jobs (`ClosedMeans`), so that a
  dispatch adds jobs that are new to the node, its own job included (`DispatchIsNew`), and the other ready jobs stay out of it unless they
  are alternatives (`OthersStayReady`).
* `FocusHolds` and `LogHoldsWhatIsAsked`: `FocusRespected` and `LoggedAsAsked`, from `OptionsInv`: the conditions in use are those of the
  files (`FocusCond`, `LogCond`) at every step, the path respects the first, and every edge fulfilled the second when it was recorded.
  The rest shows that the parsed conditions mean what the files say: ids found in the list of jobs (`FirstIsOnly`),
  sections read in their order (`SectionsInOrder`, `ConditionRead`).
* `TypesHold`: `TypeOK`, from `TypeInv`.
* `AcceptedHolds`: `AcceptedIsConsistent`, from `AcceptInv`: when the analysis begins, the constraints are those of the files with the ids
  replaced by indices, and the checks of the constructor of the problem (`PostInitError`) are behind it. The order of the stages matters: nothing
  that is read after a check may undo it. The rest shows that a look-up finds a job of the id (`FoundIsJob`) and that a problem
  without an error passes each of the checks (`CheckedIsConsistent`).
* `ExitsHold`: `ExitCodeExplained`, also from `AcceptInv`: an error ends the program at once, so its code stays explained by what had been read.

What the readers return is not within reach (section 6), so each theorem names what it needs of it. `JobsAreListed` (the jobs are a
list) and `EdgesAreKnown` (constraints have the indices of jobs) together are `Listed`; that a problem which reaches the analysis has known
edges is part of `AcceptedHolds`. `TimesAreRead`: times are numbers. `AlternativesGoForward`: no alternative at a fork follows
itself, for then its dispatch would not count as one. `RowsAreRead`, for `AcceptedHolds` only: each single row of a file that is accepted is between
known jobs, its delays are ordered, a job has costs. `ErrorsAreNamed`, for `ExitsHold` only: no reader returns the error of an abort
action, and that of a reference only when the files hold a reference to no job; half of what the code for a wrong reference means is thus
left to the run. `AbortsAreListed`: the abort actions are a list. `ListsAreGiven` excludes an
empty list of jobs or tasks in the log file, which the code takes for no condition, and says that the number of jobs and the recorded times
fit their types. In the run `reading` they are all true wherever they matter: from the stage on in which the jobs, the constraints or the
options that they speak of have been read. `IdsAreUnique` is a hypothesis on the
files, which the program does not check: of two jobs with the same id the look-ups find the first only. The only assumption
is `NumeralsAssumption`: the options that hold a number are unsigned (`analysis_config.hpp:46-53`).

## 6. What is only model-checked

* Soundness, `SoundCompletion` and `SchedulableIsSafe`, for jobs with constraints. What is proved of it
  are the parts named in section 5: that the derived data which a dispatch reads are right.
* `VerdictExplained` for jobs with constraints. Of it `MissInv` is proved for all problems: without a miss seen, no reported time is late.
* `RecordedTimesSuffice`, `AskedFinishTimesAreRecorded` and `AllJobsReported` with conditional forks. The first two are false in general.
* `ReadAsWritten` and `RanksRespectOrder`: the readers and the ranks are recursive functions over positions and lists, whose results need
  induction over data.
* `CommandLineWins`: it is stated for command lines as those of the run (options in long form, each given as it is declared); the table of options
  is built with `@@`, which the provers cannot expand.
* `Termination`, `FrontEnds` and `Ends`: liveness under fairness is out of the proof system's reach.
* What a fold over a list computes for every input (`MinPriorityJob`). Of `MergeStates`, which is one too, the proofs only need that it is a chain of
  merges (`MergeStatesIsChain`), which the least counterexample gives without an induction theorem.

## 7. What is abstracted and what is left out

* Discrete time only; sets of jobs are mathematical sets; nodes and states are values, as
  if every object taken from a pool were fresh.
* A node is found by its set of jobs. The code hashes a key of the jobs and compares the
  sets within a bucket, which finds the same node.
* `GiveUp` may happen before each front and after each node, whatever the limits are.
* The job of lowest priority (`min_prio`) is an index, 0 for none; a time of a job that has
  none recorded reads as [0, `Infinity`], as in a release build, sums beyond `Infinity` wrap around (`Plus`), and assertions are properties.
* `Bcet` keeps the scan of the code, which restarts after an execution time of 0.
* `ParallelFront` keeps one core, so that a state is one interval, and the default merge
  options. A critical section is one step; a look-up beside an append to the same concurrent vector is
  taken to be safe; the two pointers to the node and the state of a miss, which workers assign without
  synchronisation, are left out.
* `MKFirm` is about one task, since the windows of different tasks do not interact, and takes the
  submission of a job's misses as one step (the parallel build does not lock it).
* `Exploration` and `Nptest` are not composed: pruning and logging do not change what a dispatch computes, and
  their product with the state space of `Exploration` would multiply it by all focus and log files. `Nptest` follows one path: a job is
  dispatched next if its predecessors are through, whether or not priorities and times allow it, it takes the time of its
  least level of parallelism, and delays and exclusions do not postpone it. So it has paths that the
  exploration has not, and the limits that stop other paths of the same layer are looked at in `CheckLimits`. A path that ends in a pruned node is
  followed no further.
* In `InputFiles` numbers are small and denote what they say: overflow and rounding of number texts are left out, as are
  carriage returns. `AnalysisConfig` gets the meaning of a limit's digits from `Spellings`. Standard input (`-`) is described
  in `src/README.md` but is a file name to the code, and so to the model.

Not modelled, and why:

* The numbering of the nodes in the printed graph and the labels (`../logger.hpp:196-318`): a renaming in the order in
  which edges first mention them. What is recorded, and which items are shown, is modelled.
* The export of the (m,k) results (`extension/mk-firm/mk_sp_data_extension.hpp:63-79`), which indexes the misses by task id: output.
* The recycling of objects (`object_pool.hpp`). `reset` of a state overwrites every field, read field by field;
  nodes are never recycled during a front, because the look-up table still refers to them
  (`space.hpp:1063`). Nodes and states as values are therefore exact.
* The packing of `index_set.hpp` into words, dense time, hashing: data without control.
* Measurements, statistics, memory and clock readings, the layout of printed text: pure output.
* The extension framework: it forwards calls to the one extension that exists, `MKFirm`.
* `selfsuspending.hpp`: nothing includes it. `parse_yaml_mutex_file` and the overloads that are kept for backward compatibility:
  the program does not reach them.
* Vendored code (`doctest.h`, the test cases); of the vendored option parser only what decides which option an argument sets.

## 8. Plan

Done: all modules of section 2, and the proofs about the tracker, the states and nodes of the exploration, its refinement
of the search by layers, its soundness for independent jobs, the parallel front, the (m,k) windows, and of a run of the
program its accepted problem, path, focus, log, verdict and exit code.

Left, in this order:

1. **Proofs.** Soundness with precedence constraints: `RecordedTimesHold` and `CoresAreHeld` give the data, what is missing is that the
   ready times of a dispatch contain those of an execution.
2. **Conditional problems with exclusions** and with execution times of 0, new families of `MCProblems` for the two hazards of
   `State_space_data` and `jobs.hpp` that no property covers.
3. **Pruned explorations** as a restriction of `Explore`: what a pruned analysis may still report.
