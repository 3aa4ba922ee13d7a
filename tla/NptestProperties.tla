-------------------------- MODULE NptestProperties --------------------------
(***************************************************************************)
(* What a user of nptest may rely on.  The properties compare the analysis *)
(* with the files and the arguments as they were written; input.meant is   *)
(* the problem that the files were written from, or <<>> for files that    *)
(* were not written by the rules.                                          *)
(***************************************************************************)
EXTENDS Nptest

Built == pc \in {"analysis", "explore", "results"}
Configured == pc \in {"jobs", "precedence", "mutexes", "platform", "aborts", "problem", "extensions"} \/ Built
Reported == pc = "done" /\ exit_code = 0 /\ output # <<>>

TypeOK ==
    /\ pc \in {"args", "config", "options", "jobs", "precedence", "mutexes", "platform", "aborts",
               "problem", "extensions", "analysis", "explore", "results", "done"}
    /\ exit_code \in {Running, 0, 1, 2, 3, 4, Crashed}
    /\ pc = "done" <=> exit_code # Running
    /\ DOMAIN config = DOMAIN DefaultConfig
    /\ progress.depth \in 0..Len(problem.jobs) /\ progress.count \in Nat
    /\ DOMAIN progress.finish \subseteq Jobs /\ progress.ready \subseteq Jobs
    /\ progress.node = UNION {Incompatible(j) : j \in DOMAIN progress.finish}
-----------------------------------------------------------------------------
\* What is written in an input file, in whichever of its formats, is what is
\* analysed: no row is lost, doubled, moved or mixed up with the next, and the
\* ids of the constraints lead to the jobs that they name.
ReadAsWritten ==
    Built /\ input.meant # <<>> =>
        /\ problem.jobs = input.meant.jobs
        /\ problem.prec = input.meant.prec
        /\ problem.mutexes = input.meant.mutexes
        /\ problem.platform = input.meant.platform
        /\ problem.aborts = input.meant.aborts

\* A problem that reaches the analysis is consistent across its files, however
\* wrong each of them is: every constraint is between two jobs, every job fits
\* the platform, an abort action can only trigger after the arrival of a job of
\* that id, and every start exclusion has a delay.
AcceptedIsConsistent ==
    Built =>
        /\ \A c \in ToSet(problem.prec) \cup ToSet(problem.mutexes) :
                {c.from, c.to} \subseteq Jobs /\ c.delay.min <= c.delay.max
        /\ \A j \in Jobs : \E level \in DOMAIN problem.jobs[j].cost : level <= Len(problem.platform)
        /\ \A a \in ToSet(problem.aborts) : \E j \in Jobs :
                /\ Id(problem.jobs[j]) = a.id
                /\ problem.jobs[j].arrival.min <= a.trigger.min
                /\ problem.jobs[j].arrival.max <= a.trigger.max
        /\ \A m \in ToSet(problem.mutexes) : m.type = "s" => m.delay.max > 0

\* The exit codes mean what the messages say: with code 3 a file of constraints
\* or abort actions names a task or a job that no job read has; with code 4 the
\* trigger of an abort action begins or ends before the arrival of its job does.
ExitCodeExplained ==
    /\ exit_code = 4 =>
            \E a \in ToSet(problem.aborts) : \E j \in Jobs :
                /\ Id(problem.jobs[j]) = a.id
                /\ a.trigger.min < problem.jobs[j].arrival.min \/ a.trigger.max < problem.jobs[j].arrival.max
    /\ exit_code = 3 =>
            \/ \E a \in ToSet(problem.aborts) : a.id \notin JobIds(problem.jobs)
            \/ input.dangling
-----------------------------------------------------------------------------
\* The longest chain of precedence constraints that ends in a job, counted in
\* jobs; defined for acyclic constraints.
ChainsTo(j) ==
    {chain \in UNION {[1..k -> Jobs] : k \in 1..Len(problem.jobs)} :
        /\ chain[Len(chain)] = j
        /\ \A i \in 1..(Len(chain) - 1) :
            \E e \in ToSet(problem.prec) : e.from = chain[i] /\ e.to = chain[i + 1]}

\* Jobs on a cycle, or behind one.
BehindCycle ==
    {j \in Jobs : \E chain \in ChainsTo(j) :
        \E e \in ToSet(problem.prec) : \E i \in DOMAIN chain : e.from = chain[i] /\ e.to = chain[1]}

\* The rank of a job is the length of the longest chain of precedence
\* constraints that ends in it, and so larger than that of every predecessor.
\* Only for jobs on a cycle or behind one there is no such order; no error is
\* raised for them.
RanksRespectOrder ==
    Built => \A j \in Jobs \ BehindCycle : problem.ranks[j] = Max({Len(c) : c \in ChainsTo(j)})
-----------------------------------------------------------------------------
\* The options on the command line, by their long names, with their last values.
\* A short option is looked at for itself only, not for the letters behind it.
OptionAt(i) ==
    LET arg == input.argv[i]
    IN  CASE \E k \in 1..i : input.argv[k].form = "end" -> {}
          [] arg.form = "long" -> Matching(arg.name)
          [] arg.form = "short" -> {ShortOptions[arg.name]}
          [] OTHER -> {}
Given == UNION {OptionAt(i) : i \in DOMAIN input.argv}
LastOf(names) == Max({i \in DOMAIN input.argv : OptionAt(i) \cap names # {}})
TextOf(name) ==
    LET last == LastOf({name})
    IN  IF input.argv[last].joined THEN input.argv[last].value ELSE input.argv[last + 1].name

\* What an option asks for is in the configuration.  The options that need a
\* feature of the build are errors without it, but --focus is ignored; --log_opts
\* is ignored without --save-graph (README, "Log Options").
Reflected(name) ==
    CASE name = "time" -> config.want_dense = (TextOf(name) = "dense")
      [] name = "precedence" -> config.want_precedence /\ config.precedence_file = TextOf(name)
      [] name = "excl" -> config.want_mutexes /\ config.excl_file = TextOf(name)
      [] name = "abort-actions" -> config.want_aborts /\ config.aborts_file = TextOf(name)
      [] name = "platform" -> config.platform_defined /\ config.platform_file = TextOf(name)
      [] name = "mk" -> config.want_mk /\ config.mk_file = TextOf(name)
      [] name = "focus" -> Has("PRUNING") => config.want_focus /\ config.focus_file = TextOf(name)
      [] name = "depth-limit" -> config.max_depth = Numeral(TextOf(name))
      [] name = "time-limit" -> config.timeout = ParseTimeLimit(TextOf(name))
      [] name = "mem-limit" -> config.mem_max = ParseMemoryLimit(TextOf(name))
      [] name = "continue-after-deadline-miss" -> config.continue_after_dl_miss
      [] name = "threads" -> config.num_threads = Numeral(TextOf(name)) /\ config.want_parallel
      [] name = "parallel" -> config.want_parallel
      [] name = "no-parallel" -> ~config.want_parallel
      [] name = "header" -> config.want_header
      [] name = "verbose" -> config.want_verbose
      [] name = "report" -> config.want_rta_file /\ config.want_width_file
      [] name = "miss_info" -> config.want_deadline_miss_info
      [] name = "save-graph" -> config.want_dot_graph
      [] name = "log_opts" -> "save-graph" \in Given => config.dot_file = TextOf(name)
      [] name = "merge" -> config = UpdateMergeOptions(TextOf(name), config)
      [] name = "multiprocessor" -> config.num_processors = Numeral(TextOf(name)) /\ ~config.platform_defined

\* The options of the command line that have an entry in the configuration.
Overriding == Given \ {"config", "help", "version"}

\* Any option of the command line takes precedence over the configuration file
\* (README, "Default config").
CommandLineOverrides == Configured => \A name \in Overriding : Reflected(name)

\* What is true of it: all options but three are what the last of the arguments
\* that name them says.  --merge is looked for under a name that it does not
\* have, --no-parallel switches the parallel analysis on, and the cores of -m
\* do not matter when the configuration file has a platform.
CommandLineWins ==
    Configured => \A name \in Overriding \ {"merge", "no-parallel", "multiprocessor"} : Reflected(name)
-----------------------------------------------------------------------------
FocusDoc == input.files[config.focus_file]
FocusRead == PruningAsked /\ pc \in {"explore", "results"} /\ FocusDoc.loads

Ids(node) == {Id(problem.jobs[j]) : j \in node}

Dispatched == DOMAIN progress.finish

\* A focused exploration stays in its focus: a path dispatches only jobs in
\* focus, none that is to be pruned, never all the jobs of a set that ends it,
\* and no job that arrives after the limit of time.
FocusRespected ==
    FocusRead =>
        /\ Pairs(FocusDoc.jobset) # {} => Ids(Dispatched) \subseteq Pairs(FocusDoc.jobset)
        /\ Ids(Dispatched) \cap Pairs(FocusDoc.jobs) = {}
        /\ \A id \in Ids(Dispatched) :
                id[1] \notin FocusDoc.tasks /\ (FocusDoc.taskset # {} => id[1] \in FocusDoc.taskset)
        /\ \A i \in DOMAIN FocusDoc.jobsets :
                LET ids == Pairs(FocusDoc.jobsets[i]) \cap JobIds(problem.jobs)
                IN  ids = {} \/ ~(ids \subseteq Ids(Dispatched))
        /\ \A j \in Dispatched : FocusDoc.time > 0 => problem.jobs[j].arrival.min <= FocusDoc.time

LogDoc == input.files[config.dot_file]
Asked(name) == name \in DOMAIN LogDoc.conditions
Within(interval, value) == interval.min <= value /\ value <= interval.max

\* The branches of the problem are such that no job is discarded twice or
\* becomes ready after it was discarded; the analysis does not check it.
BranchesAreClosed == Graph!ClosedBranches(Constraints)

\* When the log file is well written, an edge of the recorded graph fulfils all
\* of its conditions: the job may start in the interval of time and, where that
\* is asked for, it may miss its deadline; the jobs that are to be dispatched
\* are dispatched where the edge leads to, or discarded with a branch, and those
\* that are not to be are neither; and the depth is the number of jobs where the
\* edge comes from.
LoggedAsAsked ==
    pc \in {"explore", "results"} /\ LogAsked /\ LogDoc.wrong = "none" => \A i \in DOMAIN edges :
        /\ Asked("Time") => LET time == LogDoc.conditions["Time"]
                            IN  time.min <= edges[i].start.max /\ edges[i].start.min <= time.max
        /\ Asked("DeadlineMiss") /\ LogDoc.conditions["DeadlineMiss"] =>
                edges[i].finish.max > problem.jobs[edges[i].job].deadline
        /\ Asked("Jobs") => Id(problem.jobs[edges[i].job]) \in LogDoc.conditions["Jobs"]
        /\ Asked("Tasks") => problem.jobs[edges[i].job].task \in LogDoc.conditions["Tasks"]
        /\ Asked("Dispatched") => LogDoc.conditions["Dispatched"] \subseteq Ids(edges[i].target)
        /\ Asked("NotDispatched") => LogDoc.conditions["NotDispatched"] \cap Ids(edges[i].target) = {}
        /\ Asked("Depth") => /\ Within(LogDoc.conditions["Depth"], edges[i].depth)
                             /\ BranchesAreClosed => edges[i].depth = Cardinality(edges[i].source)
-----------------------------------------------------------------------------
\* The verdict is earned: 1 or X is printed only after an analysis that no limit
\* stopped and in which no deadline was missed, that has been through all
\* layers and, unless branches were pruned, dispatched every job or discarded it
\* when it dispatched one of another branch.  X is printed only if a last
\* dispatch within the limit leads beyond it: an analysis that the limit of
\* depth stops prints 0.
VerdictEarned ==
    Reported /\ output.verdict # "0" =>
        /\ ~output.timeout /\ ~output.mem_out
        /\ output.jobs = Len(problem.jobs)
        /\ progress.front /\ BranchesAreClosed =>
            /\ \A j \in Jobs : j \in Dispatched \/ \E i \in Dispatched : j \in Incompatible(i)
            /\ output.verdict = "X" => \E i \in Dispatched :
                    Within([min |-> Len(problem.jobs) - Cardinality(Incompatible(i)), max |-> Len(problem.jobs) - 1],
                           config.max_depth)

\* Once the problem is read, the program ends, unless a word stands where a
\* number should in the file of (m,k) constraints.
Ends ==
    pc = "extensions" ~>
        \/ pc = "done"
        \/ /\ pc = "extensions" /\ CanOpen(config.mk_file)
           /\ \E t \in ToSet(input.files[config.mk_file]) : t.k \notin {"num", "nl"}
=============================================================================
