--------------------------- MODULE ProblemBuilder ---------------------------
(***************************************************************************)
(* From the configuration to the scheduling problem (problem_builder): the *)
(* files are read one after the other, the ranks of the jobs are computed  *)
(* and the problem is validated.  Every error ends the program.            *)
(***************************************************************************)
EXTENDS InputFiles

VARIABLE problem

EmptyProblem == [jobs |-> <<>>, prec |-> <<>>, ranks |-> <<>>, mutexes |-> <<>>,
                 platform |-> <<>>, aborts |-> <<>>, mk |-> <<>>]

Id(job) == <<job.task, job.job>>
JobIds(jobs) == {Id(jobs[i]) : i \in DOMAIN jobs}

\* The lookup table keeps the last of the jobs with an id; a search finds the first.
LookupTable(jobs) == [id \in JobIds(jobs) |-> Max({i \in DOMAIN jobs : Id(jobs[i]) = id})]
LookupFirst(jobs, id) == Min({i \in DOMAIN jobs : Id(jobs[i]) = id})

JobsFile == IF leftover # <<>> THEN leftover[1] ELSE config.jobs_file

CanOpen(name) == name # "" /\ name \in DOMAIN input.files

\* The exit code of an error that is raised.  The text of the error for a wrong
\* delay is taken from anywhere in memory; the ends of an empty list of costs
\* are looked for where there is nothing.
ExitCodes(err) ==
    CASE err = "reference" -> {3}
      [] err = "abort" -> {4}
      [] err = "delay" -> {1, Crashed}
      [] err = "cost" -> {Crashed}
      [] OTHER -> {1}

Refuse(err) == (\E code \in ExitCodes(err) : Exit(code)) /\ UNCHANGED problem

Next_pc(step) == pc' = step /\ UNCHANGED exit_code
-----------------------------------------------------------------------------
(***************************************************************************)
(* Ranks: Kahn's algorithm.  A job is queued when all edges that lead to   *)
(* it are counted off; jobs on a cycle and those behind it never are.      *)
(***************************************************************************)
Successors(edges, j) == SelectSeq(edges, LAMBDA e : e.from = j)
InDegree(edges, j) == Len(SelectSeq(edges, LAMBDA e : e.to = j))

\* Faulty variant of GetJobsRanks: the rank of a job is the number of its
\* predecessors.
InDegreeOnly(n, edges) == [j \in 1..n |-> InDegree(edges, j) + 1]

GetJobsRanks(n, edges) ==
    LET sources == {j \in 1..n : InDegree(edges, j) = 0}
        \* The loop after k jobs of the queue.
        loop[k \in 0..n] ==
            IF k = 0
            THEN [queue  |-> SetToSortSeq(sources, <),
                  degree |-> [j \in 1..n |-> InDegree(edges, j)],
                  rank   |-> [j \in 1..n |-> IF j \in sources THEN 1 ELSE 0]]
            ELSE LET s == loop[k - 1] IN
                 IF Len(s.queue) < k THEN s
                 ELSE LET current == s.queue[k]
                          out  == Successors(edges, current)
                          succ == {e.to : e \in ToSet(out)}
                          degree == [j \in 1..n |-> s.degree[j] - InDegree(out, j)]
                      IN  [queue  |-> s.queue \o SetToSortSeq({j \in succ : degree[j] = 0}, <),
                           degree |-> degree,
                           rank   |-> [j \in 1..n |-> IF j \in succ THEN MaxOf(s.rank[j], s.rank[current] + 1)
                                                      ELSE s.rank[j]]]
    IN  loop[n].rank
-----------------------------------------------------------------------------
\* Reading the jobs.  A YAML file that cannot be read leaves the jobs before the
\* error, and is no reason to stop.
ParseJobs ==
    /\ pc = "jobs"
    /\ IF ~CanOpen(JobsFile) THEN Refuse("file")
       ELSE IF IsYaml(JobsFile)
            THEN /\ problem' = [EmptyProblem EXCEPT !.jobs = ParseYamlJobFile(input.files[JobsFile])]
                 /\ Next_pc("precedence")
            ELSE LET read == ParseCsvJobFile(input.files[JobsFile])
                 IN  IF read.err # "" THEN Refuse(read.err)
                     ELSE problem' = [EmptyProblem EXCEPT !.jobs = read.rows] /\ Next_pc("precedence")
    /\ UNCHANGED <<input, args_vars, config>>

\* The edges come from the file of precedence constraints, or else from a YAML
\* job set.
PrecedenceRead ==
    LET ids == JobIds(problem.jobs)
        name == config.precedence_file
    IN  IF config.want_precedence
        THEN IF ~CanOpen(name) THEN [err |-> "file", rows |-> <<>>]
             ELSE IF IsYaml(name) THEN ParseYamlDagFile(input.files[name], ids)
             ELSE ParsePrecedenceFile(input.files[name], ids)
        ELSE IF IsYaml(JobsFile) THEN ParseYamlDagFile(input.files[JobsFile], ids)
             ELSE [err |-> "", rows |-> <<>>]

\* Constraints between ids become constraints between the indices of jobs.
Indexed(rows) ==
    LET table == LookupTable(problem.jobs)
    IN  [i \in DOMAIN rows |-> [rows[i] EXCEPT !.from = table[@], !.to = table[@]]]

\* That a cycle is an error is never found: there is a rank for every job.
BuildGraph ==
    /\ pc = "precedence"
    /\ IF PrecedenceRead.err # "" THEN Refuse(PrecedenceRead.err)
       ELSE LET edges == Indexed(PrecedenceRead.rows)
            IN  /\ problem' = [problem EXCEPT !.prec = edges,
                                              !.ranks = GetJobsRanks(Len(problem.jobs), edges)]
                /\ Next_pc("mutexes")
    /\ UNCHANGED <<input, args_vars, config>>

ParseMutexes ==
    /\ pc = "mutexes"
    /\ IF ~config.want_mutexes THEN Next_pc("platform") /\ UNCHANGED problem
       ELSE IF ~CanOpen(config.excl_file) \/ IsYaml(config.excl_file) THEN Refuse("file")
       ELSE LET read == ParseMutexFile(input.files[config.excl_file], JobIds(problem.jobs))
            IN  IF read.err # "" THEN Refuse(read.err)
                ELSE problem' = [problem EXCEPT !.mutexes = Indexed(read.rows)] /\ Next_pc("platform")
    /\ UNCHANGED <<input, args_vars, config>>

ParsePlatform ==
    /\ pc = "platform"
    /\ IF config.platform_defined
       THEN IF ~CanOpen(config.platform_file) THEN Refuse("file")
            ELSE /\ \E cores \in IF IsYaml(config.platform_file)
                                 THEN {ParsePlatformSpecYaml(input.files[config.platform_file])}
                                 ELSE ParsePlatformSpecCsv(input.files[config.platform_file]) :
                        problem' = [problem EXCEPT !.platform = cores]
                 /\ Next_pc("aborts")
       ELSE /\ problem' = [problem EXCEPT !.platform = [i \in 1..config.num_processors |-> Interval(0, 0)]]
            /\ Next_pc("aborts")
    /\ UNCHANGED <<input, args_vars, config>>

ParseAborts ==
    /\ pc = "aborts"
    /\ IF ~config.want_aborts THEN Next_pc("problem") /\ UNCHANGED problem
       ELSE IF ~CanOpen(config.aborts_file) \/ IsYaml(config.aborts_file) THEN Refuse("file")
       ELSE LET read == ParseAbortFile(input.files[config.aborts_file])
            IN  IF read.err # "" THEN Refuse(read.err)
                ELSE problem' = [problem EXCEPT !.aborts = read.rows] /\ Next_pc("problem")
    /\ UNCHANGED <<input, args_vars, config>>
-----------------------------------------------------------------------------
(***************************************************************************)
(* The checks of the constructor of the problem.                           *)
(***************************************************************************)
\* Faulty variant of ParallelismFits: one core is enough for every job.
OneCoreFits(job) == problem.platform # <<>>

ParallelismFits(job) == Min(DOMAIN job.cost) <= Len(problem.platform)

\* Faulty variant of AbortError: the trigger is compared with the other end of
\* the arrival.
AbortErrorSwapped(action) ==
    IF action.id \notin JobIds(problem.jobs) THEN "reference"
    ELSE LET job == problem.jobs[LookupFirst(problem.jobs, action.id)]
         IN  IF action.trigger.min < job.arrival.max THEN "abort" ELSE ""

AbortError(action) ==
    IF action.id \notin JobIds(problem.jobs) THEN "reference"
    ELSE LET job == problem.jobs[LookupFirst(problem.jobs, action.id)]
         IN  IF action.trigger.min < job.arrival.min \/ action.trigger.max < job.arrival.max
             THEN "abort" ELSE ""

FirstAbortError ==
    LET wrong == {i \in DOMAIN problem.aborts : AbortError(problem.aborts[i]) # ""}
    IN  IF wrong = {} THEN "" ELSE AbortError(problem.aborts[Min(wrong)])

\* A start exclusion without a delay excludes nothing.
ExclusionConstrains(mutex) == mutex.type = "e" \/ mutex.delay.max > 0

PostInitError ==
    CASE \E i \in DOMAIN problem.jobs : ~ParallelismFits(problem.jobs[i]) -> "parallelism"
      [] FirstAbortError # "" -> FirstAbortError
      [] \E i \in DOMAIN problem.mutexes : ~ExclusionConstrains(problem.mutexes[i]) -> "exclusion"
      [] OTHER -> ""

MakeProblem ==
    /\ pc = "problem"
    /\ IF PostInitError # "" THEN Refuse(PostInitError)
       ELSE Next_pc("extensions") /\ UNCHANGED problem
    /\ UNCHANGED <<input, args_vars, config>>

MkRead == ParseMkConstraints(input.files[config.mk_file])

MkRowIsBad == ~MkRead.ends

RegisterExtensions ==
    /\ pc = "extensions"
    /\ IF ~Has("ANALYSIS_EXTENSIONS") \/ ~config.want_mk THEN Next_pc("analysis") /\ UNCHANGED problem
       ELSE IF ~CanOpen(config.mk_file) \/ IsYaml(config.mk_file) THEN Refuse("file")
       ELSE IF MkRowIsBad THEN UNCHANGED <<pc, exit_code, problem>>
       ELSE /\ \E table \in MkRead.tables : problem' = [problem EXCEPT !.mk = table]
            /\ Next_pc("analysis")
    /\ UNCHANGED <<input, args_vars, config>>

BuildProblem ==
    \/ ParseJobs \/ BuildGraph \/ ParseMutexes \/ ParsePlatform
    \/ ParseAborts \/ MakeProblem \/ RegisterExtensions
=============================================================================
