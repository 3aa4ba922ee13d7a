----------------------------- MODULE MCReading -----------------------------
(***************************************************************************)
(* Uses of nptest for TLC.  Most are written from a problem, in every      *)
(* format and layout that the readers know; the others are such files with *)
(* one token lost, replaced or put in, at every place, and documents with  *)
(* the mistakes that the readers look for.                                 *)
(***************************************************************************)
EXTENDS NptestProperties

\* A build is for the parallel exploration or for the collection of the graph,
\* not for both.
ParallelBuild == {"PARALLEL", "PRUNING", "ANALYSIS_EXTENSIONS"}
GraphBuild == {"COLLECT_SCHEDULE_GRAPH", "PRUNING", "ANALYSIS_EXTENSIONS"}

Long(name) == [form |-> "long", name |-> name, value |-> "", joined |-> FALSE]
LongWith(name, value) == [form |-> "long", name |-> name, value |-> value, joined |-> TRUE]
Short(name) == [form |-> "short", name |-> name, value |-> "", joined |-> FALSE]
ShortWith(name, value) == [form |-> "short", name |-> name, value |-> value, joined |-> TRUE]
Text(name) == [form |-> "text", name |-> name, value |-> "", joined |-> FALSE]
EndOfOptions == [form |-> "end", name |-> "--", value |-> "", joined |-> FALSE]

Use(argv, files) == [build |-> ParallelBuild, argv |-> argv, files |-> files, meant |-> <<>>, dangling |-> FALSE]
GraphUse(argv, files) == [Use(argv, files) EXCEPT !.build = GraphBuild]
Meaning(problems, use) == [use EXCEPT !.meant = problems]

NumeralsMC == "0" :> 0 @@ "1" :> 1 @@ "2" :> 2 @@ "3" :> 3
SpellingsMC ==
    "1m30s" :> <<[tenths |-> 10, unit |-> "m"], [tenths |-> 300, unit |-> "s"]>>
    @@ "0.5" :> <<[tenths |-> 5, unit |-> ""]>>
    @@ "2" :> <<[tenths |-> 20, unit |-> ""]>>
    @@ "1y" :> <<[tenths |-> 10, unit |-> "y"]>>
    @@ "m2" :> <<[tenths |-> -2, unit |-> "m"], [tenths |-> 20, unit |-> ""]>>
    @@ "1.5M2K" :> <<[tenths |-> 15, unit |-> "M"], [tenths |-> 20, unit |-> "K"]>>
    @@ "soon" :> <<[tenths |-> -1, unit |-> ""]>>
AbbreviationsMC == {<<"prec", "precedence">>, <<"ver", "version">>, <<"ver", "verbose">>, <<"dep", "depth-limit">>}
YamlNamesMC == {"jobs.yaml", "prec.yaml", "platform.yaml", "config.yaml"}
GarbageMC == {0, 2}
-----------------------------------------------------------------------------
(* Problems, and the files that are written from them. *)
MkJob(task, job, arrival, cost, deadline, type) ==
    [task |-> task, job |-> job, arrival |-> arrival, cost |-> cost, deadline |-> deadline,
     priority |-> deadline, type |-> type]
OneCore(min, max) == 1 :> Interval(min, max)

A == MkJob(1, 1, Interval(0, 1), OneCore(1, 2), 5, 0)
B == MkJob(1, 2, Interval(2, 2), OneCore(1, 1), 9, 0)
C == MkJob(2, 1, Interval(0, 0), OneCore(2, 3), 9, 0)
ForkC == [C EXCEPT !.type = 1]
Moldable == [C EXCEPT !.cost = (1 :> Interval(2, 3)) @@ (2 :> Interval(1, 1))]
GangC == [C EXCEPT !.cost = 2 :> Interval(1, 2)]
LateA == [A EXCEPT !.deadline = 2]
JoinD == MkJob(2, 2, Interval(0, 0), OneCore(1, 1), 12, 2)

Rel(from, to, type, delay) == [from |-> from, to |-> to, delay |-> delay, type |-> type]
NoDelay == Interval(0, 0)
Free(m) == [i \in 1..m |-> NoDelay]

ProblemOf(jobs, platform) ==
    [jobs |-> jobs, prec |-> <<>>, mutexes |-> <<>>, platform |-> platform, aborts |-> <<>>]

Token(v) == [k |-> "num", v |-> v]
Mark(k) == [k |-> k, v |-> 0]
NL == Mark("nl")
Header == <<Mark("word"), NL>>

Row2(id, rest) == <<Token(id[1]), Token(id[2])>> \o rest
Ends2(i) == <<Token(i.min), Token(i.max)>>
IdOf(jobs, i) == Id(jobs[i])

CostTokens(job) ==
    IF DOMAIN job.cost = {1} THEN Ends2(job.cost[1])
    ELSE <<Mark("{")>>
            \o FlattenSeq([p \in 1..2 |-> IF p \in DOMAIN job.cost THEN <<Token(p)>> \o Ends2(job.cost[p]) ELSE <<>>])
            \o <<Mark("}")>>
JobTokens(job) ==
    Row2(Id(job), Ends2(job.arrival)) \o CostTokens(job) \o <<Token(job.deadline), Token(job.priority)>>
        \o (IF job.type = 0 THEN <<>> ELSE <<Token(job.type)>>)

\* The type is left out when it is the default one, and then a delay of zero.
RelTokens(jobs, r, default) ==
    Row2(IdOf(jobs, r.from), Row2(IdOf(jobs, r.to), <<>>))
        \o (IF r.type = default /\ r.delay = NoDelay THEN <<>> ELSE Ends2(r.delay))
        \o (IF r.type = default THEN <<>> ELSE <<Mark(r.type)>>)
AbortTokens(a) == Row2(a.id, Ends2(a.trigger) \o Ends2(a.cleanup))

\* The layouts of a file: rows end with a new line, the last one need not, and
\* a row may be spread over two lines after its first number.
Layouts == {"lines", "no_last_newline", "spread"}
File(rows, layout) ==
    LET Line(i) == CASE layout = "spread" -> <<rows[i][1], NL>> \o Tail(rows[i]) \o <<NL>>
                     [] layout = "no_last_newline" /\ i = Len(rows) -> rows[i]
                     [] OTHER -> Append(rows[i], NL)
    IN  Header \o FlattenSeq([i \in DOMAIN rows |-> Line(i)])

JobsCsv(p, layout) == File([i \in DOMAIN p.jobs |-> JobTokens(p.jobs[i])], layout)
PrecCsv(p, layout) == File([i \in DOMAIN p.prec |-> RelTokens(p.jobs, p.prec[i], "f")], layout)
MutexCsv(p, layout) == File([i \in DOMAIN p.mutexes |-> RelTokens(p.jobs, p.mutexes[i], "e")], layout)
AbortCsv(p, layout) == File([i \in DOMAIN p.aborts |-> AbortTokens(p.aborts[i])], layout)
PlatformCsv(p, layout) ==
    Header \o <<Token(Len(p.platform))>> \o FlattenSeq([i \in DOMAIN p.platform |-> Ends2(p.platform[i])])
        \o (IF layout = "lines" THEN <<NL>> ELSE <<>>)

Entry(p, i) ==
    LET job == p.jobs[i]
        out == SelectSeq(p.prec, LAMBDA e : e.from = i)
    IN  [task |-> job.task, job |-> job.job, arrival |-> <<job.arrival.min, job.arrival.max>>,
         cost |-> <<job.cost[1].min, job.cost[1].max>>, deadline |-> job.deadline,
         priority |-> job.priority, type |-> job.type, bad |-> "no",
         successors |-> [k \in DOMAIN out |->
            [ok |-> TRUE, task |-> p.jobs[out[k].to].task, job |-> p.jobs[out[k].to].job]]]
JobsYaml(p) == [i \in DOMAIN p.jobs |-> Entry(p, i)]
PlatformYaml(p) ==
    [cores |-> Len(p.platform),
     avail |-> [i \in DOMAIN p.platform |-> [ok |-> TRUE, v |-> <<p.platform[i].min, p.platform[i].max>>]]]

\* All parts of a problem in CSV files.
FilesOf(p, layout) ==
    "jobs.csv" :> JobsCsv(p, layout) @@ "prec.csv" :> PrecCsv(p, layout)
    @@ "excl.csv" :> MutexCsv(p, layout) @@ "abort.csv" :> AbortCsv(p, layout)
    @@ "platform.csv" :> PlatformCsv(p, layout)
Argv ==
    <<LongWith("precedence", "prec.csv"), Long("excl"), Text("excl.csv"), Short("a"), Text("abort.csv"),
      LongWith("platform", "platform.csv"), Text("jobs.csv")>>
CsvUse(p, layout) == Meaning(p, Use(Argv, FilesOf(p, layout)))
-----------------------------------------------------------------------------
(* Problems written by the rules. *)
Two(job) == ProblemOf(<<A, job>>, Free(2))
Three == ProblemOf(<<A, B, C>>, <<Interval(0, 1), Interval(2, 2)>>)

Constrained ==
    LET lists == {<<Rel(1, 2, "f", NoDelay)>>, <<Rel(2, 1, "s", Interval(1, 2)), Rel(3, 2, "f", Interval(0, 1))>>}
        mutexes == {<<Rel(1, 3, "e", NoDelay)>>, <<Rel(3, 2, "s", Interval(1, 1)), Rel(1, 2, "e", Interval(0, 2))>>}
        aborts == {<<>>, <<[id |-> <<2, 1>>, trigger |-> Interval(0, 4), cleanup |-> Interval(0, 1)],
                          [id |-> <<1, 1>>, trigger |-> Interval(3, 3), cleanup |-> NoDelay]>>}
    IN  {[Three EXCEPT !.prec = e, !.mutexes = m, !.aborts = a] : e \in lists, m \in mutexes, a \in aborts}

Written ==
    {CsvUse(p, layout) : p \in Constrained \cup {Two(ForkC), Two(Moldable), Two(GangC)}, layout \in Layouts}
        \cup {Meaning(p, Use(<<LongWith("platform", "platform.yaml"), Text("jobs.yaml")>>,
                     "jobs.yaml" :> JobsYaml(p) @@ "platform.yaml" :> PlatformYaml(p))) :
                p \in {Two(ForkC), [Three EXCEPT !.prec = <<Rel(1, 2, "f", NoDelay), Rel(1, 3, "f", NoDelay)>>]}}
        \cup {Meaning(ProblemOf(<<A, B>>, Free(m)), Use(<<ShortWith("m", text), Text("jobs.csv")>>,
                     "jobs.csv" :> JobsCsv(Two(B), "lines"))) :
                <<m, text>> \in {<<1, "1">>, <<2, "2">>}}

\* All graphs on three jobs, those with cycles too, from a CSV or a YAML file.
Graphs ==
    LET pairs == {<<a, b>> \in (1..3) \X (1..3) : a # b}
        EdgeSeq(s) == LET l == SetToSortSeq(s, LAMBDA x, y : x[1] < y[1] \/ (x[1] = y[1] /\ x[2] > y[2]))
                      IN  [i \in DOMAIN l |-> Rel(l[i][1], l[i][2], "f", NoDelay)]
        P(s) == [ProblemOf(<<A, B, C>>, Free(1)) EXCEPT !.prec = EdgeSeq(s)]
        Csv(p) == Meaning(p, Use(<<LongWith("prec", "prec.csv"), Text("jobs.csv")>>, FilesOf(p, "lines")))
        Yaml(p) == Meaning(p, Use(<<Long("precedence"), Text("prec.yaml"), Text("jobs.csv")>>,
                     "prec.yaml" :> JobsYaml(p) @@ "jobs.csv" :> JobsCsv(p, "lines")))
    IN  {Csv(P(s)) : s \in SUBSET pairs} \cup {Yaml(P(s)) : s \in {t \in SUBSET pairs : Cardinality(t) \in 2..3}}
        \cup {Csv([P({<<1, 3>>}) EXCEPT !.prec = @ \o @]), Csv(P({<<2, 2>>}))}
-----------------------------------------------------------------------------
(* Files with one mistake. *)
Broken(f) ==
    {SubSeq(f, 1, i - 1) \o put \o SubSeq(f, i + 1, Len(f)) :
        i \in DOMAIN f, put \in {<<>>, <<Mark("word")>>, <<Mark("s")>>, <<Token(2)>>}}
    \cup {SubSeq(f, 1, i) \o put \o SubSeq(f, i + 1, Len(f)) :
        i \in DOMAIN f, put \in {<<NL>>, <<NL, NL>>, <<Mark("}")>>, <<Token(0)>>}}

BrokenBase ==
    [ProblemOf(<<A, ForkC>>, <<Interval(0, 1)>>) EXCEPT
        !.prec = <<Rel(1, 2, "s", Interval(0, 1))>>,
        !.mutexes = <<Rel(1, 2, "s", Interval(1, 2))>>,
        !.aborts = <<[id |-> <<1, 1>>, trigger |-> Interval(1, 3), cleanup |-> NoDelay]>>]

BreakIn(p, name) ==
    {[Use(Argv, [FilesOf(p, "lines") EXCEPT ![name] = f]) EXCEPT !.dangling = TRUE] :
        f \in Broken(FilesOf(p, "lines")[name])}

BrokenCsv ==
    UNION {BreakIn(BrokenBase, name) : name \in {"prec.csv", "excl.csv", "abort.csv", "platform.csv"}}
        \cup BreakIn(Two(Moldable), "jobs.csv")

BrokenYaml ==
    LET p == [Three EXCEPT !.prec = <<Rel(1, 2, "f", NoDelay), Rel(2, 3, "f", NoDelay)>>]
        WrongAt(entry, i, bad) == [JobsYaml(p) EXCEPT ![i].bad = bad]
    IN  {[Use(<<Text("jobs.yaml")>>, "jobs.yaml" :> WrongAt(p, i, bad)) EXCEPT !.dangling = TRUE] :
            i \in 1..3, bad \in {"id", "data"}}
        \cup {Use(<<Text("jobs.yaml")>>, "jobs.yaml" :> [JobsYaml(p) EXCEPT ![2].successors[1].ok = FALSE])}
        \cup {Use(<<LongWith("platform", "platform.yaml"), Text("jobs.csv")>>,
                  "jobs.csv" :> JobsCsv(Two(GangC), "lines") @@ "platform.yaml" :> doc) :
                doc \in {[PlatformYaml(p) EXCEPT !.cores = -1], [PlatformYaml(p) EXCEPT !.cores = 1],
                         [PlatformYaml(p) EXCEPT !.cores = 3], [PlatformYaml(p) EXCEPT !.avail[1].ok = FALSE]}}

\* Constraints that do not fit the jobs.
Inconsistent ==
    LET action(id, min, max) == [id |-> id, trigger |-> Interval(min, max), cleanup |-> NoDelay]
        list == {<<action(<<1, 1>>, 0, 0)>>, <<action(<<1, 2>>, 1, 2)>>, <<action(<<7, 1>>, 3, 3)>>,
                 <<action(<<1, 1>>, 1, 1), action(<<1, 2>>, 2, 2), action(<<2, 1>>, 0, 1)>>,
                 <<action(<<7, 1>>, 3, 3), action(<<1, 2>>, 0, 0)>>, <<action(<<1, 2>>, 1, 1), action(<<7, 1>>, 3, 3)>>}
        base == [Three EXCEPT !.prec = <<Rel(1, 2, "f", NoDelay)>>]
    IN  {CsvUse([base EXCEPT !.aborts = l], "lines") : l \in list}
        \cup {CsvUse([base EXCEPT !.mutexes = <<Rel(1, 3, "s", Interval(0, d))>>], "lines") : d \in 0..1}
        \cup {CsvUse([Two(GangC) EXCEPT !.platform = Free(m)], "lines") : m \in 0..1}
        \cup {[CsvUse(base, "lines") EXCEPT !.files["prec.csv"] = Append(Header, NL)]}
        \cup {[u EXCEPT !.meant = <<>>, !.argv = Append(SelectSeq(@, LAMBDA a : a.name # "platform"), ShortWith("m", "0"))] :
                u \in {CsvUse(base, "lines")}}
        \* Two jobs with one id.
        \cup {CsvUse([ProblemOf(<<A, C, A>>, Free(1)) EXCEPT !.aborts = <<action(<<1, 1>>, 1, 2)>>], "lines")}

MkFiles ==
    LET rows == <<<<Token(0), Token(1), Token(2)>>, <<Token(1), Token(0), Token(1)>>>>
        good == File(rows, "lines")
        MkUse(name, f) == Use(<<LongWith("mk", name), Text("jobs.csv")>>,
                              name :> f @@ "jobs.csv" :> JobsCsv(Two(C), "lines"))
    IN  {MkUse("mk.csv", f) : f \in {good, File(rows, "spread"), File(<<rows[2]>>, "lines")} \cup Broken(good)}
        \cup {[MkUse("mk.csv", good) EXCEPT !.build = {}], MkUse("prec.yaml", <<>>), MkUse("", <<>>)}
-----------------------------------------------------------------------------
(* Command lines and configuration files. *)
BaseFiles == FilesOf([Two(B) EXCEPT !.prec = <<Rel(1, 2, "f", NoDelay)>>], "lines")
ConfigDocs ==
    {<<>>,
     [jobs |-> "jobs.csv", precedence_constraints |-> "prec.csv", platform |-> "platform.csv",
      abort_actions |-> "none", time_model |-> "dense", merge_strategy |-> "l2"],
     [jobs |-> "jobs.csv", precedence_constraints |-> "other.csv", exclusion_constraints |-> "excl.csv",
      depth |-> "1", runtime |-> "1m30s", memory_usage |-> "1.5M2K", verbose |-> "true"],
     [stop_at_first_deadline_miss |-> "true", active |-> "false", threads |-> "3", header |-> "true",
      response_time |-> "true", time_model |-> "discrete"],
     [depth |-> "many"], [header |-> "yes"],
     [activate |-> "false", config |-> "other.yaml", focused_exploration |-> "true", focused_expl_config |-> "other.yaml"],
     [activate |-> "true", merge_strategy |-> "lmax", runtime |-> "soon"]}
ConfigUse(doc, argv) ==
    [Use(<<LongWith("config", "config.yaml")>> \o argv, BaseFiles @@ "config.yaml" :> doc) EXCEPT
        !.build = IF "activate" \in DOMAIN doc THEN GraphBuild ELSE ParallelBuild]

ArgLists ==
    {<<>>, <<Text("jobs.csv")>>,
     <<LongWith("precedence", "prec.csv"), LongWith("time", "discrete"), Text("jobs.csv")>>,
     <<LongWith("time", "discrete"), LongWith("time", "dense"), Long("depth-limit"), Text("2"), Text("jobs.csv")>>,
     <<Long("threads"), Text("2"), Long("continue-after-deadline-miss"), Text("jobs.csv")>>,
     <<LongWith("time-limit", "0.5"), LongWith("mem-limit", "soon"), Text("jobs.csv")>>,
     <<LongWith("platform", "platform.csv"), Long("abort-actions"), Text("abort.csv"), Text("jobs.csv")>>,
     <<LongWith("mem-limit", "2"), Long("header"), Long("verbose"), Long("report"), Long("miss_info"), Text("jobs.csv")>>,
     <<LongWith("excl", "mutex.csv"), LongWith("mk", "mk.csv"), LongWith("focus", "focus.yaml"), Long("parallel"),
       Text("jobs.csv")>>,
     <<Short("c"), Short("l"), Text("2"), Short("t"), Text("dense"), Short("r"), Text("jobs.csv")>>,
     <<Long("save-graph"), LongWith("log_opts", "log.yaml"), Text("jobs.csv")>>}

\* What only the parser of the command line sees.
OddArgLists ==
    {<<Long("help")>>, <<Short("h"), Text("jobs.csv")>>, <<Text("jobs.csv"), Short("v")>>, <<LongWith("ver", "1")>>,
     <<LongWith("merge", "l4")>>, <<LongWith("nothing", "1")>>, <<Long("depth-limit")>>, <<Short("q")>>,
     <<Short("m")>>, <<Short("p"), Text("prec.csv"), EndOfOptions, Text("jobs.csv"), Long("help")>>,
     <<ShortWith("r", "c"), Text("jobs.csv")>>, <<ShortWith("r", "q"), Text("jobs.csv")>>,
     <<Short("l"), Text("1m30s"), Text("jobs.csv")>>, <<Short("p"), Text(""), Text("jobs.csv")>>,
     <<Short("d"), Text("many"), Text("jobs.csv")>>,
     <<LongWith("multiprocessor", "0"), Text("jobs.csv")>>, <<LongWith("config", "missing.yaml")>>,
     <<LongWith("mem-limit", "1.5M2K"), LongWith("time-limit", "m2"), Text("jobs.csv"), Text("more.csv")>>,
     <<LongWith("time-limit", "1y"), Long("miss_info"), Long("header"), Long("verbose"), Text("jobs.csv")>>}

Overridden ==
    {ConfigUse(d, a) : d \in ConfigDocs, a \in ArgLists}
        \cup {Use(a, BaseFiles) : a \in OddArgLists}
        \cup {GraphUse(a, BaseFiles) : a \in {<<LongWith("dep", "1"), Short("g"), Text("jobs.csv")>>}}
        \cup {[Use(a, BaseFiles) EXCEPT !.build = {}] :
                a \in {<<LongWith("parallel", "1"), Text("jobs.csv")>>, <<Long("mk"), Text("mk.csv")>>,
                       <<LongWith("focus", "x"), Text("jobs.csv")>>, <<Short("g"), Text("jobs.csv")>>}}
        \cup {ConfigUse([activate_mk_analysis |-> flag, mk_constraints |-> "mk.csv",
                         focused_exploration |-> flag, focused_expl_config |-> ""], <<Text("jobs.csv")>>) :
                flag \in {"true", "false", "maybe"}}

\* --merge, --no-parallel and -m against the configuration file.
MergeGiven == {ConfigUse([jobs |-> "jobs.csv", merge_strategy |-> "l2"], <<LongWith("merge", "lmax")>>)}
NotOverriding ==
    MergeGiven \cup {ConfigUse([jobs |-> "jobs.csv", platform |-> "platform.csv"], argv) :
                        argv \in {<<Long("no-parallel")>>, <<LongWith("multiprocessor", "1")>>}}

\* The limits of an analysis of up to three jobs.
Limited ==
    {[Use(argv, [BaseFiles EXCEPT !["jobs.csv"] = JobsCsv(p, "lines")]) EXCEPT !.build = {}] :
        p \in {ProblemOf(<<A, B, C>>, Free(1)), ProblemOf(<<LateA, B>>, Free(1))},
        argv \in {<<Short("d"), Text(depth), Text("jobs.csv")>> : depth \in {"0", "1", "2", "3"}}
                    \cup {<<Short("c"), Text("jobs.csv")>>, <<Long("miss_info"), Short("r"), Text("jobs.csv")>>,
                          <<Short("l"), Text("2"), Short("d"), Text("2"), Text("jobs.csv")>>,
                          <<LongWith("mem-limit", "2"), Text("jobs.csv")>>}}
-----------------------------------------------------------------------------
(* Focused explorations and logged graphs. *)
One(id) == <<[ok |-> TRUE, id |-> id]>>
Everywhere ==
    [loads |-> TRUE, wrong |-> FALSE, jobset |-> <<>>, taskset |-> {}, time |-> 0, tasks |-> {},
     jobs |-> <<>>, jobsets |-> <<>>]
FocusDocs ==
    {Everywhere, [Everywhere EXCEPT !.loads = FALSE], [Everywhere EXCEPT !.wrong = TRUE],
     [Everywhere EXCEPT !.jobset = One(<<1, 1>>) \o One(<<2, 1>>)], [Everywhere EXCEPT !.taskset = {1}],
     [Everywhere EXCEPT !.tasks = {2}, !.time = 1],
     [Everywhere EXCEPT !.jobs = One(<<1, 2>>) \o <<[ok |-> FALSE, id |-> <<2, 1>>]>>],
     [Everywhere EXCEPT !.jobsets = <<One(<<1, 1>>) \o One(<<2, 1>>)>>],
     [Everywhere EXCEPT !.jobsets = <<One(<<1, 2>>), One(<<2, 1>>) \o One(<<7, 7>>)>>],
     [Everywhere EXCEPT !.jobsets = <<One(<<7, 7>>)>>, !.time = 2]}
Focused ==
    {[Use(<<Short("f"), Text(name), Text("jobs.csv")>>,
          "focus.yaml" :> doc @@ "jobs.csv" :> JobsCsv(ProblemOf(<<A, B, C>>, Free(1)), "lines")) EXCEPT
        !.build = {"PRUNING"}] : doc \in FocusDocs, name \in {"focus.yaml"}}
    \cup {Use(<<Short("f"), Text("missing.yaml"), Text("jobs.csv")>>, BaseFiles)}

LogAll == [conditions |-> <<>>, wrong |-> "none", shown |-> <<>>, shown_wrong |-> "none"]
LogDocs ==
    {LogAll, [LogAll EXCEPT !.wrong = "all"],
     [LogAll EXCEPT !.conditions = [Jobs |-> {<<1, 1>>}]],
     [LogAll EXCEPT !.conditions = [Jobs |-> {<<7, 7>>}]],
     [LogAll EXCEPT !.conditions = [Tasks |-> {1}, Depth |-> Interval(1, 2)]],
     [LogAll EXCEPT !.conditions = [Dispatched |-> {<<1, 1>>}]],
     [LogAll EXCEPT !.conditions = [NotDispatched |-> {<<2, 1>>}]],
     [LogAll EXCEPT !.conditions = [NotDispatched |-> {<<1, 2>>}, Dispatched |-> {<<2, 1>>}], !.wrong = "NotDispatched"],
     [LogAll EXCEPT !.conditions = [Time |-> Interval(0, 1), DeadlineMiss |-> TRUE]],
     [LogAll EXCEPT !.shown = [StartTime |-> FALSE, NodeKey |-> TRUE, FinishTime |-> FALSE], !.shown_wrong = "FinishTime"]}
Logged ==
    {[Use(<<Short("g")>> \o LogOpts \o <<Short("c"), Text("jobs.csv")>>,
          "log.yaml" :> doc @@ "jobs.csv" :> JobsCsv(ProblemOf(<<LateA, B, C>>, Free(1)), "lines")) EXCEPT
        !.build = {"COLLECT_SCHEDULE_GRAPH"}] :
            doc \in LogDocs, LogOpts \in {<<LongWith("log_opts", "log.yaml")>>}}
    \cup {GraphUse(<<Short("g"), Text("jobs.csv")>>, BaseFiles),
          GraphUse(<<Short("g"), LongWith("log_opts", "missing.yaml"), Text("jobs.csv")>>, BaseFiles)}
-----------------------------------------------------------------------------
(* Conditional branches: a fork with two branches and a join; and a job of a    *)
(* branch that follows a job outside too, so that it becomes ready although it  *)
(* was discarded.                                                               *)
Branching ==
    [ProblemOf(<<ForkC, A, B, JoinD>>, Free(1)) EXCEPT
        !.prec = <<Rel(1, 2, "f", NoDelay), Rel(1, 3, "f", NoDelay), Rel(2, 4, "f", NoDelay), Rel(3, 4, "f", NoDelay)>>,
        !.aborts = <<[id |-> <<1, 1>>, trigger |-> Interval(3, 3), cleanup |-> NoDelay]>>]
Reviving ==
    [ProblemOf(<<ForkC, A, B, JoinD, [JoinD EXCEPT !.job = 3, !.type = 0]>>, Free(1)) EXCEPT
        !.prec = <<Rel(1, 2, "f", NoDelay), Rel(1, 3, "f", NoDelay), Rel(4, 3, "f", NoDelay)>>]

BranchUse(p, argv, build) ==
    [Use(<<LongWith("precedence", "prec.csv")>> \o argv \o <<Text("jobs.csv")>>, FilesOf(p, "lines")) EXCEPT
        !.build = build]
Branched ==
    {BranchUse(Branching, argv, {}) :
        argv \in {<<Short("d"), Text(depth)>> : depth \in {"0", "1", "2", "3"}}
                    \cup {<<Short("l"), Text("2"), Short("d"), Text("2")>>, <<Short("a"), Text("abort.csv")>>}}
    \cup {BranchUse(Reviving, <<>>, {})}
    \cup {[BranchUse(Branching, <<Short("f"), Text("focus.yaml")>>, {"PRUNING"}) EXCEPT
                !.files = "focus.yaml" :> doc @@ @] :
            doc \in {[Everywhere EXCEPT !.jobs = One(<<1, 1>>)],
                     [Everywhere EXCEPT !.jobsets = <<One(<<1, 1>>) \o One(<<2, 2>>)>>],
                     [Everywhere EXCEPT !.jobsets = <<One(<<1, 2>>) \o One(<<1, 1>>)>>]}}
    \cup {[BranchUse(Branching, <<Short("g"), LongWith("log_opts", "log.yaml")>>, {"COLLECT_SCHEDULE_GRAPH"}) EXCEPT
                !.files = "log.yaml" :> [LogAll EXCEPT !.conditions = cond] @@ @] :
            cond \in {[NotDispatched |-> {<<1, 2>>}, Time |-> Interval(2, 3)],
                      [Dispatched |-> {<<1, 2>>}, Depth |-> Interval(3, 3)], [DeadlineMiss |-> TRUE]}}
-----------------------------------------------------------------------------
ReadingInputs ==
    Written \cup Graphs \cup BrokenCsv \cup BrokenYaml \cup Inconsistent \cup MkFiles
        \cup Overridden \cup NotOverriding \cup Limited \cup Focused \cup Logged \cup Branched
=============================================================================
