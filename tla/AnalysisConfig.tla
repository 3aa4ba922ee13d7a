--------------------------- MODULE AnalysisConfig ---------------------------
(***************************************************************************)
(* The configuration of an analysis (Analysis_config): its defaults, the   *)
(* YAML configuration file and the options of the command line.            *)
(*                                                                         *)
(* A configuration file is a function from the keys that it sets to the    *)
(* text of their values.                                                   *)
(***************************************************************************)
EXTENDS CommandLine, FiniteSetsExt

CONSTANTS
    Numerals,   \* the number that a text denotes, for the texts that do
    Spellings   \* limits such as "1m30s": the numbers, in tenths, and their
                \* units, in order

\* The options that hold a number are unsigned.
ASSUME NumeralsAssumption == \A text \in DOMAIN Numerals : Numerals[text] \in Nat

VARIABLE config

Numeral(text) == IF text \in DOMAIN Numerals THEN Numerals[text] ELSE 0

DefaultConfig ==
    [want_naive |-> FALSE, merge_conservative |-> FALSE, merge_use_job_finish_times |-> FALSE,
     merge_depth |-> 1, want_dense |-> FALSE, want_verbose |-> FALSE, want_header |-> FALSE,
     want_rta_file |-> FALSE, want_width_file |-> FALSE, want_deadline_miss_info |-> FALSE,
     jobs_file |-> "", want_precedence |-> FALSE, precedence_file |-> "",
     want_mutexes |-> FALSE, excl_file |-> "", want_aborts |-> FALSE, aborts_file |-> "",
     num_processors |-> 1, platform_defined |-> FALSE, platform_file |-> "",
     timeout |-> 0, mem_max |-> 0, max_depth |-> 0, continue_after_dl_miss |-> FALSE,
     want_parallel |-> Has("PARALLEL"), num_threads |-> 0, want_focus |-> FALSE,
     focus_file |-> "", want_mk |-> FALSE, mk_file |-> "", want_dot_graph |-> FALSE,
     dot_file |-> ""]

\* update_merge_options: an unknown level counts as l1.
UpdateMergeOptions(level, c) ==
    [c EXCEPT !.want_naive = level = "no",
              !.merge_conservative = level \in {"c1", "c2"},
              !.merge_use_job_finish_times = level = "c2",
              !.merge_depth = CASE level = "l2" -> 2 [] level = "l3" -> 3
                                [] level = "lmax" -> -1 [] OTHER -> 1]
-----------------------------------------------------------------------------
(***************************************************************************)
(* Limits.  Zero stands for no limit, and for a limit that is not          *)
(* understood.  A part of a spelling has tenths = -1 when its digits are   *)
(* no number and -2 when it is a unit without digits.                      *)
(***************************************************************************)
Seconds == [d |-> 86400, h |-> 3600, m |-> 60, s |-> 1] @@ "" :> 1
Kibibytes == [K |-> 1, M |-> 1024, G |-> 1024 * 1024] @@ "" :> 1

Amount(part, units) == (part.tenths * units[part.unit]) \div 10

ParseTimeLimit(text) ==
    IF text = "" THEN 0
    ELSE LET parts == {i \in DOMAIN Spellings[text] : Spellings[text][i].tenths # -2}
             Wrong(i) == Spellings[text][i].tenths = -1
                            \/ Spellings[text][i].unit \notin DOMAIN Seconds
         IN  IF \E i \in parts : Wrong(i) THEN 0
             ELSE MapThenSumSet(LAMBDA i : Amount(Spellings[text][i], Seconds), parts)

\* What follows the first unit is not looked at.
ParseMemoryLimit(text) ==
    IF text = "" THEN 0
    ELSE LET part == Head(Spellings[text])
         IN  IF part.tenths < 0 \/ part.unit \notin DOMAIN Kibibytes THEN 0
             ELSE Amount(part, Kibibytes)
-----------------------------------------------------------------------------
(***************************************************************************)
(* The configuration file.                                                 *)
(***************************************************************************)
BoolKeys ==
    {"stop_at_first_deadline_miss", "response_time", "graph_width", "miss_state_info",
     "header", "verbose"}
        \cup (IF Has("PRUNING") THEN {"focused_exploration"} ELSE {})
        \cup (IF Has("COLLECT_SCHEDULE_GRAPH") THEN {"activate"} ELSE {})
        \cup (IF Has("PARALLEL") THEN {"active"} ELSE {})

\* The extensions are looked at only when the inputs name a file for them.
MkKeyRead(doc) ==
    /\ Has("ANALYSIS_EXTENSIONS")
    /\ "activate_mk_analysis" \in DOMAIN doc
    /\ DOMAIN doc \cap {"mk_constraints", "task_chains"} # {}

Readable(doc) ==
    /\ \A k \in (BoolKeys \cup (IF MkKeyRead(doc) THEN {"activate_mk_analysis"} ELSE {}))
                    \cap DOMAIN doc :
            doc[k] \in {"true", "false"}
    /\ "depth" \in DOMAIN doc => doc["depth"] \in DOMAIN Numerals \cup {"none"}
    /\ Has("PARALLEL") /\ "threads" \in DOMAIN doc => doc["threads"] \in DOMAIN Numerals

ReadConfig(doc) ==
    LET Text(k) == IF k \in DOMAIN doc /\ doc[k] # "none" THEN doc[k] ELSE ""
        Bool(k) == k \in DOMAIN doc /\ doc[k] = "true"
        focus == Has("PRUNING") /\ Bool("focused_exploration")
        mk    == MkKeyRead(doc) /\ Bool("activate_mk_analysis")
        graph == Has("COLLECT_SCHEDULE_GRAPH")
    IN  [UpdateMergeOptions(Text("merge_strategy"), DefaultConfig) EXCEPT
            !.want_dense = Text("time_model") = "dense",
            !.continue_after_dl_miss = Bool("stop_at_first_deadline_miss"),
            !.want_focus = focus,
            !.focus_file = IF focus /\ "focused_expl_config" \in DOMAIN doc
                           THEN doc["focused_expl_config"] ELSE "",
            !.want_mk = mk,
            !.mk_file = IF mk /\ "mk_constraints" \in DOMAIN doc THEN doc["mk_constraints"] ELSE "",
            !.jobs_file = Text("jobs"),
            !.want_precedence = Text("precedence_constraints") # "",
            !.precedence_file = Text("precedence_constraints"),
            !.want_mutexes = Text("exclusion_constraints") # "",
            !.excl_file = Text("exclusion_constraints"),
            !.want_aborts = Text("abort_actions") # "",
            !.aborts_file = Text("abort_actions"),
            !.platform_defined = Text("platform") # "",
            !.platform_file = Text("platform"),
            !.want_rta_file = Bool("response_time"),
            !.want_width_file = Bool("graph_width"),
            !.want_deadline_miss_info = Bool("miss_state_info"),
            !.want_dot_graph = graph /\ Bool("activate"),
            !.dot_file = IF graph THEN Text("config") ELSE "",
            !.mem_max = ParseMemoryLimit(Text("memory_usage")),
            !.timeout = ParseTimeLimit(Text("runtime")),
            !.max_depth = Numeral(Text("depth")),
            !.want_header = Bool("header"),
            !.want_verbose = Bool("verbose"),
            !.want_parallel = Has("PARALLEL") /\ ("active" \in DOMAIN doc => Bool("active")),
            !.num_threads = IF Has("PARALLEL") THEN Numeral(Text("threads")) ELSE 0]

ParseConfigFile ==
    /\ pc = "config"
    /\ IF "config_file" \notin DOMAIN values \/ values["config_file"] = ""
       THEN config' = DefaultConfig /\ pc' = "options" /\ UNCHANGED exit_code
       ELSE IF values["config_file"] \in DOMAIN input.files
                /\ Readable(input.files[values["config_file"]])
            THEN /\ config' = ReadConfig(input.files[values["config_file"]])
                 /\ pc' = "options" /\ UNCHANGED exit_code
            ELSE Exit(1) /\ UNCHANGED config
    /\ UNCHANGED <<input, args_vars>>
-----------------------------------------------------------------------------
(***************************************************************************)
(* The options of the command line come on top of the configuration file.  *)
(***************************************************************************)
Set(dest) == dest \in DOMAIN values
Value(dest) == IF Set(dest) THEN values[dest] ELSE ""

\* An option that names no file, or that the build knows nothing of.
OptionRefused ==
    \/ \E dest \in {"precedence_file", "excl_file", "abort_file", "platform_file"} :
            Set(dest) /\ Value(dest) = ""
    \/ ~Set("platform_file") /\ Set("num_processors") /\ Numeral(Value("num_processors")) = 0
    \/ Set("mk_file") /\ (Has("ANALYSIS_EXTENSIONS") => Value("mk_file") = "")
    \/ Has("PRUNING") /\ Set("focus_file") /\ Value("focus_file") = ""
    \/ ~Has("PARALLEL") /\ (Set("parallel") \/ Set("num_threads"))
    \/ ~Has("COLLECT_SCHEDULE_GRAPH") /\ (Set("want_dot") \/ Set("dot_file"))

\* Faulty variant of WithLimits: a limit of the configuration file is kept.
KeepLimits(c) ==
    [c EXCEPT !.timeout = IF @ = 0 THEN ParseTimeLimit(Value("timeout")) ELSE @,
              !.mem_max = IF @ = 0 THEN ParseMemoryLimit(Value("mem_max")) ELSE @,
              !.max_depth = IF @ = 0 THEN Numeral(Value("depth")) ELSE @]

WithLimits(c) ==
    [c EXCEPT !.timeout = IF Set("timeout") THEN ParseTimeLimit(Value("timeout")) ELSE @,
              !.mem_max = IF Set("mem_max") THEN ParseMemoryLimit(Value("mem_max")) ELSE @,
              !.max_depth = IF Set("depth") THEN Numeral(Value("depth")) ELSE @]

\* The level of merging is looked for under another name than that of --merge,
\* and --no-parallel under that of --parallel.
WithOptions(c) ==
    LET File(dest, old) == IF Set(dest) THEN Value(dest) ELSE old
        merged   == IF Set("merge_strategy")
                    THEN UpdateMergeOptions(Value("merge_strategy"), WithLimits(c)) ELSE WithLimits(c)
        graph    == c.want_dot_graph \/ (Has("COLLECT_SCHEDULE_GRAPH") /\ Set("want_dot"))
        parallel == c.want_parallel \/ Set("parallel") \/ Set("num_threads")
    IN  [merged EXCEPT
            !.want_dense = IF Set("time_model") THEN Value("time_model") = "dense" ELSE @,
            !.want_precedence = @ \/ Set("precedence_file"),
            !.precedence_file = File("precedence_file", @),
            !.want_mutexes = @ \/ Set("excl_file"),
            !.excl_file = File("excl_file", @),
            !.want_aborts = @ \/ Set("abort_file"),
            !.aborts_file = File("abort_file", @),
            !.platform_defined = @ \/ Set("platform_file"),
            !.platform_file = File("platform_file", @),
            !.num_processors = IF Set("num_processors") /\ ~Set("platform_file")
                               THEN Numeral(Value("num_processors")) ELSE @,
            !.want_mk = @ \/ Set("mk_file"),
            !.mk_file = File("mk_file", @),
            !.continue_after_dl_miss = @ \/ Set("go_on_after_dl"),
            !.want_focus = @ \/ (Has("PRUNING") /\ Set("focus_file")),
            !.focus_file = IF Has("PRUNING") THEN File("focus_file", @) ELSE @,
            !.want_parallel = parallel /\ ~(c.want_dot_graph /\ Has("COLLECT_SCHEDULE_GRAPH")),
            !.num_threads = IF Set("num_threads") THEN Numeral(Value("num_threads")) ELSE @,
            !.want_rta_file = @ \/ Set("rta"),
            !.want_width_file = @ \/ Set("rta"),
            !.want_deadline_miss_info = @ \/ Set("miss_info"),
            !.want_header = @ \/ Set("print_header"),
            !.want_verbose = @ \/ Set("verbose"),
            !.want_dot_graph = graph,
            !.dot_file = IF Set("want_dot") /\ Value("dot_file") # "" THEN Value("dot_file") ELSE @]

ParseInputOptions ==
    /\ pc = "options"
    /\ IF OptionRefused THEN Exit(1) /\ UNCHANGED config
       ELSE config' = WithOptions(config) /\ pc' = "jobs" /\ UNCHANGED exit_code
    /\ UNCHANGED <<input, args_vars>>
=============================================================================
