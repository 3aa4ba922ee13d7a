---------------------------- MODULE CommandLine ----------------------------
(***************************************************************************)
(* The command line of nptest: the options it declares and the parser      *)
(* (optparse::OptionParser) that sorts the arguments into the options set  *)
(* by the user and the names of job set files.                             *)
(*                                                                         *)
(* input is one use of the program, a record with the fields               *)
(*   build  the compile-time features that are switched on                 *)
(*   argv   the arguments, a sequence of [form, name, value, joined]: form *)
(*          is "long" (--name), "short" (-n), "end" (--) or "text" (name   *)
(*          is then the argument itself); joined says that a value comes   *)
(*          with the option (--name=value, -nvalue)                        *)
(*   files  the files that can be opened, a function from their names      *)
(***************************************************************************)
EXTENDS Integers, Sequences, FiniteSets, TLC

CONSTANTS
    Inputs,         \* the uses of the program
    Abbreviations   \* pairs of a prefix and the long option that it begins

VARIABLES
    input,
    pc,             \* what the program does next
    exit_code,      \* -1 while it runs
    remaining,      \* the arguments that are not parsed yet
    values,         \* the values of the options that the user sets
    leftover        \* the other arguments

args_vars == <<remaining, values, leftover>>

Running == -1
Crashed == 139

Has(feature) == feature \in input.build

Exit(code) == pc' = "done" /\ exit_code' = code
-----------------------------------------------------------------------------
Option(dest, action, const, choices) ==
    [dest |-> dest, action |-> action, const |-> const, choices |-> choices]
Store(dest) == Option(dest, "store", "", {})
Flag(dest, const) == Option(dest, "store_const", const, {})
Choice(dest, choices) == Option(dest, "store", "", choices)

MergeLevels == {"no", "c1", "c2", "l1", "l2", "l3", "lmax"}

LongOptions ==
    [help |-> Option("", "help", "", {}), version |-> Flag("version", "1"),
     config |-> Store("config_file"), merge |-> Choice("merge_opts", MergeLevels),
     time |-> Choice("time_model", {"dense", "discrete"}),
     precedence |-> Store("precedence_file"), excl |-> Store("excl_file"),
     multiprocessor |-> Store("num_processors"), platform |-> Store("platform_file"),
     header |-> Flag("print_header", "1"), verbose |-> Flag("verbose", "1"),
     report |-> Flag("rta", "1"), miss_info |-> Flag("miss_info", "1"),
     log_opts |-> Store("dot_file"), mk |-> Store("mk_file"), focus |-> Store("focus_file")]
    @@ "time-limit" :> Store("timeout") @@ "mem-limit" :> Store("mem_max")
    @@ "depth-limit" :> Store("depth") @@ "abort-actions" :> Store("abort_file")
    @@ "continue-after-deadline-miss" :> Flag("go_on_after_dl", "1")
    @@ "save-graph" :> Flag("want_dot", "1")
    @@ (IF Has("PARALLEL")
        THEN "parallel" :> Flag("parallel", "1") @@ "no-parallel" :> Flag("parallel", "0")
                @@ "threads" :> Store("num_threads")
        ELSE <<>>)

ShortOptions ==
    [h |-> "help", v |-> "version", t |-> "time", l |-> "time-limit", d |-> "depth-limit",
     p |-> "precedence", a |-> "abort-actions", m |-> "multiprocessor", r |-> "report",
     c |-> "continue-after-deadline-miss", g |-> "save-graph", f |-> "focus"]

TakesValue(o) == o.action = "store"

\* The long options that a given name stands for: the one of that name, or all
\* that it is a prefix of.
Matching(name) ==
    IF name \in DOMAIN LongOptions THEN {name}
    ELSE {n \in DOMAIN LongOptions : <<name, n>> \in Abbreviations}
-----------------------------------------------------------------------------
\* A wrong command line ends the program with exit code 2.
Error == Exit(2) /\ UNCHANGED <<args_vars>>

\* process_opt: o is set to value, rest is left to parse.
ProcessOpt(o, value, rest) ==
    CASE o.action = "help" -> Exit(0) /\ UNCHANGED <<args_vars>>
      [] o.choices # {} /\ value \notin o.choices -> Error
      [] OTHER ->
            /\ values' = (o.dest :> (IF TakesValue(o) THEN value ELSE o.const)) @@ values
            /\ remaining' = rest
            /\ UNCHANGED <<pc, exit_code, leftover>>

HandleLongOpt ==
    /\ pc = "args" /\ remaining # <<>> /\ Head(remaining).form = "long"
    /\ LET arg   == Head(remaining)
           rest  == Tail(remaining)
           taken == ~arg.joined /\ rest # <<>>
       IN  IF Cardinality(Matching(arg.name)) # 1 THEN Error
           ELSE LET o == LongOptions[CHOOSE n \in Matching(arg.name) : TRUE]
                    value == IF arg.joined THEN arg.value
                             ELSE IF taken THEN Head(rest).name ELSE ""
                IN  CASE ~TakesValue(o) -> ProcessOpt(o, "", rest)
                      [] TakesValue(o) /\ value = "" -> Error
                      [] OTHER -> ProcessOpt(o, value, IF taken THEN Tail(rest) ELSE rest)
    /\ UNCHANGED input

\* The letters after a short option are its value, or further options.  An empty
\* argument is accepted as a value.
HandleShortOpt ==
    /\ pc = "args" /\ remaining # <<>> /\ Head(remaining).form = "short"
    /\ LET arg  == Head(remaining)
           rest == Tail(remaining)
       IN  IF arg.name \notin DOMAIN ShortOptions THEN Error
           ELSE LET o == LongOptions[ShortOptions[arg.name]]
                    next == [form |-> "short", name |-> arg.value, value |-> "", joined |-> FALSE]
                IN  CASE ~TakesValue(o) ->
                            ProcessOpt(o, "", IF arg.joined THEN <<next>> \o rest ELSE rest)
                      [] TakesValue(o) /\ arg.joined -> ProcessOpt(o, arg.value, rest)
                      [] TakesValue(o) /\ ~arg.joined /\ rest = <<>> -> Error
                      [] OTHER -> ProcessOpt(o, Head(rest).name, Tail(rest))
    /\ UNCHANGED input

HandleText ==
    /\ pc = "args" /\ remaining # <<>> /\ Head(remaining).form = "text"
    /\ leftover' = Append(leftover, Head(remaining).name)
    /\ remaining' = Tail(remaining)
    /\ UNCHANGED <<input, pc, exit_code, values>>

\* What follows -- is no option.
HandleEnd ==
    /\ pc = "args" /\ remaining # <<>> /\ Head(remaining).form = "end"
    /\ leftover' = leftover \o [i \in 1..(Len(remaining) - 1) |-> remaining[i + 1].name]
    /\ remaining' = <<>>
    /\ UNCHANGED <<input, pc, exit_code, values>>

\* All arguments are parsed.  --version prints the version and stops.
ArgsParsed ==
    /\ pc = "args" /\ remaining = <<>>
    /\ IF "version" \in DOMAIN values THEN Exit(0)
       ELSE pc' = "config" /\ UNCHANGED exit_code
    /\ UNCHANGED <<input, args_vars>>
-----------------------------------------------------------------------------
CommandLineInit ==
    /\ input \in Inputs
    /\ pc = "args" /\ exit_code = Running
    /\ remaining = input.argv /\ values = <<>> /\ leftover = <<>>

ParseArgs == HandleLongOpt \/ HandleShortOpt \/ HandleText \/ HandleEnd \/ ArgsParsed
=============================================================================
