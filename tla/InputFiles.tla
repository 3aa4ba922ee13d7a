----------------------------- MODULE InputFiles -----------------------------
(***************************************************************************)
(* Reading the input files.                                                *)
(*                                                                         *)
(* A CSV file is the sequence of its tokens, records [k, v] of a kind and  *)
(* a value: "num", "nl" (the end of a line), one of the words "s", "f",    *)
(* "e" and "word", or a brace.  Commas, colons, semicolons and blanks only *)
(* separate tokens.  A YAML job set is a sequence of entries               *)
(*   [task, job, arrival, cost, deadline, priority, type, bad,             *)
(*    successors : sequences of [ok, task, job]]                           *)
(* where bad names what cannot be read of it: "no", "id" or "data".        *)
(***************************************************************************)
EXTENDS AnalysisConfig, SequencesExt, Intervals

CONSTANTS
    YamlNames,  \* the names of files that end in .yaml or .yml
    Garbage     \* what a variable that was never assigned may hold

IsYaml(name) == name \in YamlNames
-----------------------------------------------------------------------------
MoreData(f, p) == p <= Len(f)

MoreFieldsInLine(f, p) == p <= Len(f) /\ f[p].k # "nl"

NextLine(f, p) ==
    LET ends == {q \in p..Len(f) : f[q].k = "nl"}
    IN  IF ends = {} THEN Len(f) + 1 ELSE Min(ends) + 1

\* The positions of the fields from p on.  The ends of lines are blanks.
Fields(f, p) == SelectSeq([i \in 1..(Len(f) + 1 - p) |-> p + i - 1], LAMBDA q : f[q].k # "nl")

NumbersAt(f, p, n, at) ==
    LET count == Max({k \in 0..n : k <= Len(at) /\ \A i \in 1..k : f[at[i]].k = "num"})
    IN  [ok |-> count = n, eof |-> count < n /\ count = Len(at),
         v |-> [i \in 1..count |-> f[at[i]].v],
         at |-> IF count = 0 THEN p ELSE at[count] + 1]

\* Reading n numbers, from position p on.  When it fails, eof says that it ran
\* into the end of the file, and v holds the numbers before.
Numbers(f, p, n) == NumbersAt(f, p, n, Fields(f, p))

Absent(p, default) == [ok |-> TRUE, eof |-> FALSE, v |-> default, at |-> p]
-----------------------------------------------------------------------------
(***************************************************************************)
(* Rows.  Each is [err, v, at]: the error that reading it raises, or "",   *)
(* its contents and where reading it stopped.                              *)
(***************************************************************************)
Row(contents, at) == [err |-> "", v |-> contents, at |-> at]
Failed(err) == [err |-> err, v |-> <<>>, at |-> 0]

\* What follows in a row after a part of it was read.
Then(read, Rest(_)) == IF read.ok THEN Rest(read) ELSE Failed("failure")

\* Fields that may be missing at the end of a line.
Optional(f, p, n, default) == IF MoreFieldsInLine(f, p) THEN Numbers(f, p, n) ELSE Absent(p, default)

\* The costs of a moldable job: levels of parallelism with their intervals, up
\* to a closing brace.  The first interval of a level is the one that is kept.
CostList(f, p) ==
    LET list[q \in 1..(Len(f) + 1)] ==
            IF q <= Len(f) /\ f[q].k = "}" THEN Absent(q + 1, <<>>)
            ELSE LET e == Numbers(f, q, 3)
                 IN  IF ~e.ok THEN e
                     ELSE [list[e.at] EXCEPT !.v = (e.v[1] :> Interval(e.v[2], e.v[3])) @@ @]
    IN  list[p]

ParseJobCost(f, p) ==
    IF p <= Len(f) /\ f[p].k = "{" THEN CostList(f, p + 1)
    ELSE LET c == Numbers(f, p, 2)
         IN  IF c.ok THEN Absent(c.at, 1 :> Interval(c.v[1], c.v[2])) ELSE c

ParseJob(f, p) ==
    Then(Numbers(f, p, 4), LAMBDA id :
    Then(ParseJobCost(f, id.at), LAMBDA cost :
    Then(Numbers(f, cost.at, 2), LAMBDA rest :
    Then(Optional(f, rest.at, 1, <<0>>), LAMBDA type :
        IF cost.v = <<>> THEN Failed("cost")
        ELSE Row([task |-> id.v[1], job |-> id.v[2], arrival |-> Interval(id.v[3], id.v[4]),
                  cost |-> cost.v, deadline |-> rest.v[1], priority |-> rest.v[2],
                  type |-> type.v[1]], type.at)))))

\* A precedence or exclusion row: the ids of two jobs, a delay and a type.
ConstraintRow(f, p, default, types) ==
    Then(Numbers(f, p, 4), LAMBDA ids :
    Then(Optional(f, ids.at, 2, <<0, 0>>), LAMBDA delay :
        LET typed == MoreFieldsInLine(f, delay.at)
        IN  CASE delay.v[2] < delay.v[1] -> Failed("delay")
              [] delay.v[1] <= delay.v[2] /\ typed /\ f[delay.at].k \notin types -> Failed("type")
              [] OTHER -> Row([from |-> <<ids.v[1], ids.v[2]>>, to |-> <<ids.v[3], ids.v[4]>>,
                               delay |-> Interval(delay.v[1], delay.v[2]),
                               type |-> IF typed THEN f[delay.at].k ELSE default],
                              IF typed THEN delay.at + 1 ELSE delay.at)))

ParsePrecedenceConstraint(f, p) == ConstraintRow(f, p, "f", {"s", "f"})
ParseMutexConstraint(f, p) == ConstraintRow(f, p, "e", {"s", "e"})

ParseAbortAction(f, p) ==
    Then(Numbers(f, p, 6), LAMBDA r :
        Row([id |-> <<r.v[1], r.v[2]>>, trigger |-> Interval(r.v[3], r.v[4]),
             cleanup |-> Interval(r.v[5], r.v[6])], r.at))
-----------------------------------------------------------------------------
(***************************************************************************)
(* Files: [err, rows].  The first line is a header; the first row that is  *)
(* wrong ends the reading.                                                 *)
(***************************************************************************)
ReadRow(kind, f, p) ==
    CASE kind = "jobs" -> ParseJob(f, p)
      [] kind = "precedence" -> ParsePrecedenceConstraint(f, p)
      [] kind = "exclusion" -> ParseMutexConstraint(f, p)
      [] kind = "aborts" -> ParseAbortAction(f, p)

\* A constraint is made from its row at once, which needs the index of its jobs.
Checked(row, ids) ==
    IF row.err = "" /\ "from" \in DOMAIN row.v /\ ~({row.v.from, row.v.to} \subseteq ids)
    THEN Failed("reference") ELSE row

ReadRows(kind, f, ids) ==
    LET rows[p \in 1..(Len(f) + 1)] ==
            IF ~MoreData(f, p) THEN [err |-> "", rows |-> <<>>]
            ELSE LET row == Checked(ReadRow(kind, f, p), ids)
                 IN  IF row.err # "" THEN [err |-> row.err, rows |-> <<>>]
                     ELSE [rows[NextLine(f, row.at)] EXCEPT !.rows = <<row.v>> \o @]
    IN  rows[NextLine(f, 1)]

\* Faulty variant of ParseCsvJobFile: two lines are taken for the header.
LongHeader(f) == ReadRows("jobs", SubSeq(f, NextLine(f, 1), Len(f)), {})

ParseCsvJobFile(f) == ReadRows("jobs", f, {})
ParsePrecedenceFile(f, ids) == ReadRows("precedence", f, ids)
ParseMutexFile(f, ids) == ReadRows("exclusion", f, ids)
ParseAbortFile(f) == ReadRows("aborts", f, {})
-----------------------------------------------------------------------------
(***************************************************************************)
(* YAML job sets.  What was read before the first error is kept.           *)
(***************************************************************************)
\* The entries before the first one for which Wrong holds.
Before(entries, wrong) == SubSeq(entries, 1, IF wrong = {} THEN Len(entries) ELSE Min(wrong) - 1)

ParseYamlJobFile(entries) ==
    LET kept == Before(entries, {i \in DOMAIN entries : entries[i].bad # "no"})
    IN  [i \in DOMAIN kept |->
            [task |-> kept[i].task, job |-> kept[i].job,
             arrival |-> Interval(kept[i].arrival[1], kept[i].arrival[2]),
             cost |-> 1 :> Interval(kept[i].cost[1], kept[i].cost[2]),
             deadline |-> kept[i].deadline, priority |-> kept[i].priority, type |-> kept[i].type]]

\* The edges from one entry to its successors; none when its own id is wrong.
Edges(entry) ==
    LET to == Before(entry.successors, {i \in DOMAIN entry.successors : ~entry.successors[i].ok})
    IN  [i \in DOMAIN to |-> [from |-> <<entry.task, entry.job>>, to |-> <<to[i].task, to[i].job>>,
                              delay |-> Interval(0, 0), type |-> "f"]]

\* Entries without successors are not looked at.
ParseYamlDagFile(entries, ids) ==
    LET with  == SelectSeq(entries, LAMBDA e : e.successors # <<>>)
        IdBad == {i \in DOMAIN with : with[i].bad = "id"}
        known == Before(with, IdBad)
        cut   == {i \in DOMAIN known : \E s \in ToSet(known[i].successors) : ~s.ok}
        read  == IF cut = {} THEN known ELSE SubSeq(known, 1, Min(cut))
        edges == FlattenSeq([i \in DOMAIN read |-> Edges(read[i])])
    IN  [err  |-> IF \A i \in DOMAIN edges : {edges[i].from, edges[i].to} \subseteq ids
                  THEN "" ELSE "reference",
         rows |-> edges]
-----------------------------------------------------------------------------
(***************************************************************************)
(* Platforms.  Reading a CSV platform raises no error: a core that cannot  *)
(* be read is what happens to be in memory, and those after it are free    *)
(* from the start.  The result is the set of what may be read.             *)
(***************************************************************************)
CoreRead(f, p) ==
    LET core == Numbers(f, p, 2)
        read(i) == IF i <= Len(core.v) THEN {core.v[i]}
                   ELSE IF i = Len(core.v) + 1 /\ ~core.eof THEN {0} ELSE Garbage
    IN  {Interval(a, b) : a \in read(1), b \in read(2)}

ParsePlatformSpecCsv(f) ==
    LET size == Numbers(f, NextLine(f, 1), 1)
        sizes == IF size.ok THEN {size.v[1]} ELSE IF size.eof THEN Garbage ELSE {0}
        Cores(m) ==
            LET from[i \in 1..(m + 1), p \in 0..(Len(f) + 1)] ==
                    IF i > m THEN {<<>>}
                    ELSE IF p = 0 \/ ~MoreFieldsInLine(f, p)
                    THEN {<<Interval(0, 0)>> \o rest : rest \in from[i + 1, p]}
                    ELSE LET core == Numbers(f, p, 2)
                         IN  {<<c>> \o rest : c \in CoreRead(f, p),
                                              rest \in from[i + 1, IF core.ok THEN core.at ELSE 0]}
            IN  from[1, IF size.ok THEN size.at ELSE 0]
    IN  UNION {Cores(m) : m \in sizes}

\* doc is [cores, avail]: a number, or -1 when there is none that can be read,
\* and a sequence of [ok, v].
ParsePlatformSpecYaml(doc) ==
    IF doc.cores = -1 THEN <<>>
    ELSE LET read == Before(doc.avail, {i \in DOMAIN doc.avail : ~doc.avail[i].ok})
         IN  [i \in 1..doc.cores |->
                IF i <= Len(read) THEN Interval(read[i].v[1], read[i].v[2]) ELSE Interval(0, 0)]
-----------------------------------------------------------------------------
(***************************************************************************)
(* MK constraints.  No error is raised either: a word where a number       *)
(* should be is never passed, and the loop over the rows does not end.     *)
(***************************************************************************)
ParseMkConstraints(f) ==
    LET rows[p \in 1..(Len(f) + 1)] ==
            IF ~MoreData(f, p) THEN [ends |-> TRUE, tables |-> {<<>>}]
            ELSE LET r == Numbers(f, p, 3)
                     rest == rows[IF r.ok THEN NextLine(f, r.at) ELSE Len(f) + 1]
                     Field(i) == IF i <= Len(r.v) THEN {r.v[i]} ELSE Garbage
                 IN  [ends |-> (r.ok \/ r.eof) /\ rest.ends,
                      tables |-> {later @@ (t :> [misses |-> m, window |-> w]) :
                                    later \in rest.tables, t \in Field(1), m \in Field(2), w \in Field(3)}]
    IN  rows[NextLine(f, 1)]
=============================================================================
