----------------------------- MODULE NptestProofs -----------------------------
(***************************************************************************)
(* Proofs about a run of the program, for any files and any command line:  *)
(* the printed verdict is earned, the dispatched jobs lie in the focus that*)
(* was asked for, an edge of the recorded graph fulfils the conditions of  *)
(* the log file, the state keeps its type, the accepted problem is         *)
(* consistent, and an exit code has its cause.                             *)
(*                                                                         *)
(* What the readers of the files return rests on recursion over the words  *)
(* of a file, which is model-checked (ReadAsWritten).  A theorem that needs*)
(* it names what it needs, and nothing else, as a premise.                 *)
(***************************************************************************)
EXTENDS NptestProperties, FiniteSetTheorems, WellFoundedInduction, TLAPS

-----------------------------------------------------------------------------
(***************************************************************************)
(* The configuration: a limit of depth is a number from the start.         *)
(***************************************************************************)

ConfigHolds == "max_depth" \in DOMAIN config /\ config.max_depth \in Nat

LEMMA NumeralIsNatural == ASSUME NEW text PROVE Numeral(text) \in Nat
BY NumeralsAssumption DEF Numeral

LEMMA DefaultHolds ==
    "max_depth" \in DOMAIN DefaultConfig /\ DefaultConfig.max_depth \in Nat
BY DEF DefaultConfig

LEMMA MergedDepth ==
    ASSUME NEW c, NEW level, "max_depth" \in DOMAIN c
    PROVE  /\ DOMAIN UpdateMergeOptions(level, c) = DOMAIN c
           /\ UpdateMergeOptions(level, c).max_depth = c.max_depth
BY DEF UpdateMergeOptions

LEMMA LimitedDepth ==
    ASSUME NEW c, "max_depth" \in DOMAIN c, c.max_depth \in Nat
    PROVE  DOMAIN WithLimits(c) = DOMAIN c /\ WithLimits(c).max_depth \in Nat
<1>1. WithLimits(c).max_depth = IF Set("depth") THEN Numeral(Value("depth")) ELSE c.max_depth
    BY DEF WithLimits
<1>2. DOMAIN WithLimits(c) = DOMAIN c
    BY DEF WithLimits
<1>3. QED BY <1>1, <1>2, NumeralIsNatural

LEMMA WithOptionsDepth ==
    ASSUME NEW c, "max_depth" \in DOMAIN c, c.max_depth \in Nat
    PROVE  DOMAIN WithOptions(c) = DOMAIN c /\ WithOptions(c).max_depth \in Nat
<1> DEFINE m == IF Set("merge_strategy")
                THEN UpdateMergeOptions(Value("merge_strategy"), WithLimits(c)) ELSE WithLimits(c)
<1>1. DOMAIN m = DOMAIN c /\ m.max_depth = WithLimits(c).max_depth
    BY MergedDepth, LimitedDepth
<1> HIDE DEF m
<1>2. DOMAIN WithOptions(c) = DOMAIN m
    BY DEF WithOptions, m
<1>3. WithOptions(c).max_depth = m.max_depth
    BY <1>1 DEF WithOptions, m
<1>4. QED BY <1>1, <1>2, <1>3, LimitedDepth

LEMMA ReadConfigDepth ==
    ASSUME NEW doc
    PROVE  /\ DOMAIN ReadConfig(doc) = DOMAIN DefaultConfig
           /\ ReadConfig(doc).max_depth \in Nat
<1> DEFINE Text(k) == IF k \in DOMAIN doc /\ doc[k] # "none" THEN doc[k] ELSE ""
           m == UpdateMergeOptions(Text("merge_strategy"), DefaultConfig)
<1>1. DOMAIN m = DOMAIN DefaultConfig
    BY MergedDepth, DefaultHolds
<1>2. DOMAIN ReadConfig(doc) = DOMAIN m
    BY DEF ReadConfig
<1>3. ReadConfig(doc).max_depth = Numeral(Text("depth"))
    BY <1>1, DefaultHolds DEF ReadConfig
<1>4. QED BY <1>1, <1>2, <1>3, NumeralIsNatural, DefaultHolds

\* Only the configuration file and the options on top of it change the
\* configuration.
LEMMA ConfigSteps == ASSUME [Next]_vars PROVE UNCHANGED config \/ ParseConfigFile \/ ParseInputOptions
<1>1. CASE ReadArgs \/ Done \/ UNCHANGED vars
    BY <1>1 DEF ReadArgs, Done, vars
<1>2. CASE Configure
    BY <1>2 DEF Configure
<1>3. CASE Build
    BY <1>3 DEF Build, BuildProblem, ParseJobs, BuildGraph, ParseMutexes, ParsePlatform, ParseAborts,
                MakeProblem, RegisterExtensions
<1>4. CASE Analyze \/ Report
    BY <1>4 DEF Analyze, Report, built
<1>5. CASE Explore
    BY <1>5 DEF Explore, SkipLayer, CheckLimits, DeadEnd, Prune, ExplorationEnds, Dispatch, built
<1>6. QED BY <1>1, <1>2, <1>3, <1>4, <1>5 DEF Next

LEMMA ConfigInductive ==
    ASSUME ConfigHolds, [Next]_vars
    PROVE  ConfigHolds'
<1>1. "max_depth" \in DOMAIN config
    BY DEF ConfigHolds
<1>2. CASE UNCHANGED config
    BY <1>2 DEF ConfigHolds
<1>3. CASE ParseConfigFile
    <2>1. config' = DefaultConfig \/ config' = config
            \/ config' = ReadConfig(input.files[values["config_file"]])
        BY <1>3 DEF ParseConfigFile
    <2>2. QED BY <2>1, DefaultHolds, ReadConfigDepth DEF ConfigHolds
<1>4. CASE ParseInputOptions
    <2>1. config' = WithOptions(config) \/ config' = config
        BY <1>4 DEF ParseInputOptions
    <2>2. QED BY <1>1, <2>1, WithOptionsDepth DEF ConfigHolds
<1>5. UNCHANGED config \/ ParseConfigFile \/ ParseInputOptions
    BY ConfigSteps
<1>6. QED BY <1>2, <1>3, <1>4, <1>5
-----------------------------------------------------------------------------
\* The jobs that were read are a list (a std::vector, problem.hpp:28): what the
\* recursive readers of the files return is not within reach of the provers.
JobsAreListed == problem.jobs \in Seq(ToSet(problem.jobs))

LEMMA JobsFacts ==
    ASSUME JobsAreListed
    PROVE  Len(problem.jobs) \in Nat /\ Jobs = 1..Len(problem.jobs)
           /\ IsFiniteSet(Jobs) /\ Cardinality(Jobs) = Len(problem.jobs)
<1>1. Len(problem.jobs) \in Nat /\ Jobs = 1..Len(problem.jobs)
    BY DEF JobsAreListed, Jobs
<1>2. QED BY <1>1, FS_Interval

-----------------------------------------------------------------------------
(***************************************************************************)
(* Conditional branches: what the dispatch of a job does to the set of the *)
(* jobs that are dispatched or discarded.                                  *)
(***************************************************************************)

\* A constraint is between two jobs, as AcceptedHolds shows of a problem that
\* reaches the analysis.
EdgesAreKnown == \A e \in ToSet(problem.prec) : e.from \in Jobs /\ e.to \in Jobs

Listed == JobsAreListed /\ EdgesAreKnown

Fork(f) == f \in Jobs /\ problem.jobs[f].type = 1
Behind(j) == Graph!Descendants(j)
Branches(f) == UNION {Behind(s) \cup {s} : s \in Following(f)}

LEMMA FollowingFacts ==
    ASSUME EdgesAreKnown
    PROVE  \A j : /\ Following(j) \subseteq Jobs /\ Preceding(j) \subseteq Jobs
                  /\ \A k : k \in Following(j) <=> j \in Preceding(k)
<1>1. Constraints.prec = ToSet(problem.prec)
    BY DEF Constraints
<1>2. QED BY <1>1 DEF EdgesAreKnown, Following, Preceding, Graph!SuccessorsOf

LEMMA GraphJobs == Graph!Jobs = Jobs
<1>1. Constraints.job = [j \in Jobs |-> [type |-> IF problem.jobs[j].type = 1 THEN "C_FORK" ELSE "NORMAL"]]
    BY DEF Constraints
<1>2. QED BY <1>1 DEF Graph!Jobs

LEMMA GraphForks == \A j : j \in Jobs => (Graph!IsFork(j) <=> problem.jobs[j].type = 1)
<1>1. Constraints.job = [j \in Jobs |-> [type |-> IF problem.jobs[j].type = 1 THEN "C_FORK" ELSE "NORMAL"]]
    BY DEF Constraints
<1>2. QED BY <1>1 DEF Graph!IsFork

\* What follows a job is the least set that has its successors and theirs.
LEMMA BehindIsClosed ==
    ASSUME EdgesAreKnown, NEW j
    PROVE  /\ Behind(j) \subseteq Jobs /\ Following(j) \subseteq Behind(j)
           /\ \A k \in Behind(j) : Following(k) \subseteq Behind(j)
<1> DEFINE closed == {S \in SUBSET Jobs : Following(j) \subseteq S /\ \A k \in S : Following(k) \subseteq S}
<1>1. Behind(j) = {k \in Jobs : \A S \in closed : k \in S}
    BY GraphJobs DEF Behind, Graph!Descendants, Following
<1>2. Following(j) \subseteq Behind(j)
    BY <1>1, FollowingFacts
<1>3. ASSUME NEW k \in Behind(j), NEW i \in Following(k) PROVE i \in Behind(j)
    BY <1>1, <1>3, FollowingFacts
<1>4. QED BY <1>1, <1>2, <1>3

LEMMA BehindIsLeast ==
    ASSUME NEW j, NEW S \in SUBSET Jobs, Following(j) \subseteq S, \A k \in S : Following(k) \subseteq S
    PROVE  Behind(j) \subseteq S
<1> DEFINE closed == {R \in SUBSET Jobs : Following(j) \subseteq R /\ \A k \in R : Following(k) \subseteq R}
<1>1. Behind(j) = {k \in Jobs : \A R \in closed : k \in R}
    BY GraphJobs DEF Behind, Graph!Descendants, Following
<1>2. S \in closed
    OBVIOUS
<1>3. QED BY <1>1, <1>2

LEMMA BehindComesFrom ==
    ASSUME EdgesAreKnown, NEW j, NEW k \in Behind(j)
    PROVE  \E i \in Behind(j) \cup {j} : i \in Preceding(k)
<1>1. SUFFICES ASSUME \A i \in Behind(j) \cup {j} : k \notin Following(i) PROVE FALSE
    BY FollowingFacts
<1> DEFINE S == Behind(j) \ {k}
<1>2. S \in SUBSET Jobs /\ Following(j) \subseteq S /\ \A i \in S : Following(i) \subseteq S
    BY <1>1, BehindIsClosed
<1>3. Behind(j) \subseteq S
    BY <1>2, BehindIsLeast
<1>4. QED BY <1>3

LEMMA ClosedMeans ==
    ASSUME BranchesAreClosed, NEW f, Fork(f), NEW j \in Following(f)
    PROVE  /\ Preceding(j) = {f}
           /\ \A k \in Branches(f) \ (Behind(j) \cup Following(f)) :
                Preceding(k) \subseteq Branches(f) \ Behind(j)
<1>1. /\ DOMAIN Constraints.job = Jobs /\ Constraints.prec = ToSet(problem.prec)
      /\ Constraints.job[f].type = "C_FORK"
    BY DEF Constraints, Fork
<1> DEFINE jobs == DOMAIN Constraints.job
           From(i) == {e.from : e \in {x \in Constraints.prec : x.to = i}}
           To(i) == {e.to : e \in {x \in Constraints.prec : x.from = i}}
           closed(i) == {S \in SUBSET jobs : To(i) \subseteq S /\ \A k \in S : To(k) \subseteq S}
           After(i) == {k \in jobs : \A S \in closed(i) : k \in S}
           Ways(g) == UNION {After(s) \cup {s} : s \in To(g)}
<1>2. \A i : From(i) = Preceding(i) /\ To(i) = Following(i)
    BY <1>1 DEF Preceding, Following, Graph!SuccessorsOf
<1>3. \A i : After(i) = Behind(i)
    BY DEF Behind, Graph!Descendants, Graph!SuccessorsOf, Graph!Jobs
<1>4. Ways(f) = Branches(f)
    BY <1>2, <1>3 DEF Branches
<1>5. \A g \in {h \in jobs : Constraints.job[h].type = "C_FORK"} : \A i \in To(g) :
            /\ From(i) = {g}
            /\ \A k \in Ways(g) \ (After(i) \cup To(g)) : From(k) \subseteq Ways(g) \ After(i)
    BY DEF BranchesAreClosed, Graph!ClosedBranches
<1>6. f \in {h \in jobs : Constraints.job[h].type = "C_FORK"} /\ j \in To(f)
    BY <1>1, <1>2 DEF Fork
<1> HIDE DEF From, To, After, Ways, jobs
<1>7. /\ From(j) = {f}
      /\ \A k \in Ways(f) \ (After(j) \cup To(f)) : From(k) \subseteq Ways(f) \ After(j)
    BY <1>5, <1>6
<1>8. QED BY <1>2, <1>3, <1>4, <1>7

LEMMA IncompatibleMeans ==
    ASSUME JobsAreListed, EdgesAreKnown, NEW j \in Jobs
    PROVE  /\ Incompatible(j) \subseteq Jobs
           /\ (\A f \in Preceding(j) : ~Fork(f)) => Incompatible(j) = {j}
           /\ \A f \in Preceding(j) : Fork(f) /\ Preceding(j) = {f} =>
                /\ Following(f) = {j} => Incompatible(j) = {j}
                /\ Following(f) # {j} => Incompatible(j) = Branches(f) \ Behind(j)
<1> DEFINE siblings == Graph!BuildSiblings(j)
           forks == {f \in Jobs : Graph!IsFork(f) /\ j \in Following(f)}
<1>1. siblings = IF forks = {} THEN {j} ELSE Following(Graph!Max(forks))
    BY GraphJobs DEF Graph!BuildSiblings, Following
<1>2. Incompatible(j) = IF siblings = {j} THEN {j}
                        ELSE (UNION {Behind(s) \cup {s} : s \in siblings}) \ Behind(j)
    BY DEF Incompatible, Graph!FindIncompatible, Behind
<1>3. forks = {f \in Preceding(j) : Fork(f)}
    BY FollowingFacts, GraphForks DEF Fork
<1> HIDE DEF siblings, forks
<1>4. siblings \subseteq Jobs
    BY <1>1, FollowingFacts
<1>5. Incompatible(j) \subseteq Jobs
    BY <1>2, <1>4, BehindIsClosed
<1>6. ASSUME \A f \in Preceding(j) : ~Fork(f) PROVE Incompatible(j) = {j}
    <2>1. forks = {}
        BY <1>3, <1>6
    <2>2. QED BY <1>1, <1>2, <2>1
<1>7. ASSUME NEW f \in Preceding(j), Fork(f), Preceding(j) = {f}
      PROVE  /\ Following(f) = {j} => Incompatible(j) = {j}
             /\ Following(f) # {j} => Incompatible(j) = Branches(f) \ Behind(j)
    <2>1. forks = {f} /\ f \in Nat
        BY <1>3, <1>7, JobsFacts DEF Fork
    <2>2. Graph!Max({f}) = f
        BY <2>1 DEF Graph!Max
    <2>3. siblings = Following(f)
        BY <1>1, <2>1, <2>2
    <2>4. QED BY <1>2, <2>3 DEF Branches
<1>8. QED BY <1>5, <1>6, <1>7

\* The predecessors of a node are in it, and with one alternative of a fork all
\* of them.
PredClosed(node) == \A k \in node : Preceding(k) \subseteq node
ForkClosed(node) == \A f \in Jobs : Fork(f) /\ Following(f) \cap node # {} => Following(f) \subseteq node

LEMMA BehindStaysOut ==
    ASSUME EdgesAreKnown, NEW node, PredClosed(node), NEW j, j \notin node
    PROVE  Behind(j) \cap node = {}
<1> DEFINE S == Jobs \ node
<1>1. Following(j) \subseteq S
    BY FollowingFacts DEF PredClosed
<1>2. \A k \in S : Following(k) \subseteq S
    BY FollowingFacts DEF PredClosed
<1>3. Behind(j) \subseteq S
    BY <1>1, <1>2, BehindIsLeast
<1>4. QED BY <1>3

\* What holds of a job that may be dispatched next when it is an alternative of a
\* fork: no alternative of the fork has been dispatched, and none is behind it.
LEMMA Alternative ==
    ASSUME EdgesAreKnown, BranchesAreClosed, NEW node, PredClosed(node), ForkClosed(node),
           NEW j, j \notin node, Preceding(j) \subseteq node,
           NEW f, Fork(f), j \in Following(f)
    PROVE  /\ Preceding(j) = {f} /\ f \in node
           /\ Branches(f) \cap node = {}
           /\ Following(f) \cap Behind(j) = {}
<1>1. Preceding(j) = {f} /\ f \in node
    BY ClosedMeans
<1>2. Following(f) \cap node = {}
    BY DEF ForkClosed, Fork
<1>3. Branches(f) \cap node = {}
    BY <1>2, BehindStaysOut DEF Branches
<1>4. ASSUME NEW s \in Following(f), s \in Behind(j) PROVE FALSE
    <2>1. PICK i \in Behind(j) \cup {j} : i \in Preceding(s)
        BY <1>4, BehindComesFrom
    <2>2. i = f
        BY <1>4, <2>1, ClosedMeans
    <2>3. Behind(j) \cap node = {}
        BY BehindStaysOut
    <2>4. QED BY <1>1, <2>1, <2>2, <2>3
<1>5. QED BY <1>1, <1>3, <1>4

\* A job that may be dispatched next is in no job's way: the jobs that are not to
\* be dispatched with it are new, itself included, and the node stays closed.
LEMMA DispatchIsNew ==
    ASSUME JobsAreListed, EdgesAreKnown, BranchesAreClosed, NEW node, PredClosed(node), ForkClosed(node),
           NEW j \in Jobs, j \notin node, Preceding(j) \subseteq node
    PROVE  /\ j \in Incompatible(j) /\ Incompatible(j) \cap node = {} /\ Incompatible(j) \cap Following(j) = {}
           /\ PredClosed(node \cup Incompatible(j)) /\ ForkClosed(node \cup Incompatible(j))
<1>1. ASSUME Incompatible(j) = {j}, \A f \in Jobs : Fork(f) /\ j \in Following(f) => Following(f) = {j}
      PROVE  /\ j \in Incompatible(j) /\ Incompatible(j) \cap node = {} /\ Incompatible(j) \cap Following(j) = {}
             /\ PredClosed(node \cup Incompatible(j)) /\ ForkClosed(node \cup Incompatible(j))
    <2>1. j \notin Following(j)
        BY FollowingFacts
    <2>2. PredClosed(node \cup {j})
        BY DEF PredClosed
    <2>3. ForkClosed(node \cup {j})
        BY <1>1 DEF ForkClosed
    <2>4. QED BY <1>1, <2>1, <2>2, <2>3
<1>2. CASE \A f \in Preceding(j) : ~Fork(f)
    <2>1. Incompatible(j) = {j}
        BY <1>2, IncompatibleMeans
    <2>2. QED BY <1>1, <1>2, <2>1, FollowingFacts
<1>3. ASSUME NEW f \in Preceding(j), Fork(f)
      PROVE  /\ j \in Incompatible(j) /\ Incompatible(j) \cap node = {} /\ Incompatible(j) \cap Following(j) = {}
             /\ PredClosed(node \cup Incompatible(j)) /\ ForkClosed(node \cup Incompatible(j))
    <2>1. j \in Following(f)
        BY <1>3, FollowingFacts
    <2>2. /\ Preceding(j) = {f} /\ f \in node /\ Branches(f) \cap node = {}
          /\ Following(f) \cap Behind(j) = {}
        BY <1>3, <2>1, Alternative
    <2>3. CASE Following(f) = {j}
        <3>1. Incompatible(j) = {j}
            BY <1>3, <2>2, <2>3, IncompatibleMeans
        <3>2. ASSUME NEW g \in Jobs, Fork(g), j \in Following(g) PROVE Following(g) = {j}
            BY <2>2, <2>3, <3>2, FollowingFacts
        <3>3. QED BY <1>1, <3>1, <3>2
    <2>4. CASE Following(f) # {j}
        <3> DEFINE inc == Branches(f) \ Behind(j)
        <3>1. Incompatible(j) = inc
            BY <1>3, <2>2, <2>4, IncompatibleMeans
        <3>2. Following(f) \subseteq inc /\ inc \cap node = {} /\ inc \cap Following(j) = {}
            BY <2>2, BehindIsClosed DEF Branches
        <3>3. ASSUME NEW k \in inc PROVE Preceding(k) \subseteq node \cup inc
            <4>1. CASE k \in Following(f)
                BY <1>3, <2>2, <4>1, ClosedMeans
            <4>2. CASE k \notin Following(f)
                BY <1>3, <2>1, <4>2, ClosedMeans
            <4>3. QED BY <4>1, <4>2
        <3>4. PredClosed(node \cup inc)
            BY <3>3 DEF PredClosed
        <3>5. ASSUME NEW g \in Jobs, Fork(g), NEW t \in Following(g), t \in inc PROVE Following(g) \subseteq inc
            <4>1. Preceding(t) = {g}
                BY <3>5, ClosedMeans
            <4>2. CASE t \in Following(f)
                <5>1. g = f
                    BY <1>3, <4>1, <4>2, ClosedMeans
                <5>2. QED BY <3>2, <5>1
            <4>3. CASE t \notin Following(f)
                <5>1. g \in Branches(f) \ Behind(j)
                    BY <1>3, <2>1, <3>5, <4>1, <4>3, ClosedMeans
                <5>2. PICK u \in Following(f) : g \in Behind(u) \cup {u}
                    BY <5>1 DEF Branches
                <5>3. Following(g) \subseteq Behind(u)
                    BY <5>2, BehindIsClosed
                <5>4. Following(g) \subseteq Branches(f)
                    BY <5>3 DEF Branches
                <5>5. ASSUME NEW s \in Following(g), s \in Behind(j) PROVE FALSE
                    <6>1. PICK i \in Behind(j) \cup {j} : i \in Preceding(s)
                        BY <5>5, BehindComesFrom
                    <6>2. i = g
                        BY <3>5, <5>5, <6>1, ClosedMeans
                    <6>3. i = j
                        BY <5>1, <6>1, <6>2
                    <6>4. t \in Behind(j)
                        BY <6>2, <6>3, <3>5, BehindIsClosed
                    <6>5. QED BY <3>5, <6>4
                <5>6. QED BY <5>4, <5>5
            <4>4. QED BY <4>2, <4>3
        <3>6. ForkClosed(node \cup inc)
            <4>1. SUFFICES ASSUME NEW g \in Jobs, Fork(g), NEW t \in Following(g), t \in node \cup inc
                           PROVE  Following(g) \subseteq node \cup inc
                BY DEF ForkClosed
            <4>2. CASE t \in node
                BY <4>1, <4>2 DEF ForkClosed
            <4>3. CASE t \in inc
                BY <3>5, <4>1, <4>3
            <4>4. QED BY <4>1, <4>2, <4>3
        <3> HIDE DEF inc
        <3>7. QED BY <2>1, <3>1, <3>2, <3>4, <3>6
    <2>5. QED BY <2>3, <2>4
<1>4. QED BY <1>2, <1>3

\* A job that may be dispatched besides another one still may after it, unless
\* they exclude each other.
LEMMA OthersStayReady ==
    ASSUME JobsAreListed, EdgesAreKnown, BranchesAreClosed, NEW node, PredClosed(node), ForkClosed(node),
           NEW j \in Jobs, j \notin node, Preceding(j) \subseteq node,
           NEW k \in Jobs, k \notin node, Preceding(k) \subseteq node, j \notin Incompatible(k)
    PROVE  k \notin Incompatible(j)
<1>1. SUFFICES ASSUME k \in Incompatible(j) PROVE FALSE
    OBVIOUS
<1>2. k \in Incompatible(k)
    BY DispatchIsNew
<1>3. k # j
    BY <1>1, <1>2
<1>4. PICK f \in Preceding(j) : Fork(f)
    BY <1>1, <1>3, IncompatibleMeans
<1>5. j \in Following(f)
    BY FollowingFacts
<1>6. /\ Preceding(j) = {f} /\ f \in node /\ Branches(f) \cap node = {}
      /\ Following(f) \cap Behind(j) = {}
    BY <1>4, <1>5, Alternative
<1>7. Following(f) # {j} /\ Incompatible(j) = Branches(f) \ Behind(j)
    BY <1>1, <1>3, <1>4, <1>6, IncompatibleMeans
<1>8. CASE k \in Following(f)
    <2>1. Preceding(k) = {f} /\ Following(f) \cap Behind(k) = {}
        BY <1>4, <1>8, Alternative
    <2>2. Incompatible(k) = Branches(f) \ Behind(k)
        BY <1>3, <1>4, <1>5, <2>1, IncompatibleMeans
    <2>3. QED BY <1>5, <2>1, <2>2 DEF Branches
<1>9. CASE k \notin Following(f)
    <2>1. k \in Branches(f) \ (Behind(j) \cup Following(f))
        BY <1>1, <1>7, <1>9
    <2>2. Preceding(k) \subseteq Branches(f)
        BY <1>4, <1>5, <2>1, ClosedMeans
    <2>3. Preceding(k) = {}
        BY <1>6, <2>2
    <2>4. PICK u \in Following(f) : k \in Behind(u)
        BY <2>1 DEF Branches
    <2>5. QED BY <2>3, <2>4, BehindComesFrom
<1>10. QED BY <1>8, <1>9

\* The relations between jobs are those of the problem that was read.
LEMMA GraphIsStable ==
    ASSUME UNCHANGED problem
    PROVE  /\ \A j : Incompatible(j)' = Incompatible(j) /\ Following(j)' = Following(j)
                     /\ Preceding(j)' = Preceding(j)
           /\ BranchesAreClosed' = BranchesAreClosed
<1>1. Constraints' = Constraints /\ Jobs' = Jobs
    BY DEF Constraints, Jobs
<1>2. ASSUME NEW j
      PROVE  Incompatible(j)' = Incompatible(j) /\ Following(j)' = Following(j) /\ Preceding(j)' = Preceding(j)
    <2>1. Following(j)' = Following(j)
        BY <1>1 DEF Following, Graph!SuccessorsOf
    <2>2. Preceding(j)' = Preceding(j)
        BY DEF Preceding
    <2>3. Incompatible(j)' = Incompatible(j)
        BY <1>1 DEF Incompatible, Graph!FindIncompatible, Graph!BuildSiblings, Graph!Descendants, Graph!SuccessorsOf,
                    Graph!IsFork, Graph!Jobs
    <2>4. QED BY <2>1, <2>2, <2>3
<1>3. BranchesAreClosed' = BranchesAreClosed
    BY <1>1 DEF BranchesAreClosed
<1>4. QED BY <1>2, <1>3
-----------------------------------------------------------------------------
(***************************************************************************)
(* What a dispatch does to the path (the lines of explore).                *)
(***************************************************************************)

ProgressFields == {"depth", "count", "node", "ready", "available", "front", "aborted", "missed", "timed_out",
                   "out_of_memory", "finish"}

Shape ==
    /\ DOMAIN progress = ProgressFields
    /\ progress.depth \in Nat
    /\ progress.front \in BOOLEAN /\ progress.aborted \in BOOLEAN
    /\ progress.timed_out \in BOOLEAN /\ progress.out_of_memory \in BOOLEAN
    /\ DOMAIN progress.finish \subseteq Jobs
    /\ progress.node = UNION {Incompatible(j) : j \in DOMAIN progress.finish}

\* The successors that are ready after a dispatch.
ReadyAfter(j) ==
    {k \in progress.ready : j \notin Incompatible(k)}
        \cup {k \in Following(j) : Preceding(k) \subseteq progress.node \cup Incompatible(j)}

\* A job that has been dispatched: the path had not ended, the job could be next
\* in its node, and the focus did not cut it.
Follows(j) ==
    /\ InNode /\ j \in Eligible
    /\ ~PruneBranch(j, progress.node, progress.available)
    /\ DOMAIN progress' = DOMAIN progress
    /\ progress'.node = progress.node \cup Incompatible(j)
    /\ progress'.count = progress.count + Cardinality(Incompatible(j))
    /\ progress'.ready = ReadyAfter(j)
    /\ progress'.depth = progress.depth + 1
    /\ DOMAIN progress'.finish = DOMAIN progress.finish \cup {j}
    /\ progress'.front = progress.front /\ progress'.out_of_memory = progress.out_of_memory
    /\ progress'.timed_out \in BOOLEAN
    /\ \/ pc' = "results" /\ progress'.aborted = TRUE
       \/ pc' = pc /\ progress'.aborted = progress.aborted /\ progress'.timed_out = FALSE

\* An edge fulfils the conditions that were read.
LogHolds(e) ==
    LogCondition(analysis.log_cond, e.target, e.job, e.start, e.finish.max > problem.jobs[e.job].deadline, e.depth)

Logs(j) ==
    \/ edges' = edges
    \/ \E e : /\ edges' = Append(edges, e)
             /\ e.job = j /\ e.source = progress.node /\ e.target = progress.node \cup Incompatible(j)
             /\ e.depth = progress.depth
             /\ LogHolds(e)

\* What a dispatch of a job makes of the progress, for a start time.
MissedFrom(j, start) == FinishTimes(j, start).max > problem.jobs[j].deadline
After(j, start, late) ==
    [NextNode(j) EXCEPT
        !.depth = @ + 1, !.missed = @ \/ MissedFrom(j, start), !.timed_out = late,
        !.finish = [i \in DOMAIN @ \cup {j} |-> IF i = j THEN FinishTimes(j, start) ELSE @[i]]]
Stops(j, start, late) == late \/ (MissedFrom(j, start) /\ ~config.continue_after_dl_miss)

LEMMA DispatchOutcome ==
    ASSUME NEW j \in Jobs, Dispatch(j)
    PROVE  \E start, late :
        /\ late \in BOOLEAN
        /\ LogJobDispatched(j, start, FinishTimes(j, start))
        /\ IF Stops(j, start, late)
           THEN Stop(After(j, start, late))
           ELSE /\ \E free \in {progress.available, FinishTimes(j, start).min} :
                    progress' = [After(j, start, late) EXCEPT !.available = free]
                /\ UNCHANGED pc
<1> DEFINE earliest == MaxOf(progress.available, problem.jobs[j].arrival.min)
<1>1. PICK start \in {Interval(earliest, earliest + slack) : slack \in 0..1},
          late \in IF config.timeout > 0 THEN BOOLEAN ELSE {FALSE} :
        /\ LogJobDispatched(j, start, FinishTimes(j, start))
        /\ IF Stops(j, start, late)
           THEN Stop(After(j, start, late))
           ELSE /\ \E free \in {progress.available, FinishTimes(j, start).min} :
                    progress' = [After(j, start, late) EXCEPT !.available = free]
                /\ UNCHANGED pc
    BY DEF Dispatch, Stops, After, MissedFrom
<1>2. late \in BOOLEAN
    OBVIOUS
<1>3. QED BY <1>1, <1>2

LEMMA DispatchStays ==
    ASSUME NEW j \in Jobs, Dispatch(j)
    PROVE  pc' = "results" \/ pc' = pc
<1>1. PICK start, late :
        IF Stops(j, start, late) THEN Stop(After(j, start, late)) ELSE UNCHANGED pc
    BY DispatchOutcome
<1>2. QED BY <1>1 DEF Stop

LEMMA DispatchLogs ==
    ASSUME NEW j \in Jobs, NEW start, LogJobDispatched(j, start, FinishTimes(j, start))
    PROVE  Logs(j)
<1> DEFINE e == [job |-> j, source |-> progress.node, target |-> progress.node \cup Incompatible(j),
                 start |-> start, finish |-> FinishTimes(j, start), depth |-> progress.depth]
<1>1. CASE edges' = edges
    BY <1>1 DEF Logs
<1>2. CASE edges' # edges
    <2>1. /\ edges' = Append(edges, e)
          /\ LogCondition(analysis.log_cond, progress.node \cup Incompatible(j), j, start, MissedFrom(j, start),
                          progress.depth)
        BY <1>2 DEF LogJobDispatched, MissedFrom, Edge
    <2>2. /\ e.job = j /\ e.source = progress.node /\ e.target = progress.node \cup Incompatible(j)
          /\ e.depth = progress.depth /\ e.start = start /\ e.finish = FinishTimes(j, start)
        OBVIOUS
    <2> HIDE DEF e
    <2>3. LogHolds(e)
        BY <2>1, <2>2 DEF LogHolds, MissedFrom
    <2>4. QED BY <2>1, <2>2, <2>3 DEF Logs
<1>3. QED BY <1>1, <1>2

LEMMA DispatchFacts ==
    ASSUME Shape, NEW j \in Jobs, Dispatch(j)
    PROVE  Follows(j) /\ Logs(j) /\ UNCHANGED <<built, exit_code, analysis, output>>
<1>1. PICK start, late :
        /\ late \in BOOLEAN
        /\ LogJobDispatched(j, start, FinishTimes(j, start))
        /\ IF Stops(j, start, late)
           THEN Stop(After(j, start, late))
           ELSE /\ \E free \in {progress.available, FinishTimes(j, start).min} :
                    progress' = [After(j, start, late) EXCEPT !.available = free]
                /\ UNCHANGED pc
    BY DispatchOutcome
<1>2. InNode /\ j \in Eligible /\ ~PruneBranch(j, progress.node, progress.available)
        /\ UNCHANGED <<built, exit_code, analysis, output>>
    BY DEF Dispatch
<1> DEFINE next == NextNode(j)
           after == After(j, start, late)
<1>3. /\ DOMAIN next = DOMAIN progress /\ next.node = progress.node \cup Incompatible(j)
      /\ next.count = progress.count + Cardinality(Incompatible(j)) /\ next.ready = ReadyAfter(j)
      /\ next.depth = progress.depth /\ next.finish = progress.finish
      /\ next.front = progress.front /\ next.out_of_memory = progress.out_of_memory
      /\ next.aborted = progress.aborted
    BY DEF Shape, ProgressFields, NextNode, ReadyAfter
<1> HIDE DEF next
<1>4. after = [next EXCEPT !.depth = @ + 1, !.missed = @ \/ MissedFrom(j, start), !.timed_out = late,
                           !.finish = [i \in DOMAIN @ \cup {j} |-> IF i = j THEN FinishTimes(j, start) ELSE @[i]]]
    BY DEF After, next
<1>5. /\ DOMAIN after = DOMAIN progress /\ after.node = next.node /\ after.count = next.count
      /\ after.ready = next.ready /\ after.depth = next.depth + 1
      /\ after.front = next.front /\ after.out_of_memory = next.out_of_memory
      /\ after.timed_out = late /\ after.aborted = next.aborted
    BY <1>3, <1>4 DEF Shape, ProgressFields
<1>6. DOMAIN after.finish = DOMAIN progress.finish \cup {j}
    BY <1>3, <1>4 DEF Shape, ProgressFields
<1>7. Logs(j)
    BY <1>1, DispatchLogs
<1> HIDE DEF after
<1>8. CASE Stops(j, start, late)
    <2>1. progress' = [after EXCEPT !.aborted = TRUE] /\ pc' = "results"
        BY <1>1, <1>8 DEF Stop, after
    <2>2. /\ DOMAIN progress' = DOMAIN progress /\ progress'.node = after.node /\ progress'.finish = after.finish
          /\ progress'.front = after.front /\ progress'.out_of_memory = after.out_of_memory
          /\ progress'.timed_out = after.timed_out /\ progress'.depth = after.depth
          /\ progress'.count = after.count /\ progress'.ready = after.ready
        BY <1>5, <2>1 DEF Shape, ProgressFields
    <2>3. progress'.aborted = TRUE
        BY <1>5, <2>1 DEF Shape, ProgressFields
    <2>4. QED BY <1>1, <1>2, <1>3, <1>5, <1>6, <1>7, <2>1, <2>2, <2>3 DEF Follows
<1>9. CASE ~Stops(j, start, late)
    <2>1. PICK free : progress' = [after EXCEPT !.available = free] /\ pc' = pc
        BY <1>1, <1>9 DEF after
    <2>2. late = FALSE
        BY <1>1, <1>9 DEF Stops
    <2>3. /\ DOMAIN progress' = DOMAIN progress /\ progress'.node = after.node /\ progress'.finish = after.finish
          /\ progress'.front = after.front /\ progress'.out_of_memory = after.out_of_memory
          /\ progress'.timed_out = after.timed_out /\ progress'.aborted = after.aborted
          /\ progress'.depth = after.depth
          /\ progress'.count = after.count /\ progress'.ready = after.ready
        BY <1>5, <2>1 DEF Shape, ProgressFields
    <2>4. QED BY <1>2, <1>3, <1>5, <1>6, <1>7, <2>1, <2>2, <2>3 DEF Follows
<1>10. QED BY <1>8, <1>9
-----------------------------------------------------------------------------
(***************************************************************************)
(* The steps of the program, as seen from the path.                        *)
(***************************************************************************)

\* The analysis has begun.
Begun == pc \in {"explore", "results"}

\* Nothing that the analysis writes changes before it.
LEMMA BeforeAnalysis ==
    ASSUME ReadArgs \/ Configure \/ Build
    PROVE  ~Begun' /\ pc # "done" /\ ~Begun /\ UNCHANGED <<analysis, progress, edges, output>>
<1>1. CASE ReadArgs
    <2>1. ParseArgs /\ UNCHANGED <<config, problem, analysis, progress, edges, output>>
        BY <1>1 DEF ReadArgs
    <2>2. ASSUME NEW o, NEW value, NEW rest, ProcessOpt(o, value, rest), pc = "args"
          PROVE  pc' \in {"args", "done"}
        BY <2>2 DEF ProcessOpt, Exit, Error
    <2>3. pc = "args"
        BY <2>1 DEF ParseArgs, HandleLongOpt, HandleShortOpt, HandleText, HandleEnd, ArgsParsed
    <2>4. CASE HandleLongOpt
        <3> DEFINE arg == Head(remaining)
                   rest == Tail(remaining)
                   taken == ~arg.joined /\ rest # <<>>
                   o == LongOptions[CHOOSE n \in Matching(arg.name) : TRUE]
                   value == IF arg.joined THEN arg.value ELSE IF taken THEN Head(rest).name ELSE ""
        <3>1. Error \/ ProcessOpt(o, "", rest) \/ ProcessOpt(o, value, IF taken THEN Tail(rest) ELSE rest)
            BY <2>4 DEF HandleLongOpt
        <3> HIDE DEF arg, rest, taken, o, value
        <3>2. pc' \in {"args", "done"}
            BY <2>2, <2>3, <3>1 DEF Error, Exit
        <3>3. QED BY <2>1, <2>3, <3>2 DEF Begun
    <2>5. CASE HandleShortOpt
        <3> DEFINE arg == Head(remaining)
                   rest == Tail(remaining)
                   o == LongOptions[ShortOptions[arg.name]]
                   next == [form |-> "short", name |-> arg.value, value |-> "", joined |-> FALSE]
        <3>1. \/ Error \/ ProcessOpt(o, "", IF arg.joined THEN <<next>> \o rest ELSE rest)
              \/ ProcessOpt(o, arg.value, rest) \/ ProcessOpt(o, Head(rest).name, Tail(rest))
            BY <2>5 DEF HandleShortOpt
        <3> HIDE DEF arg, rest, o, next
        <3>2. pc' \in {"args", "done"}
            BY <2>2, <2>3, <3>1 DEF Error, Exit
        <3>3. QED BY <2>1, <2>3, <3>2 DEF Begun
    <2>6. CASE HandleText \/ HandleEnd \/ ArgsParsed
        <3>1. pc' \in {"args", "done", "config"}
            BY <2>3, <2>6 DEF HandleText, HandleEnd, ArgsParsed, Exit
        <3>2. QED BY <2>1, <2>3, <3>1 DEF Begun
    <2>7. QED BY <2>1, <2>4, <2>5, <2>6 DEF ParseArgs
<1>2. CASE Configure
    <2>1. /\ pc \in {"config", "options"} /\ pc' \in {"options", "jobs", "done"}
          /\ UNCHANGED <<analysis, progress, edges, output>>
        BY <1>2 DEF Configure, ParseConfigFile, ParseInputOptions, Exit
    <2>2. QED BY <2>1 DEF Begun
<1>3. CASE Build
    <2>1. UNCHANGED <<analysis, progress, edges, output>>
        BY <1>3 DEF Build
    <2>2. ASSUME NEW err, Refuse(err) PROVE pc' = "done"
        BY <2>2 DEF Refuse, Exit
    <2>3. CASE ParseJobs
        <3>1. pc = "jobs" /\ pc' \in {"precedence", "done"}
            BY <2>2, <2>3 DEF ParseJobs, Next_pc
        <3>2. QED BY <2>1, <3>1 DEF Begun
    <2>4. CASE BuildGraph
        <3>1. pc = "precedence" /\ pc' \in {"mutexes", "done"}
            BY <2>2, <2>4 DEF BuildGraph, Next_pc
        <3>2. QED BY <2>1, <3>1 DEF Begun
    <2>5. CASE ParseMutexes
        <3>1. pc = "mutexes" /\ pc' \in {"platform", "done"}
            BY <2>2, <2>5 DEF ParseMutexes, Next_pc
        <3>2. QED BY <2>1, <3>1 DEF Begun
    <2>6. CASE ParsePlatform
        <3>1. pc = "platform" /\ pc' \in {"aborts", "done"}
            BY <2>2, <2>6 DEF ParsePlatform, Next_pc
        <3>2. QED BY <2>1, <3>1 DEF Begun
    <2>7. CASE ParseAborts
        <3>1. pc = "aborts" /\ pc' \in {"problem", "done"}
            BY <2>2, <2>7 DEF ParseAborts, Next_pc
        <3>2. QED BY <2>1, <3>1 DEF Begun
    <2>8. CASE MakeProblem
        <3>1. pc = "problem" /\ pc' \in {"extensions", "done"}
            BY <2>2, <2>8 DEF MakeProblem, Next_pc
        <3>2. QED BY <2>1, <3>1 DEF Begun
    <2>9. CASE RegisterExtensions
        <3>1. pc = "extensions" /\ pc' \in {"extensions", "analysis", "done"}
            BY <2>2, <2>9 DEF RegisterExtensions, Next_pc
        <3>2. QED BY <2>1, <3>1 DEF Begun
    <2>10. QED BY <1>3, <2>3, <2>4, <2>5, <2>6, <2>7, <2>8, <2>9 DEF Build, BuildProblem
<1>4. QED BY <1>1, <1>2, <1>3

\* A step of the path: what Explore may do, with the lines that it leaves alone.
PathStep ==
    /\ pc = "explore" /\ pc' \in {"explore", "results"}
    /\ UNCHANGED <<built, analysis, output>>
    /\ \/ SkipLayer \/ CheckLimits \/ DeadEnd \/ Prune \/ ExplorationEnds
       \/ \E j \in Jobs : Dispatch(j)

LEMMA StepCases ==
    ASSUME [Next]_vars
    PROVE  \/ UNCHANGED vars \/ Analyze \/ PathStep \/ Report
           \/ (~Begun' /\ pc # "done" /\ ~Begun /\ UNCHANGED <<analysis, progress, edges, output>>)
<1>1. CASE ReadArgs \/ Configure \/ Build
    BY <1>1, BeforeAnalysis
<1>2. CASE Explore
    <2>1. pc = "explore" /\ UNCHANGED <<built, analysis, output>>
        BY <1>2 DEF Explore, SkipLayer, CheckLimits, DeadEnd, Prune, ExplorationEnds, Dispatch, InNode, Exploring
    <2>2. CASE SkipLayer \/ CheckLimits \/ DeadEnd \/ Prune \/ ExplorationEnds
        <3>1. pc' \in {"explore", "results"}
            BY <2>1, <2>2 DEF SkipLayer, CheckLimits, DeadEnd, Prune, ExplorationEnds, Stop
        <3>2. QED BY <2>1, <2>2, <3>1 DEF PathStep
    <2>3. CASE \E j \in Jobs : Dispatch(j)
        <3>1. pc' \in {"explore", "results"}
            BY <2>1, <2>3, DispatchStays
        <3>2. QED BY <2>1, <2>3, <3>1 DEF PathStep
    <2>4. QED BY <1>2, <2>2, <2>3 DEF Explore
<1>3. CASE Done \/ UNCHANGED vars
    BY <1>3 DEF Done
<1>4. QED BY <1>1, <1>2, <1>3 DEF Next
-----------------------------------------------------------------------------
(***************************************************************************)
(* The verdict.                                                            *)
(***************************************************************************)

\* What a path keeps that no focus has cut: count is the number of jobs that are
\* dispatched or discarded, and the layer that is explored is not behind it; the
\* ready successors are left; and a dispatch within the limit of depth has led
\* to where the path is.
InTime ==
    /\ Cardinality(progress.node) = progress.count /\ progress.depth <= progress.count
    /\ PredClosed(progress.node) /\ ForkClosed(progress.node)
    /\ \A k \in progress.ready : k \notin progress.node /\ Preceding(k) \subseteq progress.node
    /\ config.max_depth = 0 \/ progress.count = 0
         \/ \E i \in DOMAIN progress.finish : progress.count <= config.max_depth + Cardinality(Incompatible(i))

\* The path of an analysis: no limit has stopped it while it goes on, a limit of
\* time or memory aborts it, and it ends on its own only after the last layer.
PathSound ==
    /\ Shape
    /\ progress.count \in Nat /\ progress.ready \subseteq Jobs
    /\ progress.depth <= Len(problem.jobs)
    /\ pc = "explore" => ~progress.aborted
    /\ progress.timed_out \/ progress.out_of_memory => progress.aborted
    /\ pc = "results" /\ ~progress.aborted => progress.depth = Len(problem.jobs)
    /\ BranchesAreClosed /\ progress.front /\ ~progress.aborted => InTime

\* The node of a path is a set of jobs.
LEMMA NodeFacts ==
    ASSUME Shape, Listed
    PROVE  progress.node \subseteq Jobs /\ IsFiniteSet(progress.node)
<1>1. \A j \in DOMAIN progress.finish : Incompatible(j) \subseteq Jobs
    BY IncompatibleMeans DEF Shape, Listed
<1>2. progress.node \subseteq Jobs
    BY <1>1 DEF Shape
<1>3. QED BY <1>2, JobsFacts, FS_Subset DEF Listed

LEMMA PathBegins ==
    ASSUME Analyze, Begun', Listed, ConfigHolds
    PROVE  PathSound'
<1>1. /\ progress' = [NewProgress EXCEPT !.available = EarliestCore]
      /\ pc' = "explore" /\ UNCHANGED <<problem, config>>
    BY DEF Analyze, Begun, Exit, built
<1>2. /\ DOMAIN progress' = ProgressFields
      /\ progress'.depth = 0 /\ progress'.count = 0 /\ progress'.node = {} /\ progress'.ready = {}
      /\ progress'.front = TRUE /\ progress'.finish = <<>>
    BY <1>1 DEF NewProgress, ProgressFields
<1>3. progress'.aborted = FALSE /\ progress'.timed_out = FALSE /\ progress'.out_of_memory = FALSE
    BY <1>1 DEF NewProgress
<1>4. Shape'
    <2>1. progress'.depth \in Nat /\ DOMAIN progress'.finish = {}
        BY <1>2
    <2>2. progress'.front \in BOOLEAN
        BY <1>2
    <2>3. progress'.node = UNION {Incompatible(j)' : j \in DOMAIN progress'.finish}
        BY <1>2, <2>1
    <2>4. QED BY <1>2, <1>3, <2>1, <2>2, <2>3 DEF Shape
<1>5. InTime'
    <2>1. Cardinality(progress'.node) = 0
        BY <1>2, FS_EmptySet
    <2>2. QED BY <1>2, <2>1 DEF InTime, PredClosed, ForkClosed
<1>6. progress'.depth <= Len(problem'.jobs)
    BY <1>1, <1>2, JobsFacts DEF Listed
<1>7. progress'.count \in Nat /\ progress'.ready \subseteq Jobs'
    BY <1>2
<1>8. QED BY <1>1, <1>2, <1>3, <1>4, <1>5, <1>6, <1>7 DEF PathSound

\* A job that may be next is not in the node, and follows jobs of the node only.
LEMMA NextIsReady ==
    ASSUME InTime, NEW j \in Eligible
    PROVE  j \notin progress.node /\ Preceding(j) \subseteq progress.node
BY DEF InTime, Eligible

\* With its branches closed, a dispatch leads to a node of the kind it comes from.
LEMMA DispatchKeepsInTime ==
    ASSUME PathSound, Listed, ConfigHolds, BranchesAreClosed, InTime, UNCHANGED <<problem, config>>,
           NEW j \in Jobs, Follows(j)
    PROVE  InTime'
<1> DEFINE node == progress.node \cup Incompatible(j)
<1>1. /\ \A i : Incompatible(i)' = Incompatible(i) /\ Following(i)' = Following(i) /\ Preceding(i)' = Preceding(i)
      /\ Jobs' = Jobs
    BY GraphIsStable DEF Jobs
<1>2. /\ progress'.node = node /\ progress'.ready = ReadyAfter(j) /\ progress'.depth = progress.depth + 1
      /\ progress'.count = progress.count + Cardinality(Incompatible(j))
      /\ DOMAIN progress'.finish = DOMAIN progress.finish \cup {j}
    BY DEF Follows
<1>3. JobsAreListed /\ EdgesAreKnown /\ PredClosed(progress.node) /\ ForkClosed(progress.node)
    BY DEF Listed, InTime
<1>4. j \notin progress.node /\ Preceding(j) \subseteq progress.node
    BY NextIsReady DEF Follows
<1>5. /\ j \in Incompatible(j) /\ Incompatible(j) \cap progress.node = {} /\ Incompatible(j) \cap Following(j) = {}
      /\ PredClosed(node) /\ ForkClosed(node)
    BY <1>3, <1>4, DispatchIsNew
<1>6. IsFiniteSet(progress.node) /\ IsFiniteSet(Incompatible(j)) /\ Incompatible(j) \subseteq Jobs
    BY <1>3, NodeFacts, IncompatibleMeans, JobsFacts, FS_Subset DEF PathSound
<1>7. Cardinality(Incompatible(j)) \in Nat /\ Cardinality(Incompatible(j)) >= 1
    <2>1. Cardinality(Incompatible(j)) \in Nat
        BY <1>6, FS_CardinalityType
    <2>2. Cardinality(Incompatible(j)) # 0
        BY <1>5, <1>6, FS_EmptySet
    <2>3. QED BY <2>1, <2>2
<1>8. Cardinality(node) = progress.count + Cardinality(Incompatible(j))
    <2>1. Cardinality(progress.node \cap Incompatible(j)) = 0
        <3>1. progress.node \cap Incompatible(j) = {}
            BY <1>5
        <3>2. QED BY <3>1, FS_EmptySet
    <2>2. Cardinality(node) = Cardinality(progress.node) + Cardinality(Incompatible(j))
                                - Cardinality(progress.node \cap Incompatible(j))
        BY <1>6, FS_Union
    <2>3. Cardinality(progress.node) = progress.count /\ progress.count \in Nat
        BY DEF InTime, PathSound
    <2>4. QED BY <1>7, <2>1, <2>2, <2>3
<1>9. progress'.depth <= progress'.count
    BY <1>2, <1>7 DEF InTime, PathSound, Shape
<1>10. ASSUME NEW k \in ReadyAfter(j) PROVE k \notin node /\ Preceding(k) \subseteq node
    <2>1. CASE k \in progress.ready /\ j \notin Incompatible(k)
        <3>1. k \in Jobs /\ k \notin progress.node /\ Preceding(k) \subseteq progress.node
            BY <2>1 DEF InTime, PathSound
        <3>2. k \notin Incompatible(j)
            BY <1>3, <1>4, <2>1, <3>1, OthersStayReady
        <3>3. QED BY <3>1, <3>2
    <2>2. CASE k \in Following(j) /\ Preceding(k) \subseteq node
        <3>1. k \notin progress.node
            BY <1>3, <1>4, <2>2, FollowingFacts DEF PredClosed
        <3>2. k \notin Incompatible(j)
            BY <1>5, <2>2
        <3>3. QED BY <2>2, <3>1, <3>2
    <2>3. QED BY <1>10, <2>1, <2>2 DEF ReadyAfter
<1>11. config.max_depth = 0 \/ progress'.count <= config.max_depth + Cardinality(Incompatible(j))
    <2>1. progress.depth = progress.count /\ ~DepthExceeded
        BY DEF Follows, InNode, InLayer
    <2>2. config.max_depth \in Nat /\ progress.count \in Nat
        BY DEF ConfigHolds, PathSound
    <2>3. QED BY <1>2, <1>7, <2>1, <2>2 DEF DepthExceeded
<1> HIDE DEF node
<1>12. PredClosed(progress.node)' /\ ForkClosed(progress.node)'
    <2>1. \A f : Fork(f)' <=> Fork(f)
        BY <1>1 DEF Fork
    <2>2. PredClosed(progress.node)'
        BY <1>1, <1>2, <1>5 DEF PredClosed
    <2>3. ForkClosed(progress.node)'
        BY <1>1, <1>2, <1>5, <2>1 DEF ForkClosed
    <2>4. QED BY <2>2, <2>3
<1>13. \A k \in progress'.ready : k \notin progress'.node /\ Preceding(k)' \subseteq progress'.node
    BY <1>1, <1>2, <1>10
<1>14. \/ config'.max_depth = 0
       \/ \E i \in DOMAIN progress'.finish : progress'.count <= config'.max_depth + Cardinality(Incompatible(i)')
    <2>1. j \in DOMAIN progress'.finish
        BY <1>2
    <2>2. QED BY <1>1, <1>11, <2>1
<1>15. Cardinality(progress'.node) = progress'.count
    BY <1>2, <1>8
<1>16. QED BY <1>9, <1>12, <1>13, <1>14, <1>15 DEF InTime

LEMMA PathContinues ==
    ASSUME PathStep, PathSound, Listed, ConfigHolds
    PROVE  PathSound'
<1>1. UNCHANGED <<problem, config, input, analysis, output>> /\ pc = "explore" /\ pc' \in {"explore", "results"}
        /\ Jobs' = Jobs
    BY DEF PathStep, built, Jobs
<1> DEFINE n == Len(problem.jobs)
<1>2. n \in Nat /\ Len(problem'.jobs) = n
    BY <1>1, JobsFacts DEF Listed
<1>3. Shape /\ progress.aborted = FALSE /\ progress.timed_out = FALSE /\ progress.out_of_memory = FALSE
        /\ progress.depth <= n /\ (BranchesAreClosed /\ progress.front => InTime)
    BY <1>1 DEF PathSound, Shape
<1>4. /\ \A i : Incompatible(i)' = Incompatible(i) /\ Following(i)' = Following(i) /\ Preceding(i)' = Preceding(i)
      /\ BranchesAreClosed' = BranchesAreClosed
    BY <1>1, GraphIsStable
<1>5. progress.count \in Nat /\ progress.ready \subseteq Jobs
    BY DEF PathSound
<1>6. CASE SkipLayer
    <2>1. /\ DOMAIN progress' = DOMAIN progress /\ progress'.depth = progress.depth + 1
          /\ progress'.node = progress.node /\ progress'.front = progress.front
          /\ progress'.aborted = progress.aborted /\ progress'.timed_out = progress.timed_out
          /\ progress'.out_of_memory = progress.out_of_memory
          /\ progress'.count = progress.count /\ progress'.ready = progress.ready
          /\ progress'.finish = progress.finish
        BY <1>3, <1>6 DEF SkipLayer, Shape, ProgressFields
    <2>2. progress.depth < n /\ pc' = "explore"
        BY <1>1, <1>6 DEF SkipLayer, Exploring
    <2>3. Shape'
        BY <1>1, <1>3, <1>4, <2>1 DEF Shape
    <2>4. progress'.depth <= n
        BY <1>2, <1>3, <2>1, <2>2 DEF Shape
    <2>5. ASSUME BranchesAreClosed, progress.front PROVE InTime'
        <3>1. InTime
            BY <1>3, <2>5
        <3>2. progress.depth # progress.count
            BY <1>6, <2>5 DEF SkipLayer, InLayer
        <3>3. progress'.depth <= progress'.count
            BY <1>3, <1>5, <2>1, <3>1, <3>2 DEF InTime, Shape
        <3>4. PredClosed(progress.node)' /\ ForkClosed(progress.node)'
            BY <1>1, <1>4, <2>1, <3>1 DEF InTime, PredClosed, ForkClosed, Fork
        <3>5. Cardinality(progress'.node) = progress'.count
            BY <2>1, <3>1 DEF InTime
        <3>6. \A k \in progress'.ready : k \notin progress'.node /\ Preceding(k)' \subseteq progress'.node
            BY <1>4, <2>1, <3>1 DEF InTime
        <3>7. config'.max_depth = 0 \/ progress'.count = 0
                \/ \E i \in DOMAIN progress'.finish :
                        progress'.count <= config'.max_depth + Cardinality(Incompatible(i)')
            BY <1>1, <1>4, <2>1, <3>1 DEF InTime
        <3>8. QED BY <3>3, <3>4, <3>5, <3>6, <3>7 DEF InTime
    <2>6. QED BY <1>1, <1>2, <1>3, <1>4, <1>5, <2>1, <2>2, <2>3, <2>4, <2>5 DEF PathSound
<1>7. CASE CheckLimits \/ DeadEnd
    <2>1. PICK p : /\ Stop(p) /\ DOMAIN p = DOMAIN progress
                   /\ p.depth = progress.depth \/ (p.depth = progress.depth + 1 /\ progress.depth < n)
                   /\ p.node = progress.node /\ p.front = progress.front /\ p.finish = progress.finish
                   /\ p.count = progress.count /\ p.ready = progress.ready
                   /\ p.timed_out \in BOOLEAN /\ p.out_of_memory \in BOOLEAN
        <3> DEFINE late == [progress EXCEPT !.timed_out = TRUE]
                   full == [progress EXCEPT !.out_of_memory = TRUE]
                   over == [progress EXCEPT !.missed = TRUE, !.depth = @ + 1]
        <3>1. Stop(progress) \/ Stop(late) \/ Stop(full) \/ (Stop(over) /\ progress.depth < n)
            BY <1>7 DEF CheckLimits, DeadEnd, InNode, Exploring
        <3>2. /\ DOMAIN late = DOMAIN progress /\ late.depth = progress.depth /\ late.node = progress.node
              /\ late.front = progress.front /\ late.out_of_memory = progress.out_of_memory
              /\ late.finish = progress.finish /\ late.count = progress.count /\ late.ready = progress.ready
            OBVIOUS
        <3>3. late.timed_out = TRUE
            BY <1>3 DEF Shape, ProgressFields
        <3>4. /\ DOMAIN full = DOMAIN progress /\ full.depth = progress.depth /\ full.node = progress.node
              /\ full.front = progress.front /\ full.timed_out = progress.timed_out
              /\ full.finish = progress.finish /\ full.count = progress.count /\ full.ready = progress.ready
            OBVIOUS
        <3>5. full.out_of_memory = TRUE
            BY <1>3 DEF Shape, ProgressFields
        <3>6. /\ DOMAIN over = DOMAIN progress /\ over.node = progress.node
              /\ over.front = progress.front /\ over.timed_out = progress.timed_out
              /\ over.out_of_memory = progress.out_of_memory
              /\ over.finish = progress.finish /\ over.count = progress.count /\ over.ready = progress.ready
            OBVIOUS
        <3>7. over.depth = progress.depth + 1
            BY <1>3 DEF Shape, ProgressFields
        <3> HIDE DEF late, full, over, n
        <3>8. CASE Stop(progress)
            BY <1>3, <3>8
        <3>9. CASE Stop(late)
            BY <1>3, <3>2, <3>3, <3>9
        <3>10. CASE Stop(full)
            BY <1>3, <3>4, <3>5, <3>10
        <3>11. CASE Stop(over) /\ progress.depth < n
            BY <1>3, <3>6, <3>7, <3>11
        <3>12. QED BY <3>1, <3>8, <3>9, <3>10, <3>11
    <2>2. /\ DOMAIN progress' = DOMAIN progress /\ progress'.depth = p.depth /\ progress'.node = p.node
          /\ progress'.front = p.front /\ progress'.timed_out = p.timed_out
          /\ progress'.out_of_memory = p.out_of_memory
          /\ progress'.finish = p.finish /\ progress'.count = p.count /\ progress'.ready = p.ready
        BY <1>3, <2>1 DEF Stop, Shape, ProgressFields
    <2>3. progress'.aborted = TRUE /\ pc' = "results"
        BY <1>3, <2>1 DEF Stop, Shape, ProgressFields
    <2>4. progress'.depth \in Nat /\ progress'.depth <= n
        BY <1>2, <1>3, <2>1, <2>2 DEF Shape
    <2>5. Shape'
        BY <1>1, <1>3, <1>4, <2>1, <2>2, <2>3, <2>4 DEF Shape
    <2>6. QED BY <1>1, <1>2, <1>5, <2>1, <2>2, <2>3, <2>4, <2>5 DEF PathSound
<1>8. CASE Prune
    <2>1. /\ DOMAIN progress' = DOMAIN progress /\ progress'.depth = progress.depth + 1
          /\ progress'.node = progress.node
          /\ progress'.aborted = progress.aborted /\ progress'.timed_out = progress.timed_out
          /\ progress'.out_of_memory = progress.out_of_memory
          /\ progress'.count = progress.count /\ progress'.ready = progress.ready
          /\ progress'.finish = progress.finish
        BY <1>3, <1>8 DEF Prune, Shape, ProgressFields
    <2>2. progress'.front = FALSE
        BY <1>3, <1>8 DEF Prune, Shape, ProgressFields
    <2>3. progress.depth < n /\ pc' = "explore"
        BY <1>1, <1>8 DEF Prune, InNode, Exploring
    <2>4. Shape'
        <3>1. progress'.depth \in Nat
            BY <1>3, <2>1 DEF Shape
        <3>2. progress'.front \in BOOLEAN
            BY <2>2
        <3>3. QED BY <1>1, <1>3, <1>4, <2>1, <3>1, <3>2 DEF Shape
    <2>5. progress'.depth <= n
        BY <1>2, <1>3, <2>1, <2>3 DEF Shape
    <2>6. QED BY <1>1, <1>2, <1>3, <1>5, <2>1, <2>2, <2>3, <2>4, <2>5 DEF PathSound
<1>9. CASE ExplorationEnds
    <2>1. progress' = progress /\ pc' = "results" /\ progress.depth >= n
        BY <1>9 DEF ExplorationEnds
    <2>2. progress.depth = n
        BY <1>2, <1>3, <2>1 DEF Shape
    <2>3. Shape'
        BY <1>1, <1>3, <1>4, <2>1 DEF Shape
    <2>4. InTime => InTime'
        BY <1>1, <1>4, <2>1 DEF InTime, PredClosed, ForkClosed, Fork
    <2>5. QED BY <1>1, <1>2, <1>3, <1>4, <1>5, <2>1, <2>2, <2>3, <2>4 DEF PathSound
<1>10. ASSUME NEW j \in Jobs, Dispatch(j) PROVE PathSound'
    <2>1. Follows(j)
        BY <1>3, <1>10, DispatchFacts
    <2>2. progress.front = TRUE /\ progress.depth < n
        BY <1>3, <2>1 DEF Follows, InNode, InLayer, Exploring, Shape
    <2>3. Shape'
        <3>1. progress'.depth \in Nat
            BY <1>3, <2>1 DEF Shape, Follows
        <3>2. progress'.node = UNION {Incompatible(i)' : i \in DOMAIN progress'.finish}
            BY <1>3, <1>4, <2>1 DEF Shape, Follows
        <3>3. progress'.aborted \in BOOLEAN
            BY <1>3, <2>1 DEF Shape, Follows
        <3>4. DOMAIN progress' = ProgressFields /\ progress'.front \in BOOLEAN
              /\ progress'.timed_out \in BOOLEAN /\ progress'.out_of_memory \in BOOLEAN
            BY <1>3, <2>1 DEF Shape, Follows
        <3>5. DOMAIN progress'.finish \subseteq Jobs'
            BY <1>1, <1>3, <1>10, <2>1 DEF Shape, Follows
        <3>6. QED BY <3>1, <3>2, <3>3, <3>4, <3>5 DEF Shape
    <2>4. progress'.count \in Nat /\ progress'.ready \subseteq Jobs'
        <3>1. IsFiniteSet(Incompatible(j)) /\ Following(j) \subseteq Jobs
            BY <1>10, JobsFacts, IncompatibleMeans, FollowingFacts, FS_Subset DEF Listed
        <3>2. Cardinality(Incompatible(j)) \in Nat
            BY <3>1, FS_CardinalityType
        <3>3. QED BY <1>1, <1>5, <2>1, <3>1, <3>2 DEF Follows, ReadyAfter
    <2>5. progress'.depth <= n
        BY <1>2, <1>3, <2>1, <2>2 DEF Shape, Follows
    <2>6. CASE pc' = "results" /\ progress'.aborted = TRUE
        BY <1>2, <2>3, <2>4, <2>5, <2>6 DEF PathSound
    <2>7. CASE pc' = pc /\ progress'.aborted = progress.aborted /\ progress'.timed_out = FALSE
        <3>1. BranchesAreClosed => InTime'
            BY <1>1, <1>3, <1>10, <2>1, <2>2, DispatchKeepsInTime
        <3>2. progress'.out_of_memory = FALSE
            BY <1>3, <2>1 DEF Follows
        <3>3. QED BY <1>1, <1>2, <1>3, <1>4, <2>3, <2>4, <2>5, <2>7, <3>1, <3>2 DEF PathSound
    <2>8. QED BY <2>1, <2>6, <2>7 DEF Follows
<1>11. QED BY <1>6, <1>7, <1>8, <1>9, <1>10 DEF PathStep
-----------------------------------------------------------------------------
\* The report of an analysis that was printed.
Earned ==
    output.verdict # "0" =>
        /\ ~output.timeout /\ ~output.mem_out
        /\ output.jobs = Len(problem.jobs)
        /\ progress.front /\ BranchesAreClosed =>
            /\ \A j \in Jobs : \E i \in Dispatched : j \in Incompatible(i)
            /\ output.verdict = "X" => \E i \in Dispatched :
                    Within([min |-> Len(problem.jobs) - Cardinality(Incompatible(i)), max |-> Len(problem.jobs) - 1],
                           config.max_depth)

LEMMA ReportIsEarned ==
    ASSUME Report, PathSound, Listed, ConfigHolds, output = <<>>, output' # <<>>
    PROVE  Earned'
<1>1. pc = "results" /\ UNCHANGED <<problem, config, progress>>
    BY DEF Report, built
<1>2. /\ output'.verdict = Verdict /\ output'.jobs = progress.depth
      /\ output'.timeout = progress.timed_out /\ output'.mem_out = progress.out_of_memory
    BY DEF Report
<1> DEFINE n == Len(problem.jobs)
<1>3. n \in Nat /\ IsFiniteSet(Jobs) /\ Cardinality(Jobs) = n /\ n = Len(problem'.jobs) /\ Jobs' = Jobs
    BY <1>1, JobsFacts DEF Jobs, Listed
<1>4. SUFFICES ASSUME output'.verdict # "0" PROVE Earned'
    BY DEF Earned
<1>5. IsSchedulable
    BY <1>2, <1>4 DEF Verdict
<1>6. progress.aborted = FALSE
    BY <1>5 DEF IsSchedulable, PathSound, Shape
<1>7. progress.depth = n /\ progress.timed_out = FALSE /\ progress.out_of_memory = FALSE
    BY <1>1, <1>6 DEF PathSound, Shape
<1> HIDE DEF n
<1>8. ASSUME progress.front, BranchesAreClosed PROVE progress.node = Jobs /\ progress.count = n /\ InTime
    <2>1. InTime /\ progress.node \subseteq Jobs /\ progress.count \in Nat
        BY <1>6, <1>8, NodeFacts DEF PathSound
    <2>2. Cardinality(progress.node) <= n /\ (Cardinality(progress.node) = n => progress.node = Jobs)
        BY <1>3, <2>1, FS_Subset
    <2>3. progress.count = n
        BY <1>3, <1>7, <2>1, <2>2 DEF InTime
    <2>4. QED BY <2>1, <2>2, <2>3 DEF InTime
<1>9. ASSUME progress.front, BranchesAreClosed, NEW j \in Jobs PROVE \E i \in Dispatched : j \in Incompatible(i)
    <2>1. j \in UNION {Incompatible(i) : i \in DOMAIN progress.finish}
        BY <1>8, <1>9 DEF PathSound, Shape
    <2>2. QED BY <2>1 DEF Dispatched
<1>10. ASSUME progress.front, BranchesAreClosed, output'.verdict = "X"
       PROVE  \E i \in Dispatched :
                    Within([min |-> n - Cardinality(Incompatible(i)), max |-> n - 1], config.max_depth)
    <2>1. config.max_depth # 0 /\ config.max_depth < n /\ config.max_depth \in Nat
        BY <1>2, <1>7, <1>10 DEF Verdict, ConfigHolds
    <2>2. PICK i \in Dispatched : n <= config.max_depth + Cardinality(Incompatible(i))
        BY <1>3, <1>8, <1>10, <2>1 DEF InTime, Dispatched
    <2>3. i \in Jobs
        BY <2>2 DEF Dispatched, PathSound, Shape
    <2>4. Cardinality(Incompatible(i)) \in Nat
        BY <1>3, <2>3, IncompatibleMeans, FS_Subset, FS_CardinalityType DEF Listed
    <2>5. n - Cardinality(Incompatible(i)) <= config.max_depth /\ config.max_depth <= n - 1
        BY <1>3, <2>1, <2>2, <2>4
    <2>6. QED BY <2>2, <2>5 DEF Within
<1>11. ~output'.timeout /\ ~output'.mem_out /\ output'.jobs = Len(problem'.jobs)
    BY <1>2, <1>3, <1>7
<1>12. Dispatched' = Dispatched /\ BranchesAreClosed' = BranchesAreClosed /\ \A i : Incompatible(i)' = Incompatible(i)
    BY <1>1, GraphIsStable DEF Dispatched
<1>13. progress'.front /\ BranchesAreClosed' =>
            /\ \A j \in Jobs' : \E i \in Dispatched' : j \in Incompatible(i)'
            /\ output'.verdict = "X" => \E i \in Dispatched' :
                    Within([min |-> Len(problem'.jobs) - Cardinality(Incompatible(i)'), max |-> Len(problem'.jobs) - 1],
                           config'.max_depth)
    BY <1>1, <1>3, <1>9, <1>10, <1>12
<1>14. QED BY <1>11, <1>13 DEF Earned, Within

LEMMA ListedIsStable == ASSUME UNCHANGED problem PROVE Listed' <=> Listed
BY DEF Listed, JobsAreListed, EdgesAreKnown, Jobs

LEMMA PathIsStable ==
    ASSUME PathSound, UNCHANGED <<problem, config, progress, pc>>
    PROVE  PathSound'
<1>1. /\ \A i : Incompatible(i)' = Incompatible(i) /\ Following(i)' = Following(i) /\ Preceding(i)' = Preceding(i)
      /\ Jobs' = Jobs /\ BranchesAreClosed' = BranchesAreClosed
    BY GraphIsStable DEF Jobs
<1>2. Shape'
    BY <1>1 DEF PathSound, Shape, ProgressFields
<1>3. InTime => InTime'
    BY <1>1 DEF InTime, PredClosed, ForkClosed, Fork
<1>4. QED BY <1>1, <1>2, <1>3 DEF PathSound

\* The inductive invariant of the verdict.  The verdict is a function of what the
\* path has become, so that VerdictEarned says nothing until the last step: the
\* argument is in PathSound, which each step of the path keeps.
VerdictInv ==
    /\ ConfigHolds
    /\ pc # "done" => output = <<>>
    /\ Begun /\ Listed => PathSound
    /\ output # <<>> /\ Listed => Earned

LEMMA VerdictInvHolds == Spec => []VerdictInv
<1>1. Init => VerdictInv
    <2>1. SUFFICES ASSUME Init PROVE VerdictInv
        OBVIOUS
    <2>2. pc = "args" /\ output = <<>> /\ config = DefaultConfig
        BY <2>1 DEF Init, CommandLineInit
    <2>3. QED BY <2>2, DefaultHolds DEF VerdictInv, ConfigHolds, Begun
<1>2. VerdictInv /\ [Next]_vars => VerdictInv'
    <2>1. SUFFICES ASSUME VerdictInv, [Next]_vars PROVE VerdictInv'
        OBVIOUS
    <2>2. ConfigHolds /\ ConfigHolds'
        BY <2>1, ConfigInductive DEF VerdictInv
    <2>3. CASE UNCHANGED vars
        <3>1. UNCHANGED <<pc, output, problem, config, progress>>
            BY <2>3 DEF vars
        <3>2. PathSound => PathSound'
            BY <3>1, PathIsStable
        <3>3. Earned => Earned'
            BY <3>1, GraphIsStable DEF Earned, Dispatched, Jobs
        <3>4. QED BY <2>1, <2>2, <3>1, <3>2, <3>3, ListedIsStable DEF VerdictInv, Begun
    <2>4. CASE Analyze
        <3>1. pc = "analysis" /\ UNCHANGED <<problem, config, output>>
            BY <2>4 DEF Analyze, built
        <3>2. output' = <<>>
            BY <2>1, <3>1 DEF VerdictInv
        <3>3. Begun' /\ Listed' => PathSound'
            BY <2>2, <2>4, <3>1, PathBegins, ListedIsStable
        <3>4. QED BY <2>2, <3>2, <3>3 DEF VerdictInv
    <2>5. CASE PathStep
        <3>1. pc = "explore" /\ UNCHANGED <<problem, output>>
            BY <2>5 DEF PathStep, built
        <3>2. output' = <<>>
            BY <2>1, <3>1 DEF VerdictInv
        <3>3. Listed' => PathSound'
            BY <2>1, <2>2, <2>5, <3>1, PathContinues, ListedIsStable DEF VerdictInv, Begun
        <3>4. QED BY <2>2, <3>2, <3>3 DEF VerdictInv
    <2>6. CASE Report
        <3>1. pc = "results" /\ pc' = "done" /\ UNCHANGED <<problem>>
            BY <2>6 DEF Report, Exit, built
        <3>2. output = <<>> /\ (Listed => PathSound)
            BY <2>1, <3>1 DEF VerdictInv, Begun
        <3>3. output' # <<>> /\ Listed' => Earned'
            BY <2>2, <2>6, <3>1, <3>2, ReportIsEarned, ListedIsStable
        <3>4. QED BY <2>2, <3>1, <3>3 DEF VerdictInv, Begun
    <2>7. CASE ~Begun' /\ pc # "done" /\ UNCHANGED <<analysis, progress, edges, output>>
        <3>1. output' = <<>>
            BY <2>1, <2>7 DEF VerdictInv
        <3>2. QED BY <2>2, <2>7, <3>1 DEF VerdictInv
    <2>8. QED BY <2>1, <2>3, <2>4, <2>5, <2>6, <2>7, StepCases
<1>3. QED BY <1>1, <1>2, PTL DEF Spec

\* Schedulable (1) or X is printed only after an analysis that no limit stopped
\* (is_schedulable, timed_out and out_of_memory, space.hpp), that went through
\* every layer and, unless branches were pruned, dispatched every job or
\* discarded it when it dispatched one of another branch; with X, it went beyond
\* the limit of depth with a last dispatch only.
THEOREM VerdictIsEarned == Spec => [](Listed => VerdictEarned)
<1>1. VerdictInv => (Listed => VerdictEarned)
    BY DEF VerdictInv, VerdictEarned, Earned, Reported
<1>2. QED BY <1>1, VerdictInvHolds, PTL
-----------------------------------------------------------------------------
(***************************************************************************)
(* The focus of the analysis and the edges of the graph.                   *)
(***************************************************************************)

\* No two jobs have the same task and job number.  The program does not check it:
\* when two do, the look-up (lookup, jobs.hpp) finds the first of them only.
IdsAreUnique == \A i, k \in Jobs : Id(problem.jobs[i]) = Id(problem.jobs[k]) => i = k

LEMMA FirstIsOnly ==
    ASSUME JobsAreListed, IdsAreUnique, NEW j \in Jobs
    PROVE  LookupFirst(problem.jobs, Id(problem.jobs[j])) = j
<1>1. {i \in DOMAIN problem.jobs : Id(problem.jobs[i]) = Id(problem.jobs[j])} = {j}
    BY DEF IdsAreUnique, Jobs
<1>2. Min({j}) = j
    <2>1. j \in Nat
        BY JobsFacts
    <2>2. QED BY <2>1 DEF Min
<1>3. QED BY <1>1, <1>2 DEF LookupFirst

LEMMA FirstOfId ==
    ASSUME JobsAreListed, IdsAreUnique, NEW id \in JobIds(problem.jobs)
    PROVE  LookupFirst(problem.jobs, id) \in Jobs /\ Id(problem.jobs[LookupFirst(problem.jobs, id)]) = id
<1>1. PICK i \in Jobs : Id(problem.jobs[i]) = id
    BY DEF JobIds, Jobs
<1>2. QED BY <1>1, FirstIsOnly

\* The conditions that Analyze reads from the focus file and from the log file.
FocusCond == IF PruningAsked THEN ParseFocus(FocusDoc) ELSE NoPruning
LogCond == IF LogAsked THEN ParseLogConfig(LogDoc) ELSE LogEverything

\* No pruned job is dispatched, nor all jobs of a set that ends a path, nor a job
\* that arrives after the limit of time.
InFocus(cond) ==
    cond.active =>
        /\ Dispatched \cap cond.jobs = {}
        /\ \A stop \in cond.stop_job_sets : stop = {} \/ ~(stop \subseteq Dispatched)
        /\ \A j \in Dispatched : cond.time_limit > 0 => ~(problem.jobs[j].arrival.min > cond.time_limit)

\* A job is dispatched at most once: an alternative of a fork does not follow
\* itself.
AlternativesGoForward == \A j \in Jobs : j \in Incompatible(j)

\* An edge leads from a node to one of more jobs, and fulfilled the conditions when
\* it was recorded.
EdgeFits(e) ==
    /\ e.job \in Jobs /\ e.target \subseteq Jobs /\ e.depth \in 0..Len(problem.jobs)
    /\ BranchesAreClosed => e.depth = Cardinality(e.source)
    /\ LogHolds(e)

\* The analysis works with what the files say, and the path and the edges follow it.
OptionsKept ==
    /\ analysis.prune = FocusCond /\ analysis.log_cond = LogCond
    /\ AlternativesGoForward => InFocus(analysis.prune)
    /\ edges \in Seq(ToSet(edges)) /\ \A e \in ToSet(edges) : EdgeFits(e)

LEMMA CondsAreStable ==
    ASSUME UNCHANGED <<input, config, problem>>
    PROVE  FocusCond' = FocusCond /\ LogCond' = LogCond
<1>1. FocusCond' = FocusCond
    BY DEF FocusCond, PruningAsked, FocusDoc, ParseFocus, Jobs, Has
<1>2. LogCond' = LogCond
    BY DEF LogCond, LogAsked, LogDoc, ParseLogConfig, Index, Has
<1>3. QED BY <1>1, <1>2

LEMMA OptionsAreRead ==
    ASSUME Analyze, Begun', edges = <<>>
    PROVE  OptionsKept'
<1>1. UNCHANGED <<input, config, problem, edges>> /\ progress' = [NewProgress EXCEPT !.available = EarliestCore]
    BY DEF Analyze, Begun, Exit, built
<1>2. analysis'.prune = FocusCond /\ analysis'.log_cond = LogCond
    BY DEF Analyze, Begun, Exit, FocusCond, LogCond, FocusDoc, LogDoc
<1>3. Dispatched' = {}
    BY <1>1 DEF NewProgress, Dispatched
<1>4. ASSUME NEW cond PROVE InFocus(cond)'
    BY <1>3 DEF InFocus
<1>5. ToSet(edges') = {} /\ edges' \in Seq(ToSet(edges'))
    BY <1>1 DEF ToSet
<1>6. QED BY <1>1, <1>2, <1>4, <1>5, CondsAreStable DEF OptionsKept

LEMMA EdgeIsStable ==
    ASSUME UNCHANGED <<problem, analysis>>, NEW e, EdgeFits(e)
    PROVE  EdgeFits(e)'
<1>1. Jobs' = Jobs /\ BranchesAreClosed' = BranchesAreClosed
    BY GraphIsStable DEF Jobs
<1>2. QED BY <1>1 DEF EdgeFits, LogHolds, LogCondition

\* A dispatch stays in the focus.
LEMMA DispatchInFocus ==
    ASSUME Shape, Shape', AlternativesGoForward, UNCHANGED <<problem, analysis>>, InFocus(analysis.prune),
           NEW j \in Jobs, Follows(j)
    PROVE  InFocus(analysis.prune)'
<1> DEFINE cond == analysis.prune
<1>1. SUFFICES ASSUME cond.active PROVE InFocus(cond)'
    BY DEF InFocus
<1>2. /\ Dispatched \cap cond.jobs = {}
      /\ \A stop \in cond.stop_job_sets : stop = {} \/ ~(stop \subseteq Dispatched)
      /\ \A k \in Dispatched : cond.time_limit > 0 => ~(problem.jobs[k].arrival.min > cond.time_limit)
    BY <1>1 DEF InFocus
<1>3. /\ j \notin cond.jobs
      /\ \A stop \in cond.stop_job_sets : ~(j \in stop /\ stop \ {j} \subseteq progress.node)
      /\ cond.time_limit > 0 => ~(problem.jobs[j].arrival.min > cond.time_limit)
    BY <1>1 DEF Follows, PruneBranch
<1>4. Dispatched' = Dispatched \cup {j}
    BY DEF Follows, Dispatched
<1>5. Dispatched \subseteq progress.node
    BY DEF Shape, Dispatched, AlternativesGoForward
<1>6. cond' = cond
    OBVIOUS
<1> HIDE DEF cond
<1>7. Dispatched' \cap cond.jobs = {}
    BY <1>2, <1>3, <1>4
<1>8. ASSUME NEW stop \in cond.stop_job_sets PROVE stop = {} \/ ~(stop \subseteq Dispatched')
    <2>1. CASE j \in stop
        BY <1>3, <1>4, <1>5, <2>1
    <2>2. CASE j \notin stop
        BY <1>2, <1>4, <2>2
    <2>3. QED BY <2>1, <2>2
<1>9. ASSUME NEW k \in Dispatched', cond.time_limit > 0
      PROVE  ~(problem'.jobs[k].arrival.min > cond.time_limit)
    BY <1>2, <1>3, <1>4, <1>9
<1>10. QED BY <1>6, <1>7, <1>8, <1>9 DEF InFocus

\* An edge that is recorded fits.
LEMMA DispatchFits ==
    ASSUME PathSound, Listed, NEW j \in Jobs, pc = "explore", Follows(j),
           NEW e, e.job = j, e.source = progress.node, e.target = progress.node \cup Incompatible(j),
           e.depth = progress.depth, LogHolds(e)
    PROVE  EdgeFits(e)
<1>1. e.target \subseteq Jobs
    BY NodeFacts, IncompatibleMeans DEF PathSound, Listed
<1>2. progress.depth \in 0..Len(problem.jobs)
    BY JobsFacts DEF PathSound, Shape, Listed
<1>3. progress.front /\ ~progress.aborted /\ progress.depth = progress.count
    BY DEF Follows, InNode, InLayer, PathSound
<1>4. BranchesAreClosed => Cardinality(progress.node) = progress.depth
    BY <1>3 DEF PathSound, InTime
<1>5. QED BY <1>1, <1>2, <1>4 DEF EdgeFits

LEMMA OptionsAreKept ==
    ASSUME PathStep, PathSound, PathSound', OptionsKept, Listed
    PROVE  OptionsKept'
<1>1. UNCHANGED <<input, config, problem, analysis>> /\ Jobs' = Jobs /\ pc = "explore"
    BY DEF PathStep, built, Jobs
<1>2. Shape /\ Shape' /\ (AlternativesGoForward' => AlternativesGoForward)
    BY <1>1, GraphIsStable DEF PathSound, AlternativesGoForward
<1>3. analysis'.prune = FocusCond' /\ analysis'.log_cond = LogCond'
    BY <1>1, CondsAreStable DEF OptionsKept
<1>4. ASSUME NEW e, EdgeFits(e) PROVE EdgeFits(e)'
    BY <1>1, <1>4, EdgeIsStable
<1>5. CASE Dispatched' = Dispatched /\ edges' = edges
    <2>1. AlternativesGoForward' => InFocus(analysis.prune)'
        BY <1>1, <1>2, <1>5 DEF OptionsKept, InFocus
    <2>2. edges' \in Seq(ToSet(edges')) /\ \A e \in ToSet(edges') : EdgeFits(e)'
        BY <1>4, <1>5 DEF OptionsKept
    <2>3. QED BY <1>3, <2>1, <2>2 DEF OptionsKept
<1>6. CASE SkipLayer \/ CheckLimits \/ DeadEnd \/ Prune \/ ExplorationEnds
    <2>1. progress'.finish = progress.finish /\ edges' = edges
        BY <1>2, <1>6 DEF SkipLayer, CheckLimits, DeadEnd, Prune, ExplorationEnds, Stop, Shape, ProgressFields
    <2>2. QED BY <1>5, <2>1 DEF Dispatched
<1>7. ASSUME NEW j \in Jobs, Dispatch(j) PROVE OptionsKept'
    <2>1. Follows(j) /\ Logs(j)
        BY <1>2, <1>7, DispatchFacts
    <2>2. AlternativesGoForward' => InFocus(analysis.prune)'
        BY <1>1, <1>2, <1>7, <2>1, DispatchInFocus DEF OptionsKept
    <2>3. edges' \in Seq(ToSet(edges')) /\ \A e \in ToSet(edges') : EdgeFits(e)'
        <3>1. CASE edges' = edges
            BY <1>4, <3>1 DEF OptionsKept
        <3>2. CASE edges' # edges
            <4>1. PICK e : /\ edges' = Append(edges, e)
                           /\ e.job = j /\ e.source = progress.node
                           /\ e.target = progress.node \cup Incompatible(j)
                           /\ e.depth = progress.depth
                           /\ LogHolds(e)
                BY <2>1, <3>2 DEF Logs
            <4>2. EdgeFits(e)
                BY <1>1, <1>7, <2>1, <4>1, DispatchFits
            <4>3. edges \in Seq(ToSet(edges)) /\ \A x \in ToSet(edges) : EdgeFits(x)
                BY DEF OptionsKept
            <4>4. /\ edges' \in Seq(ToSet(edges) \cup {e})
                  /\ ToSet(edges') \subseteq ToSet(edges) \cup {e}
                BY <4>1, <4>3 DEF ToSet
            <4>5. edges' \in Seq(ToSet(edges'))
                BY <4>4 DEF ToSet
            <4>6. ASSUME NEW x \in ToSet(edges') PROVE EdgeFits(x)'
                <5>1. EdgeFits(x)
                    BY <4>2, <4>3, <4>4
                <5>2. QED BY <1>4, <5>1
            <4>7. QED BY <4>5, <4>6
        <3>3. QED BY <3>1, <3>2
    <2>4. QED BY <1>3, <2>2, <2>3 DEF OptionsKept
<1>8. QED BY <1>6, <1>7 DEF PathStep

\* The inductive invariant of the focus and of the recorded edges.
OptionsInv ==
    /\ ~Begun /\ pc # "done" => edges = <<>>
    /\ Begun /\ Listed => OptionsKept

LEMMA OptionsInvHolds == Spec => []OptionsInv
<1>1. Init => OptionsInv
    <2>1. SUFFICES ASSUME Init PROVE OptionsInv
        OBVIOUS
    <2>2. pc = "args" /\ edges = <<>>
        BY <2>1 DEF Init, CommandLineInit
    <2>3. QED BY <2>2 DEF OptionsInv, Begun
<1>2. VerdictInv /\ VerdictInv' /\ OptionsInv /\ [Next]_vars => OptionsInv'
    <2>1. SUFFICES ASSUME VerdictInv, VerdictInv', OptionsInv, [Next]_vars PROVE OptionsInv'
        OBVIOUS
    <2>2. CASE UNCHANGED vars
        <3>1. UNCHANGED <<input, config, problem, analysis, progress, edges, pc>>
            BY <2>2 DEF vars
        <3>2. OptionsKept => OptionsKept'
            <4>1. SUFFICES ASSUME OptionsKept PROVE OptionsKept'
                OBVIOUS
            <4>2. analysis'.prune = FocusCond' /\ analysis'.log_cond = LogCond'
                BY <3>1, <4>1, CondsAreStable DEF OptionsKept
            <4>3. AlternativesGoForward' => InFocus(analysis.prune)'
                BY <3>1, <4>1, GraphIsStable DEF OptionsKept, AlternativesGoForward, InFocus, Dispatched, Jobs
            <4>4. ASSUME NEW e \in ToSet(edges') PROVE EdgeFits(e)'
                BY <3>1, <4>1, EdgeIsStable DEF OptionsKept
            <4>5. QED BY <3>1, <4>1, <4>2, <4>3, <4>4 DEF OptionsKept
        <3>3. QED BY <2>1, <3>1, <3>2, ListedIsStable DEF OptionsInv, Begun
    <2>3. CASE Analyze
        <3>1. pc = "analysis" /\ UNCHANGED <<edges, problem>> /\ (~Begun' => pc' = "done")
            BY <2>3 DEF Analyze, Exit, Begun, built
        <3>2. edges = <<>>
            BY <2>1, <3>1 DEF OptionsInv, Begun
        <3>3. QED BY <2>3, <3>1, <3>2, OptionsAreRead DEF OptionsInv
    <2>4. CASE PathStep
        <3>1. Begun /\ Begun' /\ UNCHANGED problem
            BY <2>4 DEF PathStep, Begun, built
        <3>2. Listed' => Listed /\ PathSound /\ PathSound' /\ OptionsKept
            BY <2>1, <3>1, ListedIsStable DEF OptionsInv, VerdictInv
        <3>3. QED BY <2>4, <3>1, <3>2, OptionsAreKept DEF OptionsInv
    <2>5. CASE Report
        <3>1. pc' = "done"
            BY <2>5 DEF Report, Exit
        <3>2. QED BY <3>1 DEF OptionsInv, Begun
    <2>6. CASE ~Begun' /\ pc # "done" /\ ~Begun /\ UNCHANGED <<analysis, progress, edges, output>>
        BY <2>1, <2>6 DEF OptionsInv
    <2>7. QED BY <2>1, <2>2, <2>3, <2>4, <2>5, <2>6, StepCases
<1>3. QED BY <1>1, <1>2, VerdictInvHolds, PTL DEF Spec
-----------------------------------------------------------------------------
\* Times are numbers in the jobs and in the focus file.
TimesAreRead == (\A j \in Jobs : problem.jobs[j].arrival.min \in Int) /\ (FocusRead => FocusDoc.time \in Int)

LEMMA FocusIsKept ==
    ASSUME PathSound, OptionsKept, JobsAreListed, AlternativesGoForward, IdsAreUnique, TimesAreRead, FocusRead
    PROVE  FocusRespected
<1> DEFINE cond == analysis.prune
           node == Dispatched
           doc == FocusDoc
           Pruned(job) ==
                \/ Id(job) \in Pairs(doc.jobs)
                \/ job.task \in doc.tasks
                \/ Pairs(doc.jobset) # {} /\ Id(job) \notin Pairs(doc.jobset)
                \/ doc.taskset # {} /\ job.task \notin doc.taskset
           StopSet(list) == {LookupFirst(problem.jobs, id) : id \in Pairs(list) \cap JobIds(problem.jobs)}
<1>1. cond = ParseFocus(doc) /\ doc.loads /\ node \subseteq Jobs
    BY DEF OptionsKept, FocusCond, FocusRead, PathSound, Shape, Dispatched
<1>2. /\ cond.active = TRUE /\ cond.time_limit = doc.time
      /\ cond.jobs = {i \in Jobs : Pruned(problem.jobs[i])}
      /\ cond.stop_job_sets = {StopSet(doc.jobsets[i]) : i \in DOMAIN doc.jobsets}
    BY <1>1 DEF ParseFocus
<1>3. /\ node \cap cond.jobs = {}
      /\ \A stop \in cond.stop_job_sets : stop = {} \/ ~(stop \subseteq node)
      /\ \A j \in node : cond.time_limit > 0 => ~(problem.jobs[j].arrival.min > cond.time_limit)
    BY <1>2 DEF OptionsKept, InFocus
<1> HIDE DEF cond, node, doc
<1>4. ASSUME NEW j \in node PROVE ~Pruned(problem.jobs[j])
    BY <1>1, <1>2, <1>3
<1>5. ASSUME NEW id \in Ids(node)
      PROVE  /\ id \notin Pairs(doc.jobs)
             /\ Pairs(doc.jobset) # {} => id \in Pairs(doc.jobset)
             /\ id[1] \notin doc.tasks /\ (doc.taskset # {} => id[1] \in doc.taskset)
    <2>1. PICK j \in node : id = Id(problem.jobs[j])
        BY DEF Ids
    <2>2. id[1] = problem.jobs[j].task
        BY <2>1 DEF Id
    <2>3. QED BY <1>4, <2>1, <2>2
<1>6. ASSUME NEW i \in DOMAIN doc.jobsets
      PROVE  LET ids == Pairs(doc.jobsets[i]) \cap JobIds(problem.jobs)
             IN  ids = {} \/ ~(ids \subseteq Ids(node))
    <2> DEFINE ids == Pairs(doc.jobsets[i]) \cap JobIds(problem.jobs)
               stop == StopSet(doc.jobsets[i])
    <2>1. SUFFICES ASSUME ids # {}, ids \subseteq Ids(node) PROVE FALSE
        OBVIOUS
    <2>2. stop # {} /\ stop \in cond.stop_job_sets
        BY <1>2, <2>1
    <2>3. ASSUME NEW id \in ids PROVE LookupFirst(problem.jobs, id) \in node
        <3>1. PICK j \in node : id = Id(problem.jobs[j])
            BY <2>1, <2>3 DEF Ids
        <3>2. j \in Jobs
            BY <1>1
        <3>3. QED BY <3>1, <3>2, FirstIsOnly
    <2>4. stop \subseteq node
        BY <2>3
    <2>5. QED BY <1>3, <2>2, <2>4
<1>7. ASSUME NEW j \in node, doc.time > 0 PROVE problem.jobs[j].arrival.min <= doc.time
    <2>1. problem.jobs[j].arrival.min \in Int /\ doc.time \in Int
        BY <1>1 DEF TimesAreRead, doc
    <2>2. QED BY <1>2, <1>3, <1>7, <2>1
<1>8. QED BY <1>5, <1>6, <1>7 DEF FocusRespected, doc, node

\* A focused exploration (prune_branch, secateur.hpp) stays in the focus that the
\* file asks for, whatever jobs, sets and tasks it names: a path dispatches no
\* job that is to be pruned, never all the jobs of a set that ends it, and no
\* job that arrives after the limit of time.
THEOREM FocusHolds ==
    Spec => [](Listed /\ AlternativesGoForward /\ IdsAreUnique /\ TimesAreRead => FocusRespected)
<1>1. VerdictInv /\ OptionsInv => (Listed /\ AlternativesGoForward /\ IdsAreUnique /\ TimesAreRead => FocusRespected)
    <2>1. SUFFICES ASSUME VerdictInv, OptionsInv, Listed, AlternativesGoForward, IdsAreUnique, TimesAreRead, FocusRead
                   PROVE  FocusRespected
        BY DEF FocusRespected
    <2>2. Begun
        BY <2>1 DEF FocusRead, Begun
    <2>3. QED BY <2>1, <2>2, FocusIsKept DEF VerdictInv, OptionsInv, Listed
<1>2. QED BY <1>1, VerdictInvHolds, OptionsInvHolds, PTL
-----------------------------------------------------------------------------
\* A list of jobs or tasks in the log file is not empty: the code takes an empty
\* one for no condition.  The number of jobs and the times fit their types.
ListsAreGiven ==
    /\ LogAsked /\ Asked("Jobs") => LogDoc.conditions["Jobs"] # {}
    /\ LogAsked /\ Asked("Tasks") => LogDoc.conditions["Tasks"] # {}
    /\ Infinity \in Nat /\ Len(problem.jobs) <= Infinity
    /\ \A e \in ToSet(edges) : 0 <= e.start.max /\ e.start.min <= Infinity

SectionNumber == [Time |-> 2, Depth |-> 3, Tasks |-> 4, Jobs |-> 5, Dispatched |-> 6, NotDispatched |-> 7,
                  DeadlineMiss |-> 8, none |-> 9]

LEMMA SectionsInOrder == \A name \in DOMAIN SectionNumber : Section(name) = SectionNumber[name]
<1>1. LogSections = <<"all", "Time", "Depth", "Tasks", "Jobs", "Dispatched", "NotDispatched", "DeadlineMiss", "none">>
    BY DEF LogSections
<1>2. DOMAIN LogSections = 1..9
    BY <1>1
<1>3. /\ LogSections[1] = "all" /\ LogSections[2] = "Time" /\ LogSections[3] = "Depth"
      /\ LogSections[4] = "Tasks" /\ LogSections[5] = "Jobs" /\ LogSections[6] = "Dispatched"
      /\ LogSections[7] = "NotDispatched" /\ LogSections[8] = "DeadlineMiss" /\ LogSections[9] = "none"
    BY <1>1
<1>4. \A i \in 1..9 : i = 1 \/ i = 2 \/ i = 3 \/ i = 4 \/ i = 5 \/ i = 6 \/ i = 7 \/ i = 8 \/ i = 9
    OBVIOUS
<1>5. ASSUME NEW name, NEW k \in 1..9, LogSections[k] = name,
             \A i \in 1..9 : LogSections[i] = name => i = k
      PROVE  Section(name) = k
    BY <1>2, <1>5 DEF Section
<1>6. SUFFICES ASSUME NEW name \in DOMAIN SectionNumber PROVE Section(name) = SectionNumber[name]
    OBVIOUS
<1> DEFINE k == SectionNumber[name]
<1>7. k \in 1..9 /\ LogSections[k] = name
    BY <1>3 DEF SectionNumber
<1>8. \A i \in 1..9 : LogSections[i] = name => i = k
    BY <1>3, <1>4 DEF SectionNumber
<1> HIDE DEF k
<1>9. Section(name) = k
    BY <1>5, <1>7, <1>8
<1>10. QED BY <1>9 DEF k

LEMMA AskedIsRead ==
    ASSUME LogDoc.wrong = "none", NEW name \in {"Time", "Depth", "Tasks", "Jobs", "Dispatched", "NotDispatched", "DeadlineMiss"}, NEW default
    PROVE  (IF name \in DOMAIN LogDoc.conditions /\ Section(name) < Section(LogDoc.wrong)
            THEN LogDoc.conditions[name] ELSE default)
           = IF Asked(name) THEN LogDoc.conditions[name] ELSE default
<1>1. Section(name) < Section("none")
    BY SectionsInOrder DEF SectionNumber
<1>2. QED BY <1>1 DEF Asked

LEMMA ConditionRead ==
    ASSUME LogDoc.wrong = "none"
    PROVE  LET cond == ParseLogConfig(LogDoc)
           IN  /\ Asked("Time") => cond.time = LogDoc.conditions["Time"]
               /\ Asked("DeadlineMiss") => cond.deadline_miss = LogDoc.conditions["DeadlineMiss"]
               /\ Asked("Depth") => cond.depth = LogDoc.conditions["Depth"]
               /\ Asked("Tasks") => cond.tasks = LogDoc.conditions["Tasks"]
               /\ Asked("Jobs") => cond.jobs = {Index(id) : id \in LogDoc.conditions["Jobs"]}
               /\ Asked("Dispatched") => cond.dispatched = {Index(id) : id \in LogDoc.conditions["Dispatched"]}
               /\ Asked("NotDispatched") =>
                        cond.not_dispatched = {Index(id) : id \in LogDoc.conditions["NotDispatched"]}
<1> DEFINE Get(name, default) ==
               IF name \in DOMAIN LogDoc.conditions /\ Section(name) < Section(LogDoc.wrong)
               THEN LogDoc.conditions[name] ELSE default
           Indices(name) == {Index(id) : id \in Get(name, {})}
           cond == ParseLogConfig(LogDoc)
<1>1. /\ cond.time = Get("Time", LogEverything.time) /\ cond.deadline_miss = Get("DeadlineMiss", FALSE)
      /\ cond.depth = Get("Depth", LogEverything.depth) /\ cond.tasks = Get("Tasks", {})
      /\ cond.jobs = Indices("Jobs") /\ cond.dispatched = Indices("Dispatched")
      /\ cond.not_dispatched = Indices("NotDispatched")
    BY DEF ParseLogConfig
<1>2. ASSUME NEW name \in {"Time", "Depth", "Tasks", "Jobs", "Dispatched", "NotDispatched", "DeadlineMiss"}, NEW default, Asked(name)
      PROVE  Get(name, default) = LogDoc.conditions[name]
    BY <1>2, AskedIsRead
<1> HIDE DEF cond, Get
<1>3. QED BY <1>1, <1>2 DEF cond

LEMMA IndexFacts ==
    ASSUME JobsAreListed, IdsAreUnique
    PROVE  /\ \A id : Index(id) \in Jobs => id \in JobIds(problem.jobs) /\ Id(problem.jobs[Index(id)]) = id
           /\ \A j \in Jobs : Index(Id(problem.jobs[j])) = j
<1>1. Len(problem.jobs) + 1 \notin Jobs
    BY JobsFacts
<1>2. ASSUME NEW id, Index(id) \in Jobs
      PROVE  id \in JobIds(problem.jobs) /\ Id(problem.jobs[Index(id)]) = id
    <2>1. id \in JobIds(problem.jobs)
        BY <1>1, <1>2 DEF Index
    <2>2. QED BY <2>1, FirstOfId DEF Index
<1>3. ASSUME NEW j \in Jobs PROVE Index(Id(problem.jobs[j])) = j
    <2>1. Id(problem.jobs[j]) \in JobIds(problem.jobs)
        BY DEF JobIds, Jobs
    <2>2. QED BY <2>1, FirstIsOnly DEF Index
<1>4. QED BY <1>2, <1>3

AsAsked(e) ==
    /\ Asked("Time") => LET time == LogDoc.conditions["Time"]
                        IN  time.min <= e.start.max /\ e.start.min <= time.max
    /\ Asked("DeadlineMiss") /\ LogDoc.conditions["DeadlineMiss"] => e.finish.max > problem.jobs[e.job].deadline
    /\ Asked("Jobs") => Id(problem.jobs[e.job]) \in LogDoc.conditions["Jobs"]
    /\ Asked("Tasks") => problem.jobs[e.job].task \in LogDoc.conditions["Tasks"]
    /\ Asked("Dispatched") => LogDoc.conditions["Dispatched"] \subseteq Ids(e.target)
    /\ Asked("NotDispatched") => LogDoc.conditions["NotDispatched"] \cap Ids(e.target) = {}
    /\ Asked("Depth") => /\ Within(LogDoc.conditions["Depth"], e.depth)
                         /\ BranchesAreClosed => e.depth = Cardinality(e.source)

LEMMA EdgeIsAsked ==
    ASSUME OptionsKept, JobsAreListed, IdsAreUnique, ListsAreGiven, LogAsked, LogDoc.wrong = "none",
           NEW e \in ToSet(edges), EdgeFits(e)
    PROVE  AsAsked(e)
<1> DEFINE cond == analysis.log_cond
           missed == e.finish.max > problem.jobs[e.job].deadline
<1>1. cond = ParseLogConfig(LogDoc)
    BY DEF OptionsKept, LogCond
<1>2. e.job \in Jobs /\ e.target \subseteq Jobs
    BY DEF EdgeFits
<1>3. LogCondition(cond, e.target, e.job, e.start, missed, e.depth)
    BY DEF EdgeFits, LogHolds
<1>4. e.depth \in Nat /\ e.depth <= Infinity /\ Infinity \in Nat /\ 0 <= e.start.max /\ e.start.min <= Infinity
    BY JobsFacts DEF EdgeFits, ListsAreGiven
<1>5. /\ Asked("Time") => cond.time = LogDoc.conditions["Time"]
      /\ Asked("DeadlineMiss") => cond.deadline_miss = LogDoc.conditions["DeadlineMiss"]
      /\ Asked("Depth") => cond.depth = LogDoc.conditions["Depth"]
      /\ Asked("Tasks") => cond.tasks = LogDoc.conditions["Tasks"]
      /\ Asked("Jobs") => cond.jobs = {Index(id) : id \in LogDoc.conditions["Jobs"]}
      /\ Asked("Dispatched") => cond.dispatched = {Index(id) : id \in LogDoc.conditions["Dispatched"]}
      /\ Asked("NotDispatched") => cond.not_dispatched = {Index(id) : id \in LogDoc.conditions["NotDispatched"]}
    BY <1>1, ConditionRead
<1> HIDE DEF cond, missed
<1>6. /\ cond.dispatched \subseteq e.target /\ cond.not_dispatched \cap e.target = {}
      /\ cond.jobs = {} \/ e.job \in cond.jobs
      /\ cond.tasks = {} \/ problem.jobs[e.job].task \in cond.tasks
      /\ cond.depth.min <= e.depth /\ e.depth <= cond.depth.max
      /\ cond.time.min <= e.start.max /\ e.start.min <= cond.time.max
      /\ cond.deadline_miss => missed
    <2>1. CASE cond = LogEverything
        <3>1. /\ cond.dispatched = {} /\ cond.not_dispatched = {} /\ cond.jobs = {} /\ cond.tasks = {}
              /\ cond.depth = Interval(0, Infinity) /\ cond.time = Interval(0, Infinity) /\ ~cond.deadline_miss
            BY <2>1 DEF LogEverything
        <3>2. Interval(0, Infinity) = [min |-> 0, max |-> Infinity]
            BY <1>4 DEF Interval
        <3>3. QED BY <1>4, <3>1, <3>2
    <2>2. CASE cond # LogEverything
        BY <1>3, <2>2 DEF LogCondition
    <2>3. QED BY <2>1, <2>2
<1>7. ASSUME Asked("Jobs") PROVE Id(problem.jobs[e.job]) \in LogDoc.conditions["Jobs"]
    <2>1. cond.jobs # {}
        <3>1. PICK id : id \in LogDoc.conditions["Jobs"]
            BY <1>7 DEF ListsAreGiven
        <3>2. Index(id) \in cond.jobs
            BY <1>5, <1>7, <3>1
        <3>3. QED BY <3>2
    <2>2. PICK id \in LogDoc.conditions["Jobs"] : Index(id) = e.job
        BY <1>5, <1>6, <1>7, <2>1
    <2>3. QED BY <1>2, <2>2, IndexFacts
<1>8. ASSUME Asked("Tasks") PROVE problem.jobs[e.job].task \in LogDoc.conditions["Tasks"]
    BY <1>5, <1>6, <1>8 DEF ListsAreGiven
<1>9. ASSUME Asked("Dispatched"), NEW id \in LogDoc.conditions["Dispatched"] PROVE id \in Ids(e.target)
    <2>1. Index(id) \in e.target
        BY <1>5, <1>6, <1>9
    <2>2. Id(problem.jobs[Index(id)]) = id
        BY <1>2, <2>1, IndexFacts
    <2>3. QED BY <2>1, <2>2 DEF Ids
<1>10. ASSUME Asked("NotDispatched"), NEW id \in LogDoc.conditions["NotDispatched"], id \in Ids(e.target) PROVE FALSE
    <2>1. PICK j \in e.target : id = Id(problem.jobs[j])
        BY <1>10 DEF Ids
    <2>2. Index(id) = j
        BY <1>2, <2>1, IndexFacts
    <2>3. j \in cond.not_dispatched
        BY <1>5, <1>10, <2>2
    <2>4. QED BY <1>6, <2>1, <2>3
<1>11. ASSUME Asked("Depth")
       PROVE Within(LogDoc.conditions["Depth"], e.depth) /\ (BranchesAreClosed => e.depth = Cardinality(e.source))
    BY <1>5, <1>6, <1>11 DEF Within, EdgeFits
<1>12. ASSUME Asked("Time")
       PROVE  LogDoc.conditions["Time"].min <= e.start.max /\ e.start.min <= LogDoc.conditions["Time"].max
    BY <1>5, <1>6, <1>12
<1>13. ASSUME Asked("DeadlineMiss"), LogDoc.conditions["DeadlineMiss"]
       PROVE  e.finish.max > problem.jobs[e.job].deadline
    BY <1>5, <1>6, <1>13 DEF missed
<1>14. QED BY <1>7, <1>8, <1>9, <1>10, <1>11, <1>12, <1>13 DEF AsAsked

\* When the log file is well written, every edge of the recorded graph fulfils
\* all of its conditions (the log conditions of the schedule graph logger): its
\* job and task are asked for, it may start in the interval of time and miss its
\* deadline where that is asked for, its target has the jobs that are to be
\* dispatched and none of those that are not, and its depth, the number of jobs
\* of its source, is in the interval.
THEOREM LogHoldsWhatIsAsked == Spec => [](Listed /\ IdsAreUnique /\ ListsAreGiven => LoggedAsAsked)
<1>1. OptionsInv => (Listed /\ IdsAreUnique /\ ListsAreGiven => LoggedAsAsked)
    <2>1. SUFFICES ASSUME OptionsInv, Listed, IdsAreUnique, ListsAreGiven, Begun, LogAsked,
                          LogDoc.wrong = "none", NEW i \in DOMAIN edges
                   PROVE  AsAsked(edges[i])
        BY DEF LoggedAsAsked, AsAsked, Begun
    <2>2. OptionsKept
        BY <2>1 DEF OptionsInv
    <2>3. edges[i] \in ToSet(edges) /\ EdgeFits(edges[i])
        BY <2>2 DEF OptionsKept, ToSet
    <2>4. QED BY <2>1, <2>2, <2>3, EdgeIsAsked DEF Listed
<1>2. QED BY <1>1, OptionsInvHolds, PTL
-----------------------------------------------------------------------------
(***************************************************************************)
(* Types.                                                                  *)
(***************************************************************************)

Places == {"args", "config", "options", "jobs", "precedence", "mutexes", "platform", "aborts",
           "problem", "extensions", "analysis", "explore", "results", "done"}
Codes == {0, 1, 2, 3, 4, Crashed}

\* Either the program goes on, or it ends with an exit code.
GoesOn == UNCHANGED exit_code /\ pc' \in Places \ {"done"}
Ending == pc' = "done" /\ exit_code' \in Codes

LEMMA RefusalEnds == ASSUME NEW err, Refuse(err) PROVE Ending
<1>1. PICK code \in ExitCodes(err) : Exit(code)
    BY DEF Refuse
<1>2. ExitCodes(err) \subseteq Codes
    <2>1. CASE err = "reference"
        BY <2>1 DEF ExitCodes, Codes
    <2>2. CASE err = "abort"
        BY <2>2 DEF ExitCodes, Codes
    <2>3. CASE err = "delay"
        BY <2>3 DEF ExitCodes, Codes
    <2>4. CASE err = "cost"
        BY <2>4 DEF ExitCodes, Codes
    <2>5. CASE err \notin {"reference", "abort", "delay", "cost"}
        BY <2>5 DEF ExitCodes, Codes
    <2>6. QED BY <2>1, <2>2, <2>3, <2>4, <2>5
<1>3. QED BY <1>1, <1>2 DEF Exit, Ending

LEMMA StepGoesOnOrEnds ==
    ASSUME [Next]_vars
    PROVE  UNCHANGED <<pc, exit_code>> \/ (pc # "done" /\ (GoesOn \/ Ending))
<1>1. CASE ReadArgs
    <2>1. ASSUME NEW o, NEW value, NEW rest, ProcessOpt(o, value, rest)
          PROVE  UNCHANGED <<pc, exit_code>> \/ Ending
        BY <2>1 DEF ProcessOpt, Exit, Error, Ending, Codes
    <2>2. pc = "args"
        BY <1>1 DEF ReadArgs, ParseArgs, HandleLongOpt, HandleShortOpt, HandleText, HandleEnd, ArgsParsed
    <2>3. CASE HandleLongOpt
        <3> DEFINE arg == Head(remaining)
                   rest == Tail(remaining)
                   taken == ~arg.joined /\ rest # <<>>
                   o == LongOptions[CHOOSE n \in Matching(arg.name) : TRUE]
                   value == IF arg.joined THEN arg.value ELSE IF taken THEN Head(rest).name ELSE ""
        <3>1. Error \/ ProcessOpt(o, "", rest) \/ ProcessOpt(o, value, IF taken THEN Tail(rest) ELSE rest)
            BY <2>3 DEF HandleLongOpt
        <3> HIDE DEF arg, rest, taken, o, value
        <3>2. QED BY <2>1, <2>2, <3>1 DEF Error, Exit, Ending, Codes
    <2>4. CASE HandleShortOpt
        <3> DEFINE arg == Head(remaining)
                   rest == Tail(remaining)
                   o == LongOptions[ShortOptions[arg.name]]
                   next == [form |-> "short", name |-> arg.value, value |-> "", joined |-> FALSE]
        <3>1. \/ Error \/ ProcessOpt(o, "", IF arg.joined THEN <<next>> \o rest ELSE rest)
              \/ ProcessOpt(o, arg.value, rest) \/ ProcessOpt(o, Head(rest).name, Tail(rest))
            BY <2>4 DEF HandleShortOpt
        <3> HIDE DEF arg, rest, o, next
        <3>2. QED BY <2>1, <2>2, <3>1 DEF Error, Exit, Ending, Codes
    <2>5. CASE HandleText \/ HandleEnd \/ ArgsParsed
        BY <2>2, <2>5 DEF HandleText, HandleEnd, ArgsParsed, Exit, Ending, GoesOn, Codes, Places
    <2>6. QED BY <1>1, <2>3, <2>4, <2>5 DEF ReadArgs, ParseArgs
<1>2. CASE Configure
    BY <1>2 DEF Configure, ParseConfigFile, ParseInputOptions, Exit, Ending, GoesOn, Codes, Places
<1>3. CASE Build
    <2>1. CASE ParseJobs
        BY <2>1, RefusalEnds DEF ParseJobs, Next_pc, GoesOn, Places
    <2>2. CASE BuildGraph
        BY <2>2, RefusalEnds DEF BuildGraph, Next_pc, GoesOn, Places
    <2>3. CASE ParseMutexes
        BY <2>3, RefusalEnds DEF ParseMutexes, Next_pc, GoesOn, Places
    <2>4. CASE ParsePlatform
        BY <2>4, RefusalEnds DEF ParsePlatform, Next_pc, GoesOn, Places
    <2>5. CASE ParseAborts
        BY <2>5, RefusalEnds DEF ParseAborts, Next_pc, GoesOn, Places
    <2>6. CASE MakeProblem
        BY <2>6, RefusalEnds DEF MakeProblem, Next_pc, GoesOn, Places
    <2>7. CASE RegisterExtensions
        BY <2>7, RefusalEnds DEF RegisterExtensions, Next_pc, GoesOn, Places
    <2>8. QED BY <1>3, <2>1, <2>2, <2>3, <2>4, <2>5, <2>6, <2>7 DEF Build, BuildProblem
<1>4. CASE Analyze
    BY <1>4 DEF Analyze, Exit, GoesOn, Ending, Codes, Places
<1>5. CASE Explore
    <2>1. CASE SkipLayer \/ CheckLimits \/ DeadEnd \/ Prune \/ ExplorationEnds
        BY <2>1 DEF SkipLayer, CheckLimits, DeadEnd, Prune, ExplorationEnds, Stop, Exploring, InNode, GoesOn, Places
    <2>2. ASSUME NEW j \in Jobs, Dispatch(j)
          PROVE  UNCHANGED <<pc, exit_code>> \/ (pc # "done" /\ (GoesOn \/ Ending))
        <3>1. pc = "explore" /\ UNCHANGED exit_code
            BY <2>2 DEF Dispatch, InNode, Exploring
        <3>2. QED BY <2>2, <3>1, DispatchStays DEF GoesOn, Places
    <2>3. QED BY <1>5, <2>1, <2>2 DEF Explore
<1>6. CASE Report
    BY <1>6 DEF Report, Exit, Ending, Codes
<1>7. CASE Done \/ UNCHANGED vars
    BY <1>7 DEF Done, vars
<1>8. QED BY <1>1, <1>2, <1>3, <1>4, <1>5, <1>6, <1>7 DEF Next

\* What TypeOK says of the path.
PathTyped ==
    /\ progress.depth \in 0..Len(problem.jobs) /\ progress.count \in Nat
    /\ DOMAIN progress.finish \subseteq Jobs /\ progress.ready \subseteq Jobs
    /\ progress.node = UNION {Incompatible(j) : j \in DOMAIN progress.finish}

\* The inductive invariant of the types.
TypeInv ==
    /\ pc \in Places /\ exit_code \in Codes \cup {Running}
    /\ pc = "done" <=> exit_code # Running
    /\ DOMAIN config = DOMAIN DefaultConfig
    /\ ~Begun /\ pc # "done" => progress = NewProgress
    /\ Listed => PathTyped

\* The path before the analysis and at its begin.
NewPath(p) == p.depth = 0 /\ p.count = 0 /\ p.node = {} /\ p.ready = {} /\ p.finish = <<>>

LEMMA NewPathTyped ==
    ASSUME Listed, NewPath(progress)
    PROVE  PathTyped
<1>1. Len(problem.jobs) \in Nat
    BY JobsFacts DEF Listed
<1>2. DOMAIN progress.finish = {}
    BY DEF NewPath
<1>3. QED BY <1>1, <1>2 DEF NewPath, PathTyped

LEMMA ConfigDomain ==
    ASSUME DOMAIN config = DOMAIN DefaultConfig, ConfigHolds, [Next]_vars
    PROVE  DOMAIN config' = DOMAIN DefaultConfig'
<1>1. DOMAIN DefaultConfig' = DOMAIN DefaultConfig
    BY DEF DefaultConfig
<1>2. UNCHANGED config \/ ParseConfigFile \/ ParseInputOptions
    BY ConfigSteps
<1>3. ASSUME ParseConfigFile PROVE DOMAIN config' = DOMAIN DefaultConfig
    <2>1. config' = DefaultConfig \/ config' = config
            \/ config' = ReadConfig(input.files[values["config_file"]])
        BY <1>3 DEF ParseConfigFile
    <2>2. QED BY <2>1, ReadConfigDepth
<1>4. ASSUME ParseInputOptions, config' # config PROVE DOMAIN config' = DOMAIN DefaultConfig
    <2>1. config' = WithOptions(config)
        BY <1>4 DEF ParseInputOptions
    <2>2. DOMAIN WithOptions(config) = DOMAIN config
        BY WithOptionsDepth DEF ConfigHolds
    <2>3. QED BY <2>1, <2>2
<1>5. QED BY <1>1, <1>2, <1>3, <1>4

LEMMA TypeInvHolds == Spec => []TypeInv
<1>1. Init => TypeInv
    <2>1. SUFFICES ASSUME Init PROVE TypeInv
        OBVIOUS
    <2>2. pc = "args" /\ exit_code = Running /\ config = DefaultConfig /\ progress = NewProgress
        BY <2>1 DEF Init, CommandLineInit
    <2>3. NewPath(progress)
        BY <2>2 DEF NewProgress, NewPath
    <2>4. Listed => PathTyped
        BY <2>3, NewPathTyped
    <2>5. QED BY <2>2, <2>4 DEF TypeInv, Places
<1>2. VerdictInv /\ VerdictInv' /\ TypeInv /\ [Next]_vars => TypeInv'
    <2>1. SUFFICES ASSUME VerdictInv, VerdictInv', TypeInv, [Next]_vars PROVE TypeInv'
        OBVIOUS
    <2>2. /\ pc' \in Places /\ exit_code' \in Codes \cup {Running}
          /\ pc' = "done" <=> exit_code' # Running
        <3>1. Running \notin Codes
            BY DEF Running, Codes, Crashed
        <3>2. "done" \in Places
            BY DEF Places
        <3>3. QED BY <2>1, <3>1, <3>2, StepGoesOnOrEnds DEF TypeInv, GoesOn, Ending
    <2>3. DOMAIN config' = DOMAIN DefaultConfig'
        BY <2>1, ConfigDomain DEF TypeInv, VerdictInv
    <2>4. /\ ~Begun' /\ pc' # "done" => progress' = NewProgress'
          /\ Listed' => PathTyped'
        <3>1. NewProgress' = NewProgress
            BY DEF NewProgress
        <3>2. ASSUME NewPath(progress)', Listed' PROVE PathTyped'
            <4>1. Len(problem'.jobs) \in Nat
                BY <3>2 DEF Listed, JobsAreListed
            <4>2. DOMAIN progress'.finish = {}
                BY <3>2 DEF NewPath
            <4>3. QED BY <3>2, <4>1, <4>2 DEF NewPath, PathTyped
        <3>3. CASE UNCHANGED vars
            <4>1. UNCHANGED <<problem, progress, pc>>
                BY <3>3 DEF vars
            <4>2. PathTyped => PathTyped'
                BY <4>1, GraphIsStable DEF PathTyped, Jobs
            <4>3. QED BY <2>1, <3>1, <4>1, <4>2, ListedIsStable DEF TypeInv, Begun
        <3>4. CASE Analyze
            <4>1. pc = "analysis" /\ (~Begun' => pc' = "done")
                    /\ (progress' = progress \/ progress' = [NewProgress EXCEPT !.available = EarliestCore])
                BY <3>4 DEF Analyze, Exit, Begun
            <4>2. progress = NewProgress
                BY <2>1, <4>1 DEF TypeInv, Begun
            <4>3. NewPath(progress)'
                BY <4>1, <4>2 DEF NewProgress, NewPath
            <4>4. QED BY <3>2, <4>1, <4>3
        <3>5. CASE PathStep
            <4>1. Begun'
                BY <3>5 DEF PathStep, Begun
            <4>2. ASSUME Listed' PROVE PathTyped'
                <5>1. PathSound' /\ Len(problem'.jobs) \in Nat
                    BY <2>1, <4>1, <4>2 DEF VerdictInv, Listed, JobsAreListed
                <5>2. QED BY <5>1 DEF PathSound, Shape, PathTyped
            <4>3. QED BY <4>1, <4>2
        <3>6. CASE Report
            <4>1. pc' = "done" /\ UNCHANGED <<problem, progress>>
                BY <3>6 DEF Report, Exit, built
            <4>2. PathTyped => PathTyped'
                BY <4>1, GraphIsStable DEF PathTyped, Jobs
            <4>3. QED BY <2>1, <4>1, <4>2, ListedIsStable DEF TypeInv
        <3>7. CASE ~Begun' /\ pc # "done" /\ ~Begun /\ UNCHANGED <<analysis, progress, edges, output>>
            <4>1. progress' = NewProgress
                BY <2>1, <3>7 DEF TypeInv
            <4>2. NewPath(progress)'
                BY <4>1 DEF NewProgress, NewPath
            <4>3. QED BY <3>1, <3>2, <4>1, <4>2
        <3>8. QED BY <2>1, <3>3, <3>4, <3>5, <3>6, <3>7, StepCases
    <2>5. QED BY <2>2, <2>3, <2>4 DEF TypeInv
<1>3. QED BY <1>1, <1>2, VerdictInvHolds, PTL DEF Spec

\* The program is in one of its stages, ends with a code if and only if it is
\* over, keeps all entries of its configuration, and counts as dispatched or
\* discarded the jobs that go with those that have a finish time.
THEOREM TypesHold == Spec => [](Listed => TypeOK)
<1>1. TypeInv => (Listed => TypeOK)
    BY DEF TypeInv, TypeOK, PathTyped, Places, Codes
<1>2. QED BY <1>1, TypeInvHolds, PTL

-----------------------------------------------------------------------------
(***************************************************************************)
(* The problem that is accepted, and the exit codes.                       *)
(***************************************************************************)

\* A set of numbers has a least one, which the choice of Min picks.
LEMMA LeastNatural ==
    ASSUME NEW S \in SUBSET Nat, S # {}
    PROVE  Min(S) \in S /\ \A y \in S : Min(S) <= y
<1>1. PICK x \in S : \A y \in S : ~ (<<y, x>> \in OpToRel(<, Nat))
    BY NatLessThanWellFounded, WFMin
<1>2. ASSUME NEW y \in S PROVE x <= y
    <2>1. ~ (y < x)
        BY <1>1 DEF OpToRel
    <2>2. QED BY <2>1
<1>3. \E z \in S : \A y \in S : z <= y
    BY <1>2
<1>4. QED BY <1>3 DEF Min

\* A set of indices has a greatest one, which the choice of Max picks.
LEMMA GreatestIndex ==
    ASSUME NEW n \in Nat, NEW S \in SUBSET (1..n), S # {}
    PROVE  Max(S) \in S
<1> DEFINE T == {n - x : x \in S}
<1>1. T \in SUBSET Nat /\ T # {}
    <2>1. ASSUME NEW x \in S PROVE n - x \in Nat /\ n - x \in T
        OBVIOUS
    <2>2. QED BY <2>1
<1>2. Min(T) \in T /\ \A y \in T : Min(T) <= y
    <2> HIDE DEF T
    <2>1. QED BY <1>1, LeastNatural
<1>3. PICK x \in S : Min(T) = n - x
    BY <1>2
<1>4. \A y \in S : n - x <= n - y
    BY <1>2, <1>3
<1> HIDE DEF T
<1>5. \A y \in S : x >= y
    BY <1>4
<1>6. \E z \in S : \A y \in S : z >= y
    BY <1>5
<1>7. QED BY <1>6 DEF Max

\* The look-ups find a job of the id.
LEMMA FoundIsJob ==
    ASSUME JobsAreListed, NEW id \in JobIds(problem.jobs)
    PROVE  /\ LookupTable(problem.jobs)[id] \in Jobs
           /\ LookupFirst(problem.jobs, id) \in Jobs
           /\ Id(problem.jobs[LookupFirst(problem.jobs, id)]) = id
<1> DEFINE S == {i \in DOMAIN problem.jobs : Id(problem.jobs[i]) = id}
<1>1. S # {}
    BY DEF JobIds
<1>2. Len(problem.jobs) \in Nat /\ S \in SUBSET (1..Len(problem.jobs)) /\ S \subseteq Jobs
    BY JobsFacts DEF Jobs
<1>3. \A i \in S : i \in Jobs /\ Id(problem.jobs[i]) = id
    BY <1>2
<1>4. LookupTable(problem.jobs)[id] = Max(S) /\ LookupFirst(problem.jobs, id) = Min(S)
    BY DEF LookupTable, LookupFirst
<1> HIDE DEF S
<1>5. Max(S) \in S
    BY <1>1, <1>2, GreatestIndex
<1>6. Min(S) \in S
    <2>1. S \in SUBSET Nat
        BY <1>2
    <2>2. QED BY <1>1, <2>1, LeastNatural
<1>7. QED BY <1>3, <1>4, <1>5, <1>6

\* What is read from the file of exclusions and from that of abort actions.
MutexRead == ParseMutexFile(input.files[config.excl_file], JobIds(problem.jobs))
AbortsRead == ParseAbortFile(input.files[config.aborts_file])

ConstraintSteps == {"mutexes", "platform", "aborts", "problem", "extensions", "analysis", "explore", "results"}
CheckedSteps == {"extensions", "analysis", "explore", "results"}
ProblemFields == {"jobs", "prec", "ranks", "mutexes", "platform", "aborts", "mk"}

\* The errors that the readers raise.
JobErrors ==
    IF CanOpen(JobsFile) /\ ~IsYaml(JobsFile) THEN {ParseCsvJobFile(input.files[JobsFile]).err} ELSE {}
EdgeErrors == IF CanOpen(JobsFile) THEN {PrecedenceRead.err} ELSE {}
MutexErrors ==
    IF config.want_mutexes /\ CanOpen(config.excl_file) /\ ~IsYaml(config.excl_file)
    THEN {MutexRead.err} ELSE {}
AbortErrors ==
    IF config.want_aborts /\ CanOpen(config.aborts_file) /\ ~IsYaml(config.aborts_file)
    THEN {AbortsRead.err} ELSE {}
Raised == JobErrors \cup EdgeErrors \cup MutexErrors \cup AbortErrors

\* The constraints of the problem are those of the files, and the checks of the
\* constructor are behind it.
ProblemIsRead ==
    /\ DOMAIN problem = ProblemFields
    /\ pc = "precedence" => CanOpen(JobsFile)
    /\ pc \in {"precedence", "mutexes"} => problem.mutexes = <<>>
    /\ pc \in ConstraintSteps => PrecedenceRead.err = "" /\ problem.prec = Indexed(PrecedenceRead.rows)
    /\ pc \in ConstraintSteps =>
        \/ problem.mutexes = <<>>
        \/ MutexRead.err = "" /\ problem.mutexes = Indexed(MutexRead.rows)
    /\ pc \in CheckedSteps => PostInitError = ""

\* Whence the codes for a wrong reference and for a wrong abort action.
CodesAreRaised ==
    /\ pc # "done" => exit_code = Running
    /\ exit_code = 4 => "abort" \in Raised \cup {PostInitError}
    /\ exit_code = 3 => "reference" \in Raised \cup {PostInitError}

AcceptInv == ProblemIsRead /\ CodesAreRaised

\* The steps of the stages before and behind the reading of the problem.
ArgStep ==
    /\ pc \in {"args", "config", "options"} /\ pc' \in {"args", "config", "options", "jobs", "done"}
    /\ UNCHANGED problem /\ exit_code' \in {exit_code, 0, 1, 2} /\ (pc' # "done" => exit_code' = exit_code)
RunStep ==
    /\ pc \in {"analysis", "explore", "results"} /\ pc' \in {"explore", "results", "done"}
    /\ UNCHANGED built /\ exit_code' \in {exit_code, 0, 1} /\ (pc' # "done" => exit_code' = exit_code)

\* Every step reads a part, registers the extensions, or leaves the problem alone.
LEMMA StageSteps ==
    ASSUME [Next]_vars
    PROVE  UNCHANGED vars \/ ArgStep \/ Build \/ RunStep
<1>1. CASE ReadArgs
    <2>1. ASSUME NEW o, NEW value, NEW rest, ProcessOpt(o, value, rest), pc = "args"
          PROVE  pc' \in {"args", "done"} /\ exit_code' \in {exit_code, 0, 1, 2} /\ (pc' # "done" => exit_code' = exit_code)
        BY <2>1 DEF ProcessOpt, Exit, Error
    <2>2. pc = "args" /\ UNCHANGED problem
        BY <1>1 DEF ReadArgs, ParseArgs, HandleLongOpt, HandleShortOpt, HandleText, HandleEnd, ArgsParsed
    <2>3. CASE HandleLongOpt
        <3> DEFINE arg == Head(remaining)
                   rest == Tail(remaining)
                   taken == ~arg.joined /\ rest # <<>>
                   o == LongOptions[CHOOSE n \in Matching(arg.name) : TRUE]
                   value == IF arg.joined THEN arg.value ELSE IF taken THEN Head(rest).name ELSE ""
        <3>1. Error \/ ProcessOpt(o, "", rest) \/ ProcessOpt(o, value, IF taken THEN Tail(rest) ELSE rest)
            BY <2>3 DEF HandleLongOpt
        <3> HIDE DEF arg, rest, taken, o, value
        <3>2. QED BY <2>1, <2>2, <3>1 DEF Error, Exit, ArgStep
    <2>4. CASE HandleShortOpt
        <3> DEFINE arg == Head(remaining)
                   rest == Tail(remaining)
                   o == LongOptions[ShortOptions[arg.name]]
                   next == [form |-> "short", name |-> arg.value, value |-> "", joined |-> FALSE]
        <3>1. \/ Error \/ ProcessOpt(o, "", IF arg.joined THEN <<next>> \o rest ELSE rest)
              \/ ProcessOpt(o, arg.value, rest) \/ ProcessOpt(o, Head(rest).name, Tail(rest))
            BY <2>4 DEF HandleShortOpt
        <3> HIDE DEF arg, rest, o, next
        <3>2. QED BY <2>1, <2>2, <3>1 DEF Error, Exit, ArgStep
    <2>5. CASE HandleText \/ HandleEnd \/ ArgsParsed
        BY <2>2, <2>5 DEF HandleText, HandleEnd, ArgsParsed, Exit, ArgStep
    <2>6. QED BY <1>1, <2>3, <2>4, <2>5 DEF ReadArgs, ParseArgs
<1>2. CASE Configure
    BY <1>2 DEF Configure, ParseConfigFile, ParseInputOptions, Exit, ArgStep
<1>3. CASE Analyze
    BY <1>3 DEF Analyze, Exit, RunStep
<1>4. CASE Explore
    <2>1. CASE SkipLayer \/ CheckLimits \/ DeadEnd \/ Prune \/ ExplorationEnds
        BY <2>1 DEF SkipLayer, CheckLimits, DeadEnd, Prune, ExplorationEnds, Stop, Exploring, InNode, RunStep
    <2>2. ASSUME NEW j \in Jobs, Dispatch(j) PROVE RunStep
        <3>1. pc = "explore" /\ UNCHANGED <<built, exit_code>>
            BY <2>2 DEF Dispatch, InNode, Exploring
        <3>2. QED BY <2>2, <3>1, DispatchStays DEF RunStep
    <2>3. QED BY <1>4, <2>1, <2>2 DEF Explore
<1>5. CASE Report
    BY <1>5 DEF Report, Exit, RunStep
<1>6. CASE Done \/ UNCHANGED vars
    BY <1>6 DEF Done
<1>7. QED BY <1>1, <1>2, <1>3, <1>4, <1>5, <1>6 DEF Next

\* What is read from the constraint files depends on the jobs alone.
LEMMA ReadsAreStable ==
    ASSUME UNCHANGED <<input, config, leftover>>, problem'.jobs = problem.jobs
    PROVE  /\ CanOpen(JobsFile)' = CanOpen(JobsFile)
           /\ PrecedenceRead' = PrecedenceRead /\ MutexRead' = MutexRead
           /\ Indexed(PrecedenceRead.rows)' = Indexed(PrecedenceRead.rows)
           /\ Indexed(MutexRead.rows)' = Indexed(MutexRead.rows)
<1>1. JobsFile' = JobsFile
    BY DEF JobsFile
<1>2. CanOpen(JobsFile)' = CanOpen(JobsFile)
    BY <1>1 DEF CanOpen
<1>3. JobIds(problem.jobs)' = JobIds(problem.jobs) /\ LookupTable(problem.jobs)' = LookupTable(problem.jobs)
    BY DEF JobIds, LookupTable
<1>4. PrecedenceRead' = PrecedenceRead
    BY <1>1, <1>3 DEF PrecedenceRead, CanOpen
<1>5. MutexRead' = MutexRead
    BY <1>3 DEF MutexRead
<1>6. Indexed(PrecedenceRead.rows)' = Indexed(PrecedenceRead.rows)
    BY <1>3, <1>4 DEF Indexed
<1>7. Indexed(MutexRead.rows)' = Indexed(MutexRead.rows)
    BY <1>3, <1>5 DEF Indexed
<1>8. QED BY <1>2, <1>4, <1>5, <1>6, <1>7

\* An error that was raised stays one while the jobs stay what they are.
LEMMA RaisedIsStable ==
    ASSUME UNCHANGED <<input, config, leftover, problem>>
    PROVE  Raised' = Raised /\ PostInitError' = PostInitError
<1>1. PrecedenceRead' = PrecedenceRead /\ MutexRead' = MutexRead
    BY ReadsAreStable
<1>2. JobErrors' = JobErrors
    BY DEF JobErrors, JobsFile, CanOpen
<1>3. EdgeErrors' = EdgeErrors
    BY <1>1 DEF EdgeErrors, JobsFile, CanOpen
<1>4. MutexErrors' = MutexErrors
    BY <1>1 DEF MutexErrors, CanOpen
<1>5. AbortErrors' = AbortErrors
    BY DEF AbortErrors, AbortsRead, CanOpen
<1>6. PostInitError' = PostInitError
    BY DEF PostInitError, ParallelismFits, FirstAbortError, AbortError, ExclusionConstrains
<1>7. QED BY <1>2, <1>3, <1>4, <1>5, <1>6 DEF Raised

\* The checks depend on the problem alone.
LEMMA ChecksAreStable ==
    ASSUME problem'.jobs = problem.jobs, problem'.platform = problem.platform,
           problem'.aborts = problem.aborts, problem'.mutexes = problem.mutexes
    PROVE  PostInitError' = PostInitError
BY DEF PostInitError, ParallelismFits, FirstAbortError, AbortError, ExclusionConstrains

\* The exit code of a refused file is the one of its error.
LEMMA RefusalCode ==
    ASSUME NEW err, Refuse(err)
    PROVE  /\ pc' = "done" /\ UNCHANGED problem
           /\ exit_code' = 4 => err = "abort"
           /\ exit_code' = 3 => err = "reference"
<1>1. PICK code \in ExitCodes(err) : Exit(code)
    BY DEF Refuse
<1>2. pc' = "done" /\ UNCHANGED problem /\ exit_code' = code
    BY <1>1 DEF Refuse, Exit
<1>3. CASE err = "reference"
    BY <1>1, <1>2, <1>3 DEF ExitCodes
<1>4. CASE err = "abort"
    BY <1>1, <1>2, <1>4 DEF ExitCodes
<1>5. CASE err \notin {"reference", "abort"}
    <2>1. code \in {1, Crashed}
        BY <1>1, <1>5 DEF ExitCodes
    <2>2. QED BY <1>2, <2>1 DEF Crashed
<1>6. QED BY <1>3, <1>4, <1>5

\* An error that ends the reading is one that a reader or the constructor raises.
LEMMA RefusalIsRaised ==
    ASSUME AcceptInv, NEW err, Refuse(err), UNCHANGED <<input, config, leftover>>,
           err \in {"abort", "reference"} => err \in Raised \cup {PostInitError}
    PROVE  AcceptInv'
<1>1. /\ pc' = "done" /\ UNCHANGED problem
      /\ exit_code' = 4 => err = "abort"
      /\ exit_code' = 3 => err = "reference"
    BY RefusalCode
<1>2. Raised' = Raised /\ PostInitError' = PostInitError
    BY <1>1, RaisedIsStable
<1>3. CodesAreRaised'
    BY <1>1, <1>2 DEF CodesAreRaised
<1>4. ProblemIsRead'
    BY <1>1 DEF AcceptInv, ProblemIsRead, ConstraintSteps, CheckedSteps
<1>5. QED BY <1>3, <1>4 DEF AcceptInv

\* The problem stays as it is in a step that reads nothing.
LEMMA NothingRead ==
    ASSUME AcceptInv, UNCHANGED <<input, config, leftover, problem>>, pc' # "done", UNCHANGED exit_code, pc # "done",
           pc' = "precedence" => pc = "precedence",
           pc' = "mutexes" => pc = "mutexes",
           pc' \in ConstraintSteps => pc \in ConstraintSteps,
           pc' \in CheckedSteps => pc \in CheckedSteps \/ PostInitError = ""
    PROVE  AcceptInv'
<1>1. Raised' = Raised /\ PostInitError' = PostInitError
    BY RaisedIsStable
<1>2. CodesAreRaised'
    BY <1>1 DEF CodesAreRaised, AcceptInv
<1>3. /\ CanOpen(JobsFile)' = CanOpen(JobsFile)
      /\ PrecedenceRead' = PrecedenceRead /\ MutexRead' = MutexRead
      /\ Indexed(PrecedenceRead.rows)' = Indexed(PrecedenceRead.rows)
      /\ Indexed(MutexRead.rows)' = Indexed(MutexRead.rows)
    BY ReadsAreStable
<1>4. ProblemIsRead'
    BY <1>1, <1>3 DEF AcceptInv, ProblemIsRead
<1>5. QED BY <1>2, <1>4 DEF AcceptInv

\* The job file is read.
LEMMA JobsStep ==
    ASSUME AcceptInv, ParseJobs
    PROVE  AcceptInv'
<1>1. pc = "jobs" /\ UNCHANGED <<input, config, leftover>> /\ exit_code = Running
    BY DEF ParseJobs, args_vars, AcceptInv, CodesAreRaised
<1>2. CASE ~CanOpen(JobsFile)
    <2>1. Refuse("file")
        BY <1>2 DEF ParseJobs
    <2>2. QED BY <1>1, <2>1, RefusalIsRaised
<1>3. CASE /\ CanOpen(JobsFile) /\ pc' = "precedence" /\ UNCHANGED exit_code
           /\ \E jobs : problem' = [EmptyProblem EXCEPT !.jobs = jobs]
    <2>1. DOMAIN problem' = ProblemFields /\ problem'.mutexes = <<>>
        BY <1>3 DEF EmptyProblem, ProblemFields
    <2>2. CanOpen(JobsFile)'
        BY <1>1, <1>3 DEF CanOpen, JobsFile
    <2>3. QED BY <1>1, <1>3, <2>1, <2>2
            DEF AcceptInv, ProblemIsRead, CodesAreRaised, ConstraintSteps, CheckedSteps, Running
<1>4. CASE CanOpen(JobsFile) /\ ~IsYaml(JobsFile) /\ Refuse(ParseCsvJobFile(input.files[JobsFile]).err)
    BY <1>1, <1>4, RefusalIsRaised DEF Raised, JobErrors
<1>5. QED
    <2>1. CASE CanOpen(JobsFile) /\ IsYaml(JobsFile)
        BY <1>3, <2>1 DEF ParseJobs, Next_pc
    <2>2. CASE CanOpen(JobsFile) /\ ~IsYaml(JobsFile)
        <3> DEFINE read == ParseCsvJobFile(input.files[JobsFile])
        <3>1. Refuse(read.err) \/ (problem' = [EmptyProblem EXCEPT !.jobs = read.rows] /\ Next_pc("precedence"))
            BY <2>2 DEF ParseJobs
        <3> HIDE DEF read
        <3>2. CASE problem' = [EmptyProblem EXCEPT !.jobs = read.rows] /\ Next_pc("precedence")
            BY <1>3, <2>2, <3>2 DEF Next_pc
        <3>3. CASE Refuse(read.err)
            BY <1>4, <2>2, <3>3 DEF read
        <3>4. QED BY <3>1, <3>2, <3>3
    <2>3. QED BY <1>2, <2>1, <2>2

\* The precedence constraints are read.
LEMMA GraphStep ==
    ASSUME AcceptInv, BuildGraph
    PROVE  AcceptInv'
<1>1. pc = "precedence" /\ UNCHANGED <<input, config, leftover>> /\ exit_code = Running
    BY DEF BuildGraph, args_vars, AcceptInv, CodesAreRaised
<1>2. DOMAIN problem = ProblemFields /\ problem.mutexes = <<>> /\ CanOpen(JobsFile)
    BY <1>1 DEF AcceptInv, ProblemIsRead
<1>3. CASE PrecedenceRead.err # "" /\ Refuse(PrecedenceRead.err)
    BY <1>1, <1>2, <1>3, RefusalIsRaised DEF Raised, EdgeErrors
<1>4. CASE PrecedenceRead.err = ""
    <2> DEFINE edges0 == Indexed(PrecedenceRead.rows)
               ranks0 == GetJobsRanks(Len(problem.jobs), edges0)
    <2>1. problem' = [problem EXCEPT !.prec = edges0, !.ranks = ranks0] /\ pc' = "mutexes" /\ UNCHANGED exit_code
        BY <1>4 DEF BuildGraph, Next_pc
    <2> HIDE DEF edges0, ranks0
    <2>2. /\ DOMAIN problem' = ProblemFields /\ problem'.prec = edges0
          /\ problem'.jobs = problem.jobs /\ problem'.mutexes = problem.mutexes
        BY <1>2, <2>1 DEF ProblemFields
    <2>3. PrecedenceRead' = PrecedenceRead /\ Indexed(PrecedenceRead.rows)' = edges0
        BY <1>1, <2>2, ReadsAreStable DEF edges0
    <2>4. ProblemIsRead'
        BY <1>2, <1>4, <2>1, <2>2, <2>3 DEF ProblemIsRead, ConstraintSteps, CheckedSteps
    <2>5. CodesAreRaised'
        BY <1>1, <2>1 DEF CodesAreRaised, Running
    <2>6. QED BY <2>4, <2>5 DEF AcceptInv
<1>5. QED BY <1>3, <1>4 DEF BuildGraph

\* The exclusion constraints are read.
LEMMA MutexesStep ==
    ASSUME AcceptInv, ParseMutexes
    PROVE  AcceptInv'
<1>1. pc = "mutexes" /\ UNCHANGED <<input, config, leftover>> /\ exit_code = Running
    BY DEF ParseMutexes, args_vars, AcceptInv, CodesAreRaised
<1>2. /\ DOMAIN problem = ProblemFields
      /\ PrecedenceRead.err = "" /\ problem.prec = Indexed(PrecedenceRead.rows)
    BY <1>1 DEF AcceptInv, ProblemIsRead, ConstraintSteps
<1>3. CASE pc' = "platform" /\ UNCHANGED <<exit_code, problem>>
    BY <1>1, <1>3, NothingRead DEF ConstraintSteps, CheckedSteps
<1>4. CASE Refuse("file")
    BY <1>1, <1>4, RefusalIsRaised
<1>5. CASE config.want_mutexes /\ CanOpen(config.excl_file) /\ ~IsYaml(config.excl_file)
    <2>1. CASE Refuse(MutexRead.err)
        BY <1>1, <1>5, <2>1, RefusalIsRaised DEF Raised, MutexErrors
    <2>2. CASE MutexRead.err = "" /\ problem' = [problem EXCEPT !.mutexes = Indexed(MutexRead.rows)] /\ Next_pc("platform")
        <3>1. /\ DOMAIN problem' = ProblemFields /\ problem'.prec = problem.prec
              /\ problem'.jobs = problem.jobs /\ problem'.mutexes = Indexed(MutexRead.rows)
              /\ pc' = "platform" /\ UNCHANGED exit_code
            BY <1>2, <2>2 DEF ProblemFields, Next_pc
        <3>2. /\ PrecedenceRead' = PrecedenceRead /\ MutexRead' = MutexRead
              /\ Indexed(PrecedenceRead.rows)' = Indexed(PrecedenceRead.rows)
              /\ Indexed(MutexRead.rows)' = Indexed(MutexRead.rows)
            BY <1>1, <3>1, ReadsAreStable
        <3>3. ProblemIsRead'
            BY <1>2, <2>2, <3>1, <3>2 DEF ProblemIsRead, ConstraintSteps, CheckedSteps
        <3>4. CodesAreRaised'
            BY <1>1, <3>1 DEF CodesAreRaised, Running
        <3>5. QED BY <3>3, <3>4 DEF AcceptInv
    <2>3. QED BY <1>5, <2>1, <2>2 DEF ParseMutexes, MutexRead
<1>6. QED BY <1>3, <1>4, <1>5 DEF ParseMutexes, Next_pc

\* A part that is neither the jobs nor a constraint is read.
LEMMA PartRead ==
    ASSUME AcceptInv, UNCHANGED <<input, config, leftover, exit_code>>, pc \in {"platform", "aborts", "extensions"},
           pc' \in ConstraintSteps, pc' # "mutexes", pc' \in CheckedSteps => pc = "extensions",
           DOMAIN problem' = DOMAIN problem,
           problem'.jobs = problem.jobs, problem'.prec = problem.prec, problem'.mutexes = problem.mutexes,
           pc = "extensions" => problem'.platform = problem.platform /\ problem'.aborts = problem.aborts
    PROVE  AcceptInv'
<1>1. /\ DOMAIN problem = ProblemFields
      /\ PrecedenceRead.err = "" /\ problem.prec = Indexed(PrecedenceRead.rows)
      /\ problem.mutexes = <<>> \/ (MutexRead.err = "" /\ problem.mutexes = Indexed(MutexRead.rows))
    BY DEF AcceptInv, ProblemIsRead, ConstraintSteps
<1>2. /\ PrecedenceRead' = PrecedenceRead /\ MutexRead' = MutexRead
      /\ Indexed(PrecedenceRead.rows)' = Indexed(PrecedenceRead.rows)
      /\ Indexed(MutexRead.rows)' = Indexed(MutexRead.rows)
    BY ReadsAreStable
<1>3. pc' \in CheckedSteps => PostInitError' = ""
    <2>1. SUFFICES ASSUME pc = "extensions" PROVE PostInitError' = ""
        OBVIOUS
    <2>2. PostInitError = ""
        BY <2>1 DEF AcceptInv, ProblemIsRead, CheckedSteps
    <2>3. QED BY <2>1, <2>2, ChecksAreStable
<1>4. exit_code = Running
    BY DEF AcceptInv, CodesAreRaised
<1>5. ProblemIsRead'
    BY <1>1, <1>2, <1>3 DEF ProblemIsRead, ConstraintSteps
<1>6. QED BY <1>4, <1>5 DEF AcceptInv, CodesAreRaised, Running

\* The platform is read.
LEMMA PlatformStep ==
    ASSUME AcceptInv, ParsePlatform
    PROVE  AcceptInv'
<1>1. pc = "platform" /\ UNCHANGED <<input, config, leftover>> /\ DOMAIN problem = ProblemFields
    BY DEF ParsePlatform, args_vars, AcceptInv, ProblemIsRead
<1>2. CASE Refuse("file")
    BY <1>1, <1>2, RefusalIsRaised
<1>3. CASE pc' = "aborts" /\ UNCHANGED exit_code /\ \E cores : problem' = [problem EXCEPT !.platform = cores]
    <2>1. PICK cores : problem' = [problem EXCEPT !.platform = cores]
        BY <1>3
    <2>2. /\ DOMAIN problem' = DOMAIN problem
          /\ problem'.jobs = problem.jobs /\ problem'.prec = problem.prec /\ problem'.mutexes = problem.mutexes
        BY <1>1, <2>1 DEF ProblemFields
    <2>3. QED BY <1>1, <1>3, <2>2, PartRead DEF ConstraintSteps, CheckedSteps
<1>4. QED
    <2>1. CASE config.platform_defined /\ ~CanOpen(config.platform_file)
        BY <1>2, <2>1 DEF ParsePlatform
    <2>2. CASE config.platform_defined /\ CanOpen(config.platform_file)
        BY <1>3, <2>2 DEF ParsePlatform, Next_pc
    <2>3. CASE ~config.platform_defined
        BY <1>3, <2>3 DEF ParsePlatform, Next_pc
    <2>4. QED BY <2>1, <2>2, <2>3

\* The abort actions are read.
LEMMA AbortsStep ==
    ASSUME AcceptInv, ParseAborts
    PROVE  AcceptInv'
<1>1. pc = "aborts" /\ UNCHANGED <<input, config, leftover>> /\ DOMAIN problem = ProblemFields
    BY DEF ParseAborts, args_vars, AcceptInv, ProblemIsRead
<1>2. CASE pc' = "problem" /\ UNCHANGED <<exit_code, problem>>
    BY <1>1, <1>2, NothingRead DEF ConstraintSteps, CheckedSteps
<1>3. CASE Refuse("file")
    BY <1>1, <1>3, RefusalIsRaised
<1>4. CASE config.want_aborts /\ CanOpen(config.aborts_file) /\ ~IsYaml(config.aborts_file)
    <2>1. CASE Refuse(AbortsRead.err)
        BY <1>1, <1>4, <2>1, RefusalIsRaised DEF Raised, AbortErrors
    <2>2. CASE problem' = [problem EXCEPT !.aborts = AbortsRead.rows] /\ Next_pc("problem")
        <3>1. /\ DOMAIN problem' = DOMAIN problem
              /\ problem'.jobs = problem.jobs /\ problem'.prec = problem.prec /\ problem'.mutexes = problem.mutexes
            BY <1>1, <2>2 DEF ProblemFields
        <3>2. QED BY <1>1, <2>2, <3>1, PartRead DEF Next_pc, ConstraintSteps, CheckedSteps
    <2>3. QED BY <1>4, <2>1, <2>2 DEF ParseAborts, AbortsRead
<1>5. QED BY <1>2, <1>3, <1>4 DEF ParseAborts, Next_pc

\* The problem is checked, as its constructor does.
LEMMA CheckStep ==
    ASSUME AcceptInv, MakeProblem
    PROVE  AcceptInv'
<1>1. pc = "problem" /\ UNCHANGED <<input, config, leftover>>
    BY DEF MakeProblem, args_vars
<1>2. CASE Refuse(PostInitError)
    BY <1>1, <1>2, RefusalIsRaised
<1>3. CASE PostInitError = "" /\ pc' = "extensions" /\ UNCHANGED <<exit_code, problem>>
    BY <1>1, <1>3, NothingRead DEF ConstraintSteps, CheckedSteps
<1>4. QED BY <1>2, <1>3 DEF MakeProblem, Next_pc

\* The extensions are registered.
LEMMA ExtensionsStep ==
    ASSUME AcceptInv, RegisterExtensions
    PROVE  AcceptInv'
<1>1. pc = "extensions" /\ UNCHANGED <<input, config, leftover>> /\ DOMAIN problem = ProblemFields
    BY DEF RegisterExtensions, args_vars, AcceptInv, ProblemIsRead
<1>2. CASE pc' \in {"extensions", "analysis"} /\ UNCHANGED <<exit_code, problem>>
    BY <1>1, <1>2, NothingRead DEF ConstraintSteps, CheckedSteps
<1>3. CASE Refuse("file")
    BY <1>1, <1>3, RefusalIsRaised
<1>4. CASE pc' = "analysis" /\ UNCHANGED exit_code /\ \E table : problem' = [problem EXCEPT !.mk = table]
    <2>1. PICK table : problem' = [problem EXCEPT !.mk = table]
        BY <1>4
    <2>2. /\ DOMAIN problem' = DOMAIN problem
          /\ problem'.jobs = problem.jobs /\ problem'.prec = problem.prec /\ problem'.mutexes = problem.mutexes
          /\ problem'.platform = problem.platform /\ problem'.aborts = problem.aborts
        BY <1>1, <2>1 DEF ProblemFields
    <2>3. QED BY <1>1, <1>4, <2>2, PartRead DEF ConstraintSteps, CheckedSteps
<1>5. QED BY <1>1, <1>2, <1>3, <1>4 DEF RegisterExtensions, Next_pc

LEMMA AcceptInvHolds == Spec => []AcceptInv
<1>1. Init => AcceptInv
    BY DEF Init, CommandLineInit, AcceptInv, ProblemIsRead, CodesAreRaised, EmptyProblem, ProblemFields,
           ConstraintSteps, CheckedSteps, Running
<1>2. AcceptInv /\ [Next]_vars => AcceptInv'
    <2>1. SUFFICES ASSUME AcceptInv, [Next]_vars PROVE AcceptInv'
        OBVIOUS
    <2>2. CASE UNCHANGED vars
        <3>1. UNCHANGED <<input, config, leftover, problem, pc, exit_code>>
            BY <2>2 DEF vars, args_vars
        <3>2. QED BY <2>1, <3>1, RaisedIsStable, ReadsAreStable DEF AcceptInv, ProblemIsRead, CodesAreRaised
    <2>3. CASE ArgStep
        <3>1. exit_code = Running /\ exit_code' \notin {3, 4} /\ (pc' # "done" => exit_code' = Running)
            BY <2>1, <2>3 DEF ArgStep, AcceptInv, CodesAreRaised, Running
        <3>2. QED BY <2>1, <2>3, <3>1
                DEF ArgStep, AcceptInv, ProblemIsRead, CodesAreRaised, ConstraintSteps, CheckedSteps
    <2>4. CASE Build
        BY <2>1, <2>4, JobsStep, GraphStep, MutexesStep, PlatformStep, AbortsStep, CheckStep, ExtensionsStep
           DEF Build, BuildProblem
    <2>5. CASE RunStep
        <3>1. UNCHANGED <<input, config, leftover, problem>>
            BY <2>5 DEF RunStep, built, args_vars
        <3>2. CASE pc' # "done"
            BY <2>1, <2>5, <3>1, <3>2, NothingRead DEF RunStep, ConstraintSteps, CheckedSteps
        <3>3. CASE pc' = "done"
            <4>1. exit_code' \notin {3, 4}
                BY <2>1, <2>5 DEF RunStep, AcceptInv, CodesAreRaised, Running
            <4>2. QED BY <2>1, <3>1, <3>3, <4>1
                    DEF AcceptInv, ProblemIsRead, CodesAreRaised, ConstraintSteps, CheckedSteps
        <3>4. QED BY <3>2, <3>3
    <2>6. QED BY <2>1, <2>2, <2>3, <2>4, <2>5, StageSteps
<1>3. QED BY <1>1, <1>2, PTL DEF Spec

-----------------------------------------------------------------------------
\* The rows of an accepted file of constraints name known jobs and have ordered
\* delays: each row is checked as it is read.
KnownRows(rows) ==
    \A i \in DOMAIN rows :
        /\ DOMAIN rows[i] = {"from", "to", "delay", "type"}
        /\ {rows[i].from, rows[i].to} \subseteq JobIds(problem.jobs)
        /\ rows[i].delay.min <= rows[i].delay.max

AbortsAreListed == problem.aborts \in Seq(ToSet(problem.aborts))
CostsAreRead == \A j \in Jobs : DOMAIN problem.jobs[j].cost \in (SUBSET Nat) \ {{}}

\* What the readers promise of a single row: a constraint is between jobs that are
\* known, a job has costs for some number of cores, times are numbers.
RowsAreRead ==
    /\ PrecedenceRead.err = "" => KnownRows(PrecedenceRead.rows)
    /\ problem.mutexes # <<>> => KnownRows(MutexRead.rows)
    /\ AbortsAreListed /\ CostsAreRead
    /\ \A a \in ToSet(problem.aborts) : a.trigger.min \in Int /\ a.trigger.max \in Int
    /\ \A j \in Jobs : problem.jobs[j].arrival.min \in Int /\ problem.jobs[j].arrival.max \in Int

\* A constraint that a reader accepts names jobs that were read.
LEMMA IndexedIsConsistent ==
    ASSUME JobsAreListed, NEW rows, KnownRows(rows), NEW c \in ToSet(Indexed(rows))
    PROVE  {c.from, c.to} \subseteq Jobs /\ c.delay.min <= c.delay.max
<1>1. PICK i \in DOMAIN rows : c = Indexed(rows)[i]
    BY DEF ToSet, Indexed
<1>2. DOMAIN rows[i] = {"from", "to", "delay", "type"}
    BY <1>1 DEF KnownRows
<1>3. c = [rows[i] EXCEPT !.from = LookupTable(problem.jobs)[@], !.to = LookupTable(problem.jobs)[@]]
    BY <1>1 DEF Indexed
<1>4. /\ c.from = LookupTable(problem.jobs)[rows[i].from]
      /\ c.to = LookupTable(problem.jobs)[rows[i].to] /\ c.delay = rows[i].delay
    BY <1>2, <1>3
<1>5. rows[i].from \in JobIds(problem.jobs) /\ rows[i].to \in JobIds(problem.jobs)
      /\ rows[i].delay.min <= rows[i].delay.max
    BY <1>1 DEF KnownRows
<1>6. QED BY <1>4, <1>5, FoundIsJob

\* The positions of a list are numbers.
LEMMA ListDomain == ASSUME NEW S, NEW s \in Seq(S) PROVE DOMAIN s \in SUBSET Nat
<1>1. DOMAIN s = 1..Len(s) /\ Len(s) \in Nat
    OBVIOUS
<1>2. QED BY <1>1

\* The first error of the abort actions is the error of one of them.
LEMMA FirstErrorIsError ==
    ASSUME AbortsAreListed, NEW i \in DOMAIN problem.aborts, AbortError(problem.aborts[i]) # ""
    PROVE  \E k \in DOMAIN problem.aborts :
                FirstAbortError = AbortError(problem.aborts[k]) /\ AbortError(problem.aborts[k]) # ""
<1> DEFINE wrong == {k \in DOMAIN problem.aborts : AbortError(problem.aborts[k]) # ""}
<1>1. wrong \in SUBSET Nat /\ wrong # {}
    <2>1. DOMAIN problem.aborts \in SUBSET Nat
        BY ListDomain DEF AbortsAreListed
    <2>2. QED BY <2>1
<1>2. FirstAbortError = AbortError(problem.aborts[Min(wrong)])
    BY <1>1 DEF FirstAbortError
<1>3. Min(wrong) \in wrong
    <2> HIDE DEF wrong
    <2>1. QED BY <1>1, LeastNatural
<1>4. QED BY <1>2, <1>3

\* A problem that passes the checks of its constructor is consistent.
LEMMA CheckedIsConsistent ==
    ASSUME JobsAreListed, AbortsAreListed, CostsAreRead, PostInitError = ""
    PROVE  /\ \A j \in Jobs : \E level \in DOMAIN problem.jobs[j].cost : level <= Len(problem.platform)
           /\ \A a \in ToSet(problem.aborts) : \E j \in Jobs :
                /\ Id(problem.jobs[j]) = a.id
                /\ ~(a.trigger.min < problem.jobs[j].arrival.min)
                /\ ~(a.trigger.max < problem.jobs[j].arrival.max)
           /\ \A m \in ToSet(problem.mutexes) : m.type = "s" => m.delay.max > 0
<1>1. /\ \A i \in DOMAIN problem.jobs : ParallelismFits(problem.jobs[i])
      /\ FirstAbortError = ""
      /\ \A i \in DOMAIN problem.mutexes : ExclusionConstrains(problem.mutexes[i])
    BY DEF PostInitError
<1>2. ASSUME NEW j \in Jobs PROVE \E level \in DOMAIN problem.jobs[j].cost : level <= Len(problem.platform)
    <2>1. DOMAIN problem.jobs[j].cost \in SUBSET Nat /\ DOMAIN problem.jobs[j].cost # {}
        BY DEF CostsAreRead
    <2>2. Min(DOMAIN problem.jobs[j].cost) \in DOMAIN problem.jobs[j].cost
        BY <2>1, LeastNatural
    <2>3. QED BY <1>1, <2>2 DEF ParallelismFits, Jobs
<1>3. ASSUME NEW a \in ToSet(problem.aborts)
      PROVE  \E j \in Jobs :
                /\ Id(problem.jobs[j]) = a.id
                /\ ~(a.trigger.min < problem.jobs[j].arrival.min)
                /\ ~(a.trigger.max < problem.jobs[j].arrival.max)
    <2>1. PICK i \in DOMAIN problem.aborts : a = problem.aborts[i]
        BY DEF ToSet
    <2>2. AbortError(a) = ""
        BY <1>1, <2>1, FirstErrorIsError
    <2>3. a.id \in JobIds(problem.jobs)
        BY <2>2 DEF AbortError
    <2> DEFINE j == LookupFirst(problem.jobs, a.id)
    <2>4. ~(a.trigger.min < problem.jobs[j].arrival.min) /\ ~(a.trigger.max < problem.jobs[j].arrival.max)
        BY <2>2, <2>3 DEF AbortError
    <2>5. j \in Jobs /\ Id(problem.jobs[j]) = a.id
        BY <2>3, FoundIsJob
    <2>6. QED BY <2>4, <2>5
<1>4. ASSUME NEW m \in ToSet(problem.mutexes), m.type = "s" PROVE m.delay.max > 0
    BY <1>1, <1>4 DEF ToSet, ExclusionConstrains
<1>5. QED BY <1>2, <1>3, <1>4

\* A problem that reaches the analysis is consistent across its files, provided
\* that each row is: the indices of its constraints are those of jobs
\* (build_problem), and every check of the constructor of the problem
\* (problem.hpp) holds to the end.
THEOREM AcceptedHolds == Spec => [](JobsAreListed /\ RowsAreRead => AcceptedIsConsistent)
<1>1. AcceptInv => (JobsAreListed /\ RowsAreRead => AcceptedIsConsistent)
    <2>1. SUFFICES ASSUME AcceptInv, JobsAreListed, RowsAreRead, Built PROVE AcceptedIsConsistent
        BY DEF AcceptedIsConsistent
    <2>2. /\ PrecedenceRead.err = "" /\ problem.prec = Indexed(PrecedenceRead.rows) /\ PostInitError = ""
          /\ problem.mutexes = <<>> \/ problem.mutexes = Indexed(MutexRead.rows)
        BY <2>1 DEF AcceptInv, ProblemIsRead, Built, ConstraintSteps, CheckedSteps
    <2>3. ASSUME NEW c \in ToSet(problem.prec) \cup ToSet(problem.mutexes)
          PROVE  {c.from, c.to} \subseteq Jobs /\ c.delay.min <= c.delay.max
        <3>1. CASE c \in ToSet(problem.prec)
            BY <2>1, <2>2, <3>1, IndexedIsConsistent DEF RowsAreRead
        <3>2. CASE c \in ToSet(problem.mutexes)
            <4>1. problem.mutexes # <<>>
                BY <3>2 DEF ToSet
            <4>2. problem.mutexes = Indexed(MutexRead.rows) /\ KnownRows(MutexRead.rows)
                BY <2>1, <2>2, <4>1 DEF RowsAreRead
            <4>3. QED BY <2>1, <3>2, <4>2, IndexedIsConsistent
        <3>3. QED BY <2>3, <3>1, <3>2
    <2>4. /\ \A j \in Jobs : \E level \in DOMAIN problem.jobs[j].cost : level <= Len(problem.platform)
          /\ \A a \in ToSet(problem.aborts) : \E j \in Jobs :
                /\ Id(problem.jobs[j]) = a.id
                /\ ~(a.trigger.min < problem.jobs[j].arrival.min)
                /\ ~(a.trigger.max < problem.jobs[j].arrival.max)
          /\ \A m \in ToSet(problem.mutexes) : m.type = "s" => m.delay.max > 0
        BY <2>1, <2>2, CheckedIsConsistent DEF RowsAreRead
    <2>5. ASSUME NEW a \in ToSet(problem.aborts)
          PROVE  \E j \in Jobs :
                    /\ Id(problem.jobs[j]) = a.id
                    /\ problem.jobs[j].arrival.min <= a.trigger.min
                    /\ problem.jobs[j].arrival.max <= a.trigger.max
        <3>1. PICK j \in Jobs :
                    /\ Id(problem.jobs[j]) = a.id
                    /\ ~(a.trigger.min < problem.jobs[j].arrival.min)
                    /\ ~(a.trigger.max < problem.jobs[j].arrival.max)
            BY <2>4
        <3>2. /\ a.trigger.min \in Int /\ a.trigger.max \in Int
              /\ problem.jobs[j].arrival.min \in Int /\ problem.jobs[j].arrival.max \in Int
            BY <2>1 DEF RowsAreRead
        <3>3. problem.jobs[j].arrival.min <= a.trigger.min /\ problem.jobs[j].arrival.max <= a.trigger.max
            BY <3>1, <3>2
        <3>4. QED BY <3>1, <3>3
    <2>6. QED BY <2>3, <2>4, <2>5 DEF AcceptedIsConsistent
<1>2. QED BY <1>1, AcceptInvHolds, PTL

\* The readers never raise the error of an abort action, and that of a reference
\* only when a file refers to a task or a job that no job read has.
ErrorsAreNamed == "abort" \notin Raised /\ ("reference" \in Raised => input.dangling)

\* The exit codes 3 and 4 mean what the messages of main say (nptest.cpp): with 3 a
\* file names a job that was not read, with 4 the trigger of an abort action
\* begins or ends before the arrival of its job does.
THEOREM ExitsHold == Spec => [](JobsAreListed /\ AbortsAreListed /\ ErrorsAreNamed => ExitCodeExplained)
<1>1. AcceptInv => (JobsAreListed /\ AbortsAreListed /\ ErrorsAreNamed => ExitCodeExplained)
    <2>1. SUFFICES ASSUME AcceptInv, JobsAreListed, AbortsAreListed, ErrorsAreNamed PROVE ExitCodeExplained
        OBVIOUS
    <2>2. ASSUME NEW err \in {"abort", "reference"}, PostInitError = err
          PROVE  \E a \in ToSet(problem.aborts) : AbortError(a) = err
        <3>1. FirstAbortError = err
            BY <2>2 DEF PostInitError
        <3>2. \E i \in DOMAIN problem.aborts : AbortError(problem.aborts[i]) # ""
            BY <2>2, <3>1 DEF FirstAbortError
        <3>3. PICK k \in DOMAIN problem.aborts : FirstAbortError = AbortError(problem.aborts[k])
            BY <2>1, <3>2, FirstErrorIsError
        <3>4. QED BY <3>1, <3>3 DEF ToSet
    <2>3. ASSUME exit_code = 4
          PROVE  \E a \in ToSet(problem.aborts) : \E j \in Jobs :
                    /\ Id(problem.jobs[j]) = a.id
                    /\ a.trigger.min < problem.jobs[j].arrival.min \/ a.trigger.max < problem.jobs[j].arrival.max
        <3>1. PostInitError = "abort"
            BY <2>1, <2>3 DEF AcceptInv, CodesAreRaised, ErrorsAreNamed
        <3>2. PICK a \in ToSet(problem.aborts) : AbortError(a) = "abort"
            BY <2>2, <3>1
        <3> DEFINE j == LookupFirst(problem.jobs, a.id)
        <3>3. /\ a.id \in JobIds(problem.jobs)
              /\ a.trigger.min < problem.jobs[j].arrival.min \/ a.trigger.max < problem.jobs[j].arrival.max
            BY <3>2 DEF AbortError
        <3>4. j \in Jobs /\ Id(problem.jobs[j]) = a.id
            BY <2>1, <3>3, FoundIsJob
        <3>5. QED BY <3>3, <3>4
    <2>4. ASSUME exit_code = 3
          PROVE  (\E a \in ToSet(problem.aborts) : a.id \notin JobIds(problem.jobs)) \/ input.dangling
        <3>1. PostInitError = "reference" \/ input.dangling
            BY <2>1, <2>4 DEF AcceptInv, CodesAreRaised, ErrorsAreNamed
        <3>2. CASE PostInitError = "reference"
            <4>1. PICK a \in ToSet(problem.aborts) : AbortError(a) = "reference"
                BY <2>2, <3>2
            <4>2. a.id \notin JobIds(problem.jobs)
                BY <4>1 DEF AbortError
            <4>3. QED BY <4>2
        <3>3. QED BY <3>1, <3>2
    <2>5. QED BY <2>3, <2>4 DEF ExitCodeExplained
<1>2. QED BY <1>1, AcceptInvHolds, PTL
=============================================================================
