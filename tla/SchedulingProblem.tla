------------------------- MODULE SchedulingProblem --------------------------
(***************************************************************************)
(* A scheduling problem and what the analysis derives from it once and for *)
(* all: the priority order, the constraints that relate each job to other  *)
(* jobs (Inter_job_constraints), the conditional siblings and the jobs     *)
(* that dispatching a job discards (Conditional_dispatch_constraints), and *)
(* the classes of jobs (State_space_data).                                 *)
(*                                                                         *)
(* problem is the problem under analysis, a record with the fields         *)
(*   job       sequence of [arr, cost, deadline, prio, type], where cost   *)
(*             maps each level of parallelism to an execution time         *)
(*   prec      set of [from, to, type, delay], type "start" or "finish"    *)
(*   excl      set of [a, b, type, delay], type "start" or "finish"        *)
(*   abort     maps some jobs to [trigger, cleanup]                        *)
(*   platform  sequence of the initial availability of each core           *)
(*   options   the analysis options                                        *)
(***************************************************************************)
EXTENDS CoreTracker, FiniteSets, SequencesExt

CONSTANTS
    Problems,   \* the problems to analyse
    Infinity    \* the largest value of the time type

Types == {"start", "finish"}

\* A job has an execution time for some numbers of cores, at most those that
\* there are.
IsJob(job, cores) ==
    /\ job.arr \in Intervals(Nat) /\ job.deadline \in Nat /\ job.prio \in Int
    /\ DOMAIN job.cost \in (SUBSET (1..cores)) \ {{}}
    /\ \A p \in DOMAIN job.cost : job.cost[p] \in Intervals(Nat)

\* No job follows itself: every set of jobs has one that follows no other.
Acyclic(prec, jobs) ==
    \A js \in (SUBSET jobs) \ {{}} : \E j \in js : \A e \in prec : e.to = j => e.from \notin js

IsProblem(p) ==
    LET jobs == DOMAIN p.job
    IN  /\ jobs = 1..Len(p.job) /\ Len(p.job) \in Nat
        /\ \A j \in jobs : IsJob(p.job[j], Len(p.platform))
        /\ IsFiniteSet(p.prec) /\ Acyclic(p.prec, jobs)
        /\ \A e \in p.prec : e.from \in jobs /\ e.to \in jobs /\ e.type \in Types
                              /\ e.delay \in Intervals(Nat)
        /\ IsFiniteSet(p.excl)
        /\ \A x \in p.excl : x.a \in jobs /\ x.b \in jobs /\ x.type \in Types
                              /\ x.delay \in Intervals(Nat)
        /\ \A j \in DOMAIN p.abort : /\ p.abort[j].trigger \in Intervals(Nat)
                                     /\ p.abort[j].cleanup \in Intervals(Nat)
        /\ p.platform \in Seq(Intervals(Nat)) /\ p.platform # <<>>
        /\ p.options.budget \in Int

ASSUME ProblemsAssumption == Infinity \in Nat /\ \A p \in Problems : IsProblem(p)

VARIABLES
    problem,    \* the problem under analysis
    sp_data     \* what the analysis computes from it before it starts

NumCores == Len(problem.platform)

Jobs == DOMAIN problem.job
Arrival(j) == problem.job[j].arr
Cost(j) == problem.job[j].cost
Deadline(j) == problem.job[j].deadline
IsJoin(j) == problem.job[j].type = "C_JOIN"
IsFork(j) == problem.job[j].type = "C_FORK"

Parallelism(j) == DOMAIN Cost(j)
MinParallelism(j) == Min(Parallelism(j))

\* The scan over the levels of parallelism starts again after one that takes no
\* time at all.
Bcet(j) ==
    LET zero  == {p \in Parallelism(j) : Cost(j)[p].min = 0}
        after == {p \in Parallelism(j) : \A z \in zero : z < p}
    IN  IF after = {} THEN 0 ELSE Min({Cost(j)[p].min : p \in after})
Wcet(j) == Max({Cost(j)[p].max : p \in Parallelism(j)})

\* The order of the jobs (task, rank and job identifiers) breaks priority ties.
HigherPriority(i, j) ==
    \/ problem.job[i].prio < problem.job[j].prio
    \/ problem.job[i].prio = problem.job[j].prio /\ i < j

EarlierArrival(i, j) ==
    \/ Arrival(i).min < Arrival(j).min
    \/ Arrival(i).min = Arrival(j).min /\ i < j

\* The jobs js by priority: before the i-th come i - 1 others.
ByPriority(js) ==
    [i \in 1..Cardinality(js) |->
        CHOOSE j \in js : Cardinality({k \in js : HigherPriority(k, j)}) = i - 1]
-----------------------------------------------------------------------------
(***************************************************************************)
(* Constraints between jobs.  Each is a record: the other job and the      *)
(* bounds on the delay after its start or its finish.                      *)
(***************************************************************************)
BuildPredecessors(type, j) ==
    {[job |-> e.from, delay |-> e.delay] : e \in {x \in problem.prec : x.type = type /\ x.to = j}}

BuildSuccessors(type, j) ==
    {e.to : e \in {x \in problem.prec : x.type = type /\ x.from = j}}

\* An exclusion between two starts without delay constrains nothing.
BuildExclusions(type, j) ==
    LET Binding == {x \in problem.excl : x.type = type /\ (type = "start" => x.delay.max > 0)}
    IN  {[job |-> x.b, delay |-> x.delay] : x \in {y \in Binding : y.a = j}}
            \cup {[job |-> x.a, delay |-> x.delay] : x \in {y \in Binding : y.b = j}}
-----------------------------------------------------------------------------
(***************************************************************************)
(* Conditional branches.  The successors of a fork are alternatives: once  *)
(* one of them is dispatched, the others and what follows them only are    *)
(* discarded.                                                              *)
(* No job follows two forks directly: the code stores one list of siblings *)
(* for each job, that of the fork it meets last.                           *)
(***************************************************************************)
SuccessorsOf(j) == {e.to : e \in {x \in problem.prec : x.from = j}}

\* All that follows j: the least set that has its successors and theirs.
Descendants(j) ==
    LET closed == {S \in SUBSET Jobs : /\ SuccessorsOf(j) \subseteq S
                                      /\ \A k \in S : SuccessorsOf(k) \subseteq S}
    IN  {k \in Jobs : \A S \in closed : k \in S}

BuildSiblings(j) ==
    LET forks == {f \in Jobs : IsFork(f) /\ j \in SuccessorsOf(f)}
    IN  IF forks = {} THEN {j} ELSE SuccessorsOf(Max(forks))

\* The jobs that are not to be dispatched once j is, itself included.
FindIncompatible(j, siblings) ==
    IF siblings = {j} THEN {j}
    ELSE (UNION {Descendants(s) \cup {s} : s \in siblings}) \ Descendants(j)

\* Faulty variant of FindPendingIncompatible: a job without pending successors
\* is forgotten although it excludes others.
FindWithPendingSuccessors(j, siblings) ==
    {k \in FindIncompatible(j, siblings) : SuccessorsOf(k) # {}}

\* Those among them that may still constrain jobs that can be dispatched.
FindPendingIncompatible(j, siblings) ==
    LET Constrains(k) == IF siblings = {j} THEN SuccessorsOf(k) # {}
                         ELSE SuccessorsOf(k) \cap Descendants(j) # {}
        Excludes(k) == \E type \in Types : BuildExclusions(type, k) # {}
    IN  {k \in FindIncompatible(j, siblings) : Excludes(k) \/ Constrains(k)}
-----------------------------------------------------------------------------
(***************************************************************************)
(* What the constructors compute.                                          *)
(***************************************************************************)
SpData ==
    LET siblings == [j \in Jobs |-> BuildSiblings(j)]
    IN  [predecessors |-> [type \in Types |-> [j \in Jobs |-> BuildPredecessors(type, j)]],
         successors   |-> [type \in Types |-> [j \in Jobs |-> BuildSuccessors(type, j)]],
         exclusions   |-> [type \in Types |-> [j \in Jobs |-> BuildExclusions(type, j)]],
         siblings     |-> siblings,
         incompatible |-> [j \in Jobs |-> FindIncompatible(j, siblings[j])],
         incompatible_with_pending_successors |->
             [j \in Jobs |-> FindPendingIncompatible(j, siblings[j])]]

Predecessors(type, j) == sp_data.predecessors[type][j]
Successors(type, j) == sp_data.successors[type][j]
AllSuccessors(j) == Successors("start", j) \cup Successors("finish", j)
Exclusions(type, j) == sp_data.exclusions[type][j]
Siblings(j) == sp_data.siblings[j]
HasSiblings(j) == Siblings(j) # {j}
Incompatible(j) == sp_data.incompatible[j]
IncompatibleWithPendingSuccessors(j) == sp_data.incompatible_with_pending_successors[j]

\* The least time that j waits after the start (the finish) of k, -1 if it
\* does not wait for it.
MinDelayAfter(type, k, j) ==
    LET delays == {c.delay.min : c \in {x \in Predecessors(type, j) \cup Exclusions(type, j) :
                                            x.job = k}}
    IN  IF delays = {} THEN -1 ELSE Min(delays)

HasPrecedence == problem.prec # {}
HasConstraints(type) == \E j \in Jobs : Successors(type, j) # {} \/ Exclusions(type, j) # {}

\* The jobs that have finished when j starts.
MustBeFinished(j) == {c.job : c \in Predecessors("finish", j) \cup Exclusions("finish", j)}

\* The four classes of jobs.
SuccessorJobs == {e.to : e \in problem.prec}
Excluding == {j \in Jobs : Exclusions("start", j) \cup Exclusions("finish", j) # {}}
MutexSourceJobs == Excluding \ SuccessorJobs
SequentialIndependentJobs ==
    {j \in Jobs \ (SuccessorJobs \cup Excluding) : MinParallelism(j) = 1}
GangIndependentJobs == {j \in Jobs \ (SuccessorJobs \cup Excluding) : MinParallelism(j) > 1}
-----------------------------------------------------------------------------
\* What the analysis supposes of the branches of a problem, and does not check:
\* a job that follows a fork follows nothing else, and a job that is discarded
\* with its branch follows only jobs that are discarded with it.  Otherwise a
\* discarded job may become ready again (ready_jobs_tracker.hpp:71).
ClosedBranches(p) ==
    LET jobs == DOMAIN p.job
        From(j) == {e.from : e \in {x \in p.prec : x.to = j}}
        To(j) == {e.to : e \in {x \in p.prec : x.from = j}}
        closed(j) == {S \in SUBSET jobs : To(j) \subseteq S /\ \A k \in S : To(k) \subseteq S}
        Following(j) == {k \in jobs : \A S \in closed(j) : k \in S}
        Branches(f) == UNION {Following(s) \cup {s} : s \in To(f)}
    IN  \A f \in {g \in jobs : p.job[g].type = "C_FORK"} : \A j \in To(f) :
            /\ From(j) = {f}
            /\ \A k \in Branches(f) \ (Following(j) \cup To(f)) :
                  From(k) \subseteq Branches(f) \ Following(j)
=============================================================================
