-------------------------- MODULE ExplorationProofs ---------------------------
(***************************************************************************)
(* What the operators on the states of the schedule-abstraction graph      *)
(* return, for any problem: the times are times, the lists concern         *)
(* dispatched jobs, and the running jobs hold cores in the core            *)
(* availability.  Then the invariant that the steps of the exploration     *)
(* keep: every node is one of the type that the classes promise, its       *)
(* bounds cover its states, and in each of its states the running jobs     *)
(* hold their cores.                                                       *)
(***************************************************************************)
EXTENDS Exploration, CoreTrackerProofs, WellFoundedInduction, SequenceTheorems

-----------------------------------------------------------------------------
(***************************************************************************)
(* Least elements.                                                         *)
(***************************************************************************)

LEMMA LeastNatural ==
    ASSUME NEW S \in SUBSET Nat, S # {}
    PROVE  \E x \in S : \A y \in S : x <= y
<1>1. \E x \in S : \A y \in S : ~ (<<y, x>> \in OpToRel(<, Nat))
    BY NatLessThanWellFounded, WFMin
<1>2. PICK x \in S : \A y \in S : ~ (<<y, x>> \in OpToRel(<, Nat))
    BY <1>1
<1>3. ASSUME NEW y \in S
      PROVE  x <= y
    <2>1. ~ (y < x)
        BY <1>2 DEF OpToRel
    <2>2. QED BY <2>1
<1>4. QED BY <1>3

\* A finite set has a first element in a total order.
LEMMA FirstElement ==
    ASSUME NEW S, IsFiniteSet(S), S # {}, NEW R,
           \A x, y \in S : x # y => <<x, y>> \in R \/ <<y, x>> \in R,
           \A x, y, z \in S : <<x, y>> \in R /\ <<y, z>> \in R => <<x, z>> \in R
    PROVE  \E x \in S : \A y \in S \ {x} : <<x, y>> \in R
<1> DEFINE HasFirst(T) == \E x \in T : \A y \in T \ {x} : <<x, y>> \in R
           Bad == {n \in Nat : \E T \in SUBSET S : T # {} /\ Cardinality(T) = n /\ ~HasFirst(T)}
<1>1. SUFFICES Bad = {}
    <2>1. S \in SUBSET S /\ Cardinality(S) \in Nat
        BY FS_CardinalityType
    <2>2. QED BY <2>1
<1>2. SUFFICES ASSUME Bad # {} PROVE FALSE
    OBVIOUS
<1>3. PICK n \in Bad : \A m \in Bad : n <= m
    <2>1. Bad \in SUBSET Nat
        OBVIOUS
    <2> HIDE DEF Bad
    <2>2. QED BY <1>2, <2>1, LeastNatural
<1>4. PICK T \in SUBSET S : T # {} /\ Cardinality(T) = n /\ ~HasFirst(T)
    BY <1>3
<1>5. PICK a \in T : TRUE
    BY <1>4
<1> DEFINE U == T \ {a}
<1>6. IsFiniteSet(T) /\ IsFiniteSet(U) /\ Cardinality(U) = n - 1 /\ Cardinality(U) \in Nat /\ n \in Nat
    <2>1. IsFiniteSet(T)
        BY <1>4, FS_Subset
    <2>2. IsFiniteSet(U) /\ Cardinality(U) = n - 1
        BY <1>4, <1>5, <2>1, FS_RemoveElement
    <2>3. Cardinality(U) \in Nat /\ n \in Nat
        BY <2>2, FS_CardinalityType
    <2>4. QED BY <2>1, <2>2, <2>3
<1>7. CASE U = {}
    <2>1. T = {a}
        BY <1>5, <1>7
    <2>2. HasFirst(T)
        BY <2>1
    <2>3. QED BY <1>4, <2>2
<1>8. CASE U # {}
    <2>1. HasFirst(U)
        <3>1. ~(n - 1 \in Bad)
            BY <1>3, <1>6
        <3>2. U \in SUBSET S
            BY <1>4
        <3>3. QED BY <1>6, <1>8, <3>1, <3>2
    <2>2. PICK x \in U : \A y \in U \ {x} : <<x, y>> \in R
        BY <2>1
    <2>3. x \in T /\ x \in S /\ a \in S /\ x # a /\ T = U \cup {a}
        BY <1>4, <1>5, <2>2
    <2>4. CASE <<x, a>> \in R
        <3>1. \A y \in T \ {x} : <<x, y>> \in R
            BY <2>2, <2>3, <2>4
        <3>2. QED BY <1>4, <2>3, <3>1
    <2>5. CASE <<a, x>> \in R
        <3>1. ASSUME NEW y \in T \ {a} PROVE <<a, y>> \in R
            <4>1. y \in U /\ y \in S
                BY <1>4
            <4>2. y = x \/ <<x, y>> \in R
                BY <2>2, <4>1
            <4>3. QED BY <2>3, <2>5, <4>1, <4>2
        <3>2. QED BY <1>4, <1>5, <3>1
    <2>6. QED BY <2>3, <2>4, <2>5
<1>9. QED BY <1>7, <1>8

LEMMA MinFacts ==
    ASSUME NEW S \in SUBSET Int, IsFiniteSet(S), S # {}
    PROVE  /\ Min(S) \in S /\ Min(S) \in Int
           /\ \A x \in S : Min(S) <= x
<1> DEFINE R == {p \in S \X S : p[1] <= p[2]}
<1>1. /\ \A x, y \in S : <<x, y>> \in R <=> x <= y
      /\ \A x \in S : x \in Int
    OBVIOUS
<1> HIDE DEF R
<1>2. \E x \in S : \A y \in S \ {x} : <<x, y>> \in R
    <2>1. \A x, y \in S : x # y => <<x, y>> \in R \/ <<y, x>> \in R
        BY <1>1
    <2>2. \A x, y, z \in S : <<x, y>> \in R /\ <<y, z>> \in R => <<x, z>> \in R
        BY <1>1
    <2>3. QED BY <2>1, <2>2, FirstElement
<1>3. \E x \in S : \A y \in S : x <= y
    <2>1. PICK x \in S : \A y \in S \ {x} : <<x, y>> \in R
        BY <1>2
    <2>2. ASSUME NEW y \in S PROVE x <= y
        <3>1. x \in Int /\ y \in Int
            BY <1>1
        <3>2. CASE y = x
            BY <3>1, <3>2
        <3>3. CASE y # x
            BY <1>1, <2>1, <3>3
        <3>4. QED BY <3>2, <3>3
    <2>3. QED BY <2>2
<1>4. QED BY <1>1, <1>3 DEF Min

LEMMA MaxFacts ==
    ASSUME NEW S \in SUBSET Int, IsFiniteSet(S), S # {}
    PROVE  /\ Max(S) \in S /\ Max(S) \in Int
           /\ \A x \in S : x <= Max(S)
<1> DEFINE R == {p \in S \X S : p[1] >= p[2]}
<1>1. /\ \A x, y \in S : <<x, y>> \in R <=> x >= y
      /\ \A x \in S : x \in Int
    OBVIOUS
<1> HIDE DEF R
<1>2. \E x \in S : \A y \in S \ {x} : <<x, y>> \in R
    <2>1. \A x, y \in S : x # y => <<x, y>> \in R \/ <<y, x>> \in R
        BY <1>1
    <2>2. \A x, y, z \in S : <<x, y>> \in R /\ <<y, z>> \in R => <<x, z>> \in R
        BY <1>1
    <2>3. QED BY <2>1, <2>2, FirstElement
<1>3. \E x \in S : \A y \in S : x >= y
    <2>1. PICK x \in S : \A y \in S \ {x} : <<x, y>> \in R
        BY <1>2
    <2>2. ASSUME NEW y \in S PROVE x >= y
        <3>1. x \in Int /\ y \in Int
            BY <1>1
        <3>2. CASE y = x
            BY <3>1, <3>2
        <3>3. CASE y # x
            BY <1>1, <2>1, <3>3
        <3>4. QED BY <3>2, <3>3
    <2>3. QED BY <2>2
<1>4. QED BY <1>1, <1>3 DEF Max

\* The values of a function on a finite set are finitely many.
LEMMA FiniteImage ==
    ASSUME NEW f, IsFiniteSet(DOMAIN f)
    PROVE  IsFiniteSet({f[x] : x \in DOMAIN f})
<1> DEFINE T == {f[x] : x \in DOMAIN f}
           g == [x \in DOMAIN f |-> f[x]]
<1>1. g \in Surjection(DOMAIN f, T)
    BY DEF Surjection
<1>2. QED BY <1>1, FS_Surjection

LEMMA LatestFacts ==
    ASSUME NEW T \in SUBSET Int, IsFiniteSet(T), NEW t \in Int
    PROVE  /\ Latest(T, t) \in Int /\ t <= Latest(T, t) /\ Latest(T, t) \in T \cup {t}
           /\ \A x \in T : x <= Latest(T, t)
<1>1. T \cup {t} \in SUBSET Int /\ IsFiniteSet(T \cup {t}) /\ T \cup {t} # {}
    BY FS_AddElement
<1>2. QED BY <1>1, MaxFacts DEF Latest

LEMMA EarliestFacts ==
    ASSUME NEW T \in SUBSET Int, IsFiniteSet(T)
    PROVE  /\ Earliest(T) \in Int /\ Earliest(T) <= Infinity /\ Earliest(T) \in T \cup {Infinity}
           /\ \A x \in T : Earliest(T) <= x
<1>1. T \cup {Infinity} \in SUBSET Int /\ IsFiniteSet(T \cup {Infinity}) /\ T \cup {Infinity} # {}
    <2>1. IsFiniteSet(T \cup {Infinity})
        BY FS_AddElement
    <2>2. QED BY <2>1, ProblemsAssumption
<1>2. QED BY <1>1, MinFacts DEF Earliest

-----------------------------------------------------------------------------
(***************************************************************************)
(* The problem and what is derived from it.                                *)
(***************************************************************************)

\* The state of SchedulingProblem, which never changes.
DataOK == IsProblem(problem) /\ sp_data = SpData

LEMMA ProblemFacts ==
    ASSUME DataOK
    PROVE  /\ Jobs = 1..Len(problem.job) /\ Jobs \in SUBSET Nat /\ Len(problem.job) \in Nat
           /\ IsFiniteSet(Jobs) /\ Cardinality(Jobs) = Len(problem.job)
           /\ NumCores \in Nat /\ NumCores > 0
           /\ problem.platform \in [1..NumCores -> Intervals(Nat)]
           /\ problem.options.budget \in Int
<1>1. /\ Jobs = 1..Len(problem.job) /\ Len(problem.job) \in Nat
      /\ problem.platform \in Seq(Intervals(Nat)) /\ problem.platform # <<>>
      /\ problem.options.budget \in Int
    BY DEF DataOK, IsProblem, Jobs
<1>2. IsFiniteSet(Jobs) /\ Cardinality(Jobs) = Len(problem.job)
    <2>1. 1 \in Int /\ Len(problem.job) \in Int
        BY <1>1
    <2>2. /\ IsFiniteSet(1..Len(problem.job))
          /\ Cardinality(1..Len(problem.job))
                = IF 1 > Len(problem.job) THEN 0 ELSE Len(problem.job) - 1 + 1
        BY <2>1, FS_Interval
    <2>3. QED BY <1>1, <2>2
<1>3. NumCores \in Nat /\ NumCores > 0 /\ problem.platform \in [1..NumCores -> Intervals(Nat)]
    BY <1>1 DEF NumCores
<1>4. QED BY <1>1, <1>2, <1>3

LEMMA IntervalType ==
    ASSUME NEW T \in {Nat, Int}, NEW i \in Intervals(T)
    PROVE  /\ i \in [min : T, max : T] /\ i.min \in T /\ i.max \in T /\ i.min <= i.max
           /\ i.min \in Int /\ i.max \in Int
BY DEF Intervals

LEMMA JobFacts ==
    ASSUME DataOK, NEW j \in Jobs
    PROVE  /\ Arrival(j) \in Intervals(Nat) /\ Deadline(j) \in Nat /\ problem.job[j].prio \in Int
           /\ Arrival(j).min \in Nat /\ Arrival(j).max \in Nat /\ Arrival(j).min <= Arrival(j).max
           /\ Parallelism(j) \in SUBSET (1..NumCores) /\ IsFiniteSet(Parallelism(j))
           /\ MinParallelism(j) \in Parallelism(j) /\ MinParallelism(j) \in 1..NumCores
           /\ \A p \in Parallelism(j) : Cost(j)[p] \in Intervals(Nat)
<1>1. IsJob(problem.job[j], NumCores)
    BY DEF DataOK, IsProblem, Jobs, NumCores
<1>2. /\ Arrival(j) \in Intervals(Nat) /\ Deadline(j) \in Nat /\ problem.job[j].prio \in Int
      /\ Parallelism(j) \in SUBSET (1..NumCores) /\ Parallelism(j) # {}
      /\ \A p \in Parallelism(j) : Cost(j)[p] \in Intervals(Nat)
    BY <1>1 DEF IsJob, Arrival, Deadline, Parallelism, Cost
<1>3. IsFiniteSet(Parallelism(j))
    <2>1. IsFiniteSet(1..NumCores)
        BY ProblemFacts, FS_Interval
    <2>2. QED BY <1>2, <2>1, FS_Subset
<1>4. MinParallelism(j) \in Parallelism(j)
    <2>1. Parallelism(j) \in SUBSET Int
        BY <1>2
    <2>2. QED BY <1>2, <1>3, <2>1, MinFacts DEF MinParallelism
<1>5. QED BY <1>2, <1>3, <1>4 DEF Intervals

LEMMA ExecutionTimes ==
    ASSUME DataOK, NEW j \in Jobs
    PROVE  Bcet(j) \in Int /\ Wcet(j) \in Int
<1>1. /\ IsFiniteSet(Parallelism(j)) /\ Parallelism(j) # {}
      /\ \A p \in Parallelism(j) : Cost(j)[p].min \in Int /\ Cost(j)[p].max \in Int
    BY JobFacts DEF Intervals
<1>2. ASSUME NEW P \in SUBSET Parallelism(j)
      PROVE  /\ IsFiniteSet({Cost(j)[p].min : p \in P}) /\ IsFiniteSet({Cost(j)[p].max : p \in P})
             /\ {Cost(j)[p].min : p \in P} \in SUBSET Int /\ {Cost(j)[p].max : p \in P} \in SUBSET Int
    <2>1. IsFiniteSet(P)
        BY <1>1, FS_Subset
    <2> DEFINE f == [p \in P |-> Cost(j)[p].min]
               g == [p \in P |-> Cost(j)[p].max]
    <2>2. /\ DOMAIN f = P /\ {f[p] : p \in DOMAIN f} = {Cost(j)[p].min : p \in P}
          /\ DOMAIN g = P /\ {g[p] : p \in DOMAIN g} = {Cost(j)[p].max : p \in P}
        OBVIOUS
    <2> HIDE DEF f, g
    <2>3. IsFiniteSet({f[p] : p \in DOMAIN f}) /\ IsFiniteSet({g[p] : p \in DOMAIN g})
        BY <2>1, <2>2, FiniteImage
    <2>4. QED BY <1>1, <2>2, <2>3
<1>3. Wcet(j) \in Int
    <2>1. {Cost(j)[p].max : p \in Parallelism(j)} # {}
        BY <1>1
    <2>2. QED BY <1>2, <2>1, MaxFacts DEF Wcet
<1>4. Bcet(j) \in Int
    <2> DEFINE zero  == {p \in Parallelism(j) : Cost(j)[p].min = 0}
               after == {p \in Parallelism(j) : \A z \in zero : z < p}
    <2>1. Bcet(j) = IF after = {} THEN 0 ELSE Min({Cost(j)[p].min : p \in after})
        BY DEF Bcet
    <2>2. after \in SUBSET Parallelism(j)
        OBVIOUS
    <2> HIDE DEF after
    <2>3. CASE after # {}
        <3>1. {Cost(j)[p].min : p \in after} # {}
            BY <2>3
        <3>2. QED BY <1>2, <2>1, <2>2, <2>3, <3>1, MinFacts
    <2>4. QED BY <2>1, <2>3
<1>5. QED BY <1>3, <1>4

\* What a job waits for.
Constraints == [job : Jobs, delay : Intervals(Nat)]

LEMMA ConstraintFacts ==
    ASSUME DataOK, NEW j \in Jobs, NEW type \in Types
    PROVE  /\ Predecessors(type, j) \in SUBSET Constraints /\ IsFiniteSet(Predecessors(type, j))
           /\ Exclusions(type, j) \in SUBSET Constraints /\ IsFiniteSet(Exclusions(type, j))
           /\ Predecessors(type, j) =
                {[job |-> e.from, delay |-> e.delay] : e \in {x \in problem.prec : x.type = type /\ x.to = j}}
           /\ Successors(type, j) = {e.to : e \in {x \in problem.prec : x.type = type /\ x.from = j}}
           /\ Successors(type, j) \in SUBSET Jobs
<1>1. /\ Predecessors(type, j) = BuildPredecessors(type, j)
      /\ Exclusions(type, j) = BuildExclusions(type, j)
      /\ Successors(type, j) = BuildSuccessors(type, j)
    BY DEF DataOK, SpData, Predecessors, Exclusions, Successors
<1>2. /\ IsFiniteSet(problem.prec) /\ IsFiniteSet(problem.excl)
      /\ \A e \in problem.prec : e.from \in Jobs /\ e.to \in Jobs /\ e.delay \in Intervals(Nat)
      /\ \A x \in problem.excl : x.a \in Jobs /\ x.b \in Jobs /\ x.delay \in Intervals(Nat)
    BY DEF DataOK, IsProblem, Jobs
<1>3. Predecessors(type, j) \in SUBSET Constraints /\ IsFiniteSet(Predecessors(type, j))
    <2> DEFINE P == {x \in problem.prec : x.type = type /\ x.to = j}
               f == [e \in P |-> [job |-> e.from, delay |-> e.delay]]
    <2>1. IsFiniteSet(P)
        BY <1>2, FS_Subset
    <2>2. DOMAIN f = P /\ Predecessors(type, j) = {f[e] : e \in DOMAIN f}
        BY <1>1 DEF BuildPredecessors
    <2>3. IsFiniteSet({f[e] : e \in DOMAIN f})
        <3> HIDE DEF f
        <3>1. QED BY <2>1, <2>2, FiniteImage
    <2>4. \A e \in P : f[e] \in Constraints
        BY <1>2 DEF Constraints
    <2> HIDE DEF f, P
    <2>5. QED BY <2>2, <2>3, <2>4
<1>4. Exclusions(type, j) \in SUBSET Constraints /\ IsFiniteSet(Exclusions(type, j))
    <2> DEFINE B == {x \in problem.excl : x.type = type /\ (type = "start" => x.delay.max > 0)}
               P == {x \in B : x.a = j}
               Q == {x \in B : x.b = j}
               f == [x \in P |-> [job |-> x.b, delay |-> x.delay]]
               g == [x \in Q |-> [job |-> x.a, delay |-> x.delay]]
    <2>1. IsFiniteSet(P) /\ IsFiniteSet(Q)
        <3>1. P \in SUBSET problem.excl /\ Q \in SUBSET problem.excl
            OBVIOUS
        <3> HIDE DEF P, Q
        <3>2. QED BY <1>2, <3>1, FS_Subset
    <2>2. /\ DOMAIN f = P /\ DOMAIN g = Q
          /\ Exclusions(type, j) = {f[e] : e \in DOMAIN f} \cup {g[e] : e \in DOMAIN g}
        BY <1>1 DEF BuildExclusions
    <2>3. /\ \A e \in P : f[e] \in Constraints
          /\ \A e \in Q : g[e] \in Constraints
        BY <1>2 DEF Constraints
    <2> HIDE DEF f, g, P, Q
    <2>4. IsFiniteSet({f[e] : e \in DOMAIN f}) /\ IsFiniteSet({g[e] : e \in DOMAIN g})
        BY <2>1, <2>2, FiniteImage
    <2>5. IsFiniteSet(Exclusions(type, j))
        BY <2>2, <2>4, FS_Union
    <2>6. QED BY <2>2, <2>3, <2>5
<1>5. Successors(type, j) \in SUBSET Jobs
    BY <1>1, <1>2 DEF BuildSuccessors
<1>6. QED BY <1>1, <1>3, <1>4, <1>5 DEF BuildPredecessors, BuildSuccessors

LEMMA MinDelayType ==
    ASSUME DataOK, NEW j \in Jobs, NEW type \in Types, NEW k
    PROVE  MinDelayAfter(type, k, j) \in Int
<1> DEFINE C == {x \in Predecessors(type, j) \cup Exclusions(type, j) : x.job = k}
           f == [c \in C |-> c.delay.min]
<1>1. IsFiniteSet(C) /\ \A c \in C : c.delay.min \in Int
    <2>1. IsFiniteSet(Predecessors(type, j) \cup Exclusions(type, j))
        BY ConstraintFacts, FS_Union
    <2>2. IsFiniteSet(C)
        BY <2>1, FS_Subset
    <2>3. C \in SUBSET Constraints
        BY ConstraintFacts
    <2>4. QED BY <2>2, <2>3 DEF Constraints, Intervals
<1>2. DOMAIN f = C /\ {c.delay.min : c \in C} = {f[c] : c \in DOMAIN f}
    OBVIOUS
<1>3. IsFiniteSet({c.delay.min : c \in C})
    <2> HIDE DEF f, C
    <2>1. QED BY <1>1, <1>2, FiniteImage
<1>4. {c.delay.min : c \in C} \in SUBSET Int
    BY <1>1
<1>5. MinDelayAfter(type, k, j) = IF {c.delay.min : c \in C} = {} THEN -1 ELSE Min({c.delay.min : c \in C})
    BY DEF MinDelayAfter
<1> HIDE DEF C
<1>6. QED BY <1>3, <1>4, <1>5, MinFacts

\* What follows a job, in any number of steps.
LEMMA SuccessorsAreJobs ==
    ASSUME DataOK, NEW j
    PROVE  SuccessorsOf(j) \in SUBSET Jobs
BY DEF SuccessorsOf, DataOK, IsProblem, Jobs

LEMMA DescendantsFacts ==
    ASSUME DataOK, NEW j \in Jobs
    PROVE  /\ Descendants(j) \in SUBSET Jobs /\ SuccessorsOf(j) \subseteq Descendants(j)
           /\ \A k \in Descendants(j) : SuccessorsOf(k) \subseteq Descendants(j)
           /\ j \notin Descendants(j)
<1> DEFINE closed == {S \in SUBSET Jobs : /\ SuccessorsOf(j) \subseteq S
                                          /\ \A k \in S : SuccessorsOf(k) \subseteq S}
           D == Descendants(j)
<1>1. D = {k \in Jobs : \A S \in closed : k \in S}
    BY DEF Descendants
<1>2. D \in SUBSET Jobs /\ SuccessorsOf(j) \subseteq D
    BY <1>1, SuccessorsAreJobs
<1>3. ASSUME NEW k \in D, NEW h \in SuccessorsOf(k)
      PROVE  h \in D
    <2>1. h \in Jobs
        BY <1>2, SuccessorsAreJobs
    <2>2. ASSUME NEW S \in closed PROVE h \in S
        BY <1>1, <1>3
    <2>3. QED BY <1>1, <2>1, <2>2
<1>4. ASSUME NEW k \in D
      PROVE  \E e \in problem.prec : e.to = k /\ e.from \in D \cup {j}
    <2>1. SUFFICES ASSUME \A e \in problem.prec : e.to = k => e.from \notin D \cup {j} PROVE FALSE
        OBVIOUS
    <2> DEFINE S == D \ {k}
    <2>2. k \notin SuccessorsOf(j) /\ \A h \in D : k \notin SuccessorsOf(h)
        BY <2>1 DEF SuccessorsOf
    <2>3. S \in SUBSET Jobs /\ SuccessorsOf(j) \subseteq S
        BY <1>2, <2>2
    <2>4. \A h \in S : SuccessorsOf(h) \subseteq S
        BY <1>3, <2>2
    <2>5. S \in closed
        BY <2>3, <2>4
    <2>6. k \in S
        BY <1>1, <2>5
    <2>7. QED BY <2>6
<1>5. ASSUME j \in D PROVE FALSE
    <2>1. Acyclic(problem.prec, Jobs)
        BY DEF DataOK, IsProblem, Jobs
    <2>2. D \in (SUBSET Jobs) \ {{}}
        BY <1>2, <1>5
    <2>3. PICK k \in D : \A e \in problem.prec : e.to = k => e.from \notin D
        BY <2>1, <2>2 DEF Acyclic
    <2>4. QED BY <1>4, <1>5, <2>3
<1>6. QED BY <1>2, <1>3, <1>5

LEMMA SiblingFacts ==
    ASSUME DataOK, NEW j \in Jobs
    PROVE  /\ j \in Siblings(j) /\ Siblings(j) \in SUBSET Jobs
           /\ Incompatible(j) \in SUBSET Jobs /\ j \in Incompatible(j)
           /\ IncompatibleWithPendingSuccessors(j) \subseteq Incompatible(j)
           /\ IsFiniteSet(Incompatible(j)) /\ Cardinality(Incompatible(j)) \in Nat
           /\ Cardinality(Incompatible(j)) > 0
<1>1. /\ Siblings(j) = BuildSiblings(j)
      /\ Incompatible(j) = FindIncompatible(j, Siblings(j))
      /\ IncompatibleWithPendingSuccessors(j) = FindPendingIncompatible(j, Siblings(j))
    BY DEF DataOK, SpData, Siblings, Incompatible, IncompatibleWithPendingSuccessors
<1>2. j \in Siblings(j) /\ Siblings(j) \in SUBSET Jobs
    <2> DEFINE forks == {f \in Jobs : IsFork(f) /\ j \in SuccessorsOf(f)}
    <2>1. CASE forks = {}
        BY <1>1, <2>1 DEF BuildSiblings
    <2>2. CASE forks # {}
        <3>1. Max(forks) \in forks
            <4>1. IsFiniteSet(forks) /\ forks \in SUBSET Int
                BY ProblemFacts, FS_Subset
            <4>2. QED BY <4>1, <2>2, MaxFacts
        <3>2. BuildSiblings(j) = SuccessorsOf(Max(forks))
            BY <2>2 DEF BuildSiblings
        <3>3. QED BY <1>1, <3>1, <3>2, SuccessorsAreJobs
    <2>3. QED BY <2>1, <2>2
<1>3. Incompatible(j) \in SUBSET Jobs /\ j \in Incompatible(j)
    <2>1. CASE Siblings(j) = {j}
        BY <1>1, <2>1 DEF FindIncompatible
    <2>2. CASE Siblings(j) # {j}
        <3> DEFINE A == UNION {Descendants(s) \cup {s} : s \in Siblings(j)}
        <3>1. Incompatible(j) = A \ Descendants(j)
            BY <1>1, <2>2 DEF FindIncompatible
        <3>2. A \in SUBSET Jobs
            <4>1. \A s \in Siblings(j) : Descendants(s) \in SUBSET Jobs /\ s \in Jobs
                BY <1>2, DescendantsFacts
            <4>2. QED BY <4>1
        <3>3. j \in A
            BY <1>2
        <3>4. j \notin Descendants(j)
            BY DescendantsFacts
        <3> HIDE DEF A
        <3>5. QED BY <3>1, <3>2, <3>3, <3>4
    <2>3. QED BY <2>1, <2>2
<1>4. IncompatibleWithPendingSuccessors(j) \subseteq Incompatible(j)
    BY <1>1 DEF FindPendingIncompatible
<1>5. /\ IsFiniteSet(Incompatible(j)) /\ Cardinality(Incompatible(j)) \in Nat
      /\ Cardinality(Incompatible(j)) > 0
    <2>1. IsFiniteSet(Incompatible(j))
        BY <1>3, ProblemFacts, FS_Subset
    <2>2. Cardinality(Incompatible(j)) \in Nat /\ Cardinality(Incompatible(j)) # 0
        BY <1>3, <2>1, FS_CardinalityType, FS_EmptySet
    <2>3. QED BY <2>1, <2>2
<1>6. QED BY <1>2, <1>3, <1>4, <1>5

-----------------------------------------------------------------------------
(***************************************************************************)
(* The states.                                                             *)
(***************************************************************************)
StateFields == {"avail", "running", "start", "finish", "succ", "gang", "mutex", "min_prio"}

AreRunning(r) ==
    /\ DOMAIN r \in SUBSET Jobs
    /\ \A k \in DOMAIN r : r[k].cores \in Intervals(Nat) /\ r[k].finish \in Intervals(Nat)

AreTimes(f) == DOMAIN f \in SUBSET Jobs /\ \A k \in DOMAIN f : f[k] \in Intervals(Int)

IsState(s) ==
    /\ DOMAIN s = StateFields
    /\ s.avail \in Trackers(NumCores)
    /\ AreRunning(s.running) /\ AreTimes(s.start) /\ AreTimes(s.finish)
    /\ s.succ \in Int /\ s.gang \in Int /\ s.mutex \in Int

LEMMA AvailType ==
    ASSUME DataOK, NEW s, IsState(s), NEW p \in 1..NumCores
    PROVE  /\ Avail(s, p) \in Intervals(Nat)
           /\ Avail(s, p).min \in Nat /\ Avail(s, p).max \in Nat /\ Avail(s, p).min <= Avail(s, p).max
BY ProblemFacts, TrackerFacts DEF IsState, Avail, Intervals

LEMMA AvailOrder ==
    ASSUME DataOK, NEW s, IsState(s), NEW p \in 1..NumCores, NEW q \in p..NumCores
    PROVE  Avail(s, p).min <= Avail(s, q).min /\ Avail(s, p).max <= Avail(s, q).max
BY ProblemFacts, TrackerFacts DEF IsState, Avail

LEMMA ShiftType ==
    ASSUME NEW i \in Intervals(Int), NEW d \in Intervals(Int)
    PROVE  Shift(i, d) \in Intervals(Int) /\ Shift(i, d) = [min |-> i.min + d.min, max |-> i.max + d.max]
BY DEF Shift, Interval, Intervals

\* Sums may wrap round, so that their bounds need not be in order.
Windows == [min : Int, max : Int]

LEMMA DelayedType ==
    ASSUME NEW i \in Intervals(Int), NEW d \in Intervals(Int)
    PROVE  Delayed(i, d) \in Windows
<1>1. i.min \in Int /\ i.max \in Int /\ d.min \in Int /\ d.max \in Int /\ Infinity \in Int
    BY ProblemsAssumption DEF Intervals
<1>2. Plus(i.min, d.min) \in Int /\ Plus(i.max, d.max) \in Int
    BY <1>1 DEF Plus
<1>3. QED BY <1>2 DEF Delayed, Windows

LEMMA TimeOfType ==
    ASSUME DataOK, NEW s, IsState(s), NEW type \in Types, NEW k
    PROVE  TimeOf(s, type, k) \in Intervals(Int)
<1>1. CASE IsRecorded(s, type, k)
    BY <1>1 DEF TimeOf, IsRecorded, RecordedTimes, IsState, AreTimes
<1>2. CASE ~IsRecorded(s, type, k)
    BY <1>2, ProblemsAssumption DEF TimeOf, Intervals
<1>3. QED BY <1>1, <1>2

\* The intervals of finitely many constraints, and their bounds, are finitely
\* many.
LEMMA SatisfiedFacts ==
    ASSUME DataOK, NEW s, IsState(s), NEW type \in Types,
           NEW cs \in SUBSET Constraints, IsFiniteSet(cs)
    PROVE  /\ Satisfied(s, type, cs) \in SUBSET Windows
           /\ IsFiniteSet(Satisfied(s, type, cs))
<1> DEFINE f == [c \in cs |-> Delayed(TimeOf(s, type, c.job), c.delay)]
<1>1. DOMAIN f = cs /\ Satisfied(s, type, cs) = {f[c] : c \in DOMAIN f}
    BY DEF Satisfied
<1>2. ASSUME NEW c \in cs PROVE f[c] \in Windows
    <2>1. TimeOf(s, type, c.job) \in Intervals(Int)
        BY TimeOfType
    <2>2. c.delay \in Intervals(Int)
        BY DEF Constraints, Intervals
    <2>3. QED BY <2>1, <2>2, DelayedType
<1> HIDE DEF f
<1>3. QED BY <1>1, <1>2, FiniteImage

LEMMA BoundsFacts ==
    ASSUME NEW T \in SUBSET Windows, IsFiniteSet(T)
    PROVE  /\ {t.min : t \in T} \in SUBSET Int /\ IsFiniteSet({t.min : t \in T})
           /\ {t.max : t \in T} \in SUBSET Int /\ IsFiniteSet({t.max : t \in T})
           /\ \A t \in T : t.min \in Int /\ t.max \in Int
<1> DEFINE f == [t \in T |-> t.min]
           g == [t \in T |-> t.max]
<1>1. /\ DOMAIN f = T /\ {f[t] : t \in DOMAIN f} = {t.min : t \in T}
      /\ DOMAIN g = T /\ {g[t] : t \in DOMAIN g} = {t.max : t \in T}
    OBVIOUS
<1>2. \A t \in T : t.min \in Int /\ t.max \in Int
    BY DEF Windows
<1> HIDE DEF f, g
<1>3. IsFiniteSet({f[t] : t \in DOMAIN f}) /\ IsFiniteSet({g[t] : t \in DOMAIN g})
    BY <1>1, FiniteImage
<1>4. QED BY <1>1, <1>2, <1>3

LEMMA WaitFacts ==
    ASSUME DataOK, NEW s, IsState(s), NEW j \in Jobs, NEW n
    PROVE  /\ PrecedenceTimes(s, j) \in SUBSET Windows /\ IsFiniteSet(PrecedenceTimes(s, j))
           /\ ExclusionTimes(s, j) \in SUBSET Windows /\ IsFiniteSet(ExclusionTimes(s, j))
           /\ BindingTimes(n, s, j) \in SUBSET Windows /\ IsFiniteSet(BindingTimes(n, s, j))
<1> DEFINE P(type) == Satisfied(s, type, RecordedConstraints(s, type, Predecessors(type, j)))
           E(type) == Satisfied(s, type, RecordedConstraints(s, type, Exclusions(type, j)))
           B(type) == Satisfied(s, type, BindingExclusions(n, type, j))
<1>1. ASSUME NEW type \in Types
      PROVE  /\ P(type) \in SUBSET Windows /\ IsFiniteSet(P(type))
             /\ E(type) \in SUBSET Windows /\ IsFiniteSet(E(type))
             /\ B(type) \in SUBSET Windows /\ IsFiniteSet(B(type))
    <2>1. /\ Predecessors(type, j) \in SUBSET Constraints /\ IsFiniteSet(Predecessors(type, j))
          /\ Exclusions(type, j) \in SUBSET Constraints /\ IsFiniteSet(Exclusions(type, j))
        BY ConstraintFacts
    <2>2. /\ RecordedConstraints(s, type, Predecessors(type, j)) \in SUBSET Predecessors(type, j)
          /\ RecordedConstraints(s, type, Exclusions(type, j)) \in SUBSET Exclusions(type, j)
          /\ BindingExclusions(n, type, j) \in SUBSET Exclusions(type, j)
        BY DEF RecordedConstraints, BindingExclusions
    <2>3. /\ IsFiniteSet(RecordedConstraints(s, type, Predecessors(type, j)))
          /\ IsFiniteSet(RecordedConstraints(s, type, Exclusions(type, j)))
          /\ IsFiniteSet(BindingExclusions(n, type, j))
        BY <2>1, <2>2, FS_Subset
    <2>4. /\ RecordedConstraints(s, type, Predecessors(type, j)) \in SUBSET Constraints
          /\ RecordedConstraints(s, type, Exclusions(type, j)) \in SUBSET Constraints
          /\ BindingExclusions(n, type, j) \in SUBSET Constraints
        BY <2>1, <2>2
    <2>5. QED BY <2>3, <2>4, SatisfiedFacts
<1>2. /\ PrecedenceTimes(s, j) = P("start") \cup P("finish")
      /\ ExclusionTimes(s, j) = E("start") \cup E("finish")
      /\ BindingTimes(n, s, j) = B("start") \cup B("finish")
    BY DEF PrecedenceTimes, ExclusionTimes, BindingTimes, Types
<1>3. "start" \in Types /\ "finish" \in Types
    BY DEF Types
<1> HIDE DEF P, E, B
<1>4. /\ IsFiniteSet(P("start") \cup P("finish")) /\ IsFiniteSet(E("start") \cup E("finish"))
      /\ IsFiniteSet(B("start") \cup B("finish"))
    <2>1. /\ IsFiniteSet(P("start")) /\ IsFiniteSet(P("finish"))
          /\ IsFiniteSet(E("start")) /\ IsFiniteSet(E("finish"))
          /\ IsFiniteSet(B("start")) /\ IsFiniteSet(B("finish"))
        BY <1>1, <1>3
    <2>2. IsFiniteSet(P("start") \cup P("finish"))
        BY <2>1, FS_Union
    <2>3. IsFiniteSet(E("start") \cup E("finish"))
        BY <2>1, FS_Union
    <2>4. IsFiniteSet(B("start") \cup B("finish"))
        BY <2>1, FS_Union
    <2>5. QED BY <2>2, <2>3, <2>4
<1>5. QED BY <1>1, <1>2, <1>3, <1>4

LEMMA ReadyTimesFacts ==
    ASSUME DataOK, NEW s, IsState(s), NEW j \in Jobs, NEW n
    PROVE  LET r == ReadyTimes(n, s, j)
           IN  /\ r.min \in Int /\ r.max \in Int
               /\ Arrival(j).min <= r.min /\ Arrival(j).max <= r.max
<1> DEFINE after == PrecedenceTimes(s, j)
           excluded == BindingTimes(n, s, j)
           by == {t.min : t \in after}
           earliest == IF IsJoin(j) THEN Earliest(by) ELSE Latest(by, Arrival(j).min)
           mins == {t.min : t \in excluded}
           maxs == {t.max : t \in after \cup excluded}
           r == ReadyTimes(n, s, j)
<1>1. r = [min |-> Latest(mins \cup {earliest}, Arrival(j).min), max |-> Latest(maxs, Arrival(j).max)]
    BY DEF ReadyTimes
<1>2. /\ by \in SUBSET Int /\ IsFiniteSet(by)
      /\ mins \in SUBSET Int /\ IsFiniteSet(mins)
      /\ maxs \in SUBSET Int /\ IsFiniteSet(maxs)
    <2>1. /\ after \in SUBSET Windows /\ IsFiniteSet(after)
          /\ excluded \in SUBSET Windows /\ IsFiniteSet(excluded)
        BY WaitFacts
    <2>2. after \cup excluded \in SUBSET Windows /\ IsFiniteSet(after \cup excluded)
        BY <2>1, FS_Union
    <2> HIDE DEF after, excluded
    <2>3. by \in SUBSET Int /\ IsFiniteSet(by) /\ mins \in SUBSET Int /\ IsFiniteSet(mins)
        BY <2>1, BoundsFacts
    <2>4. maxs \in SUBSET Int /\ IsFiniteSet(maxs)
        BY <2>2, BoundsFacts
    <2>5. QED BY <2>3, <2>4
<1>3. Arrival(j).min \in Int /\ Arrival(j).max \in Int
    BY JobFacts
<1>4. earliest \in Int
    <2> HIDE DEF by
    <2>1. QED BY <1>2, <1>3, EarliestFacts, LatestFacts
<1>5. Latest(maxs, Arrival(j).max) \in Int /\ Arrival(j).max <= Latest(maxs, Arrival(j).max)
    <2> HIDE DEF maxs
    <2>1. QED BY <1>2, <1>3, LatestFacts
<1>6. /\ Latest(mins \cup {earliest}, Arrival(j).min) \in Int
      /\ Arrival(j).min <= Latest(mins \cup {earliest}, Arrival(j).min)
    <2> HIDE DEF mins, earliest
    <2>1. mins \cup {earliest} \in SUBSET Int /\ IsFiniteSet(mins \cup {earliest})
        BY <1>2, <1>4, FS_AddElement
    <2>2. QED BY <1>3, <2>1, LatestFacts
<1>7. QED BY <1>1, <1>5, <1>6

LEMMA ConditionalType ==
    ASSUME DataOK, NEW s, IsState(s), NEW j \in Jobs, NEW j_low, NEW ncores, NEW n
    PROVE  ConditionalLatestReadyTime(n, s, j, j_low, ncores) \in Int
<1> DEFINE I(type) == InForce(n, s, type, j, j_low)
           W(type) == Satisfied(s, type, I(type))
           waits == UNION {W(type) : type \in Types}
           cores == IF MinParallelism(j) > ncores THEN {Avail(s, MinParallelism(j)).max} ELSE {}
<1>1. ASSUME NEW type \in Types
      PROVE  W(type) \in SUBSET Windows /\ IsFiniteSet(W(type))
    <2>1. /\ Predecessors(type, j) \cup Exclusions(type, j) \in SUBSET Constraints
          /\ IsFiniteSet(Predecessors(type, j) \cup Exclusions(type, j))
        BY ConstraintFacts, FS_Union
    <2>2. I(type) \in SUBSET (Predecessors(type, j) \cup Exclusions(type, j))
        BY DEF InForce, RecordedConstraints, BindingExclusions
    <2>3. I(type) \in SUBSET Constraints /\ IsFiniteSet(I(type))
        BY <2>1, <2>2, FS_Subset
    <2> HIDE DEF I
    <2>4. QED BY <2>3, SatisfiedFacts
<1>2. waits = W("start") \cup W("finish") /\ "start" \in Types /\ "finish" \in Types
    BY DEF Types
<1>3. waits \in SUBSET Windows /\ IsFiniteSet(waits)
    <2> HIDE DEF W, waits
    <2>1. IsFiniteSet(W("start") \cup W("finish"))
        BY <1>1, <1>2, FS_Union
    <2>2. QED BY <1>1, <1>2, <2>1
<1>4. {t.max : t \in waits} \in SUBSET Int /\ IsFiniteSet({t.max : t \in waits})
    <2> HIDE DEF waits
    <2>1. QED BY <1>3, BoundsFacts
<1>5. cores \in SUBSET Int /\ IsFiniteSet(cores)
    <2>1. Avail(s, MinParallelism(j)).max \in Int
        BY JobFacts, AvailType
    <2>2. QED BY <2>1, FS_Singleton, FS_EmptySet
<1>6. Arrival(j).max \in Int
    BY JobFacts
<1>7. ConditionalLatestReadyTime(n, s, j, j_low, ncores)
        = Latest({t.max : t \in waits} \cup cores, Arrival(j).max)
    BY DEF ConditionalLatestReadyTime
<1> HIDE DEF waits, cores
<1>8. {t.max : t \in waits} \cup cores \in SUBSET Int /\ IsFiniteSet({t.max : t \in waits} \cup cores)
    BY <1>4, <1>5, FS_Union
<1>9. QED BY <1>6, <1>7, <1>8, LatestFacts

LEMMA JobValues ==
    ASSUME DataOK, NEW f, DOMAIN f \in SUBSET Jobs, \A j \in DOMAIN f : f[j] \in Int
    PROVE  {f[j] : j \in DOMAIN f} \in SUBSET Int /\ IsFiniteSet({f[j] : j \in DOMAIN f})
<1>1. IsFiniteSet(DOMAIN f)
    BY ProblemFacts, FS_Subset
<1>2. QED BY <1>1, FiniteImage

LEMMA ClassesOfJobs ==
    ASSUME DataOK
    PROVE  /\ SuccessorJobs \in SUBSET Jobs /\ MutexSourceJobs \in SUBSET Jobs
           /\ SequentialIndependentJobs \in SUBSET Jobs /\ GangIndependentJobs \in SUBSET Jobs
BY DEF DataOK, IsProblem, Jobs, SuccessorJobs, MutexSourceJobs, Excluding, SequentialIndependentJobs,
       GangIndependentJobs

LEMMA FitsType ==
    ASSUME DataOK, NEW s, IsState(s), NEW j \in Jobs
    PROVE  CertainlyFits(s, j) \in Int
BY JobFacts, AvailType DEF CertainlyFits, MaxOf

LEMMA GangDispatchType ==
    ASSUME DataOK, NEW s, IsState(s), NEW n
    PROVE  GangDispatch(n, s) \in Int
<1> DEFINE J == {k \in GangIndependentJobs \ n.scheduled : Arrival(k).max >= n.source_release}
           f == [j \in J |-> CertainlyFits(s, j)]
<1>1. /\ DOMAIN f \in SUBSET Jobs /\ \A j \in DOMAIN f : f[j] \in Int
      /\ {f[j] : j \in DOMAIN f} = {CertainlyFits(s, j) : j \in J}
    BY ClassesOfJobs, FitsType
<1>2. GangDispatch(n, s) = Earliest({CertainlyFits(s, j) : j \in J})
    BY DEF GangDispatch
<1> HIDE DEF f, J
<1>3. QED BY <1>1, <1>2, JobValues, EarliestFacts

LEMMA MutexDispatchType ==
    ASSUME DataOK, NEW s, IsState(s), NEW n
    PROVE  MutexDispatch(n, s) \in Int
<1> DEFINE J == {k \in MutexSourceJobs \ n.scheduled : Arrival(k).max >= n.source_release}
           L(j) == Latest({t.max : t \in ExclusionTimes(s, j)}, CertainlyFits(s, j))
           f == [j \in J |-> L(j)]
<1>1. ASSUME NEW j \in J PROVE L(j) \in Int
    <2>1. j \in Jobs
        BY ClassesOfJobs
    <2>2. {t.max : t \in ExclusionTimes(s, j)} \in SUBSET Int /\ IsFiniteSet({t.max : t \in ExclusionTimes(s, j)})
        BY <2>1, WaitFacts, BoundsFacts
    <2>3. QED BY <2>1, <2>2, FitsType, LatestFacts
<1>2. DOMAIN f \in SUBSET Jobs
    BY ClassesOfJobs
<1>3. MutexDispatch(n, s) = Earliest({L(j) : j \in J})
    BY DEF MutexDispatch
<1> HIDE DEF L, J
<1>4. \A j \in DOMAIN f : f[j] \in Int
    BY <1>1
<1>5. {f[j] : j \in DOMAIN f} = {L(j) : j \in J}
    OBVIOUS
<1> HIDE DEF f
<1>6. QED BY <1>2, <1>3, <1>4, <1>5, JobValues, EarliestFacts

LEMMA SuccessorDispatchType ==
    ASSUME DataOK, NEW s, IsState(s), NEW n, n.ready \in SUBSET Jobs
    PROVE  SuccessorDispatch(n, s) \in Int
<1> DEFINE by(j) == IF LacksPredecessor(s, j) /\ ~IsJoin(j) THEN Infinity
                    ELSE Latest({t.max : t \in PrecedenceTimes(s, j) \cup ExclusionTimes(s, j)},
                                CertainlyFits(s, j))
           M(j) == Max({by(sib) : sib \in Siblings(j)})
           f == [j \in n.ready |-> M(j)]
<1>1. ASSUME NEW j \in Jobs PROVE by(j) \in Int
    <2> DEFINE T == PrecedenceTimes(s, j) \cup ExclusionTimes(s, j)
    <2>1. T \in SUBSET Windows /\ IsFiniteSet(T)
        BY WaitFacts, FS_Union
    <2>2. {t.max : t \in T} \in SUBSET Int /\ IsFiniteSet({t.max : t \in T})
        <3> HIDE DEF T
        <3>1. QED BY <2>1, BoundsFacts
    <2> HIDE DEF T
    <2>3. Latest({t.max : t \in T}, CertainlyFits(s, j)) \in Int
        BY <2>2, FitsType, LatestFacts
    <2>4. Infinity \in Int
        BY ProblemsAssumption
    <2>5. QED BY <2>3, <2>4 DEF T
<1>2. ASSUME NEW j \in Jobs PROVE M(j) \in Int
    <2> DEFINE g == [sib \in Siblings(j) |-> by(sib)]
    <2> HIDE DEF by
    <2>1. DOMAIN g \in SUBSET Jobs /\ DOMAIN g # {} /\ \A k \in DOMAIN g : g[k] \in Int
        BY <1>1, SiblingFacts
    <2>2. M(j) = Max({g[k] : k \in DOMAIN g}) /\ {g[k] : k \in DOMAIN g} # {}
        BY <2>1
    <2> HIDE DEF g
    <2>3. {g[k] : k \in DOMAIN g} \in SUBSET Int /\ IsFiniteSet({g[k] : k \in DOMAIN g})
        BY <2>1, JobValues
    <2> HIDE DEF M
    <2>4. QED BY <2>2, <2>3, MaxFacts
<1>3. SuccessorDispatch(n, s) = Earliest({M(j) : j \in n.ready})
    BY DEF SuccessorDispatch
<1> HIDE DEF M
<1>4. DOMAIN f \in SUBSET Jobs /\ \A j \in DOMAIN f : f[j] \in Int
    BY <1>2
<1>5. {f[j] : j \in DOMAIN f} = {M(j) : j \in n.ready}
    OBVIOUS
<1> HIDE DEF f
<1>6. QED BY <1>3, <1>4, <1>5, JobValues, EarliestFacts

\* The certain dispatch times and the lowest priority leave the rest alone.
LEMMA DispatchTimesFacts ==
    ASSUME DataOK, NEW s, IsState(s), NEW n, n.ready \in SUBSET Jobs
    PROVE  LET w == WithDispatchTimes(n, s)
           IN  /\ IsState(w)
               /\ w.avail = s.avail /\ w.running = s.running
               /\ w.start = s.start /\ w.finish = s.finish
               /\ w.min_prio = MinPriorityJob(n, s)
<1> DEFINE w == WithDispatchTimes(n, s)
<1>1. DOMAIN s = StateFields
    BY DEF IsState
<1>2. /\ DOMAIN w = StateFields
      /\ w.avail = s.avail /\ w.running = s.running /\ w.start = s.start /\ w.finish = s.finish
      /\ w.succ = SuccessorDispatch(n, s) /\ w.gang = GangDispatch(n, s)
      /\ w.mutex = MutexDispatch(n, s) /\ w.min_prio = MinPriorityJob(n, s)
    BY <1>1 DEF WithDispatchTimes, StateFields
<1> HIDE DEF w
<1>3. w.succ \in Int /\ w.gang \in Int /\ w.mutex \in Int
    BY <1>2, SuccessorDispatchType, GangDispatchType, MutexDispatchType
<1>4. IsState(w)
    BY <1>2, <1>3 DEF IsState
<1>5. QED BY <1>2, <1>4 DEF w

-----------------------------------------------------------------------------
(***************************************************************************)
(* Recursive functions on the first numbers.                               *)
(***************************************************************************)

\* What a step keeps, all steps keep.
LEMMA StepsKeep ==
    ASSUME NEW S, NEW m \in Nat, NEW g, g[0] \in S,
           \A i \in 1..m : g[i - 1] \in S => g[i] \in S
    PROVE  \A i \in 0..m : g[i] \in S
<1> DEFINE Bad == {i \in 0..m : g[i] \notin S}
<1>1. SUFFICES ASSUME Bad # {} PROVE FALSE
    OBVIOUS
<1>2. Bad \in SUBSET Nat
    OBVIOUS
<1>3. PICK i \in Bad : \A h \in Bad : i <= h
    <2> HIDE DEF Bad
    <2>1. QED BY <1>1, <1>2, LeastNatural
<1>4. i \in 1..m /\ i - 1 \in 0..m
    BY <1>3
<1>5. g[i - 1] \in S
    <2>1. i - 1 \notin Bad
        <3>1. i \in Nat /\ ~(i <= i - 1)
            BY <1>4
        <3> HIDE DEF Bad
        <3>2. QED BY <1>3, <3>1
    <2>2. QED BY <1>4, <2>1
<1>6. QED BY <1>3, <1>4, <1>5

\* A function can be built step by step from a step that is itself a function.
Steps(f, G, base, m) == f[0] = base /\ \A i \in 1..m : f[i] = G[i][f[i - 1]]

LEMMA StepByStep ==
    ASSUME NEW S, NEW m \in Nat, NEW base \in S, NEW G \in [1..m -> [S -> S]]
    PROVE  \E f \in [0..m -> S] : Steps(f, G, base, m)
<1> USE DEF Steps
<1> DEFINE Built(f, h) == f[0] = base /\ \A i \in 1..h : f[i] = G[i][f[i - 1]]
           Bad == {h \in 0..m : ~\E f \in [0..h -> S] : Built(f, h)}
<1>1. SUFFICES ASSUME Bad # {} PROVE FALSE
    <2>1. m \in 0..m
        OBVIOUS
    <2>2. QED BY <2>1
<1>2. Bad \in SUBSET Nat
    OBVIOUS
<1>3. PICK h \in Bad : \A i \in Bad : h <= i
    <2> HIDE DEF Bad
    <2>1. QED BY <1>1, <1>2, LeastNatural
<1>4. h # 0
    <2>1. SUFFICES ASSUME h = 0 PROVE FALSE
        OBVIOUS
    <2> DEFINE f == [i \in 0..0 |-> base]
    <2>2. f \in [0..h -> S] /\ Built(f, h)
        BY <2>1
    <2>3. QED BY <1>3, <2>2
<1>5. h \in 1..m /\ h - 1 \in 0..m /\ h - 1 \notin Bad
    <2>1. h \in 0..m
        BY <1>3
    <2>2. h \in 1..m /\ h - 1 \in 0..m
        BY <1>4, <2>1
    <2> HIDE DEF Bad
    <2>3. QED BY <1>3, <2>2
<1>6. PICK f \in [0..(h - 1) -> S] : Built(f, h - 1)
    BY <1>5
<1> DEFINE g == [i \in 0..h |-> IF i < h THEN f[i] ELSE G[h][f[h - 1]]]
<1>7. f[h - 1] \in S /\ G[h][f[h - 1]] \in S
    BY <1>5, <1>6
<1>8. g \in [0..h -> S]
    BY <1>5, <1>6, <1>7
<1>9. g[0] = base
    BY <1>5, <1>6
<1>10. ASSUME NEW i \in 1..h PROVE g[i] = G[i][g[i - 1]]
    <2>1. g[i - 1] = f[i - 1]
        BY <1>5
    <2>2. CASE i = h
        <3>1. h \in 0..h /\ ~(h < h)
            BY <1>5
        <3>2. g[h] = G[h][f[h - 1]]
            BY <3>1
        <3> HIDE DEF g
        <3>3. QED BY <2>1, <2>2, <3>2
    <2>3. CASE i < h
        <3>1. i \in 1..(h - 1) /\ g[i] = f[i]
            BY <1>5, <2>3
        <3>2. QED BY <1>6, <2>1, <3>1
    <2>4. QED BY <1>5, <2>2, <2>3
<1> HIDE DEF g
<1>11. \E e \in [0..h -> S] : Built(e, h)
    BY <1>8, <1>9, <1>10
<1>12. QED BY <1>3, <1>11

-----------------------------------------------------------------------------
(***************************************************************************)
(* The ready job of the lowest priority.                                   *)
(***************************************************************************)

LEMMA PriorityOrder ==
    ASSUME DataOK, NEW i \in Jobs, NEW j \in Jobs, NEW k \in Jobs
    PROVE  /\ ~HigherPriority(i, i)
           /\ i # j => HigherPriority(i, j) \/ HigherPriority(j, i)
           /\ HigherPriority(i, j) /\ HigherPriority(j, k) => HigherPriority(i, k)
<1> DEFINE P(x) == problem.job[x].prio
<1>1. P(i) \in Int /\ P(j) \in Int /\ P(k) \in Int
    BY JobFacts
<1>2. i \in Nat /\ j \in Nat /\ k \in Nat
    BY ProblemFacts
<1>3. \A x, y : HigherPriority(x, y) <=> P(x) < P(y) \/ (P(x) = P(y) /\ x < y)
    BY DEF HigherPriority
<1> HIDE DEF P
<1>4. QED BY <1>1, <1>2, <1>3

LEMMA ByPriorityFacts ==
    ASSUME DataOK, NEW js \in SUBSET Jobs
    PROVE  \A i \in 1..Cardinality(js) : ByPriority(js)[i] \in js
<1> DEFINE m == Cardinality(js)
           Above(j) == {k \in js : HigherPriority(k, j)}
           r == [j \in js |-> Cardinality(Above(j))]
           T == 0..(m - 1)
<1>1. IsFiniteSet(js) /\ m \in Nat
    BY ProblemFacts, FS_Subset, FS_CardinalityType
<1>2. ASSUME NEW j \in js
      PROVE  /\ IsFiniteSet(Above(j)) /\ Cardinality(Above(j)) \in T
    <2>1. Above(j) \in SUBSET js /\ j \notin Above(j)
        BY PriorityOrder
    <2>2. Above(j) \in SUBSET (js \ {j})
        BY <2>1
    <2>3. IsFiniteSet(js \ {j}) /\ Cardinality(js \ {j}) = m - 1
        BY <1>1, FS_RemoveElement
    <2> HIDE DEF Above
    <2>4. IsFiniteSet(Above(j)) /\ Cardinality(Above(j)) <= m - 1
        BY <2>2, <2>3, FS_Subset
    <2>5. Cardinality(Above(j)) \in Nat
        BY <2>4, FS_CardinalityType
    <2>6. QED BY <1>1, <2>4, <2>5
<1>3. ASSUME NEW i \in js, NEW j \in js, HigherPriority(i, j)
      PROVE  Cardinality(Above(i)) < Cardinality(Above(j))
    <2>1. Above(i) \in SUBSET Above(j) /\ i \in Above(j) /\ i \notin Above(i)
        <3>1. ASSUME NEW k \in js, HigherPriority(k, i) PROVE HigherPriority(k, j)
            BY <1>3, <3>1, PriorityOrder
        <3>2. ~HigherPriority(i, i)
            BY PriorityOrder
        <3>3. QED BY <1>3, <3>1, <3>2
    <2>2. IsFiniteSet(Above(i)) /\ IsFiniteSet(Above(j))
        BY <1>2
    <2> HIDE DEF Above
    <2>4. Cardinality(Above(i)) \in Nat /\ Cardinality(Above(j)) \in Nat
        BY <2>2, FS_CardinalityType
    <2>3. Cardinality(Above(i)) <= Cardinality(Above(j)) /\ Cardinality(Above(i)) # Cardinality(Above(j))
        <3>1. /\ Cardinality(Above(i)) <= Cardinality(Above(j))
              /\ Cardinality(Above(j)) = Cardinality(Above(i)) => Above(j) = Above(i)
            BY <2>1, <2>2, FS_Subset
        <3>2. QED BY <2>1, <3>1
    <2>5. QED BY <2>3, <2>4
<1>4. r \in [js -> T]
    <2> HIDE DEF T, Above
    <2>1. QED BY <1>2
<1>5. ASSUME NEW i \in js, NEW j \in js, r[i] = r[j] PROVE i = j
    <2>1. SUFFICES ASSUME i # j PROVE FALSE
        OBVIOUS
    <2>2. HigherPriority(i, j) \/ HigherPriority(j, i)
        BY <2>1, PriorityOrder
    <2>3. r[i] = Cardinality(Above(i)) /\ r[j] = Cardinality(Above(j))
        OBVIOUS
    <2> HIDE DEF Above
    <2>4. Cardinality(Above(i)) \in Nat /\ Cardinality(Above(j)) \in Nat
        BY <1>2, FS_CardinalityType
    <2>5. Cardinality(Above(i)) = Cardinality(Above(j))
        BY <1>5, <2>3
    <2> HIDE DEF r, T
    <2>6. Cardinality(Above(i)) < Cardinality(Above(j)) \/ Cardinality(Above(j)) < Cardinality(Above(i))
        BY <1>3, <2>2
    <2>7. QED BY <2>4, <2>5, <2>6
<1>6. IsFiniteSet(T) /\ Cardinality(T) = m
    <2>1. 0 \in Int /\ m - 1 \in Int
        BY <1>1
    <2>2. IsFiniteSet(T) /\ Cardinality(T) = IF 0 > m - 1 THEN 0 ELSE m - 1 - 0 + 1
        BY <2>1, FS_Interval
    <2>3. QED BY <1>1, <2>2
<1>7. r \in Surjection(js, T)
    <2> HIDE DEF r, T, Above
    <2>1. r \in Injection(js, T)
        BY <1>4, <1>5 DEF Injection, IsInjective
    <2>2. QED BY <1>6, <2>1, FS_Injection
<1>8. ASSUME NEW i \in 1..m PROVE ByPriority(js)[i] \in js
    <2>1. i - 1 \in T
        BY <1>1
    <2>2. PICK j \in js : r[j] = i - 1
        <3> HIDE DEF r, T, Above
        <3>1. QED BY <1>7, <2>1 DEF Surjection
    <2>3. Cardinality({k \in js : HigherPriority(k, j)}) = i - 1
        BY <2>2
    <2>4. ByPriority(js)[i] = CHOOSE h \in js : Cardinality({k \in js : HigherPriority(k, h)}) = i - 1
        BY DEF ByPriority
    <2>5. QED BY <2>3, <2>4
<1>9. QED BY <1>8

LEMMA MinPriorityFacts ==
    ASSUME DataOK, NEW s, NEW n, n.ready \in SUBSET Jobs
    PROVE  MinPriorityJob(n, s) \in n.ready \cup {0}
<1>1. PICK num \in Nat : num = Cardinality(n.ready)
    BY ProblemFacts, FS_Subset, FS_CardinalityType
<1> DEFINE S == [job : n.ready \cup {0}, cores : Int, rem : Int, counted : SUBSET Jobs]
           base == [job |-> 0, cores |-> NumCores, rem |-> num, counted |-> {}]
           J(i) == ByPriority(n.ready)[i]
           G == [i \in 1..num |-> [acc \in S |-> Inspect(n, s, acc, J(i))]]
           Inspected(g) == g = [i \in 0..num |-> IF i = 0 THEN base ELSE Inspect(n, s, g[i - 1], J(i))]
           inspected == CHOOSE g : Inspected(g)
<1>2. base \in S
    BY <1>1, ProblemFacts
<1>3. ASSUME NEW i \in 1..num PROVE J(i) \in n.ready /\ J(i) \in Jobs
    BY <1>1, ByPriorityFacts
<1> HIDE DEF J
<1>4. ASSUME NEW i \in 1..num, NEW acc \in S PROVE Inspect(n, s, acc, J(i)) \in S
    <2>1. SharedPredecessors(J(i)) \in SUBSET Jobs
        <3>1. Predecessors("finish", J(i)) \in SUBSET Constraints
            BY <1>3, ConstraintFacts DEF Types
        <3>2. QED BY <3>1 DEF SharedPredecessors, Constraints
    <2>2. J(i) \in n.ready \cup {0}
        BY <1>3
    <2>3. [acc EXCEPT !.rem = @ - 1] \in S
        OBVIOUS
    <2>4. [acc EXCEPT !.job = J(i)] \in S
        BY <2>2
    <2>5. [job |-> IF acc.cores = 1 THEN J(i) ELSE 0, cores |-> acc.cores - 1,
           rem |-> acc.rem - 1, counted |-> acc.counted \cup SharedPredecessors(J(i))] \in S
        BY <2>1, <2>2
    <2> HIDE DEF S
    <2>6. QED BY <2>3, <2>4, <2>5 DEF Inspect
<1>5. G \in [1..num -> [S -> S]]
    <2> HIDE DEF S
    <2>1. QED BY <1>4
<1>6. PICK f \in [0..num -> S] : Steps(f, G, base, num)
    <2> HIDE DEF S, base, G, Inspected, inspected
    <2>1. QED BY <1>1, <1>2, <1>5, StepByStep
<1>7. Inspected(f)
    <2> HIDE DEF S, base
    <2>1. \A i \in 1..num : f[i] = Inspect(n, s, f[i - 1], J(i))
        <3>1. \A i \in 1..num : i - 1 \in 0..num
            BY <1>1
        <3>2. QED BY <1>6, <3>1 DEF Steps
    <2>2. \A i \in 0..num : i = 0 \/ i \in 1..num
        BY <1>1
    <2>3. f = [i \in 0..num |-> f[i]]
        BY <1>6
    <2>4. QED BY <1>6, <2>1, <2>2, <2>3 DEF Steps
<1>8. Inspected(inspected)
    <2> HIDE DEF Inspected
    <2>1. QED BY <1>7
<1>9. \A i \in 0..num : inspected[i] \in S
    <2> HIDE DEF inspected, S, base
    <2>1. inspected[0] \in S
        BY <1>1, <1>2, <1>8
    <2>2. ASSUME NEW i \in 1..num, inspected[i - 1] \in S PROVE inspected[i] \in S
        <3>1. inspected[i] = Inspect(n, s, inspected[i - 1], J(i))
            BY <1>1, <1>8
        <3>2. QED BY <1>4, <2>2, <3>1
    <2> HIDE DEF Inspected
    <2>3. QED BY <1>1, <2>1, <2>2, StepsKeep
<1>10. MinPriorityJob(n, s) = inspected[num].job
    BY <1>1 DEF MinPriorityJob, J
<1> HIDE DEF inspected
<1>11. QED BY <1>1, <1>9, <1>10

-----------------------------------------------------------------------------
(***************************************************************************)
(* The cores that the running jobs hold.                                   *)
(***************************************************************************)
HeldCores(r, js) == UNION {{k} \X (1..r[k].cores.min) : k \in js}

LEMMA HeldCoresFacts ==
    ASSUME DataOK, NEW r, AreRunning(r), NEW js \in SUBSET (DOMAIN r)
    PROVE  /\ IsFiniteSet(HeldCores(r, js))
           /\ CoresHeldBy(r, js) = Cardinality(HeldCores(r, js)) /\ CoresHeldBy(r, js) \in Nat
           /\ \A p \in HeldCores(r, js) : p[1] \in js /\ p[2] \in 1..r[p[1]].cores.min /\ p = <<p[1], p[2]>>
           /\ \A k \in js : \A i \in 1..r[k].cores.min : <<k, i>> \in HeldCores(r, js)
<1> DEFINE f == [k \in js |-> r[k].cores.min]
           T == {f[k] : k \in DOMAIN f}
           B == Latest(T, 0)
<1>1. \A k \in js : r[k].cores.min \in Int
    BY DEF AreRunning, Intervals
<1>2. T \in SUBSET Int /\ IsFiniteSet(T)
    <2>1. DOMAIN f \in SUBSET Jobs /\ \A k \in DOMAIN f : f[k] \in Int
        BY <1>1 DEF AreRunning
    <2> HIDE DEF f
    <2>2. QED BY <2>1, JobValues
<1>3. B \in Int /\ \A k \in js : r[k].cores.min <= B
    <2>1. B \in Int /\ \A x \in T : x <= B
        <3> HIDE DEF T
        <3>1. QED BY <1>2, LatestFacts
    <2>2. \A k \in js : r[k].cores.min \in T
        OBVIOUS
    <2> HIDE DEF T, B
    <2>3. QED BY <2>1, <2>2
<1> HIDE DEF B
<1>4. IsFiniteSet(js \X (1..B))
    <2>1. IsFiniteSet(js)
        BY ProblemFacts, FS_Subset DEF AreRunning
    <2>2. IsFiniteSet(1..B)
        <3>1. 1 \in Int /\ B \in Int
            BY <1>3
        <3> HIDE DEF T, f
        <3>2. QED BY <3>1, FS_Interval
    <2>3. QED BY <2>1, <2>2, FS_Product
<1>5. /\ \A p \in HeldCores(r, js) : p[1] \in js /\ p[2] \in 1..r[p[1]].cores.min /\ p = <<p[1], p[2]>>
      /\ \A k \in js : \A i \in 1..r[k].cores.min : <<k, i>> \in HeldCores(r, js)
    BY DEF HeldCores
<1>6. HeldCores(r, js) \in SUBSET (js \X (1..B))
    <2>1. ASSUME NEW p \in HeldCores(r, js) PROVE p \in js \X (1..B)
        <3>1. p[1] \in js /\ p[2] \in 1..r[p[1]].cores.min /\ p = <<p[1], p[2]>>
            BY <1>5
        <3>2. p[2] \in 1..B
            BY <1>1, <1>3, <3>1
        <3>3. QED BY <3>1, <3>2
    <2>2. QED BY <2>1
<1>7. IsFiniteSet(HeldCores(r, js))
    BY <1>4, <1>6, FS_Subset
<1>8. CoresHeldBy(r, js) = Cardinality(HeldCores(r, js)) /\ CoresHeldBy(r, js) \in Nat
    BY <1>7, FS_CardinalityType DEF CoresHeldBy, HeldCores
<1>9. QED BY <1>5, <1>7, <1>8

\* Fewer jobs, or jobs that hold fewer cores, hold fewer cores.
LEMMA FewerCores ==
    ASSUME DataOK, NEW r, AreRunning(r), NEW q, AreRunning(q),
           NEW js \in SUBSET (DOMAIN r), js \subseteq DOMAIN q, NEW ks \in SUBSET (DOMAIN q),
           js \subseteq ks, \A k \in js : r[k].cores.min <= q[k].cores.min
    PROVE  CoresHeldBy(r, js) <= CoresHeldBy(q, ks)
<1>1. ASSUME NEW p \in HeldCores(r, js) PROVE p \in HeldCores(q, ks)
    <2>1. p[1] \in js /\ p[2] \in 1..r[p[1]].cores.min /\ p = <<p[1], p[2]>>
        BY HeldCoresFacts
    <2>2. r[p[1]].cores.min \in Int /\ q[p[1]].cores.min \in Int
        BY <2>1 DEF AreRunning, Intervals
    <2>3. p[1] \in ks /\ p[2] \in 1..q[p[1]].cores.min
        BY <2>1, <2>2
    <2>4. QED BY <2>1, <2>3, HeldCoresFacts
<1>2. HeldCores(r, js) \in SUBSET HeldCores(q, ks)
    BY <1>1
<1>3. Cardinality(HeldCores(r, js)) <= Cardinality(HeldCores(q, ks))
    BY <1>2, HeldCoresFacts, FS_Subset
<1>4. QED BY <1>3, HeldCoresFacts

LEMMA CoresOfBoth ==
    ASSUME DataOK, NEW r, AreRunning(r), NEW js \in SUBSET (DOMAIN r), NEW ks \in SUBSET (DOMAIN r),
           js \cap ks = {}
    PROVE  CoresHeldBy(r, js \cup ks) = CoresHeldBy(r, js) + CoresHeldBy(r, ks)
<1> DEFINE A == HeldCores(r, js)
           B == HeldCores(r, ks)
<1>1. HeldCores(r, js \cup ks) = A \cup B
    BY DEF HeldCores
<1>2. A \cap B = {}
    <2>1. ASSUME NEW p \in A, p \in B PROVE FALSE
        <3>1. p[1] \in js /\ p[1] \in ks
            BY <2>1, HeldCoresFacts
        <3>2. QED BY <3>1
    <2>2. QED BY <2>1
<1>3. /\ IsFiniteSet(A) /\ CoresHeldBy(r, js) = Cardinality(A) /\ Cardinality(A) \in Nat
      /\ IsFiniteSet(B) /\ CoresHeldBy(r, ks) = Cardinality(B) /\ Cardinality(B) \in Nat
    BY HeldCoresFacts
<1>4. CoresHeldBy(r, js \cup ks) = Cardinality(A \cup B)
    <2>1. js \cup ks \in SUBSET (DOMAIN r)
        OBVIOUS
    <2>2. QED BY <1>1, <2>1, HeldCoresFacts
<1> HIDE DEF A, B
<1>5. Cardinality(A \cup B) = Cardinality(A) + Cardinality(B) - Cardinality(A \cap B)
    BY <1>3, FS_Union
<1>6. Cardinality(A \cap B) = 0
    BY <1>2, FS_EmptySet
<1>7. QED BY <1>3, <1>4, <1>5, <1>6

LEMMA CoresOfOne ==
    ASSUME DataOK, NEW r, AreRunning(r), NEW k \in DOMAIN r, r[k].cores.min \in Nat
    PROVE  CoresHeldBy(r, {k}) = r[k].cores.min
<1> DEFINE u == r[k].cores.min
<1>1. CoresHeldBy(r, {k}) = Cardinality({k} \X (1..u))
    <2>1. UNION {{h} \X (1..r[h].cores.min) : h \in {k}} = {k} \X (1..u)
        OBVIOUS
    <2>2. QED BY <2>1 DEF CoresHeldBy
<1>2. IsFiniteSet({k}) /\ Cardinality({k}) = 1
    BY FS_Singleton
<1>3. IsFiniteSet(1..u) /\ Cardinality(1..u) = u
    <2>1. IsFiniteSet(1..u) /\ Cardinality(1..u) = IF 1 > u THEN 0 ELSE u - 1 + 1
        BY FS_Interval
    <2>2. QED BY <2>1
<1> HIDE DEF u
<1>4. Cardinality({k} \X (1..u)) = Cardinality({k}) * Cardinality(1..u)
    <2> DEFINE I == 1..u
    <2>1. IsFiniteSet({k}) /\ IsFiniteSet(I)
        BY <1>2, <1>3
    <2> HIDE DEF I
    <2>2. Cardinality({k} \X I) = Cardinality({k}) * Cardinality(I)
        BY <2>1, FS_Product
    <2>3. QED BY <2>2 DEF I
<1>5. u \in Nat
    BY DEF u
<1>6. QED BY <1>1, <1>2, <1>3, <1>4, <1>5 DEF u

\* Until the earliest finish times of the running jobs their cores are not
\* available.
StillRunning(r, t) == {k \in DOMAIN r : r[k].finish.min >= t}
HoldsCores(s) ==
    \A t \in Nat : BusyUntil(s.avail, CoresHeldBy(s.running, StillRunning(s.running, t)), t)

-----------------------------------------------------------------------------
(***************************************************************************)
(* The state after a dispatch.                                             *)
(***************************************************************************)

LEMMA IntervalOfInts ==
    ASSUME NEW a \in Int, NEW b \in Int
    PROVE  Interval(a, b) \in Intervals(Int)
BY DEF Interval, Intervals

LEMMA RecordedTimesAfter ==
    ASSUME DataOK, NEW f, AreTimes(f), NEW j \in Jobs, NEW start \in Intervals(Nat),
           NEW finish \in Intervals(Nat), NEW pending \in SUBSET Jobs
    PROVE  /\ AreTimes(StartTimesAfter(f, j, start, pending))
           /\ DOMAIN StartTimesAfter(f, j, start, pending) \subseteq pending
           /\ AreTimes(FinishTimesAfter(f, j, start, finish, pending))
           /\ DOMAIN FinishTimesAfter(f, j, start, finish, pending) \subseteq pending
<1>1. /\ start \in Intervals(Int) /\ finish \in Intervals(Int)
      /\ start.min \in Int /\ start.max \in Int
    BY DEF Intervals
<1>2. ASSUME NEW k \in DOMAIN f
      PROVE  f[k] \in Intervals(Int) /\ f[k].min \in Int /\ f[k].max \in Int
    BY DEF AreTimes, Intervals
<1>3. AreTimes(StartTimesAfter(f, j, start, pending))
      /\ DOMAIN StartTimesAfter(f, j, start, pending) \subseteq pending
    <2> DEFINE kept == {k \in pending \ {j} : \A i \in pending \ {j} : i <= k => i \in DOMAIN f}
               wait(k) == MinDelayAfter("start", k, j)
               v(k) == IF k = j THEN start
                       ELSE IF wait(k) >= 0
                       THEN Interval(f[k].min, MinOf(f[k].max, start.max - wait(k)))
                       ELSE f[k]
               g == StartTimesAfter(f, j, start, pending)
    <2>1. g = [k \in kept \cup (pending \cap {j}) |-> v(k)]
        BY DEF StartTimesAfter
    <2>2. kept \in SUBSET pending /\ \A k \in kept : k \in DOMAIN f
        <3>1. \A k \in kept : k \in pending \ {j} /\ k <= k
            BY ProblemFacts
        <3>2. QED BY <3>1
    <2>3. ASSUME NEW k \in kept \cup (pending \cap {j}) PROVE v(k) \in Intervals(Int)
        <3>1. CASE k = j
            BY <1>1, <3>1
        <3>2. CASE k # j
            <4>1. k \in DOMAIN f /\ wait(k) \in Int
                BY <2>2, <3>2, MinDelayType DEF Types
            <4> HIDE DEF wait
            <4>2. MinOf(f[k].max, start.max - wait(k)) \in Int
                BY <1>1, <1>2, <4>1 DEF MinOf
            <4>3. Interval(f[k].min, MinOf(f[k].max, start.max - wait(k))) \in Intervals(Int)
                BY <1>2, <4>1, <4>2, IntervalOfInts
            <4>4. QED BY <1>2, <3>2, <4>1, <4>3
        <3>3. QED BY <3>1, <3>2
    <2> HIDE DEF v, kept, g
    <2>4. QED BY <2>1, <2>2, <2>3 DEF AreTimes, g
<1>4. AreTimes(FinishTimesAfter(f, j, start, finish, pending))
      /\ DOMAIN FinishTimesAfter(f, j, start, finish, pending) \subseteq pending
    <2> DEFINE kept == (pending \cap DOMAIN f) \ {j}
               wait(k) == MinDelayAfter("finish", k, j)
               latest(k) == IF NumCores = 1 /\ f[k].max > start.max THEN start.max
                            ELSE IF wait(k) >= 0 THEN MinOf(f[k].max, start.max - wait(k))
                            ELSE f[k].max
               v(k) == IF k = j THEN finish ELSE Interval(f[k].min, latest(k))
               g == FinishTimesAfter(f, j, start, finish, pending)
    <2>1. g = [k \in kept \cup (pending \cap {j}) |-> v(k)]
        BY DEF FinishTimesAfter
    <2>2. kept \in SUBSET pending /\ \A k \in kept : k \in DOMAIN f
        OBVIOUS
    <2>3. ASSUME NEW k \in kept \cup (pending \cap {j}) PROVE v(k) \in Intervals(Int)
        <3>1. CASE k = j
            BY <1>1, <3>1
        <3>2. CASE k # j
            <4>1. k \in DOMAIN f /\ wait(k) \in Int
                BY <2>2, <3>2, MinDelayType DEF Types
            <4> HIDE DEF wait
            <4>2. latest(k) \in Int
                BY <1>1, <1>2, <4>1 DEF MinOf
            <4> HIDE DEF latest
            <4>3. QED BY <1>2, <3>2, <4>1, <4>2, IntervalOfInts
        <3>3. QED BY <3>1, <3>2
    <2> HIDE DEF v, kept, g
    <2>4. QED BY <2>1, <2>2, <2>3 DEF AreTimes, g
<1>5. QED BY <1>3, <1>4

\* The dispatched job takes its cores, and every job that goes on running keeps
\* those that it has: together they are as many as there are cores.
LEMMA DispatchKeepsCores ==
    ASSUME DataOK, NEW s, IsState(s), HoldsCores(s), NEW j \in Jobs,
           NEW start \in Intervals(Nat), NEW finish \in Intervals(Nat),
           start.min <= finish.min, start.max <= finish.max,
           NEW u \in 1..NumCores, Avail(s, u).min <= start.min,
           NEW r, r = RunningAfter(s.running, j, start, finish, u),
           NEW f, f = CoresOfPredecessors(s.running, j),
           NEW a, a = Update(s.avail, start, finish, u, f)
    PROVE  /\ a \in Trackers(NumCores) /\ AreRunning(r)
           /\ DOMAIN r \subseteq DOMAIN s.running \cup {j}
           /\ \A t \in Nat : BusyUntil(a, CoresHeldBy(r, StillRunning(r, t)), t)
<1> DEFINE n == NumCores
           q == s.running
           P == DOMAIN q \cap MustBeFinished(j)
           kept == {k \in DOMAIN q \ MustBeFinished(j) : start.max < q[k].finish.min} \ {j}
           K(t) == {k \in kept : q[k].finish.min >= t}
<1>1. /\ n \in Nat /\ n > 0 /\ s.avail \in Trackers(n) /\ Len(s.avail) = n /\ AreRunning(q)
      /\ \A k \in DOMAIN q : q[k].finish.min \in Nat /\ q[k].cores.min \in Nat
      /\ start.min \in Nat /\ start.max \in Nat /\ finish.min \in Nat /\ start.min <= start.max
      /\ s.avail \in Trackers(NumCores)
    BY ProblemFacts, TrackerFacts DEF IsState, AreRunning, Intervals
<1>2. /\ r = [k \in kept \cup {j} |-> IF k = j THEN [cores |-> [min |-> u, max |-> u], finish |-> finish]
                                      ELSE q[k]]
    BY DEF RunningAfter
<1>3. /\ DOMAIN r = kept \cup {j} /\ j \notin kept /\ kept \in SUBSET (DOMAIN q)
      /\ r[j].cores = [min |-> u, max |-> u] /\ r[j].finish = finish
      /\ \A k \in kept : r[k] = q[k]
    BY <1>2
<1>4. AreRunning(r)
    <2>1. [min |-> u, max |-> u] \in Intervals(Nat)
        BY <1>1 DEF Intervals
    <2>2. DOMAIN q \in SUBSET Jobs
        BY <1>1 DEF AreRunning
    <2> HIDE DEF kept, q
    <2>3. QED BY <1>1, <1>3, <2>1, <2>2 DEF AreRunning
<1>5. ASSUME NEW t \in Nat
      PROVE  /\ CoresHeldBy(q, StillRunning(q, t)) \in 0..n
             /\ BusyUntil(s.avail, CoresHeldBy(q, StillRunning(q, t)), t)
    <2>1. BusyUntil(s.avail, CoresHeldBy(q, StillRunning(q, t)), t)
        BY DEF HoldsCores
    <2>2. CoresHeldBy(q, StillRunning(q, t)) \in Nat
        BY <1>1, HeldCoresFacts DEF StillRunning
    <2> HIDE DEF q
    <2>3. QED BY <1>1, <2>1, <2>2 DEF BusyUntil
<1>6. ASSUME NEW t \in Nat
      PROVE  CoresHeldBy(q, K(t)) \in 0..CoresHeldBy(q, StillRunning(q, t))
    <2>1. K(t) \in SUBSET (DOMAIN q) /\ K(t) \subseteq StillRunning(q, t) /\ StillRunning(q, t) \in SUBSET (DOMAIN q)
        BY DEF StillRunning
    <2>2. \A k \in K(t) : q[k].cores.min <= q[k].cores.min
        BY <1>1, <2>1
    <2> HIDE DEF K, q
    <2>3. CoresHeldBy(q, K(t)) <= CoresHeldBy(q, StillRunning(q, t))
        BY <1>1, <2>1, <2>2, FewerCores
    <2>4. CoresHeldBy(q, K(t)) \in Nat /\ CoresHeldBy(q, StillRunning(q, t)) \in Nat
        BY <1>1, <2>1, HeldCoresFacts
    <2>5. QED BY <2>3, <2>4
<1>7. ASSUME NEW t \in Nat
      PROVE  BusyUntil(s.avail, CoresHeldBy(q, K(t)), t)
    <2>1. CoresHeldBy(q, StillRunning(q, t)) \in Nat
        BY <1>5
    <2>2. t \in 0..t
        OBVIOUS
    <2> HIDE DEF q, K
    <2>3. PICK c \in Nat : c = CoresHeldBy(q, StillRunning(q, t))
        BY <2>1
    <2>4. PICK d \in 0..c : d = CoresHeldBy(q, K(t))
        BY <1>6, <2>3
    <2>5. BusyUntil(s.avail, c, t)
        BY <1>5, <2>3
    <2>6. BusyUntil(s.avail, d, t)
        BY <1>1, <2>2, <2>5, FewerBusy
    <2>7. QED BY <2>4, <2>6
<1>8. f = CoresHeldBy(q, P) /\ f \in 0..n
    <2>1. P \in SUBSET (DOMAIN q) /\ P \subseteq StillRunning(q, 0) /\ StillRunning(q, 0) \in SUBSET (DOMAIN q)
        BY <1>1 DEF StillRunning
    <2>2. \A k \in P : q[k].cores.min <= q[k].cores.min
        BY <1>1, <2>1
    <2>3. f = CoresHeldBy(q, P)
        BY DEF CoresOfPredecessors
    <2> HIDE DEF P, q
    <2>4. CoresHeldBy(q, P) <= CoresHeldBy(q, StillRunning(q, 0))
        BY <1>1, <2>1, <2>2, FewerCores
    <2>5. CoresHeldBy(q, P) \in Nat
        BY <1>1, <2>1, HeldCoresFacts
    <2>6. CoresHeldBy(q, StillRunning(q, 0)) \in 0..n
        BY <1>5
    <2>7. QED BY <1>1, <2>3, <2>4, <2>5, <2>6
<1>9. ASSUME NEW t \in Nat
      PROVE  CoresHeldBy(q, K(t)) + f <= n
    <2>1. /\ K(t) \in SUBSET (DOMAIN q) /\ P \in SUBSET (DOMAIN q) /\ K(t) \cap P = {}
          /\ K(t) \cup P \in SUBSET (DOMAIN q)
          /\ K(t) \cup P \subseteq StillRunning(q, 0) /\ StillRunning(q, 0) \in SUBSET (DOMAIN q)
        BY <1>1 DEF StillRunning
    <2>2. \A k \in K(t) \cup P : q[k].cores.min <= q[k].cores.min
        BY <1>1, <2>1
    <2> HIDE DEF K, P, q
    <2>3. CoresHeldBy(q, K(t) \cup P) = CoresHeldBy(q, K(t)) + CoresHeldBy(q, P)
        BY <1>1, <2>1, CoresOfBoth
    <2>4. CoresHeldBy(q, K(t) \cup P) <= CoresHeldBy(q, StillRunning(q, 0))
        BY <1>1, <2>1, <2>2, FewerCores
    <2>5. CoresHeldBy(q, StillRunning(q, 0)) \in 0..n
        BY <1>5
    <2>6. CoresHeldBy(q, K(t)) \in Nat /\ CoresHeldBy(q, P) \in Nat
        BY <1>1, <2>1, HeldCoresFacts
    <2>7. QED BY <1>1, <1>8, <2>3, <2>4, <2>5, <2>6
<1>10. ASSUME NEW t \in Nat
       PROVE  CoresHeldBy(q, K(t)) + u <= n
    <2> DEFINE t1 == MaxOf(t, start.max + 1)
    <2>1. t1 \in Nat /\ t1 > start.max
        BY <1>1 DEF MaxOf
    <2>2. K(t1) = K(t)
        BY <1>1 DEF MaxOf
    <2> HIDE DEF t1
    <2>3. BusyUntil(s.avail, CoresHeldBy(q, K(t)), t1)
        BY <1>7, <2>1, <2>2
    <2>4. CoresHeldBy(q, K(t)) \in Nat
        BY <1>5, <1>6
    <2> DEFINE c == CoresHeldBy(q, K(t))
    <2>5. c \in Nat /\ BusyUntil(s.avail, c, t1)
        BY <2>3, <2>4
    <2> HIDE DEF c
    <2>6. SUFFICES ASSUME c + u > n PROVE FALSE
        BY <1>1, <2>5 DEF c
    <2>7. c <= n /\ c > 0 /\ s.avail[n - c + 1].min >= t1
        BY <1>1, <2>5, <2>6 DEF BusyUntil
    <2>8. n - c + 1 \in 1..n /\ n - c + 1 <= u
        BY <1>1, <2>5, <2>6, <2>7
    <2>9. s.avail[n - c + 1].min <= s.avail[u].min /\ s.avail[n - c + 1].min \in Nat /\ s.avail[u].min \in Nat
        BY <1>1, <2>8, TrackerFacts
    <2>10. s.avail[u].min <= start.min
        BY DEF Avail
    <2>11. QED BY <1>1, <2>1, <2>7, <2>9, <2>10
<1>11. ASSUME NEW t \in Nat
       PROVE  /\ BusyUntil(a, CoresHeldBy(q, K(t)), t)
              /\ t <= finish.min => BusyUntil(a, CoresHeldBy(q, K(t)) + u, t)
    <2>1. CoresHeldBy(q, K(t)) \in 0..(n - MaxOf(f, u))
        <3>1. CoresHeldBy(q, K(t)) \in Nat
            BY <1>5, <1>6
        <3>2. CoresHeldBy(q, K(t)) + f <= n /\ CoresHeldBy(q, K(t)) + u <= n
            BY <1>9, <1>10
        <3> HIDE DEF K, q
        <3>3. QED BY <1>1, <1>8, <3>1, <3>2 DEF MaxOf
    <2>2. BusyUntil(s.avail, CoresHeldBy(q, K(t)), t)
        BY <1>7
    <2> HIDE DEF K, q, n
    <2>3. PICK c \in 0..(n - MaxOf(f, u)) : c = CoresHeldBy(q, K(t))
        BY <2>1
    <2>4. BusyUntil(s.avail, c, t)
        BY <2>2, <2>3
    <2>5. /\ BusyUntil(Update(s.avail, start, finish, u, f), c, t)
          /\ t <= finish.min => BusyUntil(Update(s.avail, start, finish, u, f), c + u, t)
        BY <1>1, <1>8, <2>4, UpdateKeepsBusy DEF n
    <2>6. QED BY <2>3, <2>5
<1>12. a \in Trackers(n)
    <2> DEFINE base == MaxOf(f, u)
               pa == Inserted(EarliestLeft(s.avail, base), start.min, finish.min, u, n - base)
               ca == Inserted(LatestLeft(s.avail, base), start.min, finish.max, u, n - base)
    <2>1. base = MaxOf(f, u) /\ pa = Inserted(EarliestLeft(s.avail, base), start.min, finish.min, u, n - base)
          /\ ca = Inserted(LatestLeft(s.avail, base), start.min, finish.max, u, n - base)
        OBVIOUS
    <2> HIDE DEF base, pa, ca
    <2>2. QED BY <1>1, <1>8, <2>1, UpdateFacts
<1>13. ASSUME NEW t \in Nat
       PROVE  CoresHeldBy(r, StillRunning(r, t))
                = IF t <= finish.min THEN CoresHeldBy(q, K(t)) + u ELSE CoresHeldBy(q, K(t))
    <2>1. StillRunning(r, t) = IF t <= finish.min THEN K(t) \cup {j} ELSE K(t)
        BY <1>1, <1>3 DEF StillRunning
    <2>2. CoresHeldBy(r, K(t)) = CoresHeldBy(q, K(t))
        <3>1. K(t) \in SUBSET (DOMAIN r) /\ K(t) \in SUBSET (DOMAIN q)
            BY <1>3
        <3>2. \A k \in K(t) : /\ r[k].cores.min <= q[k].cores.min
                              /\ q[k].cores.min <= r[k].cores.min
            BY <1>1, <1>3
        <3> HIDE DEF K, q
        <3>3. CoresHeldBy(r, K(t)) <= CoresHeldBy(q, K(t)) /\ CoresHeldBy(q, K(t)) <= CoresHeldBy(r, K(t))
            BY <1>1, <1>4, <3>1, <3>2, FewerCores
        <3>4. CoresHeldBy(r, K(t)) \in Nat /\ CoresHeldBy(q, K(t)) \in Nat
            BY <1>1, <1>4, <3>1, HeldCoresFacts
        <3>5. QED BY <3>3, <3>4
    <2>3. /\ K(t) \in SUBSET (DOMAIN r) /\ {j} \in SUBSET (DOMAIN r) /\ K(t) \cap {j} = {}
          /\ j \in DOMAIN r /\ r[j].cores.min = u /\ u \in Nat
        BY <1>1, <1>3
    <2> HIDE DEF K, q
    <2>4. CoresHeldBy(r, {j}) = u
        BY <1>4, <2>3, CoresOfOne
    <2>5. CoresHeldBy(r, K(t) \cup {j}) = CoresHeldBy(r, K(t)) + CoresHeldBy(r, {j})
        BY <1>4, <2>3, CoresOfBoth
    <2>6. QED BY <2>1, <2>2, <2>4, <2>5
<1>14. \A t \in Nat : BusyUntil(a, CoresHeldBy(r, StillRunning(r, t)), t)
    <2> HIDE DEF K, q
    <2>1. QED BY <1>11, <1>13
<1>15. QED BY <1>3, <1>4, <1>12, <1>14

\* What a node promises of each of its states.
IsStateOf(n, s) ==
    /\ IsState(s) /\ HoldsCores(s)
    /\ DOMAIN s.running \cup DOMAIN s.start \cup DOMAIN s.finish \subseteq n.scheduled
    /\ s.min_prio \in n.ready \cup {0}

LEMMA NewStateFacts ==
    ASSUME DataOK, NEW from, NEW parent, IsStateOf(parent, from), NEW j \in Jobs,
           NEW start \in Intervals(Nat), NEW finish \in Intervals(Nat),
           start.min <= finish.min, start.max <= finish.max,
           NEW u \in 1..NumCores, Avail(from, u).min <= start.min,
           NEW n, n.ready \in SUBSET Jobs, n.scheduled \in SUBSET Jobs,
           \A type \in Types : n.pending[type] \subseteq n.scheduled,
           parent.scheduled \cup {j} \subseteq n.scheduled
    PROVE  IsStateOf(n, NewState(n, from, j, start, finish, u))
<1> DEFINE f == CoresOfPredecessors(from.running, j)
           a == Update(from.avail, start, finish, u, f)
           r == RunningAfter(from.running, j, start, finish, u)
           st == StartTimesAfter(from.start, j, start, n.pending["start"])
           ft == FinishTimesAfter(from.finish, j, start, finish, n.pending["finish"])
           s == [from EXCEPT !.avail = a, !.running = r, !.start = st, !.finish = ft]
           w == NewState(n, from, j, start, finish, u)
<1>1. w = WithDispatchTimes(n, s)
    BY DEF NewState
<1>2. IsState(from) /\ HoldsCores(from) /\ DOMAIN from = StateFields
      /\ DOMAIN from.running \subseteq parent.scheduled
    BY DEF IsStateOf, IsState
<1>3. /\ a \in Trackers(NumCores) /\ AreRunning(r)
      /\ DOMAIN r \subseteq DOMAIN from.running \cup {j}
      /\ \A t \in Nat : BusyUntil(a, CoresHeldBy(r, StillRunning(r, t)), t)
    <2>1. f = CoresOfPredecessors(from.running, j) /\ a = Update(from.avail, start, finish, u, f)
          /\ r = RunningAfter(from.running, j, start, finish, u)
        OBVIOUS
    <2> HIDE DEF f, a, r
    <2>2. QED BY <1>2, <2>1, DispatchKeepsCores
<1>4. /\ n.pending["start"] \in SUBSET n.scheduled /\ n.pending["finish"] \in SUBSET n.scheduled
      /\ n.pending["start"] \in SUBSET Jobs /\ n.pending["finish"] \in SUBSET Jobs
    BY DEF Types
<1>5. /\ AreTimes(st) /\ DOMAIN st \subseteq n.pending["start"]
      /\ AreTimes(ft) /\ DOMAIN ft \subseteq n.pending["finish"]
    <2>1. AreTimes(from.start) /\ AreTimes(from.finish)
        BY <1>2 DEF IsState
    <2>2. QED BY <1>4, <2>1, RecordedTimesAfter
<1> HIDE DEF a, r, st, ft
<1>6. /\ DOMAIN s = StateFields /\ s.avail = a /\ s.running = r /\ s.start = st /\ s.finish = ft
      /\ s.succ = from.succ /\ s.gang = from.gang /\ s.mutex = from.mutex
    BY <1>2 DEF StateFields
<1> HIDE DEF s
<1>7. IsState(s)
    BY <1>2, <1>3, <1>5, <1>6 DEF IsState
<1> HIDE DEF w
<1>8. /\ IsState(w)
      /\ w.avail = a /\ w.running = r /\ w.start = st /\ w.finish = ft
      /\ w.min_prio \in n.ready \cup {0}
    <2>1. /\ IsState(w) /\ w.avail = s.avail /\ w.running = s.running
          /\ w.start = s.start /\ w.finish = s.finish /\ w.min_prio = MinPriorityJob(n, s)
        BY <1>1, <1>7, DispatchTimesFacts
    <2>2. MinPriorityJob(n, s) \in n.ready \cup {0}
        BY MinPriorityFacts
    <2>3. QED BY <1>6, <2>1, <2>2
<1>9. HoldsCores(w)
    BY <1>3, <1>8 DEF HoldsCores
<1>10. DOMAIN w.running \cup DOMAIN w.start \cup DOMAIN w.finish \subseteq n.scheduled
    BY <1>2, <1>3, <1>4, <1>5, <1>8
<1>11. QED BY <1>8, <1>9, <1>10 DEF IsStateOf, w

-----------------------------------------------------------------------------
(***************************************************************************)
(* The state that two states are merged into.                              *)
(***************************************************************************)

LEMMA WidenFacts ==
    ASSUME NEW T \in {Nat, Int}, NEW a \in Intervals(T), NEW b \in Intervals(T)
    PROVE  /\ Widen(a, b) \in Intervals(T)
           /\ Widen(a, b).min <= a.min /\ Widen(a, b).min <= b.min
           /\ a.max <= Widen(a, b).max /\ b.max <= Widen(a, b).max
BY DEF Widen, Intervals, MinOf, MaxOf

LEMMA WidenTimesFacts ==
    ASSUME DataOK, NEW f, AreTimes(f), NEW g, AreTimes(g)
    PROVE  AreTimes(WidenTimes(f, g)) /\ DOMAIN WidenTimes(f, g) = DOMAIN f
<1>1. \A k \in DOMAIN f : k \in DOMAIN g => Widen(f[k], g[k]) \in Intervals(Int)
    BY WidenFacts DEF AreTimes
<1>2. QED BY <1>1 DEF WidenTimes, AreTimes

LEMMA MergeKeepsCores ==
    ASSUME DataOK, NEW s, IsState(s), HoldsCores(s), NEW t, IsState(t), HoldsCores(t),
           NEW r, r = MergeRunning(s.running, t.running),
           NEW a, a = MergeAvailability(s.avail, t.avail)
    PROVE  /\ a \in Trackers(NumCores) /\ AreRunning(r) /\ DOMAIN r \subseteq DOMAIN s.running
           /\ \A h \in Nat : BusyUntil(a, CoresHeldBy(r, StillRunning(r, h)), h)
<1> DEFINE p == s.running
           q == t.running
<1>1. /\ NumCores \in Nat /\ s.avail \in Trackers(NumCores) /\ t.avail \in Trackers(NumCores)
      /\ AreRunning(p) /\ AreRunning(q)
    BY ProblemFacts DEF IsState
<1>2. a \in Trackers(NumCores)
    BY <1>1, MergeFacts
<1>3. /\ DOMAIN r \in SUBSET (DOMAIN p) /\ DOMAIN r \in SUBSET (DOMAIN q)
      /\ \A k \in DOMAIN r : r[k].cores = Widen(p[k].cores, q[k].cores)
                             /\ r[k].finish = Widen(p[k].finish, q[k].finish)
    BY DEF MergeRunning
<1>4. ASSUME NEW k \in DOMAIN r
      PROVE  /\ r[k].cores \in Intervals(Nat) /\ r[k].finish \in Intervals(Nat)
             /\ r[k].cores.min <= p[k].cores.min /\ r[k].cores.min <= q[k].cores.min
             /\ r[k].finish.min <= p[k].finish.min /\ r[k].finish.min <= q[k].finish.min
             /\ r[k].finish.min \in Nat /\ p[k].finish.min \in Nat /\ q[k].finish.min \in Nat
    <2>1. /\ p[k].cores \in Intervals(Nat) /\ p[k].finish \in Intervals(Nat)
          /\ q[k].cores \in Intervals(Nat) /\ q[k].finish \in Intervals(Nat)
        BY <1>1, <1>3 DEF AreRunning
    <2>2. r[k].cores = Widen(p[k].cores, q[k].cores) /\ r[k].finish = Widen(p[k].finish, q[k].finish)
        BY <1>3
    <2> HIDE DEF p, q
    <2>3. r[k].cores \in Intervals(Nat) /\ r[k].finish \in Intervals(Nat)
        BY <2>1, <2>2, WidenFacts
    <2>4. r[k].cores.min <= p[k].cores.min /\ r[k].cores.min <= q[k].cores.min
        BY <2>1, <2>2, WidenFacts
    <2>5. r[k].finish.min <= p[k].finish.min /\ r[k].finish.min <= q[k].finish.min
        BY <2>1, <2>2, WidenFacts
    <2>6. QED BY <2>1, <2>3, <2>4, <2>5 DEF Intervals
<1>5. AreRunning(r)
    <2>1. DOMAIN p \in SUBSET Jobs
        BY <1>1 DEF AreRunning
    <2> HIDE DEF p, q
    <2>2. QED BY <1>3, <1>4, <2>1 DEF AreRunning
<1>6. ASSUME NEW h \in Nat
      PROVE  BusyUntil(a, CoresHeldBy(r, StillRunning(r, h)), h)
    <2> DEFINE R == StillRunning(r, h)
    <2>1. /\ R \in SUBSET (DOMAIN r)
          /\ R \subseteq StillRunning(p, h) /\ StillRunning(p, h) \in SUBSET (DOMAIN p)
          /\ R \subseteq StillRunning(q, h) /\ StillRunning(q, h) \in SUBSET (DOMAIN q)
          /\ R \subseteq DOMAIN p /\ R \subseteq DOMAIN q
        <3>1. ASSUME NEW k \in R PROVE k \in StillRunning(p, h) /\ k \in StillRunning(q, h)
            <4>1. k \in DOMAIN r /\ r[k].finish.min >= h
                BY DEF StillRunning
            <4>2. p[k].finish.min >= h /\ q[k].finish.min >= h
                BY <1>4, <4>1
            <4>3. QED BY <1>3, <4>1, <4>2 DEF StillRunning
        <3>2. QED BY <3>1 DEF StillRunning
    <2>2. \A k \in R : r[k].cores.min <= p[k].cores.min /\ r[k].cores.min <= q[k].cores.min
        BY <1>4, <2>1
    <2>3. /\ BusyUntil(s.avail, CoresHeldBy(p, StillRunning(p, h)), h)
          /\ BusyUntil(t.avail, CoresHeldBy(q, StillRunning(q, h)), h)
        BY DEF HoldsCores
    <2> HIDE DEF p, q, R
    <2>4. /\ CoresHeldBy(r, R) <= CoresHeldBy(p, StillRunning(p, h))
          /\ CoresHeldBy(r, R) <= CoresHeldBy(q, StillRunning(q, h))
        BY <1>1, <1>5, <2>1, <2>2, FewerCores
    <2>5. /\ CoresHeldBy(r, R) \in Nat /\ CoresHeldBy(p, StillRunning(p, h)) \in Nat
          /\ CoresHeldBy(q, StillRunning(q, h)) \in Nat
        BY <1>1, <1>5, <2>1, HeldCoresFacts
    <2>6. PICK c \in Nat : c = CoresHeldBy(r, R)
        BY <2>5
    <2>7. PICK cp \in Nat : cp = CoresHeldBy(p, StillRunning(p, h))
        BY <2>5
    <2>8. PICK cq \in Nat : cq = CoresHeldBy(q, StillRunning(q, h))
        BY <2>5
    <2>9. c \in 0..cp /\ c \in 0..cq /\ h \in 0..h
        BY <2>4, <2>6, <2>7, <2>8
    <2>10. BusyUntil(s.avail, cp, h) /\ BusyUntil(t.avail, cq, h)
        BY <2>3, <2>7, <2>8
    <2>11. BusyUntil(s.avail, c, h)
        BY <1>1, <2>9, <2>10, FewerBusy
    <2>12. BusyUntil(t.avail, c, h)
        BY <1>1, <2>9, <2>10, FewerBusy
    <2>13. BusyUntil(a, c, h)
        BY <1>1, <2>11, <2>12, MergeKeepsBusy
    <2>14. QED BY <2>6, <2>13 DEF R
<1>7. QED BY <1>2, <1>3, <1>5, <1>6

LEMMA MergeStateFacts ==
    ASSUME DataOK, NEW n, NEW s, IsStateOf(n, s), NEW t, IsStateOf(n, t)
    PROVE  IsStateOf(n, MergeState(s, t))
<1> DEFINE m == MergeState(s, t)
           a == MergeAvailability(s.avail, t.avail)
           r == MergeRunning(s.running, t.running)
<1>1. /\ DOMAIN m = StateFields /\ m.avail = a /\ m.running = r
      /\ m.start = WidenTimes(s.start, t.start) /\ m.finish = WidenTimes(s.finish, t.finish)
      /\ m.succ = MaxOf(s.succ, t.succ) /\ m.gang = MaxOf(s.gang, t.gang)
      /\ m.mutex = MaxOf(s.mutex, t.mutex) /\ m.min_prio = LowerPriority(s.min_prio, t.min_prio)
    BY DEF MergeState, StateFields
<1>2. /\ a \in Trackers(NumCores) /\ AreRunning(r) /\ DOMAIN r \subseteq DOMAIN s.running
      /\ \A h \in Nat : BusyUntil(a, CoresHeldBy(r, StillRunning(r, h)), h)
    <2>1. a = MergeAvailability(s.avail, t.avail) /\ r = MergeRunning(s.running, t.running)
        OBVIOUS
    <2> HIDE DEF a, r
    <2>2. QED BY <2>1, MergeKeepsCores DEF IsStateOf
<1>3. /\ AreTimes(m.start) /\ DOMAIN m.start = DOMAIN s.start
      /\ AreTimes(m.finish) /\ DOMAIN m.finish = DOMAIN s.finish
    <2>1. AreTimes(s.start) /\ AreTimes(t.start) /\ AreTimes(s.finish) /\ AreTimes(t.finish)
        BY DEF IsStateOf, IsState
    <2> HIDE DEF m
    <2>2. QED BY <1>1, <2>1, WidenTimesFacts
<1>4. m.succ \in Int /\ m.gang \in Int /\ m.mutex \in Int
    BY <1>1 DEF IsStateOf, IsState, MaxOf
<1>5. m.min_prio \in n.ready \cup {0}
    BY <1>1 DEF IsStateOf, LowerPriority
<1> HIDE DEF m, a, r
<1>6. IsState(m)
    BY <1>1, <1>2, <1>3, <1>4 DEF IsState
<1>7. HoldsCores(m)
    BY <1>1, <1>2 DEF HoldsCores
<1>8. DOMAIN m.running \cup DOMAIN m.start \cup DOMAIN m.finish \subseteq n.scheduled
    BY <1>1, <1>2, <1>3 DEF IsStateOf
<1>9. QED BY <1>5, <1>6, <1>7, <1>8 DEF IsStateOf, m

-----------------------------------------------------------------------------
(***************************************************************************)
(* The invariant.                                                          *)
(***************************************************************************)
IsList(q) == q \in Seq(Range(q))

NodeFields ==
    {"scheduled", "num_jobs_scheduled", "release", "seq_release", "source_release", "ready",
     "pending", "a_max", "next_succ", "next_gang", "next_mutex", "states"}

\* The bounds that the node keeps over its states.
WithinBounds(n, s) ==
    /\ Avail(s, NumCores).max <= n.a_max
    /\ s.succ <= n.next_succ /\ s.gang <= n.next_gang /\ s.mutex <= n.next_mutex

IsNode(n) ==
    /\ DOMAIN n = NodeFields
    /\ n.scheduled \in SUBSET Jobs /\ n.ready \in SUBSET Jobs
    /\ \A type \in Types : n.pending[type] \subseteq n.scheduled
    /\ n.seq_release \in Int
    /\ n.a_max \in Int /\ n.next_succ \in Int /\ n.next_gang \in Int /\ n.next_mutex \in Int
    /\ IsList(n.states)
    /\ \A s \in Range(n.states) : IsStateOf(n, s) /\ WithinBounds(n, s)

IsLayer(q) == IsList(q) /\ \A n \in Range(q) : IsNode(n)

\* What is left to do for a node: each of its jobs can be dispatched.
IsExpansion(e) ==
    /\ DOMAIN e = {"node", "jobs", "left", "next"}
    /\ IsNode(e.node)
    /\ e.jobs \in (SUBSET Jobs) \ {{}}
    /\ \A j \in e.jobs : Options(e.node, j) # {}
    /\ e.left # {} /\ e.left \subseteq Options(e.node, FirstOf(e.jobs))
    /\ e.next \in Nat

\* The node that the other states of the job being dispatched led to.
NextIsTarget ==
    exploring # Idle /\ exploring.next # 0 =>
        /\ exploring.next \in DOMAIN nodes[TargetDepth]
        /\ nodes[TargetDepth][exploring.next].scheduled
                = exploring.node.scheduled \cup Incompatible(CurrentJob)

NodesInv ==
    /\ DOMAIN nodes = 0..(NumLayers - 1)
    /\ \A l \in DOMAIN nodes : IsLayer(nodes[l])
    /\ exploring # Idle => IsExpansion(exploring)
    /\ NextIsTarget

ReportsInv ==
    /\ current_job_count \in 0..Len(problem.job)
    /\ observed_deadline_miss \in BOOLEAN /\ aborted \in BOOLEAN
    /\ DOMAIN completion \in SUBSET Jobs
    /\ \A j \in DOMAIN completion : completion[j] \in Intervals(Int)

IInv == DataOK /\ NodesInv /\ ReportsInv

-----------------------------------------------------------------------------
(***************************************************************************)
(* Lists.                                                                  *)
(***************************************************************************)

LEMMA ListFacts ==
    ASSUME NEW q, IsList(q)
    PROVE  /\ Len(q) \in Nat /\ DOMAIN q = 1..Len(q)
           /\ \A i \in DOMAIN q : q[i] \in Range(q)
           /\ \A x \in Range(q) : \E i \in DOMAIN q : q[i] = x
BY LenProperties DEF IsList, Range

LEMMA ListOfElements ==
    ASSUME NEW S, NEW q \in Seq(S)
    PROVE  IsList(q) /\ Range(q) \in SUBSET S
BY SeqOfRange, RangeOfSeq DEF IsList

LEMMA RemovedFacts ==
    ASSUME NEW q, IsList(q), NEW i \in DOMAIN q
    PROVE  IsList(RemoveAt(q, i)) /\ Range(RemoveAt(q, i)) \subseteq Range(q)
<1> DEFINE S == Range(q)
           a == SubSeq(q, 1, i - 1)
           b == SubSeq(q, i + 1, Len(q))
<1>1. Len(q) \in Nat /\ DOMAIN q = 1..Len(q) /\ i \in 1..Len(q)
    BY ListFacts
<1>2. \A k \in 1..Len(q) : q[k] \in S
    BY <1>1, ListFacts
<1> HIDE DEF S
<1>3. a \in Seq(S)
    <2>1. 1 \in Int /\ i - 1 \in Int /\ \A k \in 1..(i - 1) : q[k] \in S
        BY <1>1, <1>2
    <2>2. QED BY <2>1, SubSeqProperties
<1>4. b \in Seq(S)
    <2>1. i + 1 \in Int /\ Len(q) \in Int /\ \A k \in (i + 1)..Len(q) : q[k] \in S
        BY <1>1, <1>2
    <2>2. QED BY <2>1, SubSeqProperties
<1> HIDE DEF a, b
<1>5. a \o b \in Seq(S)
    BY <1>3, <1>4, ConcatProperties
<1>6. RemoveAt(q, i) = a \o b
    BY DEF RemoveAt, a, b
<1>7. QED BY <1>5, <1>6, ListOfElements DEF S

LEMMA ReplacedFacts ==
    ASSUME NEW q, IsList(q), NEW i \in DOMAIN q, NEW x
    PROVE  /\ IsList(ReplaceAt(q, i, x)) /\ Range(ReplaceAt(q, i, x)) \subseteq Range(q) \cup {x}
           /\ DOMAIN ReplaceAt(q, i, x) = DOMAIN q /\ ReplaceAt(q, i, x)[i] = x
           /\ \A k \in DOMAIN q : k # i => ReplaceAt(q, i, x)[k] = q[k]
<1> DEFINE S == Range(q) \cup {x}
           e == [q EXCEPT ![i] = x]
<1>1. q \in Seq(S) /\ x \in S
    BY SeqMonotonic DEF IsList
<1>2. i \in 1..Len(q) /\ DOMAIN q = 1..Len(q)
    BY ListFacts
<1> HIDE DEF S
<1>3. /\ e \in Seq(S) /\ Len(e) = Len(q)
      /\ \A k \in 1..Len(q) : e[k] = IF k = i THEN x ELSE q[k]
    BY <1>1, <1>2, ExceptSeq
<1> HIDE DEF e
<1>4. DOMAIN e = DOMAIN q
    BY <1>2, <1>3, LenProperties
<1>5. ReplaceAt(q, i, x) = e
    BY DEF ReplaceAt, e
<1>6. QED BY <1>2, <1>3, <1>4, <1>5, ListOfElements DEF S

LEMMA AppendedFacts ==
    ASSUME NEW q, IsList(q), NEW x
    PROVE  /\ IsList(Append(q, x)) /\ Range(Append(q, x)) \subseteq Range(q) \cup {x}
           /\ DOMAIN Append(q, x) = 1..(Len(q) + 1) /\ Len(Append(q, x)) = Len(q) + 1
           /\ Append(q, x)[Len(q) + 1] = x
           /\ \A k \in DOMAIN q : Append(q, x)[k] = q[k]
<1> DEFINE S == Range(q) \cup {x}
           e == Append(q, x)
<1>1. q \in Seq(S) /\ x \in S
    BY SeqMonotonic DEF IsList
<1>2. DOMAIN q = 1..Len(q)
    BY ListFacts
<1> HIDE DEF S
<1>3. /\ e \in Seq(S) /\ Len(e) = Len(q) + 1
      /\ \A k \in 1..Len(q) : e[k] = q[k]
      /\ e[Len(q) + 1] = x
    BY <1>1, AppendProperties
<1> HIDE DEF e
<1>4. DOMAIN e = 1..(Len(q) + 1)
    BY <1>3, LenProperties
<1>5. IsList(e) /\ Range(e) \subseteq Range(q) \cup {x}
    BY <1>3, ListOfElements DEF S
<1>6. QED BY <1>2, <1>3, <1>4, <1>5 DEF e

LEMMA JoinedFacts ==
    ASSUME NEW p, IsList(p), NEW q, IsList(q)
    PROVE  IsList(p \o q) /\ Range(p) \cup Range(q) \subseteq Range(p \o q)
<1> DEFINE S == Range(p) \cup Range(q)
           w == p \o q
<1>1. p \in Seq(S) /\ q \in Seq(S)
    <2>1. Range(p) \subseteq S /\ Range(q) \subseteq S
        OBVIOUS
    <2> HIDE DEF S
    <2>2. QED BY <2>1, SeqMonotonic DEF IsList
<1> HIDE DEF S
<1>2. /\ w \in Seq(S) /\ Len(w) = Len(p) + Len(q)
      /\ \A i \in 1..Len(w) : w[i] = IF i <= Len(p) THEN p[i] ELSE q[i - Len(p)]
    BY <1>1, ConcatProperties
<1>3. IsList(w)
    BY <1>2, ListOfElements
<1>4. PICK a \in Nat : a = Len(p) /\ DOMAIN p = 1..a
    BY ListFacts
<1>5. PICK b \in Nat : b = Len(q) /\ DOMAIN q = 1..b
    BY ListFacts
<1> HIDE DEF w
<1>6. Len(w) = a + b /\ DOMAIN w = 1..(a + b) /\ \A i \in DOMAIN w : w[i] \in Range(w)
    BY <1>2, <1>3, <1>4, <1>5, ListFacts
<1>7. ASSUME NEW x \in Range(p) PROVE x \in Range(w)
    <2>1. PICK i \in 1..a : p[i] = x
        BY <1>4, ListFacts
    <2>2. i \in 1..(a + b) /\ i <= Len(p)
        BY <1>4
    <2>3. QED BY <1>2, <1>6, <2>1, <2>2
<1>8. ASSUME NEW x \in Range(q) PROVE x \in Range(w)
    <2>1. PICK i \in 1..b : q[i] = x
        BY <1>5, ListFacts
    <2>2. a + i \in 1..(a + b) /\ ~(a + i <= a) /\ (a + i) - a = i
        OBVIOUS
    <2>3. w[a + i] = q[i]
        BY <1>2, <1>4, <1>6, <2>2
    <2>4. QED BY <1>6, <2>1, <2>2, <2>3
<1>9. QED BY <1>3, <1>7, <1>8 DEF w

LEMMA EmptyList == IsList(<<>>) /\ Range(<<>>) = {} /\ DOMAIN <<>> = {}
<1>1. <<>> \in Seq({})
    BY EmptySeq
<1>2. IsList(<<>>) /\ Range(<<>>) \in SUBSET {}
    BY <1>1, ListOfElements
<1>3. DOMAIN <<>> = {}
    OBVIOUS
<1>4. QED BY <1>2, <1>3

-----------------------------------------------------------------------------
(***************************************************************************)
(* States are added to a node and merged.                                  *)
(***************************************************************************)
LEMMA WithBoundsFacts ==
    ASSUME DataOK, NEW n, IsNode(n), NEW s, IsStateOf(n, s),
           NEW m, m = WithBounds(n, s)
    PROVE  /\ IsNode(m)
           /\ m.scheduled = n.scheduled /\ m.ready = n.ready /\ m.pending = n.pending
           /\ m.states = n.states /\ m.num_jobs_scheduled = n.num_jobs_scheduled
           /\ WithinBounds(m, s) /\ IsStateOf(m, s)
<1> DEFINE a == Avail(s, NumCores).max
<1>1. /\ DOMAIN n = NodeFields
      /\ n.a_max \in Int /\ n.next_succ \in Int /\ n.next_gang \in Int /\ n.next_mutex \in Int
    BY DEF IsNode
<1>2. a \in Int /\ s.succ \in Int /\ s.gang \in Int /\ s.mutex \in Int
    <2>1. IsState(s) /\ NumCores \in 1..NumCores
        BY ProblemFacts DEF IsStateOf
    <2>2. QED BY <2>1, AvailType DEF IsState
<1>3. /\ DOMAIN m = NodeFields
      /\ m.a_max = MaxOf(n.a_max, a) /\ m.next_succ = MaxOf(n.next_succ, s.succ)
      /\ m.next_gang = MaxOf(n.next_gang, s.gang) /\ m.next_mutex = MaxOf(n.next_mutex, s.mutex)
      /\ m.scheduled = n.scheduled /\ m.num_jobs_scheduled = n.num_jobs_scheduled
      /\ m.release = n.release /\ m.seq_release = n.seq_release
      /\ m.source_release = n.source_release /\ m.ready = n.ready /\ m.pending = n.pending
      /\ m.states = n.states
    BY <1>1 DEF WithBounds, NodeFields
<1> HIDE DEF a
<1>4. /\ m.a_max \in Int /\ n.a_max <= m.a_max /\ a <= m.a_max
      /\ m.next_succ \in Int /\ n.next_succ <= m.next_succ /\ s.succ <= m.next_succ
      /\ m.next_gang \in Int /\ n.next_gang <= m.next_gang /\ s.gang <= m.next_gang
      /\ m.next_mutex \in Int /\ n.next_mutex <= m.next_mutex /\ s.mutex <= m.next_mutex
    BY <1>1, <1>2, <1>3 DEF MaxOf
<1>5. WithinBounds(m, s)
    BY <1>4 DEF WithinBounds, a
<1>6. ASSUME NEW t \in Range(m.states) PROVE IsStateOf(m, t) /\ WithinBounds(m, t)
    <2>1. IsStateOf(n, t) /\ WithinBounds(n, t)
        BY <1>3, <1>6 DEF IsNode
    <2>2. IsStateOf(m, t)
        BY <1>3, <2>1 DEF IsStateOf
    <2>3. Avail(t, NumCores).max \in Int /\ t.succ \in Int /\ t.gang \in Int /\ t.mutex \in Int
        <3>1. IsState(t) /\ NumCores \in 1..NumCores
            BY <2>1, ProblemFacts DEF IsStateOf
        <3>2. QED BY <3>1, AvailType DEF IsState
    <2> DEFINE b == Avail(t, NumCores).max
    <2>4. b <= n.a_max /\ t.succ <= n.next_succ /\ t.gang <= n.next_gang /\ t.mutex <= n.next_mutex
        BY <2>1 DEF WithinBounds
    <2> HIDE DEF b
    <2>5. b <= m.a_max /\ t.succ <= m.next_succ /\ t.gang <= m.next_gang /\ t.mutex <= m.next_mutex
        BY <1>1, <1>4, <2>3, <2>4 DEF b
    <2>6. QED BY <2>2, <2>5 DEF WithinBounds, b
<1>7. IsStateOf(m, s)
    BY <1>3 DEF IsStateOf
<1>8. IsNode(m)
    BY <1>3, <1>4, <1>6 DEF IsNode
<1>9. QED BY <1>3, <1>5, <1>7, <1>8

LEMMA WithStatesFacts ==
    ASSUME NEW n, IsNode(n), NEW q, IsList(q),
           \A s \in Range(q) : IsStateOf(n, s) /\ WithinBounds(n, s),
           NEW m, m = [n EXCEPT !.states = q]
    PROVE  /\ IsNode(m) /\ m.states = q
           /\ m.scheduled = n.scheduled /\ m.num_jobs_scheduled = n.num_jobs_scheduled
           /\ m.ready = n.ready /\ m.pending = n.pending
<1>1. /\ DOMAIN m = NodeFields /\ m.states = q
      /\ \A f \in NodeFields \ {"states"} : m[f] = n[f]
    BY DEF IsNode, NodeFields
<1>2. /\ m.scheduled = n.scheduled /\ m.num_jobs_scheduled = n.num_jobs_scheduled
      /\ m.ready = n.ready /\ m.pending = n.pending /\ m.seq_release = n.seq_release
      /\ m.a_max = n.a_max /\ m.next_succ = n.next_succ /\ m.next_gang = n.next_gang
      /\ m.next_mutex = n.next_mutex
    BY <1>1 DEF NodeFields
<1>3. \A s \in Range(m.states) : IsStateOf(m, s) /\ WithinBounds(m, s)
    BY <1>1, <1>2 DEF IsStateOf, WithinBounds
<1>4. QED BY <1>1, <1>2, <1>3 DEF IsNode

LEMMA AddStateFacts ==
    ASSUME DataOK, NEW n, IsNode(n), NEW s, IsStateOf(n, s)
    PROVE  /\ IsNode(AddState(n, s)) /\ AddState(n, s).states # <<>>
           /\ AddState(n, s).scheduled = n.scheduled
           /\ AddState(n, s).num_jobs_scheduled = n.num_jobs_scheduled
           /\ AddState(n, s).ready = n.ready /\ AddState(n, s).pending = n.pending
<1> DEFINE m == WithBounds(n, s)
           q == Append(m.states, s)
<1>1. /\ IsNode(m) /\ m.scheduled = n.scheduled /\ m.ready = n.ready /\ m.pending = n.pending
      /\ m.states = n.states /\ m.num_jobs_scheduled = n.num_jobs_scheduled
      /\ WithinBounds(m, s) /\ IsStateOf(m, s)
    <2>1. m = WithBounds(n, s)
        OBVIOUS
    <2> HIDE DEF m
    <2>2. QED BY <2>1, WithBoundsFacts
<1>2. AddState(n, s) = [m EXCEPT !.states = q]
    BY DEF AddState
<1> HIDE DEF m
<1>3. IsList(q) /\ Range(q) \subseteq Range(m.states) \cup {s} /\ q # <<>>
    <2>1. IsList(m.states)
        BY <1>1 DEF IsNode
    <2>2. /\ IsList(q) /\ Range(q) \subseteq Range(m.states) \cup {s}
          /\ Len(q) = Len(m.states) + 1 /\ Len(m.states) \in Nat
        BY <2>1, AppendedFacts, ListFacts
    <2> HIDE DEF q
    <2>3. Len(<<>>) = 0
        BY EmptySeq
    <2>4. QED BY <2>2, <2>3
<1>4. \A t \in Range(q) : IsStateOf(m, t) /\ WithinBounds(m, t)
    BY <1>1, <1>3 DEF IsNode
<1> HIDE DEF q
<1> DEFINE w == AddState(n, s)
<1>5. w = [m EXCEPT !.states = q]
    BY <1>2
<1> HIDE DEF w
<1>6. /\ IsNode(w) /\ w.states = q
      /\ w.scheduled = m.scheduled /\ w.num_jobs_scheduled = m.num_jobs_scheduled
      /\ w.ready = m.ready /\ w.pending = m.pending
    BY <1>1, <1>3, <1>4, <1>5, WithStatesFacts
<1>7. QED BY <1>1, <1>3, <1>6 DEF w

LEMMA MergedIsWithin ==
    ASSUME DataOK, NEW n, NEW s, IsStateOf(n, s), WithinBounds(n, s),
           NEW t, IsStateOf(n, t), WithinBounds(n, t)
    PROVE  IsStateOf(n, MergeState(s, t)) /\ WithinBounds(n, MergeState(s, t))
<1> DEFINE m == MergeState(s, t)
<1>1. IsStateOf(n, m)
    BY MergeStateFacts
<1>2. /\ m.succ = MaxOf(s.succ, t.succ) /\ m.gang = MaxOf(s.gang, t.gang)
      /\ m.mutex = MaxOf(s.mutex, t.mutex) /\ m.avail = MergeAvailability(s.avail, t.avail)
    BY DEF MergeState
<1> HIDE DEF m
<1>3. Avail(m, NumCores).max = MaxOf(Avail(s, NumCores).max, Avail(t, NumCores).max)
    <2>1. s.avail \in Trackers(NumCores) /\ NumCores \in Nat /\ NumCores \in 1..NumCores
        BY ProblemFacts DEF IsStateOf, IsState
    <2>2. DOMAIN s.avail = 1..NumCores
        BY <2>1, TrackerFacts
    <2>3. m.avail[NumCores] = Widen(s.avail[NumCores], t.avail[NumCores])
        BY <1>2, <2>1, <2>2 DEF MergeAvailability
    <2>4. QED BY <2>3 DEF Avail, Widen
<1>5. WithinBounds(n, m)
    BY <1>2, <1>3 DEF WithinBounds, MaxOf
<1>6. QED BY <1>1, <1>5 DEF m

\* The loop of the merge: what is merged into the new state, one by one, and
\* the others.
IsAccumulator(acc, others) == acc.others \in Seq(others) /\ DOMAIN acc = {"merged", "budget", "others"}

\* Each step merges another of the states, or leaves it to the others.
IsChain(chain, last, S, s) ==
    /\ \E x \in S : chain[0] = MergeState(x, s)
    /\ \A i \in 1..last : \/ chain[i] = chain[i - 1]
                          \/ \E t \in S : chain[i] = MergeState(chain[i - 1], t)

\* The merged state is in the new list, and every other state is in it or was
\* merged in some step.
NothingLost(chain, last, S, s, q) ==
    /\ chain[last] \in Range(q)
    /\ \A t \in S : \/ t \in Range(q)
                    \/ chain[0] = MergeState(t, s)
                    \/ \E i \in 1..last : chain[i] = MergeState(chain[i - 1], t)

LEMMA MergeStatesIsChain ==
    ASSUME NEW states, IsList(states), NEW s, \E i \in DOMAIN states : CanMergeWith(states[i], s),
           NEW q, q = MergeStates(states, s)
    PROVE  /\ IsList(q) /\ q # <<>>
           /\ \E last, chain :
                /\ last \in Nat /\ IsChain(chain, last, Range(states), s)
                /\ Range(q) \subseteq Range(states) \cup {chain[last]}
                /\ NothingLost(chain, last, Range(states), s, q)
<1> DEFINE S == Range(states)
           can == {i \in DOMAIN states : CanMergeWith(states[i], s)}
<1>1. /\ states \in Seq(S) /\ Len(states) \in Nat /\ DOMAIN states = 1..Len(states)
      /\ \A i \in DOMAIN states : states[i] \in S
    BY ListFacts DEF IsList
<1>2. PICK first \in 1..Len(states) : first = Min(can)
    <2>1. can \in SUBSET Int /\ can # {}
        BY <1>1
    <2>2. IsFiniteSet(can)
        <3>1. IsFiniteSet(1..Len(states))
            BY <1>1, FS_Interval
        <3>2. can \in SUBSET (1..Len(states))
            BY <1>1
        <3>3. QED BY <3>1, <3>2, FS_Subset
    <2>3. Min(can) \in can
        BY <2>1, <2>2, MinFacts
    <2>4. QED BY <1>1, <2>3
<1>3. PICK later \in Nat : later = Len(states) - first
    <2>1. PICK len \in Nat : len = Len(states)
        BY <1>1
    <2> HIDE DEF S
    <2>2. first \in 1..len
        BY <2>1
    <2>3. len - first \in Nat
        BY <2>2
    <2>4. QED BY <2>1, <2>3
<1> DEFINE budget == IF Conservative THEN 1 ELSE MergeBudget
           Absorb(acc, t) ==
               IF acc.budget # 0 /\ CanMergeWith(acc.merged, t)
               THEN [acc EXCEPT !.merged = MergeState(@, t), !.budget = @ - 1]
               ELSE [acc EXCEPT !.others = Append(@, t)]
           base == [merged |-> MergeState(states[first], s), budget |-> budget - 1, others |-> <<>>]
           Next1(i, acc) == Absorb(acc, states[first + i])
           Built(g) == g = [i \in 0..later |-> IF i = 0 THEN base ELSE Next1(i, g[i - 1])]
           result == CHOOSE g : Built(g)
           Good(acc) == IsAccumulator(acc, S)
<1>4. q = SubSeq(states, 1, first - 1) \o <<result[later].merged>> \o result[later].others
    BY <1>2, <1>3 DEF MergeStates
<1>5. Good(base)
    <2>1. <<>> \in Seq(S)
        BY EmptySeq
    <2> HIDE DEF S
    <2>2. QED BY <2>1 DEF IsAccumulator
<1>6. ASSUME NEW i \in 1..later, NEW acc, Good(acc)
      PROVE  /\ Good(Next1(i, acc))
             /\ states[first + i] \in S
             /\ \/ /\ Next1(i, acc).merged = MergeState(acc.merged, states[first + i])
                   /\ Next1(i, acc).others = acc.others
                \/ /\ Next1(i, acc).merged = acc.merged
                   /\ Next1(i, acc).others = Append(acc.others, states[first + i])
    <2> DEFINE t == states[first + i]
    <2>1. t \in S
        <3>1. PICK len \in Nat : len = Len(states)
            BY <1>1
        <3>2. first \in 1..len /\ later = len - first
            BY <1>3, <3>1
        <3>3. first + i \in 1..len
            BY <3>2
        <3>4. first + i \in DOMAIN states
            BY <1>1, <3>1, <3>3
        <3>5. QED BY <1>1, <3>4
    <2> HIDE DEF t, S
    <2>2. acc.others \in Seq(S) /\ DOMAIN acc = {"merged", "budget", "others"}
        BY <1>6 DEF IsAccumulator
    <2>3. Append(acc.others, t) \in Seq(S)
        BY <2>1, <2>2, AppendProperties
    <2> DEFINE m == [acc EXCEPT !.merged = MergeState(@, t), !.budget = @ - 1]
               o == [acc EXCEPT !.others = Append(@, t)]
    <2>4. Good(m) /\ m.merged = MergeState(acc.merged, t) /\ m.others = acc.others
        BY <2>2 DEF IsAccumulator
    <2>5. Good(o) /\ o.merged = acc.merged /\ o.others = Append(acc.others, t)
        BY <2>2, <2>3 DEF IsAccumulator
    <2>6. Next1(i, acc) \in {m, o} /\ t = states[first + i]
        BY DEF t
    <2> HIDE DEF Next1, Good, m, o
    <2>7. QED BY <2>1, <2>4, <2>5, <2>6
<1> HIDE DEF base, Next1, S
<1>7. \E g : Built(g)
    <2> DEFINE Upto(g, h) == g = [i \in 0..h |-> IF i = 0 THEN base ELSE Next1(i, g[i - 1])]
               Bad == {h \in 0..later : ~\E g : Upto(g, h)}
    <2>1. SUFFICES ASSUME Bad # {} PROVE FALSE
        <3>1. later \in 0..later
            OBVIOUS
        <3>2. QED BY <3>1
    <2>2. Bad \in SUBSET Nat
        OBVIOUS
    <2>3. PICK h \in Bad : \A i \in Bad : h <= i
        <3> HIDE DEF Bad
        <3>1. QED BY <2>1, <2>2, LeastNatural
    <2>4. h # 0
        <3>1. SUFFICES ASSUME h = 0 PROVE FALSE
            OBVIOUS
        <3> DEFINE g == [i \in 0..0 |-> base]
        <3>2. \A i \in 0..0 : i = 0
            OBVIOUS
        <3>3. Upto(g, 0)
            BY <3>2
        <3>4. QED BY <2>3, <3>1, <3>3
    <2>5. h \in 0..later /\ h \in 1..later /\ h - 1 \in 0..later
        BY <2>3, <2>4
    <2>6. PICK g : Upto(g, h - 1)
        <3>1. h - 1 \notin Bad
            <4>1. h \in Nat /\ ~(h <= h - 1)
                BY <2>5
            <4> HIDE DEF Bad
            <4>2. QED BY <2>3, <4>1
        <3>2. QED BY <2>5, <3>1
    <2> DEFINE e == [i \in 0..h |-> IF i < h THEN g[i] ELSE Next1(h, g[h - 1])]
    <2>7. \A i \in 0..(h - 1) : g[i] = IF i = 0 THEN base ELSE Next1(i, g[i - 1])
        BY <2>6
    <2>8. ASSUME NEW i \in 0..h PROVE e[i] = IF i = 0 THEN base ELSE Next1(i, e[i - 1])
        <3>1. i # 0 => e[i - 1] = g[i - 1]
            BY <2>5
        <3>2. i < h => i \in 0..(h - 1) /\ e[i] = g[i]
            BY <2>5
        <3>3. i = h => e[i] = Next1(h, g[h - 1]) /\ i # 0
            BY <2>5
        <3> HIDE DEF e
        <3>4. CASE i < h
            BY <2>7, <3>1, <3>2, <3>4
        <3>5. CASE i = h
            BY <3>1, <3>3, <3>5
        <3>6. QED BY <2>5, <3>4, <3>5
    <2>9. Upto(e, h)
        <3>1. e = [i \in 0..h |-> e[i]]
            OBVIOUS
        <3> HIDE DEF e
        <3>2. QED BY <2>8, <3>1
    <2>10. \E x : Upto(x, h)
        BY <2>9
    <2>11. QED BY <2>3, <2>10
<1>8. Built(result)
    <2> HIDE DEF Built
    <2>1. QED BY <1>7
<1> HIDE DEF result
<1>9. \A i \in 0..later : Good(result[i])
    <2> DEFINE Bad == {i \in 0..later : ~Good(result[i])}
    <2>1. SUFFICES ASSUME Bad # {} PROVE FALSE
        OBVIOUS
    <2>2. Bad \in SUBSET Nat
        OBVIOUS
    <2>3. PICK i \in Bad : \A h \in Bad : i <= h
        <3> HIDE DEF Bad
        <3>1. QED BY <2>1, <2>2, LeastNatural
    <2> HIDE DEF Good
    <2>4. CASE i = 0
        <3>1. result[0] = base
            BY <1>8
        <3>2. QED BY <1>5, <2>3, <2>4, <3>1
    <2>5. CASE i # 0
        <3>1. i \in 1..later /\ i - 1 \in 0..later
            BY <2>3, <2>5
        <3>2. result[i] = Next1(i, result[i - 1])
            BY <1>8, <3>1
        <3>3. Good(result[i - 1])
            <4>1. i - 1 \notin Bad
                <5>1. i \in Nat /\ ~(i <= i - 1)
                    BY <3>1
                <5> HIDE DEF Bad
                <5>2. QED BY <2>3, <5>1
            <4>2. QED BY <3>1, <4>1
        <3>4. QED BY <1>6, <2>3, <3>1, <3>2, <3>3
    <2>6. QED BY <2>4, <2>5
<1> DEFINE chain == [i \in 0..later |-> result[i].merged]
           T == S \cup {chain[later]}
           a == SubSeq(states, 1, first - 1)
           b == <<chain[later]>>
           c == result[later].others
<1>10. a \in Seq(S)
    <2>1. PICK len \in Nat : len = Len(states)
        BY <1>1
    <2> HIDE DEF S
    <2>2. first \in 1..len /\ 1 \in Int /\ first - 1 \in Int
        BY <2>1
    <2>3. \A i \in 1..(first - 1) : i \in 1..len
        BY <2>2
    <2>4. \A i \in 1..(first - 1) : states[i] \in S
        BY <1>1, <2>1, <2>3
    <2>5. QED BY <2>2, <2>4, SubSeqProperties
<1>11. c \in Seq(S) /\ chain[later] = result[later].merged
    <2>1. Good(result[later])
        BY <1>9
    <2>2. QED BY <2>1 DEF IsAccumulator
<1>12. IsChain(chain, later, S, s)
    <2>1. chain[0] = MergeState(states[first], s) /\ states[first] \in S
        <3>1. result[0] = base /\ first \in DOMAIN states
            BY <1>1, <1>8
        <3>2. QED BY <1>1, <3>1 DEF base
    <2>2. ASSUME NEW i \in 1..later
          PROVE  \/ chain[i] = chain[i - 1]
                 \/ \E t \in S : chain[i] = MergeState(chain[i - 1], t)
        <3>1. i \in 0..later /\ i - 1 \in 0..later
            OBVIOUS
        <3>2. result[i] = Next1(i, result[i - 1])
            BY <1>8, <3>1
        <3>3. Good(result[i - 1])
            BY <1>9, <3>1
        <3>4. chain[i] = result[i].merged /\ chain[i - 1] = result[i - 1].merged
            BY <3>1
        <3> HIDE DEF chain, Good
        <3>5. QED BY <1>6, <3>1, <3>2, <3>3, <3>4
    <2> HIDE DEF chain
    <2>3. QED BY <2>1, <2>2 DEF IsChain
\* A state after the first that is not merged into chain[i] stays among the
\* others.
<1>13. \A i \in 0..later : chain[i] = result[i].merged
    OBVIOUS
<1>14. chain[0] = MergeState(states[first], s)
    BY <1>8 DEF base
<1> HIDE DEF chain
<1>15. ASSUME NEW i \in 1..later
       PROVE  /\ states[first + i] \in S
              /\ \A t \in Range(result[i - 1].others) : t \in Range(result[i].others)
              /\ \/ chain[i] = MergeState(chain[i - 1], states[first + i])
                 \/ states[first + i] \in Range(result[i].others)
    <2>1. i \in 0..later /\ i - 1 \in 0..later
        OBVIOUS
    <2>2. result[i] = Next1(i, result[i - 1])
        BY <1>8, <2>1
    <2>3. Good(result[i - 1])
        BY <1>9, <2>1
    <2> DEFINE o == result[i - 1].others
               t == states[first + i]
    <2>4. o \in Seq(S) /\ t \in S
        BY <1>6, <2>3 DEF IsAccumulator
    <2>5. chain[i] = result[i].merged /\ chain[i - 1] = result[i - 1].merged
        BY <1>13, <2>1
    <2>6. \/ chain[i] = MergeState(chain[i - 1], t) /\ result[i].others = o
          \/ result[i].others = Append(o, t)
        <3> HIDE DEF Good
        <3>1. QED BY <1>6, <2>2, <2>3, <2>5
    <2>7. t \in Range(Append(o, t)) /\ \A x \in Range(o) : x \in Range(Append(o, t))
        <3> HIDE DEF o, t
        <3>1. IsList(o)
            BY <2>4, ListOfElements
        <3> DEFINE w == Append(o, t)
        <3>2. /\ Len(o) \in Nat /\ DOMAIN o = 1..Len(o)
              /\ \A x \in Range(o) : \E k \in DOMAIN o : o[k] = x
            BY <3>1, ListFacts
        <3>3. /\ IsList(w) /\ DOMAIN w = 1..(Len(o) + 1)
              /\ w[Len(o) + 1] = t /\ \A k \in DOMAIN o : w[k] = o[k]
            BY <3>1, AppendedFacts
        <3>4. \A k \in DOMAIN w : w[k] \in Range(w)
            BY <3>3, ListFacts
        <3> HIDE DEF w
        <3>5. Len(o) + 1 \in DOMAIN w /\ \A k \in DOMAIN o : k \in DOMAIN w
            BY <3>2, <3>3
        <3>6. QED BY <3>2, <3>3, <3>4, <3>5 DEF w
    <2> HIDE DEF o
    <2>8. QED BY <2>4, <2>6, <2>7 DEF o
<1>16. ASSUME NEW h \in 1..later, states[first + h] \in Range(result[h].others)
       PROVE  states[first + h] \in Range(result[later].others)
    <2> DEFINE t == states[first + h]
               Bad == {i \in h..later : t \notin Range(result[i].others)}
    <2>1. SUFFICES ASSUME Bad # {} PROVE FALSE
        <3>1. later \in h..later
            OBVIOUS
        <3>2. QED BY <3>1
    <2>2. Bad \in SUBSET Nat
        OBVIOUS
    <2>3. PICK i \in Bad : \A k \in Bad : i <= k
        <3> HIDE DEF Bad
        <3>1. QED BY <2>1, <2>2, LeastNatural
    <2>4. i # h
        BY <1>16, <2>3
    <2>5. i \in 1..later /\ i - 1 \in h..later
        BY <2>3, <2>4
    <2>6. t \in Range(result[i - 1].others)
        <3>1. i - 1 \notin Bad
            <4>1. i \in Nat /\ ~(i <= i - 1)
                BY <2>5
            <4> HIDE DEF Bad
            <4>2. QED BY <2>3, <4>1
        <3>2. QED BY <2>5, <3>1
    <2>7. QED BY <1>15, <2>3, <2>5, <2>6
<1>17. a \in Seq(T) /\ b \in Seq(T) /\ c \in Seq(T) /\ Len(b) = 1
    <2>1. b \in Seq({chain[later]}) /\ Len(b) = 1
        OBVIOUS
    <2>2. S \subseteq T /\ {chain[later]} \subseteq T
        OBVIOUS
    <2> HIDE DEF T, a, b, c
    <2>3. QED BY <1>10, <1>11, <2>1, <2>2, SeqMonotonic
<1> HIDE DEF T, a, b, c
<1>18. a \o b \in Seq(T) /\ Len(a \o b) = Len(a) + 1 /\ Len(a) \in Nat
    <2>1. a \o b \in Seq(T) /\ Len(a \o b) = Len(a) + Len(b)
        BY <1>17, ConcatProperties
    <2>2. Len(a) \in Nat
        BY <1>17, LenProperties
    <2>3. QED BY <1>17, <2>1, <2>2
<1>19. (a \o b) \o c \in Seq(T) /\ Len((a \o b) \o c) = Len(a \o b) + Len(c) /\ Len(c) \in Nat
    BY <1>17, <1>18, ConcatProperties, LenProperties
<1>20. q = (a \o b) \o c
    BY <1>4, <1>11 DEF a, b, c
<1>21. q \in Seq(T) /\ Len(q) # 0
    BY <1>18, <1>19, <1>20
<1>22. q # <<>> /\ IsList(q) /\ Range(q) \subseteq S \cup {chain[later]}
    BY <1>21, EmptySeq, ListOfElements DEF T
<1>23. Range(a) \cup {chain[later]} \cup Range(c) \subseteq Range(q)
    <2>1. IsList(a) /\ IsList(b) /\ IsList(c)
        BY <1>17, ListOfElements
    <2>2. IsList(a \o b) /\ Range(a) \cup Range(b) \subseteq Range(a \o b)
        BY <2>1, JoinedFacts
    <2>3. Range(a \o b) \cup Range(c) \subseteq Range((a \o b) \o c)
        BY <2>1, <2>2, JoinedFacts
    <2>4. chain[later] \in Range(b)
        <3>1. 1 \in DOMAIN b /\ b[1] = chain[later]
            BY DEF b
        <3>2. QED BY <2>1, <3>1, ListFacts
    <2>5. QED BY <1>20, <2>2, <2>3, <2>4
<1>24. NothingLost(chain, later, S, s, q)
    <2>1. ASSUME NEW t \in S
          PROVE  \/ t \in Range(q)
                 \/ chain[0] = MergeState(t, s)
                 \/ \E i \in 1..later : chain[i] = MergeState(chain[i - 1], t)
        <3>1. PICK k \in DOMAIN states : states[k] = t
            BY ListFacts DEF S
        <3>2. PICK len \in Nat : len = Len(states)
            BY <1>1
        <3>3. k \in 1..len /\ first \in 1..len /\ later = len - first
            BY <1>1, <1>3, <3>2
        <3>4. CASE k < first
            <4>1. k \in 1..(first - 1) /\ 1 \in Int /\ first - 1 \in Int
                BY <3>3, <3>4
            <4>2. \A i \in 1..(first - 1) : states[i] \in S
                BY <1>1, <3>2, <3>3
            <4>3. /\ Len(a) = IF 1 <= first - 1 THEN first - 1 - 1 + 1 ELSE 0
                  /\ \A i \in 1..(first - 1 - 1 + 1) : a[i] = states[1 + i - 1]
                BY <4>1, <4>2, SubSeqProperties DEF a
            <4>4. k \in 1..Len(a) /\ a[k] = states[k]
                BY <3>3, <4>1, <4>3
            <4>5. IsList(a)
                BY <1>17, ListOfElements
            <4>6. a[k] \in Range(a)
                BY <4>4, <4>5, ListFacts
            <4>7. QED BY <1>23, <3>1, <4>4, <4>6
        <3>5. CASE k = first
            BY <1>14, <3>1, <3>5
        <3>6. CASE k > first
            <4>1. PICK h \in 1..later : k = first + h
                <5>1. k - first \in 1..later /\ k = first + (k - first)
                    BY <3>3, <3>6
                <5>2. QED BY <5>1
            <4>2. \/ chain[h] = MergeState(chain[h - 1], t)
                  \/ t \in Range(result[h].others)
                BY <1>15, <3>1, <4>1
            <4>3. CASE t \in Range(result[h].others)
                <5>1. t \in Range(result[later].others)
                    BY <1>16, <3>1, <4>1, <4>3
                <5>2. QED BY <1>23, <5>1 DEF c
            <4>4. QED BY <4>2, <4>3
        <3>7. QED BY <3>3, <3>4, <3>5, <3>6
    <2>2. chain[later] \in Range(q)
        BY <1>23
    <2>3. QED BY <2>1, <2>2 DEF NothingLost
<1>25. QED BY <1>12, <1>22, <1>24 DEF S

LEMMA MergeStatesFacts ==
    ASSUME DataOK, NEW n, IsNode(n), NEW s, IsStateOf(n, s), WithinBounds(n, s),
           \E i \in DOMAIN n.states : CanMergeWith(n.states[i], s),
           NEW q, q = MergeStates(n.states, s)
    PROVE  /\ IsList(q) /\ q # <<>>
           /\ \A t \in Range(q) : IsStateOf(n, t) /\ WithinBounds(n, t)
<1> DEFINE S == Range(n.states)
           Good(t) == IsStateOf(n, t) /\ WithinBounds(n, t)
<1>1. IsList(n.states) /\ \A t \in S : Good(t)
    BY DEF IsNode
<1>2. /\ IsList(q) /\ q # <<>>
      /\ \E last, chain : last \in Nat /\ IsChain(chain, last, S, s) /\ Range(q) \subseteq S \cup {chain[last]}
    BY <1>1, MergeStatesIsChain
<1>3. PICK last, chain : last \in Nat /\ IsChain(chain, last, S, s) /\ Range(q) \subseteq S \cup {chain[last]}
    BY <1>2
<1>4. ASSUME NEW t, Good(t), NEW u, Good(u) PROVE Good(MergeState(t, u))
    BY <1>4, MergedIsWithin
<1>5. Good(s)
    OBVIOUS
<1> HIDE DEF S, Good
<1>6. Good(chain[last])
    <2> DEFINE Bad == {i \in 0..last : ~Good(chain[i])}
    <2>1. SUFFICES ASSUME Bad # {} PROVE FALSE
        <3>1. last \in 0..last
            BY <1>3
        <3>2. QED BY <1>3, <3>1
    <2>2. Bad \in SUBSET Nat
        BY <1>3
    <2>3. PICK i \in Bad : \A h \in Bad : i <= h
        <3> HIDE DEF Bad
        <3>1. QED BY <2>1, <2>2, LeastNatural
    <2>4. CASE i = 0
        BY <1>1, <1>3, <1>4, <1>5, <2>3, <2>4 DEF IsChain
    <2>5. CASE i # 0
        <3>1. i \in 1..last /\ i - 1 \in 0..last
            BY <1>3, <2>3, <2>5
        <3>2. Good(chain[i - 1])
            <4>1. i - 1 \notin Bad
                <5>1. i \in Nat /\ ~(i <= i - 1)
                    BY <3>1
                <5> HIDE DEF Bad
                <5>2. QED BY <2>3, <5>1
            <4>2. QED BY <3>1, <4>1
        <3>3. chain[i] = chain[i - 1] \/ \E t \in S : chain[i] = MergeState(chain[i - 1], t)
            BY <1>3, <3>1 DEF IsChain
        <3>4. QED BY <1>1, <1>4, <2>3, <3>2, <3>3
    <2>6. QED BY <2>4, <2>5
<1>7. QED BY <1>1, <1>2, <1>3, <1>6 DEF Good

LEMMA NewOrMergeStateFacts ==
    ASSUME DataOK, NEW n, IsNode(n), NEW s, IsStateOf(n, s),
           NEW w, w = NewOrMergeState(n, s)
    PROVE  /\ IsNode(w) /\ w.states # <<>>
           /\ w.scheduled = n.scheduled /\ w.num_jobs_scheduled = n.num_jobs_scheduled
           /\ w.ready = n.ready /\ w.pending = n.pending
<1> DEFINE can == \E i \in DOMAIN n.states : CanMergeWith(n.states[i], s)
<1>1. CASE ~can
    <2>1. w = AddState(n, s)
        BY <1>1 DEF NewOrMergeState
    <2>2. QED BY <2>1, AddStateFacts
<1>2. CASE can
    <2> DEFINE m == WithBounds(n, s)
               q == MergeStates(m.states, s)
    <2>1. /\ IsNode(m) /\ m.scheduled = n.scheduled /\ m.ready = n.ready /\ m.pending = n.pending
          /\ m.states = n.states /\ m.num_jobs_scheduled = n.num_jobs_scheduled
          /\ WithinBounds(m, s) /\ IsStateOf(m, s)
        <3>1. m = WithBounds(n, s)
            OBVIOUS
        <3> HIDE DEF m
        <3>2. QED BY <3>1, WithBoundsFacts
    <2>2. w = [m EXCEPT !.states = q]
        BY <1>2 DEF NewOrMergeState
    <2> HIDE DEF m
    <2>3. \E i \in DOMAIN m.states : CanMergeWith(m.states[i], s)
        BY <1>2, <2>1
    <2>4. q = MergeStates(m.states, s)
        OBVIOUS
    <2> HIDE DEF q
    <2>5. /\ IsList(q) /\ q # <<>>
          /\ \A t \in Range(q) : IsStateOf(m, t) /\ WithinBounds(m, t)
        BY <2>1, <2>3, <2>4, MergeStatesFacts
    <2>6. /\ IsNode(w) /\ w.states = q
          /\ w.scheduled = m.scheduled /\ w.num_jobs_scheduled = m.num_jobs_scheduled
          /\ w.ready = m.ready /\ w.pending = m.pending
        BY <2>1, <2>2, <2>5, WithStatesFacts
    <2>7. QED BY <2>1, <2>5, <2>6
<1>3. QED BY <1>1, <1>2

-----------------------------------------------------------------------------
(***************************************************************************)
(* The nodes that a dispatch leads to, and the first one.                  *)
(***************************************************************************)

LEMMA ArrivalsFacts ==
    ASSUME DataOK, NEW js \in SUBSET Jobs
    PROVE  /\ LatestArrivals(js) \in SUBSET Int /\ IsFiniteSet(LatestArrivals(js))
           /\ {Arrival(j).min : j \in js} \in SUBSET Int /\ IsFiniteSet({Arrival(j).min : j \in js})
<1> DEFINE f == [j \in js |-> Arrival(j).max]
           g == [j \in js |-> Arrival(j).min]
<1>1. /\ DOMAIN f = js /\ \A j \in js : f[j] \in Int
      /\ DOMAIN g = js /\ \A j \in js : g[j] \in Int
    BY JobFacts
<1>2. LatestArrivals(js) = {f[j] : j \in DOMAIN f} /\ {Arrival(j).min : j \in js} = {g[j] : j \in DOMAIN g}
    BY DEF LatestArrivals
<1> HIDE DEF f, g
<1>3. QED BY <1>1, <1>2, JobValues

LEMMA EarliestArrival ==
    ASSUME DataOK, NEW js \in SUBSET Jobs, NEW t
    PROVE  /\ Earliest(LatestArrivals(js)) \in Int
           /\ Earliest(AtOrAfter(LatestArrivals(js), t)) \in Int
<1>1. LatestArrivals(js) \in SUBSET Int /\ IsFiniteSet(LatestArrivals(js))
    BY ArrivalsFacts
<1>2. AtOrAfter(LatestArrivals(js), t) \in SUBSET LatestArrivals(js)
    BY DEF AtOrAfter
<1>3. AtOrAfter(LatestArrivals(js), t) \in SUBSET Int /\ IsFiniteSet(AtOrAfter(LatestArrivals(js), t))
    BY <1>1, <1>2, FS_Subset
<1>4. QED BY <1>1, <1>3, EarliestFacts

LEMMA NextNodeFacts ==
    ASSUME DataOK, NEW n, IsNode(n), NEW j \in Jobs
    PROVE  /\ IsNode(NextNode(n, j))
           /\ NextNode(n, j).scheduled = n.scheduled \cup Incompatible(j)
           /\ NextNode(n, j).num_jobs_scheduled = n.num_jobs_scheduled + Cardinality(Incompatible(j))
           /\ NextNode(n, j).ready = IF HasPrecedence
                                     THEN {k \in n.ready : j \notin Incompatible(k)}
                                             \cup MadeReady(j, NextNode(n, j).scheduled)
                                     ELSE {}
<1> DEFINE w == NextNode(n, j)
           scheduled == n.scheduled \cup Incompatible(j)
<1>1. /\ DOMAIN w = NodeFields
      /\ w.scheduled = scheduled
      /\ w.num_jobs_scheduled = n.num_jobs_scheduled + Cardinality(Incompatible(j))
      /\ w.seq_release = Earliest(AtOrAfter(LatestArrivals(SequentialIndependentJobs \ scheduled),
                                            n.seq_release))
      /\ w.ready = IF HasPrecedence THEN {k \in n.ready : j \notin Incompatible(k)} \cup MadeReady(j, scheduled)
                   ELSE {}
      /\ w.pending = [type \in Types |-> PendingAfter(n.pending[type], type, j, scheduled)]
      /\ w.a_max = 0 /\ w.next_succ = 0 /\ w.next_gang = 0 /\ w.next_mutex = 0 /\ w.states = <<>>
    BY DEF NextNode, NodeFields
<1> HIDE DEF w
<1>2. scheduled \in SUBSET Jobs /\ n.ready \in SUBSET Jobs
    BY SiblingFacts DEF IsNode
<1>3. w.ready \in SUBSET Jobs
    <2>1. MadeReady(j, scheduled) \in SUBSET Jobs
        BY ConstraintFacts DEF MadeReady, AllSuccessors, Types
    <2>2. QED BY <1>1, <1>2, <2>1
<1>4. ASSUME NEW type \in Types PROVE w.pending[type] \subseteq scheduled
    <2>1. w.pending[type] = PendingAfter(n.pending[type], type, j, scheduled)
        BY <1>1
    <2>2. n.pending[type] \subseteq n.scheduled
        BY DEF IsNode
    <2>3. PendingAfter(n.pending[type], type, j, scheduled)
            \subseteq n.pending[type] \cup IncompatibleWithPendingSuccessors(j)
        BY DEF PendingAfter
    <2>4. IncompatibleWithPendingSuccessors(j) \subseteq Incompatible(j)
        BY SiblingFacts
    <2>5. QED BY <2>1, <2>2, <2>3, <2>4
<1>5. w.seq_release \in Int
    <2>1. SequentialIndependentJobs \ scheduled \in SUBSET Jobs
        BY ClassesOfJobs
    <2>2. QED BY <1>1, <2>1, EarliestArrival
<1>6. IsList(w.states) /\ Range(w.states) = {}
    BY <1>1, EmptyList
<1>7. IsNode(w)
    <2>1. /\ w.a_max \in Int /\ w.next_succ \in Int /\ w.next_gang \in Int /\ w.next_mutex \in Int
        BY <1>1
    <2>2. /\ w.scheduled \in SUBSET Jobs
          /\ \A type \in Types : w.pending[type] \subseteq w.scheduled
        BY <1>1, <1>2, <1>4
    <2>3. QED BY <1>1, <1>3, <1>5, <1>6, <2>1, <2>2 DEF IsNode
<1>8. QED BY <1>1, <1>7 DEF w

LEMMA InitialNodeFacts ==
    ASSUME DataOK
    PROVE  /\ IsNode(InitialNode) /\ InitialNode.scheduled = {} /\ InitialNode.ready = {}
           /\ InitialNode.num_jobs_scheduled = 0
<1> DEFINE w == InitialNode
<1>1. /\ DOMAIN w = NodeFields /\ w.scheduled = {} /\ w.ready = {} /\ w.num_jobs_scheduled = 0
      /\ w.seq_release = Earliest(LatestArrivals(SequentialIndependentJobs))
      /\ w.pending = [type \in Types |-> {}]
      /\ w.a_max = 0 /\ w.next_succ = 0 /\ w.next_gang = 0 /\ w.next_mutex = 0 /\ w.states = <<>>
    BY DEF InitialNode, NodeFields
<1> HIDE DEF w
<1>2. w.seq_release \in Int
    BY <1>1, ClassesOfJobs, EarliestArrival
<1>3. IsList(w.states) /\ Range(w.states) = {}
    BY <1>1, EmptyList
<1>4. IsNode(w)
    <2>1. /\ w.scheduled \in SUBSET Jobs /\ w.ready \in SUBSET Jobs
          /\ \A type \in Types : w.pending[type] \subseteq w.scheduled
        BY <1>1
    <2>2. /\ w.a_max \in Int /\ w.next_succ \in Int /\ w.next_gang \in Int /\ w.next_mutex \in Int
        BY <1>1
    <2>3. QED BY <1>1, <1>2, <1>3, <2>1, <2>2 DEF IsNode
<1>5. QED BY <1>1, <1>4 DEF w

\* Among the first instants some instant is the one by which p cores are free.
LEMMA FreeByFacts ==
    ASSUME DataOK, NEW at \in [1..NumCores -> Nat], NEW p \in 1..NumCores
    PROVE  /\ FreeBy(at, p) \in Nat
           /\ \E c \in 1..NumCores : /\ at[c] = FreeBy(at, p)
                                     /\ Cardinality({k \in 1..NumCores : at[k] <= at[c]}) >= p
           /\ \A c \in 1..NumCores :
                Cardinality({k \in 1..NumCores : at[k] <= at[c]}) >= p => FreeBy(at, p) <= at[c]
<1> DEFINE N == 1..NumCores
           By(c) == {k \in N : at[k] <= at[c]}
           C == {c \in N : Cardinality(By(c)) >= p}
           f == [c \in C |-> at[c]]
           V == {at[c] : c \in C}
<1>1. NumCores \in Nat /\ IsFiniteSet(N) /\ Cardinality(N) = NumCores /\ N # {}
    <2>1. NumCores \in Nat /\ NumCores > 0
        BY ProblemFacts
    <2>2. PICK m \in Nat : m = NumCores /\ m > 0
        BY <2>1
    <2>3. IsFiniteSet(1..m) /\ Cardinality(1..m) = IF 1 > m THEN 0 ELSE m - 1 + 1
        BY FS_Interval
    <2>4. 1 \in 1..m
        BY <2>2
    <2>5. QED BY <2>2, <2>3, <2>4
<1>2. \A S \in SUBSET N : IsFiniteSet({at[c] : c \in S}) /\ {at[c] : c \in S} \in SUBSET Int
    <2>1. SUFFICES ASSUME NEW S \in SUBSET N
                   PROVE  IsFiniteSet({at[c] : c \in S}) /\ {at[c] : c \in S} \in SUBSET Int
        OBVIOUS
    <2> DEFINE g == [c \in S |-> at[c]]
    <2>2. DOMAIN g = S /\ {at[c] : c \in S} = {g[c] : c \in DOMAIN g}
        OBVIOUS
    <2>3. IsFiniteSet(S)
        BY <1>1, FS_Subset
    <2>4. {at[c] : c \in S} \in SUBSET Int
        OBVIOUS
    <2> HIDE DEF g
    <2>5. IsFiniteSet({g[c] : c \in DOMAIN g})
        BY <2>2, <2>3, FiniteImage
    <2>6. QED BY <2>2, <2>4, <2>5
<1>3. C # {}
    <2> DEFINE A == {at[c] : c \in N}
    <2>1. IsFiniteSet(A) /\ A \in SUBSET Int /\ A # {}
        BY <1>1, <1>2
    <2>2. PICK c \in N : at[c] = Max(A) /\ \A x \in A : x <= at[c]
        <3> HIDE DEF A
        <3>1. Max(A) \in A /\ \A x \in A : x <= Max(A)
            BY <2>1, MaxFacts
        <3>2. QED BY <3>1 DEF A
    <2>3. By(c) = N
        BY <2>2
    <2>4. Cardinality(By(c)) >= p
        <3>1. NumCores >= p
            BY <1>1
        <3> HIDE DEF By, N
        <3>2. QED BY <1>1, <2>3, <3>1
    <2>5. QED BY <2>4
<1>4. FreeBy(at, p) = Min(V)
    BY DEF FreeBy
<1>5. V # {} /\ IsFiniteSet(V) /\ V \in SUBSET Int
    BY <1>2, <1>3
<1>6. Min(V) \in V /\ \A x \in V : Min(V) <= x
    <2> HIDE DEF V
    <2>1. QED BY <1>5, MinFacts
<1>7. QED BY <1>4, <1>6

LEMMA InitialAvailability ==
    ASSUME DataOK, NEW a, a = InitialState.avail
    PROVE  a \in Trackers(NumCores)
<1> DEFINE N == 1..NumCores
           mins == [i \in N |-> problem.platform[i].min]
           maxs == [i \in N |-> problem.platform[i].max]
<1>1. /\ mins \in [N -> Nat] /\ maxs \in [N -> Nat]
      /\ \A i \in N : mins[i] <= maxs[i]
    <2>1. \A i \in N : problem.platform[i] \in Intervals(Nat)
        BY ProblemFacts
    <2>2. QED BY <2>1 DEF Intervals
<1>2. a = [p \in N |-> Interval(FreeBy(mins, p), FreeBy(maxs, p))]
    BY DEF InitialState
<1>3. IsFiniteSet(N) /\ N \in SUBSET Int
    BY ProblemFacts, FS_Interval
<1> HIDE DEF mins, maxs
<1>4. ASSUME NEW at \in [N -> Nat], NEW p \in N, NEW q \in N, p <= q
      PROVE  FreeBy(at, p) <= FreeBy(at, q)
    <2>1. PICK c \in N : at[c] = FreeBy(at, q) /\ Cardinality({k \in N : at[k] <= at[c]}) >= q
        BY FreeByFacts
    <2>2. Cardinality({k \in N : at[k] <= at[c]}) \in Nat
        <3>1. IsFiniteSet({k \in N : at[k] <= at[c]})
            BY <1>3, FS_Subset
        <3>2. QED BY <3>1, FS_CardinalityType
    <2>3. Cardinality({k \in N : at[k] <= at[c]}) >= p
        <3> DEFINE x == Cardinality({k \in N : at[k] <= at[c]})
        <3>1. x \in Nat /\ x >= q
            BY <2>1, <2>2
        <3> HIDE DEF x
        <3>2. x >= p
            BY <1>3, <1>4, <3>1
        <3>3. QED BY <3>2 DEF x
    <2>4. QED BY <2>1, <2>3, FreeByFacts
<1>5. ASSUME NEW p \in N
      PROVE  FreeBy(mins, p) <= FreeBy(maxs, p)
    <2>1. PICK c \in N : maxs[c] = FreeBy(maxs, p) /\ Cardinality({k \in N : maxs[k] <= maxs[c]}) >= p
        BY <1>1, FreeByFacts
    <2> DEFINE V == {k \in N : mins[k] <= maxs[c]}
               W == {k \in N : maxs[k] <= maxs[c]}
               f == [k \in V |-> mins[k]]
               T == {f[k] : k \in DOMAIN f}
    <2>2. W \in SUBSET V /\ V \in SUBSET N /\ c \in V
        BY <1>1
    <2>3. IsFiniteSet(V) /\ Cardinality(W) <= Cardinality(V) /\ Cardinality(V) \in Nat /\ Cardinality(W) \in Nat
        <3> HIDE DEF V, W
        <3>1. IsFiniteSet(V)
            BY <1>3, <2>2, FS_Subset
        <3>2. QED BY <2>2, <3>1, FS_Subset, FS_CardinalityType
    <2>4. PICK d \in V : \A k \in V : mins[k] <= mins[d]
        <3>1. T \in SUBSET Int /\ T # {} /\ DOMAIN f = V
            BY <1>1, <2>2
        <3>2. IsFiniteSet(T)
            <4> HIDE DEF f, V
            <4>1. QED BY <2>3, <3>1, FiniteImage
        <3>3. PICK x \in T : \A y \in T : y <= x
            <4> HIDE DEF T
            <4>1. QED BY <3>1, <3>2, MaxFacts
        <3>4. QED BY <3>3
    <2> DEFINE U == {k \in N : mins[k] <= mins[d]}
    <2>5. V \in SUBSET U /\ IsFiniteSet(U)
        <3>1. V \in SUBSET U /\ U \in SUBSET N
            BY <2>4
        <3> HIDE DEF U
        <3>2. QED BY <1>3, <3>1, FS_Subset
    <2>6. Cardinality(V) <= Cardinality(U) /\ Cardinality(U) \in Nat
        <3> HIDE DEF U, V
        <3>1. QED BY <2>5, FS_Subset, FS_CardinalityType
    <2>7. Cardinality(U) >= p
        <3>1. Cardinality(W) >= p
            BY <2>1
        <3>2. p \in Int
            BY <1>3
        <3> HIDE DEF U, V, W
        <3>3. QED BY <2>3, <2>6, <3>1, <3>2
    <2>8. FreeBy(mins, p) <= mins[d]
        BY <1>1, <2>7, FreeByFacts
    <2>9. mins[d] <= maxs[c] /\ mins[d] \in Nat /\ maxs[c] \in Nat /\ FreeBy(mins, p) \in Nat
        BY <1>1, <2>2, <2>4, FreeByFacts
    <2>10. QED BY <2>1, <2>8, <2>9
<1>6. \A p \in N : FreeBy(mins, p) \in Nat /\ FreeBy(maxs, p) \in Nat
    BY <1>1, FreeByFacts
<1>7. ASSUME NEW p \in N
      PROVE  /\ a[p] = [min |-> FreeBy(mins, p), max |-> FreeBy(maxs, p)]
             /\ a[p] \in Intervals(Nat)
    <2> DEFINE x == FreeBy(mins, p)
               y == FreeBy(maxs, p)
    <2>1. a[p] = Interval(x, y) /\ x <= y /\ x \in Nat /\ y \in Nat
        BY <1>2, <1>5, <1>6
    <2> HIDE DEF x, y
    <2>2. a[p] = [min |-> x, max |-> y] /\ a[p] \in Intervals(Nat)
        BY <2>1 DEF Interval, Intervals
    <2>3. QED BY <2>2 DEF x, y
<1>8. a \in [N -> Intervals(Nat)]
    BY <1>2, <1>7
<1>9. IsTracker(a)
    <2>1. DOMAIN a = N
        BY <1>2
    <2>2. \A i \in N : a[i].min <= a[i].max
        BY <1>7 DEF Intervals
    <2>3. ASSUME NEW i \in N, NEW j \in N, i <= j
          PROVE  a[i].min <= a[j].min /\ a[i].max <= a[j].max
        <3>1. FreeBy(mins, i) <= FreeBy(mins, j) /\ FreeBy(maxs, i) <= FreeBy(maxs, j)
            BY <1>1, <1>4, <2>3
        <3>2. a[i] = [min |-> FreeBy(mins, i), max |-> FreeBy(maxs, i)]
            BY <1>7
        <3>3. a[j] = [min |-> FreeBy(mins, j), max |-> FreeBy(maxs, j)]
            BY <1>7
        <3>4. QED BY <3>1, <3>2, <3>3
    <2>4. QED BY <2>1, <2>2, <2>3 DEF IsTracker
<1>10. QED BY <1>8, <1>9 DEF Trackers

LEMMA InitialStateFacts ==
    ASSUME DataOK
    PROVE  IsStateOf(InitialNode, InitialState)
<1> DEFINE s == InitialState
<1>1. /\ DOMAIN s = StateFields /\ s.running = <<>> /\ s.start = <<>> /\ s.finish = <<>>
      /\ s.succ = Infinity
      /\ s.gang = Earliest(LatestArrivals(GangIndependentJobs))
      /\ s.mutex = Earliest(LatestArrivals(MutexSourceJobs)) /\ s.min_prio = 0
    BY DEF InitialState, StateFields
<1>2. s.avail \in Trackers(NumCores)
    BY InitialAvailability
<1> HIDE DEF s
<1>3. s.succ \in Int /\ s.gang \in Int /\ s.mutex \in Int
    <2>1. Infinity \in Int
        BY ProblemsAssumption
    <2>2. GangIndependentJobs \in SUBSET Jobs /\ MutexSourceJobs \in SUBSET Jobs
        BY ClassesOfJobs
    <2>3. /\ Earliest(LatestArrivals(GangIndependentJobs)) \in Int
          /\ Earliest(LatestArrivals(MutexSourceJobs)) \in Int
        BY <2>2, EarliestArrival
    <2>4. QED BY <1>1, <2>1, <2>3
<1>4. DOMAIN s.running = {} /\ DOMAIN s.start = {} /\ DOMAIN s.finish = {}
    BY <1>1, EmptyList
<1>5. AreRunning(s.running) /\ AreTimes(s.start) /\ AreTimes(s.finish)
    BY <1>4 DEF AreRunning, AreTimes
<1>6. IsState(s)
    BY <1>1, <1>2, <1>3, <1>5 DEF IsState
<1>7. HoldsCores(s)
    <2>1. SUFFICES ASSUME NEW t \in Nat
                   PROVE  BusyUntil(s.avail, CoresHeldBy(s.running, StillRunning(s.running, t)), t)
        BY DEF HoldsCores
    <2>2. StillRunning(s.running, t) = {}
        BY <1>4 DEF StillRunning
    <2>3. HeldCores(s.running, {}) = {}
        BY DEF HeldCores
    <2>4. CoresHeldBy(s.running, {}) = Cardinality(HeldCores(s.running, {}))
        BY <1>5, HeldCoresFacts
    <2>5. CoresHeldBy(s.running, {}) = 0
        BY <2>3, <2>4, FS_EmptySet
    <2>6. Len(s.avail) \in Nat
        BY <1>2, ProblemFacts, TrackerFacts
    <2>7. QED BY <2>2, <2>5, <2>6 DEF BusyUntil
<1>8. QED BY <1>1, <1>4, <1>6, <1>7 DEF IsStateOf, s

-----------------------------------------------------------------------------
(***************************************************************************)
(* The order of the dispatches.                                            *)
(***************************************************************************)

LEMMA FirstOfFacts ==
    ASSUME DataOK, NEW js \in SUBSET Jobs, js # {}
    PROVE  FirstOf(js) \in js
<1> DEFINE R == {p \in Jobs \X Jobs : ComesBefore(p[1], p[2])}
<1>1. \A i, j \in Jobs : <<i, j>> \in R <=> ComesBefore(i, j)
    OBVIOUS
<1>2. \A j \in Jobs : Arrival(j).min \in Int /\ j \in Int
    BY JobFacts, ProblemFacts
<1>3. ASSUME NEW i \in Jobs, NEW j \in Jobs, NEW k \in Jobs
      PROVE  /\ i # j => ComesBefore(i, j) \/ ComesBefore(j, i)
             /\ ComesBefore(i, j) /\ ComesBefore(j, k) => ComesBefore(i, k)
    <2>1. /\ i # j => HigherPriority(i, j) \/ HigherPriority(j, i)
          /\ HigherPriority(i, j) /\ HigherPriority(j, k) => HigherPriority(i, k)
        BY PriorityOrder
    <2>2. /\ i # j => EarlierArrival(i, j) \/ EarlierArrival(j, i)
          /\ EarlierArrival(i, j) /\ EarlierArrival(j, k) => EarlierArrival(i, k)
        BY <1>2 DEF EarlierArrival
    <2>3. QED BY <2>1, <2>2 DEF ComesBefore
<1> HIDE DEF R
<1>4. IsFiniteSet(js)
    BY ProblemFacts, FS_Subset
<1>5. /\ \A i, j \in js : i # j => <<i, j>> \in R \/ <<j, i>> \in R
      /\ \A i, j, k \in js : <<i, j>> \in R /\ <<j, k>> \in R => <<i, k>> \in R
    BY <1>1, <1>3
<1>6. \E j \in js : \A k \in js \ {j} : <<j, k>> \in R
    BY <1>4, <1>5, FirstElement
<1>7. \E j \in js : \A k \in js \ {j} : ComesBefore(j, k)
    BY <1>1, <1>6
<1>8. QED BY <1>7 DEF FirstOf

LEMMA LeastPair ==
    ASSUME NEW S \in SUBSET (Nat \X Nat), S # {}
    PROVE  \E o \in S : \A p \in S : o[1] < p[1] \/ (o[1] = p[1] /\ o[2] <= p[2])
<1> DEFINE A == {o[1] : o \in S}
<1>1. A \in SUBSET Nat /\ A # {}
    OBVIOUS
<1>2. PICK a \in A : \A x \in A : a <= x
    <2> HIDE DEF A
    <2>1. QED BY <1>1, LeastNatural
<1> DEFINE B == {o[2] : o \in {p \in S : p[1] = a}}
<1>3. B \in SUBSET Nat /\ B # {}
    BY <1>2
<1>4. PICK b \in B : \A x \in B : b <= x
    <2> HIDE DEF B
    <2>1. QED BY <1>3, LeastNatural
<1>5. PICK o \in S : o[1] = a /\ o[2] = b
    BY <1>4
<1>6. ASSUME NEW p \in S
      PROVE  o[1] < p[1] \/ (o[1] = p[1] /\ o[2] <= p[2])
    <2>1. p[1] \in Nat /\ a \in Nat /\ a <= p[1]
        BY <1>1, <1>2
    <2>2. p[1] = a => b <= p[2]
        BY <1>4
    <2>3. QED BY <1>5, <2>1, <2>2
<1>7. QED BY <1>6

\* The option that comes next, of a list of options of the current job.
LEMMA CurrentOptionFacts ==
    ASSUME DataOK, NEW e, exploring = e, CurrentJob \in Jobs, IsList(e.node.states),
           e.left # {}, e.left \subseteq Options(e.node, CurrentJob)
    PROVE  /\ CurrentOption \in e.left
           /\ CurrentOption[1] \in DOMAIN e.node.states
           /\ CurrentOption[2] \in Parallelism(CurrentJob)
           /\ CurrentState \in Range(e.node.states)
           /\ Feasible(e.node, CurrentState, CurrentJob, CurrentOption[2])
<1> DEFINE j == CurrentJob
           S == e.left
<1>1. Parallelism(j) \in SUBSET Nat /\ DOMAIN e.node.states \in SUBSET Nat
    BY JobFacts, ListFacts
<1>2. \A o \in S : o \in (DOMAIN e.node.states) \X Parallelism(j)
    BY DEF Options
<1>3. S \in SUBSET (Nat \X Nat)
    BY <1>1, <1>2
<1> HIDE DEF S, j
<1>4. \E o \in S : \A p \in S : o[1] < p[1] \/ (o[1] = p[1] /\ o[2] <= p[2])
    <2>1. S # {}
        BY DEF S
    <2>2. QED BY <1>3, <2>1, LeastPair
<1>5. CurrentOption \in S
    <2>1. CurrentOption = CHOOSE o \in S : \A p \in S : o[1] < p[1] \/ (o[1] = p[1] /\ o[2] <= p[2])
        BY DEF CurrentOption, S
    <2>2. QED BY <1>4, <2>1
<1>6. /\ CurrentOption[1] \in DOMAIN e.node.states /\ CurrentOption[2] \in Parallelism(j)
      /\ Feasible(e.node, e.node.states[CurrentOption[1]], j, CurrentOption[2])
    BY <1>5 DEF Options, S, j
<1>7. CurrentState = e.node.states[CurrentOption[1]]
    BY DEF CurrentState
<1>8. CurrentState \in Range(e.node.states)
    BY <1>6, <1>7, ListFacts
<1>9. QED BY <1>5, <1>6, <1>7, <1>8 DEF j, S

LEMMA OptionFacts ==
    ASSUME DataOK, NEW e, IsExpansion(e), exploring = e
    PROVE  /\ CurrentJob \in e.jobs /\ CurrentJob \in Jobs
           /\ CurrentOption \in e.left
           /\ CurrentOption[1] \in DOMAIN e.node.states
           /\ CurrentOption[2] \in Parallelism(CurrentJob)
           /\ CurrentState \in Range(e.node.states) /\ IsStateOf(e.node, CurrentState)
           /\ Feasible(e.node, CurrentState, CurrentJob, CurrentOption[2])
<1>1. CurrentJob \in e.jobs /\ CurrentJob \in Jobs
    BY FirstOfFacts DEF CurrentJob, IsExpansion
<1>2. e.left # {} /\ e.left \subseteq Options(e.node, CurrentJob)
    BY DEF IsExpansion, CurrentJob
<1>3. IsList(e.node.states) /\ IsNode(e.node)
    BY DEF IsExpansion, IsNode
<1>4. /\ CurrentOption \in e.left
      /\ CurrentOption[1] \in DOMAIN e.node.states
      /\ CurrentOption[2] \in Parallelism(CurrentJob)
      /\ CurrentState \in Range(e.node.states)
      /\ Feasible(e.node, CurrentState, CurrentJob, CurrentOption[2])
    BY <1>1, <1>2, <1>3, CurrentOptionFacts
<1>5. IsStateOf(e.node, CurrentState)
    BY <1>3, <1>4 DEF IsNode
<1>6. QED BY <1>1, <1>4, <1>5

-----------------------------------------------------------------------------
(***************************************************************************)
(* When a job may be dispatched next, and its times.                       *)
(***************************************************************************)

LEMMA MinOfFour ==
    ASSUME NEW a \in Int, NEW b \in Int, NEW c \in Int, NEW d \in Int
    PROVE  /\ Min({a, b, c, d}) \in Int /\ Min({a, b, c, d}) \in {a, b, c, d}
           /\ Min({a, b, c, d}) <= a /\ Min({a, b, c, d}) <= b
           /\ Min({a, b, c, d}) <= c /\ Min({a, b, c, d}) <= d
<1> DEFINE S == {a, b, c, d}
<1>1. IsFiniteSet({a}) /\ IsFiniteSet({a} \cup {b})
    BY FS_Singleton, FS_AddElement
<1>2. IsFiniteSet(({a} \cup {b}) \cup {c})
    BY <1>1, FS_AddElement
<1>3. IsFiniteSet((({a} \cup {b}) \cup {c}) \cup {d})
    BY <1>2, FS_AddElement
<1>4. (({a} \cup {b}) \cup {c}) \cup {d} = S
    OBVIOUS
<1>5. IsFiniteSet(S) /\ S \in SUBSET Int /\ S # {} /\ a \in S /\ b \in S /\ c \in S /\ d \in S
    BY <1>3, <1>4
<1> HIDE DEF S
<1>6. Min(S) \in S /\ Min(S) \in Int /\ \A x \in S : Min(S) <= x
    BY <1>5, MinFacts
<1>7. Min(S) <= a /\ Min(S) <= b /\ Min(S) <= c /\ Min(S) <= d
    BY <1>5, <1>6
<1>8. QED BY <1>6, <1>7 DEF S

LEMMA MinOfThree ==
    ASSUME NEW a \in Int, NEW b \in Int, NEW c \in Int
    PROVE  Min({a, b, c}) \in Int /\ Min({a, b, c}) \in {a, b, c}
<1>1. {a, b, c} = {a, b, c, c}
    OBVIOUS
<1>2. Min({a, b, c, c}) \in Int /\ Min({a, b, c, c}) \in {a, b, c, c}
    BY MinOfFour
<1>3. QED BY <1>1, <1>2

LEMMA AfterType ==
    ASSUME NEW t \in Int
    PROVE  After(t) \in Int
<1>1. Infinity \in Int
    BY ProblemsAssumption
<1>2. QED BY <1>1 DEF After

\* t_wc of each state is within the bound that the node keeps.
LEMMA WindowFacts ==
    ASSUME DataOK, NEW n, IsNode(n), NEW s \in Range(n.states)
    PROVE  /\ TWorkConserving(n, s) \in Int /\ LatestTwc(n) \in Int
           /\ TWorkConserving(n, s) <= LatestTwc(n)
<1>1. IsState(s) /\ WithinBounds(n, s)
    BY DEF IsNode, IsStateOf
<1> DEFINE a == Avail(s, 1).max
           z == Avail(s, NumCores).max
           x == CertainlyReadyBy(n, s)
           y == Min({n.next_succ, n.seq_release, n.next_gang, n.next_mutex})
<1>2. /\ n.seq_release \in Int
      /\ n.a_max \in Int /\ n.next_succ \in Int /\ n.next_gang \in Int /\ n.next_mutex \in Int
    BY DEF IsNode
<1>3. s.succ \in Int /\ s.gang \in Int /\ s.mutex \in Int
    BY <1>1 DEF IsState
<1>4. s.succ <= n.next_succ /\ s.gang <= n.next_gang /\ s.mutex <= n.next_mutex /\ z <= n.a_max
    BY <1>1 DEF WithinBounds
<1>5. a \in Int /\ z \in Int /\ a <= z
    <2>1. NumCores \in Nat /\ NumCores > 0
        BY ProblemFacts
    <2>2. 1 \in 1..NumCores /\ NumCores \in 1..NumCores
        BY <2>1
    <2>3. QED BY <1>1, <2>2, AvailType, AvailOrder
<1>6. x \in Int /\ x <= n.seq_release /\ x <= s.gang /\ x <= s.mutex /\ x <= s.succ
    <2>1. x = Min({n.seq_release, s.gang, s.mutex, s.succ})
        BY DEF CertainlyReadyBy
    <2> DEFINE q == n.seq_release
               g == s.gang
               m == s.mutex
               k == s.succ
    <2>2. q \in Int /\ g \in Int /\ m \in Int /\ k \in Int /\ x = Min({q, g, m, k})
        BY <1>2, <1>3, <2>1
    <2> HIDE DEF x, q, g, m, k
    <2>3. /\ Min({q, g, m, k}) \in Int
          /\ Min({q, g, m, k}) <= q /\ Min({q, g, m, k}) <= g
          /\ Min({q, g, m, k}) <= m /\ Min({q, g, m, k}) <= k
        BY <2>2, MinOfFour
    <2>4. QED BY <2>2, <2>3 DEF q, g, m, k
<1>7. y \in Int /\ y \in {n.next_succ, n.seq_release, n.next_gang, n.next_mutex}
    BY <1>2, MinOfFour
<1>8. TWorkConserving(n, s) = MaxOf(a, x) /\ LatestTwc(n) = MaxOf(n.a_max, y)
    BY DEF TWorkConserving, LatestTwc
<1> HIDE DEF a, x, y, z
<1>9. x <= y
    BY <1>2, <1>3, <1>4, <1>6, <1>7
<1>10. QED BY <1>2, <1>4, <1>5, <1>6, <1>7, <1>8, <1>9 DEF MaxOf

LEMMA HigherThanFacts ==
    ASSUME NEW js \in SUBSET Jobs, NEW n, NEW j
    PROVE  ReleasedFrom(HigherThan(j, js, n), n) \in SUBSET Jobs
BY DEF ReleasedFrom, HigherThan

LEMMA HighSequentialType ==
    ASSUME DataOK, NEW n, LatestTwc(n) \in Int, NEW j
    PROVE  THighSequential(n, j) \in Int
<1> DEFINE js == ReleasedFrom(HigherThan(j, SequentialIndependentJobs, n), n)
           L == LatestArrivals(js)
           t == After(LatestTwc(n))
<1>1. js \in SUBSET Jobs
    BY ClassesOfJobs, HigherThanFacts
<1>2. t \in Int
    BY AfterType
<1>3. THighSequential(n, j) = Min(L \cup {t})
    BY DEF THighSequential
<1> HIDE DEF js, t
<1>4. L \in SUBSET Int /\ IsFiniteSet(L)
    BY <1>1, ArrivalsFacts
<1> HIDE DEF L
<1>5. IsFiniteSet(L \cup {t}) /\ L \cup {t} \in SUBSET Int /\ L \cup {t} # {}
    BY <1>2, <1>4, FS_AddElement
<1>6. QED BY <1>3, <1>5, MinFacts

LEMMA HighGangType ==
    ASSUME DataOK, NEW n, NEW s, IsState(s), NEW j, NEW u
    PROVE  THighGang(n, s, j, u) \in Int
<1> DEFINE js == ReleasedFrom(HigherThan(j, GangIndependentJobs, n), n)
           f == [k \in js |-> IF MinParallelism(k) > u
                              THEN MaxOf(Arrival(k).max, Avail(s, MinParallelism(k)).max)
                              ELSE Arrival(k).max]
<1>1. js \in SUBSET Jobs
    BY ClassesOfJobs, HigherThanFacts
<1>2. DOMAIN f \in SUBSET Jobs /\ \A k \in DOMAIN f : f[k] \in Int
    <2> HIDE DEF js
    <2>1. QED BY <1>1, JobFacts, AvailType DEF MaxOf
<1>3. THighGang(n, s, j, u) = Earliest({f[k] : k \in DOMAIN f})
    BY DEF THighGang
<1> HIDE DEF f
<1>4. QED BY <1>2, <1>3, JobValues, EarliestFacts

LEMMA HighMutexType ==
    ASSUME DataOK, NEW n, NEW s, IsState(s), NEW j, NEW u
    PROVE  THighMutex(n, s, j, u) \in Int
<1> DEFINE js == ReleasedFrom(HigherThan(j, MutexSourceJobs, n), n)
           f == [k \in js |-> ConditionalLatestReadyTime(n, s, k, j, u)]
<1>1. js \in SUBSET Jobs
    BY ClassesOfJobs, HigherThanFacts
<1>2. DOMAIN f \in SUBSET Jobs /\ \A k \in DOMAIN f : f[k] \in Int
    <2> HIDE DEF js
    <2>1. QED BY <1>1, ConditionalType
<1>3. THighMutex(n, s, j, u) = Earliest({f[k] : k \in DOMAIN f})
    BY DEF THighMutex
<1> HIDE DEF f
<1>4. QED BY <1>2, <1>3, JobValues, EarliestFacts

LEMMA HighSuccessorType ==
    ASSUME DataOK, NEW n, n.ready \in SUBSET Jobs, NEW s, IsState(s), NEW j, NEW u
    PROVE  THighSuccessor(n, s, j, u) \in Int /\ THighSuccessor(n, s, j, u) <= Infinity
<1> DEFINE C(k) == ConditionalLatestReadyTime(n, s, k, j, u)
           M(k) == Max({C(sib) : sib \in Siblings(k)})
           relevant == {k \in n.ready : HigherPriority(k, j) /\ j \notin Incompatible(k)}
           js == {k \in relevant : \A sib \in Siblings(k) : HigherPriority(sib, j)}
           f == [k \in js |-> M(k)]
<1>1. ASSUME NEW k \in Jobs PROVE M(k) \in Int
    <2> DEFINE g == [sib \in Siblings(k) |-> C(sib)]
    <2>1. DOMAIN g \in SUBSET Jobs /\ DOMAIN g # {} /\ \A h \in DOMAIN g : g[h] \in Int
        BY ConditionalType, SiblingFacts
    <2>2. M(k) = Max({g[h] : h \in DOMAIN g}) /\ {g[h] : h \in DOMAIN g} # {}
        BY <2>1
    <2> HIDE DEF g
    <2>3. {g[h] : h \in DOMAIN g} \in SUBSET Int /\ IsFiniteSet({g[h] : h \in DOMAIN g})
        BY <2>1, JobValues
    <2> HIDE DEF M
    <2>4. QED BY <2>2, <2>3, MaxFacts
<1>2. THighSuccessor(n, s, j, u) = Earliest({M(k) : k \in js})
    BY DEF THighSuccessor
<1>3. js \in SUBSET Jobs
    OBVIOUS
<1> HIDE DEF M, js
<1>4. DOMAIN f \in SUBSET Jobs /\ \A k \in DOMAIN f : f[k] \in Int
    BY <1>1, <1>3
<1>5. {f[k] : k \in DOMAIN f} = {M(k) : k \in js}
    OBVIOUS
<1> HIDE DEF f
<1>6. QED BY <1>2, <1>4, <1>5, JobValues, EarliestFacts

LEMMA HighFacts ==
    ASSUME DataOK, NEW n, IsNode(n), NEW s \in Range(n.states), NEW j \in Jobs,
           NEW u \in Parallelism(j)
    PROVE  /\ THigh(n, s, j, u) \in Int /\ THigh(n, s, j, u) <= Infinity
           /\ TMoreCores(s, j, u) \in Int
<1>1. IsState(s) /\ n.ready \in SUBSET Jobs
    BY DEF IsNode, IsStateOf
<1> DEFINE after == After(TWorkConserving(n, s))
           a == THighSequential(n, j)
           b == THighSuccessor(n, s, j, u)
           c == MinOf(THighGang(n, s, j, u), after)
           d == MinOf(THighMutex(n, s, j, u), after)
<1>2. after \in Int /\ a \in Int
    BY WindowFacts, AfterType, HighSequentialType
<1>3. b \in Int /\ b <= Infinity /\ Infinity \in Int
    BY <1>1, HighSuccessorType, ProblemsAssumption
<1>4. THighGang(n, s, j, u) \in Int /\ THighMutex(n, s, j, u) \in Int
    BY <1>1, HighGangType, HighMutexType
<1>5. THigh(n, s, j, u) = Min({a, b, c, d})
    BY DEF THigh
<1> HIDE DEF after, a, b
<1>6. c \in Int /\ d \in Int
    BY <1>2, <1>4 DEF MinOf
<1> HIDE DEF c, d
<1>7. Min({a, b, c, d}) \in Int /\ Min({a, b, c, d}) <= b
    BY <1>2, <1>3, <1>6, MinOfFour
<1>8. TMoreCores(s, j, u) \in Int
    <2> DEFINE more == {p \in Parallelism(j) : p > u}
    <2>1. TMoreCores(s, j, u) = IF more = {} THEN Infinity ELSE Avail(s, Min(more)).max
        BY DEF TMoreCores
    <2>2. Parallelism(j) \in SUBSET (1..NumCores) /\ IsFiniteSet(Parallelism(j))
        BY JobFacts
    <2>3. more \in SUBSET Parallelism(j) /\ more \in SUBSET Int /\ more \in SUBSET (1..NumCores)
        BY <2>2
    <2> HIDE DEF more
    <2>4. ASSUME more # {} PROVE Avail(s, Min(more)).max \in Int
        <3>1. IsFiniteSet(more)
            BY <2>2, <2>3, FS_Subset
        <3>2. Min(more) \in 1..NumCores
            BY <2>3, <2>4, <3>1, MinFacts
        <3>3. QED BY <1>1, <3>2, AvailType
    <2>5. QED BY <1>3, <2>1, <2>4
<1>9. QED BY <1>3, <1>5, <1>7, <1>8

LEMMA StartFacts ==
    ASSUME DataOK, NEW e, IsExpansion(e), exploring = e
    PROVE  /\ StartTimes \in Intervals(Nat)
           /\ CurrentOption[2] \in 1..NumCores
           /\ Avail(CurrentState, CurrentOption[2]).min <= StartTimes.min
<1> DEFINE n == e.node
           s == CurrentState
           j == CurrentJob
           u == CurrentOption[2]
           est == EarliestStart(n, s, j, u)
           lst == LatestStart(n, s, j, u)
           ready == ReadyTimes(n, s, j)
           free == Avail(s, u)
           wc == TWorkConserving(n, s)
           high == THigh(n, s, j, u)
           more == TMoreCores(s, j, u)
<1>1. /\ j \in Jobs /\ u \in Parallelism(j) /\ s \in Range(n.states) /\ IsState(s)
      /\ Feasible(n, s, j, u)
    BY OptionFacts DEF IsStateOf
<1>2. IsNode(n)
    BY DEF IsExpansion
<1>3. StartTimes = Interval(est, lst)
    BY DEF StartTimes
<1> HIDE DEF n, s, j, u
<1>4. u \in 1..NumCores
    BY <1>1, JobFacts
<1>5. free.min \in Nat /\ free.max \in Nat /\ free.min <= free.max
    BY <1>1, <1>4, AvailType
<1>6. ready.min \in Int /\ ready.max \in Int
    BY <1>1, ReadyTimesFacts
<1>7. wc \in Int /\ high \in Int /\ high <= Infinity /\ more \in Int /\ Infinity \in Int
    BY <1>1, <1>2, WindowFacts, HighFacts, ProblemsAssumption
<1>8. /\ est = MaxOf(ready.min, free.min)
      /\ lst = Min({MaxOf(ready.max, free.max), wc, MinOf(high, more) - 1})
      /\ est <= wc /\ est < high /\ est < more
    BY <1>1 DEF EarliestStart, LatestStart, Feasible
<1> HIDE DEF est, lst, ready, free, wc, high, more
<1>9. est \in Nat /\ free.min <= est /\ ready.min <= est
    BY <1>5, <1>6, <1>8 DEF MaxOf
<1>10. free.min <= MaxOf(ready.max, free.max) /\ MaxOf(ready.max, free.max) \in Int
    BY <1>5, <1>6 DEF MaxOf
<1>11. free.min <= MinOf(high, more) - 1 /\ MinOf(high, more) - 1 \in Int
    BY <1>5, <1>7, <1>8, <1>9 DEF MinOf
<1>12. free.min <= wc
    BY <1>5, <1>7, <1>8, <1>9
<1>13. lst \in Int /\ free.min <= lst
    BY <1>5, <1>7, <1>8, <1>10, <1>11, <1>12, MinOfThree
<1>14. est \in Nat /\ lst \in Nat /\ free.min <= est /\ free.min <= lst
    BY <1>5, <1>9, <1>13
<1>15. StartTimes \in Intervals(Nat) /\ free.min <= StartTimes.min
    BY <1>3, <1>14 DEF Interval, Intervals
<1>16. QED BY <1>4, <1>15 DEF free, s, u

\* A job does not complete before it starts when its trigger is clear.
LEMMA FinishFacts ==
    ASSUME DataOK, NEW e, IsExpansion(e), exploring = e
    PROVE  /\ FinishTimes \in Intervals(Nat)
           /\ TriggerIsClear =>
                StartTimes.min <= FinishTimes.min /\ StartTimes.max <= FinishTimes.max
<1> DEFINE j == CurrentJob
           cost == Cost(j)[CurrentOption[2]]
           start == StartTimes
           plain == [min |-> start.min + cost.min, max |-> start.max + cost.max]
<1>1. j \in Jobs /\ cost \in Intervals(Nat)
    BY OptionFacts, JobFacts
<1>2. start \in Intervals(Nat) /\ start.min \in Nat /\ start.max \in Nat /\ start.min <= start.max
    BY StartFacts DEF Intervals
<1>3. FinishTimes = AbortTimes(j, start, plain)
    BY DEF FinishTimes
<1> HIDE DEF start, j, cost
<1>4. cost.min \in Nat /\ cost.max \in Nat /\ cost.min <= cost.max
    BY <1>1 DEF Intervals
<1>5. /\ plain.min \in Nat /\ plain.max \in Nat /\ plain.min <= plain.max
      /\ start.min <= plain.min /\ start.max <= plain.max
    BY <1>2, <1>4
<1> HIDE DEF plain
<1>6. CASE j \notin DOMAIN problem.abort
    <2>1. FinishTimes = [min |-> plain.min, max |-> plain.max]
        BY <1>3, <1>5, <1>6 DEF AbortTimes, Interval
    <2>2. QED BY <1>5, <2>1 DEF Intervals, start
<1>7. CASE j \in DOMAIN problem.abort
    <2> DEFINE trigger == problem.abort[j].trigger
               cleanup == problem.abort[j].cleanup
               abort == Shift(trigger, cleanup)
    <2>1. trigger \in Intervals(Nat) /\ cleanup \in Intervals(Nat)
        BY <1>7 DEF DataOK, IsProblem
    <2>2. FinishTimes = IF start.min >= trigger.max THEN start
                        ELSE Interval(MinOf(plain.min, abort.min), MinOf(plain.max, abort.max))
        BY <1>3, <1>7 DEF AbortTimes
    <2> HIDE DEF trigger, cleanup
    <2>3. abort.min \in Nat /\ abort.max \in Nat /\ abort.min <= abort.max
        BY <2>1 DEF Intervals, Shift, Interval
    <2> HIDE DEF abort
    <2> DEFINE a == MinOf(plain.min, abort.min)
               b == MinOf(plain.max, abort.max)
    <2>4. a \in Nat /\ b \in Nat /\ a <= b
        BY <1>5, <2>3 DEF MinOf
    <2> HIDE DEF a, b
    <2>5. Interval(a, b) = [min |-> a, max |-> b] /\ Interval(a, b) \in Intervals(Nat)
        BY <2>4 DEF Interval, Intervals
    <2>6. FinishTimes \in Intervals(Nat)
        BY <1>2, <2>2, <2>5 DEF a, b
    <2>7. ASSUME TriggerIsClear PROVE start.min <= FinishTimes.min /\ start.max <= FinishTimes.max
        <3>1. start.max <= trigger.min \/ trigger.max <= start.min
            <4>1. exploring # Idle
                BY DEF IsExpansion, Idle
            <4>2. QED BY <1>7, <2>7, <4>1 DEF TriggerIsClear, start, trigger, j
        <3>2. trigger.min \in Nat /\ trigger.max \in Nat /\ trigger.min <= trigger.max
            BY <2>1 DEF Intervals
        <3>3. CASE trigger.max <= start.min
            BY <1>2, <2>2, <3>2, <3>3
        <3>4. CASE start.max <= trigger.min /\ start.min < trigger.max
            <4>1. trigger.min <= abort.min /\ trigger.max <= abort.max
                BY <2>1 DEF Intervals, Shift, Interval, abort
            <4>2. start.min <= a /\ start.max <= b
                BY <1>2, <1>5, <2>3, <3>2, <3>4, <4>1 DEF a, b, MinOf
            <4>3. FinishTimes = [min |-> a, max |-> b]
                BY <1>2, <2>2, <2>5, <3>2, <3>4 DEF a, b
            <4>4. QED BY <4>2, <4>3
        <3>5. QED BY <1>2, <3>1, <3>2, <3>3, <3>4
    <2>8. QED BY <1>7, <2>6, <2>7 DEF j, start
<1>8. QED BY <1>6, <1>7

-----------------------------------------------------------------------------
(***************************************************************************)
(* The layers of nodes.                                                    *)
(***************************************************************************)

LEMMA NumLayersFacts ==
    ASSUME DataOK
    PROVE  /\ NumLayers \in Nat /\ NumLayers > 1
           /\ \A j \in Jobs : Cardinality(Incompatible(j)) < NumLayers
           /\ \A depth \in Nat : Layer(depth) \in 0..(NumLayers - 1)
<1> DEFINE f == [j \in Jobs |-> Cardinality(Incompatible(j))]
           T == {f[j] : j \in DOMAIN f}
           S == {1} \cup T
<1>1. DOMAIN f = Jobs /\ \A j \in Jobs : f[j] \in Int
    BY SiblingFacts
<1>2. NumLayers = 1 + Max(S)
    BY DEF NumLayers
<1>3. \A j \in Jobs : f[j] \in T
    BY <1>1
<1>4. \A j \in Jobs : f[j] = Cardinality(Incompatible(j))
    OBVIOUS
<1> HIDE DEF f
<1>5. T \in SUBSET Int /\ IsFiniteSet(T)
    BY <1>1, JobValues
<1> HIDE DEF T
<1>6. IsFiniteSet(S) /\ S \in SUBSET Int /\ 1 \in S
    BY <1>5, FS_AddElement
<1> HIDE DEF S
<1>7. PICK m \in Int : m = Max(S) /\ \A x \in S : x <= m
    BY <1>6, MaxFacts
<1>8. \A j \in Jobs : f[j] <= m /\ f[j] \in Int
    BY <1>1, <1>3, <1>7 DEF S
<1>9. m >= 1 /\ NumLayers = 1 + m
    BY <1>2, <1>6, <1>7
<1>10. \A j \in Jobs : Cardinality(Incompatible(j)) < NumLayers
    BY <1>4, <1>8, <1>9
<1>11. PICK k \in Nat : k = NumLayers /\ k > 1
    BY <1>9
<1>12. \A depth \in Nat : depth % k \in 0..(k - 1)
    BY <1>11
<1>13. QED BY <1>10, <1>11, <1>12 DEF Layer

\* The dispatch goes to a node of the layer that is some dispatches ahead; the
\* node has the dispatched jobs of the one being expanded and the job.
LEMMA TargetFacts ==
    ASSUME DataOK, NodesInv, exploring # Idle, TriggerIsClear, current_job_count \in Nat
    PROVE  /\ TargetDepth \in DOMAIN nodes
           /\ IsLayer(TargetLayer) /\ Place \in DOMAIN TargetLayer /\ Place \in Nat \ {0}
           /\ IsNode(Target) /\ Target.states # <<>>
           /\ Target.scheduled = exploring.node.scheduled \cup Incompatible(CurrentJob)
<1> DEFINE e == exploring
           n == exploring.node
           j == CurrentJob
           scheduled == n.scheduled \cup Incompatible(j)
           layer == nodes[TargetDepth]
           w == TargetLayer[Place]
<1>1. IsExpansion(e) /\ IsNode(n)
    BY DEF NodesInv, IsExpansion
<1>2. j \in Jobs /\ IsStateOf(n, CurrentState)
    BY <1>1, OptionFacts
<1>3. TargetDepth \in DOMAIN nodes
    <2>1. Cardinality(Incompatible(j)) \in Nat
        BY <1>2, SiblingFacts
    <2>2. current_job_count + Cardinality(Incompatible(j)) \in Nat
        BY <2>1
    <2>3. QED BY <2>2, NumLayersFacts DEF TargetDepth, NodesInv
<1>4. IsLayer(layer) /\ IsList(layer)
    BY <1>3 DEF NodesInv, IsLayer
<1>5. Found # 0 => Found \in DOMAIN layer /\ layer[Found].scheduled = scheduled
    <2>1. CASE Naive
        BY <2>1 DEF Found
    <2>2. CASE ~Naive /\ exploring.next # 0
        BY <2>2 DEF Found, NodesInv, NextIsTarget
    <2>3. CASE ~Naive /\ exploring.next = 0
        <3> DEFINE same == {i \in DOMAIN layer : /\ layer[i].scheduled = n.scheduled \cup {j}
                                                 /\ Incompatible(j) = {j}}
        <3>1. Found = IF same = {} THEN 0 ELSE Min(same)
            BY <2>3 DEF Found, FindNode
        <3>2. ASSUME same # {} PROVE Min(same) \in same
            <4>1. Len(layer) \in Nat /\ DOMAIN layer = 1..Len(layer)
                BY <1>4, ListFacts
            <4>2. PICK m \in Nat : m = Len(layer)
                BY <4>1
            <4>3. IsFiniteSet(1..m)
                BY FS_Interval
            <4>4. same \in SUBSET (1..m)
                BY <4>1, <4>2
            <4> HIDE DEF same
            <4>5. IsFiniteSet(same)
                BY <4>3, <4>4, FS_Subset
            <4>6. same \in SUBSET Int
                BY <4>4
            <4>7. QED BY <3>2, <4>5, <4>6, MinFacts
        <3>3. QED BY <3>1, <3>2
    <2>4. QED BY <2>1, <2>2, <2>3
<1>6. /\ IsLayer(TargetLayer) /\ Place \in DOMAIN TargetLayer /\ Place \in Nat \ {0}
      /\ w.scheduled = scheduled
    <2>1. CASE Found # 0
        <3>1. TargetLayer = layer /\ Place = Found
            BY <2>1 DEF TargetLayer, Place
        <3>2. Len(layer) \in Nat /\ DOMAIN layer = 1..Len(layer)
            BY <1>4, ListFacts
        <3>3. PICK m \in Nat : m = Len(layer)
            BY <3>2
        <3>4. Place \in 1..m
            BY <1>5, <2>1, <3>1, <3>2, <3>3
        <3>5. QED BY <1>4, <1>5, <2>1, <3>1, <3>4
    <2>2. CASE Found = 0
        <3> DEFINE x == NextNode(n, j)
        <3>1. TargetLayer = Append(layer, x) /\ Place = Len(TargetLayer)
            BY <2>2 DEF TargetLayer, Place
        <3>2. IsNode(x) /\ x.scheduled = scheduled
            BY <1>1, <1>2, NextNodeFacts
        <3> HIDE DEF x
        <3>3. /\ IsList(TargetLayer) /\ Range(TargetLayer) \subseteq Range(layer) \cup {x}
              /\ DOMAIN TargetLayer = 1..(Len(layer) + 1) /\ Len(TargetLayer) = Len(layer) + 1
              /\ TargetLayer[Len(layer) + 1] = x /\ Len(layer) \in Nat
            BY <1>4, <3>1, AppendedFacts, ListFacts
        <3>4. PICK m \in Nat : m = Len(layer)
            BY <3>3
        <3>5. Place = m + 1 /\ DOMAIN TargetLayer = 1..(m + 1) /\ TargetLayer[m + 1] = x
            BY <3>1, <3>3, <3>4
        <3>6. Place \in DOMAIN TargetLayer /\ Place \in Nat \ {0} /\ w = x
            BY <3>5
        <3>7. IsLayer(TargetLayer)
            BY <1>4, <3>2, <3>3 DEF IsLayer
        <3>8. QED BY <3>2, <3>6, <3>7
    <2>3. QED BY <2>1, <2>2
<1>7. IsNode(w)
    <2>1. w \in Range(TargetLayer)
        BY <1>6, ListFacts DEF IsLayer
    <2>2. QED BY <1>6, <2>1 DEF IsLayer
<1> DEFINE s == NewState(w, CurrentState, j, StartTimes, FinishTimes, CurrentOption[2])
<1>8. Target = NewOrMergeState(w, s)
    BY DEF Target
<1>9. IsStateOf(w, s)
    <2>1. /\ StartTimes \in Intervals(Nat) /\ CurrentOption[2] \in 1..NumCores
          /\ Avail(CurrentState, CurrentOption[2]).min <= StartTimes.min
          /\ FinishTimes \in Intervals(Nat)
        BY <1>1, StartFacts, FinishFacts
    <2>2. StartTimes.min <= FinishTimes.min /\ StartTimes.max <= FinishTimes.max
        BY <1>1, FinishFacts
    <2>3. /\ w.ready \in SUBSET Jobs /\ w.scheduled \in SUBSET Jobs
          /\ \A type \in Types : w.pending[type] \subseteq w.scheduled
        BY <1>7 DEF IsNode
    <2>4. n.scheduled \cup {j} \subseteq w.scheduled
        BY <1>2, <1>6, SiblingFacts
    <2> HIDE DEF w, n, j
    <2>5. QED BY <1>2, <2>1, <2>2, <2>3, <2>4, NewStateFacts
<1>10. IsNode(Target) /\ Target.states # <<>> /\ Target.scheduled = w.scheduled
    <2> HIDE DEF w, s
    <2>1. QED BY <1>7, <1>8, <1>9, NewOrMergeStateFacts
<1>11. QED BY <1>3, <1>6, <1>10

-----------------------------------------------------------------------------
(***************************************************************************)
(* No step changes the problem, nor what is computed from it.              *)
(***************************************************************************)
Data == <<problem, sp_data>>

LEMMA SameData ==
    ASSUME UNCHANGED Data
    PROVE  /\ DataOK' <=> DataOK
           /\ Jobs' = Jobs /\ NumLayers' = NumLayers /\ Len(problem.job)' = Len(problem.job)
BY DEF Data, DataOK, Jobs, NumLayers, Incompatible, SpData, BuildSiblings, BuildPredecessors,
       BuildSuccessors, BuildExclusions, FindIncompatible, FindPendingIncompatible, Descendants,
       SuccessorsOf, IsFork

LEMMA SameNode ==
    ASSUME UNCHANGED Data, NEW n
    PROVE  IsNode(n)' <=> IsNode(n)
BY DEF Data, IsNode, WithinBounds, NumCores, Jobs, IsStateOf, IsState, AreRunning, AreTimes, HoldsCores

LEMMA SameLayer ==
    ASSUME UNCHANGED Data, NEW q
    PROVE  IsLayer(q)' <=> IsLayer(q)
BY SameNode DEF IsLayer

LEMMA SameOptions ==
    ASSUME UNCHANGED Data, NEW n, NEW j, NEW js
    PROVE  Options(n, j)' = Options(n, j) /\ FirstOf(js)' = FirstOf(js)
<1>1. Options(n, j)' = Options(n, j)
    BY DEF Data, Options, Feasible, Parallelism, Cost, HigherPriority, EarliestStart, ReadyTimes,
           TWorkConserving, THigh, TMoreCores, THighSequential, THighSuccessor, THighGang, THighMutex,
           HigherThan, ReleasedFrom, SequentialIndependentJobs, GangIndependentJobs, MutexSourceJobs,
           SuccessorJobs, Excluding, Exclusions, Arrival, MinParallelism, Jobs,
           ConditionalLatestReadyTime, InForce, Implied, Predecessors, BindingExclusions, BindingTimes,
           PrecedenceTimes, IsJoin, Siblings, Incompatible, MinDelayAfter, Bcet, Wcet,
           IsCertainlyFinished, NumCores, Successors, LatestArrivals
<1>2. FirstOf(js)' = FirstOf(js)
    BY DEF Data, FirstOf, ComesBefore, SourceJobs, SuccessorJobs, Jobs, EarlierArrival, Arrival,
           HigherPriority
<1>3. QED BY <1>1, <1>2

LEMMA SameExpansion ==
    ASSUME UNCHANGED Data, NEW e
    PROVE  IsExpansion(e)' <=> IsExpansion(e)
<1>1. IsNode(e.node)' <=> IsNode(e.node)
    BY SameNode
<1>2. Jobs' = Jobs
    BY SameData
<1>3. \A j : Options(e.node, j)' = Options(e.node, j)
    BY SameOptions
<1>4. FirstOf(e.jobs)' = FirstOf(e.jobs)
    BY SameOptions
<1>5. Options(e.node, FirstOf(e.jobs))' = Options(e.node, FirstOf(e.jobs))
    BY <1>3, <1>4
<1>6. QED BY <1>1, <1>2, <1>3, <1>5 DEF IsExpansion

-----------------------------------------------------------------------------
(***************************************************************************)
(* The invariant holds initially, and every step keeps it.                 *)
(***************************************************************************)

LEMMA EmptyLayer == IsLayer(<<>>)
BY EmptyList DEF IsLayer

LEMMA LayerOfOne ==
    ASSUME NEW n, IsNode(n)
    PROVE  IsLayer(<<n>>)
<1>1. <<n>> \in Seq({n})
    OBVIOUS
<1>2. IsList(<<n>>) /\ Range(<<n>>) \in SUBSET {n}
    BY <1>1, ListOfElements
<1>3. QED BY <1>2 DEF IsLayer

LEMMA InitKeepsInv == Init => IInv
<1>1. SUFFICES ASSUME Init PROVE IInv
    OBVIOUS
<1>2. DataOK
    BY <1>1, ProblemsAssumption DEF Init, DataOK
<1>3. IsNode(InitialNode) /\ IsStateOf(InitialNode, InitialState)
    BY <1>2, InitialNodeFacts, InitialStateFacts
<1> DEFINE first == AddState(InitialNode, InitialState)
<1>4. IsNode(first)
    BY <1>2, <1>3, AddStateFacts
<1> HIDE DEF first
<1>5. nodes = [layer \in 0..(NumLayers - 1) |-> IF layer = 0 THEN <<first>> ELSE <<>>]
    BY <1>1 DEF Init, first
<1>6. DOMAIN nodes = 0..(NumLayers - 1)
    BY <1>5
<1>7. \A l \in DOMAIN nodes : IsLayer(nodes[l])
    BY <1>4, <1>5, LayerOfOne, EmptyLayer
<1>8. exploring = Idle /\ current_job_count = 0 /\ completion = <<>>
      /\ observed_deadline_miss = FALSE /\ aborted = FALSE
    BY <1>1 DEF Init
<1>9. NodesInv
    BY <1>6, <1>7, <1>8 DEF NodesInv, NextIsTarget
<1>10. ReportsInv
    <2>1. Len(problem.job) \in Nat
        BY <1>2, ProblemFacts
    <2>2. PICK m \in Nat : m = Len(problem.job)
        BY <2>1
    <2>3. current_job_count \in 0..Len(problem.job)
        BY <1>8, <2>2
    <2>4. DOMAIN completion = {}
        BY <1>8, EmptyList
    <2>5. QED BY <1>8, <2>3, <2>4 DEF ReportsInv
<1>11. QED BY <1>2, <1>9, <1>10 DEF IInv

\* Steps that leave the nodes alone.
LEMMA SameNodes ==
    ASSUME UNCHANGED Data, NodesInv, UNCHANGED <<nodes, exploring>>, exploring = Idle
    PROVE  NodesInv'
<1>1. DOMAIN nodes' = 0..(NumLayers' - 1)
    BY SameData DEF NodesInv
<1>2. \A l \in DOMAIN nodes' : IsLayer(nodes[l])'
    BY SameLayer DEF NodesInv
<1>3. exploring' = Idle /\ Idle' = Idle
    BY DEF Idle
<1>4. NextIsTarget'
    BY <1>3 DEF NextIsTarget
<1>5. QED BY <1>1, <1>2, <1>3, <1>4 DEF NodesInv

LEMMA NextDepthKeepsInv ==
    ASSUME IInv, NextDepth
    PROVE  IInv'
<1>1. /\ UNCHANGED Data /\ UNCHANGED <<nodes, exploring>> /\ exploring = Idle
      /\ UNCHANGED <<completion, observed_deadline_miss, aborted>>
      /\ current_job_count' = current_job_count + 1 /\ current_job_count # Len(problem.job)
    BY DEF NextDepth, Data, Explored
<1>2. DataOK'
    BY <1>1, SameData DEF IInv
<1>3. NodesInv'
    BY <1>1, SameNodes DEF IInv
<1>4. ReportsInv'
    <2>1. PICK m \in Nat : m = Len(problem.job)
        BY ProblemFacts DEF IInv
    <2>2. current_job_count' \in 0..m
        BY <1>1, <2>1 DEF IInv, ReportsInv
    <2>3. Len(problem.job)' = m /\ Jobs' = Jobs
        BY <1>1, <2>1, SameData
    <2>4. QED BY <1>1, <2>2, <2>3 DEF IInv, ReportsInv
<1>5. QED BY <1>2, <1>3, <1>4 DEF IInv

LEMMA SameReports ==
    ASSUME UNCHANGED Data, ReportsInv, UNCHANGED <<current_job_count, completion>>,
           observed_deadline_miss' \in BOOLEAN, aborted' \in BOOLEAN
    PROVE  ReportsInv'
BY SameData DEF ReportsInv

LEMMA GiveUpKeepsInv ==
    ASSUME IInv, GiveUp
    PROVE  IInv'
<1>1. /\ UNCHANGED Data /\ UNCHANGED <<nodes, exploring>> /\ exploring = Idle
      /\ UNCHANGED <<current_job_count, completion, observed_deadline_miss>> /\ aborted' = TRUE
    BY DEF GiveUp, Data
<1>2. DataOK' /\ NodesInv'
    BY <1>1, SameData, SameNodes DEF IInv
<1>3. ReportsInv'
    BY <1>1, SameReports DEF IInv, ReportsInv
<1>4. QED BY <1>2, <1>3 DEF IInv

LEMMA StutterKeepsInv ==
    ASSUME IInv, UNCHANGED explorationVars
    PROVE  IInv'
<1>1. UNCHANGED Data /\ UNCHANGED <<nodes, exploring, current_job_count, completion,
                                    observed_deadline_miss, aborted>>
    BY DEF explorationVars, Data
<1>2. DataOK'
    BY <1>1, SameData DEF IInv
<1>3. ReportsInv'
    BY <1>1, SameReports DEF IInv, ReportsInv
<1>4. NodesInv'
    <2>1. CASE exploring = Idle
        BY <1>1, <2>1, SameNodes DEF IInv
    <2>2. CASE exploring # Idle
        <3>1. DOMAIN nodes' = 0..(NumLayers' - 1)
            BY <1>1, SameData DEF IInv, NodesInv
        <3>2. \A l \in DOMAIN nodes' : IsLayer(nodes[l])'
            BY <1>1, SameLayer DEF IInv, NodesInv
        <3>3. IsExpansion(exploring)'
            <4>1. PICK e : e = exploring
                OBVIOUS
            <4>2. IsExpansion(e)
                BY <2>2, <4>1 DEF IInv, NodesInv
            <4>3. IsExpansion(e)' /\ exploring' = e
                BY <1>1, <4>1, <4>2, SameExpansion
            <4>4. QED BY <4>3
        <3>4. NextIsTarget'
            <4>1. TargetDepth' = TargetDepth /\ CurrentJob' = CurrentJob
                  /\ Incompatible(CurrentJob)' = Incompatible(CurrentJob)
                BY <1>1, SameData, SameOptions DEF TargetDepth, CurrentJob, Incompatible, Layer, Data
            <4>2. QED BY <1>1, <4>1 DEF NextIsTarget, IInv, NodesInv, Idle
        <3>5. QED BY <3>1, <3>2, <3>3, <3>4 DEF NodesInv
    <2>3. QED BY <2>1, <2>2
<1>5. QED BY <1>2, <1>3, <1>4 DEF IInv

LEMMA CandidatesAreJobs ==
    ASSUME DataOK, NEW n, IsNode(n)
    PROVE  Candidates(n) \in SUBSET Jobs
BY DEF Candidates, SourceJobs, IsNode

\* A layer changes, the others do not.
LEMMA OneLayerChanges ==
    ASSUME DataOK, UNCHANGED Data, NodesInv, NEW d \in DOMAIN nodes, NEW q, IsLayer(q),
           nodes' = [nodes EXCEPT ![d] = q]
    PROVE  /\ DOMAIN nodes' = 0..(NumLayers' - 1)
           /\ \A l \in DOMAIN nodes' : IsLayer(nodes[l])'
           /\ nodes'[d] = q
<1>1. DOMAIN nodes' = DOMAIN nodes /\ nodes'[d] = q /\ \A l \in DOMAIN nodes : l # d => nodes'[l] = nodes[l]
    OBVIOUS
<1>2. \A l \in DOMAIN nodes : IsLayer(nodes[l])
    BY DEF NodesInv
<1>3. DOMAIN nodes' = 0..(NumLayers' - 1)
    BY <1>1, SameData DEF NodesInv
<1>4. ASSUME NEW l \in DOMAIN nodes' PROVE IsLayer(nodes[l])'
    <2>1. PICK r : r = nodes'[l]
        OBVIOUS
    <2>2. IsLayer(r)
        BY <1>1, <1>2, <2>1
    <2>3. IsLayer(r)'
        BY <2>2, SameLayer
    <2>4. QED BY <2>1, <2>3
<1>5. QED BY <1>1, <1>3, <1>4

LEMMA IdleKeepsNodes ==
    ASSUME DOMAIN nodes' = 0..(NumLayers' - 1), \A l \in DOMAIN nodes' : IsLayer(nodes[l])',
           exploring' = Idle
    PROVE  NodesInv'
BY DEF NodesInv, NextIsTarget, Idle

LEMMA ExpansionKeepsNodes ==
    ASSUME UNCHANGED Data,
           DOMAIN nodes' = 0..(NumLayers' - 1), \A l \in DOMAIN nodes' : IsLayer(nodes[l])',
           NEW e, exploring' = e, IsExpansion(e), e.next = 0
    PROVE  NodesInv'
<1>1. IsExpansion(e)'
    BY SameExpansion
<1>2. IsExpansion(exploring)'
    BY <1>1
<1>3. NextIsTarget'
    BY DEF NextIsTarget
<1>4. QED BY <1>2, <1>3 DEF NodesInv

LEMMA ExploreKeepsInv ==
    ASSUME IInv, NEW i \in DOMAIN ExplorationFront, Explore(i)
    PROVE  IInv'
<1> DEFINE d == Layer(current_job_count)
           front == nodes[d]
           n == front[i]
           jobs == {j \in Candidates(n) : Options(n, j) # {}}
           e == [node |-> n, jobs |-> jobs, left |-> Options(n, FirstOf(jobs)), next |-> 0]
           dead == jobs = {} /\ ~AllJobsScheduled(n)
           q == RemoveAt(front, i)
<1>1. DataOK /\ NodesInv /\ ReportsInv
    BY DEF IInv
<1>2. /\ UNCHANGED Data /\ UNCHANGED <<current_job_count, completion>>
      /\ exploring' = IF jobs = {} THEN Idle ELSE e
      /\ nodes' = [nodes EXCEPT ![d] = q]
      /\ observed_deadline_miss' = (observed_deadline_miss \/ dead) /\ aborted' = dead
    BY DEF Explore, Data, ExplorationFront
<1>3. DataOK'
    BY <1>1, <1>2, SameData
<1>4. ReportsInv'
    <2>1. observed_deadline_miss' \in BOOLEAN /\ aborted' \in BOOLEAN
        BY <1>2
    <2>2. QED BY <1>1, <1>2, <2>1, SameReports
<1>5. d \in DOMAIN nodes
    <2>1. current_job_count \in Nat
        BY <1>1, ProblemFacts DEF ReportsInv
    <2>2. QED BY <1>1, <2>1, NumLayersFacts DEF NodesInv
<1>6. IsList(front) /\ i \in DOMAIN front /\ IsNode(n)
    <2>1. IsLayer(front) /\ i \in DOMAIN front
        BY <1>1, <1>5 DEF NodesInv, ExplorationFront
    <2>2. QED BY <2>1, ListFacts DEF IsLayer
<1>7. IsLayer(q)
    <2>1. IsList(q) /\ Range(q) \subseteq Range(front)
        BY <1>6, RemovedFacts
    <2>2. QED BY <1>1, <1>5, <2>1 DEF IsLayer, NodesInv
<1> HIDE DEF d, q
<1>8. DOMAIN nodes' = 0..(NumLayers' - 1) /\ \A l \in DOMAIN nodes' : IsLayer(nodes[l])'
    BY <1>1, <1>2, <1>5, <1>7, OneLayerChanges
<1>9. CASE jobs = {}
    <2>1. NodesInv'
        BY <1>2, <1>8, <1>9, IdleKeepsNodes
    <2>2. QED BY <1>3, <1>4, <2>1 DEF IInv
<1>10. CASE jobs # {}
    <2>1. jobs \in SUBSET Jobs
        BY <1>1, <1>6, CandidatesAreJobs
    <2> HIDE DEF n
    <2>2. \A j \in jobs : Options(n, j) # {}
        OBVIOUS
    <2> HIDE DEF jobs
    <2>3. FirstOf(jobs) \in jobs
        BY <1>1, <1>10, <2>1, FirstOfFacts
    <2>4. IsExpansion(e)
        BY <1>6, <1>10, <2>1, <2>2, <2>3 DEF IsExpansion
    <2>5. exploring' = e /\ e.next = 0
        BY <1>2, <1>10
    <2> HIDE DEF e
    <2>6. NodesInv'
        BY <1>2, <1>8, <2>4, <2>5, ExpansionKeepsNodes
    <2>7. QED BY <1>3, <1>4, <2>6 DEF IInv
<1>11. QED BY <1>9, <1>10

LEMMA WithCompletionFacts ==
    ASSUME NEW c, NEW j, NEW times \in Intervals(Int), \A k \in DOMAIN c : c[k] \in Intervals(Int)
    PROVE  /\ DOMAIN WithCompletion(c, j, times) = DOMAIN c \cup {j}
           /\ \A k \in DOMAIN c \cup {j} : WithCompletion(c, j, times)[k] \in Intervals(Int)
<1> DEFINE w == WithCompletion(c, j, times)
<1>1. /\ DOMAIN w = DOMAIN c \cup {j}
      /\ \A k \in DOMAIN c \cup {j} :
            w[k] = IF k # j THEN c[k] ELSE IF j \in DOMAIN c THEN Widen(c[j], times) ELSE times
    BY DEF WithCompletion
<1> HIDE DEF w
<1>2. j \in DOMAIN c => Widen(c[j], times) \in Intervals(Int)
    BY WidenFacts
<1>3. \A k \in DOMAIN c \cup {j} : w[k] \in Intervals(Int)
    BY <1>1, <1>2
<1>4. QED BY <1>1, <1>3 DEF w

LEMMA LateTimesType ==
    ASSUME DataOK, NEW n, IsNode(n), n.states # <<>>, NEW j \in Jobs
    PROVE  LateTimes(n, j) \in Intervals(Int)
<1>1. IsList(n.states)
    BY DEF IsNode
<1>2. LastState(n) \in Range(n.states)
    <2>1. Len(n.states) \in Nat /\ DOMAIN n.states = 1..Len(n.states)
        BY <1>1, ListFacts
    <2>2. Len(n.states) # 0
        BY <1>1, EmptySeq DEF IsList
    <2>3. PICK m \in Nat : m = Len(n.states) /\ m # 0
        BY <2>1, <2>2
    <2>4. m \in DOMAIN n.states
        BY <2>1, <2>3
    <2>5. QED BY <1>1, <2>3, <2>4, ListFacts DEF LastState
<1> DEFINE p == MinParallelism(j)
<1>3. p \in 1..NumCores /\ p \in Parallelism(j) /\ Cost(j)[p] \in Intervals(Nat)
    BY JobFacts
<1> HIDE DEF p
<1>4. Avail(LastState(n), p) \in Intervals(Nat)
    BY <1>2, <1>3, AvailType DEF IsNode, IsStateOf
<1>5. Intervals(Nat) \subseteq Intervals(Int)
    BY DEF Intervals
<1>6. LateTimes(n, j) = Shift(Avail(LastState(n), p), Cost(j)[p])
    BY DEF LateTimes, p
<1>7. QED BY <1>3, <1>4, <1>5, <1>6, ShiftType

LEMMA DispatchKeepsInv ==
    ASSUME IInv, TriggerIsClear, Dispatch
    PROVE  IInv'
<1> DEFINE e == exploring
           n == exploring.node
           j == CurrentJob
           target == Target
           q == ReplaceAt(TargetLayer, Place, target)
           missed == observed_deadline_miss \/ Misses(j, FinishTimes)
           last == exploring.left = {CurrentOption}
           late == IF EarlyExit /\ (Naive \/ (last /\ ~missed)) THEN GuaranteedMiss(n, target) ELSE {}
           times == WithCompletion(completion, j, FinishTimes)
           over == last \/ missed \/ late # {}
           rest == exploring.jobs \ {j}
           same == [exploring EXCEPT !.left = @ \ {CurrentOption}, !.next = Place]
           next == [exploring EXCEPT !.jobs = rest, !.next = 0,
                                     !.left = Options(exploring.node, FirstOf(rest))]
<1>1. DataOK /\ NodesInv /\ ReportsInv
    BY DEF IInv
<1>2. /\ exploring # Idle /\ UNCHANGED Data /\ current_job_count' = current_job_count
      /\ nodes' = [nodes EXCEPT ![TargetDepth] = q]
      /\ completion' = IF late = {} THEN times
                       ELSE WithCompletion(times, Min(late), LateTimes(target, Min(late)))
      /\ observed_deadline_miss' = (missed \/ late # {})
      /\ aborted' = (aborted \/ (EarlyExit /\ (Misses(j, FinishTimes) \/ late # {})))
      /\ exploring' = IF ~over THEN same ELSE IF rest = {} THEN Idle ELSE next
    BY DEF Dispatch, Data
<1>3. DataOK'
    BY <1>1, <1>2, SameData
<1>4. IsExpansion(e) /\ IsNode(n)
    BY <1>1, <1>2 DEF NodesInv, IsExpansion
<1>5. current_job_count \in Nat
    BY <1>1, ProblemFacts DEF ReportsInv
<1>6. /\ TargetDepth \in DOMAIN nodes
      /\ IsLayer(TargetLayer) /\ Place \in DOMAIN TargetLayer /\ Place \in Nat \ {0}
      /\ IsNode(target) /\ target.states # <<>>
      /\ target.scheduled = n.scheduled \cup Incompatible(j)
    BY <1>1, <1>2, <1>5, TargetFacts
<1>7. j \in Jobs /\ j \in e.jobs /\ CurrentOption \in e.left
    BY <1>1, <1>4, OptionFacts
<1>8. FinishTimes \in Intervals(Int)
    <2>1. FinishTimes \in Intervals(Nat)
        BY <1>1, <1>4, FinishFacts
    <2>2. QED BY <2>1 DEF Intervals
<1>9. ReportsInv'
    <2>1. observed_deadline_miss' \in BOOLEAN /\ aborted' \in BOOLEAN
        BY <1>2
    <2>2. DOMAIN times = DOMAIN completion \cup {j} /\ \A k \in DOMAIN times : times[k] \in Intervals(Int)
        BY <1>1, <1>8, WithCompletionFacts DEF ReportsInv
    <2>3. late \in SUBSET Jobs
        BY DEF GuaranteedMiss
    <2>4. ASSUME late # {} PROVE Min(late) \in Jobs /\ LateTimes(target, Min(late)) \in Intervals(Int)
        <3> HIDE DEF late, target
        <3>1. IsFiniteSet(late) /\ late \in SUBSET Int
            BY <1>1, <2>3, ProblemFacts, FS_Subset
        <3>2. Min(late) \in Jobs
            BY <2>3, <2>4, <3>1, MinFacts
        <3>3. QED BY <1>1, <1>6, <3>2, LateTimesType
    <2> HIDE DEF times, late, target, missed, j
    <2>5. /\ DOMAIN completion' \in SUBSET Jobs
          /\ \A k \in DOMAIN completion' : completion'[k] \in Intervals(Int)
        <3>1. CASE late = {}
            BY <1>1, <1>2, <1>7, <2>2, <3>1 DEF ReportsInv
        <3>2. CASE late # {}
            <4> DEFINE h == Min(late)
                       t == LateTimes(target, h)
            <4>1. completion' = WithCompletion(times, h, t) /\ h \in Jobs /\ t \in Intervals(Int)
                BY <1>2, <2>4, <3>2
            <4> HIDE DEF h, t
            <4>2. /\ DOMAIN completion' = DOMAIN times \cup {h}
                  /\ \A k \in DOMAIN times \cup {h} : completion'[k] \in Intervals(Int)
                BY <2>2, <4>1, WithCompletionFacts
            <4>3. QED BY <1>1, <1>7, <2>2, <4>1, <4>2 DEF ReportsInv
        <3>3. QED BY <3>1, <3>2
    <2>6. Jobs' = Jobs /\ Len(problem.job)' = Len(problem.job)
        BY <1>2, SameData
    <2>7. QED BY <1>1, <1>2, <2>1, <2>5, <2>6 DEF ReportsInv
<1>10. IsLayer(q) /\ q[Place] = target /\ Place \in DOMAIN q
    <2>1. IsList(TargetLayer)
        BY <1>6 DEF IsLayer
    <2> HIDE DEF target
    <2>2. /\ IsList(q) /\ Range(q) \subseteq Range(TargetLayer) \cup {target}
          /\ DOMAIN q = DOMAIN TargetLayer /\ q[Place] = target
        BY <1>6, <2>1, ReplacedFacts
    <2> HIDE DEF q
    <2>3. QED BY <1>6, <2>2 DEF IsLayer
<1>11. /\ DOMAIN nodes' = 0..(NumLayers' - 1) /\ \A l \in DOMAIN nodes' : IsLayer(nodes[l])'
       /\ nodes'[TargetDepth] = q
    <2> HIDE DEF q
    <2>1. QED BY <1>1, <1>2, <1>6, <1>10, OneLayerChanges
<1>12. NodesInv'
    <2>1. CASE ~over
        <3>1. PICK x : x = same
            OBVIOUS
        <3>2. /\ exploring' = x /\ DOMAIN x = {"node", "jobs", "left", "next"}
              /\ x.node = n /\ x.jobs = e.jobs /\ x.left = e.left \ {CurrentOption}
              /\ x.next = Place
            BY <1>2, <1>4, <2>1, <3>1 DEF IsExpansion
        <3>3. e.left \ {CurrentOption} # {}
            BY <1>7, <2>1
        <3> HIDE DEF same, over, n, j, last, missed, late, target, q
        <3>4. IsExpansion(x)
            BY <1>4, <1>6, <3>2, <3>3 DEF IsExpansion, n
        <3>5. IsExpansion(x)'
            BY <1>2, <3>4, SameExpansion
        <3>6. IsExpansion(exploring)'
            BY <3>2, <3>5
        <3>7. CurrentJob' = CurrentJob
            <4>1. FirstOf(x.jobs)' = FirstOf(x.jobs)
                BY <1>2, SameOptions
            <4>2. QED BY <3>2, <4>1 DEF CurrentJob
        <3>8. TargetDepth' = TargetDepth /\ Incompatible(CurrentJob)' = Incompatible(CurrentJob)
            BY <1>2, <3>7, SameData DEF TargetDepth, Incompatible, Layer, Data
        <3>9. NextIsTarget'
            <4>1. /\ exploring.next' = Place /\ exploring.node' = n
                  /\ nodes[TargetDepth]' = q
                BY <1>11, <3>2, <3>8
            <4>2. Place \in DOMAIN q /\ q[Place].scheduled = n.scheduled \cup Incompatible(CurrentJob)
                BY <1>6, <1>10 DEF target, j
            <4>3. QED BY <3>8, <4>1, <4>2 DEF NextIsTarget
        <3>10. QED BY <1>11, <3>6, <3>9 DEF NodesInv
    <2>2. CASE over /\ rest = {}
        <3>1. exploring' = Idle
            BY <1>2, <2>2
        <3>2. QED BY <1>11, <3>1, IdleKeepsNodes
    <2>3. CASE over /\ rest # {}
        <3>1. exploring' = next
            BY <1>2, <2>3
        <3>2. /\ DOMAIN next = {"node", "jobs", "left", "next"}
              /\ next.node = n /\ next.jobs = rest /\ next.left = Options(n, FirstOf(rest))
              /\ next.next = 0
            BY <1>4 DEF IsExpansion
        <3>3. rest \in SUBSET Jobs /\ rest \subseteq e.jobs
            BY <1>4 DEF IsExpansion
        <3> HIDE DEF next, over, n, j, last, missed, late, target, q
        <3> HIDE DEF rest
        <3>4. FirstOf(rest) \in rest
            BY <1>1, <2>3, <3>3, FirstOfFacts
        <3>5. \A k \in rest : Options(n, k) # {}
            BY <1>4, <3>3 DEF IsExpansion, n
        <3>6. IsExpansion(next)
            BY <1>4, <2>3, <3>2, <3>3, <3>4, <3>5 DEF IsExpansion
        <3>7. QED BY <1>2, <1>11, <3>1, <3>2, <3>6, ExpansionKeepsNodes
    <2>4. QED BY <2>1, <2>2, <2>3
<1>13. QED BY <1>3, <1>9, <1>12 DEF IInv

LEMMA NextKeepsInv ==
    ASSUME IInv, TriggerIsClear, [Next]_explorationVars
    PROVE  IInv'
<1>1. CASE NextDepth
    BY <1>1, NextDepthKeepsInv
<1>2. CASE GiveUp
    BY <1>2, GiveUpKeepsInv
<1>3. CASE \E i \in DOMAIN ExplorationFront : Explore(i)
    BY <1>3, ExploreKeepsInv
<1>4. CASE Dispatch
    BY <1>4, DispatchKeepsInv
<1>5. CASE Done
    BY <1>5, StutterKeepsInv DEF Done
<1>6. CASE UNCHANGED explorationVars
    BY <1>6, StutterKeepsInv
<1>7. QED BY <1>1, <1>2, <1>3, <1>4, <1>5, <1>6 DEF Next

-----------------------------------------------------------------------------
(***************************************************************************)
(* What the invariant says of the nodes that are kept.                     *)
(***************************************************************************)

LEMMA KeptFacts ==
    ASSUME IInv, NEW n \in KeptNodes
    PROVE  IsNode(n) /\ \A s \in StatesOf(n) : s \in Range(n.states) /\ IsStateOf(n, s) /\ IsState(s)
<1>1. IsNode(n)
    <2>1. CASE \E l \in DOMAIN nodes : n \in NodesOf(l)
        BY <2>1 DEF IInv, NodesInv, NodesOf, IsLayer
    <2>2. CASE exploring # Idle /\ n = exploring.node
        BY <2>2 DEF IInv, NodesInv, IsExpansion
    <2>3. QED BY <2>1, <2>2 DEF KeptNodes
<1>2. QED BY <1>1 DEF StatesOf, IsNode, IsStateOf

LEMMA InvImpliesTypeOK == IInv => TypeOK
<1>1. SUFFICES ASSUME IInv PROVE TypeOK
    OBVIOUS
<1>2. DataOK /\ ReportsInv
    BY <1>1 DEF IInv
<1>3. \A j \in DOMAIN completion : completion[j].min <= completion[j].max
    BY <1>2 DEF ReportsInv, Intervals
<1>4. ASSUME NEW n \in KeptNodes
      PROVE  /\ n.scheduled \subseteq Jobs /\ n.ready \subseteq Jobs
             /\ \A type \in Types : n.pending[type] \subseteq n.scheduled
    BY <1>1, KeptFacts DEF IsNode
<1>5. ASSUME NEW n \in KeptNodes, NEW s \in StatesOf(n)
      PROVE  /\ DOMAIN s.avail = 1..NumCores /\ IsTracker(s.avail)
             /\ DOMAIN s.running \cup DOMAIN s.start \cup DOMAIN s.finish \subseteq n.scheduled
             /\ s.min_prio \in n.ready \cup {0}
    <2>1. IsStateOf(n, s) /\ IsState(s)
        BY <1>1, <1>5, KeptFacts
    <2>2. s.avail \in Trackers(NumCores) /\ NumCores \in Nat
        BY <1>2, <2>1, ProblemFacts DEF IsState
    <2>3. DOMAIN s.avail = 1..NumCores
        BY <2>2, TrackerFacts
    <2>4. IsTracker(s.avail)
        BY <2>2 DEF Trackers
    <2>5. QED BY <2>1, <2>3, <2>4 DEF IsStateOf
<1>6. QED BY <1>2, <1>3, <1>4, <1>5 DEF TypeOK, ReportsInv

LEMMA InvImpliesWindow == IInv => WindowCoversStates
BY KeptFacts, WindowFacts DEF IInv, WindowCoversStates

LEMMA InvImpliesCores == IInv => RunningJobsHoldCores
<1>1. SUFFICES ASSUME IInv, NEW n \in KeptNodes, NEW s \in StatesOf(n), NEW k \in DOMAIN s.running
               PROVE  LET t == s.running[k].finish.min
                      IN  Cardinality({i \in 1..NumCores : Avail(s, i).min >= t})
                            >= CoresHeldBy(s.running, {r \in DOMAIN s.running : s.running[r].finish.min >= t})
    BY DEF RunningJobsHoldCores
<1> DEFINE t == s.running[k].finish.min
           held == StillRunning(s.running, t)
           c == CoresHeldBy(s.running, held)
           busy == {i \in 1..NumCores : Avail(s, i).min >= t}
<1>2. DataOK /\ IsState(s) /\ HoldsCores(s)
    BY <1>1, KeptFacts DEF IInv, IsStateOf
<1>3. AreRunning(s.running) /\ s.avail \in Trackers(NumCores)
    BY <1>2 DEF IsState
<1>4. t \in Nat
    BY <1>3 DEF AreRunning, Intervals
<1>5. held = {r \in DOMAIN s.running : s.running[r].finish.min >= t} /\ held \in SUBSET (DOMAIN s.running)
    BY DEF StillRunning
<1>6. BusyUntil(s.avail, c, t)
    BY <1>2, <1>4 DEF HoldsCores
<1> HIDE DEF t, held
<1>7. c \in Nat
    BY <1>2, <1>3, <1>5, HeldCoresFacts
<1>8. PICK m \in Nat : m = NumCores /\ Len(s.avail) = m /\ s.avail \in Trackers(m)
    BY <1>2, <1>3, ProblemFacts, TrackerFacts
<1> HIDE DEF c
<1>9. c <= m /\ (c > 0 => s.avail[m - c + 1].min >= t)
    BY <1>6, <1>8 DEF BusyUntil
<1>10. (m - c + 1)..m \subseteq busy
    <2>1. SUFFICES ASSUME NEW i \in (m - c + 1)..m PROVE i \in busy
        OBVIOUS
    <2>2. c > 0 /\ m - c + 1 \in 1..m /\ i \in 1..m /\ m - c + 1 <= i
        BY <1>7, <1>9, <2>1
    <2>3. PICK h \in 1..m : h = m - c + 1
        BY <2>2
    <2>4. s.avail[h].min <= s.avail[i].min /\ s.avail[h].min \in Nat /\ s.avail[i].min \in Nat
        BY <1>8, <2>2, <2>3, TrackerFacts
    <2>5. s.avail[h].min >= t
        BY <1>9, <2>2, <2>3
    <2>6. s.avail[i].min >= t
        BY <1>4, <2>4, <2>5
    <2>7. QED BY <1>8, <2>2, <2>6 DEF Avail
<1>11. IsFiniteSet(busy) /\ Cardinality((m - c + 1)..m) = c
    <2>1. IsFiniteSet(1..m)
        BY FS_Interval
    <2>2. busy \in SUBSET (1..m)
        BY <1>8
    <2>3. PICK b \in Int : b = m - c + 1
        BY <1>7, <1>8
    <2>4. Cardinality(b..m) = IF b > m THEN 0 ELSE m - b + 1
        BY FS_Interval
    <2>5. (IF b > m THEN 0 ELSE m - b + 1) = c
        BY <1>7, <1>8, <2>3
    <2> HIDE DEF busy
    <2>6. IsFiniteSet(busy)
        BY <2>1, <2>2, FS_Subset
    <2>7. QED BY <2>3, <2>4, <2>5, <2>6
<1>12. Cardinality(busy) >= c /\ Cardinality(busy) \in Nat
    <2> HIDE DEF busy
    <2>1. PICK S \in SUBSET busy : S = (m - c + 1)..m
        BY <1>10
    <2>2. Cardinality(S) <= Cardinality(busy) /\ Cardinality(busy) \in Nat /\ Cardinality(S) = c
        BY <1>11, <2>1, FS_Subset, FS_CardinalityType
    <2>3. QED BY <1>7, <2>2
<1>13. QED BY <1>5, <1>12 DEF c, t

-----------------------------------------------------------------------------
(***************************************************************************)
(* The theorems.                                                           *)
(***************************************************************************)

\* The invariant holds in every exploration in which no trigger of an abort
\* action may come both before and after the start of its job (space.hpp,
\* make_initial_node, explore, dispatch and new_or_merge).
THEOREM InvariantHolds == Spec /\ []TriggerIsClear => []IInv
<1>1. Init => IInv
    BY InitKeepsInv
<1>2. IInv /\ TriggerIsClear /\ [Next]_explorationVars => IInv'
    BY NextKeepsInv
<1>3. QED BY <1>1, <1>2, PTL DEF Spec

\* In every state that a node keeps, the core availabilities are sorted, and
\* what is recorded concerns dispatched jobs only (Core_availability_tracker,
\* Running_jobs_tracker, Job_start_finish_times and Priority_tracker).
THEOREM TypesHold == Spec /\ []TriggerIsClear => []TypeOK
<1>1. IInv => TypeOK
    BY InvImpliesTypeOK
<1>2. QED BY <1>1, InvariantHolds, PTL

\* The bound on t_wc that Schedule_node keeps up while states are added and
\* merged (node.hpp, update_internal_bounds) covers each of its states.
THEOREM WindowHolds == Spec /\ []TriggerIsClear => []WindowCoversStates
<1>1. IInv => WindowCoversStates
    BY InvImpliesWindow
<1>2. QED BY <1>1, InvariantHolds, PTL

\* Until the earliest finish times of the jobs that are certainly running, as
\* many cores as they hold are not available: the running jobs (state.hpp,
\* Running_jobs_tracker) and the core availability agree after every dispatch
\* and every merge.
THEOREM CoresAreHeld == Spec /\ []TriggerIsClear => []RunningJobsHoldCores
<1>1. IInv => RunningJobsHoldCores
    BY InvImpliesCores
<1>2. QED BY <1>1, InvariantHolds, PTL

LEMMA InvImpliesCompletion == IInv => CompletesAfterStart
<1>1. SUFFICES ASSUME IInv, exploring # Idle, TriggerIsClear
               PROVE  StartTimes.min <= FinishTimes.min /\ StartTimes.max <= FinishTimes.max
    BY DEF CompletesAfterStart
<1>2. PICK e : e = exploring
    OBVIOUS
<1>3. DataOK /\ IsExpansion(e)
    BY <1>1, <1>2 DEF IInv, NodesInv
<1>4. QED BY <1>1, <1>2, <1>3, FinishFacts

\* No job has an abort action.
NoAborts == \A p \in Problems : DOMAIN p.abort = {}

Inv == IInv /\ problem \in Problems

LEMMA ClearWithoutAborts ==
    ASSUME NoAborts, Inv
    PROVE  TriggerIsClear
BY DEF NoAborts, Inv, TriggerIsClear

\* Where no job has an abort action, the same holds without that hypothesis,
\* and no job completes before it starts (space.hpp:640-720).
THEOREM WithoutAborts ==
    ASSUME NoAborts
    PROVE  Spec => [](TypeOK /\ WindowCoversStates /\ RunningJobsHoldCores /\ CompletesAfterStart)
<1>1. Init => Inv
    BY InitKeepsInv DEF Init, Inv
<1>2. Inv /\ [Next]_explorationVars => Inv'
    <2>1. SUFFICES ASSUME Inv, [Next]_explorationVars PROVE Inv'
        OBVIOUS
    <2>2. IInv'
        BY <2>1, ClearWithoutAborts, NextKeepsInv DEF Inv
    <2>3. UNCHANGED problem
        BY <2>1 DEF Next, NextDepth, GiveUp, Explore, Dispatch, Done, explorationVars
    <2>4. QED BY <2>1, <2>2, <2>3 DEF Inv
<1>3. Inv => TypeOK /\ WindowCoversStates /\ RunningJobsHoldCores /\ CompletesAfterStart
    BY InvImpliesTypeOK, InvImpliesWindow, InvImpliesCores, InvImpliesCompletion DEF Inv
<1>4. QED BY <1>1, <1>2, <1>3, PTL DEF Spec

\* An abort action does not make a job complete before it starts, whether it
\* ends or skips it, as long as its trigger is on one side of the start
\* (space.hpp:699, calculate_abort_time).
THEOREM CompletionHolds == Spec /\ []TriggerIsClear => []CompletesAfterStart
<1>1. QED BY InvImpliesCompletion, InvariantHolds, PTL
=============================================================================
