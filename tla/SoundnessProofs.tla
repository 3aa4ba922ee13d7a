---------------------------- MODULE SoundnessProofs ----------------------------
(***************************************************************************)
(* Proofs about the layers of the exploration, for any problem whose       *)
(* branches are closed: a dispatch never discards a job again, the ready   *)
(* jobs of a node are exact, the ring of layers holds one depth in each    *)
(* layer, and the exploration implements the search by layers.             *)
(*                                                                         *)
(* Then the purpose of the analysis, for jobs that do not depend on each   *)
(* other, whose branches are trivially closed: every execution follows     *)
(* some path of the graph, whatever states were merged on the way, so that *)
(* every completion lies in the interval reported for the job.             *)
(***************************************************************************)
EXTENDS ExplorationProofs, ExplorationRefinement

PredecessorsOf(j) == {e.from : e \in {x \in problem.prec : x.to = j}}

\* The branches are closed, in terms of what the analysis computes.
BranchesAreClosed ==
    /\ \A f \in Jobs : IsFork(f) => \A j \in SuccessorsOf(f) : PredecessorsOf(j) = {f}
    /\ \A j \in Jobs : \A k \in Incompatible(j) \ Siblings(j) : PredecessorsOf(k) \subseteq Incompatible(j)

\* The jobs dispatched or discarded: with a job come its predecessors and the
\* alternatives to it.
IsClosed(scheduled) ==
    /\ scheduled \in SUBSET Jobs
    /\ \A k \in scheduled : PredecessorsOf(k) \subseteq scheduled /\ Siblings(k) \subseteq scheduled

\* The jobs that may come next, and those among them that have predecessors.
MayCome(scheduled) == {k \in Jobs \ scheduled : PredecessorsOf(k) \subseteq scheduled}
ReadyAfter(scheduled) == {k \in MayCome(scheduled) : PredecessorsOf(k) # {}}

-----------------------------------------------------------------------------
(***************************************************************************)
(* Branches.                                                               *)
(***************************************************************************)

LEMMA EdgeFacts ==
    ASSUME DataOK, NEW j \in Jobs
    PROVE  /\ PredecessorsOf(j) \in SUBSET Jobs
           /\ \A k \in Jobs : k \in SuccessorsOf(j) <=> j \in PredecessorsOf(k)
<1>1. PredecessorsOf(j) \in SUBSET Jobs
    BY DEF PredecessorsOf, DataOK, IsProblem, Jobs
<1>2. ASSUME NEW k \in Jobs PROVE k \in SuccessorsOf(j) <=> j \in PredecessorsOf(k)
    BY DEF PredecessorsOf, SuccessorsOf
<1>3. QED BY <1>1, <1>2

LEMMA ClosedBranchesFacts ==
    ASSUME DataOK, ClosedBranches(problem)
    PROVE  BranchesAreClosed
<1> DEFINE Branches(f) == UNION {Descendants(s) \cup {s} : s \in SuccessorsOf(f)}
<1>1. ASSUME NEW f \in Jobs, IsFork(f), NEW j \in SuccessorsOf(f)
      PROVE  /\ PredecessorsOf(j) = {f}
             /\ \A k \in Branches(f) \ (Descendants(j) \cup SuccessorsOf(f)) :
                  PredecessorsOf(k) \subseteq Branches(f) \ Descendants(j)
    <2> DEFINE p == problem
               jobs == DOMAIN p.job
               From(h) == {e.from : e \in {x \in p.prec : x.to = h}}
               To(h) == {e.to : e \in {x \in p.prec : x.from = h}}
               closed(h) == {S \in SUBSET jobs : To(h) \subseteq S /\ \A k \in S : To(k) \subseteq S}
               Following(h) == {k \in jobs : \A S \in closed(h) : k \in S}
               All(g) == UNION {Following(s) \cup {s} : s \in To(g)}
    <2>1. jobs = Jobs /\ \A h : From(h) = PredecessorsOf(h) /\ To(h) = SuccessorsOf(h)
        BY DEF Jobs, PredecessorsOf, SuccessorsOf
    <2>2. \A h : Following(h) = Descendants(h)
        BY DEF Descendants, SuccessorsOf, Jobs
    <2>3. \A g : All(g) = Branches(g)
        <3> HIDE DEF p, Following, To
        <3>1. QED BY <2>1, <2>2
    <2>4. \A g \in {h \in jobs : p.job[h].type = "C_FORK"} : \A i \in To(g) :
            /\ From(i) = {g}
            /\ \A k \in All(g) \ (Following(i) \cup To(g)) : From(k) \subseteq All(g) \ Following(i)
        BY DEF ClosedBranches
    <2>5. f \in {h \in jobs : p.job[h].type = "C_FORK"}
        BY <1>1 DEF IsFork, Jobs
    <2> HIDE DEF p, jobs, From, To, Following, All, Branches
    <2>6. QED BY <1>1, <2>1, <2>2, <2>3, <2>4, <2>5
<1> HIDE DEF Branches
<1>2. ASSUME NEW j \in Jobs, NEW k \in Incompatible(j) \ Siblings(j)
      PROVE  PredecessorsOf(k) \subseteq Incompatible(j)
    <2>1. /\ Siblings(j) = BuildSiblings(j) /\ j \in Siblings(j)
          /\ Incompatible(j) = FindIncompatible(j, Siblings(j))
        BY SiblingFacts DEF DataOK, SpData, Siblings, Incompatible
    <2>2. Siblings(j) # {j}
        BY <1>2, <2>1 DEF FindIncompatible
    <2> DEFINE forks == {f \in Jobs : IsFork(f) /\ j \in SuccessorsOf(f)}
    <2>3. forks # {}
        BY <2>1, <2>2 DEF BuildSiblings
    <2>4. PICK f \in Jobs : f = Max(forks) /\ f \in forks
        <3>1. IsFiniteSet(forks) /\ forks \in SUBSET Int
            BY ProblemFacts, FS_Subset
        <3>2. Max(forks) \in forks
            BY <2>3, <3>1, MaxFacts
        <3>3. QED BY <3>2
    <2>5. Siblings(j) = SuccessorsOf(f)
        BY <2>1, <2>3, <2>4 DEF BuildSiblings
    <2>6. Incompatible(j) = Branches(f) \ Descendants(j)
        BY <2>1, <2>2, <2>5 DEF FindIncompatible, Branches
    <2>7. QED BY <1>1, <1>2, <2>4, <2>5, <2>6
<1>3. QED BY <1>1, <1>2 DEF BranchesAreClosed

\* What follows j is reached through what follows j.
LEMMA DescendantHasPredecessor ==
    ASSUME DataOK, NEW j \in Jobs, NEW k \in Descendants(j)
    PROVE  PredecessorsOf(k) \cap (Descendants(j) \cup {j}) # {}
<1> DEFINE closed == {S \in SUBSET Jobs : /\ SuccessorsOf(j) \subseteq S
                                          /\ \A h \in S : SuccessorsOf(h) \subseteq S}
           D == Descendants(j)
           T == {h \in D : PredecessorsOf(h) \cap (D \cup {j}) # {}}
<1>1. /\ D \in SUBSET Jobs /\ SuccessorsOf(j) \subseteq D
      /\ \A h \in D : SuccessorsOf(h) \subseteq D
    BY DescendantsFacts
<1>2. \A S \in closed : k \in S
    BY DEF Descendants
<1> HIDE DEF D
<1>3. SuccessorsOf(j) \subseteq T
    <2>1. ASSUME NEW h \in SuccessorsOf(j) PROVE h \in T
        <3>1. h \in D /\ h \in Jobs
            BY <1>1
        <3>2. j \in PredecessorsOf(h)
            BY <3>1, EdgeFacts
        <3>3. QED BY <3>1, <3>2
    <2>2. QED BY <2>1
<1>4. ASSUME NEW h \in T PROVE SuccessorsOf(h) \subseteq T
    <2>1. ASSUME NEW i \in SuccessorsOf(h) PROVE i \in T
        <3>1. h \in D /\ h \in Jobs /\ i \in D /\ i \in Jobs
            BY <1>1
        <3>2. h \in PredecessorsOf(i)
            BY <3>1, EdgeFacts
        <3>3. QED BY <3>1, <3>2
    <2>2. QED BY <2>1
<1>5. T \in SUBSET Jobs
    BY <1>1
<1> HIDE DEF T
<1>6. T \in closed
    BY <1>3, <1>4, <1>5
<1>7. k \in T
    BY <1>2, <1>6
<1>8. QED BY <1>7 DEF T, D

\* Where predecessors come with the jobs, nothing that follows a missing job
\* is there.
LEMMA NothingFollows ==
    ASSUME DataOK, NEW S \in SUBSET Jobs, \A k \in S : PredecessorsOf(k) \subseteq S,
           NEW j \in Jobs \ S
    PROVE  Descendants(j) \cap S = {}
<1> DEFINE closed == {Q \in SUBSET Jobs : /\ SuccessorsOf(j) \subseteq Q
                                          /\ \A h \in Q : SuccessorsOf(h) \subseteq Q}
           T == Jobs \ S
<1>1. ASSUME NEW h \in T PROVE SuccessorsOf(h) \subseteq T
    <2>1. SUFFICES ASSUME NEW i \in SuccessorsOf(h) PROVE i \in T
        OBVIOUS
    <2>2. i \in Jobs
        BY SuccessorsAreJobs
    <2>3. h \in PredecessorsOf(i)
        BY <2>2, EdgeFacts
    <2>4. QED BY <2>2, <2>3
<1>2. T \in closed
    BY <1>1
<1> HIDE DEF T
<1>3. \A k \in Descendants(j) : k \in T
    BY <1>2 DEF Descendants
<1>4. QED BY <1>3 DEF T

\* The alternatives to a job follow the same fork and do not follow each other;
\* all of them are discarded with it, and nothing that follows it is.
LEMMA BranchFacts ==
    ASSUME DataOK, BranchesAreClosed, NEW j \in Jobs
    PROVE  /\ \A s \in Siblings(j) : Siblings(s) = Siblings(j)
           /\ \A s \in Siblings(j) : PredecessorsOf(s) = PredecessorsOf(j)
           /\ Siblings(j) \subseteq Incompatible(j)
           /\ Incompatible(j) \cap Descendants(j) = {}
           /\ ~HasSiblings(j) => Incompatible(j) = {j}
           /\ \A k \in Incompatible(j) \ Siblings(j) :
                \E s \in Siblings(j) : s # j /\ k \in Descendants(s)
           /\ HasSiblings(j) => PredecessorsOf(j) # {}
           /\ HasSiblings(j) => \A f \in Incompatible(j) :
                SuccessorsOf(f) \ Descendants(j) \subseteq Incompatible(j)
<1>1. /\ j \in Siblings(j) /\ Siblings(j) \in SUBSET Jobs
      /\ Incompatible(j) \in SUBSET Jobs /\ j \in Incompatible(j) /\ j \notin Descendants(j)
    BY SiblingFacts, DescendantsFacts
<1>2. /\ \A k \in Jobs : Siblings(k) = BuildSiblings(k)
      /\ Incompatible(j) = FindIncompatible(j, Siblings(j))
    BY DEF DataOK, SpData, Siblings, Incompatible
<1>3. CASE ~HasSiblings(j)
    <2>1. Siblings(j) = {j} /\ Incompatible(j) = {j}
        BY <1>2, <1>3 DEF HasSiblings, FindIncompatible
    <2>2. QED BY <1>1, <1>3, <2>1
<1>4. CASE HasSiblings(j)
    <2> DEFINE ForksOf(k) == {f \in Jobs : IsFork(f) /\ k \in SuccessorsOf(f)}
               A == UNION {Descendants(s) \cup {s} : s \in Siblings(j)}
    <2>1. ForksOf(j) # {}
        BY <1>2, <1>4 DEF HasSiblings, BuildSiblings
    <2>2. PICK f \in Jobs : f = Max(ForksOf(j)) /\ f \in ForksOf(j)
        <3>1. IsFiniteSet(ForksOf(j)) /\ ForksOf(j) \in SUBSET Int
            BY ProblemFacts, FS_Subset
        <3>2. Max(ForksOf(j)) \in ForksOf(j)
            BY <2>1, <3>1, MaxFacts
        <3>3. QED BY <3>2
    <2>3. Siblings(j) = SuccessorsOf(f) /\ IsFork(f)
        BY <1>2, <2>1, <2>2 DEF BuildSiblings
    <2>4. \A s \in Siblings(j) : s \in Jobs /\ PredecessorsOf(s) = {f}
        BY <1>1, <2>2, <2>3 DEF BranchesAreClosed
    <2>5. ASSUME NEW s \in Siblings(j) PROVE Siblings(s) = Siblings(j)
        <3>1. ForksOf(s) = {f}
            BY <2>2, <2>3, <2>4, EdgeFacts
        <3>2. Max({f}) = f
            <4>1. IsFiniteSet({f})
                BY FS_Singleton
            <4>2. f \in Int
                BY ProblemFacts
            <4>3. Max({f}) \in {f}
                BY <4>1, <4>2, MaxFacts
            <4>4. QED BY <4>3
        <3>3. BuildSiblings(s) = SuccessorsOf(f)
            BY <3>1, <3>2 DEF BuildSiblings
        <3>4. QED BY <1>2, <2>3, <2>4, <3>3
    <2>6. ASSUME NEW s \in Siblings(j) PROVE s \notin Descendants(j)
        <3>1. SUFFICES ASSUME s \in Descendants(j) PROVE FALSE
            OBVIOUS
        <3>2. f \in Descendants(j) \cup {j}
            BY <2>4, <3>1, DescendantHasPredecessor
        <3>3. j \in Descendants(j)
            BY <1>1, <2>2, <2>3, <3>2, DescendantsFacts
        <3>4. QED BY <1>1, <3>3
    <2>7. Incompatible(j) = A \ Descendants(j)
        BY <1>2, <1>4 DEF HasSiblings, FindIncompatible
    <2>8. \A s \in Siblings(j) : s \in A
        OBVIOUS
    <2>9. \A k \in A \ Siblings(j) : \E s \in Siblings(j) : k \in Descendants(s)
        OBVIOUS
    <2>13. ASSUME NEW g \in A PROVE SuccessorsOf(g) \subseteq A
        <3>1. PICK s \in Siblings(j) : g \in Descendants(s) \cup {s}
            OBVIOUS
        <3>2. SuccessorsOf(g) \subseteq Descendants(s)
            BY <1>1, <3>1, DescendantsFacts
        <3>3. QED BY <3>2
    <2> HIDE DEF A
    <2>14. \A g \in Incompatible(j) : SuccessorsOf(g) \ Descendants(j) \subseteq Incompatible(j)
        BY <2>7, <2>13
    <2>10. Siblings(j) \subseteq Incompatible(j) /\ Incompatible(j) \cap Descendants(j) = {}
        BY <2>6, <2>7, <2>8
    <2>11. ASSUME NEW k \in Incompatible(j) \ Siblings(j)
           PROVE  \E s \in Siblings(j) : s # j /\ k \in Descendants(s)
        BY <2>7, <2>9
    <2>12. QED BY <1>1, <1>4, <2>4, <2>5, <2>10, <2>11, <2>14
<1>5. QED BY <1>3, <1>4

\* Where no job of a branch was taken, none of what a job discards was discarded
\* before.
LEMMA NothingDiscardedTwice ==
    ASSUME DataOK, BranchesAreClosed, NEW S, IsClosed(S), NEW j \in Jobs \ S
    PROVE  Incompatible(j) \cap S = {}
<1>1. SUFFICES ASSUME NEW k \in Incompatible(j), k \in S PROVE FALSE
    OBVIOUS
<1>2. j \in Siblings(j) /\ Siblings(j) \in SUBSET Jobs
    BY SiblingFacts
<1>3. ASSUME NEW s \in Siblings(j) PROVE s \notin S
    <2>1. Siblings(s) = Siblings(j)
        BY BranchFacts
    <2>2. QED BY <1>2, <2>1 DEF IsClosed
<1>4. CASE k \in Siblings(j)
    BY <1>1, <1>3, <1>4
<1>5. CASE k \notin Siblings(j)
    <2>1. PICK s \in Siblings(j) : k \in Descendants(s)
        BY <1>5, BranchFacts
    <2>2. s \in Jobs \ S
        BY <1>2, <1>3
    <2>3. Descendants(s) \cap S = {}
        BY <2>2, NothingFollows DEF IsClosed
    <2>4. QED BY <1>1, <2>1, <2>3
<1>6. QED BY <1>4, <1>5

LEMMA DispatchKeepsClosed ==
    ASSUME DataOK, BranchesAreClosed, NEW S, IsClosed(S), NEW j \in MayCome(S)
    PROVE  IsClosed(S \cup Incompatible(j))
<1> DEFINE T == S \cup Incompatible(j)
<1>1. /\ j \in Jobs /\ j \notin S /\ PredecessorsOf(j) \subseteq S
      /\ Incompatible(j) \in SUBSET Jobs /\ S \in SUBSET Jobs
    BY SiblingFacts DEF MayCome, IsClosed
<1>2. ASSUME NEW k \in S PROVE PredecessorsOf(k) \subseteq T /\ Siblings(k) \subseteq T
    BY DEF IsClosed
<1>3. ASSUME NEW k \in Incompatible(j), k \in Siblings(j)
      PROVE  PredecessorsOf(k) \subseteq T /\ Siblings(k) \subseteq T
    <2>1. PredecessorsOf(k) = PredecessorsOf(j) /\ Siblings(k) = Siblings(j)
        BY <1>1, <1>3, BranchFacts
    <2>2. Siblings(j) \subseteq Incompatible(j)
        BY <1>1, BranchFacts
    <2>3. QED BY <1>1, <2>1, <2>2
<1>4. ASSUME NEW k \in Incompatible(j) \ Siblings(j)
      PROVE  PredecessorsOf(k) \subseteq T /\ Siblings(k) \subseteq T
    <2>1. k \in Jobs /\ PredecessorsOf(k) \subseteq Incompatible(j)
        BY <1>1, <1>4 DEF BranchesAreClosed
    <2>2. HasSiblings(j) /\ k \notin Descendants(j)
        <3>1. j \in Siblings(j)
            BY <1>1, SiblingFacts
        <3>2. /\ ~HasSiblings(j) => Incompatible(j) = {j}
              /\ Incompatible(j) \cap Descendants(j) = {}
            BY <1>1, BranchFacts
        <3>3. QED BY <1>4, <3>1, <3>2
    <2>3. CASE ~HasSiblings(k)
        BY <2>1, <2>3 DEF HasSiblings
    <2>4. CASE HasSiblings(k)
        <3>1. SUFFICES ASSUME NEW i \in Siblings(k) PROVE i \in Incompatible(j)
            BY <2>1
        <3>2. PredecessorsOf(i) = PredecessorsOf(k) /\ PredecessorsOf(k) # {} /\ i \in Jobs
            BY <2>1, <2>4, BranchFacts, SiblingFacts
        <3>3. PICK f : f \in PredecessorsOf(k)
            BY <3>2
        <3>4. f \in Incompatible(j) /\ f \in Jobs
            BY <1>1, <2>1, <3>3
        <3>5. i \in SuccessorsOf(f) /\ k \in SuccessorsOf(f)
            BY <2>1, <3>2, <3>3, <3>4, EdgeFacts
        <3>6. i \notin Descendants(j)
            <4>1. SUFFICES ASSUME i \in Descendants(j) PROVE FALSE
                OBVIOUS
            <4>2. PICK g \in PredecessorsOf(k) : g \in Descendants(j) \cup {j}
                BY <1>1, <3>2, <4>1, DescendantHasPredecessor
            <4>3. g \in Jobs /\ k \in SuccessorsOf(g)
                BY <1>1, <2>1, <4>2, EdgeFacts
            <4>4. k \in Descendants(j)
                BY <1>1, <4>2, <4>3, DescendantsFacts
            <4>5. QED BY <2>2, <4>4
        <3>7. QED BY <1>1, <2>2, <3>4, <3>5, <3>6, BranchFacts
    <2>5. QED BY <2>3, <2>4
<1>5. QED BY <1>1, <1>2, <1>3, <1>4 DEF IsClosed

\* The ready jobs that a node derives from those of its parent.
LEMMA ReadyAfterDispatch ==
    ASSUME DataOK, BranchesAreClosed, NEW S, IsClosed(S), NEW j \in MayCome(S)
    PROVE  ReadyAfter(S \cup Incompatible(j)) =
            IF HasPrecedence
            THEN {k \in ReadyAfter(S) : j \notin Incompatible(k)}
                    \cup MadeReady(j, S \cup Incompatible(j))
            ELSE {}
<1> DEFINE T == S \cup Incompatible(j)
           kept == {k \in ReadyAfter(S) : j \notin Incompatible(k)}
<1>1. /\ j \in Jobs /\ j \notin S /\ PredecessorsOf(j) \subseteq S
      /\ Incompatible(j) \in SUBSET Jobs /\ S \in SUBSET Jobs
      /\ j \in Incompatible(j) /\ j \in Siblings(j)
    BY SiblingFacts DEF MayCome, IsClosed
<1>2. Incompatible(j) \cap S = {} /\ Descendants(j) \cap S = {} /\ Incompatible(j) \cap Descendants(j) = {}
    BY <1>1, NothingDiscardedTwice, NothingFollows, BranchFacts DEF IsClosed
<1>3. MadeReady(j, T) = {k \in SuccessorsOf(j) : PredecessorsOf(k) \subseteq T}
    <2>1. AllSuccessors(j) = SuccessorsOf(j)
        <3>1. \A type \in Types :
                Successors(type, j) = {e.to : e \in {x \in problem.prec : x.type = type /\ x.from = j}}
            BY <1>1, ConstraintFacts
        <3>2. \A x \in problem.prec : x.type \in Types
            BY DEF DataOK, IsProblem
        <3>3. QED BY <3>1, <3>2 DEF AllSuccessors, SuccessorsOf, Types
    <2>2. QED BY <2>1 DEF MadeReady, PredecessorsOf
<1>4. CASE ~HasPrecedence
    <2>1. \A k : PredecessorsOf(k) = {}
        BY <1>4 DEF HasPrecedence, PredecessorsOf
    <2>2. QED BY <1>4, <2>1 DEF ReadyAfter
<1>5. ASSUME NEW k \in MadeReady(j, T) PROVE k \in ReadyAfter(T)
    <2>1. k \in Jobs /\ k \in SuccessorsOf(j) /\ PredecessorsOf(k) \subseteq T
        BY <1>1, <1>3, SuccessorsAreJobs
    <2>2. j \in PredecessorsOf(k) /\ k \in Descendants(j)
        BY <1>1, <2>1, EdgeFacts, DescendantsFacts
    <2>3. k \notin S /\ k \notin Incompatible(j)
        BY <1>1, <1>2, <2>2 DEF IsClosed
    <2>4. QED BY <2>1, <2>2, <2>3 DEF ReadyAfter, MayCome
<1>6. ASSUME NEW k \in kept PROVE k \in ReadyAfter(T)
    <2>1. /\ k \in Jobs /\ k \notin S /\ PredecessorsOf(k) \subseteq S /\ PredecessorsOf(k) # {}
          /\ j \notin Incompatible(k)
        BY DEF ReadyAfter, MayCome
    <2>2. k \notin Incompatible(j)
        <3>1. SUFFICES ASSUME k \in Incompatible(j) PROVE FALSE
            OBVIOUS
        <3>2. CASE k \in Siblings(j)
            <4>1. Siblings(k) = Siblings(j) /\ Siblings(k) \subseteq Incompatible(k)
                BY <1>1, <2>1, <3>2, BranchFacts
            <4>2. QED BY <1>1, <2>1, <4>1
        <3>3. CASE k \notin Siblings(j)
            <4>1. PredecessorsOf(k) \subseteq Incompatible(j)
                BY <1>1, <3>1, <3>3 DEF BranchesAreClosed
            <4>2. QED BY <1>2, <2>1, <4>1
        <3>4. QED BY <3>2, <3>3
    <2>3. QED BY <2>1, <2>2 DEF ReadyAfter, MayCome
<1>7. ASSUME NEW k \in ReadyAfter(T) PROVE k \in kept \cup MadeReady(j, T)
    <2>1. /\ k \in Jobs /\ k \notin S /\ k \notin Incompatible(j)
          /\ PredecessorsOf(k) \subseteq T /\ PredecessorsOf(k) # {}
        BY DEF ReadyAfter, MayCome
    <2>2. j \in PredecessorsOf(k) => k \in MadeReady(j, T)
        BY <1>1, <1>3, <2>1, EdgeFacts
    <2>3. CASE PredecessorsOf(k) \subseteq S
        <3>1. k \in ReadyAfter(S)
            BY <2>1, <2>3 DEF ReadyAfter, MayCome
        <3>2. j \notin Incompatible(k)
            <4>1. SUFFICES ASSUME j \in Incompatible(k) PROVE FALSE
                OBVIOUS
            <4>2. CASE j \in Siblings(k)
                <5>1. Siblings(j) = Siblings(k) /\ k \in Siblings(k) /\ Siblings(j) \subseteq Incompatible(j)
                    BY <1>1, <2>1, <4>2, BranchFacts, SiblingFacts
                <5>2. QED BY <2>1, <5>1
            <4>3. CASE j \notin Siblings(k)
                <5>1. PICK s \in Siblings(k) : j \in Descendants(s)
                    BY <2>1, <4>1, <4>3, BranchFacts
                <5>2. PredecessorsOf(j) # {}
                    <6>1. s \in Jobs
                        BY <2>1, SiblingFacts
                    <6>2. QED BY <5>1, <6>1, DescendantHasPredecessor
                <5>3. PredecessorsOf(j) \subseteq Incompatible(k)
                    BY <2>1, <4>1, <4>3 DEF BranchesAreClosed
                <5>4. Incompatible(k) \cap S = {}
                    BY <2>1, NothingDiscardedTwice
                <5>5. QED BY <1>1, <5>2, <5>3, <5>4
            <4>4. QED BY <4>2, <4>3
        <3>3. QED BY <3>1, <3>2
    <2>4. CASE ~(PredecessorsOf(k) \subseteq S)
        <3>1. PICK p \in PredecessorsOf(k) : p \in Incompatible(j)
            BY <2>1, <2>4
        <3>2. CASE p = j
            BY <2>2, <3>1, <3>2
        <3>3. CASE p # j
            <4>1. HasSiblings(j)
                BY <1>1, <3>1, <3>3, BranchFacts
            <4>2. p \in Jobs /\ k \in SuccessorsOf(p)
                BY <1>1, <2>1, <3>1, EdgeFacts
            <4>3. k \in Descendants(j)
                BY <1>1, <2>1, <3>1, <4>1, <4>2, BranchFacts
            <4>4. PICK g \in PredecessorsOf(k) : g \in Descendants(j) \cup {j}
                BY <1>1, <4>3, DescendantHasPredecessor
            <4>5. g \notin Descendants(j)
                BY <1>2, <2>1, <4>4
            <4>6. QED BY <2>2, <4>4, <4>5
        <3>4. QED BY <3>2, <3>3
    <2>5. QED BY <2>3, <2>4
<1>8. CASE HasPrecedence
    <2> HIDE DEF T, kept
    <2>1. ReadyAfter(T) = kept \cup MadeReady(j, T)
        BY <1>5, <1>6, <1>7
    <2>2. QED BY <1>8, <2>1 DEF T, kept
<1>9. QED BY <1>4, <1>8

-----------------------------------------------------------------------------
(***************************************************************************)
(* The ring of layers.                                                     *)
(***************************************************************************)

\* What a node is, without its states.
PlainNode(n) ==
    /\ DOMAIN n = NodeFields
    /\ IsClosed(n.scheduled)
    /\ n.num_jobs_scheduled = Cardinality(n.scheduled)
    /\ n.ready = ReadyAfter(n.scheduled)

\* The depths that the ring holds, and the layer of a node.
Window == current_job_count..(current_job_count + NumLayers - 1)
Placed(n, l) == n.num_jobs_scheduled \in Window /\ Layer(n.num_jobs_scheduled) = l

IsPlaced(q, l) == IsList(q) /\ \A n \in Range(q) : PlainNode(n) /\ Placed(n, l)

Expanding(e) ==
    /\ DOMAIN e = {"node", "jobs", "left", "next"}
    /\ PlainNode(e.node)
    /\ e.jobs \in (SUBSET MayCome(e.node.scheduled)) \ {{}}
    /\ e.next \in Nat

LayersInv ==
    /\ DataOK /\ BranchesAreClosed
    /\ current_job_count \in 0..Len(problem.job)
    /\ DOMAIN nodes = 0..(NumLayers - 1)
    /\ \A l \in DOMAIN nodes : IsPlaced(nodes[l], l)
    /\ exploring # Idle => /\ Expanding(exploring)
                           /\ exploring.node.num_jobs_scheduled = current_job_count
    /\ NextIsTarget

LEMMA Modulus ==
    ASSUME NEW k \in Nat, k > 0, NEW a \in Nat, NEW b \in Nat
    PROVE  /\ a % k = b % k /\ a <= b /\ b < a + k => a = b
           /\ (a + k) % k = (a % k)
<1>1. PICK q \in Nat, r \in 0..(k - 1) : a = k * q + r /\ a % k = r
    <2>1. a = k * (a \div k) + (a % k) /\ a \div k \in Nat /\ a % k \in 0..(k - 1)
        OBVIOUS
    <2>2. QED BY <2>1
<1>2. PICK p \in Nat, s \in 0..(k - 1) : b = k * p + s /\ b % k = s
    <2>1. b = k * (b \div k) + (b % k) /\ b \div k \in Nat /\ b % k \in 0..(k - 1)
        OBVIOUS
    <2>2. QED BY <2>1
<1>3. ASSUME r = s, a <= b, b < a + k PROVE a = b
    <2>1. k * q <= k * p /\ k * p < k * q + k
        BY <1>1, <1>2, <1>3
    <2>2. q <= p /\ p < q + 1
        BY <2>1
    <2>3. QED BY <1>1, <1>2, <1>3, <2>2
<1>4. (a + k) % k = a % k
    <2>1. a + k = k * (q + 1) + r
        BY <1>1
    <2>2. (k * (q + 1) + r) % k = r
        OBVIOUS
    <2>3. QED BY <1>1, <2>1, <2>2
<1>5. QED BY <1>1, <1>2, <1>3, <1>4

\* In the window no two depths share a layer, and the depth that enters it gets
\* the layer of the one that leaves it.
LEMMA RingFacts ==
    ASSUME DataOK, current_job_count \in Nat
    PROVE  /\ \A c, d \in Window : Layer(c) = Layer(d) => c = d
           /\ current_job_count \in Window
           /\ \A d \in Window : d \in Nat /\ Layer(d) \in 0..(NumLayers - 1)
           /\ Layer(current_job_count + NumLayers) = Layer(current_job_count)
<1>1. PICK k \in Nat : k = NumLayers /\ k > 1
    BY NumLayersFacts
<1>2. Window = current_job_count..(current_job_count + k - 1)
    BY <1>1 DEF Window
<1>3. ASSUME NEW c \in Window, NEW d \in Window, Layer(c) = Layer(d) PROVE c = d
    <2>1. c \in Nat /\ d \in Nat /\ c % k = d % k
        BY <1>1, <1>2, <1>3 DEF Layer
    <2>2. CASE c <= d
        <3>1. d < c + k
            BY <1>2
        <3>2. QED BY <1>1, <2>1, <2>2, <3>1, Modulus
    <2>3. CASE d <= c
        <3>1. c < d + k /\ d % k = c % k
            BY <1>2, <2>1
        <3>2. d \in Nat /\ c \in Nat /\ k > 0 /\ d <= c
            BY <1>1, <2>1, <2>3
        <3>3. d = c
            BY <3>1, <3>2, Modulus
        <3>4. QED BY <3>3
    <2>4. QED BY <2>1, <2>2, <2>3
<1>4. (current_job_count + k) % k = current_job_count % k
    <2>1. k \in Nat /\ k > 0 /\ current_job_count \in Nat
        BY <1>1
    <2>2. QED BY <2>1, Modulus
<1>5. current_job_count \in Window /\ \A d \in Window : d \in Nat
    BY <1>1, <1>2
<1>6. QED BY <1>1, <1>3, <1>4, <1>5, NumLayersFacts DEF Layer

LEMMA DispatchAdvances ==
    ASSUME DataOK, BranchesAreClosed, NEW S, IsClosed(S), NEW j \in MayCome(S)
    PROVE  /\ Cardinality(S \cup Incompatible(j)) = Cardinality(S) + Cardinality(Incompatible(j))
           /\ Cardinality(S) \in Nat /\ Cardinality(Incompatible(j)) \in 1..(NumLayers - 1)
           /\ Cardinality(S \cup Incompatible(j)) <= Len(problem.job)
<1>1. j \in Jobs /\ j \notin S /\ S \in SUBSET Jobs
    BY DEF MayCome, IsClosed
<1>2. IsFiniteSet(S) /\ Cardinality(S) \in Nat
    BY <1>1, ProblemFacts, FS_Subset, FS_CardinalityType
<1>3. /\ IsFiniteSet(Incompatible(j)) /\ Cardinality(Incompatible(j)) \in Nat
      /\ Cardinality(Incompatible(j)) > 0 /\ Incompatible(j) \in SUBSET Jobs
    BY <1>1, SiblingFacts
<1>4. Incompatible(j) \cap S = {}
    BY <1>1, NothingDiscardedTwice
<1> DEFINE I == Incompatible(j)
<1>5. I \cap S = {} /\ IsFiniteSet(I) /\ Cardinality(I) \in Nat
    BY <1>3, <1>4
<1>6. S \cup I \in SUBSET Jobs
    BY <1>1, <1>3
<1> HIDE DEF I
<1>7. Cardinality(S \cup I) = Cardinality(S) + Cardinality(I) - Cardinality(S \cap I)
    BY <1>2, <1>5, FS_Union
<1>8. S \cap I = {}
    BY <1>5
<1>9. Cardinality(S \cap I) = 0
    BY <1>8, FS_EmptySet
<1>10. Cardinality(S \cup I) = Cardinality(S) + Cardinality(I)
    BY <1>2, <1>5, <1>7, <1>9
<1>11. Cardinality(S \cup I) <= Len(problem.job)
    BY <1>6, ProblemFacts, FS_Subset
<1>12. Cardinality(I) \in 1..(NumLayers - 1)
    <2>1. Cardinality(I) < NumLayers /\ Cardinality(I) > 0
        BY <1>1, <1>3, NumLayersFacts DEF I
    <2>2. QED BY <1>5, <2>1, NumLayersFacts
<1>13. QED BY <1>2, <1>10, <1>11, <1>12 DEF I

\* States and bounds apart, a node does not change.
LEMMA PlainFields ==
    ASSUME NEW n, DOMAIN n = NodeFields, NEW s, NEW m, m \in {AddState(n, s), NewOrMergeState(n, s)}
    PROVE  /\ DOMAIN m = NodeFields /\ m.scheduled = n.scheduled
           /\ m.num_jobs_scheduled = n.num_jobs_scheduled /\ m.ready = n.ready
<1> DEFINE w == WithBounds(n, s)
<1>1. /\ DOMAIN w = NodeFields /\ w.scheduled = n.scheduled
      /\ w.num_jobs_scheduled = n.num_jobs_scheduled /\ w.ready = n.ready
    BY DEF WithBounds, NodeFields
<1>2. AddState(n, s) = [w EXCEPT !.states = Append(@, s)]
    BY DEF AddState
<1>3. NewOrMergeState(n, s) \in {AddState(n, s), [w EXCEPT !.states = MergeStates(@, s)]}
    BY DEF NewOrMergeState
<1> HIDE DEF w
<1>4. PICK q : m = [w EXCEPT !.states = q]
    BY <1>2, <1>3
<1>5. QED BY <1>1, <1>4 DEF NodeFields

LEMMA PlainUpToStates ==
    ASSUME NEW n, PlainNode(n), NEW s, NEW m, m \in {AddState(n, s), NewOrMergeState(n, s)}
    PROVE  PlainNode(m) /\ m.scheduled = n.scheduled /\ m.num_jobs_scheduled = n.num_jobs_scheduled
<1>1. DOMAIN n = NodeFields
    BY DEF PlainNode
<1>2. QED BY <1>1, PlainFields DEF PlainNode

LEMMA PlainNextNode ==
    ASSUME DataOK, BranchesAreClosed, NEW n, PlainNode(n), NEW j \in MayCome(n.scheduled)
    PROVE  /\ PlainNode(NextNode(n, j))
           /\ NextNode(n, j).scheduled = n.scheduled \cup Incompatible(j)
<1> DEFINE w == NextNode(n, j)
           scheduled == n.scheduled \cup Incompatible(j)
<1>1. /\ DOMAIN w = NodeFields
      /\ w.scheduled = scheduled
      /\ w.num_jobs_scheduled = n.num_jobs_scheduled + Cardinality(Incompatible(j))
      /\ w.ready = IF HasPrecedence THEN {k \in n.ready : j \notin Incompatible(k)} \cup MadeReady(j, scheduled)
                   ELSE {}
    BY DEF NextNode, NodeFields
<1> HIDE DEF w
<1>2. IsClosed(n.scheduled) /\ n.num_jobs_scheduled = Cardinality(n.scheduled) /\ n.ready = ReadyAfter(n.scheduled)
    BY DEF PlainNode
<1>3. IsClosed(scheduled)
    BY <1>2, DispatchKeepsClosed
<1>4. w.num_jobs_scheduled = Cardinality(scheduled)
    BY <1>1, <1>2, DispatchAdvances
<1>5. w.ready = ReadyAfter(scheduled)
    BY <1>1, <1>2, ReadyAfterDispatch
<1> HIDE DEF scheduled
<1>6. PlainNode(w)
    BY <1>1, <1>3, <1>4, <1>5 DEF PlainNode
<1>7. QED BY <1>1, <1>6 DEF w, scheduled

\* The dispatch goes to a node of the layer that is as many depths ahead as the
\* job discards; the node is there already, or is put at the end of the layer.
LEMMA PlainTarget ==
    ASSUME LayersInv, exploring # Idle
    PROVE  LET n == exploring.node
               j == CurrentJob
               d == current_job_count + Cardinality(Incompatible(j))
               layer == nodes[TargetDepth]
           IN  /\ j \in exploring.jobs /\ j \in MayCome(n.scheduled) /\ j \in Jobs
               /\ d \in Window /\ d > current_job_count /\ TargetDepth = Layer(d) /\ TargetDepth \in DOMAIN nodes
               /\ d = Cardinality(n.scheduled \cup Incompatible(j))
               /\ IsPlaced(TargetLayer, TargetDepth)
               /\ Place \in DOMAIN TargetLayer /\ Place \in Nat \ {0}
               /\ TargetLayer[Place].scheduled = n.scheduled \cup Incompatible(j)
               /\ \/ TargetLayer = layer
                  \/ \E x : TargetLayer = Append(layer, x) /\ Place = Len(layer) + 1
               /\ PlainNode(Target) /\ Placed(Target, TargetDepth)
               /\ Target.scheduled = n.scheduled \cup Incompatible(j)
<1> DEFINE e == exploring
           n == exploring.node
           j == CurrentJob
           d == current_job_count + Cardinality(Incompatible(j))
           scheduled == n.scheduled \cup Incompatible(j)
           layer == nodes[TargetDepth]
           w == TargetLayer[Place]
<1>1. /\ DataOK /\ BranchesAreClosed /\ current_job_count \in Nat
      /\ Expanding(e) /\ PlainNode(n) /\ n.num_jobs_scheduled = current_job_count
    BY ProblemFacts DEF LayersInv, Expanding
<1>2. j \in e.jobs /\ j \in MayCome(n.scheduled) /\ j \in Jobs
    <2>1. e.jobs \in SUBSET Jobs /\ e.jobs # {} /\ e.jobs \subseteq MayCome(n.scheduled)
        BY <1>1 DEF Expanding, MayCome
    <2>2. CurrentJob \in e.jobs
        BY <1>1, <2>1, FirstOfFacts DEF CurrentJob
    <2>3. QED BY <2>1, <2>2
<1>3. /\ Cardinality(Incompatible(j)) \in 1..(NumLayers - 1) /\ NumLayers \in Nat
      /\ d = Cardinality(scheduled)
    <2>1. IsClosed(n.scheduled) /\ Cardinality(n.scheduled) = current_job_count
        BY <1>1 DEF PlainNode
    <2>2. QED BY <1>1, <1>2, <2>1, DispatchAdvances, NumLayersFacts
<1>4. d \in Window /\ d > current_job_count /\ d \in Nat
    BY <1>1, <1>3 DEF Window
<1>5. TargetDepth = Layer(d) /\ TargetDepth \in DOMAIN nodes
    BY <1>1, <1>4, NumLayersFacts DEF TargetDepth, LayersInv
<1>6. IsPlaced(layer, TargetDepth) /\ IsList(layer) /\ Len(layer) \in Nat /\ DOMAIN layer = 1..Len(layer)
    BY <1>5, ListFacts DEF LayersInv, IsPlaced
<1>7. Found # 0 => Found \in DOMAIN layer /\ layer[Found].scheduled = scheduled
    <2>1. CASE Naive
        BY <2>1 DEF Found
    <2>2. CASE ~Naive /\ exploring.next # 0
        BY <2>2 DEF Found, LayersInv, NextIsTarget
    <2>3. CASE ~Naive /\ exploring.next = 0
        <3> DEFINE same == {i \in DOMAIN layer : /\ layer[i].scheduled = n.scheduled \cup {j}
                                                 /\ Incompatible(j) = {j}}
        <3>1. Found = IF same = {} THEN 0 ELSE Min(same)
            BY <2>3 DEF Found, FindNode
        <3>2. ASSUME same # {} PROVE Min(same) \in same
            <4>1. PICK m \in Nat : m = Len(layer)
                BY <1>6
            <4>2. IsFiniteSet(1..m)
                BY FS_Interval
            <4>3. same \in SUBSET (1..m)
                BY <1>6, <4>1
            <4> HIDE DEF same
            <4>4. IsFiniteSet(same)
                BY <4>2, <4>3, FS_Subset
            <4>5. same \in SUBSET Int
                BY <4>3
            <4>6. QED BY <3>2, <4>4, <4>5, MinFacts
        <3>3. QED BY <3>1, <3>2
    <2>4. QED BY <2>1, <2>2, <2>3
<1>8. /\ IsPlaced(TargetLayer, TargetDepth)
      /\ Place \in DOMAIN TargetLayer /\ Place \in Nat \ {0} /\ w.scheduled = scheduled
      /\ \/ TargetLayer = layer
         \/ \E x : TargetLayer = Append(layer, x) /\ Place = Len(layer) + 1
    <2>1. CASE Found # 0
        <3>1. TargetLayer = layer /\ Place = Found
            BY <2>1 DEF TargetLayer, Place
        <3>2. PICK m \in Nat : m = Len(layer)
            BY <1>6
        <3>3. Place \in 1..m
            BY <1>6, <1>7, <2>1, <3>1, <3>2
        <3>4. QED BY <1>6, <1>7, <2>1, <3>1, <3>3
    <2>2. CASE Found = 0
        <3> DEFINE x == NextNode(n, j)
        <3>1. TargetLayer = Append(layer, x) /\ Place = Len(TargetLayer)
            BY <2>2 DEF TargetLayer, Place
        <3>2. PlainNode(x) /\ x.scheduled = scheduled
            BY <1>1, <1>2, PlainNextNode
        <3> HIDE DEF x
        <3>3. /\ IsList(TargetLayer) /\ Range(TargetLayer) \subseteq Range(layer) \cup {x}
              /\ DOMAIN TargetLayer = 1..(Len(layer) + 1) /\ Len(TargetLayer) = Len(layer) + 1
              /\ TargetLayer[Len(layer) + 1] = x
            BY <1>6, <3>1, AppendedFacts
        <3>4. PICK m \in Nat : m = Len(layer)
            BY <1>6
        <3>5. Place = m + 1 /\ DOMAIN TargetLayer = 1..(m + 1) /\ TargetLayer[m + 1] = x
            BY <3>1, <3>3, <3>4
        <3>6. Place \in DOMAIN TargetLayer /\ Place \in Nat \ {0} /\ w = x
            BY <3>5
        <3>7. Placed(x, TargetDepth)
            BY <1>3, <1>4, <1>5, <3>2 DEF Placed, PlainNode
        <3>8. IsPlaced(TargetLayer, TargetDepth)
            BY <1>6, <3>2, <3>3, <3>7 DEF IsPlaced
        <3>9. QED BY <3>1, <3>2, <3>4, <3>5, <3>6, <3>8
    <2>3. QED BY <2>1, <2>2
<1>9. PlainNode(w) /\ Placed(w, TargetDepth)
    <2>1. w \in Range(TargetLayer)
        BY <1>8, ListFacts DEF IsPlaced
    <2>2. QED BY <1>8, <2>1 DEF IsPlaced
<1>10. PlainNode(Target) /\ Placed(Target, TargetDepth) /\ Target.scheduled = scheduled
    <2>1. PICK s : Target = NewOrMergeState(w, s)
        BY DEF Target
    <2> HIDE DEF w
    <2>2. PICK m : m = Target
        OBVIOUS
    <2>3. m \in {AddState(w, s), NewOrMergeState(w, s)}
        BY <2>1, <2>2
    <2>4. /\ PlainNode(m) /\ m.scheduled = w.scheduled
          /\ m.num_jobs_scheduled = w.num_jobs_scheduled
        BY <1>9, <2>3, PlainUpToStates
    <2>5. Placed(m, TargetDepth)
        BY <1>9, <2>4 DEF Placed
    <2>6. QED BY <1>8, <2>2, <2>4, <2>5 DEF w
<1>11. QED BY <1>2, <1>3, <1>4, <1>5, <1>8, <1>10

LEMMA SamePlain ==
    ASSUME UNCHANGED Data
    PROVE  /\ BranchesAreClosed' <=> BranchesAreClosed
           /\ \A n : PlainNode(n)' <=> PlainNode(n)
           /\ \A S : MayCome(S)' = MayCome(S)
           /\ \A d : Layer(d)' = Layer(d)
<1>1. /\ Jobs' = Jobs /\ NumLayers' = NumLayers
      /\ \A k : Siblings(k)' = Siblings(k) /\ Incompatible(k)' = Incompatible(k)
      /\ \A k : PredecessorsOf(k)' = PredecessorsOf(k) /\ SuccessorsOf(k)' = SuccessorsOf(k)
      /\ \A k : IsFork(k)' <=> IsFork(k)
    BY SameData DEF Data, Siblings, Incompatible, PredecessorsOf, SuccessorsOf, IsFork
<1>2. BranchesAreClosed' <=> BranchesAreClosed
    BY <1>1 DEF BranchesAreClosed
<1>3. ASSUME NEW n PROVE PlainNode(n)' <=> PlainNode(n)
    BY <1>1 DEF PlainNode, IsClosed, ReadyAfter, MayCome
<1>4. \A S : MayCome(S)' = MayCome(S)
    BY <1>1 DEF MayCome
<1>5. \A d : Layer(d)' = Layer(d)
    BY <1>1 DEF Layer
<1>6. QED BY <1>2, <1>3, <1>4, <1>5

LEMMA SamePlaced ==
    ASSUME UNCHANGED Data, current_job_count' = current_job_count, NEW q, NEW l
    PROVE  IsPlaced(q, l)' <=> IsPlaced(q, l)
<1>1. \A n : Placed(n, l)' <=> Placed(n, l)
    BY SamePlain, SameData DEF Placed, Window
<1>2. QED BY <1>1, SamePlain DEF IsPlaced

LEMMA SameExpanding ==
    ASSUME UNCHANGED Data, NEW e
    PROVE  Expanding(e)' <=> Expanding(e)
BY SamePlain DEF Expanding

LEMMA FrontFacts ==
    ASSUME LayersInv
    PROVE  /\ Layer(current_job_count) \in DOMAIN nodes
           /\ IsPlaced(ExplorationFront, Layer(current_job_count))
           /\ \A n \in Range(ExplorationFront) : n.num_jobs_scheduled = current_job_count
<1>1. DataOK /\ current_job_count \in Nat
    BY ProblemFacts DEF LayersInv
<1>2. Layer(current_job_count) \in DOMAIN nodes
    BY <1>1, NumLayersFacts DEF LayersInv
<1>3. IsPlaced(ExplorationFront, Layer(current_job_count))
    BY <1>2 DEF LayersInv, ExplorationFront
<1>4. QED BY <1>1, <1>2, <1>3, RingFacts DEF IsPlaced, Placed

LEMMA InitKeepsLayers ==
    ASSUME Init, BranchesAreClosed
    PROVE  LayersInv
<1>1. DataOK
    BY ProblemsAssumption DEF Init, DataOK
<1>2. PlainNode(InitialNode) /\ InitialNode.num_jobs_scheduled = 0
    <2>1. /\ DOMAIN InitialNode = NodeFields
          /\ InitialNode.scheduled = {} /\ InitialNode.num_jobs_scheduled = 0 /\ InitialNode.ready = {}
        BY DEF InitialNode, NodeFields
    <2>2. IsClosed({}) /\ ReadyAfter({}) = {}
        BY DEF IsClosed, ReadyAfter, MayCome
    <2>3. QED BY <2>1, <2>2, FS_EmptySet DEF PlainNode
<1> DEFINE first == AddState(InitialNode, InitialState)
<1>3. PlainNode(first) /\ first.num_jobs_scheduled = 0
    <2>1. first \in {AddState(InitialNode, InitialState), NewOrMergeState(InitialNode, InitialState)}
        OBVIOUS
    <2> HIDE DEF first
    <2>2. QED BY <1>2, <2>1, PlainUpToStates
<1> HIDE DEF first
<1>4. /\ nodes = [layer \in 0..(NumLayers - 1) |-> IF layer = 0 THEN <<first>> ELSE <<>>]
      /\ exploring = Idle /\ current_job_count = 0
    BY DEF Init, first
<1>5. PICK k \in Nat : k = NumLayers /\ k > 1
    BY <1>1, NumLayersFacts
<1>6. Placed(first, 0)
    <2>1. 0 \in Window
        BY <1>4, <1>5 DEF Window
    <2>2. 0 % k = 0
        BY <1>5
    <2>3. Layer(0) = 0
        BY <1>5, <2>2 DEF Layer
    <2>4. QED BY <1>3, <2>1, <2>3 DEF Placed
<1>7. IsPlaced(<<first>>, 0)
    <2>1. <<first>> \in Seq({first})
        OBVIOUS
    <2>2. IsList(<<first>>) /\ Range(<<first>>) \in SUBSET {first}
        BY <2>1, ListOfElements
    <2>3. QED BY <1>3, <1>6, <2>2 DEF IsPlaced
<1>8. \A l : IsPlaced(<<>>, l)
    BY EmptyList DEF IsPlaced
<1>9. \A l \in DOMAIN nodes : IsPlaced(nodes[l], l)
    BY <1>4, <1>7, <1>8
<1>10. current_job_count \in 0..Len(problem.job)
    <2>1. PICK m \in Nat : m = Len(problem.job)
        BY <1>1, ProblemFacts
    <2>2. QED BY <1>4, <2>1
<1>11. QED BY <1>1, <1>4, <1>9, <1>10 DEF LayersInv, NextIsTarget

LEMMA NextDepthKeepsLayers ==
    ASSUME LayersInv, NextDepth
    PROVE  LayersInv'
<1>1. /\ UNCHANGED Data /\ UNCHANGED <<nodes, exploring>> /\ exploring = Idle
      /\ current_job_count' = current_job_count + 1 /\ current_job_count # Len(problem.job)
      /\ ExplorationFront = <<>>
    BY DEF NextDepth, Data, Explored
<1>2. DataOK /\ current_job_count \in Nat
    BY ProblemFacts DEF LayersInv
<1>3. PICK k \in Nat : k = NumLayers /\ k > 1
    BY <1>2, NumLayersFacts
<1>4. NumLayers' = k /\ DataOK' /\ Len(problem.job)' = Len(problem.job)
    BY <1>1, <1>2, <1>3, SameData
<1>5. ASSUME NEW l \in DOMAIN nodes' PROVE IsPlaced(nodes[l], l)'
    <2>1. PICK q : q = nodes[l]
        OBVIOUS
    <2>2. nodes'[l] = q /\ IsPlaced(q, l)
        BY <1>1, <1>5, <2>1 DEF LayersInv
    <2>3. ASSUME NEW n \in Range(q) PROVE PlainNode(n)' /\ Placed(n, l)'
        <3>1. PlainNode(n) /\ Placed(n, l)
            BY <2>2 DEF IsPlaced
        <3>2. n.num_jobs_scheduled # current_job_count
            <4>1. SUFFICES ASSUME n.num_jobs_scheduled = current_job_count PROVE FALSE
                OBVIOUS
            <4>2. q = ExplorationFront
                BY <2>1, <3>1, <4>1 DEF Placed, ExplorationFront
            <4>3. QED BY <1>1, <2>3, <4>2, EmptyList
        <3>3. n.num_jobs_scheduled \in Window'
            <4>1. n.num_jobs_scheduled \in current_job_count..(current_job_count + k - 1)
                BY <1>3, <3>1 DEF Placed, Window
            <4>2. n.num_jobs_scheduled \in (current_job_count + 1)..(current_job_count + 1 + k - 1)
                BY <1>2, <1>3, <3>2, <4>1
            <4>3. QED BY <1>1, <1>4, <4>2 DEF Window
        <3>4. QED BY <1>1, <3>1, <3>3, SamePlain DEF Placed
    <2>4. IsList(q)
        BY <2>2 DEF IsPlaced
    <2>5. QED BY <2>2, <2>3, <2>4 DEF IsPlaced
<1>6. current_job_count' \in 0..Len(problem.job)'
    <2>1. PICK m \in Nat : m = Len(problem.job)
        BY <1>2, ProblemFacts
    <2>2. current_job_count \in 0..m
        BY <2>1 DEF LayersInv
    <2>3. QED BY <1>1, <1>4, <2>1, <2>2
<1>7. exploring' = Idle' /\ NextIsTarget'
    BY <1>1 DEF NextIsTarget, Idle
<1>8. DOMAIN nodes' = 0..(NumLayers' - 1) /\ BranchesAreClosed'
    BY <1>1, SameData, SamePlain DEF LayersInv
<1>9. QED BY <1>4, <1>5, <1>6, <1>7, <1>8 DEF LayersInv

\* Of the steps that do not change the depth.
LEMMA SameDepth ==
    ASSUME LayersInv, UNCHANGED Data, current_job_count' = current_job_count
    PROVE  /\ DataOK' /\ BranchesAreClosed' /\ current_job_count' \in 0..Len(problem.job)'
           /\ NumLayers' = NumLayers /\ Window' = Window
BY SameData, SamePlain DEF LayersInv, Window

LEMMA OneLayerIsPlaced ==
    ASSUME LayersInv, UNCHANGED Data, current_job_count' = current_job_count,
           NEW d \in DOMAIN nodes, NEW q, IsPlaced(q, d), nodes' = [nodes EXCEPT ![d] = q]
    PROVE  /\ DOMAIN nodes' = 0..(NumLayers' - 1)
           /\ \A l \in DOMAIN nodes' : IsPlaced(nodes[l], l)'
           /\ nodes'[d] = q
<1>1. DOMAIN nodes' = DOMAIN nodes /\ nodes'[d] = q /\ \A l \in DOMAIN nodes : l # d => nodes'[l] = nodes[l]
    OBVIOUS
<1>2. \A l \in DOMAIN nodes : IsPlaced(nodes[l], l)
    BY DEF LayersInv
<1>3. DOMAIN nodes' = 0..(NumLayers' - 1)
    BY <1>1, SameDepth DEF LayersInv
<1>4. ASSUME NEW l \in DOMAIN nodes' PROVE IsPlaced(nodes[l], l)'
    <2>1. PICK r : r = nodes'[l]
        OBVIOUS
    <2>2. IsPlaced(r, l)
        BY <1>1, <1>2, <2>1
    <2>3. IsPlaced(r, l)'
        BY <2>2, SamePlaced
    <2>4. QED BY <2>1, <2>3
<1>5. QED BY <1>1, <1>3, <1>4

\* A new expansion, or none.
LEMMA ExpandingKeepsLayers ==
    ASSUME LayersInv, UNCHANGED Data, current_job_count' = current_job_count,
           DOMAIN nodes' = 0..(NumLayers' - 1), \A l \in DOMAIN nodes' : IsPlaced(nodes[l], l)',
           NEW e, exploring' = e,
           \/ e = Idle
           \/ Expanding(e) /\ e.node.num_jobs_scheduled = current_job_count /\ e.next = 0
    PROVE  LayersInv'
<1>1. exploring' # Idle' =>
        Expanding(exploring)' /\ exploring'.node.num_jobs_scheduled = current_job_count' /\ exploring'.next = 0
    <2>1. Expanding(e)' <=> Expanding(e)
        BY SameExpanding
    <2>2. Idle' = Idle
        BY DEF Idle
    <2>3. QED BY <2>1, <2>2
<1>2. NextIsTarget'
    BY <1>1 DEF NextIsTarget
<1>3. QED BY <1>1, <1>2, SameDepth DEF LayersInv

LEMMA CandidatesMayCome ==
    ASSUME DataOK, NEW n, PlainNode(n)
    PROVE  Candidates(n) \subseteq MayCome(n.scheduled)
<1>1. n.ready \subseteq MayCome(n.scheduled)
    BY DEF PlainNode, ReadyAfter
<1>2. SourceJobs \ n.scheduled \subseteq MayCome(n.scheduled)
    <2>1. \A k \in SourceJobs : PredecessorsOf(k) = {}
        BY DEF SourceJobs, SuccessorJobs, PredecessorsOf
    <2>2. QED BY <2>1 DEF MayCome, SourceJobs
<1>3. QED BY <1>1, <1>2 DEF Candidates

LEMMA ExploreKeepsLayers ==
    ASSUME LayersInv, NEW i \in DOMAIN ExplorationFront, Explore(i)
    PROVE  LayersInv'
<1> DEFINE d == Layer(current_job_count)
           n == ExplorationFront[i]
           jobs == {j \in Candidates(n) : Options(n, j) # {}}
           e == [node |-> n, jobs |-> jobs, left |-> Options(n, FirstOf(jobs)), next |-> 0]
           q == RemoveAt(ExplorationFront, i)
<1>1. /\ UNCHANGED Data /\ current_job_count' = current_job_count
      /\ exploring' = IF jobs = {} THEN Idle ELSE e
      /\ nodes' = [nodes EXCEPT ![d] = q]
    BY DEF Explore, Data, ExplorationFront
<1>2. d \in DOMAIN nodes /\ IsPlaced(ExplorationFront, d)
    BY FrontFacts
<1>3. PlainNode(n) /\ n.num_jobs_scheduled = current_job_count
    <2>1. n \in Range(ExplorationFront)
        BY <1>2, ListFacts DEF IsPlaced
    <2>2. QED BY <1>2, <2>1, FrontFacts DEF IsPlaced
<1>4. IsPlaced(q, d)
    <2>1. IsList(q) /\ Range(q) \subseteq Range(ExplorationFront)
        BY <1>2, RemovedFacts DEF IsPlaced
    <2>2. QED BY <1>2, <2>1 DEF IsPlaced
<1> HIDE DEF d, q
<1>5. DOMAIN nodes' = 0..(NumLayers' - 1) /\ \A l \in DOMAIN nodes' : IsPlaced(nodes[l], l)'
    BY <1>1, <1>2, <1>4, OneLayerIsPlaced
<1>6. CASE jobs = {}
    <2>1. exploring' = Idle
        BY <1>1, <1>6
    <2>2. QED BY <1>1, <1>5, <2>1, ExpandingKeepsLayers
<1>7. CASE jobs # {}
    <2>1. jobs \subseteq MayCome(n.scheduled)
        BY <1>3, CandidatesMayCome DEF LayersInv
    <2> HIDE DEF n, jobs
    <2>2. Expanding(e) /\ e.node.num_jobs_scheduled = current_job_count /\ e.next = 0
        BY <1>3, <1>7, <2>1 DEF Expanding
    <2>3. exploring' = e
        BY <1>1, <1>7
    <2> HIDE DEF e
    <2>4. QED BY <1>1, <1>5, <2>2, <2>3, ExpandingKeepsLayers
<1>8. QED BY <1>6, <1>7

\* What a dispatch does to the nodes.
LEMMA DispatchFacts ==
    ASSUME LayersInv, Dispatch,
           NEW q, q = ReplaceAt(TargetLayer, Place, Target)
    PROVE  /\ exploring # Idle /\ UNCHANGED Data /\ current_job_count' = current_job_count
           /\ nodes' = [nodes EXCEPT ![TargetDepth] = q]
           /\ IsPlaced(q, TargetDepth) /\ DOMAIN q = DOMAIN TargetLayer /\ q[Place] = Target
           /\ \A k \in DOMAIN TargetLayer : q[k].scheduled = TargetLayer[k].scheduled
<1>1. /\ exploring # Idle /\ UNCHANGED Data /\ current_job_count' = current_job_count
      /\ nodes' = [nodes EXCEPT ![TargetDepth] = q]
    BY DEF Dispatch, Data
<1>2. /\ IsPlaced(TargetLayer, TargetDepth) /\ Place \in DOMAIN TargetLayer
      /\ PlainNode(Target) /\ Placed(Target, TargetDepth)
      /\ Target.scheduled = TargetLayer[Place].scheduled
    BY <1>1, PlainTarget
<1>3. PICK target : target = Target
    OBVIOUS
<1>4. /\ IsList(q) /\ Range(q) \subseteq Range(TargetLayer) \cup {target}
      /\ DOMAIN q = DOMAIN TargetLayer /\ q[Place] = target
      /\ \A k \in DOMAIN TargetLayer : k # Place => q[k] = TargetLayer[k]
    BY <1>2, <1>3, ReplacedFacts DEF IsPlaced
<1>5. IsPlaced(q, TargetDepth)
    BY <1>2, <1>3, <1>4 DEF IsPlaced
<1>6. QED BY <1>1, <1>2, <1>3, <1>4, <1>5

LEMMA DispatchKeepsLayers ==
    ASSUME LayersInv, Dispatch
    PROVE  LayersInv'
<1> DEFINE e == exploring
           n == exploring.node
           j == CurrentJob
           missed == observed_deadline_miss \/ Misses(j, FinishTimes)
           last == exploring.left = {CurrentOption}
           late == IF EarlyExit /\ (Naive \/ (last /\ ~missed)) THEN GuaranteedMiss(n, Target) ELSE {}
           over == last \/ missed \/ late # {}
           rest == exploring.jobs \ {j}
           same == [exploring EXCEPT !.left = @ \ {CurrentOption}, !.next = Place]
           next == [exploring EXCEPT !.jobs = rest, !.next = 0,
                                     !.left = Options(exploring.node, FirstOf(rest))]
<1>1. PICK q : q = ReplaceAt(TargetLayer, Place, Target)
    OBVIOUS
<1>2. /\ exploring # Idle /\ UNCHANGED Data /\ current_job_count' = current_job_count
      /\ nodes' = [nodes EXCEPT ![TargetDepth] = q]
      /\ IsPlaced(q, TargetDepth) /\ DOMAIN q = DOMAIN TargetLayer /\ q[Place] = Target
    BY <1>1, DispatchFacts
<1>3. exploring' = IF ~over THEN same ELSE IF rest = {} THEN Idle ELSE next
    BY DEF Dispatch
<1>4. /\ TargetDepth \in DOMAIN nodes /\ Place \in DOMAIN TargetLayer /\ Place \in Nat
      /\ Target.scheduled = n.scheduled \cup Incompatible(j)
    BY <1>2, PlainTarget
<1>5. /\ DOMAIN nodes' = 0..(NumLayers' - 1) /\ \A l \in DOMAIN nodes' : IsPlaced(nodes[l], l)'
      /\ nodes'[TargetDepth] = q
    BY <1>2, <1>4, OneLayerIsPlaced
<1>6. Expanding(e) /\ n.num_jobs_scheduled = current_job_count
    BY <1>2 DEF LayersInv
<1> HIDE DEF last, missed, late
<1>7. CASE ~over
    <2>1. PICK x : x = same
        OBVIOUS
    <2>2. /\ exploring' = x /\ DOMAIN x = {"node", "jobs", "left", "next"}
          /\ x.node = n /\ x.jobs = e.jobs /\ x.next = Place
        BY <1>3, <1>6, <1>7, <2>1 DEF Expanding
    <2>3. Expanding(x)
        BY <1>4, <1>6, <2>2 DEF Expanding
    <2>4. Expanding(x)'
        BY <1>2, <2>3, SameExpanding
    <2>5. Expanding(exploring)' /\ exploring'.node.num_jobs_scheduled = current_job_count'
        BY <1>2, <1>6, <2>2, <2>4
    <2>6. CurrentJob' = CurrentJob
        <3>1. FirstOf(x.jobs)' = FirstOf(x.jobs)
            BY <1>2, SameOptions
        <3>2. QED BY <2>2, <3>1 DEF CurrentJob
    <2>7. TargetDepth' = TargetDepth /\ Incompatible(CurrentJob)' = Incompatible(CurrentJob)
        BY <1>2, <2>6, SameData DEF TargetDepth, Incompatible, Layer, Data
    <2>8. NextIsTarget'
        <3>1. /\ exploring.next' = Place /\ exploring.node' = n /\ nodes[TargetDepth]' = q
            BY <1>5, <2>2, <2>7
        <3>2. QED BY <1>2, <1>4, <2>7, <3>1 DEF NextIsTarget
    <2>9. QED BY <1>2, <1>5, <2>5, <2>8, SameDepth DEF LayersInv
<1>8. CASE over /\ rest = {}
    <2>1. exploring' = Idle
        BY <1>3, <1>8
    <2>2. QED BY <1>2, <1>5, <2>1, ExpandingKeepsLayers
<1>9. CASE over /\ rest # {}
    <2>1. PICK x : x = next
        OBVIOUS
    <2>2. /\ exploring' = x /\ DOMAIN x = {"node", "jobs", "left", "next"}
          /\ x.node = n /\ x.jobs = rest /\ x.next = 0
        BY <1>3, <1>6, <1>9, <2>1 DEF Expanding
    <2>3. rest \subseteq e.jobs
        OBVIOUS
    <2> HIDE DEF rest
    <2>4. Expanding(x)
        BY <1>6, <1>9, <2>2, <2>3 DEF Expanding
    <2>5. QED BY <1>2, <1>5, <1>6, <2>2, <2>4, ExpandingKeepsLayers
<1>10. QED BY <1>7, <1>8, <1>9

\* Of the steps that leave the nodes alone.
LEMMA StutterKeepsLayers ==
    ASSUME LayersInv, UNCHANGED Data, UNCHANGED <<current_job_count, nodes, exploring>>
    PROVE  LayersInv'
<1>1. DOMAIN nodes' = 0..(NumLayers' - 1) /\ \A l \in DOMAIN nodes' : IsPlaced(nodes[l], l)'
    <2>1. ASSUME NEW l \in DOMAIN nodes' PROVE IsPlaced(nodes[l], l)'
        <3>1. PICK r : r = nodes[l]
            OBVIOUS
        <3>2. IsPlaced(r, l)
            BY <2>1, <3>1 DEF LayersInv
        <3>3. IsPlaced(r, l)'
            BY <3>2, SamePlaced
        <3>4. QED BY <3>1, <3>3
    <2>2. QED BY <2>1, SameDepth DEF LayersInv
<1>2. CASE exploring = Idle
    <2>1. exploring' = Idle
        BY <1>2
    <2>2. QED BY <1>1, <2>1, ExpandingKeepsLayers
<1>3. CASE exploring # Idle
    <2>1. PICK e : e = exploring
        OBVIOUS
    <2>2. Expanding(e) /\ e.node.num_jobs_scheduled = current_job_count
        BY <1>3, <2>1 DEF LayersInv
    <2>3. Expanding(e)' /\ exploring' = e
        BY <2>1, <2>2, SameExpanding
    <2>4. NextIsTarget'
        <3>1. CurrentJob' = CurrentJob
            BY SameOptions DEF CurrentJob
        <3>2. TargetDepth' = TargetDepth /\ Incompatible(CurrentJob)' = Incompatible(CurrentJob)
            BY <3>1, SameData DEF TargetDepth, Incompatible, Layer, Data
        <3>3. QED BY <1>3, <3>1, <3>2 DEF NextIsTarget, LayersInv, Idle
    <2>5. QED BY <1>1, <2>2, <2>3, <2>4, SameDepth DEF LayersInv
<1>4. QED BY <1>2, <1>3

LEMMA NextKeepsLayers ==
    ASSUME LayersInv, [Next]_explorationVars
    PROVE  LayersInv'
<1>1. CASE NextDepth
    BY <1>1, NextDepthKeepsLayers
<1>2. CASE GiveUp
    BY <1>2, StutterKeepsLayers DEF GiveUp, Data
<1>3. CASE \E i \in DOMAIN ExplorationFront : Explore(i)
    BY <1>3, ExploreKeepsLayers
<1>4. CASE Dispatch
    BY <1>4, DispatchKeepsLayers
<1>5. CASE Done
    BY <1>5, StutterKeepsLayers DEF Done, explorationVars, Data
<1>6. CASE UNCHANGED explorationVars
    BY <1>6, StutterKeepsLayers DEF explorationVars, Data
<1>7. QED BY <1>1, <1>2, <1>3, <1>4, <1>5, <1>6 DEF Next

LEMMA KeptArePlain ==
    ASSUME LayersInv, NEW n \in KeptNodes
    PROVE  PlainNode(n)
BY DEF LayersInv, IsPlaced, Expanding, KeptNodes, NodesOf

LEMMA LayersImplyReady == LayersInv => ReadyIsExact /\ ReadyJobsAreIncomplete
<1>1. SUFFICES ASSUME LayersInv, NEW n \in KeptNodes
               PROVE  /\ n.ready = {k \in SuccessorJobs \ n.scheduled :
                                      \A e \in problem.prec : e.to = k => e.from \in n.scheduled}
                      /\ n.ready \cap n.scheduled = {}
    BY DEF ReadyIsExact, ReadyJobsAreIncomplete
<1>2. n.ready = ReadyAfter(n.scheduled)
    BY <1>1, KeptArePlain DEF PlainNode
<1>3. SuccessorJobs \in SUBSET Jobs
    BY <1>1 DEF SuccessorJobs, LayersInv, DataOK, IsProblem, Jobs
<1>4. \A k : k \in SuccessorJobs <=> PredecessorsOf(k) # {}
    BY DEF SuccessorJobs, PredecessorsOf
<1>5. \A k : PredecessorsOf(k) \subseteq n.scheduled
                <=> \A e \in problem.prec : e.to = k => e.from \in n.scheduled
    BY DEF PredecessorsOf
<1>6. QED BY <1>2, <1>3, <1>4, <1>5 DEF ReadyAfter, MayCome

\* The branches of the problems are closed.
BranchesAssumption == \A p \in Problems : ClosedBranches(p)

LEMMA InitHasLayers ==
    ASSUME BranchesAssumption, Init
    PROVE  LayersInv
<1>1. DataOK /\ ClosedBranches(problem)
    BY ProblemsAssumption DEF Init, DataOK, BranchesAssumption
<1>2. QED BY <1>1, ClosedBranchesFacts, InitKeepsLayers

\* Where the branches are closed, a layer of the ring holds the nodes of one
\* depth only, and each counts its jobs right (State_space_data, and
\* States_manager's ring of num_layers containers).
THEOREM RingHolds ==
    ASSUME BranchesAssumption
    PROVE  Spec => []RingHoldsOneDepth
<1>1. Init => LayersInv
    BY InitHasLayers
<1>2. LayersInv /\ [Next]_explorationVars => LayersInv'
    BY NextKeepsLayers
<1>3. LayersInv => RingHoldsOneDepth
    BY DEF LayersInv, IsPlaced, PlainNode, Placed, Window, RingHoldsOneDepth, NodesOf
<1>4. QED BY <1>1, <1>2, <1>3, PTL DEF Spec

\* Where the branches are closed, the ready jobs that each node derives from its
\* parent's are exactly the jobs to dispatch whose predecessors are dispatched
\* or discarded (ready_jobs_tracker.hpp); none of them is complete, as the
\* comment at space.hpp:954 says.
THEOREM ReadyHolds ==
    ASSUME BranchesAssumption
    PROVE  Spec => [](ReadyIsExact /\ ReadyJobsAreIncomplete)
<1>1. Init => LayersInv
    BY InitHasLayers
<1>2. LayersInv /\ [Next]_explorationVars => LayersInv'
    BY NextKeepsLayers
<1>3. LayersInv => ReadyIsExact /\ ReadyJobsAreIncomplete
    BY LayersImplyReady
<1>4. QED BY <1>1, <1>2, <1>3, PTL DEF Spec

-----------------------------------------------------------------------------
(***************************************************************************)
(* Without forks, every job is reported.                                   *)
(***************************************************************************)

\* No job is conditional.
NoForks == \A p \in Problems : \A j \in DOMAIN p.job : p.job[j].type # "C_FORK"

\* While the search is not given up it holds some node, and the jobs of the
\* nodes are reported.
ReportedInv ==
    /\ \A j \in Jobs : Incompatible(j) = {j}
    /\ ~aborted => KeptNodes # {}
    /\ DOMAIN completion \in SUBSET Jobs
    /\ \A n \in KeptNodes : n.scheduled \subseteq DOMAIN completion

LEMMA WithoutForks ==
    ASSUME NoForks, DataOK, problem \in Problems
    PROVE  ClosedBranches(problem) /\ \A j \in Jobs : Incompatible(j) = {j}
<1>1. \A j \in Jobs : ~IsFork(j)
    BY DEF NoForks, IsFork, Jobs
<1>2. ClosedBranches(problem)
    BY DEF NoForks, ClosedBranches
<1>3. ASSUME NEW j \in Jobs PROVE Incompatible(j) = {j}
    <2>1. Siblings(j) = BuildSiblings(j) /\ Incompatible(j) = FindIncompatible(j, Siblings(j))
        BY DEF DataOK, SpData, Siblings, Incompatible
    <2>2. BuildSiblings(j) = {j}
        BY <1>1 DEF BuildSiblings
    <2>3. QED BY <2>1, <2>2 DEF FindIncompatible
<1>4. QED BY <1>2, <1>3

LEMMA InitialNodeIsKept ==
    ASSUME Init, DataOK
    PROVE  KeptNodes = {AddState(InitialNode, InitialState)}
<1> DEFINE first == AddState(InitialNode, InitialState)
<1>1. /\ nodes = [layer \in 0..(NumLayers - 1) |-> IF layer = 0 THEN <<first>> ELSE <<>>]
      /\ exploring = Idle
    BY DEF Init
<1> HIDE DEF first
<1>2. 0 \in DOMAIN nodes
    <2>1. PICK k \in Nat : k = NumLayers /\ k > 1
        BY NumLayersFacts
    <2>2. QED BY <1>1, <2>1
<1>3. NodesOf(0) = {first}
    <2>1. nodes[0] = <<first>>
        BY <1>1, <1>2
    <2>2. QED BY <2>1 DEF NodesOf, Range
<1>4. \A l \in DOMAIN nodes : NodesOf(l) \subseteq {first}
    BY <1>1, <1>3, EmptyList DEF NodesOf
<1>5. KeptNodes = {first}
    BY <1>1, <1>2, <1>3, <1>4 DEF KeptNodes
<1>6. QED BY <1>5 DEF first

LEMMA InitIsReported ==
    ASSUME NoForks, Init
    PROVE  LayersInv /\ ReportedInv
<1>1. DataOK /\ problem \in Problems
    BY ProblemsAssumption DEF Init, DataOK
<1>2. /\ LayersInv /\ \A j \in Jobs : Incompatible(j) = {j}
    BY <1>1, WithoutForks, ClosedBranchesFacts, InitKeepsLayers
<1> DEFINE first == AddState(InitialNode, InitialState)
<1>3. first.scheduled = {}
    <2>1. DOMAIN InitialNode = NodeFields /\ InitialNode.scheduled = {}
        BY DEF InitialNode, NodeFields
    <2>2. first \in {AddState(InitialNode, InitialState), NewOrMergeState(InitialNode, InitialState)}
        OBVIOUS
    <2> HIDE DEF first
    <2>3. QED BY <2>1, <2>2, PlainFields
<1> HIDE DEF first
<1>4. completion = <<>>
    BY DEF Init
<1>5. KeptNodes = {first}
    BY <1>1, InitialNodeIsKept DEF first
<1>6. QED BY <1>2, <1>3, <1>4, <1>5, EmptyList DEF ReportedInv

\* What a step does to the nodes that are kept.
LEMMA KeptAfter ==
    ASSUME LayersInv, NEW d \in DOMAIN nodes, NEW q, nodes' = [nodes EXCEPT ![d] = q]
    PROVE  (UNION {NodesOf(l) : l \in DOMAIN nodes})' =
                (UNION {NodesOf(l) : l \in DOMAIN nodes \ {d}}) \cup Range(q)
<1>1. DOMAIN nodes' = DOMAIN nodes /\ nodes'[d] = q /\ \A l \in DOMAIN nodes : l # d => nodes'[l] = nodes[l]
    OBVIOUS
<1>2. \A l \in DOMAIN nodes : NodesOf(l)' = IF l = d THEN Range(q) ELSE NodesOf(l)
    BY <1>1 DEF NodesOf
<1>3. QED BY <1>1, <1>2

LEMMA SameReported ==
    ASSUME ReportedInv, UNCHANGED Data, UNCHANGED <<nodes, exploring, completion>>, aborted' \in {aborted, TRUE}
    PROVE  ReportedInv'
<1>1. Jobs' = Jobs /\ \A j : Incompatible(j)' = Incompatible(j)
    BY SameData DEF Data, Incompatible
<1>2. KeptNodes' = KeptNodes
    BY DEF KeptNodes, NodesOf, Idle
<1>3. QED BY <1>1, <1>2 DEF ReportedInv

\* The nodes that are kept after a step: no others but the one dispatched to.
LEMMA ExploreKeepsNodes ==
    ASSUME LayersInv, NEW i \in DOMAIN ExplorationFront, Explore(i)
    PROVE  KeptNodes' \subseteq KeptNodes
<1> DEFINE d == Layer(current_job_count)
           n == ExplorationFront[i]
           jobs == {j \in Candidates(n) : Options(n, j) # {}}
           e == [node |-> n, jobs |-> jobs, left |-> Options(n, FirstOf(jobs)), next |-> 0]
           q == RemoveAt(ExplorationFront, i)
<1>1. /\ exploring' = IF jobs = {} THEN Idle ELSE e
      /\ nodes' = [nodes EXCEPT ![d] = q]
    BY DEF Explore, ExplorationFront
<1>2. d \in DOMAIN nodes /\ IsPlaced(ExplorationFront, d) /\ nodes[d] = ExplorationFront
    BY FrontFacts DEF ExplorationFront
<1>3. n \in Range(ExplorationFront) /\ Range(q) \subseteq Range(ExplorationFront)
    BY <1>2, ListFacts, RemovedFacts DEF IsPlaced
<1>4. n \in KeptNodes
    BY <1>2, <1>3 DEF KeptNodes, NodesOf
<1>5. (UNION {NodesOf(l) : l \in DOMAIN nodes})' \subseteq KeptNodes
    <2> HIDE DEF q, d
    <2>1. (UNION {NodesOf(l) : l \in DOMAIN nodes})' =
                (UNION {NodesOf(l) : l \in DOMAIN nodes \ {d}}) \cup Range(q)
        BY <1>1, <1>2, KeptAfter
    <2>2. Range(q) \subseteq NodesOf(d)
        BY <1>2, <1>3 DEF NodesOf
    <2>3. QED BY <1>2, <2>1, <2>2 DEF KeptNodes
<1>6. exploring' # Idle' => exploring'.node = n
    BY <1>1 DEF Idle
<1> HIDE DEF n
<1>7. QED BY <1>4, <1>5, <1>6 DEF KeptNodes

LEMMA DispatchAddsTarget ==
    ASSUME LayersInv, Dispatch
    PROVE  KeptNodes' \subseteq KeptNodes \cup {Target}
<1>1. PICK q : q = ReplaceAt(TargetLayer, Place, Target)
    OBVIOUS
<1>2. /\ exploring # Idle /\ UNCHANGED Data
      /\ nodes' = [nodes EXCEPT ![TargetDepth] = q]
      /\ IsPlaced(q, TargetDepth) /\ DOMAIN q = DOMAIN TargetLayer /\ q[Place] = Target
    BY <1>1, DispatchFacts
<1>3. TargetDepth \in DOMAIN nodes /\ Place \in DOMAIN TargetLayer
    BY <1>2, PlainTarget
<1>4. exploring' = Idle \/ exploring'.node = exploring.node
    <2>1. Expanding(exploring)
        BY <1>2 DEF LayersInv
    <2>2. \A x, y, z : /\ [exploring EXCEPT !.left = x, !.next = y].node = exploring.node
                       /\ [exploring EXCEPT !.jobs = z, !.next = 0, !.left = x].node = exploring.node
        BY <2>1 DEF Expanding
    <2>3. QED BY <2>2 DEF Dispatch
<1>5. Range(q) \subseteq KeptNodes \cup {Target}
    <2>1. ASSUME NEW k \in DOMAIN q PROVE q[k] \in KeptNodes \cup {Target}
        <3>1. CASE k = Place
            BY <1>2, <3>1
        <3>2. CASE k # Place
            <4>1. q[k] = TargetLayer[k] /\ k \in DOMAIN TargetLayer
                <5>1. IsList(TargetLayer) /\ Place \in DOMAIN TargetLayer
                    BY <1>2, PlainTarget DEF IsPlaced
                <5>2. PICK target : target = Target
                    OBVIOUS
                <5>3. q = ReplaceAt(TargetLayer, Place, target)
                    BY <1>1, <5>2
                <5>4. QED BY <1>2, <3>2, <5>1, <5>3, ReplacedFacts
            <4>2. CASE k \in DOMAIN nodes[TargetDepth] /\ TargetLayer[k] = nodes[TargetDepth][k]
                <5>1. q[k] \in NodesOf(TargetDepth)
                    BY <1>3, <4>1, <4>2, ListFacts DEF LayersInv, IsPlaced, NodesOf
                <5>2. QED BY <1>3, <5>1 DEF KeptNodes
            <4>3. k \in DOMAIN nodes[TargetDepth] /\ TargetLayer[k] = nodes[TargetDepth][k]
                <5>1. IsList(nodes[TargetDepth])
                    BY <1>3 DEF LayersInv, IsPlaced
                <5>2. \/ TargetLayer = nodes[TargetDepth]
                      \/ \E x : TargetLayer = Append(nodes[TargetDepth], x) /\ Place = Len(nodes[TargetDepth]) + 1
                    BY <1>2, PlainTarget
                <5>3. PICK m \in Nat : m = Len(nodes[TargetDepth]) /\ DOMAIN nodes[TargetDepth] = 1..m
                    BY <5>1, ListFacts
                <5>4. CASE TargetLayer = nodes[TargetDepth]
                    BY <4>1, <5>4
                <5>5. ASSUME NEW x, TargetLayer = Append(nodes[TargetDepth], x),
                             Place = Len(nodes[TargetDepth]) + 1
                      PROVE  k \in DOMAIN nodes[TargetDepth] /\ TargetLayer[k] = nodes[TargetDepth][k]
                    <6>1. DOMAIN TargetLayer = 1..(m + 1) /\ Place = m + 1
                        BY <5>1, <5>3, <5>5, AppendedFacts
                    <6>2. k \in 1..m
                        BY <3>2, <4>1, <6>1
                    <6>3. QED BY <5>1, <5>3, <5>5, <6>2, AppendedFacts
                <5>6. QED BY <5>2, <5>4, <5>5
            <4>4. QED BY <4>2, <4>3
        <3>3. QED BY <3>1, <3>2
    <2>2. IsList(q)
        BY <1>2 DEF IsPlaced
    <2>3. QED BY <2>1, <2>2, ListFacts
<1>6. (UNION {NodesOf(l) : l \in DOMAIN nodes})' =
            (UNION {NodesOf(l) : l \in DOMAIN nodes \ {TargetDepth}}) \cup Range(q)
    BY <1>2, <1>3, KeptAfter
<1>7. UNION {NodesOf(l) : l \in DOMAIN nodes \ {TargetDepth}} \subseteq KeptNodes /\ exploring.node \in KeptNodes
    BY <1>2 DEF KeptNodes
<1>8. KeptNodes' \subseteq (UNION {NodesOf(l) : l \in DOMAIN nodes})' \cup {exploring.node}
    BY <1>4 DEF KeptNodes, Idle
<1>9. QED BY <1>5, <1>6, <1>7, <1>8

LEMMA ExploreIsReported ==
    ASSUME LayersInv, ReportedInv, NEW i \in DOMAIN ExplorationFront, Explore(i)
    PROVE  ReportedInv'
<1> DEFINE d == Layer(current_job_count)
           n == ExplorationFront[i]
           jobs == {j \in Candidates(n) : Options(n, j) # {}}
           e == [node |-> n, jobs |-> jobs, left |-> Options(n, FirstOf(jobs)), next |-> 0]
<1>1. /\ UNCHANGED Data /\ exploring = Idle /\ UNCHANGED completion /\ ~Explored
      /\ exploring' = IF jobs = {} THEN Idle ELSE e
      /\ aborted' = (jobs = {} /\ ~AllJobsScheduled(n))
    BY DEF Explore, Data, ExplorationFront
<1>2. IsPlaced(ExplorationFront, d)
    BY FrontFacts
<1>3. n \in Range(ExplorationFront) /\ n.num_jobs_scheduled = current_job_count
    BY <1>2, FrontFacts, ListFacts DEF IsPlaced
<1>4. ~AllJobsScheduled(n)
    BY <1>1, <1>3 DEF AllJobsScheduled, Explored
<1>5. KeptNodes' \subseteq KeptNodes
    BY ExploreKeepsNodes
<1>6. ~aborted' => KeptNodes' # {}
    <2>1. SUFFICES ASSUME ~aborted' PROVE KeptNodes' # {}
        OBVIOUS
    <2>2. exploring' = e
        BY <1>1, <1>4, <2>1
    <2>3. exploring' # Idle'
        <3>1. DOMAIN e # DOMAIN Idle
            <4>1. DOMAIN e = {"node", "jobs", "left", "next"} /\ DOMAIN Idle = {"jobs"}
                BY DEF Idle
            <4> HIDE DEF e
            <4>2. "node" \in DOMAIN e /\ "node" \notin DOMAIN Idle
                BY <4>1
            <4>3. QED BY <4>2
        <3> HIDE DEF e
        <3>2. Idle' = Idle
            BY DEF Idle
        <3>3. QED BY <2>2, <3>1, <3>2
    <2>4. exploring'.node \in KeptNodes'
        BY <2>3 DEF KeptNodes
    <2>5. QED BY <2>4
<1>7. Jobs' = Jobs /\ \A j : Incompatible(j)' = Incompatible(j)
    BY <1>1, SameData DEF Data, Incompatible
<1>8. QED BY <1>1, <1>5, <1>6, <1>7 DEF ReportedInv

LEMMA DispatchIsReported ==
    ASSUME LayersInv, ReportedInv, Dispatch
    PROVE  ReportedInv'
<1> DEFINE n == exploring.node
           j == CurrentJob
           missed == observed_deadline_miss \/ Misses(j, FinishTimes)
           last == exploring.left = {CurrentOption}
           late == IF EarlyExit /\ (Naive \/ (last /\ ~missed)) THEN GuaranteedMiss(n, Target) ELSE {}
           times == WithCompletion(completion, j, FinishTimes)
<1>1. PICK q : q = ReplaceAt(TargetLayer, Place, Target)
    OBVIOUS
<1>2. /\ exploring # Idle /\ UNCHANGED Data
      /\ nodes' = [nodes EXCEPT ![TargetDepth] = q]
      /\ IsPlaced(q, TargetDepth) /\ DOMAIN q = DOMAIN TargetLayer /\ q[Place] = Target
    BY <1>1, DispatchFacts
<1>3. /\ TargetDepth \in DOMAIN nodes /\ Place \in DOMAIN TargetLayer /\ j \in Jobs
      /\ Target.scheduled = n.scheduled \cup Incompatible(j)
    BY <1>2, PlainTarget
<1>4. completion' = IF late = {} THEN times
                    ELSE WithCompletion(times, Min(late), LateTimes(Target, Min(late)))
    BY DEF Dispatch
<1>5. /\ DOMAIN completion' \in SUBSET Jobs
      /\ DOMAIN completion \subseteq DOMAIN completion' /\ j \in DOMAIN completion'
    <2>1. \A c, k, t : DOMAIN WithCompletion(c, k, t) = DOMAIN c \cup {k}
        BY DEF WithCompletion
    <2>2. DOMAIN times = DOMAIN completion \cup {j}
        BY <2>1
    <2>3. late # {} => Min(late) \in Jobs
        <3>1. late \in SUBSET Jobs
            BY DEF GuaranteedMiss
        <3> HIDE DEF late
        <3>2. IsFiniteSet(late) /\ late \in SUBSET Int
            BY <3>1, ProblemFacts, FS_Subset DEF LayersInv
        <3>3. late # {} => Min(late) \in late
            BY <3>2, MinFacts
        <3>4. QED BY <3>1, <3>3
    <2> HIDE DEF times, late, j
    <2>4. DOMAIN times \in SUBSET Jobs
        BY <1>3, <2>2 DEF ReportedInv
    <2>5. CASE late = {}
        BY <1>4, <2>2, <2>4, <2>5
    <2>6. CASE late # {}
        <3>1. PICK h \in Jobs : h = Min(late)
            BY <2>3, <2>6
        <3>2. completion' = WithCompletion(times, h, LateTimes(Target, h))
            BY <1>4, <2>6, <3>1
        <3>3. DOMAIN completion' = DOMAIN times \cup {h}
            BY <2>1, <3>2
        <3>4. QED BY <2>2, <2>4, <3>3
    <2>7. QED BY <2>5, <2>6
<1>6. Target.scheduled \subseteq DOMAIN completion'
    <2>1. n \in KeptNodes
        BY <1>2 DEF KeptNodes
    <2>2. QED BY <1>3, <1>5, <2>1 DEF ReportedInv
<1>7. \A x \in KeptNodes' : x.scheduled \subseteq DOMAIN completion'
    <2>1. \A x \in KeptNodes : x.scheduled \subseteq DOMAIN completion'
        BY <1>5 DEF ReportedInv
    <2>2. KeptNodes' \subseteq KeptNodes \cup {Target}
        BY DispatchAddsTarget
    <2>3. QED BY <1>6, <2>1, <2>2
<1>8. KeptNodes' # {}
    <2>1. (UNION {NodesOf(l) : l \in DOMAIN nodes})' =
                (UNION {NodesOf(l) : l \in DOMAIN nodes \ {TargetDepth}}) \cup Range(q)
        BY <1>2, <1>3, KeptAfter
    <2>2. q[Place] \in Range(q)
        BY <1>2, <1>3, ListFacts DEF IsPlaced
    <2>3. QED BY <2>1, <2>2 DEF KeptNodes
<1>9. Jobs' = Jobs /\ \A k : Incompatible(k)' = Incompatible(k)
    BY <1>2, SameData DEF Data, Incompatible
<1>10. \A k \in Jobs' : Incompatible(k)' = {k}
    BY <1>9 DEF ReportedInv
<1>11. QED BY <1>5, <1>7, <1>8, <1>9, <1>10 DEF ReportedInv

LEMMA NextIsReported ==
    ASSUME LayersInv, ReportedInv, [Next]_explorationVars
    PROVE  ReportedInv'
<1>1. CASE NextDepth
    BY <1>1, SameReported DEF NextDepth, Data
<1>2. CASE GiveUp
    BY <1>2, SameReported DEF GiveUp, Data
<1>3. CASE \E i \in DOMAIN ExplorationFront : Explore(i)
    BY <1>3, ExploreIsReported
<1>4. CASE Dispatch
    BY <1>4, DispatchIsReported
<1>5. CASE Done
    BY <1>5, SameReported DEF Done, explorationVars, Data
<1>6. CASE UNCHANGED explorationVars
    BY <1>6, SameReported DEF explorationVars, Data
<1>7. QED BY <1>1, <1>2, <1>3, <1>4, <1>5, <1>6 DEF Next

\* At the last depth a node has all jobs.
LEMMA LastDepthIsReported ==
    ASSUME LayersInv, ReportedInv
    PROVE  AllJobsReported
<1>1. SUFFICES ASSUME exploring = Idle, current_job_count = Len(problem.job), ~aborted
               PROVE  DOMAIN completion = Jobs
    BY DEF AllJobsReported, IsSchedulable, Finished, Explored
<1>2. PICK l \in DOMAIN nodes : \E n : n \in Range(nodes[l])
    BY <1>1 DEF ReportedInv, KeptNodes, NodesOf
<1> PICK n : n \in Range(nodes[l])
    BY <1>2
<1>3. /\ IsClosed(n.scheduled) /\ Cardinality(n.scheduled) \in Window
    BY <1>2 DEF LayersInv, IsPlaced, PlainNode, Placed
<1>4. n.scheduled \in SUBSET Jobs /\ Cardinality(n.scheduled) >= Cardinality(Jobs)
    BY <1>1, <1>3, ProblemFacts DEF LayersInv, IsClosed, Window
<1>5. IsFiniteSet(Jobs) /\ Cardinality(Jobs) \in Nat
    BY ProblemFacts DEF LayersInv
<1>6. Cardinality(n.scheduled) <= Cardinality(Jobs) /\ Cardinality(n.scheduled) \in Nat
    BY <1>4, <1>5, FS_Subset, FS_CardinalityType
<1>7. Cardinality(n.scheduled) = Cardinality(Jobs)
    BY <1>4, <1>5, <1>6
<1>8. n.scheduled = Jobs
    BY <1>4, <1>5, <1>7, FS_Subset
<1>9. n \in KeptNodes
    BY <1>2 DEF KeptNodes, NodesOf
<1>10. QED BY <1>8, <1>9 DEF ReportedInv

\* Where no job is conditional, an exploration that was not given up has
\* reported the completion times of every job when it ends: it always holds
\* some node, and finishes each depth before the next (space.hpp:995, explore).
THEOREM AllReported ==
    ASSUME NoForks
    PROVE  Spec => []AllJobsReported
<1>1. Init => LayersInv /\ ReportedInv
    BY InitIsReported
<1>2. LayersInv /\ ReportedInv /\ [Next]_explorationVars => LayersInv' /\ ReportedInv'
    BY NextKeepsLayers, NextIsReported
<1>3. LayersInv /\ ReportedInv => AllJobsReported
    BY LastDepthIsReported
<1>4. QED BY <1>1, <1>2, <1>3, PTL DEF Spec

-----------------------------------------------------------------------------
(***************************************************************************)
(* The exploration implements the search by layers.                        *)
(***************************************************************************)

\* The nodes of a layer as sets of jobs.
Keys(q) == [i \in DOMAIN q |-> q[i].scheduled]

LEMMA KeysFacts ==
    ASSUME NEW q, IsList(q)
    PROVE  /\ IsList(Keys(q)) /\ Len(Keys(q)) = Len(q) /\ DOMAIN Keys(q) = DOMAIN q
           /\ \A i \in DOMAIN q : Keys(q)[i] = q[i].scheduled
<1> DEFINE S == {x.scheduled : x \in Range(q)}
           r == Keys(q)
<1>1. PICK m \in Nat : m = Len(q) /\ DOMAIN q = 1..m
    BY ListFacts
<1>2. DOMAIN r = 1..m /\ \A i \in 1..m : r[i] = q[i].scheduled /\ r[i] \in S
    BY <1>1, ListFacts DEF Keys
<1>3. r = [i \in 1..m |-> q[i].scheduled]
    BY <1>1 DEF Keys
<1> HIDE DEF S, r
<1>4. r \in [1..m -> S]
    BY <1>2, <1>3
<1>5. r \in Seq(S) /\ Len(r) = m
    BY <1>4
<1>6. QED BY <1>1, <1>2, <1>5, ListOfElements DEF r

\* What a concatenation holds, place by place.
LEMMA Joined ==
    ASSUME NEW S, NEW a \in Seq(S), NEW b \in Seq(S)
    PROVE  /\ a \o b \in Seq(S)
           /\ Len(a \o b) = Len(a) + Len(b)
           /\ \A k \in 1..Len(a) : (a \o b)[k] = a[k]
           /\ \A k \in 1..Len(b) : (a \o b)[Len(a) + k] = b[k]
<1>1. a \o b \in Seq(S)
    OBVIOUS
<1>2. Len(a \o b) = Len(a) + Len(b)
    OBVIOUS
<1>3. \A k \in 1..Len(a) : (a \o b)[k] = a[k]
    OBVIOUS
<1>4. \A k \in 1..Len(b) : (a \o b)[Len(a) + k] = b[k]
    OBVIOUS
<1>5. QED BY <1>1, <1>2, <1>3, <1>4

LEMMA RemovedElements ==
    ASSUME NEW q, IsList(q), NEW i \in DOMAIN q
    PROVE  RemoveAt(q, i) = [k \in 1..(Len(q) - 1) |-> IF k < i THEN q[k] ELSE q[k + 1]]
<1> DEFINE S == Range(q)
           front == SubSeq(q, 1, i - 1)
           back  == SubSeq(q, i + 1, Len(q))
           r == RemoveAt(q, i)
<1>1. PICK m \in Nat : m = Len(q) /\ DOMAIN q = 1..m /\ i \in 1..m
    BY ListFacts
<1>2. q \in Seq(S)
    BY DEF IsList
<1> HIDE DEF S
<1>3. front \in Seq(S) /\ Len(front) = i - 1 /\ \A k \in 1..(i - 1) : front[k] = q[k]
    BY <1>1, <1>2
<1>4. back \in Seq(S) /\ Len(back) = m - i /\ \A k \in 1..(m - i) : back[k] = q[i + k]
    BY <1>1, <1>2
<1>5. r = front \o back
    BY DEF RemoveAt
<1> HIDE DEF front, back, r
<1>6. /\ r \in Seq(S) /\ Len(r) = m - 1
      /\ \A k \in 1..(i - 1) : r[k] = front[k]
      /\ \A k \in 1..(m - i) : r[i - 1 + k] = back[k]
    <2>1. front \in Seq(S) /\ back \in Seq(S)
        BY <1>3, <1>4
    <2>2. r \in Seq(S) /\ Len(r) = Len(front) + Len(back)
        BY <1>5, <2>1, Joined
    <2>3. \A k \in 1..Len(front) : r[k] = front[k]
        BY <1>5, <2>1, Joined
    <2>4. \A k \in 1..Len(back) : r[Len(front) + k] = back[k]
        BY <1>5, <2>1, Joined
    <2>5. i \in Int /\ m \in Int
        BY <1>1
    <2>6. (i - 1) + (m - i) = m - 1
        BY ONLY <2>5
    <2>7. Len(front) = i - 1 /\ Len(back) = m - i
        BY <1>3, <1>4
    <2>8. QED BY ONLY <2>2, <2>3, <2>4, <2>6, <2>7
<1>7. ASSUME NEW k \in 1..(m - 1) PROVE r[k] = IF k < i THEN q[k] ELSE q[k + 1]
    <2>1. CASE k < i
        <3>1. k \in 1..(i - 1)
            BY <1>1, <2>1
        <3>2. QED BY <1>3, <1>6, <2>1, <3>1
    <2>2. CASE ~(k < i)
        <3>1. PICK h \in 1..(m - i) : k = i - 1 + h
            <4>1. k - i + 1 \in 1..(m - i) /\ k = i - 1 + (k - i + 1)
                BY <1>1, <2>2
            <4>2. QED BY <4>1
        <3>2. r[k] = back[h] /\ back[h] = q[i + h]
            BY <1>4, <1>6, <3>1
        <3>3. i + h = k + 1
            BY <1>1, <3>1
        <3>4. QED BY <2>2, <3>2, <3>3
    <2>3. QED BY <2>1, <2>2
<1>8. r = [k \in 1..(m - 1) |-> r[k]]
    BY <1>1, <1>6
<1>9. QED BY <1>1, <1>7, <1>8 DEF r

LEMMA KeysOfRemoved ==
    ASSUME NEW q, IsList(q), NEW i \in DOMAIN q
    PROVE  Keys(RemoveAt(q, i)) = RemoveAt(Keys(q), i)
<1>1. PICK m \in Nat : m = Len(q) /\ DOMAIN q = 1..m /\ i \in 1..m
    BY ListFacts
<1>2. PICK r : r = RemoveAt(q, i)
    OBVIOUS
<1>3. r = [k \in 1..(m - 1) |-> IF k < i THEN q[k] ELSE q[k + 1]]
    BY <1>1, <1>2, RemovedElements
<1>4. Keys(r) = [k \in 1..(m - 1) |-> IF k < i THEN q[k].scheduled ELSE q[k + 1].scheduled]
    BY <1>3 DEF Keys
<1>5. RemoveAt(Keys(q), i) = [k \in 1..(m - 1) |-> IF k < i THEN Keys(q)[k] ELSE Keys(q)[k + 1]]
    <2>1. IsList(Keys(q)) /\ Len(Keys(q)) = m /\ i \in DOMAIN Keys(q)
        BY <1>1, KeysFacts
    <2>2. PICK p : p = Keys(q)
        OBVIOUS
    <2>3. RemoveAt(p, i) = [k \in 1..(Len(p) - 1) |-> IF k < i THEN p[k] ELSE p[k + 1]]
        BY <2>1, <2>2, RemovedElements
    <2>4. QED BY <2>1, <2>2, <2>3
<1>6. \A k \in 1..(m - 1) : (IF k < i THEN Keys(q)[k] ELSE Keys(q)[k + 1])
                                = IF k < i THEN q[k].scheduled ELSE q[k + 1].scheduled
    <2>1. \A k \in 1..(m - 1) : k \in 1..m /\ k + 1 \in 1..m
        OBVIOUS
    <2>2. QED BY <1>1, <2>1, KeysFacts
<1>7. QED BY <1>2, <1>4, <1>5, <1>6

LEMMA KeysOfAppended ==
    ASSUME NEW q, IsList(q), NEW x
    PROVE  Keys(Append(q, x)) = Append(Keys(q), x.scheduled)
<1>1. PICK m \in Nat : m = Len(q) /\ DOMAIN q = 1..m
    BY ListFacts
<1>2. PICK r : r = Append(q, x)
    OBVIOUS
<1>3. DOMAIN r = 1..(m + 1) /\ r[m + 1] = x /\ \A k \in 1..m : r[k] = q[k]
    BY <1>1, <1>2, AppendedFacts
<1>4. PICK p : p = Append(Keys(q), x.scheduled)
    OBVIOUS
<1>5. /\ IsList(p) /\ DOMAIN p = 1..(m + 1) /\ p[m + 1] = x.scheduled
      /\ \A k \in 1..m : p[k] = q[k].scheduled
    <2>1. IsList(Keys(q)) /\ Len(Keys(q)) = m /\ DOMAIN Keys(q) = 1..m
          /\ \A k \in 1..m : Keys(q)[k] = q[k].scheduled
        BY <1>1, KeysFacts
    <2>2. QED BY <1>4, <2>1, AppendedFacts
<1>6. \A k \in 1..(m + 1) : p[k] = r[k].scheduled
    <2>1. \A k \in 1..(m + 1) : k \in 1..m \/ k = m + 1
        OBVIOUS
    <2>2. QED BY <1>3, <1>5, <2>1
<1>7. p = [k \in 1..(m + 1) |-> p[k]]
    BY <1>5 DEF IsList
<1>8. Keys(r) = [k \in 1..(m + 1) |-> r[k].scheduled]
    BY <1>3 DEF Keys
<1>9. QED BY <1>2, <1>4, <1>6, <1>7, <1>8

\* As long as no miss was observed, no reported interval ends late.
MissInv == ~observed_deadline_miss => \A k \in DOMAIN completion : completion[k].max <= Deadline(k)

\* The layers by depth, and what happens to them when a layer changes.
LayersOf(ring, cur) ==
    [d \in 0..Len(problem.job) |->
        IF d \in cur..(cur + NumLayers - 1) THEN Keys(ring[Layer(d)]) ELSE <<>>]

LEMMA LayersByDepthFacts ==
    /\ LayersByDepth = LayersOf(nodes, current_job_count)
    /\ UNCHANGED Data => LayersByDepth' = LayersOf(nodes', current_job_count')
<1>1. LayersByDepth = LayersOf(nodes, current_job_count)
    BY DEF LayersByDepth, LayersOf, Keys
<1>2. ASSUME UNCHANGED Data PROVE LayersByDepth' = LayersOf(nodes', current_job_count')
    <2>1. NumLayers' = NumLayers /\ Len(problem.job)' = Len(problem.job) /\ \A d : Layer(d)' = Layer(d)
        BY <1>2, SameData, SamePlain
    <2>2. PICK k : k = NumLayers
        OBVIOUS
    <2>3. PICK m : m = Len(problem.job)
        OBVIOUS
    <2>4. NumLayers' = k /\ Len(problem.job)' = m
        BY <2>1, <2>2, <2>3
    <2>5. QED BY <2>1, <2>2, <2>3, <2>4 DEF LayersByDepth, LayersOf, Keys
<1>3. QED BY <1>1, <1>2

LEMMA OneDepthChanges ==
    ASSUME LayersInv, NEW d \in Window, d \in 0..Len(problem.job), NEW q, NEW ring,
           ring = [nodes EXCEPT ![Layer(d)] = q]
    PROVE  /\ LayersOf(ring, current_job_count) = [LayersByDepth EXCEPT ![d] = Keys(q)]
           /\ LayersByDepth[d] = Keys(nodes[Layer(d)])
<1>1. DataOK /\ current_job_count \in Nat
    BY ProblemFacts DEF LayersInv
<1>2. Layer(d) \in DOMAIN nodes /\ \A c \in Window : Layer(c) = Layer(d) => c = d
    BY <1>1, RingFacts DEF LayersInv
<1>3. ring[Layer(d)] = q /\ \A c \in Window : c # d => ring[Layer(c)] = nodes[Layer(c)]
    BY <1>1, <1>2, RingFacts DEF LayersInv
<1>4. LayersByDepth = LayersOf(nodes, current_job_count)
    BY LayersByDepthFacts
<1>5. PICK m : m = Len(problem.job)
    OBVIOUS
<1>6. PICK f : f = LayersOf(ring, current_job_count)
    OBVIOUS
<1>7. PICK g : g = LayersByDepth
    OBVIOUS
<1>8. f = [c \in 0..m |-> IF c \in Window THEN Keys(ring[Layer(c)]) ELSE <<>>]
    BY <1>5, <1>6 DEF LayersOf, Window
<1>9. g = [c \in 0..m |-> IF c \in Window THEN Keys(nodes[Layer(c)]) ELSE <<>>]
    BY <1>4, <1>5, <1>7 DEF LayersOf, Window
<1>10. \A c \in 0..m : f[c] = IF c = d THEN Keys(q) ELSE g[c]
    <2> HIDE DEF Keys
    <2>1. ASSUME NEW c \in 0..m PROVE f[c] = IF c = d THEN Keys(q) ELSE g[c]
        <3>1. CASE c = d
            BY <1>3, <1>5, <1>8, <3>1
        <3>2. CASE c # d /\ c \in Window
            <4>1. ring[Layer(c)] = nodes[Layer(c)]
                BY <1>3, <3>2
            <4>2. QED BY <1>8, <1>9, <3>2, <4>1
        <3>3. CASE c # d /\ c \notin Window
            BY <1>8, <1>9, <3>3
        <3>4. QED BY <3>1, <3>2, <3>3
    <2>2. QED BY <2>1
<1>11. f = [g EXCEPT ![d] = Keys(q)]
    <2>1. DOMAIN f = 0..m /\ DOMAIN g = 0..m /\ f = [c \in 0..m |-> f[c]]
        BY <1>8, <1>9
    <2>2. [g EXCEPT ![d] = Keys(q)] = [c \in 0..m |-> IF c = d THEN Keys(q) ELSE g[c]]
        BY <2>1
    <2>3. QED BY <1>10, <2>1, <2>2
<1>12. g[d] = Keys(nodes[Layer(d)])
    BY <1>5, <1>9
<1>13. QED BY <1>6, <1>7, <1>11, <1>12

\* What a report adds to the completion times c.
AddsReport(w, c, j, times) ==
    /\ DOMAIN w = DOMAIN c \cup {j} /\ \A k \in DOMAIN w : w[k] \in Intervals(Int)
    /\ \A k \in DOMAIN c : w[k].min <= c[k].min /\ c[k].max <= w[k].max
    /\ \A k \in DOMAIN w : \A t \in Int :
         w[k].max > t <=> (k \in DOMAIN c /\ c[k].max > t) \/ (k = j /\ times.max > t)

LEMMA CompletionCovers ==
    ASSUME NEW c, NEW j, NEW times \in Intervals(Int), \A k \in DOMAIN c : c[k] \in Intervals(Int)
    PROVE  AddsReport(WithCompletion(c, j, times), c, j, times)
<1> DEFINE w == WithCompletion(c, j, times)
<1>1. DOMAIN w = DOMAIN c \cup {j} /\ \A k \in DOMAIN w : w[k] \in Intervals(Int)
    BY WithCompletionFacts
<1>2. \A k \in DOMAIN c \cup {j} :
        w[k] = IF k # j THEN c[k] ELSE IF j \in DOMAIN c THEN Widen(c[j], times) ELSE times
    BY DEF WithCompletion
<1>3. times.min \in Int /\ times.max \in Int /\ \A k \in DOMAIN c : c[k].min \in Int /\ c[k].max \in Int
    BY DEF Intervals
<1>4. j \in DOMAIN c => /\ Widen(c[j], times).min <= c[j].min /\ c[j].max <= Widen(c[j], times).max
                        /\ \A t \in Int : Widen(c[j], times).max > t <=> c[j].max > t \/ times.max > t
    BY <1>3 DEF Widen, MinOf, MaxOf
<1>5. \A k \in DOMAIN c : w[k].min <= c[k].min /\ c[k].max <= w[k].max
    BY <1>2, <1>3, <1>4
<1>6. \A k \in DOMAIN w : \A t \in Int :
        w[k].max > t <=> (k \in DOMAIN c /\ c[k].max > t) \/ (k = j /\ times.max > t)
    BY <1>1, <1>2, <1>4
<1>7. QED BY <1>1, <1>5, <1>6 DEF AddsReport

\* A job that is certainly late is reported to be late.
LEMMA LateTimesAreLate ==
    ASSUME DataOK, NEW n, IsNode(n), n.states # <<>>, NEW j \in Jobs,
           Deadline(j) < Avail(LastState(n), MinParallelism(j)).min
    PROVE  LateTimes(n, j).max > Deadline(j)
<1> DEFINE p == MinParallelism(j)
           a == Avail(LastState(n), p)
<1>1. IsList(n.states) /\ LastState(n) \in Range(n.states)
    <2>1. IsList(n.states)
        BY DEF IsNode
    <2>2. PICK m \in Nat : m = Len(n.states) /\ DOMAIN n.states = 1..m
        BY <2>1, ListFacts
    <2>3. m # 0
        BY <2>1, <2>2, EmptySeq DEF IsList
    <2>4. m \in DOMAIN n.states
        BY <2>2, <2>3
    <2>5. QED BY <2>1, <2>2, <2>4, ListFacts DEF LastState
<1>2. p \in 1..NumCores /\ p \in Parallelism(j) /\ Cost(j)[p] \in Intervals(Nat) /\ Deadline(j) \in Nat
    BY JobFacts
<1>3. a \in Intervals(Nat)
    BY <1>1, <1>2, AvailType DEF IsNode, IsStateOf
<1>5. /\ a.max \in Nat /\ a.min <= a.max /\ a.min \in Nat
      /\ Cost(j)[p].min \in Nat /\ Cost(j)[p].max \in Nat /\ Cost(j)[p].min <= Cost(j)[p].max
    BY <1>2, <1>3 DEF Intervals
<1>4. LateTimes(n, j).max = a.max + Cost(j)[p].max
    <2>1. LateTimes(n, j) = Shift(a, Cost(j)[p])
        BY DEF LateTimes
    <2> HIDE DEF a, p
    <2>2. Shift(a, Cost(j)[p]).max = a.max + Cost(j)[p].max
        BY <1>5 DEF Shift, Interval, MinOf, MaxOf
    <2>3. QED BY <2>1, <2>2
<1>6. Deadline(j) < a.min
    OBVIOUS
<1> HIDE DEF a, p
<1>7. QED BY <1>2, <1>4, <1>5, <1>6

\* A dispatch widens the reported intervals, and observes a miss exactly when
\* they show one.
LEMMA DispatchReports ==
    ASSUME IInv, MissInv, TriggerIsClear, Dispatch
    PROVE  /\ DOMAIN completion' \in SUBSET Jobs /\ CurrentJob \in DOMAIN completion'
           /\ \A k \in DOMAIN completion :
                /\ k \in DOMAIN completion'
                /\ completion'[k].min <= completion[k].min /\ completion[k].max <= completion'[k].max
           /\ observed_deadline_miss' =
                (observed_deadline_miss \/ \E k \in DOMAIN completion' : completion'[k].max > Deadline(k))
<1> DEFINE n == exploring.node
           j == CurrentJob
           target == Target
           finish == FinishTimes
           missed == observed_deadline_miss \/ Misses(j, finish)
           last == exploring.left = {CurrentOption}
           late == IF EarlyExit /\ (Naive \/ (last /\ ~missed)) THEN GuaranteedMiss(n, target) ELSE {}
           times == WithCompletion(completion, j, finish)
           Shows(c) == \E k \in DOMAIN c : c[k].max > Deadline(k)
<1>1. /\ DataOK /\ NodesInv /\ ReportsInv /\ exploring # Idle /\ current_job_count \in Nat
    BY ProblemFacts DEF IInv, Dispatch, ReportsInv
<1>2. /\ completion' = IF late = {} THEN times
                       ELSE WithCompletion(times, Min(late), LateTimes(target, Min(late)))
      /\ observed_deadline_miss' = (missed \/ late # {})
    BY DEF Dispatch
<1>3. IsExpansion(exploring) /\ IsNode(target) /\ target.states # <<>>
    BY <1>1, TargetFacts DEF NodesInv
<1>4. j \in Jobs
    BY <1>1, <1>3, OptionFacts
<1>5. finish \in Intervals(Int)
    <2>1. finish \in Intervals(Nat)
        BY <1>1, <1>3, FinishFacts
    <2>2. QED BY <2>1 DEF Intervals
<1>6. \A k \in Jobs : Deadline(k) \in Int
    BY <1>1, JobFacts
<1>7. ASSUME late # {}
      PROVE  \E h \in late : /\ h = Min(late) /\ h \in Jobs /\ LateTimes(target, h) \in Intervals(Int)
                             /\ LateTimes(target, h).max > Deadline(h)
    <2>1. late \in SUBSET Jobs /\ \A h \in late : Deadline(h) < Avail(LastState(target), MinParallelism(h)).min
        BY DEF GuaranteedMiss
    <2> HIDE DEF late, target
    <2>2. IsFiniteSet(late) /\ late \in SUBSET Int
        BY <1>1, <2>1, ProblemFacts, FS_Subset
    <2>3. PICK h \in late : h = Min(late)
        BY <1>7, <2>2, MinFacts
    <2>4. h \in Jobs /\ Deadline(h) < Avail(LastState(target), MinParallelism(h)).min
        BY <2>1, <2>3
    <2>5. LateTimes(target, h) \in Intervals(Int) /\ LateTimes(target, h).max > Deadline(h)
        BY <1>1, <1>3, <2>4, LateTimesType, LateTimesAreLate
    <2>6. QED BY <2>3, <2>4, <2>5
<1>8. /\ DOMAIN completion \in SUBSET Jobs
      /\ \A k \in DOMAIN completion : completion[k] \in Intervals(Int)
      /\ observed_deadline_miss \in BOOLEAN
    BY <1>1 DEF ReportsInv
<1>9. Misses(j, finish) <=> finish.max > Deadline(j)
    BY DEF Misses
<1> HIDE DEF n, j, target, finish, last, late, times
<1>10. /\ DOMAIN times = DOMAIN completion \cup {j} /\ \A k \in DOMAIN times : times[k] \in Intervals(Int)
       /\ \A k \in DOMAIN completion : times[k].min <= completion[k].min /\ completion[k].max <= times[k].max
       /\ \A k \in DOMAIN times : \A t \in Int :
            times[k].max > t <=> (k \in DOMAIN completion /\ completion[k].max > t) \/ (k = j /\ finish.max > t)
    <2>1. AddsReport(times, completion, j, finish)
        BY <1>5, <1>8, CompletionCovers DEF times
    <2>2. QED BY <2>1 DEF AddsReport
<1>11. observed_deadline_miss \/ (Shows(times) <=> missed)
    <2>1. SUFFICES ASSUME ~observed_deadline_miss PROVE Shows(times) <=> Misses(j, finish)
        OBVIOUS
    <2>2. \A k \in DOMAIN completion : ~(completion[k].max > Deadline(k))
        <3>1. \A k \in DOMAIN completion : completion[k].max \in Int /\ Deadline(k) \in Int
            BY <1>6, <1>8 DEF Intervals
        <3>2. QED BY <2>1, <3>1 DEF MissInv
    <2>3. \A k \in DOMAIN times : times[k].max > Deadline(k) <=> (k = j /\ finish.max > Deadline(k))
        BY <1>4, <1>6, <1>8, <1>10, <2>2
    <2>4. QED BY <1>9, <1>10, <2>3
<1>12. CASE late = {}
    <2>1. completion' = times /\ observed_deadline_miss' = missed
        BY <1>2, <1>12
    <2>2. missed = (observed_deadline_miss \/ Shows(times))
        BY <1>11
    <2> HIDE DEF missed
    <2>3. observed_deadline_miss' = (observed_deadline_miss \/ Shows(completion'))
        BY <2>1, <2>2
    <2>4. QED BY <1>4, <1>8, <1>10, <2>1, <2>3 DEF j
<1>13. CASE late # {}
    <2>1. PICK h \in late : /\ h = Min(late) /\ h \in Jobs /\ LateTimes(target, h) \in Intervals(Int)
                            /\ LateTimes(target, h).max > Deadline(h)
        BY <1>7, <1>13
    <2>2. PICK u \in Intervals(Int) : u = LateTimes(target, h) /\ u.max > Deadline(h)
        BY <2>1
    <2>3. completion' = WithCompletion(times, h, u) /\ observed_deadline_miss' = TRUE
        BY <1>2, <1>13, <2>1, <2>2
    <2>4. PICK w : w = completion'
        OBVIOUS
    <2>5. /\ DOMAIN w = DOMAIN times \cup {h} /\ \A k \in DOMAIN w : w[k] \in Intervals(Int)
          /\ \A k \in DOMAIN times : w[k].min <= times[k].min /\ times[k].max <= w[k].max
          /\ \A k \in DOMAIN w : \A t \in Int :
                w[k].max > t <=> (k \in DOMAIN times /\ times[k].max > t) \/ (k = h /\ u.max > t)
        <3>1. w = WithCompletion(times, h, u)
            BY <2>3, <2>4
        <3>2. \A k \in DOMAIN times : times[k] \in Intervals(Int)
            BY <1>10
        <3>3. AddsReport(w, times, h, u)
            BY <2>2, <3>1, <3>2, CompletionCovers
        <3>4. QED BY <3>3 DEF AddsReport
    <2>6. h \in DOMAIN w /\ w[h].max > Deadline(h)
        BY <1>6, <2>1, <2>2, <2>5
    <2>7. Shows(w)
        BY <2>6
    <2>8. ASSUME NEW k \in DOMAIN completion
          PROVE  k \in DOMAIN w /\ w[k].min <= completion[k].min /\ completion[k].max <= w[k].max
        <3>1. k \in DOMAIN times /\ k \in DOMAIN w
            BY <1>10, <2>5
        <3>2. /\ completion[k].min \in Int /\ completion[k].max \in Int
              /\ times[k].min \in Int /\ times[k].max \in Int /\ w[k].min \in Int /\ w[k].max \in Int
            BY <1>8, <1>10, <2>5, <3>1 DEF Intervals
        <3>3. /\ times[k].min <= completion[k].min /\ completion[k].max <= times[k].max
              /\ w[k].min <= times[k].min /\ times[k].max <= w[k].max
            BY <1>10, <2>5, <3>1
        <3>4. QED BY <3>1, <3>2, <3>3
    <2>9. DOMAIN w \in SUBSET Jobs /\ j \in DOMAIN w
        BY <1>4, <1>8, <1>10, <2>1, <2>5
    <2>10. QED BY <2>3, <2>4, <2>7, <2>8, <2>9 DEF j
<1>14. QED BY <1>12, <1>13

LEMMA NextKeepsMisses ==
    ASSUME IInv, MissInv, TriggerIsClear, [Next]_explorationVars
    PROVE  MissInv'
<1>1. CASE Dispatch
    <2>1. UNCHANGED Data
        BY <1>1 DEF Dispatch, Data
    <2>2. \A k : Deadline(k)' = Deadline(k)
        BY <2>1 DEF Deadline, Data
    <2>3. observed_deadline_miss' =
                (observed_deadline_miss \/ \E k \in DOMAIN completion' : completion'[k].max > Deadline(k))
        BY <1>1, DispatchReports
    <2>4. ASSUME NEW k \in DOMAIN completion' PROVE completion'[k].max \in Int /\ Deadline(k) \in Int
        <3>1. IInv'
            BY <1>1, DispatchKeepsInv
        <3>2. DOMAIN completion' \in SUBSET Jobs /\ completion'[k] \in Intervals(Int)
            BY <1>1, <3>1, DispatchReports DEF IInv, ReportsInv
        <3>3. QED BY <3>2, JobFacts DEF Intervals, IInv
    <2>5. SUFFICES ASSUME ~observed_deadline_miss', NEW k \in DOMAIN completion'
                   PROVE  completion'[k].max <= Deadline(k)
        BY <2>2 DEF MissInv
    <2>6. ~(completion'[k].max > Deadline(k))
        BY <2>3, <2>5
    <2>7. QED BY <2>4, <2>6
<1>2. ASSUME UNCHANGED problem, UNCHANGED completion, ~observed_deadline_miss' => ~observed_deadline_miss
      PROVE  MissInv'
    BY <1>2 DEF MissInv, Deadline
<1>3. CASE NextDepth
    BY <1>2, <1>3 DEF NextDepth
<1>4. CASE GiveUp
    BY <1>2, <1>4 DEF GiveUp
<1>5. ASSUME NEW i \in DOMAIN ExplorationFront, Explore(i) PROVE MissInv'
    <2>1. UNCHANGED problem /\ UNCHANGED completion /\ (~observed_deadline_miss' => ~observed_deadline_miss)
        BY <1>5 DEF Explore
    <2>2. QED BY <1>2, <2>1
<1>6. CASE UNCHANGED explorationVars
    BY <1>2, <1>6 DEF explorationVars
<1>7. QED BY <1>1, <1>3, <1>4, <1>5, <1>6 DEF Next, Done

-----------------------------------------------------------------------------
(***************************************************************************)
(* The exploration implements the search by layers: each step is one of    *)
(* the search, read through LayersByDepth.                                 *)
(***************************************************************************)
RefInv == IInv /\ LayersInv /\ MissInv

\* What the search sees: the deadlines, and the node being expanded.
SeenDeadline == [j \in Jobs |-> Deadline(j)]
SeenNode == IF exploring = Idle THEN <<>> ELSE <<exploring.node.scheduled>>

LEMMA SeenFacts ==
    ASSUME DataOK
    PROVE  /\ Abstract!Jobs = Jobs /\ Abstract!NumJobs = Len(problem.job)
           /\ \A S : Abstract!Cardinality(S) = Cardinality(S)
           /\ \A q, i : Abstract!RemoveAt(q, i) = RemoveAt(q, i)
           /\ \A q : Abstract!Range(q) = Range(q)
           /\ IsFiniteSet(Jobs) /\ Abstract!IsFiniteSet(Jobs)
<1>1. Abstract!Jobs = Jobs
    BY DEF Abstract!Jobs
<1>2. IsFiniteSet(Jobs) /\ Cardinality(Jobs) = Len(problem.job)
    BY ProblemFacts, FS_Interval DEF Jobs
<1>3. Abstract!Cardinality(Jobs) = Cardinality(Jobs)
    BY DEF Abstract!Cardinality, Cardinality, Abstract!IsFiniteSet, IsFiniteSet
<1>4. \A S : Abstract!Cardinality(S) = Cardinality(S)
    BY DEF Abstract!Cardinality, Cardinality, Abstract!IsFiniteSet, IsFiniteSet
<1>5. \A q, i : Abstract!RemoveAt(q, i) = RemoveAt(q, i)
    BY DEF Abstract!RemoveAt, RemoveAt
<1>6. \A q : Abstract!Range(q) = Range(q)
    BY DEF Abstract!Range, Range
<1>7. Abstract!IsFiniteSet(Jobs)
    BY <1>2 DEF Abstract!IsFiniteSet, IsFiniteSet
<1>8. QED BY <1>1, <1>2, <1>3, <1>4, <1>5, <1>6, <1>7 DEF Abstract!NumJobs

LEMMA SeenUnchanged ==
    /\ UNCHANGED Data => UNCHANGED SeenDeadline
    /\ UNCHANGED exploring => UNCHANGED SeenNode
    /\ UNCHANGED Data /\ UNCHANGED <<nodes, current_job_count>> => UNCHANGED LayersByDepth
<1>1. ASSUME UNCHANGED Data PROVE UNCHANGED SeenDeadline
    <2>1. Jobs' = Jobs /\ \A j : Deadline(j)' = Deadline(j)
        BY <1>1, SameData DEF Deadline, Data
    <2>2. QED BY <2>1 DEF SeenDeadline
<1>2. UNCHANGED exploring => UNCHANGED SeenNode
    BY DEF SeenNode, Idle
<1>3. ASSUME UNCHANGED Data, UNCHANGED <<nodes, current_job_count>> PROVE UNCHANGED LayersByDepth
    <2>1. LayersByDepth' = LayersOf(nodes', current_job_count') /\ LayersByDepth = LayersOf(nodes, current_job_count)
        BY <1>3, LayersByDepthFacts
    <2>2. nodes' = nodes /\ current_job_count' = current_job_count
        BY <1>3
    <2>3. LayersOf(nodes', current_job_count') = LayersOf(nodes, current_job_count)
        BY <2>2
    <2>4. QED BY <2>1, <2>3
<1>4. QED BY <1>1, <1>2, <1>3

LEMMA StutterIsSearch ==
    ASSUME UNCHANGED explorationVars
    PROVE  UNCHANGED Abstract!vars
<1>1. UNCHANGED Data /\ UNCHANGED exploring /\ UNCHANGED <<nodes, current_job_count>>
      /\ UNCHANGED <<completion, observed_deadline_miss, aborted>>
    BY DEF explorationVars, Data
<1>2. UNCHANGED SeenDeadline /\ UNCHANGED SeenNode /\ UNCHANGED LayersByDepth
    BY <1>1, SeenUnchanged
<1>3. QED BY <1>1, <1>2 DEF Abstract!vars, SeenDeadline, SeenNode

LEMMA FrontIsSeen ==
    ASSUME IInv, LayersInv
    PROVE  /\ current_job_count \in Window /\ current_job_count \in 0..Len(problem.job)
           /\ IsList(ExplorationFront)
           /\ LayersByDepth[current_job_count] = Keys(ExplorationFront)
           /\ exploring = Idle /\ ~Explored /\ ~aborted => Abstract!Searching
<1>1. DataOK /\ current_job_count \in 0..Len(problem.job) /\ Len(problem.job) \in Nat
    BY ProblemFacts DEF LayersInv
<1>2. current_job_count \in Window
    BY <1>1, RingFacts
<1>3. IsList(ExplorationFront)
    BY FrontFacts DEF IsPlaced
<1>4. LayersByDepth[current_job_count] = Keys(ExplorationFront)
    <2>1. PICK m \in Nat : m = Len(problem.job) /\ current_job_count \in 0..m
        BY <1>1
    <2>2. QED BY <1>2, <2>1 DEF LayersByDepth, Keys, ExplorationFront, Window
<1>5. exploring = Idle /\ ~Explored /\ ~aborted => Abstract!Searching
    BY <1>1, SeenFacts DEF Abstract!Searching, Explored
<1>6. QED BY <1>1, <1>2, <1>3, <1>4, <1>5

LEMMA KeysOfNone == Keys(<<>>) = <<>>
    BY DEF Keys

LEMMA NextDepthAdvances ==
    ASSUME IInv, LayersInv, NextDepth
    PROVE  Abstract!Advance
<1>1. /\ exploring = Idle /\ ExplorationFront = <<>> /\ ~Explored /\ ~aborted
      /\ current_job_count' = current_job_count + 1
      /\ UNCHANGED Data /\ UNCHANGED exploring
      /\ UNCHANGED <<nodes, completion, observed_deadline_miss, aborted>>
    BY DEF NextDepth, Data
<1>2. Abstract!Searching /\ LayersByDepth[current_job_count] = <<>>
    BY <1>1, FrontIsSeen, KeysOfNone
<1>3. UNCHANGED SeenDeadline /\ UNCHANGED SeenNode
    BY <1>1, SeenUnchanged
<1>4. LayersByDepth' = LayersByDepth
    <2>1. DataOK /\ current_job_count \in Nat
        BY ProblemFacts DEF LayersInv
    <2>2. PICK m : m = Len(problem.job)
        OBVIOUS
    <2>3. PICK k \in Nat : k = NumLayers /\ k > 1
        BY <2>1, NumLayersFacts
    <2>4. PICK c \in Nat : c = current_job_count
        BY <2>1
    <2>5. nodes[Layer(c)] = <<>> /\ nodes[Layer(c + k)] = <<>>
        BY <1>1, <2>1, <2>3, <2>4, RingFacts DEF ExplorationFront
    <2>6. ASSUME NEW d \in 0..m
          PROVE  (IF d \in (c + 1)..(c + 1 + k - 1) THEN Keys(nodes[Layer(d)]) ELSE <<>>)
                    = (IF d \in c..(c + k - 1) THEN Keys(nodes[Layer(d)]) ELSE <<>>)
        <3> HIDE DEF Keys, Layer
        <3>1. CASE d = c
            BY <2>3, <2>5, <3>1, KeysOfNone
        <3>2. CASE d = c + k
            BY <2>3, <2>5, <3>2, KeysOfNone
        <3>3. CASE d # c /\ d # c + k
            <4>1. d \in (c + 1)..(c + 1 + k - 1) <=> d \in c..(c + k - 1)
                BY <3>3
            <4>2. QED BY <4>1
        <3>4. QED BY <3>1, <3>2, <3>3
    <2>7. LayersOf(nodes, c + 1) = LayersOf(nodes, c)
        BY <2>2, <2>3, <2>6 DEF LayersOf
    <2>8. LayersByDepth' = LayersOf(nodes', current_job_count') /\ LayersByDepth = LayersOf(nodes, c)
        BY <1>1, <2>4, LayersByDepthFacts
    <2>9. nodes' = nodes /\ current_job_count' = c + 1
        BY <1>1, <2>4
    <2>10. QED BY <2>7, <2>8, <2>9
<1>5. QED BY <1>1, <1>2, <1>3, <1>4 DEF Abstract!Advance, SeenDeadline, SeenNode

LEMMA GiveUpIsSearch ==
    ASSUME IInv, LayersInv, GiveUp
    PROVE  Abstract!GiveUp
<1>1. /\ exploring = Idle /\ ~Explored /\ ~aborted /\ aborted' = TRUE
      /\ UNCHANGED Data /\ UNCHANGED exploring
      /\ UNCHANGED <<nodes, current_job_count>> /\ UNCHANGED <<completion, observed_deadline_miss>>
    BY DEF GiveUp, Data
<1>2. Abstract!Searching
    BY <1>1, FrontIsSeen
<1>3. UNCHANGED SeenDeadline /\ UNCHANGED SeenNode /\ UNCHANGED LayersByDepth
    BY <1>1, SeenUnchanged
<1>4. QED BY <1>1, <1>2, <1>3 DEF Abstract!GiveUp, SeenDeadline, SeenNode

LEMMA InitIsSearch ==
    ASSUME Init, LayersInv
    PROVE  Abstract!Init
<1>1. /\ current_job_count = 0 /\ exploring = Idle /\ completion = <<>>
      /\ observed_deadline_miss = FALSE /\ aborted = FALSE
      /\ nodes = [layer \in 0..(NumLayers - 1) |->
                     IF layer = 0 THEN <<AddState(InitialNode, InitialState)>> ELSE <<>>]
    BY DEF Init
<1>2. DataOK /\ current_job_count \in Nat
    BY <1>1 DEF LayersInv
<1>3. Keys(<<AddState(InitialNode, InitialState)>>) = <<{}>>
    <2>1. AddState(InitialNode, InitialState).scheduled = {}
        BY <1>2, InitialNodeFacts, InitialStateFacts, AddStateFacts
    <2> HIDE DEF AddState, InitialNode, InitialState
    <2>2. PICK x : x = AddState(InitialNode, InitialState)
        OBVIOUS
    <2>3. Keys(<<x>>) = <<x.scheduled>>
        BY DEF Keys
    <2>4. QED BY <2>1, <2>2, <2>3
<1>4. PICK m \in Nat : m = Len(problem.job)
    BY <1>2, ProblemFacts
<1>5. ASSUME NEW d \in 0..m
      PROVE  (IF d \in Window THEN Keys(nodes[Layer(d)]) ELSE <<>>) = (IF d = 0 THEN <<{}>> ELSE <<>>)
    <2>1. 0 \in Window /\ Layer(0) = 0 /\ (d \in Window => Layer(d) \in 0..(NumLayers - 1))
        <3>1. 0 \in Window /\ \A c \in Window : Layer(c) \in 0..(NumLayers - 1)
            BY <1>1, <1>2, RingFacts
        <3>2. NumLayers \in Nat /\ NumLayers > 1
            BY <1>2, NumLayersFacts
        <3>3. 0 % NumLayers = 0
            BY <3>2
        <3>4. QED BY <3>1, <3>3 DEF Layer
    <2>2. \A c \in Window : Layer(c) = Layer(0) => c = 0
        BY <1>1, <1>2, <2>1, RingFacts
    <2>3. \A l \in 0..(NumLayers - 1) :
            nodes[l] = IF l = 0 THEN <<AddState(InitialNode, InitialState)>> ELSE <<>>
        BY <1>1
    <2> HIDE DEF Keys, Layer, Window, AddState, NumLayers
    <2>4. CASE d = 0
        <3>1. nodes[Layer(d)] = <<AddState(InitialNode, InitialState)>>
            BY <2>1, <2>3, <2>4
        <3>2. QED BY <1>3, <2>1, <2>4, <3>1
    <2>5. CASE d # 0 /\ d \in Window
        <3>1. nodes[Layer(d)] = <<>>
            BY <2>1, <2>2, <2>3, <2>5
        <3>2. QED BY <2>5, <3>1, KeysOfNone
    <2>6. CASE d # 0 /\ d \notin Window
        BY <2>6
    <2>7. QED BY <2>4, <2>5, <2>6
<1>6. LayersByDepth = [d \in 0..m |-> IF d = 0 THEN <<{}>> ELSE <<>>]
    <2>1. LayersByDepth = LayersOf(nodes, current_job_count)
        BY LayersByDepthFacts
    <2>2. LayersOf(nodes, current_job_count)
            = [d \in 0..m |-> IF d \in Window THEN Keys(nodes[Layer(d)]) ELSE <<>>]
        BY <1>4 DEF LayersOf, Window
    <2>3. QED BY <1>5, <2>1, <2>2
<1>7. QED BY <1>1, <1>2, <1>4, <1>6, SeenFacts DEF Abstract!Init

LEMMA ExploreIsSearch ==
    ASSUME IInv, LayersInv, NEW i \in DOMAIN ExplorationFront, Explore(i)
    PROVE  \E k \in DOMAIN LayersByDepth[current_job_count] : Abstract!Take(k)
<1> DEFINE n == ExplorationFront[i]
           jobs == {j \in Candidates(n) : Options(n, j) # {}}
           dead == jobs = {} /\ ~AllJobsScheduled(n)
           c == current_job_count
<1>1. /\ exploring = Idle /\ ~Explored /\ ~aborted
      /\ exploring' = (IF jobs = {} THEN Idle
                       ELSE [node |-> n, jobs |-> jobs, left |-> Options(n, FirstOf(jobs)), next |-> 0])
      /\ nodes' = [nodes EXCEPT ![Layer(c)] = RemoveAt(ExplorationFront, i)]
      /\ observed_deadline_miss' = (observed_deadline_miss \/ dead)
      /\ aborted' = dead
      /\ UNCHANGED Data /\ UNCHANGED current_job_count /\ UNCHANGED completion
    BY DEF Explore, Data, ExplorationFront
<1>2. observed_deadline_miss \in BOOLEAN /\ aborted \in BOOLEAN
    BY DEF IInv, ReportsInv
<1> HIDE DEF n, jobs, dead
<1>3. /\ c \in Window /\ c \in 0..Len(problem.job) /\ IsList(ExplorationFront)
      /\ LayersByDepth[c] = Keys(ExplorationFront) /\ Abstract!Searching
    BY <1>1, FrontIsSeen
<1>4. /\ i \in DOMAIN Keys(ExplorationFront) /\ Keys(ExplorationFront)[i] = n.scheduled
      /\ Keys(RemoveAt(ExplorationFront, i)) = RemoveAt(Keys(ExplorationFront), i)
    BY <1>3, KeysFacts, KeysOfRemoved DEF n
<1>5. LayersByDepth' = [LayersByDepth EXCEPT ![c] = RemoveAt(LayersByDepth[c], i)]
    <2>1. PICK r : r = RemoveAt(ExplorationFront, i)
        OBVIOUS
    <2>2. PICK ring : ring = nodes'
        OBVIOUS
    <2>3. ring = [nodes EXCEPT ![Layer(c)] = r]
        BY <1>1, <2>1, <2>2
    <2>4. LayersOf(ring, c) = [LayersByDepth EXCEPT ![c] = Keys(r)]
        BY <1>3, <2>3, OneDepthChanges
    <2>5. LayersByDepth' = LayersOf(ring, c)
        BY <1>1, <2>2, LayersByDepthFacts
    <2>6. Keys(r) = RemoveAt(LayersByDepth[c], i)
        BY <1>3, <1>4, <2>1
    <2>7. QED BY <2>4, <2>5, <2>6
<1>6. UNCHANGED SeenDeadline
    BY <1>1, SeenUnchanged
<1>7. SeenNode = <<>> /\ SeenNode' = IF jobs = {} THEN <<>> ELSE <<n.scheduled>>
    <2>1. SeenNode = <<>>
        BY <1>1 DEF SeenNode
    <2>2. CASE jobs = {}
        BY <1>1, <2>2 DEF SeenNode, Idle
    <2>3. CASE jobs # {}
        <3>1. PICK e : /\ e = [node |-> n, jobs |-> jobs, left |-> Options(n, FirstOf(jobs)), next |-> 0]
                       /\ exploring' = e
            BY <1>1, <2>3
        <3>2. e # Idle /\ e.node = n
            BY <3>1 DEF Idle
        <3>3. Idle' = Idle
            BY DEF Idle
        <3>4. SeenNode' = <<n.scheduled>>
            BY <3>1, <3>2, <3>3 DEF SeenNode
        <3>5. QED BY <2>1, <2>3, <3>4
    <2>4. QED BY <2>1, <2>2, <2>3
<1>8. LayersByDepth' = [LayersByDepth EXCEPT ![c] = Abstract!RemoveAt(LayersByDepth[c], i)]
    <2>1. DataOK
        BY DEF IInv
    <2>2. Abstract!RemoveAt(LayersByDepth[c], i) = RemoveAt(LayersByDepth[c], i)
        BY <2>1, SeenFacts
    <2>3. QED BY <1>5, <2>2
<1>9. CASE dead
    <2>1. jobs = {} /\ observed_deadline_miss' = TRUE /\ aborted' = TRUE
        BY <1>1, <1>9 DEF dead
    <2>2. Abstract!Take(i)
        BY <1>1, <1>3, <1>8, <1>6, <1>7, <2>1 DEF Abstract!Take, SeenDeadline, SeenNode
    <2>3. QED BY <1>3, <1>4, <2>2
<1>10. CASE ~dead
    <2>1. observed_deadline_miss' = observed_deadline_miss /\ aborted' = aborted
        <3>1. dead = FALSE
            BY <1>10 DEF dead
        <3>2. observed_deadline_miss' = (observed_deadline_miss \/ FALSE) /\ aborted' = FALSE /\ aborted = FALSE
            BY <1>1, <1>2, <3>1
        <3>3. QED BY <1>2, <3>2
    <2>2. SeenNode' \in {<<>>, <<LayersByDepth[c][i]>>}
        BY <1>3, <1>4, <1>7
    <2>3. Abstract!Take(i)
        BY <1>1, <1>3, <1>8, <1>6, <2>1, <2>2 DEF Abstract!Take, SeenDeadline, SeenNode
    <2>4. QED BY <1>3, <1>4, <2>3
<1>11. QED BY <1>9, <1>10

\* Where a dispatch leads to, as the search sees it.
LEMMA DispatchReaches ==
    ASSUME IInv, LayersInv, Dispatch, NEW T, T = Target.scheduled
    PROVE  /\ T \in SUBSET Jobs
           /\ exploring.node.scheduled \subseteq T /\ CurrentJob \in T \ exploring.node.scheduled
           /\ current_job_count < Cardinality(T)
           /\ \/ T \in Range(LayersByDepth[Cardinality(T)]) /\ UNCHANGED LayersByDepth
              \/ LayersByDepth' = [LayersByDepth EXCEPT ![Cardinality(T)] = Append(@, T)]
<1> DEFINE n == exploring.node
           j == CurrentJob
           layer == nodes[TargetDepth]
<1>1. exploring # Idle /\ UNCHANGED Data /\ UNCHANGED current_job_count
    BY DEF Dispatch, Data
<1>2. PICK d : d = current_job_count + Cardinality(Incompatible(j))
    OBVIOUS
<1>3. /\ j \in MayCome(n.scheduled) /\ j \in Jobs
      /\ d \in Window /\ d > current_job_count /\ TargetDepth = Layer(d) /\ TargetDepth \in DOMAIN nodes
      /\ T = n.scheduled \cup Incompatible(j) /\ d = Cardinality(T)
      /\ Place \in DOMAIN TargetLayer /\ TargetLayer[Place].scheduled = T
      /\ \/ TargetLayer = layer
         \/ \E x : TargetLayer = Append(layer, x) /\ Place = Len(layer) + 1
      /\ PlainNode(Target)
    BY <1>1, <1>2, PlainTarget
<1>4. T \in SUBSET Jobs /\ IsClosed(T)
    BY <1>3 DEF PlainNode, IsClosed
<1>5. j \in T \ n.scheduled
    BY <1>3, SiblingFacts DEF MayCome, LayersInv
<1>6. d \in 0..Len(problem.job)
    <2>1. IsClosed(n.scheduled) /\ DataOK /\ BranchesAreClosed
        BY <1>1 DEF LayersInv, Expanding, PlainNode
    <2>2. d <= Len(problem.job)
        BY <1>3, <2>1, DispatchAdvances
    <2>3. d \in Nat /\ Len(problem.job) \in Nat
        BY <1>3, <2>1, RingFacts, ProblemFacts DEF LayersInv
    <2>4. QED BY <2>2, <2>3
<1>7. IsList(layer)
    BY <1>3 DEF LayersInv, IsPlaced
<1>8. PICK q : q = ReplaceAt(TargetLayer, Place, Target)
    OBVIOUS
<1>9. /\ nodes' = [nodes EXCEPT ![Layer(d)] = q] /\ DOMAIN q = DOMAIN TargetLayer
      /\ \A k \in DOMAIN TargetLayer : q[k].scheduled = TargetLayer[k].scheduled
    BY <1>3, <1>8, DispatchFacts
<1>10. Keys(q) = Keys(TargetLayer)
    BY <1>9 DEF Keys
<1>11. LayersByDepth' = [LayersByDepth EXCEPT ![d] = Keys(TargetLayer)] /\ LayersByDepth[d] = Keys(layer)
    <2>1. PICK ring : ring = nodes'
        OBVIOUS
    <2>2. ring = [nodes EXCEPT ![Layer(d)] = q]
        BY <1>9, <2>1
    <2>3. /\ LayersOf(ring, current_job_count) = [LayersByDepth EXCEPT ![d] = Keys(q)]
          /\ LayersByDepth[d] = Keys(nodes[Layer(d)])
        BY <1>3, <1>6, <2>2, OneDepthChanges
    <2>4. LayersByDepth' = LayersOf(ring, current_job_count)
        BY <1>1, <2>1, LayersByDepthFacts
    <2>5. QED BY <1>3, <1>10, <2>3, <2>4
<1>12. \/ T \in Range(LayersByDepth[d]) /\ UNCHANGED LayersByDepth
       \/ LayersByDepth' = [LayersByDepth EXCEPT ![d] = Append(@, T)]
    <2>1. CASE TargetLayer = layer
        <3>1. LayersByDepth' = LayersByDepth
            <4>1. PICK f : f = LayersByDepth
                OBVIOUS
            <4>2. f = [x \in DOMAIN f |-> f[x]]
                BY <4>1 DEF LayersByDepth
            <4>3. f[d] = Keys(layer) /\ LayersByDepth' = [f EXCEPT ![d] = Keys(layer)]
                BY <1>11, <2>1, <4>1
            <4>4. [f EXCEPT ![d] = Keys(layer)] = f
                BY <4>2, <4>3
            <4>5. QED BY <4>1, <4>3, <4>4
        <3>2. Place \in DOMAIN Keys(layer) /\ Keys(layer)[Place] = T
            BY <1>3, <1>7, <2>1, KeysFacts
        <3>3. QED BY <1>11, <3>1, <3>2 DEF Range
    <2>2. CASE \E x : TargetLayer = Append(layer, x) /\ Place = Len(layer) + 1
        <3>1. PICK x : TargetLayer = Append(layer, x) /\ Place = Len(layer) + 1
            BY <2>2
        <3>2. TargetLayer[Place] = x
            BY <1>7, <3>1, AppendedFacts
        <3>3. Keys(TargetLayer) = Append(Keys(layer), T)
            <4>1. x.scheduled = T
                BY <1>3, <3>2
            <4>2. Keys(Append(layer, x)) = Append(Keys(layer), x.scheduled)
                BY <1>7, KeysOfAppended
            <4>3. QED BY <3>1, <4>1, <4>2
        <3>4. QED BY <1>11, <3>3
    <2>3. QED BY <1>3, <2>1, <2>2
<1>13. current_job_count < d
    <2>1. current_job_count \in Nat /\ d \in Nat
        BY <1>3, ProblemFacts, RingFacts DEF LayersInv
    <2>2. QED BY <1>3, <2>1
<1>14. QED BY <1>3, <1>4, <1>5, <1>12, <1>13

LEMMA DispatchIsSearch ==
    ASSUME RefInv, TriggerIsClear, Dispatch
    PROVE  \E node \in SUBSET Abstract!Jobs : Abstract!Reach(node)
<1>1. /\ DataOK /\ IInv /\ LayersInv /\ MissInv /\ exploring # Idle
      /\ UNCHANGED Data /\ UNCHANGED current_job_count
      /\ aborted' \in {aborted, TRUE}
    <2>1. aborted \in BOOLEAN /\ DataOK /\ IInv /\ LayersInv /\ MissInv
        BY DEF RefInv, IInv, ReportsInv
    <2>2. exploring # Idle /\ UNCHANGED Data /\ UNCHANGED current_job_count
        BY DEF Dispatch, Data
    <2>3. PICK b \in BOOLEAN : aborted' = (aborted \/ b)
        BY DEF Dispatch
    <2>4. QED BY <2>1, <2>2, <2>3
<1>2. PICK T : T = Target.scheduled
    OBVIOUS
<1>3. /\ T \in SUBSET Jobs
      /\ exploring.node.scheduled \subseteq T /\ CurrentJob \in T \ exploring.node.scheduled
      /\ current_job_count < Cardinality(T)
      /\ \/ T \in Range(LayersByDepth[Cardinality(T)]) /\ UNCHANGED LayersByDepth
         \/ LayersByDepth' = [LayersByDepth EXCEPT ![Cardinality(T)] = Append(@, T)]
    BY <1>1, <1>2, DispatchReaches
<1>4. /\ DOMAIN completion' \in SUBSET Jobs /\ CurrentJob \in DOMAIN completion'
      /\ \A k \in DOMAIN completion :
           /\ k \in DOMAIN completion'
           /\ completion'[k].min <= completion[k].min /\ completion[k].max <= completion'[k].max
      /\ observed_deadline_miss' =
           (observed_deadline_miss \/ \E k \in DOMAIN completion' : completion'[k].max > Deadline(k))
    BY <1>1, DispatchReports
<1>5. Abstract!Covers(completion', completion)
    BY <1>4 DEF Abstract!Covers
<1>6. observed_deadline_miss' = (observed_deadline_miss \/ Abstract!Late(completion'))
    <2>1. \A k \in DOMAIN completion' : [j \in Jobs |-> Deadline(j)][k] = Deadline(k)
        BY <1>4
    <2>2. Abstract!Late(completion') <=> \E k \in DOMAIN completion' : completion'[k].max > Deadline(k)
        BY <2>1 DEF Abstract!Late
    <2>3. QED BY <1>4, <2>2
<1>7. UNCHANGED SeenDeadline
    BY <1>1, SeenUnchanged
<1>8. SeenNode = <<exploring.node.scheduled>> /\ SeenNode' \in {SeenNode, <<>>}
    <2>1. SeenNode = <<exploring.node.scheduled>>
        BY <1>1 DEF SeenNode
    <2>2. Idle' = Idle /\ DOMAIN Idle = {"jobs"}
        BY DEF Idle
    <2>3. CASE exploring' = Idle
        <3>1. SeenNode' = <<>>
            BY <2>2, <2>3 DEF SeenNode
        <3>2. QED BY <2>1, <3>1
    <2>4. CASE exploring' # Idle
        <3>1. DOMAIN exploring = {"node", "jobs", "left", "next"}
            BY <1>1 DEF IInv, NodesInv, IsExpansion
        <3>2. exploring'.node = exploring.node
            BY <2>4, <3>1 DEF Dispatch
        <3>3. SeenNode' = <<exploring'.node.scheduled>>
            BY <2>2, <2>4 DEF SeenNode
        <3>4. QED BY <2>1, <3>2, <3>3
    <2>5. QED BY <2>1, <2>3, <2>4
<1>9. Abstract!Cardinality(T) = Cardinality(T) /\ \A q : Abstract!Range(q) = Range(q)
    BY <1>1, SeenFacts
<1>10. Abstract!Jobs = Jobs
    BY <1>1, SeenFacts
<1>11. \E k \in T \ SeenNode[1] : k \in DOMAIN completion'
    BY <1>3, <1>4, <1>8
<1>12. SeenNode # <<>> /\ SeenNode[1] = exploring.node.scheduled /\ SeenNode[1] # T
    BY <1>3, <1>8
<1>13. Abstract!Reach(T)
    BY <1>1, <1>3, <1>4, <1>5, <1>6, <1>7, <1>8, <1>9, <1>10, <1>11, <1>12
    DEF Abstract!Reach, SeenDeadline, SeenNode
<1>14. QED BY <1>3, <1>10, <1>13

LEMMA NextIsSearch ==
    ASSUME RefInv, TriggerIsClear, [Next]_explorationVars
    PROVE  [Abstract!Next]_(Abstract!vars)
<1>1. IInv /\ LayersInv
    BY DEF RefInv
<1>2. CASE NextDepth
    BY <1>1, <1>2, NextDepthAdvances DEF Abstract!Next
<1>3. CASE GiveUp
    BY <1>1, <1>3, GiveUpIsSearch DEF Abstract!Next
<1>4. ASSUME NEW i \in DOMAIN ExplorationFront, Explore(i) PROVE Abstract!Next
    BY <1>1, <1>4, ExploreIsSearch DEF Abstract!Next
<1>5. CASE Dispatch
    BY <1>5, DispatchIsSearch DEF Abstract!Next
<1>6. CASE UNCHANGED explorationVars
    BY <1>6, StutterIsSearch
<1>7. QED BY <1>2, <1>3, <1>4, <1>5, <1>6 DEF Next, Done

LEMMA RefInvHolds ==
    ASSUME RefInv, TriggerIsClear, [Next]_explorationVars
    PROVE  RefInv'
<1>1. IInv /\ LayersInv /\ MissInv
    BY DEF RefInv
<1>2. IInv' /\ LayersInv' /\ MissInv'
    BY <1>1, NextKeepsInv, NextKeepsLayers, NextKeepsMisses
<1>3. QED BY <1>2 DEF RefInv

LEMMA InitIsRefInv ==
    ASSUME BranchesAssumption, Init
    PROVE  RefInv
<1>1. IInv /\ LayersInv
    BY InitKeepsInv, InitHasLayers
<1>2. MissInv
    BY DEF Init, MissInv
<1>3. QED BY <1>1, <1>2 DEF RefInv

\* An execution leaves the exploration as it is.
LEMMA ExecutionIsStutter == [SagNext]_vars => [Next]_explorationVars
    BY DEF SagNext, BeginExecution, Run, Wait, Executed, vars

\* The exploration, run or not run on by executions, implements the search by
\* layers: every depth is finished before the next one is begun although the
\* ring of layers is reused, no node is lost or put back, the reported intervals
\* only widen, and a deadline miss is seen at the step that reports it.
THEOREM Refines ==
    ASSUME BranchesAssumption
    PROVE  SagSpec /\ []TriggerIsClear => ImplementsLayeredSearch
<1>1. SagInit => RefInv /\ Abstract!Init
    BY InitIsRefInv, InitIsSearch DEF SagInit, RefInv
<1>2. RefInv /\ TriggerIsClear /\ [SagNext]_vars => RefInv'
    BY ExecutionIsStutter, RefInvHolds
<1>3. RefInv /\ TriggerIsClear /\ [SagNext]_vars => [Abstract!Next]_(Abstract!vars)
    BY ExecutionIsStutter, NextIsSearch
<1>4. QED BY <1>1, <1>2, <1>3, PTL DEF SagSpec, ImplementsLayeredSearch, Abstract!Spec

\* Where no job has an abort action, nothing is left to suppose of the steps.
THEOREM RefinesWithoutAborts ==
    ASSUME BranchesAssumption, NoAborts
    PROVE  SagSpec => ImplementsLayeredSearch
<1>1. SagInit => RefInv /\ problem \in Problems /\ Abstract!Init
    BY InitIsRefInv, InitIsSearch DEF SagInit, RefInv, Init
<1>2. RefInv /\ problem \in Problems => TriggerIsClear
    BY ClearWithoutAborts DEF RefInv, Inv
<1>3. problem \in Problems /\ [SagNext]_vars => (problem \in Problems)'
    <2>1. [Next]_explorationVars => UNCHANGED problem
        BY DEF Next, NextDepth, GiveUp, Explore, Dispatch, Done, explorationVars
    <2>2. QED BY <2>1, ExecutionIsStutter
<1>4. RefInv /\ TriggerIsClear /\ [SagNext]_vars => RefInv' /\ [Abstract!Next]_(Abstract!vars)
    BY ExecutionIsStutter, RefInvHolds, NextIsSearch
<1>5. QED BY <1>1, <1>2, <1>3, <1>4, PTL DEF SagSpec, ImplementsLayeredSearch, Abstract!Spec
-----------------------------------------------------------------------------
\* What a schedulable verdict says: every job has reported completion times, and
\* none of them is after the deadline of the job.
OnTime ==
    IsSchedulable => DOMAIN completion = Jobs /\ \A j \in Jobs : completion[j].max <= Deadline(j)

LEMMA ExplorationStep ==
    ASSUME NoAborts
    PROVE  /\ Init => Inv /\ MissInv
           /\ Inv /\ MissInv /\ [Next]_explorationVars => (Inv /\ MissInv)'
<1>1. Init => Inv /\ MissInv
    BY InitKeepsInv DEF Init, Inv, MissInv
<1>2. ASSUME Inv, MissInv, [Next]_explorationVars
      PROVE  (Inv /\ MissInv)'
    <2>1. IInv /\ TriggerIsClear /\ problem \in Problems
        BY <1>2, ClearWithoutAborts DEF Inv
    <2>2. IInv' /\ MissInv'
        BY <1>2, <2>1, NextKeepsInv, NextKeepsMisses
    <2>3. UNCHANGED problem
        BY <1>2 DEF Next, NextDepth, GiveUp, Explore, Dispatch, Done, explorationVars
    <2>4. QED BY <2>1, <2>2, <2>3 DEF Inv
<1>3. QED BY <1>1, <1>2

\* A schedulable verdict of a problem without conditional forks and without
\* abort actions means that every job was reported and on time in every node of
\* the graph.
THEOREM SchedulableIsOnTime ==
    ASSUME NoForks, NoAborts
    PROVE  Spec => []OnTime
<1>1. Spec => []AllJobsReported
    BY AllReported
<1>2. MissInv /\ AllJobsReported => OnTime
    BY DEF MissInv, AllJobsReported, OnTime, IsSchedulable
<1>3. QED BY <1>1, <1>2, ExplorationStep, PTL DEF Spec

-----------------------------------------------------------------------------
(***************************************************************************)
(* The recorded times, without conditional forks: each state of a node     *)
(* records the times of exactly those jobs that others still wait for.     *)
(***************************************************************************)
Awaited(type, scheduled) ==
    {k \in scheduled : \/ Successors(type, k) \ scheduled # {}
                       \/ \E c \in Exclusions(type, k) : c.job \notin scheduled}

Records(pending, s) ==
    DOMAIN s = StateFields /\ \A type \in Types : DOMAIN RecordedTimes(s, type) = pending[type]

IsRecording(n) ==
    /\ \A type \in Types : n.pending[type] = Awaited(type, n.scheduled)
    /\ IsList(n.states)
    /\ \A s \in Range(n.states) : Records(n.pending, s)

\* The expansion under way only refers to states that exist.
HasOptions(e) ==
    /\ \A k \in e.jobs : Options(e.node, k) # {}
    /\ e.left # {} /\ e.left \subseteq Options(e.node, FirstOf(e.jobs))

RecordingInv ==
    /\ \A j \in Jobs : Incompatible(j) = {j}
    /\ \A n \in KeptNodes : IsRecording(n)
    /\ exploring # Idle => HasOptions(exploring)

LEMMA ExclusionsAreMutual ==
    ASSUME DataOK, NEW j \in Jobs, NEW type \in Types, NEW c \in Exclusions(type, j), c.job \in Jobs
    PROVE  \E x \in Exclusions(type, c.job) : x.job = j
<1>1. \A k \in Jobs : Exclusions(type, k) = BuildExclusions(type, k)
    BY DEF DataOK, SpData, Exclusions
<1> DEFINE Binding == {x \in problem.excl : x.type = type /\ (type = "start" => x.delay.max > 0)}
<1>2. \A k : BuildExclusions(type, k) = {[job |-> x.b, delay |-> x.delay] : x \in {y \in Binding : y.a = k}}
                                          \cup {[job |-> x.a, delay |-> x.delay] : x \in {y \in Binding : y.b = k}}
    BY DEF BuildExclusions
<1> HIDE DEF Binding
<1>3. PICK x \in Binding : (x.a = j /\ x.b = c.job) \/ (x.b = j /\ x.a = c.job)
    BY <1>1, <1>2
<1>4. [job |-> j, delay |-> x.delay] \in BuildExclusions(type, c.job)
    BY <1>2, <1>3
<1>5. QED BY <1>1, <1>4

LEMMA AwaitedAfter ==
    ASSUME DataOK, BranchesAreClosed, NEW S, IsClosed(S), NEW j \in MayCome(S), Incompatible(j) = {j},
           NEW type \in Types
    PROVE  PendingAfter(Awaited(type, S), type, j, S \cup {j}) = Awaited(type, S \cup {j})
<1> DEFINE T == S \cup {j}
           Unscheduled(k) == \/ Successors(type, k) \ T # {}
                             \/ \E c \in Exclusions(type, k) : c.job \notin T
           Waiting(k) == Successors(type, k) # {} \/ \E c \in Exclusions(type, k) : c.job \notin T
<1>1. j \in Jobs /\ j \notin S /\ S \in SUBSET Jobs
    BY DEF MayCome, IsClosed
<1>2. Successors(type, j) \cap T = {}
    <2>1. Successors(type, j) \subseteq SuccessorsOf(j)
        BY <1>1, ConstraintFacts DEF SuccessorsOf
    <2>2. SuccessorsOf(j) \subseteq Descendants(j)
        BY <1>1, DescendantsFacts
    <2>3. Descendants(j) \cap S = {} /\ j \notin Descendants(j)
        BY <1>1, NothingFollows, BranchFacts DEF IsClosed
    <2>4. QED BY <2>1, <2>2, <2>3
<1>3. Waiting(j) <=> Unscheduled(j)
    BY <1>2
<1>4. IncompatibleWithPendingSuccessors(j) \subseteq {j} /\ (Waiting(j) => j \in IncompatibleWithPendingSuccessors(j))
    <2>1. IncompatibleWithPendingSuccessors(j) \subseteq {j}
        BY <1>1, SiblingFacts
    <2>2. Siblings(j) = {j}
        BY <1>1, SiblingFacts, BranchFacts
    <2>3. /\ IncompatibleWithPendingSuccessors(j) = FindPendingIncompatible(j, Siblings(j))
          /\ \A k \in Jobs : \A x \in Types : Exclusions(x, k) = BuildExclusions(x, k)
        BY <1>1 DEF DataOK, SpData, Siblings, IncompatibleWithPendingSuccessors, Exclusions
    <2>4. ASSUME Waiting(j) PROVE SuccessorsOf(j) # {} \/ \E x \in Types : BuildExclusions(x, j) # {}
        <3>1. Successors(type, j) \subseteq SuccessorsOf(j)
            BY <1>1, ConstraintFacts DEF SuccessorsOf
        <3>2. QED BY <1>1, <2>3, <2>4, <3>1
    <2>5. FindIncompatible(j, {j}) = {j}
        BY DEF FindIncompatible
    <2>6. FindPendingIncompatible(j, {j}) =
            {k \in {j} : (\E x \in Types : BuildExclusions(x, k) # {}) \/ SuccessorsOf(k) # {}}
        BY <2>5 DEF FindPendingIncompatible
    <2> HIDE DEF Waiting
    <2>7. QED BY <2>1, <2>2, <2>3, <2>4, <2>6
<1>5. PendingAfter(Awaited(type, S), type, j, T) =
        IF HasConstraints(type)
        THEN {k \in Awaited(type, S) : Unscheduled(k)}
                \cup {k \in IncompatibleWithPendingSuccessors(j) : Waiting(k)}
        ELSE {}
    BY DEF PendingAfter
<1>6. Awaited(type, T) = {k \in T : Unscheduled(k)}
    BY DEF Awaited
<1>7. \A k \in S : Unscheduled(k) => k \in Awaited(type, S)
    BY DEF Awaited
<1>8. Awaited(type, S) \subseteq S
    BY DEF Awaited
<1>9. ~HasConstraints(type) => \A k \in T : ~Unscheduled(k)
    BY <1>1 DEF HasConstraints
<1> HIDE DEF Unscheduled, Waiting
<1>10. CASE HasConstraints(type)
    <2>1. {k \in Awaited(type, S) : Unscheduled(k)} = {k \in S : Unscheduled(k)}
        BY <1>7, <1>8
    <2>2. {k \in IncompatibleWithPendingSuccessors(j) : Waiting(k)} = {k \in {j} : Unscheduled(k)}
        BY <1>3, <1>4
    <2>3. QED BY <1>5, <1>6, <1>10, <2>1, <2>2
<1>11. CASE ~HasConstraints(type)
    BY <1>5, <1>6, <1>9, <1>11
<1>12. QED BY <1>10, <1>11

\* A dispatch records the job if others wait for it, and forgets those that
\* none waits for any more.
LEMMA RecordsAfterDispatch ==
    ASSUME NEW old, NEW s, Records(old, s), NEW n, NEW j,
           \A type \in Types : n.pending[type] \ {j} \subseteq old[type],
           NEW start, NEW finish, NEW ncores
    PROVE  Records(n.pending, NewState(n, s, j, start, finish, ncores))
<1> DEFINE t == NewState(n, s, j, start, finish, ncores)
           a == StartTimesAfter(s.start, j, start, n.pending["start"])
           b == FinishTimesAfter(s.finish, j, start, finish, n.pending["finish"])
<1>1. /\ DOMAIN s = StateFields /\ DOMAIN s.start = old["start"] /\ DOMAIN s.finish = old["finish"]
      /\ n.pending["start"] \ {j} \subseteq old["start"] /\ n.pending["finish"] \ {j} \subseteq old["finish"]
    BY DEF Records, Types, RecordedTimes
<1>2. DOMAIN t = StateFields /\ t.start = a /\ t.finish = b
    BY <1>1 DEF NewState, WithDispatchTimes, StateFields
<1>3. DOMAIN a = n.pending["start"]
    BY <1>1 DEF StartTimesAfter
<1>4. DOMAIN b = n.pending["finish"]
    BY <1>1 DEF FinishTimesAfter
<1> HIDE DEF t, a, b
<1>5. Records(n.pending, t)
    BY <1>2, <1>3, <1>4 DEF Records, Types, RecordedTimes
<1>6. QED BY <1>5 DEF t

LEMMA RecordsAfterMerge ==
    ASSUME NEW pending, NEW s, Records(pending, s), NEW t, Records(pending, t)
    PROVE  Records(pending, MergeState(s, t))
<1> DEFINE m == MergeState(s, t)
<1>1. DOMAIN s.start = pending["start"] /\ DOMAIN s.finish = pending["finish"]
    BY DEF Records, Types, RecordedTimes
<1>2. DOMAIN m = StateFields /\ m.start = WidenTimes(s.start, t.start) /\ m.finish = WidenTimes(s.finish, t.finish)
    BY DEF MergeState, StateFields
<1>3. DOMAIN WidenTimes(s.start, t.start) = pending["start"] /\ DOMAIN WidenTimes(s.finish, t.finish) = pending["finish"]
    BY <1>1 DEF WidenTimes
<1> HIDE DEF m
<1>4. Records(pending, m)
    BY <1>2, <1>3 DEF Records, Types, RecordedTimes
<1>5. QED BY <1>4 DEF m

LEMMA MergedListRecords ==
    ASSUME NEW pending, NEW states, IsList(states), \A t \in Range(states) : Records(pending, t),
           NEW s, Records(pending, s), \E i \in DOMAIN states : CanMergeWith(states[i], s),
           NEW q, q = MergeStates(states, s)
    PROVE  IsList(q) /\ \A t \in Range(q) : Records(pending, t)
<1> DEFINE S == Range(states)
           Good(t) == Records(pending, t)
<1>1. IsList(q) /\ \E last, chain : last \in Nat /\ IsChain(chain, last, S, s) /\ Range(q) \subseteq S \cup {chain[last]}
    BY MergeStatesIsChain
<1>2. PICK last, chain : last \in Nat /\ IsChain(chain, last, S, s) /\ Range(q) \subseteq S \cup {chain[last]}
    BY <1>1
<1>3. ASSUME NEW t, Good(t), NEW u, Good(u) PROVE Good(MergeState(t, u))
    BY <1>3, RecordsAfterMerge
<1>4. Good(s) /\ \A t \in S : Good(t)
    OBVIOUS
<1> HIDE DEF S, Good
<1>5. Good(chain[last])
    <2> DEFINE Bad == {i \in 0..last : ~Good(chain[i])}
    <2>1. SUFFICES ASSUME Bad # {} PROVE FALSE
        <3>1. last \in 0..last
            BY <1>2
        <3>2. QED BY <1>2, <3>1
    <2>2. Bad \in SUBSET Nat
        BY <1>2
    <2>3. PICK i \in Bad : \A h \in Bad : i <= h
        <3> HIDE DEF Bad
        <3>1. QED BY <2>1, <2>2, LeastNatural
    <2>4. CASE i = 0
        BY <1>2, <1>3, <1>4, <2>3, <2>4 DEF IsChain
    <2>5. CASE i # 0
        <3>1. i \in 1..last /\ i - 1 \in 0..last
            BY <1>2, <2>3, <2>5
        <3>2. Good(chain[i - 1])
            <4>1. i - 1 \notin Bad
                <5>1. i \in Nat /\ ~(i <= i - 1)
                    BY <3>1
                <5> HIDE DEF Bad
                <5>2. QED BY <2>3, <5>1
            <4>2. QED BY <3>1, <4>1
        <3>3. chain[i] = chain[i - 1] \/ \E t \in S : chain[i] = MergeState(chain[i - 1], t)
            BY <1>2, <3>1 DEF IsChain
        <3>4. QED BY <1>3, <1>4, <2>3, <3>2, <3>3
    <2>6. QED BY <2>4, <2>5
<1>6. QED BY <1>1, <1>2, <1>4, <1>5 DEF Good

LEMMA TargetRecords ==
    ASSUME NEW n, DOMAIN n = NodeFields, IsRecording(n), NEW s, Records(n.pending, s),
           NEW m, m \in {AddState(n, s), NewOrMergeState(n, s)}
    PROVE  IsRecording(m)
<1> DEFINE w == WithBounds(n, s)
           can == \E i \in DOMAIN n.states : CanMergeWith(n.states[i], s)
           Holds(q) == IsList(q) /\ \A t \in Range(q) : Records(n.pending, t)
<1>1. /\ DOMAIN w = NodeFields
      /\ w.scheduled = n.scheduled /\ w.pending = n.pending /\ w.states = n.states
    BY DEF WithBounds, NodeFields
<1>2. AddState(n, s) = [w EXCEPT !.states = Append(n.states, s)]
    BY <1>1 DEF AddState
<1>3. NewOrMergeState(n, s) = IF can THEN [w EXCEPT !.states = MergeStates(n.states, s)] ELSE AddState(n, s)
    BY <1>1 DEF NewOrMergeState
<1>4. Holds(n.states)
    BY DEF IsRecording
<1>5. Holds(Append(n.states, s))
    BY <1>4, AppendedFacts
<1>6. ASSUME can PROVE Holds(MergeStates(n.states, s))
    <2>1. PICK q : q = MergeStates(n.states, s)
        OBVIOUS
    <2>2. Holds(q)
        BY <1>4, <1>6, <2>1, MergedListRecords
    <2>3. QED BY <2>1, <2>2
<1> HIDE DEF w, can, Holds
<1>7. PICK q : m = [w EXCEPT !.states = q] /\ Holds(q)
    BY <1>2, <1>3, <1>5, <1>6
<1>8. m.scheduled = n.scheduled /\ m.pending = n.pending /\ m.states = q
    BY <1>1, <1>7 DEF NodeFields
<1>9. QED BY <1>7, <1>8 DEF IsRecording, Holds

LEMMA SameRecording ==
    ASSUME UNCHANGED Data
    PROVE  /\ \A n : IsRecording(n)' <=> IsRecording(n)
           /\ \A e : HasOptions(e)' <=> HasOptions(e)
<1>1. \A type, S : Awaited(type, S)' = Awaited(type, S)
    BY DEF Data, Awaited, Successors, Exclusions
<1>2. ASSUME NEW n PROVE IsRecording(n)' <=> IsRecording(n)
    BY <1>1 DEF IsRecording
<1>3. ASSUME NEW e PROVE HasOptions(e)' <=> HasOptions(e)
    <2>1. \A k : Options(e.node, k)' = Options(e.node, k)
        BY SameOptions
    <2>2. FirstOf(e.jobs)' = FirstOf(e.jobs)
        BY SameOptions
    <2>3. Options(e.node, FirstOf(e.jobs))' = Options(e.node, FirstOf(e.jobs))
        BY <2>1, <2>2
    <2>4. QED BY <2>1, <2>3 DEF HasOptions
<1>4. QED BY <1>2, <1>3

LEMMA InitIsRecording ==
    ASSUME NoForks, Init
    PROVE  LayersInv /\ RecordingInv
<1>1. DataOK /\ problem \in Problems
    BY ProblemsAssumption DEF Init, DataOK
<1>2. LayersInv /\ \A j \in Jobs : Incompatible(j) = {j}
    BY <1>1, WithoutForks, InitIsReported
<1>3. DOMAIN InitialNode = NodeFields /\ IsRecording(InitialNode)
    <2>1. /\ DOMAIN InitialNode = NodeFields /\ InitialNode.scheduled = {}
          /\ InitialNode.pending = [type \in Types |-> {}] /\ InitialNode.states = <<>>
        BY DEF InitialNode, NodeFields
    <2>2. \A type \in Types : Awaited(type, {}) = {}
        BY DEF Awaited
    <2>3. QED BY <2>1, <2>2, EmptyList DEF IsRecording
<1>4. Records(InitialNode.pending, InitialState)
    <2>1. InitialNode.pending = [type \in Types |-> {}]
        BY DEF InitialNode
    <2>2. DOMAIN InitialState = StateFields /\ InitialState.start = <<>> /\ InitialState.finish = <<>>
        BY DEF InitialState, StateFields
    <2>3. QED BY <2>1, <2>2, EmptyList DEF Records, RecordedTimes
<1>5. IsRecording(AddState(InitialNode, InitialState))
    <2>1. PICK m : m = AddState(InitialNode, InitialState)
        OBVIOUS
    <2>2. QED BY <1>3, <1>4, <2>1, TargetRecords
<1>6. KeptNodes = {AddState(InitialNode, InitialState)} /\ exploring = Idle
    BY <1>1, InitialNodeIsKept DEF Init
<1>7. QED BY <1>2, <1>5, <1>6 DEF RecordingInv

LEMMA ExploreIsRecording ==
    ASSUME LayersInv, RecordingInv, NEW i \in DOMAIN ExplorationFront, Explore(i)
    PROVE  RecordingInv'
<1> DEFINE n == ExplorationFront[i]
           jobs == {j \in Candidates(n) : Options(n, j) # {}}
           e == [node |-> n, jobs |-> jobs, left |-> Options(n, FirstOf(jobs)), next |-> 0]
<1>1. UNCHANGED Data /\ exploring' = IF jobs = {} THEN Idle ELSE e
    BY DEF Explore, Data, ExplorationFront
<1>2. Jobs' = Jobs /\ \A j : Incompatible(j)' = Incompatible(j)
    BY <1>1, SameData DEF Data, Incompatible
<1>3. KeptNodes' \subseteq KeptNodes
    BY ExploreKeepsNodes
<1>4. jobs # {} => HasOptions(e)
    <2>1. n \in Range(ExplorationFront)
        BY FrontFacts, ListFacts DEF IsPlaced
    <2>2. jobs \in SUBSET Jobs
        BY <2>1, FrontFacts, CandidatesMayCome DEF IsPlaced, LayersInv, MayCome
    <2>3. jobs # {} => FirstOf(jobs) \in jobs
        BY <2>2, FirstOfFacts DEF LayersInv
    <2>4. \A k \in jobs : Options(n, k) # {}
        OBVIOUS
    <2> HIDE DEF jobs, n
    <2>5. QED BY <2>3, <2>4 DEF HasOptions
<1> HIDE DEF jobs, e
<1>5. exploring' # Idle' => HasOptions(exploring)'
    <2>1. PICK x : x = exploring'
        OBVIOUS
    <2>2. x # Idle => HasOptions(x)'
        BY <1>1, <1>4, <2>1, SameRecording
    <2>3. Idle' = Idle
        BY DEF Idle
    <2>4. QED BY <2>1, <2>2, <2>3
<1>6. \A x \in KeptNodes' : IsRecording(x)'
    BY <1>1, <1>3, SameRecording DEF RecordingInv
<1>7. QED BY <1>2, <1>5, <1>6 DEF RecordingInv

\* The node that a dispatch leads to was kept before, or follows the node that
\* is expanded.
LEMMA TargetIsKeptOrNew ==
    ASSUME LayersInv, exploring # Idle
    PROVE  TargetLayer[Place] \in KeptNodes \cup {NextNode(exploring.node, CurrentJob)}
<1> DEFINE layer == nodes[TargetDepth]
           x == NextNode(exploring.node, CurrentJob)
<1>1. TargetDepth \in DOMAIN nodes /\ Place \in DOMAIN TargetLayer /\ IsList(TargetLayer) /\ IsList(layer)
    BY PlainTarget DEF IsPlaced, LayersInv
<1>2. CASE Found # 0
    <2>1. TargetLayer = layer
        BY <1>2 DEF TargetLayer
    <2>2. TargetLayer[Place] \in NodesOf(TargetDepth)
        BY <1>1, <2>1, ListFacts DEF NodesOf
    <2>3. QED BY <1>1, <2>2 DEF KeptNodes
<1>3. CASE Found = 0
    <2>1. TargetLayer = Append(layer, x) /\ Place = Len(TargetLayer)
        BY <1>3 DEF TargetLayer, Place
    <2> HIDE DEF x
    <2>2. TargetLayer[Place] = x
        BY <1>1, <2>1, AppendedFacts
    <2>3. QED BY <2>2 DEF x
<1>4. QED BY <1>2, <1>3

LEMMA NewNodeRecords ==
    ASSUME DataOK, BranchesAreClosed, NEW n, PlainNode(n), IsRecording(n),
           NEW j \in MayCome(n.scheduled), Incompatible(j) = {j}
    PROVE  IsRecording(NextNode(n, j))
<1> DEFINE w == NextNode(n, j)
           S == n.scheduled
           T == n.scheduled \cup {j}
<1>1. /\ w.scheduled = T /\ w.states = <<>>
      /\ w.pending = [type \in Types |-> PendingAfter(n.pending[type], type, j, T)]
    BY DEF NextNode
<1>2. IsClosed(S)
    BY DEF PlainNode
<1>3. ASSUME NEW type \in Types PROVE w.pending[type] = Awaited(type, T)
    <2>1. n.pending[type] = Awaited(type, S)
        BY DEF IsRecording
    <2>2. PendingAfter(Awaited(type, S), type, j, T) = Awaited(type, T)
        BY <1>2, AwaitedAfter
    <2>3. QED BY <1>1, <2>1, <2>2
<1> HIDE DEF w, T
<1>4. QED BY <1>1, <1>3, EmptyList DEF IsRecording, w

LEMMA DispatchedIsRecording ==
    ASSUME LayersInv, RecordingInv, exploring # Idle
    PROVE  /\ IsRecording(Target) /\ CurrentOption \in exploring.left
<1> DEFINE n == exploring.node
           j == CurrentJob
           w == TargetLayer[Place]
<1>1. /\ DataOK /\ BranchesAreClosed /\ PlainNode(n) /\ n \in KeptNodes /\ IsRecording(n)
      /\ HasOptions(exploring) /\ j \in Jobs /\ j \in MayCome(n.scheduled) /\ Incompatible(j) = {j}
    BY PlainTarget DEF LayersInv, RecordingInv, Expanding, KeptNodes
<1>2. CurrentOption \in exploring.left /\ CurrentState \in Range(n.states)
    <2>1. exploring.left # {} /\ exploring.left \subseteq Options(n, j) /\ IsList(n.states)
        BY <1>1 DEF HasOptions, CurrentJob, IsRecording
    <2>2. PICK e : e = exploring
        OBVIOUS
    <2>3. QED BY <1>1, <2>1, <2>2, CurrentOptionFacts
<1>3. IsRecording(w) /\ DOMAIN w = NodeFields /\ w.scheduled = n.scheduled \cup {j}
    <2>1. w \in KeptNodes \cup {NextNode(n, j)}
        BY TargetIsKeptOrNew
    <2>2. IsRecording(NextNode(n, j))
        BY <1>1, NewNodeRecords
    <2>3. IsPlaced(TargetLayer, TargetDepth) /\ Place \in DOMAIN TargetLayer /\ w.scheduled = n.scheduled \cup {j}
        BY <1>1, PlainTarget
    <2>4. PlainNode(w)
        BY <2>3, ListFacts DEF IsPlaced
    <2> HIDE DEF w, n, j
    <2>5. QED BY <2>1, <2>2, <2>3, <2>4 DEF RecordingInv, PlainNode
<1>4. Records(n.pending, CurrentState)
    BY <1>1, <1>2 DEF IsRecording
<1>5. \A type \in Types : w.pending[type] \ {j} \subseteq n.pending[type]
    <2>1. \A type \in Types : /\ w.pending[type] = Awaited(type, n.scheduled \cup {j})
                              /\ n.pending[type] = Awaited(type, n.scheduled)
        BY <1>1, <1>3 DEF IsRecording
    <2>2. \A type : Awaited(type, n.scheduled \cup {j}) \ {j} \subseteq Awaited(type, n.scheduled)
        BY DEF Awaited
    <2>3. QED BY <2>1, <2>2
<1> DEFINE s == NewState(w, CurrentState, j, StartTimes, FinishTimes, CurrentOption[2])
<1>6. Target = NewOrMergeState(w, s)
    BY DEF Target
<1> HIDE DEF n, j, w
<1>7. Records(w.pending, s)
    BY <1>4, <1>5, RecordsAfterDispatch
<1> HIDE DEF s
<1>8. PICK m : m = Target
    OBVIOUS
<1>9. m \in {AddState(w, s), NewOrMergeState(w, s)}
    BY <1>6, <1>8
<1>10. IsRecording(m)
    BY <1>3, <1>7, <1>9, TargetRecords
<1>11. QED BY <1>2, <1>8, <1>10

LEMMA DispatchIsRecording ==
    ASSUME LayersInv, RecordingInv, Dispatch
    PROVE  RecordingInv'
<1> DEFINE e == exploring
           j == CurrentJob
           missed == observed_deadline_miss \/ Misses(j, FinishTimes)
           last == exploring.left = {CurrentOption}
           late == IF EarlyExit /\ (Naive \/ (last /\ ~missed)) THEN GuaranteedMiss(e.node, Target) ELSE {}
           over == last \/ missed \/ late # {}
           rest == exploring.jobs \ {j}
           same == [exploring EXCEPT !.left = @ \ {CurrentOption}, !.next = Place]
           next == [exploring EXCEPT !.jobs = rest, !.next = 0,
                                     !.left = Options(exploring.node, FirstOf(rest))]
<1>1. exploring # Idle /\ UNCHANGED Data
    BY DEF Dispatch, Data
<1>2. /\ IsRecording(Target) /\ CurrentOption \in e.left
      /\ DOMAIN e = {"node", "jobs", "left", "next"} /\ HasOptions(e) /\ e.jobs \in SUBSET Jobs
    BY <1>1, DispatchedIsRecording DEF LayersInv, RecordingInv, Expanding, MayCome
<1>3. Jobs' = Jobs /\ \A k : Incompatible(k)' = Incompatible(k)
    BY <1>1, SameData DEF Data, Incompatible
<1>4. KeptNodes' \subseteq KeptNodes \cup {Target}
    BY DispatchAddsTarget
<1>5. exploring' = IF ~over THEN same ELSE IF rest = {} THEN Idle ELSE next
    BY DEF Dispatch
<1> HIDE DEF missed, late
<1>6. ~over => HasOptions(same)
    <2>1. /\ same.node = e.node /\ same.jobs = e.jobs /\ same.left = e.left \ {CurrentOption}
        BY <1>2
    <2>2. ~over => e.left \ {CurrentOption} # {}
        BY <1>2
    <2> HIDE DEF same, over
    <2>3. QED BY <1>2, <2>1, <2>2 DEF HasOptions
<1>7. rest # {} => HasOptions(next)
    <2>1. next.node = e.node /\ next.jobs = rest /\ next.left = Options(e.node, FirstOf(rest))
        BY <1>2
    <2>2. rest # {} => FirstOf(rest) \in rest
        BY <1>2, FirstOfFacts DEF LayersInv
    <2>3. \A k \in rest : Options(e.node, k) # {}
        BY <1>2 DEF HasOptions
    <2> HIDE DEF next, rest
    <2>4. QED BY <2>1, <2>2, <2>3 DEF HasOptions
<1> HIDE DEF over, same, next, rest
<1>8. exploring' # Idle' => HasOptions(exploring)'
    <2>1. PICK x : x = exploring'
        OBVIOUS
    <2>2. x # Idle => HasOptions(x)
        BY <1>5, <1>6, <1>7, <2>1
    <2>3. Idle' = Idle
        BY DEF Idle
    <2>4. QED BY <1>1, <2>1, <2>2, <2>3, SameRecording
<1>9. \A x \in KeptNodes' : IsRecording(x)'
    BY <1>1, <1>2, <1>4, SameRecording DEF RecordingInv
<1>10. QED BY <1>3, <1>8, <1>9 DEF RecordingInv

LEMMA StutterIsRecording ==
    ASSUME RecordingInv, UNCHANGED Data, UNCHANGED <<nodes, exploring>>
    PROVE  RecordingInv'
<1>1. Jobs' = Jobs /\ \A j : Incompatible(j)' = Incompatible(j)
    BY SameData DEF Data, Incompatible
<1>2. KeptNodes' = KeptNodes /\ Idle' = Idle
    BY DEF KeptNodes, NodesOf, Idle
<1>3. \A x \in KeptNodes' : IsRecording(x)'
    BY <1>2, SameRecording DEF RecordingInv
<1>4. exploring' # Idle' => HasOptions(exploring)'
    <2>1. PICK x : x = exploring
        OBVIOUS
    <2>2. x # Idle => HasOptions(x)'
        BY <2>1, SameRecording DEF RecordingInv
    <2>3. QED BY <1>2, <2>1, <2>2
<1>5. QED BY <1>1, <1>3, <1>4 DEF RecordingInv

LEMMA NextIsRecording ==
    ASSUME LayersInv, RecordingInv, [Next]_explorationVars
    PROVE  RecordingInv'
<1>1. CASE NextDepth
    BY <1>1, StutterIsRecording DEF NextDepth, Data
<1>2. CASE GiveUp
    BY <1>2, StutterIsRecording DEF GiveUp, Data
<1>3. CASE \E i \in DOMAIN ExplorationFront : Explore(i)
    BY <1>3, ExploreIsRecording
<1>4. CASE Dispatch
    BY <1>4, DispatchIsRecording
<1>5. CASE Done
    BY <1>5, StutterIsRecording DEF Done, explorationVars, Data
<1>6. CASE UNCHANGED explorationVars
    BY <1>6, StutterIsRecording DEF explorationVars, Data
<1>7. QED BY <1>1, <1>2, <1>3, <1>4, <1>5, <1>6 DEF Next

\* A job that may come next finds the times of its predecessors, and of the
\* dispatched jobs that it excludes.
LEMMA AwaitedAreRecorded ==
    ASSUME DataOK, NEW n, IsRecording(n), n.scheduled \in SUBSET Jobs, NEW s \in Range(n.states),
           NEW type \in Types, NEW j \in Jobs \ n.scheduled
    PROVE  /\ PredecessorsOf(j) \subseteq n.scheduled =>
                \A c \in Predecessors(type, j) : IsRecorded(s, type, c.job)
           /\ \A c \in BindingExclusions(n, type, j) : IsRecorded(s, type, c.job)
<1>1. DOMAIN RecordedTimes(s, type) = Awaited(type, n.scheduled)
    BY DEF IsRecording, Records
<1>2. ASSUME PredecessorsOf(j) \subseteq n.scheduled, NEW c \in Predecessors(type, j)
      PROVE  IsRecorded(s, type, c.job)
    <2>1. PICK e \in problem.prec : e.type = type /\ e.to = j /\ c.job = e.from
        BY <1>2, ConstraintFacts
    <2>2. e.from \in n.scheduled /\ e.from \in Jobs
        BY <1>2, <2>1 DEF PredecessorsOf
    <2>3. j \in Successors(type, e.from)
        BY <2>1, <2>2, ConstraintFacts
    <2>4. e.from \in Awaited(type, n.scheduled)
        BY <2>2, <2>3 DEF Awaited
    <2>5. QED BY <1>1, <2>1, <2>4 DEF IsRecorded
<1>3. ASSUME NEW c \in BindingExclusions(n, type, j) PROVE IsRecorded(s, type, c.job)
    <2>1. c \in Exclusions(type, j) /\ c.job \in n.scheduled /\ c.job \in Jobs
        BY <1>3 DEF BindingExclusions
    <2>2. PICK x \in Exclusions(type, c.job) : x.job = j
        BY <2>1, ExclusionsAreMutual
    <2>3. c.job \in Awaited(type, n.scheduled)
        BY <2>1, <2>2 DEF Awaited
    <2>4. QED BY <1>1, <2>3 DEF IsRecorded
<1>4. QED BY <1>2, <1>3

LEMMA RecordingSuffices ==
    ASSUME LayersInv, RecordingInv
    PROVE  RecordedTimesSuffice /\ AskedFinishTimesAreRecorded
<1>1. ASSUME NEW n \in KeptNodes, NEW s \in StatesOf(n)
      PROVE  /\ \A j \in n.ready : ~LacksPredecessor(s, j)
             /\ \A j \in n.ready : IsJoin(j) => PrecedenceTimes(s, j) # {}
             /\ \A type \in Types : \A j \in Jobs \ n.scheduled : \A c \in BindingExclusions(n, type, j) :
                    IsRecorded(s, type, c.job)
             /\ \A j \in n.ready : \A c \in Predecessors("finish", j) : IsRecorded(s, "finish", c.job)
    <2>1. /\ DataOK /\ n.ready = ReadyAfter(n.scheduled) /\ n.scheduled \in SUBSET Jobs
          /\ IsRecording(n) /\ s \in Range(n.states)
        BY KeptArePlain DEF PlainNode, IsClosed, LayersInv, RecordingInv, StatesOf
    <2>2. \A j \in n.ready : \A type \in Types : \A c \in Predecessors(type, j) : IsRecorded(s, type, c.job)
        BY <2>1, AwaitedAreRecorded DEF ReadyAfter, MayCome
    <2>3. \A type \in Types : \A j \in Jobs \ n.scheduled : \A c \in BindingExclusions(n, type, j) :
                    IsRecorded(s, type, c.job)
        BY <2>1, AwaitedAreRecorded
    <2>4. ASSUME NEW j \in n.ready PROVE PrecedenceTimes(s, j) # {}
        <3>1. j \in Jobs /\ PredecessorsOf(j) # {}
            BY <2>1 DEF ReadyAfter, MayCome
        <3>2. PICK e \in problem.prec : e.to = j
            BY <3>1 DEF PredecessorsOf
        <3>3. e.type \in Types
            BY <2>1 DEF DataOK, IsProblem
        <3>4. PICK type \in Types : type = e.type
            BY <3>3
        <3>5. PICK c \in Predecessors(type, j) : c.job = e.from
            <4>1. Predecessors(type, j) =
                    {[job |-> x.from, delay |-> x.delay] : x \in {y \in problem.prec : y.type = type /\ y.to = j}}
                BY <2>1, <3>1, ConstraintFacts
            <4>2. [job |-> e.from, delay |-> e.delay] \in Predecessors(type, j)
                BY <3>2, <3>4, <4>1
            <4>3. QED BY <4>2
        <3>6. c \in RecordedConstraints(s, type, Predecessors(type, j))
            BY <2>2 DEF RecordedConstraints
        <3>7. Satisfied(s, type, RecordedConstraints(s, type, Predecessors(type, j))) # {}
            BY <3>6 DEF Satisfied
        <3>8. QED BY <3>7 DEF PrecedenceTimes
    <2>5. QED BY <2>2, <2>3, <2>4 DEF LacksPredecessor, Types
<1>2. RecordedTimesSuffice
    BY <1>1 DEF RecordedTimesSuffice
<1>3. AskedFinishTimesAreRecorded
    BY <1>1 DEF AskedFinishTimesAreRecorded
<1>4. QED BY <1>2, <1>3

LEMMA RecordingHolds ==
    ASSUME NoForks
    PROVE  Spec => [](LayersInv /\ RecordingInv)
<1>1. Init => LayersInv /\ RecordingInv
    BY InitIsRecording
<1>2. LayersInv /\ RecordingInv /\ [Next]_explorationVars => LayersInv' /\ RecordingInv'
    BY NextKeepsLayers, NextIsRecording
<1>3. QED BY <1>1, <1>2, PTL DEF Spec

\* Where no job is conditional, the times that a state keeps are those that the
\* dispatch of another job will ask for: of the predecessors of the ready jobs
\* and of the dispatched jobs that they exclude (pending_successors_tracker.hpp,
\* start_times_tracker.hpp, finish_times_tracker.hpp).
THEOREM RecordedTimesHold ==
    ASSUME NoForks
    PROVE  Spec => []RecordedTimesSuffice
<1>1. LayersInv /\ RecordingInv => RecordedTimesSuffice
    BY RecordingSuffices
<1>2. QED BY <1>1, RecordingHolds, PTL

\* There the assertion of certainly_finished holds too (state.hpp:651): it is
\* asked only about jobs whose finish times the state keeps.
THEOREM AskedTimesHold ==
    ASSUME NoForks
    PROVE  Spec => []AskedFinishTimesAreRecorded
<1>1. LayersInv /\ RecordingInv => AskedFinishTimesAreRecorded
    BY RecordingSuffices
<1>2. QED BY <1>1, RecordingHolds, PTL

-----------------------------------------------------------------------------
(***************************************************************************)
(* Soundness for jobs that do not depend on each other.                    *)
(***************************************************************************)

\* The jobs are related neither by precedence nor by exclusion, none of them is
\* conditional, and none is aborted.
Independent ==
    /\ problem.prec = {} /\ problem.excl = {} /\ DOMAIN problem.abort = {}
    /\ \A j \in Jobs : problem.job[j].type \notin {"C_FORK", "C_JOIN"}

\* The times of the problem are less than the largest value of their type.
Bounded ==
    /\ \A j \in Jobs : Arrival(j).max < Infinity /\ Deadline(j) < Infinity
    /\ \A c \in 1..NumCores : problem.platform[c].max < Infinity

\* When a gang job has certainly arrived, the cores that it needs have certainly
\* become available: the initial state supposes it (state.hpp:114).
GangsFit ==
    \A j \in Jobs : MinParallelism(j) > 1 =>
        Cardinality({c \in 1..NumCores : problem.platform[c].max <= Arrival(j).max})
            >= MinParallelism(j)

Simple == Independent /\ Bounded /\ GangsFit

LEMMA SimpleFacts ==
    ASSUME DataOK, Simple
    PROVE  /\ \A j \in Jobs :
                /\ Incompatible(j) = {j} /\ MustBeFinished(j) = {} /\ ~IsJoin(j)
                /\ \A type \in Types : Predecessors(type, j) = {} /\ Exclusions(type, j) = {}
                /\ PredecessorsOf(j) = {}
           /\ SuccessorJobs = {} /\ MutexSourceJobs = {} /\ SourceJobs = Jobs
           /\ SequentialIndependentJobs = {j \in Jobs : MinParallelism(j) = 1}
           /\ GangIndependentJobs = {j \in Jobs : MinParallelism(j) > 1}
           /\ BranchesAreClosed
           /\ Infinity \in Nat \ {0}
<1>1. problem.prec = {} /\ problem.excl = {} /\ \A j \in Jobs : ~IsFork(j) /\ ~IsJoin(j)
    BY DEF Simple, Independent, IsFork, IsJoin
<1>2. ASSUME NEW j \in Jobs
      PROVE  /\ Incompatible(j) = {j}
             /\ \A type \in Types : Predecessors(type, j) = {} /\ Exclusions(type, j) = {}
             /\ Siblings(j) = {j}
    <2>1. BuildSiblings(j) = {j}
        BY <1>1 DEF BuildSiblings
    <2>2. Siblings(j) = {j} /\ Incompatible(j) = {j}
        BY <2>1 DEF DataOK, SpData, Siblings, Incompatible, FindIncompatible
    <2>3. ASSUME NEW type \in Types PROVE Predecessors(type, j) = {} /\ Exclusions(type, j) = {}
        <3>1. BuildPredecessors(type, j) = {} /\ BuildExclusions(type, j) = {}
            BY <1>1 DEF BuildPredecessors, BuildExclusions
        <3>2. QED BY <3>1 DEF DataOK, SpData, Predecessors, Exclusions
    <2>4. QED BY <2>2, <2>3
<1>3. "start" \in Types /\ "finish" \in Types
    BY DEF Types
<1>4. ASSUME NEW j \in Jobs PROVE MustBeFinished(j) = {} /\ PredecessorsOf(j) = {}
    BY <1>1, <1>2, <1>3 DEF MustBeFinished, PredecessorsOf
<1>5. SuccessorJobs = {} /\ Excluding = {} /\ MutexSourceJobs = {} /\ SourceJobs = Jobs
    BY <1>1, <1>2, <1>3 DEF SuccessorJobs, Excluding, MutexSourceJobs, SourceJobs
<1>6. /\ SequentialIndependentJobs = {j \in Jobs : MinParallelism(j) = 1}
      /\ GangIndependentJobs = {j \in Jobs : MinParallelism(j) > 1}
    BY <1>5 DEF SequentialIndependentJobs, GangIndependentJobs
<1>7. BranchesAreClosed
    BY <1>1, <1>2 DEF BranchesAreClosed
<1>8. Infinity \in Nat \ {0}
    <2>1. 1 \in 1..NumCores /\ problem.platform[1].max \in Nat
        BY ProblemFacts, IntervalType
    <2>2. problem.platform[1].max < Infinity
        BY <2>1 DEF Simple, Bounded
    <2>3. QED BY <2>1, <2>2, ProblemsAssumption
<1>9. QED BY <1>1, <1>2, <1>4, <1>5, <1>6, <1>7, <1>8
-----------------------------------------------------------------------------
(***************************************************************************)
(* Executions.  An execution e is what the arrivals are, the jobs          *)
(* dispatched, when each core becomes free, and when the last dispatch     *)
(* was.                                                                    *)
(***************************************************************************)
Cores == 1..NumCores

\* The job k could be dispatched at t.
Fits(e, k, t) ==
    /\ k \in Jobs \ e.scheduled /\ e.arrival[k] <= t
    /\ MinParallelism(k) <= Cardinality(FreeAt(Cores, e.free, t))

NothingBefore(e, t) == \A u \in Nat : u < t => \A k \in Jobs : ~Fits(e, k, u)

\* The scheduler does not leave cores idle: when it dispatches, no job could
\* have been dispatched before.
Execs ==
    {e \in [arrival : [Jobs -> Nat], scheduled : SUBSET Jobs, free : [Cores -> Nat], now : Nat] :
        /\ \A j \in Jobs : Arrival(j).min <= e.arrival[j] /\ e.arrival[j] <= Arrival(j).max
        /\ NothingBefore(e, e.now)}

\* The next dispatch is that of j, at t and on p cores.
Chosen(e, j, t, p) ==
    /\ Fits(e, j, t) /\ NothingBefore(e, t)
    /\ \A k \in Jobs \ {j} : Fits(e, k, t) => HigherPriority(j, k)
    /\ p \in Parallelism(j) /\ p <= Cardinality(FreeAt(Cores, e.free, t))
    /\ \A q \in Parallelism(j) : q <= Cardinality(FreeAt(Cores, e.free, t)) => q <= p

\* It is run on the cores of S, and completes at x.
Runs(e, j, t, p, S, x) ==
    /\ Chosen(e, j, t, p)
    /\ S \in SUBSET FreeAt(Cores, e.free, t) /\ Cardinality(S) = p
    /\ t + Cost(j)[p].min <= x /\ x <= t + Cost(j)[p].max

Then(e, j, t, S, x) ==
    [arrival |-> e.arrival, scheduled |-> e.scheduled \cup {j},
     free |-> [c \in Cores |-> IF c \in S THEN x ELSE e.free[c]], now |-> t]

LEMMA CoresFacts ==
    ASSUME DataOK
    PROVE  NumCores \in Nat \ {0} /\ IsFiniteSet(Cores) /\ Cardinality(Cores) = NumCores
<1>1. NumCores \in Nat /\ NumCores > 0
    BY ProblemFacts
<1>2. PICK m \in Nat : m = NumCores
    BY <1>1
<1>3. IsFiniteSet(1..m) /\ Cardinality(1..m) = m
    <2>1. Cardinality(1..m) = IF 1 > m THEN 0 ELSE m - 1 + 1
        BY FS_Interval
    <2>2. IsFiniteSet(1..m)
        BY FS_Interval
    <2>3. m > 0
        BY <1>1, <1>2
    <2>4. QED BY <2>1, <2>2, <2>3
<1>4. QED BY <1>1, <1>2, <1>3 DEF Cores

LEMMA ExecFacts ==
    ASSUME DataOK, NEW e \in Execs
    PROVE  /\ e.arrival \in [Jobs -> Nat] /\ e.scheduled \in SUBSET Jobs
           /\ e.free \in [Cores -> Nat] /\ e.now \in Nat
           /\ \A j \in Jobs : /\ e.arrival[j] \in Nat
                              /\ Arrival(j).min <= e.arrival[j] /\ e.arrival[j] <= Arrival(j).max
           /\ NothingBefore(e, e.now)
BY DEF Execs

\* The number of free cores only grows with time.
LEMMA FreeFacts ==
    ASSUME DataOK, NEW h \in [Cores -> Nat], NEW t \in Int
    PROVE  /\ Cardinality(FreeAt(Cores, h, t)) \in 0..NumCores
           /\ \A u \in Int : t <= u => Cardinality(FreeAt(Cores, h, t)) <= Cardinality(FreeAt(Cores, h, u))
<1>1. NumCores \in Nat \ {0} /\ IsFiniteSet(Cores) /\ Cardinality(Cores) = NumCores
    BY CoresFacts
<1>2. FreeAt(Cores, h, t) \in SUBSET Cores
    BY DEF FreeAt
<1>3. Cardinality(FreeAt(Cores, h, t)) \in 0..NumCores
    <2>1. Cardinality(FreeAt(Cores, h, t)) \in Nat /\ Cardinality(FreeAt(Cores, h, t)) <= NumCores
        BY <1>1, <1>2, SubsetSizes
    <2>2. QED BY <1>1, <2>1
<1>4. ASSUME NEW u \in Int, t <= u
      PROVE  Cardinality(FreeAt(Cores, h, t)) <= Cardinality(FreeAt(Cores, h, u))
    <2>1. FreeAt(Cores, h, u) \in SUBSET Cores /\ FreeAt(Cores, h, t) \subseteq FreeAt(Cores, h, u)
        BY <1>4 DEF FreeAt
    <2>2. QED BY <1>1, <1>2, <2>1, SubsetSizes
<1>5. QED BY <1>3, <1>4

\* The job that is dispatched next comes before or with every job that fits.
LEMMA ChosenIsFirst ==
    ASSUME DataOK, NEW e \in Execs, NEW j, NEW t \in Nat, NEW p, Chosen(e, j, t, p)
    PROVE  /\ e.now <= t /\ j \in Jobs /\ j \notin e.scheduled
           /\ p \in Cores /\ MinParallelism(j) <= p
           /\ \A u \in Nat : \A k \in Jobs : Fits(e, k, u) => t <= u
           /\ \A k \in Jobs : Fits(e, k, t) => ~HigherPriority(k, j)
<1>1. Fits(e, j, t) /\ j \in Jobs /\ j \notin e.scheduled
    BY DEF Chosen, Fits
<1>2. e.now \in Nat /\ NothingBefore(e, e.now)
    BY ExecFacts
<1>3. e.now <= t
    BY <1>1, <1>2 DEF NothingBefore
<1>4. p \in Cores /\ MinParallelism(j) <= p
    <2>1. /\ MinParallelism(j) \in Parallelism(j) /\ Parallelism(j) \in SUBSET (1..NumCores)
          /\ IsFiniteSet(Parallelism(j))
        BY <1>1, JobFacts
    <2>2. p \in Parallelism(j)
        BY DEF Chosen
    <2>3. Parallelism(j) \in SUBSET Int /\ Parallelism(j) # {}
        BY <2>1
    <2>4. Min(Parallelism(j)) <= p
        BY <2>1, <2>2, <2>3, MinFacts
    <2>5. QED BY <2>1, <2>2, <2>4 DEF Cores, MinParallelism
<1>5. ASSUME NEW u \in Nat, NEW k \in Jobs, Fits(e, k, u) PROVE t <= u
    BY <1>5 DEF Chosen, NothingBefore
<1>6. ASSUME NEW k \in Jobs, Fits(e, k, t) PROVE ~HigherPriority(k, j)
    <2>1. CASE k = j
        BY <1>1, <2>1, PriorityOrder
    <2>2. CASE k # j
        <3>1. HigherPriority(j, k)
            BY <1>6, <2>2 DEF Chosen
        <3>2. QED BY <1>1, <3>1, PriorityOrder
    <2>3. QED BY <2>1, <2>2
<1>7. QED BY <1>1, <1>3, <1>4, <1>5, <1>6

\* What follows an execution is an execution.
LEMMA ThenFacts ==
    ASSUME DataOK, NEW e \in Execs, NEW j, NEW t \in Nat, NEW p, NEW S, NEW x \in Nat,
           Runs(e, j, t, p, S, x), NEW g, g = Then(e, j, t, S, x)
    PROVE  /\ g \in Execs /\ g.arrival = e.arrival /\ g.scheduled = e.scheduled \cup {j}
           /\ g.now = t /\ Ran(Cores, e.free, S, x, g.free)
           /\ t <= x
<1>1. /\ e.arrival \in [Jobs -> Nat] /\ e.scheduled \in SUBSET Jobs
      /\ e.free \in [Cores -> Nat] /\ e.now \in Nat
      /\ \A k \in Jobs : Arrival(k).min <= e.arrival[k] /\ e.arrival[k] <= Arrival(k).max
    BY ExecFacts
<1>2. Chosen(e, j, t, p) /\ j \in Jobs /\ p \in Cores
    BY ChosenIsFirst DEF Runs
<1>4. t <= x
    <2>1. Cost(j)[p] \in Intervals(Nat)
        BY <1>2, JobFacts DEF Chosen
    <2>2. PICK a \in Nat : a = Cost(j)[p].min
        BY <2>1, IntervalType
    <2>3. t + a <= x
        BY <2>2 DEF Runs
    <2>4. QED BY <2>3
<1>5. /\ g \in [arrival : [Jobs -> Nat], scheduled : SUBSET Jobs, free : [Cores -> Nat], now : Nat]
      /\ g.arrival = e.arrival /\ g.scheduled = e.scheduled \cup {j} /\ g.now = t
      /\ g.free = [c \in Cores |-> IF c \in S THEN x ELSE e.free[c]]
    BY <1>1, <1>2 DEF Then
<1>6. ASSUME NEW u \in Nat, u < t, NEW k \in Jobs PROVE ~Fits(g, k, u)
    <2>1. SUFFICES ASSUME Fits(g, k, u) PROVE FALSE
        OBVIOUS
    <2>2. FreeAt(Cores, g.free, u) \subseteq FreeAt(Cores, e.free, u)
        BY <1>1, <1>4, <1>5, <1>6 DEF FreeAt
    <2>3. Cardinality(FreeAt(Cores, g.free, u)) <= Cardinality(FreeAt(Cores, e.free, u))
        <3>1. FreeAt(Cores, g.free, u) \in SUBSET Cores /\ FreeAt(Cores, e.free, u) \in SUBSET Cores
            BY DEF FreeAt
        <3>2. NumCores \in Nat \ {0} /\ IsFiniteSet(Cores) /\ Cardinality(Cores) = NumCores
            BY CoresFacts
        <3>3. QED BY <2>2, <3>1, <3>2, SubsetSizes
    <2>4. k \in Jobs \ e.scheduled /\ e.arrival[k] <= u
        BY <1>5, <2>1 DEF Fits
    <2>5. MinParallelism(k) <= Cardinality(FreeAt(Cores, e.free, u))
        <3>1. MinParallelism(k) <= Cardinality(FreeAt(Cores, g.free, u)) /\ MinParallelism(k) \in Int
            BY <2>1, JobFacts DEF Fits
        <3>2. e.free \in [Cores -> Nat] /\ g.free \in [Cores -> Nat]
            BY <1>1, <1>5
        <3>3. Cardinality(FreeAt(Cores, g.free, u)) \in Int /\ Cardinality(FreeAt(Cores, e.free, u)) \in Int
            BY <3>2, FreeFacts
        <3>4. QED BY <2>3, <3>1, <3>3
    <2>6. Fits(e, k, u)
        BY <2>4, <2>5 DEF Fits
    <2>7. QED BY <1>2, <1>6, <2>6 DEF Chosen, NothingBefore
<1>7. NothingBefore(g, g.now)
    BY <1>5, <1>6 DEF NothingBefore
<1>8. g \in Execs
    BY <1>1, <1>5, <1>7 DEF Execs
<1>9. QED BY <1>4, <1>5, <1>8 DEF Ran
-----------------------------------------------------------------------------
(***************************************************************************)
(* What the nodes know of jobs that do not depend on each other, and the   *)
(* executions that their states stand for.                                 *)
(***************************************************************************)
PendingGangs(n) == GangIndependentJobs \ n.scheduled

KnowsArrivals(n) ==
    /\ n.release = Earliest({Arrival(k).min : k \in Jobs \ n.scheduled})
    /\ n.seq_release = Earliest(LatestArrivals(SequentialIndependentJobs \ n.scheduled))
    /\ n.source_release = Earliest(LatestArrivals(Jobs \ n.scheduled))

\* As long as no job is late, no time of a node is as large as Infinity.
InTime(n) == n.a_max < Infinity /\ (PendingGangs(n) # {} => n.next_gang < Infinity)

\* At the instant that the state keeps for the gang jobs, one of those left has
\* certainly arrived and enough cores have certainly become available for it.
CertainGang(n, s) ==
    s.gang < Infinity =>
        \E k \in PendingGangs(n) :
            Arrival(k).max <= s.gang /\ Avail(s, MinParallelism(k)).max <= s.gang

SoundNode(n) ==
    /\ IsNode(n) /\ n.ready = {} /\ KnowsArrivals(n) /\ InTime(n)
    /\ \A s \in Range(n.states) : s.succ = Infinity /\ s.mutex = Infinity /\ CertainGang(n, s)

\* The state s of node n stands for the execution e.
StandsFor(n, s, e) ==
    n.scheduled = e.scheduled /\ Covered(Cores, NumCores, s.avail, e.free, e.now)

\* q cores are free when they are certainly available.
LEMMA FreeWhenCertain ==
    ASSUME DataOK, NEW s, IsState(s), NEW e \in Execs,
           Covered(Cores, NumCores, s.avail, e.free, e.now),
           NEW q \in Cores, NEW w \in Int, Avail(s, q).max <= w
    PROVE  q <= Cardinality(FreeAt(Cores, e.free, w))
<1>1. Avail(s, q).max \in Nat /\ q \in 1..NumCores
    BY AvailType DEF Cores
<1>2. Cardinality(FreeAt(Cores, e.free, Avail(s, q).max)) >= q
    BY <1>1 DEF Covered, Avail
<1>3. e.free \in [Cores -> Nat]
    BY ExecFacts
<1>4. /\ Cardinality(FreeAt(Cores, e.free, Avail(s, q).max)) \in 0..NumCores
      /\ Cardinality(FreeAt(Cores, e.free, w)) \in 0..NumCores
      /\ Cardinality(FreeAt(Cores, e.free, Avail(s, q).max)) <= Cardinality(FreeAt(Cores, e.free, w))
    BY <1>1, <1>3, FreeFacts
<1>5. QED BY <1>1, <1>2, <1>4

\* A job that has certainly arrived when its cores are free fits.
LEMMA CertainlyFitsAt ==
    ASSUME DataOK, NEW s, IsState(s), NEW e \in Execs,
           Covered(Cores, NumCores, s.avail, e.free, e.now),
           NEW k \in Jobs, k \notin e.scheduled, NEW w \in Int, Arrival(k).max <= w,
           NEW q \in Cores, MinParallelism(k) <= q, Avail(s, q).max <= w
    PROVE  Fits(e, k, w)
<1>1. e.arrival[k] <= w
    <2>1. e.arrival[k] \in Nat /\ e.arrival[k] <= Arrival(k).max /\ Arrival(k).max \in Nat
        BY ExecFacts, JobFacts
    <2>2. QED BY <2>1
<1>2. MinParallelism(k) <= Cardinality(FreeAt(Cores, e.free, w))
    <2>1. q <= Cardinality(FreeAt(Cores, e.free, w))
        BY FreeWhenCertain
    <2>2. e.free \in [Cores -> Nat] /\ MinParallelism(k) \in 1..NumCores
        BY ExecFacts, JobFacts
    <2>3. Cardinality(FreeAt(Cores, e.free, w)) \in 0..NumCores
        BY <2>2, FreeFacts
    <2>4. QED BY <2>1, <2>2, <2>3 DEF Cores
<1>3. QED BY <1>1, <1>2 DEF Fits

\* The next dispatch is not later than t_wc, and the times are small.
LEMMA WithinWindow ==
    ASSUME DataOK, Simple, NEW n, SoundNode(n), NEW s \in Range(n.states),
           NEW e \in Execs, StandsFor(n, s, e),
           NEW j, NEW t \in Nat, NEW p, Chosen(e, j, t, p)
    PROVE  /\ t <= TWorkConserving(n, s) /\ TWorkConserving(n, s) <= LatestTwc(n)
           /\ TWorkConserving(n, s) \in Int /\ LatestTwc(n) \in Int /\ LatestTwc(n) < Infinity
           /\ t <= MaxOf(Arrival(j).max, Avail(s, p).max)
<1> DEFINE m == MinParallelism(j)
<1>1. /\ IsNode(n) /\ n.ready = {} /\ KnowsArrivals(n) /\ InTime(n)
      /\ s.succ = Infinity /\ s.mutex = Infinity
      /\ IsStateOf(n, s) /\ WithinBounds(n, s) /\ IsState(s)
    BY DEF SoundNode, IsNode, IsStateOf
<1>2. /\ j \in Jobs \ n.scheduled /\ p \in Cores /\ m \in Cores /\ m <= p
      /\ j \notin e.scheduled /\ n.scheduled = e.scheduled
      /\ Covered(Cores, NumCores, s.avail, e.free, e.now)
      /\ \A u \in Nat : \A k \in Jobs : Fits(e, k, u) => t <= u
    BY ChosenIsFirst, JobFacts DEF StandsFor, Cores
<1>3. /\ TWorkConserving(n, s) \in Int /\ LatestTwc(n) \in Int
      /\ TWorkConserving(n, s) <= LatestTwc(n)
    BY <1>1, WindowFacts
<1>4. PICK a \in Nat : a = Avail(s, 1).max
    BY <1>1, CoresFacts, AvailType
<1>5. PICK am \in Nat : am = Avail(s, p).max
    BY <1>1, <1>2, AvailType DEF Cores
<1>6. PICK ar \in Nat : ar = Arrival(j).max
    BY <1>2, JobFacts
<1>7. t <= MaxOf(ar, am)
    <2>1. MaxOf(ar, am) \in Nat /\ ar <= MaxOf(ar, am) /\ am <= MaxOf(ar, am)
        BY DEF MaxOf
    <2>2. Fits(e, j, MaxOf(ar, am))
        BY <1>1, <1>2, <1>5, <1>6, <2>1, CertainlyFitsAt
    <2>3. QED BY <1>2, <2>1, <2>2
<1>8. am < Infinity /\ ar < Infinity
    <2>1. ar < Infinity
        BY <1>2, <1>6 DEF Simple, Bounded
    <2>2. am <= Avail(s, NumCores).max
        BY <1>1, <1>2, <1>5, CoresFacts, AvailOrder DEF Cores
    <2>3. Avail(s, NumCores).max <= n.a_max /\ n.a_max < Infinity
        BY <1>1 DEF WithinBounds, InTime
    <2>4. Avail(s, NumCores).max \in Nat /\ n.a_max \in Int /\ Infinity \in Nat
        BY <1>1, CoresFacts, AvailType, SimpleFacts DEF IsNode
    <2>5. QED BY <2>1, <2>2, <2>3, <2>4
<1>9. t < Infinity
    BY <1>7, <1>8, SimpleFacts DEF MaxOf
<1>10. LatestTwc(n) < Infinity
    <2>1. PICK b \in Int : b = Min({n.next_succ, n.seq_release, n.next_gang, n.next_mutex})
        BY <1>1, MinOfFour DEF IsNode
    <2>2. b <= n.seq_release /\ b <= n.next_gang /\ n.seq_release \in Int /\ n.next_gang \in Int
        BY <1>1, <2>1, MinOfFour DEF IsNode
    <2>3. b < Infinity
        <3>1. CASE m = 1
            <4>1. j \in SequentialIndependentJobs \ n.scheduled
                BY <1>2, <3>1, SimpleFacts
            <4> DEFINE T == LatestArrivals(SequentialIndependentJobs \ n.scheduled)
            <4>2. T \in SUBSET Int /\ IsFiniteSet(T)
                BY ClassesOfJobs, ArrivalsFacts
            <4>3. ar \in T
                BY <1>6, <4>1 DEF LatestArrivals
            <4>4. Earliest(T) <= ar /\ n.seq_release = Earliest(T)
                <5>1. n.seq_release = Earliest(T)
                    BY <1>1 DEF KnowsArrivals
                <5> HIDE DEF T
                <5>2. QED BY <4>2, <4>3, <5>1, EarliestFacts
            <4>5. QED BY <1>8, <2>2, <4>4, SimpleFacts
        <3>2. CASE m > 1
            <4>1. j \in PendingGangs(n)
                BY <1>2, <3>2, SimpleFacts DEF PendingGangs
            <4>2. n.next_gang < Infinity
                BY <1>1, <4>1 DEF InTime
            <4>3. QED BY <2>2, <4>2, SimpleFacts
        <3>3. QED BY <1>2, <3>1, <3>2 DEF Cores
    <2>4. LatestTwc(n) = MaxOf(n.a_max, b)
        BY <2>1 DEF LatestTwc
    <2>5. n.a_max < Infinity
        BY <1>1 DEF InTime
    <2>6. QED BY <2>3, <2>4, <2>5 DEF MaxOf
<1>11. t <= TWorkConserving(n, s)
    <2>1. n.seq_release \in Int /\ s.gang \in Int /\ s.mutex \in Int /\ s.succ \in Int
        BY <1>1 DEF IsNode, IsState
    <2>2. PICK c \in Int : c = CertainlyReadyBy(n, s)
        BY <2>1, MinOfFour DEF CertainlyReadyBy
    <2>3. c \in {n.seq_release, s.gang, s.mutex, s.succ}
        BY <2>1, <2>2, MinOfFour DEF CertainlyReadyBy
    <2>4. TWorkConserving(n, s) = MaxOf(a, c)
        BY <1>4, <2>2 DEF TWorkConserving
    <2>5. CASE c >= Infinity
        BY <1>9, <2>4, <2>5, SimpleFacts DEF MaxOf
    <2>6. CASE c < Infinity /\ c = n.seq_release
        <3> DEFINE js == SequentialIndependentJobs \ n.scheduled
                   T == LatestArrivals(js)
        <3>1. T \in SUBSET Int /\ IsFiniteSet(T)
            BY ClassesOfJobs, ArrivalsFacts
        <3>2. n.seq_release = Earliest(T)
            BY <1>1 DEF KnowsArrivals
        <3>3. c \in T
            <4> HIDE DEF T
            <4>1. Earliest(T) \in T \cup {Infinity}
                BY <3>1, EarliestFacts
            <4>2. QED BY <2>6, <3>2, <4>1, SimpleFacts
        <3>4. PICK k \in js : c = Arrival(k).max
            BY <3>3 DEF LatestArrivals
        <3>5. k \in Jobs /\ k \notin e.scheduled /\ MinParallelism(k) = 1 /\ 1 \in Cores /\ c \in Nat
            BY <1>2, <3>4, SimpleFacts, CoresFacts, JobFacts DEF Cores
        <3>6. MaxOf(a, c) \in Nat /\ a <= MaxOf(a, c) /\ c <= MaxOf(a, c)
            BY <3>5 DEF MaxOf
        <3>7. Fits(e, k, MaxOf(a, c))
            BY <1>1, <1>2, <1>4, <3>4, <3>5, <3>6, CertainlyFitsAt
        <3>8. QED BY <1>2, <2>4, <3>5, <3>6, <3>7
    <2>7. CASE c < Infinity /\ c = s.gang
        <3>1. PICK k \in PendingGangs(n) : Arrival(k).max <= c /\ Avail(s, MinParallelism(k)).max <= c
            BY <2>7 DEF SoundNode, CertainGang
        <3>2. k \in Jobs \ e.scheduled /\ Arrival(k).max \in Nat
            BY <1>2, ClassesOfJobs, JobFacts DEF PendingGangs
        <3>3. PICK q \in Cores : q = MinParallelism(k)
            BY <3>2, JobFacts DEF Cores
        <3>4. Fits(e, k, c) /\ c \in Nat
            <4>1. c \in Nat
                BY <3>1, <3>2
            <4>2. Covered(Cores, NumCores, s.avail, e.free, e.now)
                BY DEF StandsFor
            <4>3. k \in Jobs /\ k \notin e.scheduled /\ MinParallelism(k) <= q
                BY <3>2, <3>3 DEF Cores
            <4>4. Avail(s, q).max <= c /\ Arrival(k).max <= c
                BY <3>1, <3>3
            <4>5. Fits(e, k, c)
                BY <1>1, <4>1, <4>2, <4>3, <4>4, CertainlyFitsAt
            <4>6. QED BY <4>1, <4>5
        <3>5. t <= c
            BY <1>2, <3>2, <3>4
        <3>6. QED BY <2>4, <3>5 DEF MaxOf
    <2>8. QED BY <1>1, <2>3, <2>5, <2>6, <2>7, SimpleFacts
<1>12. QED BY <1>3, <1>5, <1>6, <1>7, <1>10, <1>11

\* The job that is dispatched next starts before any job of higher priority
\* could, and before it could have more cores.
LEMMA BeforeHigher ==
    ASSUME DataOK, Simple, NEW n, SoundNode(n), NEW s \in Range(n.states),
           NEW e \in Execs, StandsFor(n, s, e),
           NEW j, NEW t \in Nat, NEW p, Chosen(e, j, t, p)
    PROVE  /\ THighSequential(n, j) \in Int /\ THigh(n, s, j, p) \in Int /\ TMoreCores(s, j, p) \in Int
           /\ t < THighSequential(n, j) /\ t < THigh(n, s, j, p) /\ t < TMoreCores(s, j, p)
<1>1. /\ IsNode(n) /\ n.ready = {} /\ IsStateOf(n, s) /\ IsState(s)
    BY DEF SoundNode, IsNode, IsStateOf
<1>2. /\ j \in Jobs \ n.scheduled /\ p \in Cores /\ p \in Parallelism(j)
      /\ MinParallelism(j) \in Cores /\ MinParallelism(j) <= p
      /\ n.scheduled = e.scheduled
      /\ Covered(Cores, NumCores, s.avail, e.free, e.now)
      /\ \A k \in Jobs : Fits(e, k, t) => ~HigherPriority(k, j)
    BY ChosenIsFirst, JobFacts DEF StandsFor, Cores, Chosen
<1>3. /\ t <= TWorkConserving(n, s) /\ TWorkConserving(n, s) <= LatestTwc(n)
      /\ TWorkConserving(n, s) \in Int /\ LatestTwc(n) \in Int /\ LatestTwc(n) < Infinity
    BY WithinWindow
<1>4. t < After(LatestTwc(n)) /\ t < After(TWorkConserving(n, s)) /\ After(TWorkConserving(n, s)) \in Int
    BY <1>3, SimpleFacts DEF After
<1>5. t < Infinity
    BY <1>3, SimpleFacts
<1>6. PICK free \in 0..NumCores : free = Cardinality(FreeAt(Cores, e.free, t))
    BY ExecFacts, FreeFacts
<1>7. NumCores \in Nat
    BY CoresFacts
<1>8. p <= free
    BY <1>6 DEF Chosen
\* No job of higher priority has certainly arrived with enough free cores.
<1>9. ASSUME NEW k \in Jobs, k \notin n.scheduled, HigherPriority(k, j), MinParallelism(k) <= free
      PROVE  t < Arrival(k).max
    <2>1. ~Fits(e, k, t)
        BY <1>2, <1>9
    <2>2. e.arrival[k] \in Nat /\ e.arrival[k] <= Arrival(k).max /\ Arrival(k).max \in Nat
        BY ExecFacts, JobFacts
    <2>3. ~(e.arrival[k] <= t)
        BY <1>2, <1>6, <1>9, <2>1 DEF Fits
    <2>4. QED BY <2>2, <2>3
<1>10. THighSequential(n, j) \in Int /\ t < THighSequential(n, j)
    <2> DEFINE js == ReleasedFrom(HigherThan(j, SequentialIndependentJobs, n), n)
               T == LatestArrivals(js) \cup {After(LatestTwc(n))}
    <2>1. js \in SUBSET Jobs
        BY ClassesOfJobs, HigherThanFacts
    <2>2. T \in SUBSET Int /\ IsFiniteSet(T) /\ T # {}
        <3>1. LatestArrivals(js) \in SUBSET Int /\ IsFiniteSet(LatestArrivals(js))
            BY <2>1, ArrivalsFacts
        <3>2. After(LatestTwc(n)) \in Int
            BY <1>3, AfterType
        <3> HIDE DEF js
        <3>3. IsFiniteSet(T)
            BY <3>1, FS_AddElement
        <3>4. QED BY <3>1, <3>2, <3>3
    <2>3. ASSUME NEW x \in T PROVE t < x
        <3>1. CASE x = After(LatestTwc(n))
            BY <1>4, <3>1
        <3>2. CASE x \in LatestArrivals(js)
            <4>1. PICK k \in js : x = Arrival(k).max
                BY <3>2 DEF LatestArrivals
            <4>2. /\ k \in SequentialIndependentJobs /\ k \in Jobs /\ k \notin n.scheduled
                  /\ HigherPriority(k, j)
                BY <2>1, <4>1 DEF ReleasedFrom, HigherThan
            <4>3. MinParallelism(k) = 1
                BY <4>2, SimpleFacts
            <4>4. MinParallelism(k) <= free
                BY <1>2, <1>7, <1>8, <4>3 DEF Cores
            <4>5. QED BY <1>9, <4>1, <4>2, <4>4
        <3>3. QED BY <2>3, <3>1, <3>2
    <2> HIDE DEF T
    <2>4. Min(T) \in T /\ Min(T) \in Int
        BY <2>2, MinFacts
    <2>5. THighSequential(n, j) = Min(T)
        BY DEF THighSequential, T
    <2>6. QED BY <2>3, <2>4, <2>5
<1>11. THighGang(n, s, j, p) \in Int /\ t < THighGang(n, s, j, p)
    <2> DEFINE js == ReleasedFrom(HigherThan(j, GangIndependentJobs, n), n)
               at(k) == IF MinParallelism(k) > p
                        THEN MaxOf(Arrival(k).max, Avail(s, MinParallelism(k)).max)
                        ELSE Arrival(k).max
               f == [k \in js |-> at(k)]
               T == {at(k) : k \in js}
    <2>1. js \in SUBSET Jobs
        BY ClassesOfJobs, HigherThanFacts
    <2>2. ASSUME NEW k \in js PROVE at(k) \in Int /\ t < at(k)
        <3>1. k \in Jobs /\ k \notin n.scheduled /\ HigherPriority(k, j)
            BY <2>1 DEF ReleasedFrom, HigherThan
        <3>2. PICK m \in 1..NumCores : m = MinParallelism(k)
            BY <3>1, JobFacts
        <3>3. PICK ar \in Nat : ar = Arrival(k).max
            BY <3>1, JobFacts
        <3>4. PICK am \in Nat : am = Avail(s, m).max
            BY <1>1, AvailType
        <3>5. m <= free => t < ar
            BY <1>9, <3>1, <3>2, <3>3
        <3>6. am <= t => m <= free
            BY <1>1, <1>2, <1>6, <3>4, FreeWhenCertain DEF Cores
        <3>7. CASE m > p
            <4>1. at(k) = MaxOf(ar, am)
                BY <3>2, <3>3, <3>4, <3>7
            <4>2. QED BY <3>5, <3>6, <4>1 DEF MaxOf
        <3>8. CASE ~(m > p)
            <4>1. at(k) = ar
                BY <3>2, <3>3, <3>8
            <4>2. m <= free
                BY <1>2, <1>7, <1>8, <3>2, <3>8 DEF Cores
            <4>3. QED BY <3>5, <4>1, <4>2
        <3>9. QED BY <3>7, <3>8
    <2> HIDE DEF js, at
    <2>3. T \in SUBSET Int /\ IsFiniteSet(T)
        <3>1. DOMAIN f = js /\ \A k \in DOMAIN f : f[k] \in Int
            BY <2>2
        <3>2. {f[k] : k \in DOMAIN f} \in SUBSET Int /\ IsFiniteSet({f[k] : k \in DOMAIN f})
            BY <2>1, <3>1, JobValues
        <3>3. {f[k] : k \in DOMAIN f} = T
            BY <3>1
        <3>4. QED BY <3>2, <3>3
    <2>4. \A x \in T : t < x
        BY <2>2
    <2> HIDE DEF T
    <2>5. Earliest(T) \in Int /\ Earliest(T) \in T \cup {Infinity}
        BY <2>3, EarliestFacts
    <2>6. THighGang(n, s, j, p) = Earliest(T)
        BY DEF THighGang, T, js, at
    <2>7. QED BY <1>5, <2>4, <2>5, <2>6
<1>12. THighMutex(n, s, j, p) = Infinity /\ THighSuccessor(n, s, j, p) = Infinity
    <2>1. Earliest({}) = Infinity
        <3>1. {} \in SUBSET Int /\ IsFiniteSet({})
            BY FS_EmptySet
        <3>2. QED BY <3>1, EarliestFacts
    <2>2. ReleasedFrom(HigherThan(j, MutexSourceJobs, n), n) = {}
        BY SimpleFacts DEF ReleasedFrom, HigherThan
    <2>3. THighMutex(n, s, j, p) = Earliest({})
        BY <2>2 DEF THighMutex
    <2>4. THighSuccessor(n, s, j, p) = Earliest({})
        BY <1>1 DEF THighSuccessor
    <2>5. QED BY <2>1, <2>3, <2>4
<1>13. THigh(n, s, j, p) \in Int /\ t < THigh(n, s, j, p)
    <2>1. PICK w \in Int : w = After(TWorkConserving(n, s))
        BY <1>4
    <2>2. PICK g \in Int : g = MinOf(THighGang(n, s, j, p), w)
        BY <1>11 DEF MinOf
    <2>3. PICK h \in Int : h = MinOf(THighMutex(n, s, j, p), w)
        BY <1>12, SimpleFacts DEF MinOf
    <2>4. t < g
        BY <1>4, <1>11, <2>1, <2>2 DEF MinOf
    <2>5. t < h
        BY <1>4, <1>5, <1>12, <2>1, <2>3 DEF MinOf
    <2>6. PICK q \in Int : q = THighSequential(n, j)
        BY <1>10
    <2>7. THigh(n, s, j, p) = Min({q, Infinity, g, h})
        BY <1>12, <2>1, <2>2, <2>3, <2>6 DEF THigh
    <2>8. Infinity \in Int
        BY SimpleFacts
    <2>9. Min({q, Infinity, g, h}) \in Int /\ Min({q, Infinity, g, h}) \in {q, Infinity, g, h}
        BY <2>8, MinOfFour
    <2>10. QED BY <1>5, <1>10, <2>4, <2>5, <2>6, <2>7, <2>9
<1>14. TMoreCores(s, j, p) \in Int /\ t < TMoreCores(s, j, p)
    <2> DEFINE more == {q \in Parallelism(j) : q > p}
    <2>1. CASE more = {}
        BY <1>5, <2>1, SimpleFacts DEF TMoreCores
    <2>2. CASE more # {}
        <3>1. Parallelism(j) \in SUBSET (1..NumCores) /\ IsFiniteSet(Parallelism(j))
            BY <1>2, JobFacts
        <3>2. more \in SUBSET Int /\ IsFiniteSet(more)
            <4>1. more \subseteq Parallelism(j)
                OBVIOUS
            <4>2. IsFiniteSet(more)
                BY <3>1, <4>1, FS_Subset
            <4>3. QED BY <3>1, <4>2
        <3>3. PICK q \in 1..NumCores : q = Min(more) /\ q \in more
            <4> HIDE DEF more
            <4>1. Min(more) \in more
                BY <2>2, <3>2, MinFacts
            <4>2. more \subseteq 1..NumCores
                BY <3>1 DEF more
            <4>3. QED BY <4>1, <4>2
        <3>4. PICK am \in Nat : am = Avail(s, q).max
            BY <1>1, AvailType
        <3>5. TMoreCores(s, j, p) = am
            BY <2>2, <3>3, <3>4 DEF TMoreCores
        <3>6. am <= t => q <= free
            BY <1>1, <1>2, <1>6, <3>4, FreeWhenCertain DEF Cores
        <3>7. ~(q <= free)
            <4>1. q \in Parallelism(j) /\ q > p
                BY <3>3
            <4>2. q <= free => q <= p
                BY <1>6, <4>1 DEF Chosen
            <4>3. QED BY <1>2, <4>1, <4>2 DEF Cores
        <3>8. QED BY <3>4, <3>5, <3>6, <3>7
    <2>3. QED BY <2>1, <2>2
<1>15. QED BY <1>10, <1>13, <1>14

\* The dispatch that comes next in the execution is one that the analysis
\* makes in the state: the job is a candidate of the node, and its start lies
\* between the bounds that are computed (space.hpp, dispatch).
LEMMA NextDispatch ==
    ASSUME DataOK, Simple, NEW n, SoundNode(n), NEW s \in Range(n.states),
           NEW e \in Execs, StandsFor(n, s, e),
           NEW j, NEW t \in Nat, NEW p, Chosen(e, j, t, p)
    PROVE  /\ j \in Candidates(n) /\ Feasible(n, s, j, p)
           /\ EarliestStart(n, s, j, p) \in Nat /\ EarliestStart(n, s, j, p) <= t
           /\ LatestStart(n, s, j, p) \in Int /\ t <= LatestStart(n, s, j, p)
           /\ Avail(s, p).min <= EarliestStart(n, s, j, p)
<1>1. /\ IsNode(n) /\ n.ready = {} /\ KnowsArrivals(n)
      /\ IsStateOf(n, s) /\ IsState(s) /\ s.min_prio = 0
    <2>1. IsNode(n) /\ n.ready = {} /\ KnowsArrivals(n)
        BY DEF SoundNode
    <2>2. IsStateOf(n, s)
        BY <2>1 DEF IsNode
    <2>3. QED BY <2>1, <2>2 DEF IsStateOf
<1>2. /\ j \in Jobs \ n.scheduled /\ p \in Cores /\ p \in 1..NumCores
      /\ n.scheduled = e.scheduled /\ e.now <= t
      /\ Covered(Cores, NumCores, s.avail, e.free, e.now)
    BY ChosenIsFirst DEF StandsFor, Cores
<1>3. /\ t <= TWorkConserving(n, s) /\ TWorkConserving(n, s) <= LatestTwc(n)
      /\ TWorkConserving(n, s) \in Int /\ LatestTwc(n) \in Int
      /\ t <= MaxOf(Arrival(j).max, Avail(s, p).max)
    BY WithinWindow
<1>4. /\ THighSequential(n, j) \in Int /\ THigh(n, s, j, p) \in Int /\ TMoreCores(s, j, p) \in Int
      /\ t < THighSequential(n, j) /\ t < THigh(n, s, j, p) /\ t < TMoreCores(s, j, p)
    BY BeforeHigher
<1>5. PICK lo \in Nat : lo = Arrival(j).min
    BY <1>2, JobFacts
<1>6. PICK hi \in Nat : hi = Arrival(j).max
    BY <1>2, JobFacts
<1>7. PICK pa \in Nat : pa = Avail(s, p).min
    BY <1>1, <1>2, AvailType
<1>8. PICK ca \in Nat : ca = Avail(s, p).max
    BY <1>1, <1>2, AvailType
<1>9. ReadyTimes(n, s, j).min = lo /\ ReadyTimes(n, s, j).max = hi
    <2>1. \A type \in Types : Predecessors(type, j) = {} /\ Exclusions(type, j) = {}
        BY <1>2, SimpleFacts
    <2>2. PrecedenceTimes(s, j) = {} /\ BindingTimes(n, s, j) = {}
        BY <2>1 DEF PrecedenceTimes, RecordedConstraints, BindingTimes, BindingExclusions, Satisfied
    <2>3. \A x \in Int : Latest({}, x) = x /\ Latest({x}, x) = x
        <3>1. {} \in SUBSET Int /\ IsFiniteSet({})
            BY FS_EmptySet
        <3>2. ASSUME NEW x \in Int PROVE Latest({}, x) = x /\ Latest({x}, x) = x
            <4>1. {x} \in SUBSET Int /\ IsFiniteSet({x})
                BY FS_Singleton
            <4>2. Latest({}, x) \in {x} /\ Latest({x}, x) \in {x}
                BY <3>1, <4>1, LatestFacts
            <4>3. QED BY <4>2
        <3>3. QED BY <3>2
    <2>4. ~IsJoin(j)
        BY <1>2, SimpleFacts
    <2>5. ReadyTimes(n, s, j) = [min |-> Latest({Latest({}, lo)}, lo), max |-> Latest({}, hi)]
        BY <1>5, <1>6, <2>2, <2>4 DEF ReadyTimes
    <2>6. Latest({}, lo) = lo /\ Latest({lo}, lo) = lo /\ Latest({}, hi) = hi
        <3>1. lo \in Int /\ hi \in Int
            OBVIOUS
        <3>2. QED BY <2>3, <3>1, Zenon
    <2>7. QED BY <2>5, <2>6
<1>10. lo <= t /\ pa <= t
    <2>1. e.arrival[j] \in Nat /\ lo <= e.arrival[j]
        BY <1>2, <1>5, ExecFacts
    <2>2. e.arrival[j] <= t /\ Cardinality(FreeAt(Cores, e.free, t)) >= p
        <3>1. p <= Cardinality(FreeAt(Cores, e.free, t)) /\ Fits(e, j, t)
            BY DEF Chosen
        <3>2. Cardinality(FreeAt(Cores, e.free, t)) \in 0..NumCores /\ NumCores \in Nat
            BY ExecFacts, FreeFacts, CoresFacts
        <3>3. QED BY <1>2, <3>1, <3>2 DEF Fits
    <2>3. NumCores \in Nat \ {0} /\ IsFiniteSet(Cores) /\ Cardinality(Cores) = NumCores
        BY CoresFacts
    <2>4. s.avail \in Trackers(NumCores) /\ e.free \in [Cores -> Nat] /\ e.now \in Nat
        BY <1>1, ExecFacts DEF IsState
    <2>5. s.avail[p].min <= t
        BY <1>2, <2>2, <2>3, <2>4, CoveredStart
    <2>6. QED BY <1>7, <2>1, <2>2, <2>5 DEF Avail
<1>11. EarliestStart(n, s, j, p) = MaxOf(lo, pa)
    BY <1>7, <1>9 DEF EarliestStart
<1>12. /\ EarliestStart(n, s, j, p) \in Nat /\ EarliestStart(n, s, j, p) <= t
       /\ pa <= EarliestStart(n, s, j, p)
    BY <1>10, <1>11 DEF MaxOf
<1>13. j \in Candidates(n)
    <2>1. lo >= n.release
        <3> DEFINE T == {Arrival(k).min : k \in Jobs \ n.scheduled}
        <3>1. T \in SUBSET Int /\ IsFiniteSet(T)
            BY ArrivalsFacts
        <3>2. n.release = Earliest(T) /\ lo \in T
            BY <1>1, <1>2, <1>5 DEF KnowsArrivals
        <3> HIDE DEF T
        <3>3. Earliest(T) <= lo /\ Earliest(T) \in Int
            BY <3>1, <3>2, EarliestFacts
        <3>4. QED BY <3>2, <3>3
    <2>2. lo <= LatestTwc(n)
        BY <1>3, <1>10
    <2>3. lo < THighSequential(n, j)
        BY <1>4, <1>10
    <2>4. SourceJobs = Jobs
        BY SimpleFacts
    <2>5. QED BY <1>2, <1>5, <2>1, <2>2, <2>3, <2>4 DEF Candidates
<1>14. Feasible(n, s, j, p)
    <2>1. PICK est \in Nat : est = EarliestStart(n, s, j, p)
        BY <1>12
    <2>2. est <= TWorkConserving(n, s) /\ est < THigh(n, s, j, p) /\ est < TMoreCores(s, j, p)
        BY <1>3, <1>4, <1>12, <2>1
    <2>3. QED BY <1>1, <2>1, <2>2 DEF Feasible
<1>15. LatestStart(n, s, j, p) \in Int /\ t <= LatestStart(n, s, j, p)
    <2>1. PICK a \in Int : a = MaxOf(hi, ca)
        BY DEF MaxOf
    <2>2. PICK b \in Int : b = TWorkConserving(n, s)
        BY <1>3
    <2>3. PICK c \in Int : c = MinOf(THigh(n, s, j, p), TMoreCores(s, j, p)) - 1
        BY <1>4 DEF MinOf
    <2>4. t <= a /\ t <= b /\ t <= c
        BY <1>3, <1>4, <1>6, <1>8, <2>1, <2>2, <2>3 DEF MinOf
    <2>5. LatestStart(n, s, j, p) = Min({a, b, c})
        BY <1>8, <1>9, <2>1, <2>2, <2>3 DEF LatestStart
    <2>6. Min({a, b, c}) \in Int /\ Min({a, b, c}) \in {a, b, c}
        BY MinOfThree
    <2>7. QED BY <2>4, <2>5, <2>6
<1>16. QED BY <1>7, <1>12, <1>13, <1>14, <1>15
-----------------------------------------------------------------------------
(***************************************************************************)
(* After a dispatch.                                                       *)
(***************************************************************************)

\* Earliest is the only lower bound of the times and of Infinity among them.
LEMMA EarliestIs ==
    ASSUME NEW T \in SUBSET Int, IsFiniteSet(T), NEW x \in T \cup {Infinity}, x <= Infinity,
           \A y \in T : x <= y
    PROVE  Earliest(T) = x
<1>1. /\ Earliest(T) \in Int /\ Earliest(T) <= Infinity /\ Earliest(T) \in T \cup {Infinity}
      /\ \A y \in T : Earliest(T) <= y
    BY EarliestFacts
<1>2. Infinity \in Int /\ x \in Int
    BY ProblemsAssumption
<1>3. Earliest(T) <= x /\ x <= Earliest(T)
    BY <1>1, <1>2
<1>4. QED BY <1>1, <1>2, <1>3

\* The earliest of fewer times is not before the earliest of all.
LEMMA EarliestLeft1 ==
    ASSUME NEW T \in SUBSET Int, IsFiniteSet(T), NEW U \in SUBSET T
    PROVE  AtOrAfter(U, Earliest(T)) = U
<1>1. Earliest(T) \in Int /\ \A y \in T : Earliest(T) <= y
    BY EarliestFacts
<1>2. QED BY <1>1 DEF AtOrAfter

LEMMA EarliestOfBoth ==
    ASSUME NEW T \in SUBSET Int, IsFiniteSet(T), NEW U \in SUBSET Int, IsFiniteSet(U)
    PROVE  Earliest(T \cup U) = MinOf(Earliest(T), Earliest(U))
<1>1. T \cup U \in SUBSET Int /\ IsFiniteSet(T \cup U)
    BY FS_Union
<1>2. PICK x \in Int : x = Earliest(T)
    BY EarliestFacts
<1>3. PICK y \in Int : y = Earliest(U)
    BY EarliestFacts
<1>4. x <= Infinity /\ x \in T \cup {Infinity} /\ \A z \in T : x <= z
    BY <1>2, EarliestFacts
<1>5. y <= Infinity /\ y \in U \cup {Infinity} /\ \A z \in U : y <= z
    BY <1>3, EarliestFacts
<1>6. PICK m \in Int : m = MinOf(x, y)
    BY DEF MinOf
<1>7. m \in (T \cup U) \cup {Infinity} /\ m <= Infinity /\ m <= x /\ m <= y
    BY <1>4, <1>5, <1>6 DEF MinOf
<1>8. \A z \in T \cup U : m <= z
    BY <1>4, <1>5, <1>7
<1>9. Earliest(T \cup U) = m
    BY <1>1, <1>7, <1>8, EarliestIs
<1>10. QED BY <1>2, <1>3, <1>6, <1>9

\* The node that a dispatch leads to knows the arrivals of the jobs left.
LEMMA NextNodeIsSound ==
    ASSUME DataOK, Simple, NEW n, SoundNode(n), NEW j \in Jobs
    PROVE  SoundNode(NextNode(n, j))
<1> DEFINE m == NextNode(n, j)
           S == n.scheduled \cup {j}
<1>1. /\ IsNode(n) /\ KnowsArrivals(n) /\ n.scheduled \in SUBSET Jobs /\ Incompatible(j) = {j}
    BY SimpleFacts DEF SoundNode, IsNode
<1>2. IsNode(m) /\ m.scheduled = S
    BY <1>1, NextNodeFacts
<1>3. m.ready = {} /\ m.a_max = 0 /\ m.next_gang = 0 /\ m.states = <<>>
    BY DEF NextNode, HasPrecedence, Simple, Independent
<1>4. InTime(m)
    BY <1>3, SimpleFacts DEF InTime
<1>5. Range(m.states) = {}
    BY <1>3, EmptyList
<1>6. /\ SourceJobs = Jobs /\ MutexSourceJobs = {}
      /\ SequentialIndependentJobs \in SUBSET Jobs /\ GangIndependentJobs \in SUBSET Jobs
      /\ Jobs = SequentialIndependentJobs \cup GangIndependentJobs
    <2>1. \A k \in Jobs : MinParallelism(k) = 1 \/ MinParallelism(k) > 1
        <3>1. \A k \in Jobs : MinParallelism(k) \in 1..NumCores
            BY JobFacts
        <3>2. NumCores \in Nat
            BY ProblemFacts
        <3>3. QED BY <3>1, <3>2
    <2>2. QED BY <2>1, SimpleFacts
<1> DEFINE Ls(js) == LatestArrivals(js)
           Seqs == SequentialIndependentJobs
           Gangs == GangIndependentJobs
           all == {Arrival(k).min : k \in Jobs \ n.scheduled}
           left == {Arrival(k).min : k \in Jobs \ S}
<1>7. \A js \in SUBSET Jobs : Ls(js) \in SUBSET Int /\ IsFiniteSet(Ls(js))
    BY ArrivalsFacts
<1>8. m.release = Earliest(left)
    <2>1. all \in SUBSET Int /\ IsFiniteSet(all) /\ left \in SUBSET all
        <3>1. Jobs \ n.scheduled \in SUBSET Jobs
            OBVIOUS
        <3>2. all \in SUBSET Int /\ IsFiniteSet(all)
            BY <3>1, ArrivalsFacts
        <3>3. left \subseteq all
            OBVIOUS
        <3>4. QED BY <3>2, <3>3
    <2>2. n.release = Earliest(all)
        BY <1>1 DEF KnowsArrivals
    <2>3. m.release = Earliest(AtOrAfter(left, n.release))
        BY <1>1, <1>6 DEF NextNode
    <2> HIDE DEF all, left
    <2>4. QED BY <2>1, <2>2, <2>3, EarliestLeft1
<1>9. m.seq_release = Earliest(Ls(Seqs \ S))
    <2>1. Seqs \ n.scheduled \in SUBSET Jobs /\ Ls(Seqs \ S) \subseteq Ls(Seqs \ n.scheduled)
        BY <1>6 DEF LatestArrivals
    <2>2. n.seq_release = Earliest(Ls(Seqs \ n.scheduled))
        BY <1>1 DEF KnowsArrivals
    <2>3. m.seq_release = Earliest(AtOrAfter(Ls(Seqs \ S), n.seq_release))
        BY <1>1 DEF NextNode
    <2> HIDE DEF Ls
    <2>4. AtOrAfter(Ls(Seqs \ S), Earliest(Ls(Seqs \ n.scheduled))) = Ls(Seqs \ S)
        BY <1>7, <2>1, EarliestLeft1
    <2>5. QED BY <2>2, <2>3, <2>4
<1>10. m.source_release = Earliest(Ls(Jobs \ S))
    <2>1. /\ Gangs \ S \in SUBSET Jobs /\ Seqs \ S \in SUBSET Jobs /\ Jobs \ n.scheduled \in SUBSET Jobs
          /\ Ls(Gangs \ S) \subseteq Ls(Jobs \ n.scheduled)
          /\ Ls(Jobs \ S) = Ls(Seqs \ S) \cup Ls(Gangs \ S)
        BY <1>6 DEF LatestArrivals
    <2>2. n.source_release = Earliest(Ls(Jobs \ n.scheduled))
        BY <1>1 DEF KnowsArrivals
    <2>3. Gangs \cup MutexSourceJobs = Gangs
        BY <1>6
    <2>4. m.source_release = MinOf(m.seq_release, Earliest(AtOrAfter(Ls(Gangs \ S), n.source_release)))
        BY <1>1, <2>3 DEF NextNode
    <2> HIDE DEF Ls, m
    <2>5. AtOrAfter(Ls(Gangs \ S), Earliest(Ls(Jobs \ n.scheduled))) = Ls(Gangs \ S)
        <3> DEFINE T == Ls(Jobs \ n.scheduled)
                   U == Ls(Gangs \ S)
        <3>1. T \in SUBSET Int /\ IsFiniteSet(T) /\ U \in SUBSET T
            BY <1>7, <2>1
        <3> HIDE DEF T, U
        <3>2. AtOrAfter(U, Earliest(T)) = U
            BY <3>1, EarliestLeft1
        <3>3. QED BY <3>2 DEF T, U
    <2>6. m.source_release = MinOf(Earliest(Ls(Seqs \ S)), Earliest(Ls(Gangs \ S)))
        BY <1>9, <2>2, <2>4, <2>5
    <2>7. QED BY <1>7, <2>1, <2>6, EarliestOfBoth
<1>11. KnowsArrivals(m)
    BY <1>2, <1>8, <1>9, <1>10 DEF KnowsArrivals
<1>12. QED BY <1>2, <1>3, <1>4, <1>5, <1>11 DEF SoundNode

\* The times of a dispatch of j in the state s of node n.
TimesOf(n, s, j, p, start, finish) ==
    /\ start \in Intervals(Nat) /\ finish \in Intervals(Nat)
    /\ start.min <= finish.min /\ start.max <= finish.max
    /\ j \in Jobs \ n.scheduled /\ p \in Cores /\ Avail(s, p).min <= start.min

\* The state that a dispatch leads to: the availability of its cores, and when
\* a gang job is certainly dispatched.
LEMMA NewStateFields ==
    ASSUME DataOK, Simple, NEW n, SoundNode(n), NEW s \in Range(n.states),
           NEW j, NEW p, NEW start, NEW finish, TimesOf(n, s, j, p, start, finish),
           NEW m, SoundNode(m), m.scheduled = n.scheduled \cup {j},
           NEW w, w = NewState(m, s, j, start, finish, p)
    PROVE  /\ IsStateOf(m, w) /\ w.succ = Infinity /\ w.mutex = Infinity
           /\ w.avail = Update(s.avail, start, finish, p, 0)
           /\ w.gang = Earliest({CertainlyFits(w, k) : k \in PendingGangs(m)})
<1>1. IsNode(n) /\ IsStateOf(n, s) /\ IsState(s) /\ IsNode(m) /\ m.ready = {} /\ KnowsArrivals(m)
    BY DEF SoundNode, IsNode, IsStateOf
<1>2. /\ start \in Intervals(Nat) /\ finish \in Intervals(Nat)
      /\ start.min <= finish.min /\ start.max <= finish.max
      /\ j \in Jobs /\ p \in 1..NumCores /\ Avail(s, p).min <= start.min
    BY DEF TimesOf, Cores
<1>3. IsStateOf(m, w)
    <2>1. /\ m.ready \in SUBSET Jobs /\ m.scheduled \in SUBSET Jobs
          /\ \A type \in Types : m.pending[type] \subseteq m.scheduled
          /\ n.scheduled \cup {j} \subseteq m.scheduled
        BY <1>1 DEF IsNode
    <2>2. QED BY <1>1, <1>2, <2>1, NewStateFacts
<1>4. CoresOfPredecessors(s.running, j) = 0
    <2>1. MustBeFinished(j) = {}
        BY <1>2, SimpleFacts
    <2>2. CoresOfPredecessors(s.running, j) = Cardinality({})
        BY <2>1 DEF CoresOfPredecessors, CoresHeldBy
    <2>3. QED BY <2>2, FS_EmptySet
<1> DEFINE x == [s EXCEPT
                    !.avail   = Update(@, start, finish, p, CoresOfPredecessors(s.running, j)),
                    !.running = RunningAfter(@, j, start, finish, p),
                    !.start   = StartTimesAfter(@, j, start, m.pending["start"]),
                    !.finish  = FinishTimesAfter(@, j, start, finish, m.pending["finish"])]
<1>5. w = WithDispatchTimes(m, x) /\ DOMAIN s = StateFields
    BY <1>1 DEF NewState, IsState
<1>6. x.avail = Update(s.avail, start, finish, p, 0) /\ DOMAIN x = StateFields
    BY <1>4, <1>5 DEF StateFields
<1> HIDE DEF x
<1>7. /\ w.avail = x.avail /\ w.succ = SuccessorDispatch(m, x)
      /\ w.gang = GangDispatch(m, x) /\ w.mutex = MutexDispatch(m, x)
    BY <1>5, <1>6 DEF WithDispatchTimes, StateFields
<1>8. Earliest({}) = Infinity
    <2>1. {} \in SUBSET Int /\ IsFiniteSet({})
        BY FS_EmptySet
    <2>2. QED BY <2>1, EarliestFacts
<1>9. w.succ = Infinity /\ w.mutex = Infinity
    <2>1. SuccessorDispatch(m, x) = Earliest({})
        BY <1>1 DEF SuccessorDispatch
    <2>2. MutexDispatch(m, x) = Earliest({})
        <3>1. MutexSourceJobs = {}
            BY SimpleFacts
        <3>2. {k \in MutexSourceJobs \ m.scheduled : Arrival(k).max >= m.source_release} = {}
            BY <3>1
        <3>3. QED BY <3>2 DEF MutexDispatch
    <2>3. QED BY <1>7, <1>8, <2>1, <2>2
<1>10. {k \in PendingGangs(m) : Arrival(k).max >= m.source_release} = PendingGangs(m)
    <2> DEFINE T == LatestArrivals(Jobs \ m.scheduled)
    <2>1. m.source_release = Earliest(T) /\ T \in SUBSET Int /\ IsFiniteSet(T)
        BY <1>1, ArrivalsFacts DEF KnowsArrivals
    <2>2. ASSUME NEW k \in PendingGangs(m) PROVE Arrival(k).max >= m.source_release
        <3>1. k \in Jobs \ m.scheduled
            BY ClassesOfJobs DEF PendingGangs
        <3>2. Arrival(k).max \in T /\ Arrival(k).max \in Nat
            BY <3>1, JobFacts DEF LatestArrivals
        <3> HIDE DEF T
        <3>3. Earliest(T) <= Arrival(k).max /\ Earliest(T) \in Int
            BY <2>1, <3>2, EarliestFacts
        <3>4. QED BY <2>1, <3>2, <3>3
    <2>3. QED BY <2>2
<1>11. \A k \in Jobs : CertainlyFits(w, k) = CertainlyFits(x, k)
    BY <1>7 DEF CertainlyFits, Avail
<1>12. w.gang = Earliest({CertainlyFits(w, k) : k \in PendingGangs(m)})
    <2>1. w.gang = Earliest({CertainlyFits(x, k) : k \in PendingGangs(m)})
        BY <1>7, <1>10 DEF GangDispatch, PendingGangs
    <2>2. PendingGangs(m) \subseteq Jobs
        BY ClassesOfJobs DEF PendingGangs
    <2>3. {CertainlyFits(x, k) : k \in PendingGangs(m)} = {CertainlyFits(w, k) : k \in PendingGangs(m)}
        BY <1>11, <2>2
    <2>4. QED BY <2>1, <2>3
<1>13. QED BY <1>3, <1>6, <1>7, <1>9, <1>12

\* The instants at which the gang jobs left certainly fit.
LEMMA GangTimes ==
    ASSUME DataOK, NEW m, NEW w, IsState(w),
           NEW T, T = {CertainlyFits(w, k) : k \in PendingGangs(m)}
    PROVE  /\ T \in SUBSET Int /\ IsFiniteSet(T) /\ PendingGangs(m) \in SUBSET Jobs
<1>1. PendingGangs(m) \in SUBSET Jobs
    BY ClassesOfJobs DEF PendingGangs
<1> DEFINE f == [k \in PendingGangs(m) |-> CertainlyFits(w, k)]
<1>2. DOMAIN f = PendingGangs(m) /\ \A k \in DOMAIN f : f[k] = CertainlyFits(w, k) /\ f[k] \in Int
    BY <1>1, FitsType
<1>3. {f[k] : k \in DOMAIN f} = T
    BY <1>2
<1> HIDE DEF f
<1>4. {f[k] : k \in DOMAIN f} \in SUBSET Int /\ IsFiniteSet({f[k] : k \in DOMAIN f})
    BY <1>1, <1>2, JobValues
<1>5. QED BY <1>1, <1>3, <1>4

\* Where the cores of the new state come from.
LEMMA NewStateAvail ==
    ASSUME DataOK, Simple, NEW n, SoundNode(n), NEW s \in Range(n.states),
           NEW j, NEW p, NEW start, NEW finish, TimesOf(n, s, j, p, start, finish),
           NEW m, SoundNode(m), m.scheduled = n.scheduled \cup {j},
           NEW w, w = NewState(m, s, j, start, finish, p)
    PROVE  IsStateOf(m, w) /\ IsState(w) /\ w.avail = Update(s.avail, start, finish, p, 0)
<1>1. /\ IsStateOf(m, w)
      /\ w.avail = Update(s.avail, start, finish, p, 0)
      /\ w.gang = Earliest({CertainlyFits(w, k) : k \in PendingGangs(m)})
    BY NewStateFields, SMTT(30)
<1>2. QED BY <1>1 DEF IsStateOf

\* At the instant that the new state keeps for the gang jobs, one certainly fits.
LEMMA NewStateGang ==
    ASSUME DataOK, Simple, NEW n, SoundNode(n), NEW s \in Range(n.states),
           NEW j, NEW p, NEW start, NEW finish, TimesOf(n, s, j, p, start, finish),
           NEW m, SoundNode(m), m.scheduled = n.scheduled \cup {j},
           NEW w, w = NewState(m, s, j, start, finish, p)
    PROVE  CertainGang(m, w)
<1>1. IsStateOf(m, w) /\ w.gang = Earliest({CertainlyFits(w, k) : k \in PendingGangs(m)})
    BY NewStateFields
<1>2. IsState(w)
    BY <1>1 DEF IsStateOf
<1>3. SUFFICES ASSUME w.gang < Infinity
               PROVE  \E k \in PendingGangs(m) :
                         Arrival(k).max <= w.gang /\ Avail(w, MinParallelism(k)).max <= w.gang
    BY DEF CertainGang
<1>4. PICK T : T = {CertainlyFits(w, k) : k \in PendingGangs(m)}
    OBVIOUS
<1>5. T \in SUBSET Int /\ IsFiniteSet(T) /\ PendingGangs(m) \in SUBSET Jobs
    BY <1>2, <1>4, GangTimes
<1>6. w.gang \in T
    <2>1. Earliest(T) \in T \cup {Infinity} /\ Earliest(T) \in Int
        BY <1>5, EarliestFacts
    <2>2. w.gang = Earliest(T)
        BY <1>1, <1>4
    <2>3. w.gang # Infinity
        BY <1>3, ProblemsAssumption
    <2>4. QED BY <2>1, <2>2, <2>3
<1>7. PICK k \in PendingGangs(m) : w.gang = CertainlyFits(w, k)
    BY <1>4, <1>6
<1>8. PICK q \in Cores : q = MinParallelism(k)
    BY <1>5, <1>7, JobFacts DEF Cores
<1>9. PICK ar \in Nat : ar = Arrival(k).max
    BY <1>5, <1>7, JobFacts
<1>10. PICK am \in Nat : am = Avail(w, q).max
    BY <1>2, AvailType DEF Cores
<1>11. w.gang = MaxOf(ar, am)
    BY <1>7, <1>8, <1>9, <1>10 DEF CertainlyFits
<1>12. ar <= w.gang /\ am <= w.gang
    BY <1>11 DEF MaxOf
<1>13. QED BY <1>7, <1>8, <1>9, <1>10, <1>12

\* The new state stands for the execution after the dispatch.
LEMMA NewStateStands ==
    ASSUME DataOK, Simple, NEW n, SoundNode(n), NEW s \in Range(n.states),
           NEW e \in Execs, StandsFor(n, s, e),
           NEW j, NEW t \in Nat, NEW p, NEW S, NEW x \in Nat, Runs(e, j, t, p, S, x),
           NEW start, NEW finish, TimesOf(n, s, j, p, start, finish),
           start.min <= t, t <= start.max, finish.min <= x, x <= finish.max,
           NEW m, SoundNode(m), m.scheduled = n.scheduled \cup {j},
           NEW w, w = NewState(m, s, j, start, finish, p)
    PROVE  StandsFor(m, w, Then(e, j, t, S, x))
<1>1. PICK g : g = Then(e, j, t, S, x)
    OBVIOUS
<1>2. /\ g \in Execs /\ g.scheduled = e.scheduled \cup {j} /\ g.now = t
      /\ Ran(Cores, e.free, S, x, g.free) /\ t <= x
    <2>1. DataOK /\ e \in Execs /\ t \in Nat /\ x \in Nat /\ Runs(e, j, t, p, S, x)
        OBVIOUS
    <2>2. QED BY ONLY <1>1, <2>1, ThenFacts
<1>3. /\ IsStateOf(m, w) /\ IsState(w)
      /\ w.avail = Update(s.avail, start, finish, p, 0)
    <2>1. /\ DataOK /\ Simple /\ SoundNode(n) /\ s \in Range(n.states)
          /\ TimesOf(n, s, j, p, start, finish)
          /\ SoundNode(m) /\ m.scheduled = n.scheduled \cup {j}
          /\ w = NewState(m, s, j, start, finish, p)
        OBVIOUS
    <2>2. QED BY ONLY <2>1, NewStateAvail
<1>4. /\ n.scheduled = e.scheduled
      /\ Covered(Cores, NumCores, s.avail, e.free, e.now)
    BY DEF StandsFor
<1>5. IsState(s) /\ s.avail \in Trackers(NumCores)
    BY DEF SoundNode, IsNode, IsStateOf, IsState
<1>6. Covered(Cores, NumCores, w.avail, g.free, g.now)
    <2>1. NumCores \in Nat \ {0} /\ IsFiniteSet(Cores) /\ Cardinality(Cores) = NumCores
        BY CoresFacts
    <2>2. /\ start \in Intervals(Nat) /\ finish \in Intervals(Nat)
          /\ start.min <= finish.min /\ start.max <= finish.max
          /\ p \in 1..NumCores /\ 0 \in 0..NumCores
        BY <2>1 DEF TimesOf, Cores
    <2>3. e.free \in [Cores -> Nat] /\ e.now \in Nat /\ e.now <= t
        BY ExecFacts, ChosenIsFirst DEF Runs
    <2>4. Cardinality(S) = p /\ S \in SUBSET Cores /\ \A c \in S : e.free[c] <= t
        BY DEF Runs, FreeAt
    <2>5. t \in start.min..start.max /\ x \in finish.min..finish.max
        <3>1. start.min \in Int /\ start.max \in Int /\ finish.min \in Int /\ finish.max \in Int
            BY <2>2, IntervalType
        <3>2. QED BY <3>1
    <2>6. Cardinality(FreeAt(Cores, e.free, t)) >= 0
        BY <2>1, <2>3, FreeFacts
    <2>7. Covered(Cores, NumCores, Update(s.avail, start, finish, p, 0), g.free, t)
        BY <1>2, <1>4, <1>5, <2>1, <2>2, <2>3, <2>4, <2>5, <2>6, CoveredUpdate
    <2>8. QED BY <1>2, <1>3, <2>7
<1>7. m.scheduled = g.scheduled
    BY <1>2, <1>4
<1>8. StandsFor(m, w, g)
    BY <1>6, <1>7 DEF StandsFor
<1>9. QED BY <1>1, <1>8

\* If the dispatched job is in time, so is the new state.
LEMMA NewStateInTime ==
    ASSUME DataOK, Simple, NEW n, SoundNode(n), NEW s \in Range(n.states),
           NEW j, NEW p, NEW start, NEW finish, TimesOf(n, s, j, p, start, finish),
           finish.max < Infinity,
           NEW m, SoundNode(m), m.scheduled = n.scheduled \cup {j},
           NEW w, w = NewState(m, s, j, start, finish, p)
    PROVE  /\ Avail(w, NumCores).max < Infinity
           /\ PendingGangs(m) # {} => w.gang < Infinity
<1>1. /\ IsStateOf(m, w) /\ IsState(w)
      /\ w.avail = Update(s.avail, start, finish, p, 0)
      /\ w.gang = Earliest({CertainlyFits(w, k) : k \in PendingGangs(m)})
    <2>1. /\ IsStateOf(m, w)
          /\ w.avail = Update(s.avail, start, finish, p, 0)
          /\ w.gang = Earliest({CertainlyFits(w, k) : k \in PendingGangs(m)})
        BY NewStateFields, SMTT(30)
    <2>2. QED BY <2>1 DEF IsStateOf
<1>2. /\ IsState(s) /\ s.avail \in Trackers(NumCores) /\ WithinBounds(n, s)
      /\ n.a_max \in Int /\ n.a_max < Infinity
    BY DEF SoundNode, IsNode, IsStateOf, IsState, InTime
<1>3. NumCores \in Nat \ {0} /\ NumCores \in 1..NumCores /\ Infinity \in Nat
    BY CoresFacts, ProblemsAssumption
<1>4. \A i \in 1..NumCores : Avail(w, i).max < Infinity
    <2>1. /\ start \in Intervals(Nat) /\ finish \in Intervals(Nat)
          /\ start.min <= finish.min /\ start.max <= finish.max
          /\ p \in 1..NumCores /\ 0 \in 0..NumCores
        BY <1>3 DEF TimesOf, Cores
    <2>2. \A i \in 1..NumCores : s.avail[i].max < Infinity
        <3>1. ASSUME NEW i \in 1..NumCores PROVE Avail(s, i).max < Infinity
            <4>1. NumCores \in i..NumCores
                BY <1>3
            <4>2. Avail(s, i).max <= Avail(s, NumCores).max
                BY <1>2, <4>1, AvailOrder
            <4>3. Avail(s, i).max \in Nat /\ Avail(s, NumCores).max \in Nat
                BY <1>2, <1>3, AvailType
            <4>4. Avail(s, NumCores).max <= n.a_max
                BY <1>2 DEF WithinBounds
            <4>5. QED BY <1>2, <1>3, <4>2, <4>3, <4>4
        <3>2. QED BY <3>1 DEF Avail
    <2>3. \A i \in 1..NumCores : Update(s.avail, start, finish, p, 0)[i].max < Infinity
        BY <1>2, <1>3, <2>1, <2>2, UpdateBelow
    <2>4. QED BY <1>1, <2>3 DEF Avail
<1>5. ASSUME PendingGangs(m) # {} PROVE w.gang < Infinity
    <2>1. PICK T : T = {CertainlyFits(w, k) : k \in PendingGangs(m)}
        OBVIOUS
    <2>2. T \in SUBSET Int /\ IsFiniteSet(T) /\ PendingGangs(m) \in SUBSET Jobs
        <3>1. IsState(w)
            BY <1>1
        <3>2. QED BY <2>1, <3>1, GangTimes, SMTT(30)
    <2>3. PICK k \in PendingGangs(m) : k \in Jobs
        BY <1>5, <2>2
    <2>4. PICK q \in 1..NumCores : q = MinParallelism(k)
        BY <2>3, JobFacts
    <2>5. PICK ar \in Nat : ar = Arrival(k).max
        BY <2>3, JobFacts
    <2>6. PICK am \in Nat : am = Avail(w, q).max
        BY <1>1, AvailType
    <2>7. PICK c \in Nat : c = CertainlyFits(w, k) /\ c = MaxOf(ar, am)
        BY <2>4, <2>5, <2>6 DEF CertainlyFits, MaxOf
    <2>8. ar < Infinity /\ am < Infinity
        BY <1>4, <2>3, <2>5, <2>6 DEF Simple, Bounded
    <2>9. c < Infinity
        BY <2>7, <2>8 DEF MaxOf
    <2>10. c \in T
        BY <2>1, <2>7
    <2>11. Earliest(T) <= c /\ Earliest(T) \in Int
        BY <2>2, <2>10, EarliestFacts
    <2>12. QED BY <1>1, <1>3, <2>1, <2>9, <2>11
<1>6. QED BY <1>3, <1>4, <1>5
-----------------------------------------------------------------------------
(***************************************************************************)
(* States are merged.                                                      *)
(***************************************************************************)
\* What the jobs have in common does not matter to the states.
Plainly(n, s) == IsStateOf(n, s) /\ s.succ = Infinity /\ s.mutex = Infinity /\ CertainGang(n, s)

\* The cores are available when they are in both states, and the gang jobs
\* certainly fit when they do in both.
LEMMA MergedGang ==
    ASSUME DataOK, NEW n, NEW a, Plainly(n, a), NEW b, Plainly(n, b),
           NEW w, w.avail = MergeAvailability(a.avail, b.avail), w.gang = MaxOf(a.gang, b.gang)
    PROVE  CertainGang(n, w)
<1>1. /\ IsState(a) /\ IsState(b) /\ a.gang \in Int /\ b.gang \in Int
      /\ a.avail \in Trackers(NumCores) /\ b.avail \in Trackers(NumCores)
    BY DEF Plainly, IsStateOf, IsState
<1>2. SUFFICES ASSUME w.gang < Infinity
               PROVE  \E k \in PendingGangs(n) :
                         Arrival(k).max <= w.gang /\ Avail(w, MinParallelism(k)).max <= w.gang
    BY DEF CertainGang
<1>3. /\ w.gang \in Int /\ a.gang <= w.gang /\ b.gang <= w.gang
      /\ a.gang < Infinity /\ b.gang < Infinity
    BY <1>1, <1>2, ProblemsAssumption DEF MaxOf
<1>4. PICK h \in PendingGangs(n) : Arrival(h).max <= a.gang /\ Avail(a, MinParallelism(h)).max <= a.gang
    BY <1>3 DEF Plainly, CertainGang
<1>5. PICK k \in PendingGangs(n) : Arrival(k).max <= b.gang /\ Avail(b, MinParallelism(k)).max <= b.gang
    BY <1>3 DEF Plainly, CertainGang
<1>6. h \in Jobs /\ k \in Jobs
    BY ClassesOfJobs DEF PendingGangs
<1>7. PICK p \in Cores, q \in Cores : p = MinParallelism(h) /\ q = MinParallelism(k)
    BY <1>6, JobFacts DEF Cores
<1>8. ASSUME NEW i \in Cores, Avail(a, i).max <= a.gang, Avail(b, i).max <= b.gang
      PROVE  Avail(w, i).max <= w.gang
    <2>1. PICK x \in Nat, y \in Nat : x = Avail(a, i).max /\ y = Avail(b, i).max
        BY <1>1, AvailType DEF Cores
    <2>2. Avail(w, i).max = MaxOf(x, y)
        <3>1. DOMAIN a.avail = 1..NumCores
            BY <1>1, TrackerFacts, CoresFacts
        <3>2. QED BY <2>1, <3>1 DEF MergeAvailability, Widen, Interval, Avail, Cores
    <2>3. x <= w.gang /\ y <= w.gang
        BY <1>1, <1>3, <1>8, <2>1
    <2>4. QED BY <2>2, <2>3 DEF MaxOf
<1>9. CASE p <= q
    <2>1. Avail(b, p).max <= Avail(b, q).max
        <3>1. q \in p..NumCores /\ p \in 1..NumCores
            BY <1>9, CoresFacts DEF Cores
        <3>2. QED BY <1>1, <3>1, AvailOrder
    <2>2. Avail(b, p).max \in Nat /\ Avail(b, q).max \in Nat
        BY <1>1, AvailType DEF Cores
    <2>3. Avail(b, p).max <= b.gang
        BY <1>1, <1>5, <1>7, <2>1, <2>2
    <2>4. Avail(w, p).max <= w.gang
        BY <1>4, <1>7, <1>8, <2>3
    <2>5. Arrival(h).max <= w.gang
        BY <1>1, <1>3, <1>4, <1>6, JobFacts
    <2>6. QED BY <1>7, <2>4, <2>5
<1>10. CASE q <= p
    <2>1. Avail(a, q).max <= Avail(a, p).max
        <3>1. p \in q..NumCores /\ q \in 1..NumCores
            BY <1>10, CoresFacts DEF Cores
        <3>2. QED BY <1>1, <3>1, AvailOrder
    <2>2. Avail(a, p).max \in Nat /\ Avail(a, q).max \in Nat
        BY <1>1, AvailType DEF Cores
    <2>3. Avail(a, q).max <= a.gang
        BY <1>1, <1>4, <1>7, <2>1, <2>2
    <2>4. Avail(w, q).max <= w.gang
        BY <1>5, <1>7, <1>8, <2>3
    <2>5. Arrival(k).max <= w.gang
        BY <1>1, <1>3, <1>5, <1>6, JobFacts
    <2>6. QED BY <1>7, <2>4, <2>5
<1>11. QED BY <1>9, <1>10, CoresFacts DEF Cores

\* A merged state stands for what either of the two stood for.
LEMMA MergedStands ==
    ASSUME DataOK, NEW n, NEW a, Plainly(n, a), NEW b, Plainly(n, b),
           NEW w, w = MergeState(a, b)
    PROVE  /\ Plainly(n, w)
           /\ \A e \in Execs : StandsFor(n, a, e) \/ StandsFor(n, b, e) => StandsFor(n, w, e)
<1>1. /\ IsStateOf(n, a) /\ IsStateOf(n, b) /\ IsState(a) /\ IsState(b)
      /\ a.avail \in Trackers(NumCores) /\ b.avail \in Trackers(NumCores)
      /\ a.gang \in Int /\ b.gang \in Int
    BY DEF Plainly, IsStateOf, IsState
<1>2. /\ w.avail = MergeAvailability(a.avail, b.avail)
      /\ w.succ = MaxOf(a.succ, b.succ) /\ w.gang = MaxOf(a.gang, b.gang)
      /\ w.mutex = MaxOf(a.mutex, b.mutex)
    BY DEF MergeState
<1>3. Plainly(n, w)
    <2>1. IsStateOf(n, w)
        BY <1>1, MergeStateFacts
    <2>2. CertainGang(n, w)
        BY <1>2, MergedGang
    <2>3. QED BY <1>2, <2>1, <2>2 DEF Plainly, MaxOf
<1>4. ASSUME NEW e \in Execs, NEW c \in {a, b}, StandsFor(n, c, e) PROVE StandsFor(n, w, e)
    <2>1. n.scheduled = e.scheduled
        BY <1>4 DEF StandsFor
    <2>2. Covered(Cores, NumCores, w.avail, e.free, e.now)
        <3>1. Covered(Cores, NumCores, a.avail, e.free, e.now) \/ Covered(Cores, NumCores, b.avail, e.free, e.now)
            BY <1>4 DEF StandsFor
        <3>2. e.free \in [Cores -> Nat] /\ e.now \in Nat
            BY ExecFacts
        <3>3. QED BY <1>1, <1>2, <3>1, <3>2, CoresFacts, CoveredMerge
    <2>3. QED BY <2>1, <2>2 DEF StandsFor
<1>5. QED BY <1>3, <1>4

\* From the step with which it stands for an execution, the state that is being
\* merged does.
LEMMA ChainStands ==
    ASSUME DataOK, NEW n, NEW S, \A t \in S : Plainly(n, t), NEW s, Plainly(n, s),
           NEW last \in Nat, NEW chain, IsChain(chain, last, S, s)
    PROVE  /\ \A i \in 0..last : Plainly(n, chain[i])
           /\ \A e \in Execs : \A i \in 0..last :
                StandsFor(n, chain[i], e) => StandsFor(n, chain[last], e)
<1>1. \A i \in 0..last : Plainly(n, chain[i])
    <2> DEFINE Bad == {i \in 0..last : ~Plainly(n, chain[i])}
    <2>1. SUFFICES ASSUME Bad # {} PROVE FALSE
        OBVIOUS
    <2>2. Bad \in SUBSET Nat
        OBVIOUS
    <2>3. PICK i \in Bad : \A h \in Bad : i <= h
        <3> HIDE DEF Bad
        <3>1. QED BY <2>1, <2>2, LeastNatural
    <2>4. CASE i = 0
        <3>1. PICK x \in S : chain[0] = MergeState(x, s)
            BY DEF IsChain
        <3>2. Plainly(n, chain[0])
            BY <3>1, MergedStands
        <3>3. QED BY <2>3, <2>4, <3>2
    <2>5. CASE i # 0
        <3>1. i \in 1..last /\ i - 1 \in 0..last
            BY <2>3, <2>5
        <3>2. Plainly(n, chain[i - 1])
            <4>1. i - 1 \notin Bad
                <5>1. i \in Nat /\ ~(i <= i - 1)
                    BY <3>1
                <5> HIDE DEF Bad
                <5>2. QED BY <2>3, <5>1
            <4>2. QED BY <3>1, <4>1
        <3>3. chain[i] = chain[i - 1] \/ \E t \in S : chain[i] = MergeState(chain[i - 1], t)
            BY <3>1 DEF IsChain
        <3>4. Plainly(n, chain[i])
            BY <3>2, <3>3, MergedStands
        <3>5. QED BY <2>3, <3>4
    <2>6. QED BY <2>4, <2>5
<1>2. ASSUME NEW e \in Execs, NEW i \in 0..last, StandsFor(n, chain[i], e)
      PROVE  StandsFor(n, chain[last], e)
    <2> DEFINE Bad == {k \in i..last : ~StandsFor(n, chain[k], e)}
    <2>1. SUFFICES ASSUME Bad # {} PROVE FALSE
        OBVIOUS
    <2>2. Bad \in SUBSET Nat
        OBVIOUS
    <2>3. PICK k \in Bad : \A h \in Bad : k <= h
        <3> HIDE DEF Bad
        <3>1. QED BY <2>1, <2>2, LeastNatural
    <2>4. k # i /\ k \in i..last
        BY <1>2, <2>3
    <2>5. k \in 1..last /\ k - 1 \in i..last /\ k - 1 \in 0..last
        BY <2>4
    <2>6. StandsFor(n, chain[k - 1], e)
        <3>1. k - 1 \notin Bad
            <4>1. k \in Nat /\ ~(k <= k - 1)
                BY <2>5
            <4> HIDE DEF Bad
            <4>2. QED BY <2>3, <4>1
        <3>2. QED BY <2>5, <3>1
    <2>7. chain[k] = chain[k - 1] \/ \E t \in S : chain[k] = MergeState(chain[k - 1], t)
        BY <2>5 DEF IsChain
    <2>8. StandsFor(n, chain[k], e)
        BY <1>1, <2>5, <2>6, <2>7, MergedStands
    <2>9. QED BY <2>3, <2>8
<1>3. QED BY <1>1, <1>2

\* Some state of the list stands for the execution.
AnyStands(n, states, e) == \E s \in Range(states) : StandsFor(n, s, e)

\* What the states of the list and the new state stand for, the list with the
\* new state stands for.
LEMMA MergeStatesStands ==
    ASSUME DataOK, NEW n, NEW states, IsList(states), \A t \in Range(states) : Plainly(n, t),
           NEW s, Plainly(n, s), \E i \in DOMAIN states : CanMergeWith(states[i], s),
           NEW q, q = MergeStates(states, s)
    PROVE  /\ \A t \in Range(q) : Plainly(n, t)
           /\ \A e \in Execs : AnyStands(n, states, e) \/ StandsFor(n, s, e) => AnyStands(n, q, e)
<1> DEFINE S == Range(states)
<1>1. \E last, chain :
         /\ last \in Nat /\ IsChain(chain, last, S, s)
         /\ Range(q) \subseteq S \cup {chain[last]}
         /\ NothingLost(chain, last, S, s, q)
    BY MergeStatesIsChain
<1>2. PICK last, chain :
         /\ last \in Nat /\ IsChain(chain, last, S, s)
         /\ Range(q) \subseteq S \cup {chain[last]}
         /\ NothingLost(chain, last, S, s, q)
    BY <1>1
<1>3. \A t \in S : Plainly(n, t)
    OBVIOUS
<1> HIDE DEF S
<1>4. /\ \A i \in 0..last : Plainly(n, chain[i])
      /\ \A e \in Execs : \A i \in 0..last :
            StandsFor(n, chain[i], e) => StandsFor(n, chain[last], e)
    BY <1>2, <1>3, ChainStands
<1>5. last \in 0..last /\ 0 \in 0..last /\ chain[last] \in Range(q)
    BY <1>2 DEF NothingLost
<1>6. ASSUME NEW e \in Execs, NEW t \in S, StandsFor(n, t, e) PROVE AnyStands(n, q, e)
    <2>1. CASE t \in Range(q)
        BY <1>6, <2>1 DEF AnyStands
    <2>2. CASE chain[0] = MergeState(t, s)
        <3>1. StandsFor(n, chain[0], e)
            BY <1>3, <1>6, <2>2, MergedStands
        <3>2. QED BY <1>4, <1>5, <3>1 DEF AnyStands
    <2>3. CASE \E i \in 1..last : chain[i] = MergeState(chain[i - 1], t)
        <3>1. PICK i \in 1..last : chain[i] = MergeState(chain[i - 1], t)
            BY <2>3
        <3>2. i - 1 \in 0..last /\ i \in 0..last
            BY <1>2, <3>1
        <3>3. StandsFor(n, chain[i], e)
            BY <1>3, <1>4, <1>6, <3>1, <3>2, MergedStands
        <3>4. QED BY <1>4, <1>5, <3>2, <3>3 DEF AnyStands
    <2>4. QED BY <1>2, <1>6, <2>1, <2>2, <2>3 DEF NothingLost
<1>7. ASSUME NEW e \in Execs, StandsFor(n, s, e) PROVE AnyStands(n, q, e)
    <2>1. PICK x \in S : chain[0] = MergeState(x, s)
        BY <1>2 DEF IsChain
    <2>2. StandsFor(n, chain[0], e)
        BY <1>3, <1>7, <2>1, MergedStands
    <2>3. QED BY <1>4, <1>5, <2>2 DEF AnyStands
<1>8. \A t \in Range(q) : Plainly(n, t)
    BY <1>2, <1>3, <1>4, <1>5
<1>9. QED BY <1>6, <1>7, <1>8 DEF AnyStands, S

\* A node that the new state is put into or merged into.
LEMMA NodeWithState ==
    ASSUME DataOK, NEW m, SoundNode(m), NEW w, Plainly(m, w),
           Avail(w, NumCores).max < Infinity, PendingGangs(m) # {} => w.gang < Infinity,
           NEW v, v = NewOrMergeState(m, w)
    PROVE  /\ SoundNode(v) /\ v.scheduled = m.scheduled
           /\ \A e \in Execs : AnyStands(m, m.states, e) \/ StandsFor(m, w, e) => AnyStands(v, v.states, e)
<1>1. IsNode(m) /\ IsStateOf(m, w) /\ IsState(w) /\ \A t \in Range(m.states) : Plainly(m, t)
    BY DEF SoundNode, IsNode, Plainly, IsStateOf
<1>2. IsNode(v) /\ v.scheduled = m.scheduled /\ v.ready = {}
    <2>1. IsNode(v) /\ v.scheduled = m.scheduled /\ v.ready = m.ready
        BY <1>1, NewOrMergeStateFacts
    <2>2. QED BY <2>1 DEF SoundNode
<1>3. /\ v.release = m.release /\ v.seq_release = m.seq_release /\ v.source_release = m.source_release
      /\ v.a_max = MaxOf(m.a_max, Avail(w, NumCores).max) /\ v.next_gang = MaxOf(m.next_gang, w.gang)
    <2>1. DOMAIN m = NodeFields
        BY <1>1 DEF IsNode
    <2>2. QED BY <2>1 DEF NewOrMergeState, AddState, WithBounds, NodeFields
<1>4. KnowsArrivals(v) /\ PendingGangs(v) = PendingGangs(m)
    BY <1>2, <1>3 DEF KnowsArrivals, SoundNode, PendingGangs
<1>5. InTime(v)
    <2>1. m.a_max < Infinity /\ (PendingGangs(m) # {} => m.next_gang < Infinity)
        BY DEF SoundNode, InTime
    <2>2. QED BY <1>3, <1>4, <2>1 DEF InTime, MaxOf
<1>6. /\ \A t \in Range(v.states) : Plainly(m, t)
      /\ \A e \in Execs : AnyStands(m, m.states, e) \/ StandsFor(m, w, e) => AnyStands(m, v.states, e)
    <2>1. IsList(m.states)
        BY <1>1 DEF IsNode
    <2>2. CASE \E i \in DOMAIN m.states : CanMergeWith(m.states[i], w)
        <3>1. v.states = MergeStates(m.states, w)
            <4>1. DOMAIN m = NodeFields
                BY <1>1 DEF IsNode
            <4>2. QED BY <2>2, <4>1 DEF NewOrMergeState, WithBounds, NodeFields
        <3>2. QED BY <1>1, <2>1, <2>2, <3>1, MergeStatesStands
    <2>3. CASE ~ \E i \in DOMAIN m.states : CanMergeWith(m.states[i], w)
        <3>1. v.states = Append(m.states, w)
            <4>1. DOMAIN m = NodeFields
                BY <1>1 DEF IsNode
            <4>2. QED BY <2>3, <4>1 DEF NewOrMergeState, AddState, WithBounds, NodeFields
        <3>2. /\ IsList(v.states) /\ Range(v.states) \subseteq Range(m.states) \cup {w}
              /\ DOMAIN v.states = 1..(Len(m.states) + 1) /\ v.states[Len(m.states) + 1] = w
              /\ \A k \in DOMAIN m.states : v.states[k] = m.states[k]
            BY <2>1, <3>1, AppendedFacts
        <3>3. Range(m.states) \cup {w} \subseteq Range(v.states)
            <4>1. Len(m.states) \in Nat /\ DOMAIN m.states = 1..Len(m.states)
                BY <2>1, ListFacts
            <4>2. Len(m.states) + 1 \in DOMAIN v.states /\ DOMAIN m.states \subseteq DOMAIN v.states
                BY <3>2, <4>1
            <4>3. \A k \in DOMAIN v.states : v.states[k] \in Range(v.states)
                BY <3>2, ListFacts
            <4>4. w \in Range(v.states)
                BY <3>2, <4>2, <4>3
            <4>5. ASSUME NEW t \in Range(m.states) PROVE t \in Range(v.states)
                <5>1. PICK k \in DOMAIN m.states : m.states[k] = t
                    BY <2>1, ListFacts
                <5>2. QED BY <3>2, <4>2, <4>3, <5>1
            <4>6. QED BY <4>4, <4>5
        <3>4. QED BY <1>1, <3>2, <3>3 DEF AnyStands
    <2>4. QED BY <2>2, <2>3
<1>7. /\ \A s, e : StandsFor(v, s, e) <=> StandsFor(m, s, e)
      /\ \A s : CertainGang(v, s) <=> CertainGang(m, s)
    BY <1>2, <1>4 DEF StandsFor, CertainGang
<1>8. SoundNode(v)
    BY <1>2, <1>4, <1>5, <1>6, <1>7 DEF SoundNode, Plainly
<1>9. QED BY <1>2, <1>6, <1>7, <1>8 DEF AnyStands

-----------------------------------------------------------------------------
(***************************************************************************)
(* The initial node and state.                                             *)
(***************************************************************************)
\* An execution before its first dispatch.
Start(e) ==
    /\ e \in Execs /\ e.scheduled = {} /\ e.now = 0
    /\ \A c \in Cores : problem.platform[c].min <= e.free[c] /\ e.free[c] <= problem.platform[c].max

LEMMA InitialNodeIsSound ==
    ASSUME DataOK, Simple
    PROVE  SoundNode(InitialNode)
<1>1. /\ IsNode(InitialNode) /\ InitialNode.ready = {} /\ InitialNode.scheduled = {}
    BY InitialNodeFacts
<1>2. /\ InitialNode.release = Earliest({Arrival(k).min : k \in Jobs})
      /\ InitialNode.seq_release = Earliest(LatestArrivals(SequentialIndependentJobs))
      /\ InitialNode.source_release = Earliest(LatestArrivals(Jobs))
      /\ InitialNode.a_max = 0 /\ InitialNode.next_gang = 0 /\ InitialNode.states = <<>>
    BY SimpleFacts DEF InitialNode
<1>3. Jobs \ {} = Jobs /\ SequentialIndependentJobs \ {} = SequentialIndependentJobs
    OBVIOUS
<1>4. KnowsArrivals(InitialNode)
    BY <1>1, <1>2, <1>3 DEF KnowsArrivals
<1>5. 0 < Infinity
    BY SimpleFacts
<1>6. Range(InitialNode.states) = {}
    BY <1>2, EmptyList
<1>7. QED BY <1>1, <1>2, <1>4, <1>5, <1>6 DEF SoundNode, InTime

\* The earliest and the latest instants of the cores.
Mins == [i \in Cores |-> problem.platform[i].min]
Maxs == [i \in Cores |-> problem.platform[i].max]

LEMMA PlatformFacts ==
    ASSUME DataOK
    PROVE  /\ Mins \in [Cores -> Nat] /\ Maxs \in [Cores -> Nat]
           /\ \A p \in Cores :
                /\ FreeBy(Mins, p) \in Nat /\ FreeBy(Maxs, p) \in Nat
                /\ Avail(InitialState, p) = Interval(FreeBy(Mins, p), FreeBy(Maxs, p))
                /\ Avail(InitialState, p).min <= FreeBy(Mins, p)
                /\ FreeBy(Maxs, p) <= Avail(InitialState, p).max
<1>1. Mins \in [Cores -> Nat] /\ Maxs \in [Cores -> Nat]
    <2>1. \A c \in Cores : problem.platform[c].min \in Nat /\ problem.platform[c].max \in Nat
        BY ProblemFacts, IntervalType DEF Cores
    <2>2. QED BY <2>1 DEF Mins, Maxs
<1>2. \A p \in Cores : FreeBy(Mins, p) \in Nat /\ FreeBy(Maxs, p) \in Nat
    BY <1>1, FreeByFacts DEF Cores
<1>3. \A p \in Cores : Avail(InitialState, p) = Interval(FreeBy(Mins, p), FreeBy(Maxs, p))
    BY DEF InitialState, Avail, Mins, Maxs, Cores
<1>4. QED BY <1>1, <1>2, <1>3 DEF Interval

\* Nobody supposes less of when the cores become available.
LEMMA InitialCovered ==
    ASSUME DataOK, NEW e, Start(e)
    PROVE  Covered(Cores, NumCores, InitialState.avail, e.free, e.now)
<1>1. /\ e.free \in [Cores -> Nat]
      /\ \A c \in Cores : Mins[c] <= e.free[c] /\ e.free[c] <= Maxs[c]
    BY ExecFacts DEF Start, Mins, Maxs
<1>2. /\ NumCores \in Nat \ {0} /\ IsFiniteSet(Cores) /\ Cardinality(Cores) = NumCores
      /\ Cores \subseteq Int
    BY CoresFacts DEF Cores
<1>3. ASSUME NEW p \in 1..NumCores
      PROVE  Cardinality(FreeAt(Cores, e.free, InitialState.avail[p].max)) >= p
    <2>1. PICK b \in Nat : b = FreeBy(Maxs, p)
        BY PlatformFacts DEF Cores
    <2>2. PICK c \in Cores : Maxs[c] = b /\ Cardinality({k \in 1..NumCores : Maxs[k] <= Maxs[c]}) >= p
        BY <2>1, PlatformFacts, FreeByFacts DEF Cores
    <2>3. PICK hi \in Int : hi = InitialState.avail[p].max /\ b <= hi
        <3>1. p \in Cores
            BY DEF Cores
        <3>2. b <= InitialState.avail[p].max
            BY <2>1, <3>1, PlatformFacts DEF Avail
        <3>3. Avail(InitialState, p) = Interval(FreeBy(Mins, p), b) /\ FreeBy(Mins, p) \in Nat
            BY <2>1, <3>1, PlatformFacts
        <3>4. InitialState.avail[p].max \in Int
            BY <3>3 DEF Avail, Interval
        <3>5. QED BY <3>2, <3>4
    <2>4. {k \in 1..NumCores : Maxs[k] <= Maxs[c]} \subseteq FreeAt(Cores, e.free, hi)
        <3>1. ASSUME NEW k \in Cores, Maxs[k] <= b PROVE e.free[k] <= hi
            <4>1. e.free[k] \in Nat /\ Maxs[k] \in Nat /\ e.free[k] <= Maxs[k]
                BY <1>1, PlatformFacts
            <4>2. QED BY <2>3, <3>1, <4>1
        <3>2. QED BY <2>2, <3>1 DEF FreeAt, Cores
    <2>5. PICK A : A = {k \in 1..NumCores : Maxs[k] <= Maxs[c]}
        OBVIOUS
    <2>6. PICK B : B = FreeAt(Cores, e.free, hi)
        OBVIOUS
    <2>7. A \in SUBSET Cores /\ B \in SUBSET Cores /\ A \subseteq B
        BY <2>4, <2>5, <2>6 DEF FreeAt, Cores
    <2>8. Cardinality(A) \in Nat /\ Cardinality(B) \in Nat /\ Cardinality(A) <= Cardinality(B)
        BY <1>2, <2>7, SubsetSizes
    <2>9. Cardinality(A) >= p
        BY <2>2, <2>5
    <2>10. Cardinality(B) >= p
        BY <2>8, <2>9
    <2>11. QED BY <2>3, <2>6, <2>10
<1>4. ASSUME NEW p \in 1..NumCores, e.now < InitialState.avail[p].min
      PROVE  Cardinality(FreeBefore(Cores, e.free, InitialState.avail[p].min)) < p
    <2>1. PICK b \in Nat : b = FreeBy(Mins, p)
        BY PlatformFacts DEF Cores
    <2>2. PICK lo \in Int : lo = InitialState.avail[p].min /\ lo <= b
        <3>1. p \in Cores
            BY DEF Cores
        <3>2. InitialState.avail[p].min <= b
            BY <2>1, <3>1, PlatformFacts DEF Avail
        <3>3. Avail(InitialState, p) = Interval(b, FreeBy(Maxs, p)) /\ FreeBy(Maxs, p) \in Nat
            BY <2>1, <3>1, PlatformFacts
        <3>4. InitialState.avail[p].min \in Int
            BY <3>3 DEF Avail, Interval
        <3>5. QED BY <3>2, <3>4
    <2>3. PICK A : A = FreeBefore(Cores, e.free, lo)
        OBVIOUS
    <2>4. A \in SUBSET Cores /\ Cardinality(A) \in Nat /\ IsFiniteSet(A)
        <3>1. A \in SUBSET Cores
            BY <2>3 DEF FreeBefore
        <3>2. IsFiniteSet(A)
            BY <1>2, <3>1, FS_Subset
        <3>3. QED BY <1>2, <3>1, <3>2, SubsetSizes
    <2>5. SUFFICES ASSUME Cardinality(A) >= p PROVE FALSE
        BY <1>2, <2>2, <2>3, <2>4
    <2>6. A # {}
        BY <2>5, FS_EmptySet
    <2>7. PICK c \in A : \A k \in A : Mins[k] <= Mins[c]
        <3> DEFINE f == [k \in A |-> Mins[k]]
                   T == {f[k] : k \in DOMAIN f}
        <3>1. IsFiniteSet(T)
            BY <2>4, FiniteImage
        <3>2. T \in SUBSET Int /\ T # {} /\ \A k \in A : Mins[k] \in T
            BY <2>4, <2>6, PlatformFacts
        <3>3. \A y \in T : \E k \in A : Mins[k] = y
            OBVIOUS
        <3> HIDE DEF T
        <3>4. Max(T) \in T /\ \A x \in T : x <= Max(T)
            BY <3>1, <3>2, MaxFacts
        <3>5. QED BY <3>2, <3>3, <3>4
    <2>8. PICK B : B = {k \in 1..NumCores : Mins[k] <= Mins[c]}
        OBVIOUS
    <2>9. B \in SUBSET Cores /\ A \subseteq B
        BY <2>4, <2>7, <2>8 DEF Cores
    <2>10. Cardinality(B) \in Nat /\ Cardinality(A) <= Cardinality(B)
        BY <1>2, <2>4, <2>9, SubsetSizes
    <2>11. Cardinality(B) >= p
        BY <2>4, <2>5, <2>10
    <2>12. c \in Cores /\ Mins[c] \in Nat /\ e.free[c] \in Nat
        BY <1>1, <2>4, PlatformFacts
    <2>13. b <= Mins[c]
        BY <2>1, <2>8, <2>11, <2>12, PlatformFacts, FreeByFacts DEF Cores
    <2>14. Mins[c] <= e.free[c] /\ e.free[c] < lo
        BY <1>1, <2>3, <2>7, <2>12 DEF FreeBefore
    <2>15. QED BY <2>2, <2>12, <2>13, <2>14
<1>5. QED BY <1>3, <1>4 DEF Covered

\* When p cores are free, they are free by then.
LEMMA FreeByThen ==
    ASSUME DataOK, NEW h \in [Cores -> Nat], NEW p \in Cores, NEW x \in Nat,
           Cardinality({c \in Cores : h[c] <= x}) >= p
    PROVE  FreeBy(h, p) <= x
<1>1. PICK A : A = {c \in Cores : h[c] <= x}
    OBVIOUS
<1>2. A \in SUBSET Cores /\ IsFiniteSet(A) /\ Cardinality(A) >= p
    <2>1. A \in SUBSET Cores
        BY <1>1
    <2>2. IsFiniteSet(A)
        BY <2>1, CoresFacts, FS_Subset
    <2>3. QED BY <1>1, <2>1, <2>2
<1>3. A # {}
    <2>1. Cardinality({}) = 0
        BY FS_EmptySet
    <2>2. p \in Int /\ p > 0
        BY DEF Cores
    <2>3. ASSUME A = {} PROVE FALSE
        <3>1. 0 >= p
            BY <1>2, <2>1, <2>3
        <3>2. QED BY <2>2, <3>1
    <2>4. QED BY <2>3
<1>4. PICK f : f = [c \in A |-> h[c]]
    OBVIOUS
<1>5. PICK V : V = {f[c] : c \in A}
    OBVIOUS
<1>6. V \in SUBSET Int /\ IsFiniteSet(V) /\ V # {}
    <2>1. DOMAIN f = A
        BY <1>4
    <2>2. IsFiniteSet(V)
        BY <1>2, <1>5, <2>1, FiniteImage
    <2>3. QED BY <1>2, <1>3, <1>4, <1>5, <2>2
<1>7. PICK c \in A : \A k \in A : h[k] <= h[c]
    <2>1. Max(V) \in V /\ \A v \in V : v <= Max(V)
        BY <1>6, MaxFacts
    <2>2. PICK c \in A : Max(V) = f[c]
        BY <1>5, <2>1
    <2>3. QED BY <1>4, <1>5, <2>1, <2>2
<1>8. PICK B : B = {k \in Cores : h[k] <= h[c]}
    OBVIOUS
<1>9. A \subseteq B /\ B \in SUBSET Cores
    BY <1>2, <1>7, <1>8
<1>10. Cardinality(A) \in Nat /\ Cardinality(B) \in Nat /\ Cardinality(A) <= Cardinality(B)
    BY <1>2, <1>9, CoresFacts, SubsetSizes
<1>11. Cardinality(B) >= p
    BY <1>2, <1>10 DEF Cores
<1>12. FreeBy(h, p) <= h[c] /\ FreeBy(h, p) \in Nat
    BY <1>2, <1>8, <1>11, FreeByFacts DEF Cores
<1>13. h[c] <= x /\ h[c] \in Nat
    BY <1>1, <1>2
<1>14. QED BY <1>12, <1>13

LEMMA InitialStateIsSound ==
    ASSUME DataOK, Simple, NEW w, w = InitialState
    PROVE  /\ Plainly(InitialNode, w) /\ Avail(w, NumCores).max < Infinity
           /\ PendingGangs(InitialNode) # {} => w.gang < Infinity
           /\ \A e : Start(e) => StandsFor(InitialNode, w, e)
<1>1. /\ IsStateOf(InitialNode, w) /\ InitialNode.scheduled = {}
      /\ w.succ = Infinity /\ w.gang = Earliest(LatestArrivals(GangIndependentJobs))
      /\ w.mutex = Earliest(LatestArrivals(MutexSourceJobs))
    BY InitialStateFacts, InitialNodeFacts DEF InitialState
<1>2. PendingGangs(InitialNode) = GangIndependentJobs /\ GangIndependentJobs \in SUBSET Jobs
    BY <1>1, ClassesOfJobs DEF PendingGangs
<1>3. Infinity \in Nat
    BY ProblemsAssumption
<1>4. w.mutex = Infinity
    <2>1. LatestArrivals(MutexSourceJobs) = {}
        BY SimpleFacts DEF LatestArrivals
    <2>2. Earliest({}) = Infinity
        BY <1>3, FS_EmptySet, EarliestIs
    <2>3. QED BY <1>1, <2>1, <2>2
<1>5. Avail(w, NumCores).max < Infinity
    <2>1. NumCores \in Cores /\ Cores = 1..NumCores
        BY CoresFacts DEF Cores
    <2>2. \A c \in Cores : Mins[c] < Infinity /\ Maxs[c] < Infinity
        <3>1. ASSUME NEW c \in Cores PROVE Mins[c] < Infinity /\ Maxs[c] < Infinity
            <4>1. /\ problem.platform[c].min \in Nat /\ problem.platform[c].max \in Nat
                  /\ problem.platform[c].min <= problem.platform[c].max
                BY ProblemFacts, IntervalType DEF Cores
            <4>2. problem.platform[c].max < Infinity
                BY DEF Simple, Bounded, Cores
            <4>3. QED BY <1>3, <4>1, <4>2 DEF Mins, Maxs
        <3>2. QED BY <3>1
    <2>3. \A p \in Cores : FreeBy(Mins, p) < Infinity /\ FreeBy(Maxs, p) < Infinity
        BY <2>1, <2>2, PlatformFacts, FreeByFacts
    <2>4. QED BY <2>1, <2>3, PlatformFacts DEF Interval
<1>6. ASSUME GangIndependentJobs # {} PROVE w.gang < Infinity
    <2>1. PICK k \in GangIndependentJobs : TRUE
        BY <1>6
    <2>2. PICK T : T = LatestArrivals(GangIndependentJobs)
        OBVIOUS
    <2>3. T \in SUBSET Int /\ IsFiniteSet(T) /\ Arrival(k).max \in T
        BY <1>2, <2>1, <2>2, ArrivalsFacts DEF LatestArrivals
    <2>4. Earliest(T) \in Int /\ Earliest(T) <= Arrival(k).max
        BY <2>3, EarliestFacts
    <2>5. Arrival(k).max \in Nat /\ Arrival(k).max < Infinity
        BY <1>2, <2>1, JobFacts DEF Simple, Bounded
    <2>6. QED BY <1>1, <1>3, <2>2, <2>4, <2>5
<1>7. ASSUME NEW e, Start(e) PROVE StandsFor(InitialNode, w, e)
    <2>1. Covered(Cores, NumCores, w.avail, e.free, e.now) /\ e.scheduled = {} /\ e \in Execs
        BY <1>7, InitialCovered DEF Start
    <2>2. QED BY <1>1, <2>1 DEF StandsFor
<1>8. CertainGang(InitialNode, w)
    <2>1. SUFFICES ASSUME w.gang < Infinity
                   PROVE  \E k \in GangIndependentJobs :
                             Arrival(k).max <= w.gang /\ Avail(w, MinParallelism(k)).max <= w.gang
        BY <1>2 DEF CertainGang
    <2>2. PICK T : T = LatestArrivals(GangIndependentJobs)
        OBVIOUS
    <2>3. T \in SUBSET Int /\ IsFiniteSet(T)
        BY <1>2, <2>2, ArrivalsFacts
    <2>4. Earliest(T) \in T \cup {Infinity} /\ Earliest(T) \in Int
        BY <2>3, EarliestFacts
    <2>5. w.gang \in T /\ w.gang \in Int
        BY <1>1, <1>3, <2>1, <2>2, <2>4
    <2>6. PICK k \in GangIndependentJobs : w.gang = Arrival(k).max
        BY <2>2, <2>5 DEF LatestArrivals
    <2>7. k \in Jobs /\ MinParallelism(k) > 1
        BY SimpleFacts
    <2>8. PICK q \in Cores, x \in Nat : q = MinParallelism(k) /\ x = Arrival(k).max
        BY <2>7, JobFacts DEF Cores
    <2>9. PICK A, B : A = {c \in Cores : Maxs[c] <= x} /\ B = {c \in Cores : Mins[c] <= x}
        OBVIOUS
    <2>10. Cardinality(A) >= q
        <3>1. Cardinality({c \in 1..NumCores : problem.platform[c].max <= Arrival(k).max}) >= MinParallelism(k)
            BY <2>7 DEF Simple, GangsFit
        <3>2. A = {c \in 1..NumCores : problem.platform[c].max <= Arrival(k).max}
            BY <2>8, <2>9 DEF Maxs, Cores
        <3>3. QED BY <2>8, <3>1, <3>2
    <2>11. Cardinality(B) >= q
        <3>1. A \subseteq B /\ B \in SUBSET Cores
            <4>1. \A c \in Cores : Mins[c] \in Nat /\ Maxs[c] \in Nat /\ Mins[c] <= Maxs[c]
                BY ProblemFacts, IntervalType DEF Mins, Maxs, Cores
            <4>2. QED BY <2>8, <2>9, <4>1
        <3>2. Cardinality(A) \in Nat /\ Cardinality(B) \in Nat /\ Cardinality(A) <= Cardinality(B)
            BY <3>1, CoresFacts, SubsetSizes
        <3>3. QED BY <2>8, <2>10, <3>2 DEF Cores
    <2>12. FreeBy(Maxs, q) \in Nat /\ FreeBy(Maxs, q) <= x
        BY <2>8, <2>9, <2>10, PlatformFacts, FreeByThen
    <2>13. FreeBy(Mins, q) \in Nat /\ FreeBy(Mins, q) <= x
        BY <2>8, <2>9, <2>11, PlatformFacts, FreeByThen
    <2>14. Avail(w, q) = Interval(FreeBy(Mins, q), FreeBy(Maxs, q))
        BY <2>8, PlatformFacts
    <2>15. Avail(w, q).max <= x
        BY <2>12, <2>13, <2>14 DEF Interval
    <2>16. QED BY <2>6, <2>8, <2>15
<1>9. QED BY <1>1, <1>2, <1>4, <1>5, <1>6, <1>7, <1>8 DEF Plainly

-----------------------------------------------------------------------------
(***************************************************************************)
(* The executions with some number of dispatches.                          *)
(***************************************************************************)
\* A dispatch: the job, when and on which cores it starts, when it completes.
Dispatches == [job : Jobs, at : Nat, on : SUBSET Cores, until : Nat]
Takes(e, r) == Runs(e, r.job, r.at, Cardinality(r.on), r.on, r.until)
Result(e, r) == Then(e, r.job, r.at, r.on, r.until)

\* Executions with d dispatches.
Reached(e, d) ==
    \E h : /\ Start(h[0]) /\ h[d] = e
           /\ \A i \in 0..d : h[i] \in Execs
           /\ \A i \in 1..d : \E r \in Dispatches : Takes(h[i - 1], r) /\ h[i] = Result(h[i - 1], r)

LEMMA TakesFacts ==
    ASSUME DataOK, NEW e \in Execs, NEW r \in Dispatches, Takes(e, r)
    PROVE  /\ Result(e, r) \in Execs /\ Result(e, r).arrival = e.arrival
           /\ Result(e, r).scheduled = e.scheduled \cup {r.job} /\ Result(e, r).now = r.at
           /\ r.job \in Jobs \ e.scheduled /\ e.now <= r.at
           /\ Cardinality(r.on) \in Cores /\ Cardinality(r.on) \in Parallelism(r.job)
           /\ r.at \in Nat /\ r.until \in Nat
<1>1. r.at \in Nat /\ r.until \in Nat
    BY DEF Dispatches
<1>2. Chosen(e, r.job, r.at, Cardinality(r.on)) /\ Runs(e, r.job, r.at, Cardinality(r.on), r.on, r.until)
    BY DEF Takes, Runs
<1>3. e.now <= r.at /\ r.job \in Jobs /\ r.job \notin e.scheduled /\ Cardinality(r.on) \in Cores
    BY <1>1, <1>2, ChosenIsFirst
<1>4. Cardinality(r.on) \in Parallelism(r.job)
    BY <1>2 DEF Chosen
<1>5. PICK g : g = Then(e, r.job, r.at, r.on, r.until)
    OBVIOUS
<1>6. /\ g \in Execs /\ g.arrival = e.arrival /\ g.scheduled = e.scheduled \cup {r.job}
      /\ g.now = r.at
    <2>1. DataOK /\ e \in Execs
        OBVIOUS
    <2>2. PICK t \in Nat, x \in Nat : t = r.at /\ x = r.until
        BY <1>1
    <2>3. Runs(e, r.job, t, Cardinality(r.on), r.on, x) /\ g = Then(e, r.job, t, r.on, x)
        BY <1>2, <1>5, <2>2
    <2>4. PICK j, S, p : j = r.job /\ S = r.on /\ p = Cardinality(r.on)
        OBVIOUS
    <2>5. Runs(e, j, t, p, S, x) /\ g = Then(e, j, t, S, x)
        BY <2>3, <2>4
    <2>6. g \in Execs
        BY ONLY <2>1, <2>2, <2>5, ThenFacts
    <2>7. g.arrival = e.arrival /\ g.scheduled = e.scheduled \cup {j} /\ g.now = t
        BY <2>5 DEF Then
    <2>8. QED BY <2>2, <2>4, <2>6, <2>7
<1>7. QED BY <1>1, <1>3, <1>4, <1>5, <1>6 DEF Result

LEMMA ReachedFacts ==
    /\ \A e : Reached(e, 0) <=> Start(e)
    /\ \A e, d : d \in Nat /\ Reached(e, d) => e \in Execs
<1>1. ASSUME NEW e, Reached(e, 0) PROVE Start(e)
    BY <1>1 DEF Reached
<1>2. ASSUME NEW e, Start(e) PROVE Reached(e, 0)
    <2> DEFINE h == [i \in {0} |-> e]
    <2>1. h[0] = e /\ 0..0 = {0} /\ 1..0 = {} /\ e \in Execs
        BY <1>2 DEF Start
    <2> HIDE DEF h
    <2>2. QED BY <1>2, <2>1 DEF Reached
<1>3. ASSUME NEW e, NEW d \in Nat, Reached(e, d) PROVE e \in Execs
    <2>1. d \in 0..d
        OBVIOUS
    <2>2. QED BY <1>3, <2>1 DEF Reached
<1>4. QED BY <1>1, <1>2, <1>3

\* One dispatch more, and one less.
LEMMA ReachedNext ==
    ASSUME DataOK, NEW d \in Nat
    PROVE  /\ \A e : \A r \in Dispatches : Reached(e, d) /\ Takes(e, r) => Reached(Result(e, r), d + 1)
           /\ \A g : Reached(g, d + 1) =>
                \E e : \E r \in Dispatches : Reached(e, d) /\ Takes(e, r) /\ g = Result(e, r)
<1>1. ASSUME NEW e, NEW r \in Dispatches, Reached(e, d), Takes(e, r)
      PROVE  Reached(Result(e, r), d + 1)
    <2>1. PICK h : /\ Start(h[0]) /\ h[d] = e
                   /\ \A i \in 0..d : h[i] \in Execs
                   /\ \A i \in 1..d : \E x \in Dispatches : Takes(h[i - 1], x) /\ h[i] = Result(h[i - 1], x)
        BY <1>1 DEF Reached
    <2>2. d \in 0..d /\ 0 \in 0..d
        OBVIOUS
    <2>3. PICK g : g = Result(e, r)
        OBVIOUS
    <2>4. g \in Execs
        BY <1>1, <2>1, <2>2, <2>3, TakesFacts
    <2> DEFINE f == [i \in 0..(d + 1) |-> IF i = d + 1 THEN g ELSE h[i]]
    <2>5. /\ f[d + 1] = g /\ \A i \in 0..d : f[i] = h[i]
        OBVIOUS
    <2> HIDE DEF f
    <2>6. Start(f[0])
        BY <2>1, <2>2, <2>5
    <2>7. \A i \in 0..(d + 1) : f[i] \in Execs
        <3>1. ASSUME NEW i \in 0..(d + 1) PROVE i = d + 1 \/ i \in 0..d
            OBVIOUS
        <3>2. QED BY <2>1, <2>4, <2>5, <3>1
    <2>8. ASSUME NEW i \in 1..(d + 1)
          PROVE  \E x \in Dispatches : Takes(f[i - 1], x) /\ f[i] = Result(f[i - 1], x)
        <3>1. CASE i = d + 1
            <4>1. i - 1 = d
                BY <3>1
            <4>2. f[i - 1] = e /\ f[i] = g
                BY <2>1, <2>2, <2>5, <3>1, <4>1
            <4>3. QED BY <1>1, <2>3, <4>2
        <3>2. CASE i # d + 1
            <4>1. i \in 1..d /\ i \in 0..d /\ i - 1 \in 0..d
                BY <3>2
            <4>2. f[i - 1] = h[i - 1] /\ f[i] = h[i]
                BY <2>5, <4>1
            <4>3. QED BY <2>1, <4>1, <4>2
        <3>3. QED BY <3>1, <3>2
    <2>9. QED BY <2>3, <2>5, <2>6, <2>7, <2>8 DEF Reached
<1>2. ASSUME NEW g, Reached(g, d + 1)
      PROVE  \E e : \E r \in Dispatches : Reached(e, d) /\ Takes(e, r) /\ g = Result(e, r)
    <2>1. PICK h : /\ Start(h[0]) /\ h[d + 1] = g
                   /\ \A i \in 0..(d + 1) : h[i] \in Execs
                   /\ \A i \in 1..(d + 1) :
                        \E x \in Dispatches : Takes(h[i - 1], x) /\ h[i] = Result(h[i - 1], x)
        BY <1>2 DEF Reached
    <2>2. d + 1 \in 1..(d + 1) /\ (d + 1) - 1 = d /\ 0..d \subseteq 0..(d + 1) /\ 1..d \subseteq 1..(d + 1)
        OBVIOUS
    <2>3. PICK r \in Dispatches : Takes(h[d], r) /\ h[d + 1] = Result(h[d], r)
        BY <2>1, <2>2
    <2>4. Reached(h[d], d)
        BY <2>1, <2>2 DEF Reached
    <2>5. QED BY <2>1, <2>3, <2>4
<1>3. QED BY <1>1, <1>2

-----------------------------------------------------------------------------
(***************************************************************************)
(* A dispatch of the exploration follows the executions.                   *)
(***************************************************************************)
\* What an execution does next is an option of the node.
LEMMA NextIsOption ==
    ASSUME DataOK, Simple, NEW n, SoundNode(n), NEW i \in DOMAIN n.states,
           NEW e \in Execs, StandsFor(n, n.states[i], e), NEW r \in Dispatches, Takes(e, r)
    PROVE  r.job \in Candidates(n) /\ <<i, Cardinality(r.on)>> \in Options(n, r.job)
<1>1. PICK s \in Range(n.states) : s = n.states[i]
    BY ListFacts DEF SoundNode, IsNode
<1>2. PICK p : p = Cardinality(r.on)
    OBVIOUS
<1>3. PICK t \in Nat : t = r.at
    BY DEF Dispatches
<1>4. Chosen(e, r.job, t, p)
    BY <1>2, <1>3 DEF Takes, Runs
<1>5. r.job \in Candidates(n) /\ Feasible(n, s, r.job, p)
    <2>1. /\ DataOK /\ Simple /\ SoundNode(n) /\ s \in Range(n.states)
          /\ e \in Execs /\ StandsFor(n, s, e)
        BY <1>1
    <2>2. QED BY ONLY <1>3, <1>4, <2>1, NextDispatch
<1>6. p \in Parallelism(r.job)
    BY <1>4 DEF Chosen
<1>7. QED BY <1>1, <1>2, <1>5, <1>6 DEF Options

\* The dispatch that an execution makes lies within its times.
LEMMA TimesCover ==
    ASSUME DataOK, Simple, NEW n, SoundNode(n), NEW s \in Range(n.states),
           NEW e \in Execs, StandsFor(n, s, e), NEW r \in Dispatches, Takes(e, r),
           exploring # Idle, n = exploring.node, s = CurrentState, r.job = CurrentJob,
           Cardinality(r.on) = CurrentOption[2]
    PROVE  /\ StartTimes.min <= r.at /\ r.at <= StartTimes.max
           /\ FinishTimes.min <= r.until /\ r.until <= FinishTimes.max
<1>1. PICK p : p = Cardinality(r.on) /\ p = CurrentOption[2]
    OBVIOUS
<1>2. PICK t \in Nat, x \in Nat : t = r.at /\ x = r.until
    BY DEF Dispatches
<1>3. PICK j \in Jobs : j = r.job
    BY DEF Dispatches
<1>4. Chosen(e, j, t, p) /\ t + Cost(j)[p].min <= x /\ x <= t + Cost(j)[p].max
    BY <1>1, <1>2, <1>3 DEF Takes, Runs
<1>5. PICK est, lst : est = EarliestStart(n, s, j, p) /\ lst = LatestStart(n, s, j, p)
    OBVIOUS
<1>6. est \in Nat /\ est <= t /\ lst \in Int /\ t <= lst
    <2>1. /\ DataOK /\ Simple /\ SoundNode(n) /\ s \in Range(n.states)
          /\ e \in Execs /\ StandsFor(n, s, e)
        OBVIOUS
    <2>2. /\ EarliestStart(n, s, j, p) \in Nat /\ EarliestStart(n, s, j, p) <= t
          /\ LatestStart(n, s, j, p) \in Int /\ t <= LatestStart(n, s, j, p)
        BY ONLY <1>2, <1>4, <2>1, NextDispatch
    <2>3. QED BY <1>5, <2>2
<1>7. StartTimes = [min |-> est, max |-> lst]
    BY <1>1, <1>3, <1>5, <1>6 DEF StartTimes, Interval
<1>8. PICK lo \in Nat, hi \in Nat : Cost(j)[p].min = lo /\ Cost(j)[p].max = hi /\ lo <= hi
    <2>1. p \in Parallelism(j)
        BY <1>4 DEF Chosen
    <2>2. Cost(j)[p] \in Intervals(Nat)
        BY <2>1, JobFacts
    <2>3. QED BY <2>2, IntervalType
<1>9. FinishTimes = Interval(est + lo, lst + hi)
    <2>1. DOMAIN problem.abort = {} /\ CurrentJob = j
        BY <1>3 DEF Simple, Independent
    <2>2. QED BY <1>1, <1>7, <1>8, <2>1 DEF FinishTimes, AbortTimes
<1>10. FinishTimes = [min |-> est + lo, max |-> lst + hi]
    BY <1>6, <1>8, <1>9 DEF Interval
<1>11. QED BY <1>2, <1>4, <1>6, <1>7, <1>8, <1>10

\* None of the jobs has an abort action.
LEMMA SimpleIsClear ==
    ASSUME Simple
    PROVE  TriggerIsClear
BY DEF Simple, Independent, TriggerIsClear

\* The node dispatched to is as sound as the one it was, stands for what it
\* stood for, and for the executions that made the dispatch.
LEMMA TargetIsSound ==
    ASSUME DataOK, Simple, exploring # Idle, IsExpansion(exploring),
           NEW n, n = exploring.node, SoundNode(n),
           NEW m, m = TargetLayer[Place], SoundNode(m), m.scheduled = n.scheduled \cup {CurrentJob},
           CurrentJob \notin n.scheduled, FinishTimes.max < Infinity
    PROVE  /\ SoundNode(Target) /\ Target.scheduled = m.scheduled
           /\ \A e \in Execs : AnyStands(m, m.states, e) => AnyStands(Target, Target.states, e)
           /\ \A e \in Execs : \A r \in Dispatches :
                /\ Takes(e, r) /\ StandsFor(n, CurrentState, e)
                /\ r.job = CurrentJob /\ Cardinality(r.on) = CurrentOption[2]
                => AnyStands(Target, Target.states, Result(e, r))
<1>1. PICK j, p, s, start, finish :
         /\ j = CurrentJob /\ p = CurrentOption[2] /\ s = CurrentState
         /\ start = StartTimes /\ finish = FinishTimes
    OBVIOUS
<1>2. j \in Jobs /\ j \notin n.scheduled /\ s \in Range(n.states) /\ p \in Cores
    BY <1>1, OptionFacts, StartFacts DEF Cores
<1>3. TimesOf(n, s, j, p, start, finish)
    <2>1. start \in Intervals(Nat) /\ Avail(s, p).min <= start.min
        BY <1>1, StartFacts
    <2>2. finish \in Intervals(Nat) /\ start.min <= finish.min /\ start.max <= finish.max
        BY <1>1, SimpleIsClear, FinishFacts
    <2>3. QED BY <1>2, <2>1, <2>2 DEF TimesOf
<1>4. PICK w : w = NewState(m, s, j, start, finish, p)
    OBVIOUS
<1>5. Target = NewOrMergeState(m, w)
    BY <1>1, <1>4 DEF Target
<1>6. DataOK /\ Simple /\ SoundNode(n) /\ SoundNode(m) /\ m.scheduled = n.scheduled \cup {j} /\ finish.max < Infinity
    BY <1>1
<1>7. Plainly(m, w)
    <2>1. /\ IsStateOf(m, w) /\ w.succ = Infinity /\ w.mutex = Infinity
          /\ w.avail = Update(s.avail, start, finish, p, 0)
          /\ w.gang = Earliest({CertainlyFits(w, k) : k \in PendingGangs(m)})
        BY ONLY <1>2, <1>3, <1>4, <1>6, NewStateFields
    <2>2. CertainGang(m, w)
        BY ONLY <1>2, <1>3, <1>4, <1>6, NewStateGang
    <2>3. QED BY <2>1, <2>2 DEF Plainly
<1>8. Avail(w, NumCores).max < Infinity /\ (PendingGangs(m) # {} => w.gang < Infinity)
    BY ONLY <1>2, <1>3, <1>4, <1>6, NewStateInTime
<1>9. /\ SoundNode(Target) /\ Target.scheduled = m.scheduled
      /\ \A e \in Execs : AnyStands(m, m.states, e) \/ StandsFor(m, w, e) => AnyStands(Target, Target.states, e)
    BY ONLY <1>5, <1>6, <1>7, <1>8, NodeWithState
<1>10. ASSUME NEW e \in Execs, NEW r \in Dispatches, Takes(e, r), StandsFor(n, s, e),
              r.job = j, Cardinality(r.on) = p
       PROVE  AnyStands(Target, Target.states, Result(e, r))
    <2>1. PICK t \in Nat, x \in Nat, S \in SUBSET Cores : t = r.at /\ x = r.until /\ S = r.on
        BY DEF Dispatches
    <2>2. start.min <= t /\ t <= start.max /\ finish.min <= x /\ x <= finish.max
        BY <1>1, <1>2, <1>10, <2>1, TimesCover
    <2>3. Runs(e, j, t, p, S, x) /\ Result(e, r) = Then(e, j, t, S, x)
        BY <1>10, <2>1 DEF Takes, Result
    <2>4. e \in Execs /\ StandsFor(n, s, e)
        BY <1>10
    <2>5. StandsFor(m, w, Then(e, j, t, S, x))
        BY ONLY <1>2, <1>3, <1>4, <1>6, <2>1, <2>2, <2>3, <2>4, NewStateStands
    <2>6. Result(e, r) \in Execs
        BY <1>10, TakesFacts
    <2>7. QED BY <1>9, <2>3, <2>5, <2>6
<1>11. QED BY <1>1, <1>9, <1>10

-----------------------------------------------------------------------------
(***************************************************************************)
(* Every execution is pursued.                                             *)
(***************************************************************************)
\* The completion time is one of those that are reported for the job.
Reported(j, x) == j \in DOMAIN completion /\ completion[j].min <= x /\ x <= completion[j].max

\* Some state of the nodes of the layer stands for the execution.
StoodFor(q, e) == \E n \in Range(q) : AnyStands(n, n.states, e)

\* The dispatch r after the execution e is among those left for the node that is
\* being expanded.
ToDispatch(e, r) ==
    /\ exploring # Idle /\ r.job \in exploring.jobs
    /\ \E i \in DOMAIN exploring.node.states :
        /\ StandsFor(exploring.node, exploring.node.states[i], e)
        /\ r.job = FirstOf(exploring.jobs) => <<i, Cardinality(r.on)>> \in exploring.left

Dispatched(e, r) ==
    /\ Reported(r.job, r.until)
    /\ StoodFor(nodes[Layer(current_job_count + 1)], Result(e, r))

Pursued(e, r) == StoodFor(ExplorationFront, e) \/ ToDispatch(e, r) \/ Dispatched(e, r)

PathsInv ==
    /\ \A n \in KeptNodes : SoundNode(n)
    /\ \A d \in 0..(current_job_count - 1) : \A e : \A r \in Dispatches :
            Reached(e, d) /\ Takes(e, r) => Reported(r.job, r.until)
    /\ \A e : \A r \in Dispatches : Reached(e, current_job_count) /\ Takes(e, r) => Pursued(e, r)

\* None of this depends on what the exploration does.
LEMMA SameExecutions ==
    ASSUME UNCHANGED Data
    PROVE  /\ Dispatches' = Dispatches /\ (Simple' <=> Simple)
           /\ \A n : SoundNode(n)' <=> SoundNode(n)
           /\ \A n, s, e : StandsFor(n, s, e)' <=> StandsFor(n, s, e)
           /\ \A q, e : StoodFor(q, e)' <=> StoodFor(q, e)
           /\ \A e, r : (Takes(e, r)' <=> Takes(e, r)) /\ Result(e, r)' = Result(e, r)
           /\ \A e, d : Reached(e, d)' <=> Reached(e, d)
           /\ Execs' = Execs /\ \A e, t : NothingBefore(e, t)' <=> NothingBefore(e, t)
<1>1. /\ Jobs' = Jobs /\ NumCores' = NumCores /\ Cores' = Cores
      /\ \A j : Arrival(j)' = Arrival(j) /\ MinParallelism(j)' = MinParallelism(j)
      /\ \A j : Parallelism(j)' = Parallelism(j) /\ Cost(j)' = Cost(j) /\ Deadline(j)' = Deadline(j)
      /\ \A i, j : HigherPriority(i, j)' <=> HigherPriority(i, j)
      /\ problem' = problem
    BY DEF Data, Jobs, NumCores, Cores, Arrival, MinParallelism, Parallelism, Cost, Deadline, HigherPriority
<1>2. /\ SequentialIndependentJobs' = SequentialIndependentJobs
      /\ GangIndependentJobs' = GangIndependentJobs
    BY <1>1 DEF Data, SequentialIndependentJobs, GangIndependentJobs, SuccessorJobs, Excluding,
                Predecessors, Exclusions
<1>3. Dispatches' = Dispatches /\ (Simple' <=> Simple)
    BY <1>1 DEF Dispatches, Simple, Independent, Bounded, GangsFit
<1>4. ASSUME NEW n PROVE SoundNode(n)' <=> SoundNode(n)
    <2>1. IsNode(n)' <=> IsNode(n)
        BY SameNode
    <2>2. KnowsArrivals(n)' <=> KnowsArrivals(n)
        BY <1>1, <1>2 DEF KnowsArrivals, LatestArrivals
    <2>3. InTime(n)' <=> InTime(n)
        BY <1>2 DEF InTime, PendingGangs
    <2>4. \A s : CertainGang(n, s)' <=> CertainGang(n, s)
        BY <1>1, <1>2 DEF CertainGang, PendingGangs, Avail
    <2>5. QED BY <2>1, <2>2, <2>3, <2>4 DEF SoundNode
<1>5. ASSUME NEW n, NEW s, NEW e PROVE StandsFor(n, s, e)' <=> StandsFor(n, s, e)
    BY <1>1, <1>2 DEF StandsFor
<1>6. ASSUME NEW q, NEW e PROVE StoodFor(q, e)' <=> StoodFor(q, e)
    BY <1>5 DEF StoodFor, AnyStands
<1>7. \A e, k, t : Fits(e, k, t)' <=> Fits(e, k, t)
    BY <1>1 DEF Fits
<1>8. \A e, t : NothingBefore(e, t)' <=> NothingBefore(e, t)
    BY <1>1, <1>7 DEF NothingBefore
<1>9. Execs' = Execs
    BY <1>1, <1>8 DEF Execs
<1>10. \A e, j, t, p : Chosen(e, j, t, p)' <=> Chosen(e, j, t, p)
    BY <1>1, <1>7, <1>8 DEF Chosen
<1>11. ASSUME NEW e, NEW r PROVE (Takes(e, r)' <=> Takes(e, r)) /\ Result(e, r)' = Result(e, r)
    BY <1>1, <1>10 DEF Takes, Runs, Result, Then
<1>12. ASSUME NEW e PROVE Start(e)' <=> Start(e)
    BY <1>1, <1>9 DEF Start
<1>13. ASSUME NEW e, NEW d PROVE Reached(e, d)' <=> Reached(e, d)
    BY <1>3, <1>9, <1>11, <1>12 DEF Reached
<1>14. QED BY <1>3, <1>4, <1>5, <1>6, <1>8, <1>9, <1>11, <1>13

LEMMA StutterKeepsPaths ==
    ASSUME PathsInv, UNCHANGED Data, UNCHANGED <<current_job_count, nodes, exploring, completion>>
    PROVE  PathsInv'
<1>1. KeptNodes' = KeptNodes
    BY DEF KeptNodes, NodesOf, Idle
<1>2. NumLayers' = NumLayers
    BY SameData
<1>3. /\ \A js : FirstOf(js)' = FirstOf(js)
      /\ ExplorationFront' = ExplorationFront
      /\ nodes[Layer(current_job_count + 1)]' = nodes[Layer(current_job_count + 1)]
    BY <1>2, SameOptions DEF ExplorationFront, Layer
<1>4. \A j, x : Reported(j, x)' <=> Reported(j, x)
    BY DEF Reported
<1>5. ASSUME NEW e, NEW r PROVE Pursued(e, r)' <=> Pursued(e, r)
    <2>1. ToDispatch(e, r)' <=> ToDispatch(e, r)
        BY <1>3, SameExecutions DEF ToDispatch, Idle
    <2>2. Dispatched(e, r)' <=> Dispatched(e, r)
        <3>1. StoodFor(nodes[Layer(current_job_count + 1)], Result(e, r))'
                <=> StoodFor(nodes[Layer(current_job_count + 1)], Result(e, r))
            BY <1>3, SameExecutions
        <3>2. QED BY <1>4, <3>1 DEF Dispatched
    <2>3. StoodFor(ExplorationFront, e)' <=> StoodFor(ExplorationFront, e)
        BY <1>3, SameExecutions
    <2>4. QED BY <2>1, <2>2, <2>3 DEF Pursued
<1>6. QED BY <1>1, <1>4, <1>5, SameExecutions DEF PathsInv

LEMMA NextDepthKeepsPaths ==
    ASSUME LayersInv, PathsInv, NextDepth
    PROVE  PathsInv'
<1>1. /\ UNCHANGED Data /\ exploring = Idle /\ ExplorationFront = <<>>
      /\ current_job_count' = current_job_count + 1
      /\ UNCHANGED <<nodes, exploring, completion>>
    BY DEF NextDepth, Data
<1>2. DataOK /\ current_job_count \in Nat
    BY ProblemFacts DEF LayersInv
<1>3. KeptNodes' = KeptNodes
    BY <1>1 DEF KeptNodes, NodesOf, Idle
<1>4. ExplorationFront' = nodes[Layer(current_job_count + 1)]
    BY <1>1, SameData DEF ExplorationFront, Layer
<1>5. \A j, x : Reported(j, x)' <=> Reported(j, x)
    BY <1>1 DEF Reported
<1>6. ASSUME NEW e, NEW r \in Dispatches, Reached(e, current_job_count), Takes(e, r)
      PROVE  Dispatched(e, r)
    <2>1. Pursued(e, r)
        BY <1>6 DEF PathsInv
    <2>2. ~StoodFor(ExplorationFront, e)
        BY <1>1, EmptyList DEF StoodFor
    <2>3. ~ToDispatch(e, r)
        BY <1>1 DEF ToDispatch
    <2>4. QED BY <2>1, <2>2, <2>3 DEF Pursued
<1>7. ASSUME NEW d \in 0..current_job_count, NEW e, NEW r \in Dispatches, Reached(e, d), Takes(e, r)
      PROVE  Reported(r.job, r.until)
    <2>1. CASE d = current_job_count
        BY <1>6, <1>7, <2>1 DEF Dispatched
    <2>2. CASE d # current_job_count
        <3>1. d \in 0..(current_job_count - 1)
            BY <1>2, <2>2
        <3>2. QED BY <1>7, <3>1 DEF PathsInv
    <2>3. QED BY <2>1, <2>2
<1>8. ASSUME NEW g, Reached(g, current_job_count + 1)
      PROVE  StoodFor(ExplorationFront, g)'
    <2>1. PICK e : \E r \in Dispatches : Reached(e, current_job_count) /\ Takes(e, r) /\ g = Result(e, r)
        BY <1>2, <1>8, ReachedNext
    <2>2. PICK r \in Dispatches : Reached(e, current_job_count) /\ Takes(e, r) /\ g = Result(e, r)
        BY <2>1
    <2>3. StoodFor(nodes[Layer(current_job_count + 1)], g)
        BY <1>6, <2>2 DEF Dispatched
    <2>4. QED BY <1>1, <1>4, <2>3, SameExecutions
<1>9. (\A n \in KeptNodes : SoundNode(n))'
    BY <1>1, <1>3, SameExecutions DEF PathsInv
<1>10. (\A d \in 0..(current_job_count - 1) : \A e : \A r \in Dispatches :
            Reached(e, d) /\ Takes(e, r) => Reported(r.job, r.until))'
    <2>1. 0..(current_job_count - 1)' = 0..current_job_count
        BY <1>1, <1>2
    <2>2. QED BY <1>1, <1>5, <1>7, <2>1, SameExecutions
<1>11. (\A e : \A r \in Dispatches : Reached(e, current_job_count) /\ Takes(e, r) => Pursued(e, r))'
    <2>1. ASSUME NEW e, Reached(e, current_job_count)' PROVE Reached(e, current_job_count + 1)
        <3>1. PICK d : d = current_job_count'
            OBVIOUS
        <3>2. Reached(e, d)'
            BY <2>1, <3>1 DEF Reached
        <3>3. Reached(e, d)
            BY <1>1, <3>2, SameExecutions
        <3>4. QED BY <1>1, <3>1, <3>3
    <2>2. QED BY <1>8, <2>1 DEF Pursued
<1>12. QED BY <1>9, <1>10, <1>11 DEF PathsInv

LEMMA InitHasPaths ==
    ASSUME DataOK, Simple, Init
    PROVE  PathsInv
<1>1. PICK v : v = AddState(InitialNode, InitialState)
    OBVIOUS
<1>2. SoundNode(v) /\ \A e : Start(e) => AnyStands(v, v.states, e)
    <2>1. PICK m, w : m = InitialNode /\ w = InitialState
        OBVIOUS
    <2>2. SoundNode(m) /\ m.states = <<>>
        BY <2>1, InitialNodeIsSound DEF InitialNode
    <2>3. /\ Plainly(m, w) /\ Avail(w, NumCores).max < Infinity
          /\ PendingGangs(m) # {} => w.gang < Infinity
          /\ \A e : Start(e) => StandsFor(m, w, e)
        BY <2>1, InitialStateIsSound
    <2>4. v = NewOrMergeState(m, w)
        BY <1>1, <2>1, <2>2, EmptyList DEF NewOrMergeState
    <2>5. /\ SoundNode(v)
          /\ \A e \in Execs : AnyStands(m, m.states, e) \/ StandsFor(m, w, e) => AnyStands(v, v.states, e)
        BY <2>2, <2>3, <2>4, NodeWithState
    <2>6. QED BY <2>3, <2>5 DEF Start
<1>3. KeptNodes = {v}
    BY <1>1, InitialNodeIsKept
<1>4. current_job_count = 0 /\ ExplorationFront = <<v>>
    <2>1. current_job_count = 0 /\ 0 \in 0..(NumLayers - 1) /\ Layer(0) = 0
        BY NumLayersFacts DEF Init, Layer
    <2>2. QED BY <1>1, <2>1 DEF Init, ExplorationFront
<1>5. v \in Range(<<v>>)
    <2>1. <<v>> \in Seq({v}) /\ 1 \in DOMAIN <<v>> /\ <<v>>[1] = v
        OBVIOUS
    <2>2. QED BY <2>1 DEF Range
<1>6. ASSUME NEW e, Reached(e, 0) PROVE StoodFor(ExplorationFront, e)
    <2>1. Start(e)
        BY <1>6, ReachedFacts
    <2>2. QED BY <1>2, <1>4, <1>5, <2>1 DEF StoodFor
<1>7. 0..(current_job_count - 1) = {}
    BY <1>4
<1>8. QED BY <1>2, <1>3, <1>4, <1>6, <1>7 DEF PathsInv, Pursued

\* The layer of the next depth is another one than the front's.
LEMMA NextDepthLayer ==
    ASSUME LayersInv
    PROVE  /\ Layer(current_job_count + 1) # Layer(current_job_count)
           /\ Layer(current_job_count) \in DOMAIN nodes /\ Layer(current_job_count + 1) \in DOMAIN nodes
<1>1. DataOK /\ current_job_count \in Nat
    BY ProblemFacts DEF LayersInv
<1>2. NumLayers \in Nat /\ NumLayers > 1
    BY <1>1, NumLayersFacts
<1>3. current_job_count \in Window /\ current_job_count + 1 \in Window
    BY <1>1, <1>2 DEF Window
<1>4. current_job_count + 1 # current_job_count
    BY <1>1
<1>5. QED BY <1>1, <1>3, <1>4, RingFacts DEF LayersInv

\* A list keeps its other elements when one is removed.
LEMMA RemovedKeepsOthers ==
    ASSUME NEW q, IsList(q), NEW i \in DOMAIN q, NEW k \in DOMAIN q, k # i
    PROVE  q[k] \in Range(RemoveAt(q, i))
<1>1. Len(q) \in Nat /\ DOMAIN q = 1..Len(q)
    BY ListFacts
<1>2. PICK r : r = [h \in 1..(Len(q) - 1) |-> IF h < i THEN q[h] ELSE q[h + 1]]
    OBVIOUS
<1>3. RemoveAt(q, i) = r
    BY <1>2, RemovedElements
<1>4. CASE k < i
    <2>1. k \in 1..(Len(q) - 1)
        BY <1>1, <1>4
    <2>2. r[k] = q[k] /\ k \in DOMAIN r
        BY <1>2, <1>4, <2>1
    <2>3. QED BY <1>3, <2>2 DEF Range
<1>5. CASE ~(k < i)
    <2>1. k - 1 \in 1..(Len(q) - 1) /\ ~(k - 1 < i) /\ (k - 1) + 1 = k
        BY <1>1, <1>5
    <2>2. r[k - 1] = q[k] /\ k - 1 \in DOMAIN r
        BY <1>2, <2>1
    <2>3. QED BY <1>3, <2>2 DEF Range
<1>6. QED BY <1>4, <1>5

LEMMA ExploreKeepsPaths ==
    ASSUME IInv, LayersInv, Simple, PathsInv, NEW i \in DOMAIN ExplorationFront, Explore(i),
           ~observed_deadline_miss'
    PROVE  PathsInv'
<1> DEFINE cur == Layer(current_job_count)
           nxt == Layer(current_job_count + 1)
           n == ExplorationFront[i]
           jobs == {j \in Candidates(n) : Options(n, j) # {}}
<1>1. /\ UNCHANGED Data /\ current_job_count' = current_job_count /\ completion' = completion
      /\ exploring = Idle
      /\ nodes' = [nodes EXCEPT ![cur] = RemoveAt(@, i)]
    BY DEF Explore, Data
<1>2. DataOK /\ cur # nxt /\ cur \in DOMAIN nodes /\ nxt \in DOMAIN nodes
    BY NextDepthLayer DEF LayersInv
<1>3. nodes[cur] = ExplorationFront /\ IsList(nodes[cur])
    BY <1>2 DEF LayersInv, IsPlaced, ExplorationFront
<1>4. ExplorationFront' = RemoveAt(nodes[cur], i) /\ nodes[Layer(current_job_count + 1)]' = nodes[nxt]
    <2>1. Layer(current_job_count)' = cur /\ Layer(current_job_count + 1)' = nxt
        BY <1>1, SameData DEF Layer
    <2> HIDE DEF cur, nxt
    <2>2. QED BY <1>1, <1>2, <2>1 DEF ExplorationFront
<1>5. (\A k \in KeptNodes : SoundNode(k))'
    <2>1. KeptNodes' \subseteq KeptNodes
        BY ExploreKeepsNodes
    <2>2. QED BY <1>1, <2>1, SameExecutions DEF PathsInv
<1>6. SoundNode(n)
    <2>1. n \in Range(nodes[cur])
        BY <1>3, ListFacts
    <2>2. n \in KeptNodes
        BY <1>2, <2>1 DEF KeptNodes, NodesOf
    <2>3. QED BY <2>2 DEF PathsInv
<1>7. jobs # {}
    <2>1. n.num_jobs_scheduled = current_job_count
        BY <1>3, FrontFacts, ListFacts
    <2>2. ~Explored
        BY DEF Explore
    <2>3. ~AllJobsScheduled(n)
        BY <2>1, <2>2 DEF Explored, AllJobsScheduled
    <2>4. QED BY <2>3 DEF Explore
<1>8. /\ exploring' # Idle
      /\ exploring' = [node |-> n, jobs |-> jobs, left |-> Options(n, FirstOf(jobs)), next |-> 0]
    <2>1. exploring' = [node |-> n, jobs |-> jobs, left |-> Options(n, FirstOf(jobs)), next |-> 0]
        BY <1>7 DEF Explore
    <2>2. exploring'.jobs = jobs /\ Idle.jobs = {}
        BY <2>1 DEF Idle
    <2>3. QED BY <1>7, <2>1, <2>2
<1>9. \A j, x : Reported(j, x)' <=> Reported(j, x)
    BY <1>1 DEF Reported
<1>10. \A e, d : (Reached(e, d)' <=> Reached(e, d)) /\ (Reached(e, current_job_count)' <=> Reached(e, current_job_count))
    <2>1. ASSUME NEW e PROVE Reached(e, current_job_count)' <=> Reached(e, current_job_count)
        <3>1. PICK d : d = current_job_count' /\ d = current_job_count
            BY <1>1
        <3>2. Reached(e, current_job_count)' <=> Reached(e, d)'
            BY <3>1 DEF Reached
        <3>3. QED BY <1>1, <3>1, <3>2, SameExecutions
    <2>2. QED BY <1>1, <2>1, SameExecutions
<1>11. ASSUME NEW e, NEW r \in Dispatches, Reached(e, current_job_count), Takes(e, r)
       PROVE  Pursued(e, r)'
    <2>1. Pursued(e, r)
        BY <1>11 DEF PathsInv
    <2>2. e \in Execs
        BY <1>2, <1>11, ReachedFacts, ProblemFacts DEF LayersInv
    <2>3. CASE Dispatched(e, r)
        <3>1. Dispatched(e, r)'
            <4>1. Reported(r.job, r.until) /\ StoodFor(nodes[nxt], Result(e, r))
                BY <2>3 DEF Dispatched
            <4>2. StoodFor(nodes[Layer(current_job_count + 1)], Result(e, r))'
                <5>1. StoodFor(nodes[nxt], Result(e, r))'
                        <=> StoodFor(nodes[Layer(current_job_count + 1)], Result(e, r))'
                    BY <1>1, SameData DEF Layer
                <5>2. PICK q, g : q = nodes[nxt] /\ g = Result(e, r)
                    OBVIOUS
                <5>3. Result(e, r)' = g /\ nodes[Layer(current_job_count + 1)]' = q
                    BY <1>1, <1>4, <5>2, SameExecutions
                <5>4. StoodFor(q, g)'
                    BY <1>1, <4>1, <5>2, SameExecutions
                <5>5. QED BY <5>3, <5>4 DEF StoodFor, AnyStands
            <4>3. QED BY <1>9, <4>1, <4>2 DEF Dispatched
        <3>2. QED BY <3>1 DEF Pursued
    <2>4. CASE StoodFor(ExplorationFront, e)
        <3>1. PICK m \in Range(nodes[cur]) : AnyStands(m, m.states, e)
            BY <1>3, <2>4 DEF StoodFor
        <3>2. PICK k \in DOMAIN nodes[cur] : nodes[cur][k] = m
            BY <1>3, <3>1, ListFacts
        <3>3. CASE k # i
            <4>1. m \in Range(RemoveAt(nodes[cur], i))
                BY <1>3, <3>2, <3>3, RemovedKeepsOthers
            <4>2. StoodFor(RemoveAt(nodes[cur], i), e)
                BY <3>1, <4>1 DEF StoodFor
            <4>3. PICK q : q = RemoveAt(nodes[cur], i)
                OBVIOUS
            <4>4. StoodFor(q, e)' /\ ExplorationFront' = q
                BY <1>1, <1>4, <4>2, <4>3, SameExecutions
            <4>5. StoodFor(ExplorationFront, e)'
                BY <4>4 DEF StoodFor, AnyStands
            <4>6. QED BY <4>5 DEF Pursued
        <3>4. CASE k = i
            <4>1. m = n
                BY <1>3, <3>2, <3>4
            <4>2. PICK s \in Range(n.states) : StandsFor(n, s, e)
                BY <3>1, <4>1 DEF AnyStands
            <4>3. PICK l \in DOMAIN n.states : n.states[l] = s
                BY <1>6, ListFacts DEF SoundNode, IsNode
            <4>4. r.job \in Candidates(n) /\ <<l, Cardinality(r.on)>> \in Options(n, r.job)
                BY <1>2, <1>6, <1>11, <2>2, <4>2, <4>3, NextIsOption
            <4>5. r.job \in jobs /\ (r.job = FirstOf(jobs) => <<l, Cardinality(r.on)>> \in Options(n, FirstOf(jobs)))
                BY <4>4
            <4>6. StandsFor(n, n.states[l], e)
                BY <4>2, <4>3
            <4>7. PICK m2, js, lf : m2 = n /\ js = jobs /\ lf = Options(n, FirstOf(jobs))
                OBVIOUS
            <4>8. /\ exploring' = [node |-> m2, jobs |-> js, left |-> lf, next |-> 0] /\ exploring' # Idle
                  /\ r.job \in js /\ (r.job = FirstOf(js) => <<l, Cardinality(r.on)>> \in lf)
                  /\ StandsFor(m2, m2.states[l], e) /\ l \in DOMAIN m2.states
                BY <1>8, <4>3, <4>5, <4>6, <4>7
            <4> HIDE DEF n, jobs
            <4>9. StandsFor(m2, m2.states[l], e)' /\ FirstOf(js)' = FirstOf(js)
                BY <1>1, <4>8, SameExecutions, SameOptions
            <4>10. /\ exploring'.node = m2 /\ exploring'.jobs = js /\ exploring'.left = lf
                BY <4>8
            <4>11. ToDispatch(e, r)'
                BY <4>8, <4>9, <4>10 DEF ToDispatch, Idle
            <4>12. QED BY <4>11 DEF Pursued
        <3>5. QED BY <3>3, <3>4
    <2>5. ~ToDispatch(e, r)
        BY <1>1 DEF ToDispatch
    <2>6. QED BY <2>1, <2>3, <2>4, <2>5 DEF Pursued
<1> HIDE DEF cur, nxt, n, jobs
<1>12. QED BY <1>1, <1>5, <1>9, <1>10, <1>11, SameExecutions DEF PathsInv

\* What a dispatch without a miss does.
LEMMA DispatchInTime ==
    ASSUME IInv, Simple, Dispatch, ~observed_deadline_miss'
    PROVE  /\ ~observed_deadline_miss
           /\ FinishTimes \in Intervals(Nat) /\ FinishTimes.max < Infinity
           /\ completion' = WithCompletion(completion, CurrentJob, FinishTimes)
           /\ exploring' = IF exploring.left # {CurrentOption}
                           THEN [exploring EXCEPT !.left = @ \ {CurrentOption}, !.next = Place]
                           ELSE IF exploring.jobs \ {CurrentJob} = {} THEN Idle
                           ELSE [exploring EXCEPT
                                    !.jobs = exploring.jobs \ {CurrentJob}, !.next = 0,
                                    !.left = Options(exploring.node, FirstOf(exploring.jobs \ {CurrentJob}))]
<1>1. exploring # Idle /\ IsExpansion(exploring) /\ DataOK
    BY DEF Dispatch, IInv, NodesInv
<1>2. FinishTimes \in Intervals(Nat) /\ CurrentJob \in Jobs
    BY <1>1, FinishFacts, OptionFacts
<1>3. ~observed_deadline_miss /\ ~Misses(CurrentJob, FinishTimes)
    BY DEF Dispatch
<1>4. FinishTimes.max < Infinity
    <2>1. FinishTimes.max \in Nat /\ Deadline(CurrentJob) \in Nat
        BY <1>1, <1>2, IntervalType, JobFacts
    <2>2. Deadline(CurrentJob) < Infinity
        BY <1>2 DEF Simple, Bounded
    <2>3. QED BY <1>3, <2>1, <2>2, ProblemsAssumption DEF Misses
<1>5. /\ completion' = WithCompletion(completion, CurrentJob, FinishTimes)
      /\ exploring' = IF exploring.left # {CurrentOption}
                      THEN [exploring EXCEPT !.left = @ \ {CurrentOption}, !.next = Place]
                      ELSE IF exploring.jobs \ {CurrentJob} = {} THEN Idle
                      ELSE [exploring EXCEPT
                               !.jobs = exploring.jobs \ {CurrentJob}, !.next = 0,
                               !.left = Options(exploring.node, FirstOf(exploring.jobs \ {CurrentJob}))]
    BY DEF Dispatch
<1>6. QED BY <1>2, <1>3, <1>4, <1>5

\* The node that is dispatched to, before the new state is put into it.
LEMMA DispatchedNode ==
    ASSUME IInv, LayersInv, Simple, PathsInv, exploring # Idle
    PROVE  /\ SoundNode(exploring.node) /\ SoundNode(TargetLayer[Place])
           /\ CurrentJob \in Jobs /\ CurrentJob \notin exploring.node.scheduled
           /\ TargetLayer[Place].scheduled = exploring.node.scheduled \cup {CurrentJob}
           /\ TargetDepth = Layer(current_job_count + 1)
<1>1. SoundNode(exploring.node)
    BY DEF PathsInv, KeptNodes
<1>2. /\ CurrentJob \in Jobs /\ CurrentJob \in MayCome(exploring.node.scheduled)
      /\ TargetDepth \in DOMAIN nodes /\ Place \in DOMAIN TargetLayer
      /\ TargetLayer[Place].scheduled = exploring.node.scheduled \cup Incompatible(CurrentJob)
    BY PlainTarget
<1>3. DataOK /\ Incompatible(CurrentJob) = {CurrentJob}
    BY <1>2, SimpleFacts DEF LayersInv
<1>4. TargetDepth = Layer(current_job_count + 1)
    <2>1. Cardinality({CurrentJob}) = 1
        BY FS_Singleton
    <2>2. QED BY <1>3, <2>1 DEF TargetDepth
<1>5. SoundNode(TargetLayer[Place])
    <2>1. IsList(nodes[TargetDepth])
        BY <1>2 DEF LayersInv, IsPlaced
    <2>2. CASE Found # 0
        <3>1. TargetLayer = nodes[TargetDepth]
            BY <2>2 DEF TargetLayer
        <3>2. TargetLayer[Place] \in NodesOf(TargetDepth)
            BY <1>2, <2>1, <3>1, ListFacts DEF NodesOf
        <3>3. TargetLayer[Place] \in KeptNodes
            BY <1>2, <3>2 DEF KeptNodes
        <3>4. QED BY <3>3 DEF PathsInv
    <2>3. CASE Found = 0
        <3>1. PICK x : x = NextNode(exploring.node, CurrentJob)
            OBVIOUS
        <3>2. TargetLayer = Append(nodes[TargetDepth], x) /\ Place = Len(TargetLayer)
            BY <2>3, <3>1 DEF TargetLayer, Place
        <3>3. TargetLayer[Place] = x
            BY <2>1, <3>2, AppendedFacts
        <3>4. SoundNode(x)
            BY <1>1, <1>2, <1>3, <3>1, NextNodeIsSound
        <3>5. QED BY <3>3, <3>4
    <2>4. QED BY <2>2, <2>3
<1>6. QED BY <1>1, <1>2, <1>3, <1>4, <1>5 DEF MayCome

\* The layer dispatched to stands for what it stood for, and for what the new
\* node stands for.
LEMMA DispatchedLayer ==
    ASSUME LayersInv, exploring # Idle,
           \A e \in Execs : AnyStands(TargetLayer[Place], TargetLayer[Place].states, e)
                                => AnyStands(Target, Target.states, e),
           NEW q, q = ReplaceAt(TargetLayer, Place, Target)
    PROVE  \A e \in Execs :
              StoodFor(nodes[TargetDepth], e) \/ AnyStands(Target, Target.states, e) => StoodFor(q, e)
<1>1. /\ TargetDepth \in DOMAIN nodes /\ Place \in DOMAIN TargetLayer
      /\ IsList(TargetLayer)
      /\ \/ TargetLayer = nodes[TargetDepth]
         \/ \E x : TargetLayer = Append(nodes[TargetDepth], x)
    BY PlainTarget DEF IsPlaced
<1>2. IsList(nodes[TargetDepth])
    BY <1>1 DEF LayersInv, IsPlaced
<1>3. PICK w : w = Target
    OBVIOUS
<1>4. /\ IsList(q) /\ DOMAIN q = DOMAIN TargetLayer /\ q[Place] = w
      /\ \A k \in DOMAIN TargetLayer : k # Place => q[k] = TargetLayer[k]
    BY <1>1, <1>3, ReplacedFacts
<1>5. \A k \in DOMAIN nodes[TargetDepth] : k \in DOMAIN TargetLayer /\ TargetLayer[k] = nodes[TargetDepth][k]
    <2>1. CASE TargetLayer = nodes[TargetDepth]
        BY <2>1
    <2>2. CASE \E x : TargetLayer = Append(nodes[TargetDepth], x)
        <3>1. PICK x : TargetLayer = Append(nodes[TargetDepth], x)
            BY <2>2
        <3>2. Len(nodes[TargetDepth]) \in Nat /\ DOMAIN nodes[TargetDepth] = 1..Len(nodes[TargetDepth])
            BY <1>2, ListFacts
        <3>3. /\ DOMAIN TargetLayer = 1..(Len(nodes[TargetDepth]) + 1)
              /\ \A k \in DOMAIN nodes[TargetDepth] : TargetLayer[k] = nodes[TargetDepth][k]
            BY <1>2, <3>1, AppendedFacts
        <3>4. QED BY <3>2, <3>3
    <2>3. QED BY <1>1, <2>1, <2>2
<1>6. \A k \in DOMAIN q : q[k] \in Range(q)
    BY <1>4, ListFacts
<1>7. ASSUME NEW e \in Execs, AnyStands(w, w.states, e) PROVE StoodFor(q, e)
    BY <1>1, <1>4, <1>6, <1>7 DEF StoodFor
<1>8. ASSUME NEW e \in Execs, StoodFor(nodes[TargetDepth], e) PROVE StoodFor(q, e)
    <2>1. PICK n \in Range(nodes[TargetDepth]) : AnyStands(n, n.states, e)
        BY <1>8 DEF StoodFor
    <2>2. PICK k \in DOMAIN nodes[TargetDepth] : nodes[TargetDepth][k] = n
        BY <1>2, <2>1, ListFacts
    <2>3. k \in DOMAIN TargetLayer /\ TargetLayer[k] = n
        BY <1>5, <2>2
    <2>4. CASE k = Place
        BY <1>3, <1>7, <2>1, <2>3, <2>4
    <2>5. CASE k # Place
        <3>1. q[k] = n /\ n \in Range(q)
            BY <1>4, <1>6, <2>3, <2>5
        <3>2. QED BY <2>1, <3>1 DEF StoodFor
    <2>6. QED BY <2>4, <2>5
<1>9. QED BY <1>3, <1>7, <1>8

\* What was left for the node stays, but for the option that was taken.
LEMMA LeftToDispatch ==
    ASSUME IInv, LayersInv, Simple, PathsInv, Dispatch, ~observed_deadline_miss',
           NEW e \in Execs, NEW r \in Dispatches, Takes(e, r), ToDispatch(e, r)
    PROVE  \/ ToDispatch(e, r)'
           \/ /\ StandsFor(exploring.node, CurrentState, e)
              /\ r.job = CurrentJob /\ Cardinality(r.on) = CurrentOption[2]
<1>1. /\ exploring # Idle /\ IsExpansion(exploring) /\ DataOK /\ UNCHANGED Data
    BY DEF Dispatch, IInv, NodesInv, Data
<1>2. PICK n, jobs, left : n = exploring.node /\ jobs = exploring.jobs /\ left = exploring.left
    OBVIOUS
<1>3. PICK i \in DOMAIN n.states :
         /\ StandsFor(n, n.states[i], e)
         /\ r.job = FirstOf(jobs) => <<i, Cardinality(r.on)>> \in left
    BY <1>2 DEF ToDispatch
<1>4. r.job \in jobs /\ CurrentJob = FirstOf(jobs) /\ SoundNode(n)
    BY <1>1, <1>2, DispatchedNode DEF ToDispatch, CurrentJob
<1>5. SUFFICES ASSUME ~ToDispatch(e, r)'
               PROVE  r.job = CurrentJob /\ <<i, Cardinality(r.on)>> = CurrentOption
    BY <1>2, <1>3 DEF CurrentState
<1>6. PICK rest, cur : rest = jobs \ {CurrentJob} /\ cur = CurrentOption
    OBVIOUS
<1>7. exploring' = IF left # {cur}
                   THEN [exploring EXCEPT !.left = left \ {cur}, !.next = Place]
                   ELSE IF rest = {} THEN Idle
                   ELSE [exploring EXCEPT !.jobs = rest, !.next = 0, !.left = Options(n, FirstOf(rest))]
    <2>1. exploring' = IF exploring.left # {CurrentOption}
                       THEN [exploring EXCEPT !.left = @ \ {CurrentOption}, !.next = Place]
                       ELSE IF exploring.jobs \ {CurrentJob} = {} THEN Idle
                       ELSE [exploring EXCEPT
                               !.jobs = exploring.jobs \ {CurrentJob}, !.next = 0,
                               !.left = Options(exploring.node, FirstOf(exploring.jobs \ {CurrentJob}))]
        BY DispatchInTime
    <2>2. QED BY <1>2, <1>6, <2>1
<1>8. DOMAIN exploring = {"node", "jobs", "left", "next"} /\ jobs # {}
    BY <1>1, <1>2 DEF IsExpansion
<1>9. Idle.jobs = {}
    BY DEF Idle
<1>10. ASSUME NEW js, NEW lf, exploring'.node = n, exploring'.jobs = js, exploring'.left = lf,
              r.job \in js, r.job = FirstOf(js) => <<i, Cardinality(r.on)>> \in lf
       PROVE  ToDispatch(e, r)'
    <2>1. exploring' # Idle
        BY <1>9, <1>10
    <2>2. StandsFor(n, n.states[i], e)' /\ FirstOf(js)' = FirstOf(js)
        BY <1>1, <1>3, SameExecutions, SameOptions
    <2>3. QED BY <1>3, <1>10, <2>1, <2>2 DEF ToDispatch, Idle
<1>11. CASE left # {cur}
    <2>1. exploring'.node = n /\ exploring'.jobs = jobs /\ exploring'.left = left \ {cur}
        BY <1>2, <1>7, <1>8, <1>11
    <2>2. ~(r.job = FirstOf(jobs) => <<i, Cardinality(r.on)>> \in left \ {cur})
        BY <1>4, <1>5, <1>10, <2>1
    <2>3. QED BY <1>3, <1>4, <1>6, <2>2
<1>12. CASE left = {cur}
    <2>1. CASE r.job = CurrentJob
        BY <1>3, <1>4, <1>6, <1>12, <2>1
    <2>2. CASE r.job # CurrentJob
        <3>1. r.job \in rest /\ rest # {}
            BY <1>4, <1>6, <2>2
        <3>2. exploring'.node = n /\ exploring'.jobs = rest /\ exploring'.left = Options(n, FirstOf(rest))
            BY <1>2, <1>7, <1>8, <1>12, <3>1
        <3>3. <<i, Cardinality(r.on)>> \in Options(n, r.job)
            BY <1>1, <1>3, <1>4, NextIsOption
        <3>4. ToDispatch(e, r)'
            BY <1>10, <3>1, <3>2, <3>3
        <3>5. QED BY <1>5, <3>4
    <2>3. QED BY <2>1, <2>2
<1>13. QED BY <1>11, <1>12

LEMMA DispatchKeepsPaths ==
    ASSUME IInv, LayersInv, Simple, PathsInv, Dispatch, ~observed_deadline_miss'
    PROVE  PathsInv'
<1> DEFINE cur == Layer(current_job_count)
           nxt == Layer(current_job_count + 1)
<1>1. /\ exploring # Idle /\ IsExpansion(exploring) /\ DataOK /\ UNCHANGED Data
      /\ current_job_count' = current_job_count /\ current_job_count \in Nat
    BY ProblemFacts DEF Dispatch, IInv, NodesInv, Data, LayersInv
<1>2. PICK q : q = ReplaceAt(TargetLayer, Place, Target)
    OBVIOUS
<1>3. /\ TargetDepth = nxt /\ nodes' = [nodes EXCEPT ![nxt] = q]
      /\ cur # nxt /\ cur \in DOMAIN nodes /\ nxt \in DOMAIN nodes
    BY <1>1, <1>2, DispatchFacts, DispatchedNode, NextDepthLayer
<1>4. /\ SoundNode(exploring.node) /\ SoundNode(TargetLayer[Place])
      /\ CurrentJob \in Jobs /\ CurrentJob \notin exploring.node.scheduled
      /\ TargetLayer[Place].scheduled = exploring.node.scheduled \cup {CurrentJob}
    BY <1>1, DispatchedNode
<1>5. /\ FinishTimes \in Intervals(Nat) /\ FinishTimes.max < Infinity
      /\ completion' = WithCompletion(completion, CurrentJob, FinishTimes)
    BY DispatchInTime
<1>6. /\ SoundNode(Target)
      /\ \A e \in Execs : AnyStands(TargetLayer[Place], TargetLayer[Place].states, e)
                            => AnyStands(Target, Target.states, e)
      /\ \A e \in Execs : \A r \in Dispatches :
            /\ Takes(e, r) /\ StandsFor(exploring.node, CurrentState, e)
            /\ r.job = CurrentJob /\ Cardinality(r.on) = CurrentOption[2]
            => AnyStands(Target, Target.states, Result(e, r))
    BY <1>1, <1>4, <1>5, TargetIsSound
<1>7. \A e \in Execs :
         StoodFor(nodes[nxt], e) \/ AnyStands(Target, Target.states, e) => StoodFor(q, e)
    BY <1>1, <1>2, <1>3, <1>6, DispatchedLayer
<1>8. nodes[Layer(current_job_count)]' = nodes[cur] /\ nodes[Layer(current_job_count + 1)]' = q
    <2>1. Layer(current_job_count)' = cur /\ Layer(current_job_count + 1)' = nxt
        BY <1>1, SameData DEF Layer
    <2> HIDE DEF cur, nxt
    <2>2. QED BY <1>3, <2>1
<1> HIDE DEF cur, nxt
<1>9. (\A n \in KeptNodes : SoundNode(n))'
    <2>1. KeptNodes' \subseteq KeptNodes \cup {Target}
        BY DispatchAddsTarget
    <2>2. \A n \in KeptNodes' : SoundNode(n)
        BY <1>6, <2>1 DEF PathsInv
    <2>3. QED BY <1>1, <2>2, SameExecutions
<1>10. ASSUME NEW j, NEW x \in Int, Reported(j, x) PROVE Reported(j, x)'
    <2>1. \A k \in DOMAIN completion : completion[k] \in Intervals(Int)
        BY DEF IInv, ReportsInv
    <2>2. PICK w : w = WithCompletion(completion, CurrentJob, FinishTimes)
        OBVIOUS
    <2>3. completion[j].min \in Int /\ completion[j].max \in Int /\ j \in DOMAIN completion
        BY <1>10, <2>1, IntervalType DEF Reported
    <2>4. FinishTimes.min \in Int /\ FinishTimes.max \in Int
        BY <1>5, IntervalType
    <2>5. w[j] = completion[j] \/ w[j] = Widen(completion[j], FinishTimes)
        BY <2>2, <2>3 DEF WithCompletion
    <2>6. j \in DOMAIN w
        BY <2>2, <2>3 DEF WithCompletion
    <2>7. CASE w[j] = completion[j]
        BY <1>5, <1>10, <2>2, <2>6, <2>7 DEF Reported
    <2>8. CASE w[j] = Widen(completion[j], FinishTimes)
        <3>1. PICK v : v = w[j]
            OBVIOUS
        <3>2. v.min \in Int /\ v.max \in Int /\ v.min <= completion[j].min /\ completion[j].max <= v.max
            BY <2>3, <2>4, <2>8, <3>1 DEF Widen, MinOf, MaxOf
        <3>3. completion[j].min <= x /\ x <= completion[j].max
            BY <1>10 DEF Reported
        <3>4. completion'[j] = v /\ j \in DOMAIN completion'
            BY <1>5, <2>2, <2>6, <3>1
        <3>5. QED BY <2>3, <3>2, <3>3, <3>4 DEF Reported
    <2>9. QED BY <2>5, <2>7, <2>8
<1>11. ASSUME NEW j, j = CurrentJob, NEW x \in Int, FinishTimes.min <= x, x <= FinishTimes.max
       PROVE  Reported(j, x)'
    <2>1. PICK w : w = WithCompletion(completion, CurrentJob, FinishTimes)
        OBVIOUS
    <2>2. PICK f : f = FinishTimes
        OBVIOUS
    <2>3. f.min \in Int /\ f.max \in Int
        BY <1>5, <2>2, IntervalType
    <2>4. /\ j \in DOMAIN w
          /\ w[j] = IF j \in DOMAIN completion THEN Widen(completion[j], f) ELSE f
        BY <1>11, <2>1, <2>2 DEF WithCompletion
    <2>5. w[j].min <= x /\ x <= w[j].max
        <3>1. CASE j \in DOMAIN completion
            <4>1. completion[j].min \in Int /\ completion[j].max \in Int
                BY <3>1, IntervalType DEF IInv, ReportsInv
            <4>2. w[j].min = MinOf(completion[j].min, f.min) /\ w[j].max = MaxOf(completion[j].max, f.max)
                BY <2>4, <3>1 DEF Widen
            <4>3. QED BY <1>11, <2>2, <2>3, <4>1, <4>2 DEF MinOf, MaxOf
        <3>2. CASE j \notin DOMAIN completion
            BY <1>11, <2>2, <2>4, <3>2
        <3>3. QED BY <3>1, <3>2
    <2>6. completion' = w
        BY <1>5, <2>1
    <2>7. QED BY <2>4, <2>5, <2>6 DEF Reported
<1>12. ASSUME NEW e, NEW r \in Dispatches, Reached(e, current_job_count), Takes(e, r)
       PROVE  Pursued(e, r)'
    <2>1. Pursued(e, r)
        BY <1>12 DEF PathsInv
    <2>2. e \in Execs /\ Result(e, r) \in Execs /\ r.until \in Int
        <3>1. e \in Execs
            BY <1>1, <1>12, ReachedFacts
        <3>2. QED BY <1>1, <1>12, <3>1, TakesFacts
    <2>3. ASSUME Reported(r.job, r.until)', StoodFor(q, Result(e, r)) PROVE Pursued(e, r)'
        <3>1. PICK g : g = Result(e, r)
            OBVIOUS
        <3>2. StoodFor(q, g)' /\ Result(e, r)' = g
            BY <1>1, <2>3, <3>1, SameExecutions
        <3>3. StoodFor(nodes[Layer(current_job_count + 1)], Result(e, r))'
            BY <1>8, <3>2
        <3>4. QED BY <2>3, <3>3 DEF Pursued, Dispatched
    <2>4. CASE StoodFor(ExplorationFront, e)
        <3>1. PICK f : f = ExplorationFront
            OBVIOUS
        <3>2. ExplorationFront' = f
            BY <1>8, <3>1 DEF ExplorationFront, cur
        <3>3. StoodFor(f, e)'
            BY <1>1, <2>4, <3>1, SameExecutions
        <3>4. StoodFor(ExplorationFront, e)'
            BY <3>2, <3>3
        <3>5. QED BY <3>4 DEF Pursued
    <2>5. CASE Dispatched(e, r)
        <3>1. Reported(r.job, r.until) /\ StoodFor(nodes[nxt], Result(e, r))
            BY <2>5 DEF Dispatched, nxt
        <3>2. QED BY <1>7, <1>10, <2>2, <2>3, <3>1
    <2>6. CASE ToDispatch(e, r)
        <3>1. CASE ToDispatch(e, r)'
            BY <3>1 DEF Pursued
        <3>2. CASE /\ StandsFor(exploring.node, CurrentState, e)
                   /\ r.job = CurrentJob /\ Cardinality(r.on) = CurrentOption[2]
            <4>1. CurrentState \in Range(exploring.node.states)
                BY <1>1, OptionFacts
            <4>2. FinishTimes.min <= r.until /\ r.until <= FinishTimes.max
                BY <1>1, <1>4, <1>12, <2>2, <3>2, <4>1, TimesCover
            <4>3. Reported(r.job, r.until)'
                BY <1>11, <2>2, <3>2, <4>2
            <4>4. StoodFor(q, Result(e, r))
                BY <1>6, <1>7, <1>12, <2>2, <3>2
            <4>5. QED BY <2>3, <4>3, <4>4
        <3>3. QED BY <1>12, <2>2, <2>6, <3>1, <3>2, LeftToDispatch
    <2>7. QED BY <2>1, <2>4, <2>5, <2>6 DEF Pursued
<1>13. ASSUME NEW e PROVE Reached(e, current_job_count)' <=> Reached(e, current_job_count)
    <2>1. PICK d : d = current_job_count' /\ d = current_job_count
        BY <1>1
    <2>2. Reached(e, current_job_count)' <=> Reached(e, d)'
        BY <2>1
    <2>3. QED BY <1>1, <2>1, <2>2, SameExecutions
<1>14. (\A d \in 0..(current_job_count - 1) : \A e : \A r \in Dispatches :
            Reached(e, d) /\ Takes(e, r) => Reported(r.job, r.until))'
    <2>1. ASSUME NEW d \in 0..(current_job_count - 1), NEW e, NEW r \in Dispatches, Reached(e, d), Takes(e, r)
          PROVE  Reported(r.job, r.until)'
        <3>1. Reported(r.job, r.until)
            BY <2>1 DEF PathsInv
        <3>2. r.until \in Int
            BY DEF Dispatches
        <3>3. QED BY <1>10, <3>1, <3>2
    <2>2. QED BY <1>1, <2>1, SameExecutions
<1>15. (\A e : \A r \in Dispatches : Reached(e, current_job_count) /\ Takes(e, r) => Pursued(e, r))'
    BY <1>1, <1>12, <1>13, SameExecutions
<1>16. QED BY <1>9, <1>14, <1>15 DEF PathsInv
-----------------------------------------------------------------------------
(***************************************************************************)
(* Every execution is pursued as long as no deadline miss is observed.     *)
(***************************************************************************)
SoundInv == RefInv /\ (~observed_deadline_miss => PathsInv)

LEMMA InitIsSound ==
    ASSUME Init, Simple
    PROVE  SoundInv
<1>1. IInv
    BY InitKeepsInv
<1>2. DataOK
    BY <1>1 DEF IInv
<1>3. LayersInv
    BY <1>2, SimpleFacts, InitKeepsLayers
<1>4. MissInv
    BY DEF Init, MissInv
<1>5. PathsInv
    BY <1>2, InitHasPaths
<1>6. QED BY <1>1, <1>3, <1>4, <1>5 DEF SoundInv, RefInv

LEMMA SimpleStays ==
    ASSUME [Next]_explorationVars
    PROVE  UNCHANGED Data /\ (Simple' <=> Simple)
<1>1. UNCHANGED Data
    BY DEF Next, NextDepth, GiveUp, Explore, Dispatch, Done, explorationVars, Data
<1>2. QED BY <1>1, SameExecutions

LEMMA NextKeepsPaths ==
    ASSUME SoundInv, Simple, [Next]_explorationVars, ~observed_deadline_miss'
    PROVE  PathsInv'
<1>1. IInv /\ LayersInv
    BY DEF SoundInv, RefInv
<1>2. UNCHANGED Data
    BY SimpleStays
<1>3. CASE NextDepth
    <2>1. PathsInv
        BY <1>3 DEF SoundInv, NextDepth
    <2>2. QED BY <1>1, <1>3, <2>1, NextDepthKeepsPaths
<1>4. CASE GiveUp
    <2>1. PathsInv
        BY <1>4 DEF SoundInv, GiveUp
    <2>2. QED BY <1>2, <1>4, <2>1, StutterKeepsPaths DEF GiveUp
<1>5. ASSUME NEW i \in DOMAIN ExplorationFront, Explore(i) PROVE PathsInv'
    <2>1. PathsInv
        BY <1>5 DEF SoundInv, Explore
    <2>2. QED BY <1>1, <1>5, <2>1, ExploreKeepsPaths
<1>6. CASE Dispatch
    <2>1. PathsInv
        BY <1>1, <1>6, DispatchInTime DEF SoundInv
    <2>2. QED BY <1>1, <1>6, <2>1, DispatchKeepsPaths
<1>7. CASE UNCHANGED explorationVars
    <2>1. PathsInv
        BY <1>7 DEF SoundInv, explorationVars
    <2>2. QED BY <1>2, <1>7, <2>1, StutterKeepsPaths DEF explorationVars
<1>8. QED BY <1>3, <1>4, <1>5, <1>6, <1>7 DEF Next, Done

LEMMA NextIsSound ==
    ASSUME SoundInv, Simple, [Next]_explorationVars
    PROVE  SoundInv'
<1>1. IInv
    BY DEF SoundInv, RefInv
<1>2. TriggerIsClear
    BY SimpleIsClear
<1>3. RefInv'
    BY <1>2, RefInvHolds DEF SoundInv
<1>4. QED BY <1>3, NextKeepsPaths DEF SoundInv
-----------------------------------------------------------------------------
(***************************************************************************)
(* The execution of the problem is one of those that are pursued.          *)
(***************************************************************************)
\* There are as many cores to choose as there are cores, at least.
LEMMA SubsetOfSize ==
    ASSUME NEW S, IsFiniteSet(S), NEW p \in 0..Cardinality(S)
    PROVE  \E T \in SUBSET S : Cardinality(T) = p
<1>1. PICK n \in Nat : n = Cardinality(S) /\ ExistsBijection(1..n, S)
    BY FS_CardinalityType
<1>2. p \in Nat /\ p <= n
    BY <1>1
<1>3. PICK f : f \in Bijection(1..n, S)
    BY <1>1 DEF ExistsBijection
<1>4. f \in [1..n -> S] /\ \A i, k \in 1..n : f[i] = f[k] => i = k
    BY <1>3 DEF Bijection, Injection, IsInjective
<1>5. 1..p \subseteq 1..n
    BY <1>2
<1> DEFINE T == {f[i] : i \in 1..p}
           g == [i \in 1..p |-> f[i]]
<1>6. g \in Bijection(1..p, T)
    BY <1>4, <1>5 DEF Bijection, Injection, Surjection, IsInjective
<1>7. T \in SUBSET S
    BY <1>4, <1>5
<1> HIDE DEF T, g
<1>8. IsFiniteSet(1..p) /\ Cardinality(1..p) = p
    BY <1>2, FS_Interval
<1>9. ExistsBijection(1..p, T)
    BY <1>6 DEF ExistsBijection
<1>10. QED BY <1>7, <1>8, <1>9, FS_Bijection

\* The execution is where the problem's is.
Follows(e) ==
    /\ Reached(e, Cardinality(e.scheduled)) /\ e \in Execs
    /\ e.arrival = scenario.arrival /\ e.scheduled = DOMAIN started /\ e.free = core_free
    /\ e.now <= now /\ NothingBefore(e, now)

ExecutionInv ==
    /\ now \in Nat /\ DOMAIN completed = DOMAIN started
    /\ \A j \in DOMAIN completed : completed[j] \in Nat /\ Reported(j, completed[j])
    /\ ~Running => now = 0 /\ DOMAIN started = {}
    /\ Running => Finished /\ ~aborted /\ scenario \in Scenarios /\ \E e : Follows(e)

LEMMA PicksFacts ==
    ASSUME NEW range, \A x \in DOMAIN range : range[x].min \in Nat /\ range[x].max \in Nat,
           NEW f \in Picks(range)
    PROVE  /\ f \in [DOMAIN range -> Nat]
           /\ \A x \in DOMAIN range : range[x].min <= f[x] /\ f[x] <= range[x].max
<1> DEFINE all == UNION {range[x].min..range[x].max : x \in DOMAIN range}
<1>1. f \in [DOMAIN range -> all] /\ \A x \in DOMAIN range : range[x].min <= f[x] /\ f[x] <= range[x].max
    BY DEF Picks
<1>2. ASSUME NEW x \in DOMAIN range PROVE f[x] \in Nat
    <2>1. PICK y \in DOMAIN range : f[x] \in range[y].min..range[y].max
        BY <1>1
    <2>2. QED BY <2>1
<1>3. QED BY <1>1, <1>2

\* What the scheduler does is what the execution may do next.
LEMMA DispatchableFits ==
    ASSUME DataOK, Simple, scenario \in Scenarios, now \in Nat, NEW e, Follows(e)
    PROVE  /\ Pending = Jobs \ e.scheduled /\ FreeCores = FreeAt(Cores, e.free, now)
           /\ \A j \in Jobs : Waits(j) = [unmet |-> FALSE, until |-> {e.arrival[j]}]
           /\ Dispatchable = {k \in Jobs : Fits(e, k, now)}
<1>1. e \in Execs /\ e.arrival = scenario.arrival /\ e.scheduled = DOMAIN started /\ e.free = core_free
    BY DEF Follows
<1>2. \A j \in Jobs : e.arrival[j] \in Nat
    BY <1>1, ExecFacts
<1>3. Discarded = {}
    <2>1. \A f \in Jobs : ~IsFork(f)
        BY DEF Simple, Independent, IsFork
    <2>2. DOMAIN scenario.branch = {}
        BY <2>1 DEF Scenarios
    <2>3. QED BY <2>2 DEF Discarded
<1>4. ASSUME NEW j \in Jobs PROVE Waits(j) = [unmet |-> FALSE, until |-> {e.arrival[j]}]
    BY <1>1 DEF Simple, Independent, Waits
<1>5. Pending = Jobs \ e.scheduled
    BY <1>1, <1>3 DEF Pending
<1>6. FreeCores = FreeAt(Cores, e.free, now)
    BY <1>1 DEF FreeCores, FreeAt, Cores
<1>7. \A j \in Jobs : Max(Waits(j).until) = e.arrival[j]
    <2>1. SUFFICES ASSUME NEW j \in Jobs PROVE Max({e.arrival[j]}) = e.arrival[j]
        BY <1>4
    <2>2. PICK a \in Nat : a = e.arrival[j]
        BY <1>2
    <2>3. IsFiniteSet({a})
        BY FS_Singleton
    <2>4. Max({a}) \in {a}
        BY <2>3, MaxFacts
    <2>5. QED BY <2>2, <2>4
<1>8. Ready = {j \in Jobs \ e.scheduled : e.arrival[j] <= now}
    BY <1>4, <1>5, <1>7 DEF Ready
<1>9. Dispatchable = {k \in Jobs : Fits(e, k, now)}
    BY <1>6, <1>8 DEF Dispatchable, Fits
<1>10. QED BY <1>4, <1>5, <1>6, <1>9

\* A step of the scheduler is a dispatch of the execution.
LEMMA RunIsDispatch ==
    ASSUME DataOK, Simple, scenario \in Scenarios, now \in Nat, NEW e, Follows(e), Run
    PROVE  \E r \in Dispatches :
              /\ Takes(e, r) /\ r.at = now /\ core_free' = Result(e, r).free
              /\ DOMAIN started' = DOMAIN started \cup {r.job}
              /\ DOMAIN completed' = DOMAIN completed \cup {r.job} /\ completed'[r.job] = r.until
              /\ \A k \in DOMAIN completed \ {r.job} : completed'[k] = completed[k]
<1>1. /\ e \in Execs /\ e.free = core_free /\ e.now <= now /\ NothingBefore(e, now)
      /\ FreeCores = FreeAt(Cores, e.free, now)
      /\ Dispatchable = {k \in Jobs : Fits(e, k, now)}
    <2>1. FreeCores = FreeAt(Cores, e.free, now) /\ Dispatchable = {k \in Jobs : Fits(e, k, now)}
        BY DispatchableFits
    <2>2. QED BY <2>1 DEF Follows
<1> DEFINE highest(j) == Max({q \in Parallelism(j) : q <= Cardinality(FreeCores)})
           cores(j) == CHOOSE S \in SUBSET FreeCores : Cardinality(S) = highest(j)
           finish(j, cost) ==
                IF j \notin DOMAIN problem.abort THEN now + cost
                ELSE IF scenario.trigger[j] <= now THEN now
                ELSE MinOf(now + cost, scenario.trigger[j] + scenario.cleanup[j])
<1>2. PICK j \in Dispatchable :
        /\ \A k \in Dispatchable \ {j} : HigherPriority(j, k)
        /\ started' = [k \in DOMAIN started \cup {j} |-> IF k = j THEN now ELSE started[k]]
        /\ \E cost \in Cost(j)[highest(j)].min..Cost(j)[highest(j)].max :
            /\ completed' = [k \in DOMAIN completed \cup {j} |->
                                IF k = j THEN finish(j, cost) ELSE completed[k]]
            /\ core_free' = [c \in 1..NumCores |-> IF c \in cores(j) THEN finish(j, cost) ELSE core_free[c]]
    BY Zenon DEF Run
<1>3. j \in Jobs /\ Fits(e, j, now)
    BY <1>1, <1>2
<1>4. PICK p, S : p = highest(j) /\ S = cores(j)
    OBVIOUS
<1>5. e.free \in [Cores -> Nat]
    BY <1>1, ExecFacts
<1>6. PICK n \in Nat : n = Cardinality(FreeCores) /\ IsFiniteSet(FreeCores)
    <2>1. FreeCores \in SUBSET Cores /\ IsFiniteSet(Cores)
        BY <1>1, CoresFacts DEF FreeAt
    <2>2. IsFiniteSet(FreeCores)
        BY <2>1, FS_Subset
    <2>3. QED BY <2>2, FS_CardinalityType
<1>7. /\ p \in Parallelism(j) /\ p <= n /\ \A q \in Parallelism(j) : q <= n => q <= p
      /\ p \in Cores /\ Cost(j)[p] \in Intervals(Nat)
    <2>1. /\ Parallelism(j) \in SUBSET (1..NumCores) /\ IsFiniteSet(Parallelism(j))
          /\ MinParallelism(j) \in Parallelism(j)
          /\ \A q \in Parallelism(j) : Cost(j)[q] \in Intervals(Nat)
        BY <1>3, JobFacts
    <2> DEFINE P == {q \in Parallelism(j) : q <= n}
    <2>2. P \in SUBSET Parallelism(j)
        OBVIOUS
    <2>3. IsFiniteSet(P)
        BY <2>1, <2>2, FS_Subset
    <2>4. MinParallelism(j) \in P
        BY <1>1, <1>3, <1>6, <2>1 DEF Fits
    <2>5. P \in SUBSET Int
        BY <2>1
    <2>6. p = Max(P)
        BY <1>4, <1>6
    <2>7. \A q : q \in P <=> q \in Parallelism(j) /\ q <= n
        OBVIOUS
    <2> HIDE DEF P
    <2>8. p \in P /\ \A q \in P : q <= p
        BY <2>3, <2>4, <2>5, <2>6, MaxFacts
    <2>9. QED BY <2>1, <2>7, <2>8 DEF Cores
<1>8. S \in SUBSET FreeCores /\ Cardinality(S) = p
    <2>1. p \in 0..n
        BY <1>7 DEF Cores
    <2>2. \E T \in SUBSET FreeCores : Cardinality(T) = p
        BY <1>6, <2>1, SubsetOfSize
    <2>3. S = CHOOSE T \in SUBSET FreeCores : Cardinality(T) = p
        BY <1>4
    <2>4. QED BY <2>2, <2>3
<1>9. PICK x : /\ \E cost \in Cost(j)[p].min..Cost(j)[p].max : x = finish(j, cost)
               /\ completed' = [k \in DOMAIN completed \cup {j} |-> IF k = j THEN x ELSE completed[k]]
               /\ core_free' = [c \in 1..NumCores |-> IF c \in S THEN x ELSE core_free[c]]
    <2>1. PICK cost \in Cost(j)[highest(j)].min..Cost(j)[highest(j)].max :
            /\ completed' = [k \in DOMAIN completed \cup {j} |->
                                IF k = j THEN finish(j, cost) ELSE completed[k]]
            /\ core_free' = [c \in 1..NumCores |-> IF c \in cores(j) THEN finish(j, cost) ELSE core_free[c]]
        BY <1>2
    <2>2. PICK x : x = finish(j, cost)
        OBVIOUS
    <2> HIDE DEF highest, cores, finish
    <2>3. cost \in Cost(j)[p].min..Cost(j)[p].max
        BY <1>4, <2>1
    <2>4. /\ completed' = [k \in DOMAIN completed \cup {j} |-> IF k = j THEN x ELSE completed[k]]
          /\ core_free' = [c \in 1..NumCores |-> IF c \in S THEN x ELSE core_free[c]]
        BY <1>4, <2>1, <2>2
    <2>5. QED BY <2>2, <2>3, <2>4
<1>10. x \in Nat /\ now + Cost(j)[p].min <= x /\ x <= now + Cost(j)[p].max
    <2>1. PICK a \in Nat, b \in Nat : a = Cost(j)[p].min /\ b = Cost(j)[p].max
        BY <1>7 DEF Intervals
    <2>2. PICK cost \in a..b : x = finish(j, cost)
        BY <1>9, <2>1
    <2>3. finish(j, cost) = now + cost
        BY DEF Simple, Independent
    <2> HIDE DEF finish
    <2>4. QED BY <2>1, <2>2, <2>3
<1> DEFINE r == [job |-> j, at |-> now, on |-> S, until |-> x]
<1>11. r \in Dispatches
    BY <1>1, <1>3, <1>8, <1>10 DEF Dispatches, FreeAt
<1>12. r.job = j /\ r.at = now /\ r.on = S /\ r.until = x
    OBVIOUS
<1> HIDE DEF highest, cores, finish, r
<1>13. Takes(e, r)
    <2>1. \A k \in Jobs \ {j} : Fits(e, k, now) => HigherPriority(j, k)
        BY <1>1, <1>2
    <2>2. Chosen(e, j, now, p)
        BY <1>1, <1>3, <1>6, <1>7, <2>1 DEF Chosen
    <2>3. Runs(e, j, now, p, S, x)
        BY <1>1, <1>8, <1>10, <2>2 DEF Runs
    <2>4. QED BY <1>8, <1>12, <2>3 DEF Takes
<1>14. core_free' = Result(e, r).free
    BY <1>1, <1>9, <1>12 DEF Result, Then, Cores
<1>15. /\ DOMAIN started' = DOMAIN started \cup {j} /\ DOMAIN completed' = DOMAIN completed \cup {j}
       /\ completed'[j] = x /\ \A k \in DOMAIN completed \ {j} : completed'[k] = completed[k]
    BY <1>2, <1>9
<1>16. QED BY <1>11, <1>12, <1>13, <1>14, <1>15

LEMMA SameScenarios ==
    ASSUME UNCHANGED Data
    PROVE  Scenarios' = Scenarios
<1>1. /\ Jobs' = Jobs /\ problem' = problem
      /\ \A j : Arrival(j)' = Arrival(j) /\ (IsFork(j)' <=> IsFork(j))
    BY DEF Data, Jobs, IsFork, Arrival
<1>2. \A j : AllSuccessors(j)' = AllSuccessors(j)
    BY DEF Data, AllSuccessors, Successors
<1>3. QED BY <1>1, <1>2, Zenon DEF Scenarios

LEMMA FollowsStill ==
    ASSUME UNCHANGED Data, NEW e \in Execs, Reached(e, Cardinality(e.scheduled)),
           NEW t, t = now', e.now <= t, NothingBefore(e, t),
           e.arrival = scenario'.arrival, e.scheduled = DOMAIN started', e.free = core_free'
    PROVE  Follows(e)'
<1>1. PICK d : d = Cardinality(e.scheduled)
    OBVIOUS
<1>2. /\ \A g, k : Reached(g, k)' <=> Reached(g, k)
      /\ Execs' = Execs /\ \A g, u : NothingBefore(g, u)' <=> NothingBefore(g, u)
    BY SameExecutions
<1>3. Reached(e, d)' /\ e \in Execs' /\ NothingBefore(e, t)'
    BY <1>1, <1>2
<1>4. QED BY <1>1, <1>3 DEF Follows

\* An execution begins with the platform as the problem supposes it.
LEMMA BeginIsFollowed ==
    ASSUME DataOK, Simple, ExecutionInv, BeginExecution
    PROVE  ExecutionInv'
<1>1. /\ Finished /\ ~aborted /\ ~Running /\ scenario' \in Scenarios
      /\ core_free' \in Picks(problem.platform)
      /\ UNCHANGED explorationVars /\ UNCHANGED <<now, started, completed>>
    BY DEF BeginExecution
<1>2. UNCHANGED Data
    BY <1>1 DEF explorationVars, Data
<1>3. now = 0 /\ DOMAIN started = {} /\ DOMAIN completed = {}
    BY <1>1 DEF ExecutionInv
<1>4. PICK a : /\ a = scenario'.arrival /\ a \in [Jobs -> Nat]
               /\ \A j \in Jobs : Arrival(j).min <= a[j] /\ a[j] <= Arrival(j).max
    <2>1. PICK range : range = [j \in Jobs |-> Arrival(j)]
        OBVIOUS
    <2>2. scenario'.arrival \in Picks(range)
        BY <1>1, <2>1 DEF Scenarios
    <2>3. DOMAIN range = Jobs /\ \A j \in Jobs : range[j] = Arrival(j)
        BY <2>1
    <2>4. \A j \in DOMAIN range : range[j].min \in Nat /\ range[j].max \in Nat
        BY <2>3, JobFacts
    <2>5. /\ scenario'.arrival \in [DOMAIN range -> Nat]
          /\ \A j \in DOMAIN range :
                range[j].min <= scenario'.arrival[j] /\ scenario'.arrival[j] <= range[j].max
        BY <2>2, <2>4, PicksFacts
    <2>6. QED BY <2>3, <2>5
<1>5. PICK h : /\ h = core_free' /\ h \in [Cores -> Nat]
               /\ \A c \in Cores : problem.platform[c].min <= h[c] /\ h[c] <= problem.platform[c].max
    <2>1. problem.platform \in Seq(Intervals(Nat))
        BY DEF DataOK, IsProblem
    <2>2. DOMAIN problem.platform = Cores
        BY <2>1 DEF Cores, NumCores
    <2>3. \A c \in Cores : problem.platform[c] \in Intervals(Nat)
        BY <2>1, <2>2
    <2>4. \A c \in DOMAIN problem.platform : problem.platform[c].min \in Nat /\ problem.platform[c].max \in Nat
        BY <2>2, <2>3 DEF Intervals
    <2>5. /\ core_free' \in [DOMAIN problem.platform -> Nat]
          /\ \A c \in DOMAIN problem.platform :
                problem.platform[c].min <= core_free'[c] /\ core_free'[c] <= problem.platform[c].max
        BY <1>1, <2>4, PicksFacts
    <2>6. QED BY <2>2, <2>5
<1>6. PICK e : e = [arrival |-> a, scheduled |-> {}, free |-> h, now |-> 0]
    OBVIOUS
<1>7. NothingBefore(e, 0)
    BY DEF NothingBefore
<1>8. e \in Execs
    BY <1>4, <1>5, <1>6, <1>7 DEF Execs
<1>9. Start(e)
    BY <1>5, <1>6, <1>8 DEF Start
<1>10. Reached(e, 0)
    BY <1>9, ReachedFacts
<1>11. Cardinality(e.scheduled) = 0
    BY <1>6, FS_EmptySet
<1>12. Follows(e)'
    <2>1. now' = 0 /\ DOMAIN started' = {}
        BY <1>1, <1>3
    <2>2. /\ Reached(e, Cardinality(e.scheduled)) /\ e.now <= 0
          /\ e.arrival = scenario'.arrival /\ e.scheduled = DOMAIN started' /\ e.free = core_free'
        BY <1>4, <1>5, <1>6, <1>10, <1>11, <2>1
    <2>3. QED BY <1>2, <1>7, <1>8, <2>1, <2>2, FollowsStill
<1>13. Running' /\ (Finished /\ ~aborted)'
    <2>1. (Finished /\ ~aborted)'
        BY <1>1 DEF Finished, Explored, explorationVars
    <2>2. scenario' # <<>>
        <3>1. "arrival" \in DOMAIN scenario'
            BY <1>1 DEF Scenarios
        <3>2. DOMAIN <<>> = {}
            OBVIOUS
        <3>3. QED BY <3>1, <3>2
    <2>3. QED BY <2>1, <2>2 DEF Running
<1>14. scenario' \in Scenarios'
    BY <1>1, <1>2, SameScenarios
<1>15. (now \in Nat /\ DOMAIN completed = DOMAIN started)' /\ DOMAIN completed' = {}
    BY <1>1, <1>3
<1>16. QED BY <1>12, <1>13, <1>14, <1>15 DEF ExecutionInv

LEMMA RunIsFollowed ==
    ASSUME SoundInv, Simple, ExecutionInv, ~observed_deadline_miss, Run
    PROVE  ExecutionInv'
<1>1. DataOK /\ PathsInv
    BY DEF SoundInv, RefInv, IInv
<1>2. Running /\ UNCHANGED <<explorationVars, scenario, now>>
    BY DEF Run
<1>3. UNCHANGED Data /\ completion' = completion
    BY <1>2 DEF explorationVars, Data
<1>4. /\ Finished /\ ~aborted /\ scenario \in Scenarios /\ now \in Nat
      /\ DOMAIN completed = DOMAIN started
    BY <1>2 DEF ExecutionInv
<1>5. PICK e : Follows(e)
    BY <1>2 DEF ExecutionInv
<1>6. PICK r \in Dispatches :
        /\ Takes(e, r) /\ r.at = now /\ core_free' = Result(e, r).free
        /\ DOMAIN started' = DOMAIN started \cup {r.job}
        /\ DOMAIN completed' = DOMAIN completed \cup {r.job} /\ completed'[r.job] = r.until
        /\ \A k \in DOMAIN completed \ {r.job} : completed'[k] = completed[k]
    BY <1>1, <1>4, <1>5, RunIsDispatch
<1>7. PICK g : g = Result(e, r)
    OBVIOUS
<1>8. /\ e \in Execs /\ Reached(e, Cardinality(e.scheduled)) /\ e.arrival = scenario.arrival
      /\ e.scheduled = DOMAIN started
    BY <1>5 DEF Follows
<1>9. /\ g \in Execs /\ g.arrival = e.arrival /\ g.scheduled = e.scheduled \cup {r.job} /\ g.now = now
      /\ r.job \in Jobs \ e.scheduled /\ r.until \in Nat
    BY <1>1, <1>6, <1>7, <1>8, TakesFacts
<1>10. PICK d \in Nat : d = Cardinality(e.scheduled) /\ IsFiniteSet(e.scheduled)
    <2>1. e.scheduled \in SUBSET Jobs /\ IsFiniteSet(Jobs)
        BY <1>1, <1>8, ExecFacts, ProblemFacts
    <2>2. IsFiniteSet(e.scheduled)
        BY <2>1, FS_Subset
    <2>3. QED BY <2>2, FS_CardinalityType
<1>11. Cardinality(g.scheduled) = d + 1
    BY <1>9, <1>10, FS_AddElement
<1>12. d \in 0..(current_job_count - 1)
    <2>1. current_job_count = Len(problem.job)
        BY <1>4 DEF Finished, Explored
    <2>2. g.scheduled \in SUBSET Jobs
        BY <1>1, <1>9, ExecFacts
    <2>3. IsFiniteSet(Jobs) /\ Cardinality(Jobs) = Len(problem.job) /\ Len(problem.job) \in Nat
        BY <1>1, ProblemFacts
    <2>4. Cardinality(g.scheduled) <= Cardinality(Jobs)
        BY <2>2, <2>3, FS_Subset
    <2>5. QED BY <1>11, <2>1, <2>3, <2>4
<1>13. Reported(r.job, r.until)
    BY <1>1, <1>6, <1>8, <1>10, <1>12 DEF PathsInv
<1>14. Reached(g, Cardinality(g.scheduled))
    BY <1>1, <1>6, <1>7, <1>8, <1>10, <1>11, ReachedNext
<1>15. Follows(g)'
    <2>1. PICK t : t = now'
        OBVIOUS
    <2>2. NothingBefore(g, g.now)
        BY <1>1, <1>9, ExecFacts
    <2>3. t = now /\ NothingBefore(g, t) /\ g.now <= t
        BY <1>2, <1>4, <1>9, <2>1, <2>2
    <2>4. g.arrival = scenario'.arrival /\ g.scheduled = DOMAIN started' /\ g.free = core_free'
        BY <1>2, <1>6, <1>7, <1>8, <1>9
    <2>5. QED BY <1>3, <1>9, <1>14, <2>1, <2>3, <2>4, FollowsStill
<1>16. \A j \in DOMAIN completed' : completed'[j] \in Nat /\ Reported(j, completed'[j])
    BY <1>6, <1>9, <1>13 DEF ExecutionInv
<1>17. \A j \in DOMAIN completed' : completed'[j] \in Nat /\ Reported(j, completed[j])'
    BY <1>3, <1>16 DEF Reported
<1>18. (Finished /\ ~aborted)' /\ Running' /\ scenario' \in Scenarios'
    <2>1. (Finished /\ ~aborted)'
        BY <1>2, <1>4 DEF Finished, Explored, explorationVars
    <2>2. scenario' \in Scenarios'
        BY <1>2, <1>3, <1>4, SameScenarios
    <2>3. QED BY <1>2, <2>1, <2>2 DEF Running
<1>19. now' \in Nat /\ DOMAIN completed' = DOMAIN started'
    BY <1>2, <1>4, <1>6
<1>20. QED BY <1>15, <1>17, <1>18, <1>19 DEF ExecutionInv

\* The instants at which something may change, when no job is dispatched.
LEMMA EventsFacts ==
    ASSUME DataOK, Simple, scenario \in Scenarios, now \in Nat, NEW e, Follows(e)
    PROVE  /\ Events = {e.free[c] : c \in Cores} \cup {e.arrival[j] : j \in Jobs \ e.scheduled}
           /\ Events \in SUBSET Nat /\ IsFiniteSet(Events)
<1>1. /\ Pending = Jobs \ e.scheduled /\ e.free = core_free /\ e \in Execs
      /\ \A j \in Jobs : Waits(j) = [unmet |-> FALSE, until |-> {e.arrival[j]}]
    BY DispatchableFits DEF Follows
<1>2. UNION {Waits(j).until : j \in {k \in Pending : ~Waits(k).unmet}} = {e.arrival[j] : j \in Jobs \ e.scheduled}
    <2>1. {k \in Pending : ~Waits(k).unmet} = Jobs \ e.scheduled
        BY <1>1
    <2>2. \A j \in Jobs \ e.scheduled : Waits(j).until = {e.arrival[j]}
        BY <1>1
    <2>3. QED BY <2>1, <2>2
<1>3. Events = {e.free[c] : c \in Cores} \cup {e.arrival[j] : j \in Jobs \ e.scheduled}
    BY <1>1, <1>2 DEF Events, Cores
<1>4. e.free \in [Cores -> Nat] /\ e.arrival \in [Jobs -> Nat]
    BY <1>1, ExecFacts
<1>5. IsFiniteSet({e.free[c] : c \in Cores})
    <2>1. PICK h : h = e.free /\ DOMAIN h = Cores
        BY <1>4
    <2>2. IsFiniteSet(DOMAIN h)
        BY <2>1, CoresFacts
    <2>3. IsFiniteSet({h[c] : c \in DOMAIN h})
        BY <2>2, FiniteImage
    <2>4. QED BY <2>1, <2>3
<1>6. IsFiniteSet({e.arrival[j] : j \in Jobs \ e.scheduled})
    <2>1. PICK h : h = [j \in Jobs \ e.scheduled |-> e.arrival[j]]
        OBVIOUS
    <2>2. DOMAIN h \in SUBSET Jobs /\ IsFiniteSet(Jobs)
        BY <2>1, ProblemFacts
    <2>3. IsFiniteSet(DOMAIN h)
        BY <2>2, FS_Subset
    <2>4. IsFiniteSet({h[c] : c \in DOMAIN h})
        BY <2>3, FiniteImage
    <2>5. {h[c] : c \in DOMAIN h} = {e.arrival[j] : j \in Jobs \ e.scheduled}
        BY <2>1
    <2>6. QED BY <2>4, <2>5
<1>7. IsFiniteSet(Events)
    BY <1>3, <1>5, <1>6, FS_Union
<1>8. QED BY <1>3, <1>4, <1>7

\* A job that fits while nothing changes fits already.
LEMMA FitsAlready ==
    ASSUME DataOK, NEW e \in Execs, NEW u \in Nat, NEW w \in Nat, u <= w,
           \A c \in Cores : e.free[c] > u => e.free[c] > w,
           \A j \in Jobs \ e.scheduled : e.arrival[j] > u => e.arrival[j] > w,
           NEW k \in Jobs, Fits(e, k, w)
    PROVE  Fits(e, k, u)
<1>1. e.free \in [Cores -> Nat] /\ \A j \in Jobs : e.arrival[j] \in Nat
    BY ExecFacts
<1>2. FreeAt(Cores, e.free, w) = FreeAt(Cores, e.free, u)
    BY <1>1 DEF FreeAt
<1>3. k \in Jobs \ e.scheduled /\ e.arrival[k] <= w
    BY DEF Fits
<1>4. e.arrival[k] <= u
    BY <1>1, <1>3
<1>5. QED BY <1>2, <1>3, <1>4 DEF Fits

LEMMA WaitIsFollowed ==
    ASSUME SoundInv, Simple, ExecutionInv, Wait
    PROVE  ExecutionInv'
<1>1. DataOK
    BY DEF SoundInv, RefInv, IInv
<1>2. /\ Running /\ Dispatchable = {} /\ \E t \in Events : t > now
      /\ now' = Min({t \in Events : t > now})
      /\ UNCHANGED explorationVars /\ UNCHANGED <<scenario, core_free, started, completed>>
    BY DEF Wait
<1>3. UNCHANGED Data /\ completion' = completion
    BY <1>2 DEF explorationVars, Data
<1>4. /\ Finished /\ ~aborted /\ scenario \in Scenarios /\ now \in Nat
      /\ DOMAIN completed = DOMAIN started
    BY <1>2 DEF ExecutionInv
<1>5. PICK e : Follows(e)
    BY <1>2 DEF ExecutionInv
<1>6. /\ e \in Execs /\ Reached(e, Cardinality(e.scheduled)) /\ e.arrival = scenario.arrival
      /\ e.scheduled = DOMAIN started /\ e.free = core_free /\ e.now <= now /\ NothingBefore(e, now)
    BY <1>5 DEF Follows
<1>7. /\ Events = {e.free[c] : c \in Cores} \cup {e.arrival[j] : j \in Jobs \ e.scheduled}
      /\ Events \in SUBSET Nat /\ IsFiniteSet(Events)
    BY <1>1, <1>4, <1>5, EventsFacts
<1>8. Dispatchable = {k \in Jobs : Fits(e, k, now)}
    BY <1>1, <1>4, <1>5, DispatchableFits
<1>9. PICK t : t = now' /\ t \in Nat /\ now < t /\ \A x \in Events : x > now => t <= x
    <2>1. PICK T : T = {x \in Events : x > now}
        OBVIOUS
    <2>2. T \in SUBSET Events /\ T # {}
        BY <1>2, <2>1
    <2>3. IsFiniteSet(T)
        BY <1>7, <2>2, FS_Subset
    <2>4. T \in SUBSET Int
        BY <1>7, <2>2
    <2>5. Min(T) \in T /\ \A x \in T : Min(T) <= x
        BY <2>2, <2>3, <2>4, MinFacts
    <2>6. now' = Min(T)
        BY <1>2, <2>1
    <2>7. QED BY <1>4, <1>7, <2>1, <2>5, <2>6
<1>10. NothingBefore(e, t)
    <2>1. SUFFICES ASSUME NEW u \in Nat, u < t, NEW k \in Jobs, Fits(e, k, u) PROVE FALSE
        BY DEF NothingBefore
    <2>2. CASE u < now
        BY <1>6, <2>1, <2>2 DEF NothingBefore
    <2>3. CASE ~(u < now)
        <3>1. now <= u
            BY <1>4, <2>3
        <3>2. /\ \A c \in Cores : e.free[c] \in Nat /\ e.free[c] \in Events
              /\ \A j \in Jobs \ e.scheduled : e.arrival[j] \in Nat /\ e.arrival[j] \in Events
            BY <1>7
        <3>3. \A x \in Events : x > now => x > u
            BY <1>7, <1>9, <2>1
        <3>4. Fits(e, k, now)
            BY <1>1, <1>4, <1>6, <2>1, <3>1, <3>2, <3>3, FitsAlready
        <3>5. QED BY <1>2, <1>8, <3>4
    <2>4. QED BY <2>2, <2>3
<1>11. Follows(e)'
    <2>1. e.now <= t
        <3>1. e.now \in Nat
            BY <1>1, <1>6, ExecFacts
        <3>2. QED BY <1>4, <1>6, <1>9, <3>1
    <2>2. e.arrival = scenario'.arrival /\ e.scheduled = DOMAIN started' /\ e.free = core_free'
        BY <1>2, <1>6
    <2>3. QED BY <1>3, <1>6, <1>9, <1>10, <2>1, <2>2, FollowsStill
<1>12. \A j \in DOMAIN completed' : completed'[j] \in Nat /\ Reported(j, completed[j])'
    BY <1>2, <1>3 DEF ExecutionInv, Reported
<1>13. (Finished /\ ~aborted)' /\ Running' /\ scenario' \in Scenarios'
    <2>1. (Finished /\ ~aborted)'
        BY <1>2, <1>4 DEF Finished, Explored, explorationVars
    <2>2. scenario' \in Scenarios'
        BY <1>2, <1>3, <1>4, SameScenarios
    <2>3. QED BY <1>2, <2>1, <2>2 DEF Running
<1>14. now' \in Nat /\ DOMAIN completed' = DOMAIN started'
    BY <1>2, <1>4, <1>9
<1>15. QED BY <1>11, <1>12, <1>13, <1>14 DEF ExecutionInv

\* While nothing is executed, the exploration goes on; then it is over.
LEMMA OtherwiseIsFollowed ==
    ASSUME SoundInv, Simple, ExecutionInv, UNCHANGED executionVars, [Next]_explorationVars
    PROVE  ExecutionInv'
<1>1. UNCHANGED <<scenario, now, core_free, started, completed>>
    BY DEF executionVars
<1>2. CASE ~Running
    <2>1. DOMAIN completed' = {} /\ ~Running'
        BY <1>1, <1>2 DEF ExecutionInv, Running
    <2>2. QED BY <1>1, <1>2, <2>1 DEF ExecutionInv
<1>3. CASE Running
    <2>1. Finished /\ ~aborted
        BY <1>3 DEF ExecutionInv
    <2>2. UNCHANGED explorationVars
        BY <2>1 DEF Next, NextDepth, GiveUp, Explore, Dispatch, Done, Finished
    <2>3. UNCHANGED Data /\ completion' = completion
        BY <2>2 DEF explorationVars, Data
    <2>4. PICK e : Follows(e)
        BY <1>3 DEF ExecutionInv
    <2>5. Follows(e)'
        <3>1. /\ e \in Execs /\ Reached(e, Cardinality(e.scheduled)) /\ e.now <= now' /\ NothingBefore(e, now')
              /\ e.arrival = scenario'.arrival /\ e.scheduled = DOMAIN started' /\ e.free = core_free'
            BY <1>1, <2>4 DEF Follows
        <3>2. PICK t : t = now'
            OBVIOUS
        <3>3. e.now <= t /\ NothingBefore(e, t)
            BY <3>1, <3>2
        <3>4. QED BY <2>3, <3>1, <3>2, <3>3, FollowsStill
    <2>6. (Finished /\ ~aborted)' /\ Running' /\ scenario' \in Scenarios'
        <3>1. (Finished /\ ~aborted)'
            BY <2>1, <2>2 DEF Finished, Explored, explorationVars
        <3>2. scenario' \in Scenarios'
            BY <1>1, <1>3, <2>3, SameScenarios DEF ExecutionInv
        <3>3. QED BY <1>1, <1>3, <3>1, <3>2 DEF Running
    <2>7. /\ now' \in Nat /\ DOMAIN completed' = DOMAIN started'
          /\ \A j \in DOMAIN completed' : completed'[j] \in Nat /\ Reported(j, completed[j])'
        BY <1>1, <2>3 DEF ExecutionInv, Reported
    <2>8. QED BY <2>5, <2>6, <2>7 DEF ExecutionInv
<1>4. QED BY <1>2, <1>3

-----------------------------------------------------------------------------
(***************************************************************************)
(* The theorems.                                                           *)
(***************************************************************************)
CompletionInv == Simple => SoundInv /\ (~observed_deadline_miss => ExecutionInv)

LEMMA InitIsFollowed == SagInit => CompletionInv
<1>1. SUFFICES ASSUME SagInit, Simple PROVE SoundInv /\ ExecutionInv
    BY DEF CompletionInv
<1>2. SoundInv
    BY <1>1, InitIsSound DEF SagInit
<1>3. DOMAIN <<>> = {}
    OBVIOUS
<1>4. ~Running /\ now = 0 /\ DOMAIN started = {} /\ DOMAIN completed = {}
    BY <1>1, <1>3 DEF SagInit, Running
<1>5. QED BY <1>2, <1>4 DEF ExecutionInv

LEMMA NextIsFollowed == CompletionInv /\ [SagNext]_vars => CompletionInv'
<1>1. SUFFICES ASSUME CompletionInv, [SagNext]_vars, Simple' PROVE SoundInv' /\ (~observed_deadline_miss' => ExecutionInv')
    BY DEF CompletionInv
<1>2. [Next]_explorationVars
    BY <1>1, ExecutionIsStutter
<1>3. Simple /\ SoundInv /\ (~observed_deadline_miss => ExecutionInv)
    BY <1>1, <1>2, SimpleStays DEF CompletionInv
<1>4. SoundInv'
    BY <1>2, <1>3, NextIsSound
<1>5. DataOK
    BY <1>3 DEF SoundInv, RefInv, IInv
<1>6. ASSUME ~observed_deadline_miss' PROVE ExecutionInv'
    <2>1. ~observed_deadline_miss
        <3>1. CASE Dispatch
            BY <1>3, <1>6, <3>1, DispatchInTime DEF SoundInv, RefInv
        <3>2. CASE ~Dispatch
            BY <1>2, <1>6, <3>2 DEF Next, NextDepth, GiveUp, Explore, Done, explorationVars
        <3>3. QED BY <3>1, <3>2
    <2>2. ExecutionInv
        BY <1>3, <2>1
    <2>3. CASE UNCHANGED executionVars
        BY <1>2, <1>3, <2>2, <2>3, OtherwiseIsFollowed
    <2>4. CASE BeginExecution
        BY <1>3, <1>5, <2>2, <2>4, BeginIsFollowed
    <2>5. CASE Run
        BY <1>3, <2>1, <2>2, <2>5, RunIsFollowed
    <2>6. CASE Wait
        BY <1>3, <2>2, <2>6, WaitIsFollowed
    <2>7. QED BY <1>1, <2>3, <2>4, <2>5, <2>6 DEF SagNext, Executed, vars
<1>7. QED BY <1>4, <1>6

THEOREM CompletionsAreFollowed == SagSpec => []CompletionInv
<1>1. QED BY InitIsFollowed, NextIsFollowed, PTL DEF SagSpec

\* The analysis is sound for jobs that do not depend on each other: as long as
\* no deadline miss was observed, every completion of every execution lies in
\* the interval reported for the job (space.hpp, explore, dispatch_wrt_job and
\* update_finish_times), whatever states were merged or nodes shared on the way.
THEOREM CompletionsAreSound ==
    SagSpec => [](Simple /\ ~observed_deadline_miss => SoundCompletion)
<1>1. CompletionInv => (Simple /\ ~observed_deadline_miss => SoundCompletion)
    BY DEF CompletionInv, ExecutionInv, Reported, SoundCompletion
<1>2. QED BY <1>1, CompletionsAreFollowed, PTL

\* The verdict is sound: no execution of such jobs misses a deadline when the
\* analysis says that they are schedulable (space.hpp, is_schedulable).
THEOREM VerdictIsSafe == SagSpec => [](Simple => SchedulableIsSafe)
<1>1. CompletionInv => (Simple => SchedulableIsSafe)
    <2>1. SUFFICES ASSUME CompletionInv, Simple, Running, IsSchedulable, NEW j \in DOMAIN completed
                   PROVE  completed[j] <= Deadline(j)
        BY DEF SchedulableIsSafe
    <2>2. ~observed_deadline_miss
        BY <2>1 DEF IsSchedulable
    <2>3. SoundInv /\ ExecutionInv
        BY <2>1, <2>2 DEF CompletionInv
    <2>4. completed[j] \in Nat /\ j \in DOMAIN completion /\ completed[j] <= completion[j].max
        BY <2>3 DEF ExecutionInv, Reported
    <2>5. completion[j].max <= Deadline(j)
        BY <2>2, <2>3, <2>4 DEF SoundInv, RefInv, MissInv
    <2>6. completion[j].max \in Int /\ Deadline(j) \in Int
        <3>1. IInv /\ DataOK
            BY <2>3 DEF SoundInv, RefInv, IInv
        <3>2. j \in Jobs /\ completion[j] \in Intervals(Int)
            BY <2>4, <3>1 DEF IInv, ReportsInv
        <3>3. QED BY <3>1, <3>2, JobFacts DEF Intervals
    <2>7. QED BY <2>4, <2>5, <2>6
<1>2. QED BY <1>1, CompletionsAreFollowed, PTL
-----------------------------------------------------------------------------
(***************************************************************************)
(* A node with jobs left always has a job to dispatch.                     *)
(***************************************************************************)
\* A state stands for an execution in which everything is as late as it knows.
LateExecution(n, s) ==
    [arrival |-> [j \in Jobs |-> Arrival(j).max], scheduled |-> n.scheduled,
     free |-> [c \in Cores |-> Avail(s, c).max], now |-> 0]

LEMMA SomeExecution ==
    ASSUME DataOK, NEW n, IsNode(n), NEW s \in Range(n.states)
    PROVE  LateExecution(n, s) \in Execs /\ StandsFor(n, s, LateExecution(n, s))
<1>1. PICK e : e = LateExecution(n, s)
    OBVIOUS
<1>2. IsState(s) /\ s.avail \in Trackers(NumCores) /\ n.scheduled \in SUBSET Jobs
    BY DEF IsNode, IsStateOf, IsState
<1>3. \A c \in Cores : Avail(s, c).min \in Nat /\ Avail(s, c).max \in Nat /\ Avail(s, c).min <= Avail(s, c).max
    BY <1>2, AvailType DEF Cores
<1>4. /\ e.free = [c \in Cores |-> Avail(s, c).max] /\ e.scheduled = n.scheduled
      /\ e.arrival = [j \in Jobs |-> Arrival(j).max] /\ e.now = 0
    BY <1>1 DEF LateExecution
<1>5. e \in Execs
    <2>1. \A j \in Jobs : /\ Arrival(j).max \in Nat
                          /\ Arrival(j).min <= e.arrival[j] /\ e.arrival[j] <= Arrival(j).max
        BY <1>4, JobFacts
    <2>2. e \in [arrival : [Jobs -> Nat], scheduled : SUBSET Jobs, free : [Cores -> Nat], now : Nat]
        BY <1>1, <1>2, <1>3, <2>1 DEF LateExecution
    <2>3. NothingBefore(e, e.now)
        BY <1>4 DEF NothingBefore
    <2>4. QED BY <2>1, <2>2, <2>3 DEF Execs
<1>6. PICK h : h = e.free
    OBVIOUS
<1>7. h \in [Cores -> Nat] /\ \A c \in Cores : h[c] = Avail(s, c).max
    BY <1>3, <1>4, <1>6
<1>8. NumCores \in Nat \ {0} /\ IsFiniteSet(Cores) /\ Cardinality(Cores) = NumCores /\ Cores = 1..NumCores
    BY CoresFacts DEF Cores
<1>9. ASSUME NEW p \in Cores
      PROVE  /\ Cardinality(FreeAt(Cores, h, Avail(s, p).max)) >= p
             /\ Cardinality(FreeBefore(Cores, h, Avail(s, p).min)) < p
    <2>1. PICK q \in Nat : q = p /\ q >= 1
        BY <1>8
    <2>2. /\ IsFiniteSet(1..q) /\ Cardinality(1..q) = q
          /\ IsFiniteSet(1..(q - 1)) /\ Cardinality(1..(q - 1)) = q - 1
        BY <2>1, FS_Interval
    <2>3. PICK A, B : A = FreeAt(Cores, h, Avail(s, p).max) /\ B = FreeBefore(Cores, h, Avail(s, p).min)
        OBVIOUS
    <2>4. 1..q \subseteq A
        <3>1. ASSUME NEW c \in 1..q PROVE c \in A
            <4>1. c \in Cores /\ p \in c..NumCores
                BY <1>8, <2>1
            <4>2. Avail(s, c).max <= Avail(s, p).max
                BY <1>2, <1>8, <4>1, AvailOrder
            <4>3. QED BY <1>7, <2>3, <4>1, <4>2 DEF FreeAt
        <3>2. QED BY <3>1
    <2>5. B \subseteq 1..(q - 1)
        <3>1. ASSUME NEW c \in Cores, p <= c PROVE c \notin B
            <4>1. c \in p..NumCores
                BY <1>8, <3>1
            <4>2. Avail(s, p).max <= Avail(s, c).max
                BY <1>2, <1>8, <4>1, AvailOrder
            <4>3. ~(h[c] < Avail(s, p).min)
                BY <1>3, <1>7, <4>2
            <4>4. QED BY <2>3, <4>3 DEF FreeBefore
        <3>2. B \in SUBSET Cores
            BY <2>3 DEF FreeBefore
        <3>3. ASSUME NEW c \in B PROVE c \in 1..(q - 1)
            <4>1. c \in Cores /\ ~(p <= c)
                BY <3>1, <3>2
            <4>2. QED BY <1>8, <2>1, <4>1
        <3>4. QED BY <3>3
    <2>6. Cardinality(A) \in Nat /\ q <= Cardinality(A)
        <3>1. A \in SUBSET Cores
            BY <2>3 DEF FreeAt
        <3>2. IsFiniteSet(A)
            BY <1>8, <3>1, FS_Subset
        <3>3. QED BY <2>2, <2>4, <3>2, FS_Subset, FS_CardinalityType
    <2>7. Cardinality(B) \in Nat /\ Cardinality(B) <= q - 1
        <3>1. IsFiniteSet(B)
            BY <2>2, <2>5, FS_Subset
        <3>2. QED BY <2>2, <2>5, <3>1, FS_Subset, FS_CardinalityType
    <2>8. QED BY <2>1, <2>3, <2>6, <2>7
<1>10. Covered(Cores, NumCores, s.avail, e.free, e.now)
    BY <1>6, <1>8, <1>9 DEF Covered, Avail
<1>11. QED BY <1>1, <1>4, <1>5, <1>10 DEF StandsFor

\* An execution with jobs left goes on: at some instant the cores that one of
\* them needs are free.
LEMMA SomethingFits ==
    ASSUME DataOK, NEW e \in Execs, NEW k \in Jobs \ e.scheduled
    PROVE  \E t \in Nat : Fits(e, k, t)
<1>1. PICK h : h = e.free
    OBVIOUS
<1>2. h \in [Cores -> Nat] /\ e.arrival[k] \in Nat
    BY <1>1, ExecFacts
<1>3. PICK V : V = {h[c] : c \in DOMAIN h}
    OBVIOUS
<1>4. V \in SUBSET Int /\ IsFiniteSet(V) /\ V # {} /\ V \in SUBSET Nat
    <2>1. DOMAIN h = Cores /\ 1 \in Cores
        BY <1>2, CoresFacts DEF Cores
    <2>2. IsFiniteSet(V)
        BY <1>3, <2>1, CoresFacts, FiniteImage
    <2>3. QED BY <1>2, <1>3, <2>1, <2>2
<1>5. PICK b \in Nat : \A c \in Cores : h[c] <= b
    <2>1. Max(V) \in V /\ \A v \in V : v <= Max(V)
        BY <1>4, MaxFacts
    <2>2. QED BY <1>2, <1>3, <1>4, <2>1
<1>6. PICK t \in Nat : t = e.arrival[k] + b
    BY <1>2
<1>7. FreeAt(Cores, h, t) = Cores
    <2>1. \A c \in Cores : h[c] \in Nat /\ h[c] <= b
        BY <1>2, <1>5
    <2>2. QED BY <1>2, <1>6, <2>1 DEF FreeAt
<1>8. MinParallelism(k) <= Cardinality(Cores)
    BY JobFacts, CoresFacts
<1>9. e.arrival[k] <= t
    BY <1>2, <1>6
<1>10. QED BY <1>1, <1>7, <1>8, <1>9 DEF Fits

LEMMA SomeDispatch ==
    ASSUME DataOK, NEW e \in Execs, Jobs \ e.scheduled # {}
    PROVE  \E r \in Dispatches : Takes(e, r)
<1>1. PICK T : T = {u \in Nat : \E k \in Jobs : Fits(e, k, u)}
    OBVIOUS
<1>2. T \in SUBSET Nat /\ T # {}
    BY <1>1, SomethingFits
<1>3. PICK t \in T : \A u \in T : t <= u
    BY <1>2, LeastNatural
<1>4. t \in Nat
    BY <1>2
<1>5. NothingBefore(e, t)
    <2>1. ASSUME NEW u \in Nat, u < t, NEW k \in Jobs, Fits(e, k, u) PROVE FALSE
        BY <1>1, <1>3, <1>4, <2>1
    <2>2. QED BY <2>1 DEF NothingBefore
<1>6. PICK K : K = {k \in Jobs : Fits(e, k, t)}
    OBVIOUS
<1>7. PICK j \in K : \A k \in K \ {j} : HigherPriority(j, k)
    <2>1. PICK R : R = {q \in Jobs \X Jobs : HigherPriority(q[1], q[2])}
        OBVIOUS
    <2>2. \A x, y \in Jobs : <<x, y>> \in R <=> HigherPriority(x, y)
        BY <2>1
    <2>3. K \in SUBSET Jobs /\ K # {}
        BY <1>1, <1>3, <1>6
    <2>4. IsFiniteSet(K)
        BY <2>3, ProblemFacts, FS_Subset
    <2>5. \A x, y \in K : x # y => <<x, y>> \in R \/ <<y, x>> \in R
        BY <2>2, <2>3, PriorityOrder
    <2>6. \A x, y, z \in K : <<x, y>> \in R /\ <<y, z>> \in R => <<x, z>> \in R
        BY <2>2, <2>3, PriorityOrder
    <2>7. PICK x \in K : \A y \in K \ {x} : <<x, y>> \in R
        BY <2>3, <2>4, <2>5, <2>6, FirstElement
    <2>8. QED BY <2>2, <2>3, <2>7
<1>8. j \in Jobs /\ Fits(e, j, t) /\ \A k \in Jobs \ {j} : Fits(e, k, t) => HigherPriority(j, k)
    BY <1>6, <1>7
<1>9. PICK F : F = FreeAt(Cores, e.free, t)
    OBVIOUS
<1>10. PICK f \in Nat : f = Cardinality(F) /\ IsFiniteSet(F) /\ F \in SUBSET Cores
    <2>1. F \in SUBSET Cores
        BY <1>9 DEF FreeAt
    <2>2. IsFiniteSet(F)
        BY <2>1, CoresFacts, FS_Subset
    <2>3. QED BY <2>1, <2>2, FS_CardinalityType
<1>11. PICK P : P = {q \in Parallelism(j) : q <= f}
    OBVIOUS
<1>12. P \in SUBSET Int /\ IsFiniteSet(P) /\ P # {} /\ P \in SUBSET Parallelism(j)
    <2>1. Parallelism(j) \in SUBSET (1..NumCores) /\ IsFiniteSet(Parallelism(j))
        BY <1>8, JobFacts
    <2>2. P \in SUBSET Parallelism(j)
        BY <1>11
    <2>3. IsFiniteSet(P)
        BY <2>1, <2>2, FS_Subset
    <2>4. MinParallelism(j) \in P
        BY <1>8, <1>9, <1>10, <1>11, JobFacts DEF Fits
    <2>5. QED BY <2>1, <2>2, <2>3, <2>4
<1>13. PICK p \in P : \A q \in P : q <= p
    BY <1>12, MaxFacts
<1>14. p \in Parallelism(j) /\ p \in Nat /\ p <= f /\ p \in 0..f
    BY <1>8, <1>10, <1>11, <1>12, JobFacts
<1>15. Chosen(e, j, t, p)
    <2>1. \A q \in Parallelism(j) : q <= f => q <= p
        BY <1>11, <1>13
    <2>2. QED BY <1>5, <1>8, <1>9, <1>10, <1>14, <2>1 DEF Chosen
<1>16. PICK S \in SUBSET F : Cardinality(S) = p
    BY <1>10, <1>14, SubsetOfSize
<1>17. PICK lo \in Nat, hi \in Nat : Cost(j)[p].min = lo /\ Cost(j)[p].max = hi /\ lo <= hi
    <2>1. Cost(j)[p] \in Intervals(Nat)
        BY <1>8, <1>14, JobFacts
    <2>2. QED BY <2>1, IntervalType
<1>18. PICK r : r = [job |-> j, at |-> t, on |-> S, until |-> t + lo]
    OBVIOUS
<1>19. r \in Dispatches
    BY <1>4, <1>8, <1>10, <1>18 DEF Dispatches
<1>20. Runs(e, j, t, p, S, t + lo)
    BY <1>4, <1>9, <1>15, <1>16, <1>17 DEF Runs
<1>21. r.job = j /\ r.at = t /\ r.on = S /\ r.until = t + lo
    BY <1>18
<1>22. Takes(e, r)
    BY <1>16, <1>20, <1>21 DEF Takes
<1>23. QED BY <1>19, <1>22

\* A node that is explored has a job to dispatch, or none left.
LEMMA NoDeadEnd ==
    ASSUME DataOK, Simple, NEW n, SoundNode(n), n.states # <<>>,
           PlainNode(n), ~AllJobsScheduled(n)
    PROVE  \E j \in Candidates(n) : Options(n, j) # {}
<1>1. IsNode(n) /\ IsList(n.states) /\ n.scheduled \in SUBSET Jobs
    BY DEF SoundNode, IsNode
<1>2. 1 \in DOMAIN n.states
    <2>1. Len(n.states) \in Nat /\ DOMAIN n.states = 1..Len(n.states)
        BY <1>1, ListFacts
    <2>2. Len(n.states) # 0
        BY <1>1, EmptySeq DEF IsList
    <2>3. QED BY <2>1, <2>2
<1>3. PICK s \in Range(n.states) : s = n.states[1]
    BY <1>1, <1>2, ListFacts
<1>4. PICK e \in Execs : StandsFor(n, s, e)
    BY <1>1, SomeExecution
<1>5. Jobs \ e.scheduled # {}
    <2>1. e.scheduled = n.scheduled
        BY <1>4 DEF StandsFor
    <2>2. ASSUME Jobs \ n.scheduled = {} PROVE FALSE
        <3>1. n.scheduled = Jobs
            BY <1>1, <2>2
        <3>2. Cardinality(Jobs) = Len(problem.job)
            BY ProblemFacts
        <3>3. QED BY <3>1, <3>2 DEF PlainNode, AllJobsScheduled
    <2>3. QED BY <2>1, <2>2
<1>6. PICK r \in Dispatches : Takes(e, r)
    BY <1>5, SomeDispatch
<1>7. r.job \in Candidates(n) /\ <<1, Cardinality(r.on)>> \in Options(n, r.job)
    BY <1>2, <1>3, <1>4, <1>6, NextIsOption
<1>8. QED BY <1>7

-----------------------------------------------------------------------------
(***************************************************************************)
(* The verdict is explained.                                               *)
(***************************************************************************)
NodesHaveStates == \A n \in KeptNodes : n.states # <<>>

MissIsShown == observed_deadline_miss => \E k \in DOMAIN completion : completion[k].max > Deadline(k)

ExplainedInv == SoundInv /\ NodesHaveStates /\ MissIsShown

LEMMA InitHasStates == ASSUME Init, DataOK PROVE NodesHaveStates
<1>1. KeptNodes = {AddState(InitialNode, InitialState)}
    BY InitialNodeIsKept
<1>2. AddState(InitialNode, InitialState).states # <<>>
    BY InitialNodeFacts, InitialStateFacts, AddStateFacts
<1>3. QED BY <1>1, <1>2 DEF NodesHaveStates

LEMMA NextHasStates ==
    ASSUME SoundInv, Simple, NodesHaveStates, [Next]_explorationVars
    PROVE  NodesHaveStates'
<1>1. IInv /\ LayersInv /\ TriggerIsClear
    BY SimpleIsClear DEF SoundInv, RefInv
<1>2. CASE UNCHANGED <<nodes, exploring>>
    BY <1>2 DEF NodesHaveStates, KeptNodes, NodesOf, Idle
<1>3. ASSUME NEW i \in DOMAIN ExplorationFront, Explore(i) PROVE NodesHaveStates'
    <2>1. KeptNodes' \subseteq KeptNodes
        BY <1>1, <1>3, ExploreKeepsNodes
    <2>2. QED BY <2>1 DEF NodesHaveStates
<1>4. CASE Dispatch
    <2>1. KeptNodes' \subseteq KeptNodes \cup {Target}
        BY <1>1, <1>4, DispatchAddsTarget
    <2>2. Target.states # <<>>
        <3>1. DataOK /\ NodesInv /\ exploring # Idle /\ current_job_count \in Nat
            BY <1>1, <1>4, ProblemFacts DEF IInv, Dispatch, LayersInv
        <3>2. QED BY <1>1, <3>1, TargetFacts
    <2>3. QED BY <2>1, <2>2 DEF NodesHaveStates
<1>5. QED BY <1>2, <1>3, <1>4 DEF Next, NextDepth, GiveUp, Done, explorationVars

LEMMA NextShowsMisses ==
    ASSUME ExplainedInv, Simple, [Next]_explorationVars
    PROVE  MissIsShown'
<1>1. /\ IInv /\ LayersInv /\ MissInv /\ DataOK /\ TriggerIsClear
      /\ SoundInv /\ NodesHaveStates /\ MissIsShown
    BY SimpleIsClear DEF ExplainedInv, SoundInv, RefInv, IInv
<1>2. UNCHANGED Data /\ \A k : Deadline(k)' = Deadline(k)
    BY SimpleStays DEF Deadline, Data
<1>3. ASSUME UNCHANGED completion, observed_deadline_miss' => observed_deadline_miss
      PROVE  MissIsShown'
    BY <1>1, <1>2, <1>3 DEF MissIsShown
<1>4. CASE NextDepth
    BY <1>3, <1>4 DEF NextDepth
<1>5. CASE GiveUp
    BY <1>3, <1>5 DEF GiveUp
<1>6. ASSUME NEW i \in DOMAIN ExplorationFront, Explore(i) PROVE MissIsShown'
    <2>1. PICK n : n = ExplorationFront[i]
        OBVIOUS
    <2>2. PICK js : js = {j \in Candidates(n) : Options(n, j) # {}}
        OBVIOUS
    <2>3. /\ completion' = completion /\ exploring = Idle
          /\ observed_deadline_miss' = (observed_deadline_miss \/ (js = {} /\ ~AllJobsScheduled(n)))
        BY <1>6, <2>1, <2>2 DEF Explore
    <2>4. CASE observed_deadline_miss
        BY <1>3, <2>3, <2>4
    <2>5. CASE ~observed_deadline_miss
        <3>1. n \in KeptNodes /\ PlainNode(n)
            <4>1. Layer(current_job_count) \in DOMAIN nodes /\ IsPlaced(ExplorationFront, Layer(current_job_count))
                BY <1>1, FrontFacts
            <4>2. n \in Range(ExplorationFront)
                BY <1>6, <2>1, <4>1, ListFacts DEF IsPlaced
            <4>3. QED BY <4>1, <4>2 DEF IsPlaced, KeptNodes, NodesOf, ExplorationFront
        <3>2. SoundNode(n) /\ n.states # <<>>
            BY <1>1, <2>5, <3>1 DEF SoundInv, PathsInv, NodesHaveStates
        <3>3. ~(js = {} /\ ~AllJobsScheduled(n))
            BY <1>1, <2>2, <3>1, <3>2, NoDeadEnd
        <3>4. QED BY <1>3, <2>3, <3>3
    <2>6. QED BY <2>4, <2>5
<1>7. CASE Dispatch
    <2>1. /\ \A k \in DOMAIN completion :
                k \in DOMAIN completion' /\ completion[k].max <= completion'[k].max
          /\ observed_deadline_miss' =
                (observed_deadline_miss \/ \E k \in DOMAIN completion' : completion'[k].max > Deadline(k))
        BY <1>1, <1>7, DispatchReports
    <2>2. CASE observed_deadline_miss
        <3>1. PICK k \in DOMAIN completion : completion[k].max > Deadline(k)
            BY <1>1, <2>2 DEF MissIsShown
        <3>2. k \in DOMAIN completion' /\ completion[k].max <= completion'[k].max
            BY <2>1
        <3>3. completion[k].max \in Int /\ completion'[k].max \in Int /\ Deadline(k) \in Int
            <4>1. IInv'
                BY <1>1, <1>7, DispatchKeepsInv
            <4>2. k \in Jobs /\ completion[k] \in Intervals(Int)
                BY <1>1 DEF IInv, ReportsInv
            <4>3. completion'[k] \in Intervals(Int)
                BY <3>2, <4>1 DEF IInv, ReportsInv
            <4>4. QED BY <1>1, <4>2, <4>3, JobFacts DEF Intervals
        <3>4. completion'[k].max > Deadline(k)
            BY <3>1, <3>2, <3>3
        <3>5. QED BY <1>2, <3>2, <3>4 DEF MissIsShown
    <2>3. CASE ~observed_deadline_miss
        BY <1>2, <2>1, <2>3 DEF MissIsShown
    <2>4. QED BY <2>2, <2>3
<1>8. CASE UNCHANGED explorationVars
    BY <1>3, <1>8 DEF explorationVars
<1>9. QED BY <1>4, <1>5, <1>6, <1>7, <1>8 DEF Next, Done

\* The verdict is explained by the reported completion times, for jobs that do
\* not depend on each other: a deadline miss is observed exactly when some job
\* may complete late, and never because a node with jobs left has none to
\* dispatch (space.hpp, explore and update_finish_times).
THEOREM VerdictIsExplained == Spec => [](Simple => VerdictExplained)
<1> DEFINE I == Simple => ExplainedInv
<1>1. Init => I
    <2>1. SUFFICES ASSUME Init, Simple PROVE ExplainedInv
        OBVIOUS
    <2>2. SoundInv /\ DataOK
        BY <2>1, InitIsSound DEF SoundInv, RefInv, IInv
    <2>3. NodesHaveStates
        BY <2>1, <2>2, InitHasStates
    <2>4. MissIsShown
        BY <2>1 DEF Init, MissIsShown
    <2>5. QED BY <2>2, <2>3, <2>4 DEF ExplainedInv
<1>2. I /\ [Next]_explorationVars => I'
    <2>1. SUFFICES ASSUME I, [Next]_explorationVars, Simple' PROVE ExplainedInv'
        OBVIOUS
    <2>2. Simple /\ ExplainedInv
        BY <2>1, SimpleStays
    <2>3. SoundInv'
        BY <2>1, <2>2, NextIsSound DEF ExplainedInv
    <2>4. NodesHaveStates'
        BY <2>1, <2>2, NextHasStates DEF ExplainedInv
    <2>5. MissIsShown'
        BY <2>1, <2>2, NextShowsMisses
    <2>6. QED BY <2>3, <2>4, <2>5 DEF ExplainedInv
<1>3. I => (Simple => VerdictExplained)
    <2>1. SUFFICES ASSUME ExplainedInv
                   PROVE  observed_deadline_miss <=> \E k \in DOMAIN completion : completion[k].max > Deadline(k)
        BY DEF VerdictExplained
    <2>2. CASE observed_deadline_miss
        BY <2>1, <2>2 DEF ExplainedInv, MissIsShown
    <2>3. CASE ~observed_deadline_miss
        <3>1. ASSUME NEW k \in DOMAIN completion PROVE ~(completion[k].max > Deadline(k))
            <4>1. IInv /\ DataOK /\ completion[k].max <= Deadline(k)
                BY <2>1, <2>3 DEF ExplainedInv, SoundInv, RefInv, MissInv, IInv
            <4>2. k \in Jobs /\ completion[k] \in Intervals(Int)
                BY <4>1 DEF IInv, ReportsInv
            <4>3. completion[k].max \in Int /\ Deadline(k) \in Int
                BY <4>1, <4>2, JobFacts DEF Intervals
            <4>4. QED BY <4>1, <4>3
        <3>2. QED BY <2>3, <3>1
    <2>4. QED BY <2>2, <2>3
<1> HIDE DEF I
<1>4. QED BY <1>1, <1>2, <1>3, PTL DEF Spec
=============================================================================
