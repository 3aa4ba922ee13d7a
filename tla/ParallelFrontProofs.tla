------------------------- MODULE ParallelFrontProofs -------------------------
(***************************************************************************)
(* Proofs about the parallel build of the exploration, for any number of   *)
(* workers and any front.                                                  *)
(*                                                                         *)
(* The inductive invariant comes in four layers, each proved on top of the *)
(* ones before it: what the workers and the shared structures are at any   *)
(* time (Consistent), the bounds of the nodes (BoundsCoverStates), where   *)
(* everything that was found comes from (Sound) and, as long as no miss    *)
(* was observed, where every dispatch of a node taken from the front has   *)
(* gone (Complete).  What makes the interleavings harmless is that the     *)
(* nodes of the next depth only ever grow (Grown): what one worker knows   *)
(* of a node that it found is still true after the steps of the others.    *)
(***************************************************************************)
EXTENDS ParallelFront, SequenceTheorems, WellFoundedInduction, TLAPS

-----------------------------------------------------------------------------
(***************************************************************************)
(* The inductive invariant.                                                *)
(***************************************************************************)
FrontNodes == DOMAIN front.work
Given(n) == Range(front.work[n].dispatches)

NodeRecords ==
    [scheduled : SUBSET Jobs, states : Seq(TimeIntervals), a_min : Nat, a_max : Nat]

\* With a node to put the state into, and without one.
StepsWithNode == {"cache_node", "new_state", "merge_states", "add_state", "edge"}
Steps == {"dispatch", "find", "new_node"} \cup StepsWithNode

BusyRecords ==
    [step : Steps, node : FrontNodes, left : Seq(Dispatches(Jobs)), next : Nat,
     empty : BOOLEAN, found_one : BOOLEAN]

Busy(w) == worker[w] # Waiting

Types ==
    /\ front \in Fronts
    /\ exploration_front \subseteq FrontNodes
    /\ nodes \in Seq(NodeRecords)
    /\ cached \subseteq DOMAIN nodes
    /\ completion \in [Jobs -> TimeIntervals \cup {None}]
    /\ observed_deadline_miss \subseteq Workers
    /\ aborted \subseteq observed_deadline_miss
    /\ worker \in [Workers -> {Waiting} \cup BusyRecords]
    /\ explored \in BOOLEAN

HoldsState(i, s) == \E t \in Range(nodes[i].states) : ContainsInterval(t, s)

\* The node that the worker has found or created is the one for its jobs.
KnowsNode(w) ==
    /\ worker[w].left # <<>>
    /\ worker[w].next \in DOMAIN nodes
    /\ nodes[worker[w].next].scheduled = NextJobs(w)

WorkerConsistent(w) ==
    LET k == worker[w]
    IN  /\ k.step # "dispatch" => /\ k.left # <<>> /\ Dispatched(w).states # <<>>
                                  /\ k.found_one
        /\ k.step \in StepsWithNode => KnowsNode(w)
        /\ k.step = "merge_states" => nodes[k.next].states # <<>>
        /\ k.step = "edge" => HoldsState(k.next, Finish(w)) /\ nodes[k.next].states # <<>>
        /\ k.step = "dispatch" /\ k.next # NoNode =>
               KnowsNode(w) /\ nodes[k.next].states # <<>>

Consistent ==
    /\ Types
    /\ \A w \in Workers : Busy(w) => WorkerConsistent(w)
    /\ explored => exploration_front = {} /\ \A w \in Workers : ~Busy(w)

\* What a worker still has to do is part of what was given to it, and as long as
\* it has found no job, it has dropped nothing.
WorkerSound(w) ==
    LET k == worker[w]
    IN  /\ \A d \in Range(k.left) : \E e \in Given(k.node) :
               e.job = d.job /\ Range(d.states) \subseteq Range(e.states)
        /\ k.found_one => ~DeadEnd(k.node)
        /\ ~k.found_one => \A e \in Given(k.node) : e.states # <<>> => e \in Range(k.left)

\* A state of the next depth is no later than one of the dispatches it stands for.
IsFinish(i, t) ==
    \E n \in FrontNodes : \E d \in Given(n) : \E s \in Range(d.states) :
        nodes[i].scheduled = n \cup {d.job} /\ t.min <= s.min

Sound ==
    /\ \A w \in Workers : Busy(w) => WorkerSound(w)
    /\ MissIsReal
    /\ ~MissExists => \A i \in DOMAIN nodes : \A t \in Range(nodes[i].states) : IsFinish(i, t)

\* The finish time s of job j dispatched in node n is reported, and in time.
Reported(j, s) == ContainsInterval(completion[j], s) /\ s.max <= front.deadline[j]

Stored(n, j, s) ==
    \E i \in DOMAIN nodes : nodes[i].scheduled = n \cup {j} /\ HoldsState(i, s)

Pending(n, j, s) ==
    \E w \in Workers :
        /\ Busy(w) /\ worker[w].node = n
        /\ \E e \in Range(worker[w].left) : e.job = j /\ s \in Range(e.states)

Accounted(n) ==
    /\ \A d \in Given(n) : \A s \in Range(d.states) :
           Pending(n, d.job, s) \/ (Stored(n, d.job, s) /\ Reported(d.job, s))
    /\ DeadEnd(n) => \E w \in Workers : Busy(w) /\ worker[w].node = n /\ ~worker[w].found_one

\* The reported bounds are attained.
Attained(j) ==
    \/ completion[j] = None
    \/ \E a, b \in FinishTimes(j) : completion[j] = [min |-> a.min, max |-> b.max]

Complete ==
    observed_deadline_miss = {} =>
        /\ \A n \in FrontNodes \ exploration_front : Accounted(n)
        /\ \A w \in Workers : Busy(w) /\ worker[w].step # "dispatch" =>
               Reported(Dispatched(w).job, Finish(w))
        /\ \A j \in Jobs : Attained(j)
-----------------------------------------------------------------------------
(***************************************************************************)
(* Least elements, sequences and intervals.                                *)
(***************************************************************************)
LEMMA MinFacts ==
    ASSUME NEW S, S \in SUBSET Nat, S # {}
    PROVE  Min(S) \in S /\ \A y \in S : Min(S) <= y
<1>1. \E x \in S : \A y \in S : ~ (<<y, x>> \in OpToRel(<, Nat))
    BY NatLessThanWellFounded, WFMin
<1>2. PICK x \in S : \A y \in S : ~ (<<y, x>> \in OpToRel(<, Nat))
    BY <1>1
<1>3. ASSUME NEW y \in S PROVE x <= y
    <2>1. ~ (y < x)
        BY <1>2 DEF OpToRel
    <2>2. QED BY <2>1
<1>4. QED BY <1>3 DEF Min

LEMMA MinIs ==
    ASSUME NEW S, S \in SUBSET Nat, NEW x \in S, \A y \in S : x <= y
    PROVE  Min(S) = x
<1>1. \A y \in S : (\A z \in S : y <= z) => y = x
    OBVIOUS
<1>2. QED BY <1>1 DEF Min

LEMMA MaxIs ==
    ASSUME NEW S, S \in SUBSET Nat, NEW x \in S, \A y \in S : y <= x
    PROVE  Max(S) = x
<1>1. \A y \in S : (\A z \in S : y >= z) => y = x
    OBVIOUS
<1>2. QED BY <1>1 DEF Max

LEMMA AppendRange ==
    ASSUME NEW S, NEW seq \in Seq(S), NEW e \in S
    PROVE  /\ Append(seq, e) \in Seq(S) /\ Append(seq, e) # <<>>
           /\ Range(Append(seq, e)) = Range(seq) \cup {e}
<1>1. Append(seq, e) \in Seq(S) /\ Append(seq, e) # <<>> /\ Append(seq, e) = seq \o <<e>>
    BY AppendProperties, AppendIsConcat
<1>2. <<e>> \in Seq(S) /\ Range(<<e>>) = {e}
    BY DEF Range
<1>3. Range(seq \o <<e>>) = Range(seq) \cup Range(<<e>>)
    BY <1>2, RangeConcatenation
<1>4. QED BY <1>1, <1>2, <1>3

LEMMA HeadTailRange ==
    ASSUME NEW S, NEW seq \in Seq(S), seq # <<>>
    PROVE  /\ Head(seq) \in S /\ Tail(seq) \in Seq(S)
           /\ Range(seq) = {Head(seq)} \cup Range(Tail(seq))
           /\ Range(seq) \in SUBSET S
<1>1. /\ Head(seq) \in S /\ Tail(seq) \in Seq(S) /\ Range(seq) \in SUBSET S
    BY HeadTailProperties, RangeOfSeq
<1>2. seq = <<Head(seq)>> \o Tail(seq)
    <2>1. Len(seq) \in Nat \ {0}
        BY EmptySeq
    <2>2. Head(seq) = seq[1] /\ Tail(seq) = SubSeq(seq, 2, Len(seq))
        BY TailIsSubSeq
    <2>3. SubSeq(seq, 1, Len(seq)) = <<seq[1]>> \o SubSeq(seq, 1 + 1, Len(seq))
        BY <2>1, SubSeqRecursiveFirst
    <2>4. QED BY <2>2, <2>3, SubSeqFull
<1>3. <<Head(seq)>> \in Seq(S) /\ Range(<<Head(seq)>>) = {Head(seq)}
    BY <1>1 DEF Range
<1>4. Range(<<Head(seq)>> \o Tail(seq)) = Range(<<Head(seq)>>) \cup Range(Tail(seq))
    <2>1. <<Head(seq)>> \in Seq(S) /\ Tail(seq) \in Seq(S)
        BY <1>1, <1>3
    <2>2. QED BY <2>1, RangeConcatenation
<1>5. QED BY <1>1, <1>2, <1>3, <1>4

LEMMA ConsRange ==
    ASSUME NEW S, NEW e \in S, NEW seq \in Seq(S)
    PROVE  /\ <<e>> \o seq \in Seq(S) /\ <<e>> \o seq # <<>>
           /\ Head(<<e>> \o seq) = e
           /\ Range(<<e>> \o seq) = {e} \cup Range(seq)
<1>1. <<e>> \in Seq(S) /\ Len(<<e>>) = 1 /\ Range(<<e>>) = {e}
    BY DEF Range
<1>2. /\ <<e>> \o seq \in Seq(S) /\ Len(<<e>> \o seq) = 1 + Len(seq)
      /\ \A i \in 1 .. 1 + Len(seq) : (<<e>> \o seq)[i] = IF i <= 1 THEN <<e>>[i] ELSE seq[i - 1]
    BY <1>1, ConcatProperties
<1>3. Len(seq) \in Nat
    BY LenProperties
<1>4. (<<e>> \o seq)[1] = e
    BY <1>2, <1>3
<1>5. Range(<<e>> \o seq) = Range(<<e>>) \cup Range(seq)
    <2>1. <<e>> \in Seq(S)
        BY <1>1
    <2>2. QED BY <2>1, RangeConcatenation
<1>6. <<e>> \o seq # <<>> /\ Head(<<e>> \o seq) = e
    BY <1>2, <1>3, <1>4, EmptySeq
<1>7. QED BY <1>1, <1>2, <1>5, <1>6

LEMMA EmptyRange == Range(<<>>) = {}
BY DEF Range

\* Containment of intervals is a preorder, in which widening goes up.
LEMMA IntervalFacts ==
    /\ \A s \in TimeIntervals : s.min \in Nat /\ s.max \in Nat /\ s.min <= s.max
    /\ \A s \in TimeIntervals : ContainsInterval(s, s)
    /\ \A s, t, u \in TimeIntervals :
           ContainsInterval(u, t) /\ ContainsInterval(t, s) => ContainsInterval(u, s)
    /\ \A s, t \in TimeIntervals :
           /\ Widen(s, t) \in TimeIntervals
           /\ ContainsInterval(Widen(s, t), s) /\ ContainsInterval(Widen(s, t), t)
    /\ \A s, t \in TimeIntervals : Shift(s, t) \in TimeIntervals
BY DEF TimeIntervals, Intervals, ContainsInterval, Widen, Shift, Interval, MinOf, MaxOf

\* The fronts are what FrontsAssumption says of them.
LEMMA FrontFacts ==
    ASSUME front \in Fronts
    PROVE  /\ front.deadline \in [Jobs -> Nat] /\ front.cost \in [Jobs -> TimeIntervals]
           /\ front.early_exit \in BOOLEAN
           /\ \A n \in FrontNodes :
                /\ n \subseteq Jobs /\ front.work[n].first \in Nat
                /\ front.work[n].dispatches \in Seq(Dispatches(Jobs))
                /\ \A d \in Given(n) : d.job \in Jobs /\ d.states \in Seq(TimeIntervals)
                                       /\ Range(d.states) \in SUBSET TimeIntervals
<1>1. /\ front.deadline \in [Jobs -> Nat] /\ front.cost \in [Jobs -> TimeIntervals]
      /\ front.early_exit \in BOOLEAN
      /\ \A n \in FrontNodes :
            /\ n \subseteq Jobs /\ front.work[n].first \in Nat
            /\ front.work[n].dispatches \in Seq(Dispatches(Jobs))
    BY FrontsAssumption DEF Jobs, FrontNodes
<1>2. ASSUME NEW n \in FrontNodes, NEW d \in Given(n)
      PROVE  /\ d.job \in Jobs /\ d.states \in Seq(TimeIntervals)
             /\ Range(d.states) \in SUBSET TimeIntervals
    <2>1. d \in Dispatches(Jobs)
        BY <1>1, <1>2, RangeOfSeq DEF Given
    <2>2. d.job \in Jobs /\ d.states \in Seq(TimeIntervals)
        BY <2>1 DEF Dispatches
    <2>3. QED BY <2>2, RangeOfSeq
<1>3. QED BY <1>1, <1>2

-----------------------------------------------------------------------------
(***************************************************************************)
(* Putting a state into a node, by merging it with one of the node's       *)
(* states or as a state of its own.                                        *)
(***************************************************************************)
Bounded(n) == \A s \in Range(n.states) : n.a_min <= s.min /\ s.max <= n.a_max

\* m is node n after state s was put into it.
Takes(n, s, m) ==
    /\ m \in NodeRecords /\ m.scheduled = n.scheduled /\ m.states # <<>>
    /\ \A t \in Range(n.states) : \E u \in Range(m.states) : ContainsInterval(u, t)
    /\ \E u \in Range(m.states) : ContainsInterval(u, s)
    /\ \A u \in Range(m.states) : u \in Range(n.states) \/ u.min <= s.min
    /\ Bounded(n) => Bounded(m)

LEMMA ChangedNode ==
    ASSUME NEW n \in NodeRecords, NEW states \in Seq(TimeIntervals), NEW a \in Nat, NEW b \in Nat
    PROVE  /\ [n EXCEPT !.a_min = a, !.a_max = b, !.states = states] \in NodeRecords
           /\ [n EXCEPT !.states = states, !.a_min = a, !.a_max = b] \in NodeRecords
BY DEF NodeRecords

LEMMA AddStateTakes ==
    ASSUME front \in Fronts, NEW n \in NodeRecords, NEW s \in TimeIntervals
    PROVE  Takes(n, s, AddState(n, s))
<1> DEFINE m == AddState(n, s)
           empty == n.states = <<>>
<1>1. /\ n.scheduled \in SUBSET Jobs /\ n.states \in Seq(TimeIntervals)
      /\ n.a_min \in Nat /\ n.a_max \in Nat
    BY DEF NodeRecords
<1>2. /\ Append(n.states, s) \in Seq(TimeIntervals) /\ Append(n.states, s) # <<>>
      /\ Range(Append(n.states, s)) = Range(n.states) \cup {s}
    BY <1>1, AppendRange
<1>3. s.min \in Nat /\ s.max \in Nat /\ s.min <= s.max
    BY IntervalFacts
<1>4. /\ m.scheduled = n.scheduled /\ m.states = Append(n.states, s)
      /\ m.a_min = IF empty THEN s.min ELSE MinOf(n.a_min, s.min)
      /\ m.a_max = IF empty THEN s.max ELSE MaxOf(n.a_max, s.max)
    BY DEF AddState, NodeRecords
<1>5. m \in NodeRecords
    <2> DEFINE a == IF empty THEN s.min ELSE MinOf(n.a_min, s.min)
               b == IF empty THEN s.max ELSE MaxOf(n.a_max, s.max)
               states == Append(n.states, s)
    <2>1. a \in Nat /\ b \in Nat
        BY <1>1, <1>3 DEF MinOf, MaxOf
    <2>2. m = [n EXCEPT !.a_min = a, !.a_max = b, !.states = states]
        BY DEF AddState
    <2>3. states \in Seq(TimeIntervals)
        BY <1>2
    <2> HIDE DEF m, a, b, states
    <2>4. QED BY <2>1, <2>2, <2>3, ChangedNode
<1>6. \A t \in Range(n.states) : t \in TimeIntervals
    BY <1>1, RangeOfSeq
<1>7. Bounded(n) => Bounded(m)
    <2>1. ASSUME Bounded(n), NEW t \in Range(m.states)
          PROVE  m.a_min <= t.min /\ t.max <= m.a_max
        <3>1. CASE empty
            <4>1. t = s
                BY <3>1, <1>2, <1>4, <2>1, EmptyRange
            <4>2. QED BY <4>1, <3>1, <1>3, <1>4
        <3>2. CASE ~empty
            <4>1. m.a_min <= n.a_min /\ m.a_min <= s.min /\ n.a_max <= m.a_max
                  /\ s.max <= m.a_max /\ m.a_min \in Nat /\ m.a_max \in Nat
                BY <3>2, <1>1, <1>3, <1>4 DEF MinOf, MaxOf
            <4>2. CASE t = s
                BY <4>1, <4>2
            <4>3. CASE t \in Range(n.states)
                <5>1. n.a_min <= t.min /\ t.max <= n.a_max /\ t.min \in Nat /\ t.max \in Nat
                    BY <4>3, <2>1, <1>6, IntervalFacts DEF Bounded
                <5>2. QED BY <5>1, <4>1, <1>1
            <4>4. QED BY <4>2, <4>3, <1>2, <1>4, <2>1
        <3>3. QED BY <3>1, <3>2
    <2>2. QED BY <2>1 DEF Bounded
<1>8. \A t \in Range(n.states) : \E u \in Range(m.states) : ContainsInterval(u, t)
    BY <1>2, <1>4, <1>6, IntervalFacts
<1>9. \E u \in Range(m.states) : ContainsInterval(u, s)
    BY <1>2, <1>4, IntervalFacts
<1>10. \A u \in Range(m.states) : u \in Range(n.states) \/ u.min <= s.min
    BY <1>2, <1>3, <1>4
<1> HIDE DEF m
<1>11. QED BY <1>2, <1>4, <1>5, <1>7, <1>8, <1>9, <1>10 DEF Takes, m

LEMMA MergeStatesTakes ==
    ASSUME front \in Fronts, NEW n \in NodeRecords, NEW s \in TimeIntervals,
           MergeCandidates(n, s) # {}
    PROVE  Takes(n, s, MergeStates(n, s))
<1> DEFINE m == MergeStates(n, s)
           c == Min(MergeCandidates(n, s))
<1>1. /\ n.scheduled \in SUBSET Jobs /\ n.states \in Seq(TimeIntervals)
      /\ n.a_min \in Nat /\ n.a_max \in Nat
    BY DEF NodeRecords
<1>2. /\ DOMAIN n.states = 1 .. Len(n.states) /\ Len(n.states) \in Nat
      /\ \A i \in DOMAIN n.states : n.states[i] \in TimeIntervals
    BY <1>1, LenProperties
<1>3. c \in DOMAIN n.states
    <2>1. MergeCandidates(n, s) \in SUBSET Nat /\ MergeCandidates(n, s) \in SUBSET DOMAIN n.states
        BY <1>2 DEF MergeCandidates
    <2>2. QED BY <2>1, MinFacts
<1> DEFINE w == Merged(n.states[c], s)
<1>4. /\ w \in TimeIntervals /\ ContainsInterval(w, n.states[c]) /\ ContainsInterval(w, s)
    BY <1>2, <1>3, IntervalFacts DEF Merged
<1>5. /\ s.min \in Nat /\ s.max \in Nat /\ s.min <= s.max
      /\ w.min = MinOf(n.states[c].min, s.min) /\ w.max = MaxOf(n.states[c].max, s.max)
      /\ n.states[c].min \in Nat /\ n.states[c].max \in Nat
    BY <1>2, <1>3, IntervalFacts DEF Merged, Widen
<1> DEFINE states == [n.states EXCEPT ![c] = w]
           a == MinOf(n.a_min, s.min)
           b == MaxOf(n.a_max, s.max)
<1>a. m = [n EXCEPT !.states = states, !.a_min = a, !.a_max = b]
    BY DEF MergeStates
<1>b. a \in Nat /\ b \in Nat
    BY <1>1, <1>5 DEF MinOf, MaxOf
<1>c. states \in Seq(TimeIntervals)
    BY <1>1, <1>2, <1>3, <1>4, ExceptSeq
<1> HIDE DEF m, c, w, states, a, b
<1>d. /\ m \in NodeRecords
      /\ m.scheduled = n.scheduled /\ m.states = states /\ m.a_min = a /\ m.a_max = b
    <2>1. m \in NodeRecords
        BY <1>a, <1>b, <1>c, ChangedNode
    <2>2. QED BY <2>1, <1>a DEF NodeRecords
<1>6. /\ m.scheduled = n.scheduled /\ m.states = [n.states EXCEPT ![c] = w]
      /\ m.a_min = MinOf(n.a_min, s.min) /\ m.a_max = MaxOf(n.a_max, s.max)
    BY <1>d DEF states, a, b
<1>7. /\ m.states \in Seq(TimeIntervals) /\ Len(m.states) = Len(n.states)
      /\ DOMAIN m.states = DOMAIN n.states /\ m.states[c] = w
      /\ \A i \in DOMAIN n.states \ {c} : m.states[i] = n.states[i]
    <2>1. c \in 1 .. Len(n.states)
        BY <1>2, <1>3
    <2>2. m.states \in Seq(TimeIntervals) /\ Len(m.states) = Len(n.states)
        BY <1>1, <1>4, <1>6, <2>1, ExceptSeq
    <2>3. QED BY <1>3, <1>6, <2>2
<1>8. m \in NodeRecords
    BY <1>d
<1>9. m.states # <<>>
    BY <1>2, <1>3, <1>7
<1>10. \A u \in Range(m.states) : u = w \/ u \in Range(n.states)
    BY <1>7 DEF Range
<1>11. w \in Range(m.states)
    BY <1>3, <1>7 DEF Range
<1>12. ASSUME NEW t \in Range(n.states)
       PROVE  \E u \in Range(m.states) : ContainsInterval(u, t)
    <2>1. PICK i \in DOMAIN n.states : t = n.states[i]
        BY DEF Range
    <2>2. CASE i = c
        BY <2>1, <2>2, <1>4, <1>11
    <2>3. CASE i # c
        <3>1. t \in Range(m.states)
            BY <2>1, <2>3, <1>7 DEF Range
        <3>2. QED BY <3>1, <2>1, <1>2, IntervalFacts
    <2>4. QED BY <2>2, <2>3
<1>13. w.min <= s.min
    BY <1>5 DEF MinOf
<1>14. Bounded(n) => Bounded(m)
    <2>1. /\ m.a_min <= n.a_min /\ m.a_min <= s.min /\ n.a_max <= m.a_max
          /\ s.max <= m.a_max /\ m.a_min \in Nat /\ m.a_max \in Nat
        BY <1>1, <1>5, <1>6 DEF MinOf, MaxOf
    <2>2. ASSUME Bounded(n), NEW t \in Range(n.states)
          PROVE  m.a_min <= t.min /\ t.max <= m.a_max
        <3>1. n.a_min <= t.min /\ t.max <= n.a_max /\ t \in TimeIntervals
            BY <2>2, <1>1, RangeOfSeq DEF Bounded
        <3>2. QED BY <3>1, <2>1, <1>1, IntervalFacts
    <2>3. ASSUME Bounded(n)
          PROVE  m.a_min <= w.min /\ w.max <= m.a_max
        <3>1. n.states[c] \in Range(n.states)
            BY <1>3 DEF Range
        <3>2. m.a_min <= n.states[c].min /\ n.states[c].max <= m.a_max
            BY <2>2, <2>3, <3>1
        <3>3. QED BY <3>2, <2>1, <1>5 DEF MinOf, MaxOf
    <2>4. QED BY <2>2, <2>3, <1>10 DEF Bounded
<1>15. QED BY <1>4, <1>6, <1>8, <1>9, <1>10, <1>11, <1>12, <1>13, <1>14 DEF Takes, m

-----------------------------------------------------------------------------
(***************************************************************************)
(* The nodes of the next depth only grow.                                  *)
(***************************************************************************)
Grown ==
    \A i \in DOMAIN nodes :
        /\ i \in DOMAIN nodes'
        /\ nodes'[i].scheduled = nodes[i].scheduled
        /\ nodes[i].states # <<>> => nodes'[i].states # <<>>
        /\ \A t \in Range(nodes[i].states) :
               \E u \in Range(nodes'[i].states) : ContainsInterval(u, t)

LEMMA NodeFacts ==
    ASSUME Types
    PROVE  /\ DOMAIN nodes = 1 .. Len(nodes) /\ Len(nodes) \in Nat
           /\ \A i \in DOMAIN nodes :
                /\ nodes[i] \in NodeRecords /\ nodes[i].scheduled \in SUBSET Jobs
                /\ nodes[i].states \in Seq(TimeIntervals)
                /\ Range(nodes[i].states) \in SUBSET TimeIntervals
<1>1. nodes \in Seq(NodeRecords)
    BY DEF Types
<1>2. DOMAIN nodes = 1 .. Len(nodes) /\ Len(nodes) \in Nat
      /\ \A i \in DOMAIN nodes : nodes[i] \in NodeRecords
    BY <1>1, LenProperties
<1>3. ASSUME NEW i \in DOMAIN nodes
      PROVE  /\ nodes[i].scheduled \in SUBSET Jobs /\ nodes[i].states \in Seq(TimeIntervals)
             /\ Range(nodes[i].states) \in SUBSET TimeIntervals
    <2>1. nodes[i].scheduled \in SUBSET Jobs /\ nodes[i].states \in Seq(TimeIntervals)
        BY <1>2 DEF NodeRecords
    <2>2. QED BY <2>1, RangeOfSeq
<1>4. QED BY <1>2, <1>3

LEMMA SameNodes ==
    ASSUME Types, nodes' = nodes
    PROVE  Grown
<1>1. ASSUME NEW i \in DOMAIN nodes, NEW t \in Range(nodes[i].states)
      PROVE  \E u \in Range(nodes'[i].states) : ContainsInterval(u, t)
    BY NodeFacts, IntervalFacts
<1>2. QED BY <1>1 DEF Grown

LEMMA PutState ==
    ASSUME Types, NEW i \in DOMAIN nodes, NEW s \in TimeIntervals, NEW m,
           Takes(nodes[i], s, m), nodes' = [nodes EXCEPT ![i] = m]
    PROVE  /\ nodes' \in Seq(NodeRecords) /\ DOMAIN nodes' = DOMAIN nodes
           /\ Grown
           /\ HoldsState(i, s)' /\ nodes'[i].states # <<>>
           /\ nodes'[i].scheduled = nodes[i].scheduled
           /\ \A k \in DOMAIN nodes : k # i => nodes'[k] = nodes[k]
           /\ \A u \in Range(nodes'[i].states) : u \in Range(nodes[i].states) \/ u.min <= s.min
           /\ BoundsCoverStates => BoundsCoverStates'
<1>1. /\ nodes \in Seq(NodeRecords) /\ DOMAIN nodes = 1 .. Len(nodes)
    BY NodeFacts DEF Types
<1>2. m \in NodeRecords
    BY DEF Takes
<1>3. /\ nodes' \in Seq(NodeRecords) /\ Len(nodes') = Len(nodes)
      /\ \A k \in 1 .. Len(nodes) : nodes'[k] = IF k = i THEN m ELSE nodes[k]
    BY <1>1, <1>2, ExceptSeq
<1>4. DOMAIN nodes' = DOMAIN nodes
    BY <1>1, <1>3, LenProperties
<1>5. nodes'[i] = m /\ \A k \in DOMAIN nodes : k # i => nodes'[k] = nodes[k]
    BY <1>1, <1>3
<1>6. ASSUME NEW k \in DOMAIN nodes
      PROVE  /\ nodes'[k].scheduled = nodes[k].scheduled
             /\ nodes[k].states # <<>> => nodes'[k].states # <<>>
             /\ \A t \in Range(nodes[k].states) :
                    \E u \in Range(nodes'[k].states) : ContainsInterval(u, t)
    <2>1. CASE k = i
        BY <2>1, <1>5 DEF Takes
    <2>2. CASE k # i
        BY <2>2, <1>5, NodeFacts, IntervalFacts
    <2>3. QED BY <2>1, <2>2
<1>7. Grown
    BY <1>4, <1>6 DEF Grown
<1>8. HoldsState(i, s)' /\ nodes'[i].states # <<>>
    BY <1>5 DEF Takes, HoldsState
<1>9. \A u \in Range(nodes'[i].states) : u \in Range(nodes[i].states) \/ u.min <= s.min
    BY <1>5 DEF Takes
<1>10. ASSUME BoundsCoverStates PROVE BoundsCoverStates'
    <2>1. \A k \in DOMAIN nodes : Bounded(nodes[k])
        BY <1>10 DEF BoundsCoverStates, Bounded
    <2>2. Bounded(m)
        BY <2>1 DEF Takes
    <2>3. \A k \in DOMAIN nodes' : Bounded(nodes'[k])
        BY <2>1, <2>2, <1>4, <1>5
    <2>4. QED BY <2>3 DEF BoundsCoverStates, Bounded
<1>11. QED BY <1>3, <1>4, <1>5, <1>6, <1>7, <1>8, <1>9, <1>10

LEMMA AppendNode ==
    ASSUME Types, NEW m \in NodeRecords, nodes' = Append(nodes, m)
    PROVE  /\ nodes' \in Seq(NodeRecords) /\ DOMAIN nodes' = DOMAIN nodes \cup {Len(nodes) + 1}
           /\ Len(nodes) + 1 \in DOMAIN nodes' /\ Len(nodes) + 1 \in Nat
           /\ Grown
           /\ nodes'[Len(nodes) + 1] = m
           /\ \A k \in DOMAIN nodes : nodes'[k] = nodes[k]
           /\ BoundsCoverStates /\ Bounded(m) => BoundsCoverStates'
<1>1. /\ nodes \in Seq(NodeRecords) /\ DOMAIN nodes = 1 .. Len(nodes) /\ Len(nodes) \in Nat
    BY NodeFacts DEF Types
<1>2. /\ nodes' \in Seq(NodeRecords) /\ Len(nodes') = Len(nodes) + 1
      /\ \A k \in 1 .. Len(nodes) : nodes'[k] = nodes[k]
      /\ nodes'[Len(nodes) + 1] = m
    BY <1>1, AppendProperties
<1>3. DOMAIN nodes' = 1 .. Len(nodes) + 1
    BY <1>2, LenProperties
<1>4. DOMAIN nodes' = DOMAIN nodes \cup {Len(nodes) + 1}
    BY <1>1, <1>3
<1>5. Grown
    BY <1>1, <1>2, <1>4, NodeFacts, IntervalFacts DEF Grown
<1>6. ASSUME BoundsCoverStates, Bounded(m) PROVE BoundsCoverStates'
    <2>1. \A k \in DOMAIN nodes' : Bounded(nodes'[k])
        BY <1>1, <1>2, <1>4, <1>6 DEF BoundsCoverStates, Bounded
    <2>2. QED BY <2>1 DEF BoundsCoverStates, Bounded
<1>7. QED BY <1>1, <1>2, <1>4, <1>5, <1>6

\* A state that a node holds is still held after the step.
LEMMA StillHolds ==
    ASSUME Types, nodes' \in Seq(NodeRecords), Grown,
           NEW i \in DOMAIN nodes, NEW s \in TimeIntervals, HoldsState(i, s)
    PROVE  \E u \in Range(nodes'[i].states) : ContainsInterval(u, s)
<1>1. PICK t \in Range(nodes[i].states) : ContainsInterval(t, s)
    BY DEF HoldsState
<1>2. PICK u \in Range(nodes'[i].states) : ContainsInterval(u, t)
    BY <1>1 DEF Grown
<1>3. t \in TimeIntervals /\ u \in TimeIntervals
    <2>1. i \in DOMAIN nodes'
        BY DEF Grown
    <2>2. nodes'[i] \in NodeRecords
        BY <2>1, LenProperties
    <2>3. nodes'[i].states \in Seq(TimeIntervals)
        BY <2>2 DEF NodeRecords
    <2>4. QED BY <2>3, <1>2, NodeFacts, RangeOfSeq
<1>4. ContainsInterval(u, s)
    BY <1>1, <1>2, <1>3, IntervalFacts
<1>5. QED BY <1>2, <1>4

-----------------------------------------------------------------------------
(***************************************************************************)
(* First layer: the workers and what they share are consistent.            *)
(***************************************************************************)
LEMMA WorkerFacts ==
    ASSUME Consistent, NEW w \in Workers, Busy(w)
    PROVE  /\ worker[w] \in BusyRecords /\ worker[w].step \in Steps
           /\ worker[w].node \in FrontNodes /\ worker[w].left \in Seq(Dispatches(Jobs))
           /\ worker[w].next \in Nat /\ worker[w].empty \in BOOLEAN
           /\ worker[w].found_one \in BOOLEAN
           /\ WorkerConsistent(w)
           /\ ~explored
           /\ worker[w].left # <<>> =>
                /\ Dispatched(w) \in Dispatches(Jobs)
                /\ Dispatched(w).job \in Jobs /\ Dispatched(w).states \in Seq(TimeIntervals)
                /\ Dispatched(w) \in Range(worker[w].left)
                /\ Dispatched(w).states # <<>> =>
                     /\ Finish(w) \in TimeIntervals
                     /\ Finish(w) \in Range(Dispatched(w).states)
<1>1. worker[w] \in BusyRecords
    BY DEF Consistent, Types, Busy
<1>2. /\ worker[w].step \in Steps
      /\ worker[w].node \in FrontNodes /\ worker[w].left \in Seq(Dispatches(Jobs))
      /\ worker[w].next \in Nat /\ worker[w].empty \in BOOLEAN /\ worker[w].found_one \in BOOLEAN
    BY <1>1 DEF BusyRecords
<1>3. WorkerConsistent(w) /\ ~explored
    BY DEF Consistent
<1>4. ASSUME worker[w].left # <<>>
      PROVE  /\ Dispatched(w) \in Dispatches(Jobs)
             /\ Dispatched(w).job \in Jobs /\ Dispatched(w).states \in Seq(TimeIntervals)
             /\ Dispatched(w) \in Range(worker[w].left)
             /\ Dispatched(w).states # <<>> =>
                  /\ Finish(w) \in TimeIntervals
                  /\ Finish(w) \in Range(Dispatched(w).states)
    <2>1. Dispatched(w) \in Dispatches(Jobs) /\ Dispatched(w) \in Range(worker[w].left)
        BY <1>2, <1>4, HeadTailRange DEF Dispatched
    <2>2. Dispatched(w).job \in Jobs /\ Dispatched(w).states \in Seq(TimeIntervals)
        BY <2>1 DEF Dispatches
    <2>3. QED BY <2>1, <2>2, HeadTailRange DEF Finish
<1>5. QED BY <1>1, <1>2, <1>3, <1>4

\* Waiting is no step of a worker that is busy.
LEMMA AtFacts ==
    ASSUME Consistent, NEW w \in Workers, NEW step \in Steps, At(w, step)
    PROVE  Busy(w) /\ worker[w].step = step
BY DEF At, Busy, Waiting, Steps, StepsWithNode

\* A step of w that leaves the front alone keeps the first layer when it does
\* so for w itself: for the others the nodes have only grown.
LEMMA ConsistentStep ==
    ASSUME Consistent, NEW w \in Workers, ~explored,
           front' = front /\ explored' = explored,
           exploration_front' \subseteq exploration_front,
           nodes' \in Seq(NodeRecords), Grown, cached' \subseteq DOMAIN nodes',
           completion' \in [Jobs -> TimeIntervals \cup {None}],
           observed_deadline_miss' \subseteq Workers, aborted' \subseteq observed_deadline_miss',
           NEW r \in {Waiting} \cup BusyRecords, worker' = [worker EXCEPT ![w] = r],
           r # Waiting => WorkerConsistent(w)'
    PROVE  /\ Consistent'
           /\ worker'[w] = r /\ \A v \in Workers : v # w => worker'[v] = worker[v]
<1>1. /\ Jobs' = Jobs /\ FrontNodes' = FrontNodes /\ NodeRecords' = NodeRecords
      /\ BusyRecords' = BusyRecords
    BY DEF Jobs, FrontNodes, NodeRecords, BusyRecords
<1>2. worker \in [Workers -> {Waiting} \cup BusyRecords]
    BY DEF Consistent, Types
<1>3. worker'[w] = r /\ \A v \in Workers : v # w => worker'[v] = worker[v]
    BY <1>2
<1>4. Types'
    <2>1. worker' \in [Workers -> {Waiting} \cup BusyRecords']
        BY <1>1, <1>2
    <2>2. exploration_front' \subseteq FrontNodes' /\ front' \in Fronts /\ explored' \in BOOLEAN
        BY <1>1 DEF Consistent, Types
    <2>3. nodes' \in Seq(NodeRecords') /\ completion' \in [Jobs' -> TimeIntervals \cup {None}]
        BY <1>1
    <2>4. QED BY <2>1, <2>2, <2>3 DEF Types
<1>5. ASSUME NEW v \in Workers, Busy(v)'
      PROVE  WorkerConsistent(v)'
    <2>1. CASE v = w
        BY <2>1, <1>3, <1>5 DEF Busy
    <2>2. CASE v # w
        <3>1. worker'[v] = worker[v]
            BY <2>2, <1>3
        <3>2. Busy(v)
            BY <3>1, <1>5 DEF Busy
        <3>3. /\ Dispatched(v)' = Dispatched(v) /\ Finish(v)' = Finish(v)
              /\ NextJobs(v)' = NextJobs(v)
            BY <3>1 DEF Dispatched, Finish, NextJobs
        <3>4. KnowsNode(v) => KnowsNode(v)' /\ worker[v].next \in DOMAIN nodes
            BY <3>1, <3>3 DEF KnowsNode, Grown
        <3>5. worker[v].next \in DOMAIN nodes /\ nodes[worker[v].next].states # <<>> =>
                  nodes'[worker[v].next].states # <<>>
            BY DEF Grown
        <3>6. WorkerConsistent(v)
            BY <3>2, WorkerFacts
        <3>7. ASSUME worker[v].step = "edge"
              PROVE  HoldsState(worker[v].next, Finish(v))'
            <4>1. /\ HoldsState(worker[v].next, Finish(v)) /\ worker[v].next \in DOMAIN nodes
                  /\ worker[v].left # <<>> /\ Dispatched(v).states # <<>>
                BY <3>6, <3>7 DEF WorkerConsistent, KnowsNode, StepsWithNode
            <4>2. Finish(v) \in TimeIntervals
                BY <4>1, <3>2, WorkerFacts
            <4>3. Types
                BY DEF Consistent
            <4>4. \E u \in Range(nodes'[worker[v].next].states) : ContainsInterval(u, Finish(v))
                BY <4>1, <4>2, <4>3, StillHolds
            <4>5. QED BY <4>4, <3>1, <3>3 DEF HoldsState
        <3>8. QED BY <3>1, <3>3, <3>4, <3>5, <3>6, <3>7 DEF WorkerConsistent, KnowsNode, StepsWithNode
    <2>3. QED BY <2>1, <2>2
<1>6. QED BY <1>3, <1>4, <1>5 DEF Consistent

LEMMA BusyIsNotWaiting == \A r \in BusyRecords : r # Waiting /\ r.step # "pop"
BY DEF BusyRecords, Waiting, Steps, StepsWithNode

LEMMA InitConsistent == Init => Consistent
<1>1. ASSUME Init PROVE Consistent
    <2>1. /\ front \in Fronts /\ exploration_front = FrontNodes /\ nodes = <<>>
          /\ cached = {} /\ completion = [j \in Jobs |-> None]
          /\ observed_deadline_miss = {} /\ aborted = {}
          /\ worker = [w \in Workers |-> Waiting] /\ explored = FALSE
        BY <1>1 DEF Init, FrontNodes
    <2>2. nodes \in Seq(NodeRecords)
        BY <2>1
    <2>3. completion \in [Jobs -> TimeIntervals \cup {None}]
        BY <2>1
    <2>4. QED BY <2>1, <2>2, <2>3 DEF Consistent, Types, Busy
<1>2. QED BY <1>1

\* What a worker does with the work given to it while it looks for a node and puts
\* a state into it: nothing.
KeepsWork(w) ==
    /\ front' = front /\ exploration_front' = exploration_front /\ completion' = completion
    /\ observed_deadline_miss' = observed_deadline_miss
    /\ Busy(w) /\ Busy(w)' /\ worker'[w] \in BusyRecords
    /\ worker'[w].node = worker[w].node /\ worker'[w].left = worker[w].left
    /\ worker'[w].found_one = worker[w].found_one /\ worker[w].step # "dispatch"
    /\ \A v \in Workers : v # w => worker'[v] = worker[v]

LEMMA PopStep ==
    ASSUME Consistent, NEW w \in Workers, Pop(w)
    PROVE  /\ Consistent' /\ ~Busy(w)
           /\ UNCHANGED <<front, nodes, completion, observed_deadline_miss>>
           /\ \A v \in Workers : v # w => worker'[v] = worker[v]
           /\ \E n \in exploration_front :
                /\ exploration_front' = exploration_front \ {n}
                /\ \/ ~Busy(w)' /\ observed_deadline_miss # {}
                   \/ /\ Busy(w)' /\ worker'[w].node = n /\ ~worker'[w].found_one
                      /\ worker'[w].left = front.work[n].dispatches
                      /\ worker'[w].step = "dispatch"
<1>1. PICK n \in exploration_front, stop \in Sees(w, aborted) :
        /\ exploration_front' = exploration_front \ {n}
        /\ worker' = IF stop THEN worker ELSE [worker EXCEPT ![w] =
                [step |-> "dispatch", node |-> n, left |-> front.work[n].dispatches,
                 next |-> NoNode, empty |-> FALSE, found_one |-> FALSE]]
    BY DEF Pop
<1>2. /\ front' = front /\ nodes' = nodes /\ cached' = cached /\ completion' = completion
      /\ observed_deadline_miss' = observed_deadline_miss /\ aborted' = aborted
      /\ explored' = explored /\ worker[w].step = "pop"
    BY DEF Pop, At
<1>3. ~explored /\ Types
    BY DEF Consistent
<1>4. worker[w] = Waiting
    BY <1>2, WorkerFacts, BusyIsNotWaiting DEF Busy
<1>5. n \in FrontNodes
    BY <1>3 DEF Types
<1> DEFINE k == [step |-> "dispatch", node |-> n, left |-> front.work[n].dispatches,
                 next |-> NoNode, empty |-> FALSE, found_one |-> FALSE]
           r == IF stop THEN Waiting ELSE k
<1>6. front.work[n].dispatches \in Seq(Dispatches(Jobs))
    BY <1>3, <1>5, FrontFacts DEF Types
<1>7. k \in BusyRecords
    BY <1>5, <1>6 DEF BusyRecords, Steps, NoNode
<1>8. worker' = [worker EXCEPT ![w] = r]
    BY <1>1, <1>3, <1>4 DEF Types
<1>9. r \in {Waiting} \cup BusyRecords
    BY <1>7
<1>10. worker \in [Workers -> {Waiting} \cup BusyRecords]
    BY <1>3 DEF Types
<1>11. r # Waiting => WorkerConsistent(w)'
    <2>1. ASSUME r # Waiting
          PROVE  worker'[w].step = "dispatch" /\ worker'[w].next = NoNode
        BY <2>1, <1>8, <1>10
    <2>2. QED BY <2>1 DEF WorkerConsistent, StepsWithNode
<1>12. Grown
    BY <1>2, <1>3, SameNodes
<1>13. /\ k.node = n /\ ~k.found_one /\ k.left = front.work[n].dispatches
       /\ k.step = "dispatch"
    OBVIOUS
<1>14. stop => aborted # {}
    BY DEF Sees
<1>a. r = IF stop THEN Waiting ELSE k
    OBVIOUS
<1> HIDE DEF r, k
<1>15. /\ Consistent' /\ worker'[w] = r
       /\ \A v \in Workers : v # w => worker'[v] = worker[v]
    BY <1>1, <1>2, <1>3, <1>8, <1>9, <1>11, <1>12, ConsistentStep DEF Types
<1>16. \/ ~Busy(w)' /\ observed_deadline_miss # {}
       \/ /\ Busy(w)' /\ worker'[w].node = n /\ ~worker'[w].found_one
          /\ worker'[w].left = front.work[n].dispatches /\ worker'[w].step = "dispatch"
    BY <1>3, <1>7, <1>13, <1>14, <1>15, <1>a, BusyIsNotWaiting DEF Busy, Types
<1>17. QED BY <1>1, <1>2, <1>4, <1>15, <1>16 DEF Busy

LEMMA FinishTimesFacts ==
    ASSUME NEW known \in TimeIntervals \cup {None}, NEW range \in TimeIntervals
    PROVE  /\ UpdateFinishTimes(known, range) \in TimeIntervals
           /\ ContainsInterval(UpdateFinishTimes(known, range), range)
           /\ \A s \in TimeIntervals : ContainsInterval(known, s) =>
                  ContainsInterval(UpdateFinishTimes(known, range), s)
<1>1. CASE known = None
    <2>1. \A s \in TimeIntervals : ~ContainsInterval(known, s)
        BY <1>1, IntervalFacts DEF None, ContainsInterval
    <2>2. QED BY <2>1, <1>1, IntervalFacts DEF UpdateFinishTimes
<1>2. CASE known # None
    <2>1. known \in TimeIntervals /\ UpdateFinishTimes(known, range) = Widen(known, range)
        BY <1>2 DEF UpdateFinishTimes
    <2>2. QED BY <2>1, IntervalFacts
<1>3. QED BY <1>1, <1>2

\* Nothing about where a worker is with its work depends on anything but its
\* record and the nodes.
LEMMA SameWork ==
    ASSUME NEW w \in Workers, worker'[w].node = worker[w].node, worker'[w].left = worker[w].left
    PROVE  /\ Dispatched(w)' = Dispatched(w) /\ Finish(w)' = Finish(w)
           /\ NextJobs(w)' = NextJobs(w)
BY DEF Dispatched, Finish, NextJobs

LEMMA UpdateCompletionStep ==
    ASSUME Consistent, NEW w \in Workers, UpdateCompletion(w)
    PROVE  /\ Consistent'
           /\ Busy(w) /\ Busy(w)' /\ worker'[w] \in BusyRecords /\ worker'[w].found_one
           /\ worker'[w].node = worker[w].node /\ worker'[w].left = worker[w].left
           /\ \A v \in Workers : v # w => worker'[v] = worker[v]
           /\ UNCHANGED <<front, exploration_front, nodes>>
           /\ worker[w].left # <<>> /\ Dispatched(w).states # <<>>
           /\ completion' = [completion EXCEPT ![Dispatched(w).job] =
                                 UpdateFinishTimes(@, Finish(w))]
           /\ IF ExceedsDeadline(Finish(w), front.deadline[Dispatched(w).job])
              THEN observed_deadline_miss' # {}
              ELSE observed_deadline_miss' = observed_deadline_miss
<1> DEFINE r == [worker[w] EXCEPT !.found_one = TRUE,
                                  !.step = IF worker[w].next = NoNode THEN "find" ELSE "new_state"]
<1>1. /\ worker[w].step = "dispatch" /\ worker[w].left # <<>> /\ Dispatched(w).states # <<>>
      /\ worker' = [worker EXCEPT ![w] = r]
      /\ front' = front /\ exploration_front' = exploration_front /\ nodes' = nodes
      /\ cached' = cached /\ explored' = explored
      /\ completion' = [completion EXCEPT ![Dispatched(w).job] =
                            UpdateFinishTimes(@, Finish(w))]
      /\ IF ExceedsDeadline(Finish(w), front.deadline[Dispatched(w).job])
         THEN ReportMiss(w)
         ELSE UNCHANGED <<observed_deadline_miss, aborted>>
    BY DEF UpdateCompletion, At
<1>2. Types /\ Busy(w) /\ ~explored /\ worker[w] \in BusyRecords
    BY <1>1, AtFacts, WorkerFacts DEF Consistent, At, Steps
<1>3. Dispatched(w).job \in Jobs /\ Finish(w) \in TimeIntervals
    BY <1>1, <1>2, WorkerFacts
<1>4. completion' \in [Jobs -> TimeIntervals \cup {None}]
    <2>1. UpdateFinishTimes(completion[Dispatched(w).job], Finish(w)) \in TimeIntervals
        BY <1>2, <1>3, FinishTimesFacts DEF Types
    <2>2. QED BY <1>1, <1>2, <2>1 DEF Types
<1>5. observed_deadline_miss' \subseteq Workers /\ aborted' \subseteq observed_deadline_miss'
    BY <1>1, <1>2 DEF ReportMiss, Types
<1>6. r \in BusyRecords
    BY <1>2 DEF BusyRecords, Steps, StepsWithNode
<1>7. /\ r.found_one /\ r.node = worker[w].node /\ r.left = worker[w].left
      /\ r.next = worker[w].next
      /\ r.step = IF worker[w].next = NoNode THEN "find" ELSE "new_state"
    BY <1>2 DEF BusyRecords
<1> HIDE DEF r
<1>8. worker'[w] = r
    BY <1>1, <1>2 DEF Types
<1>9. WorkerConsistent(w)'
    <2>1. Dispatched(w)' = Dispatched(w) /\ NextJobs(w)' = NextJobs(w)
        BY <1>7, <1>8, SameWork
    <2>2. WorkerConsistent(w)
        BY <1>2, WorkerFacts
    <2>3. worker[w].next # NoNode => KnowsNode(w)
        BY <1>1, <2>2 DEF WorkerConsistent
    <2>4. worker[w].next # NoNode => KnowsNode(w)'
        BY <1>1, <1>7, <1>8, <2>1, <2>3 DEF KnowsNode
    <2>5. QED BY <1>1, <1>7, <1>8, <2>1, <2>4 DEF WorkerConsistent, StepsWithNode
<1>10. Grown
    BY <1>1, <1>2, SameNodes
<1>11. Busy(w)' /\ r # Waiting
    BY <1>6, <1>8, BusyIsNotWaiting DEF Busy
<1>12. nodes' \in Seq(NodeRecords) /\ cached' \subseteq DOMAIN nodes'
    BY <1>1, <1>2 DEF Types
<1>13. /\ Consistent' /\ \A v \in Workers : v # w => worker'[v] = worker[v]
    BY <1>1, <1>2, <1>4, <1>5, <1>6, <1>9, <1>10, <1>12, ConsistentStep
<1>14. IF ExceedsDeadline(Finish(w), front.deadline[Dispatched(w).job])
       THEN observed_deadline_miss' # {}
       ELSE observed_deadline_miss' = observed_deadline_miss
    BY <1>1 DEF ReportMiss
<1>15. QED BY <1>1, <1>2, <1>6, <1>7, <1>8, <1>11, <1>13, <1>14

\* What is left to show of a step that keeps the worker's work.
LEMMA InnerStep ==
    ASSUME Consistent, NEW w \in Workers, Busy(w), worker[w].step # "dispatch",
           NEW r \in BusyRecords, worker' = [worker EXCEPT ![w] = r],
           r.node = worker[w].node, r.left = worker[w].left, r.found_one = worker[w].found_one,
           UNCHANGED <<front, exploration_front, completion, observed_deadline_miss, aborted,
                       explored>>,
           nodes' \in Seq(NodeRecords), Grown, cached' \subseteq DOMAIN nodes',
           r.step # "dispatch",
           r.step \in StepsWithNode =>
               r.next \in DOMAIN nodes' /\ nodes'[r.next].scheduled = NextJobs(w),
           r.step \in {"merge_states", "edge"} => nodes'[r.next].states # <<>>,
           r.step = "edge" => \E u \in Range(nodes'[r.next].states) : ContainsInterval(u, Finish(w))
    PROVE  Consistent' /\ KeepsWork(w) /\ worker'[w] = r
<1>1. Types /\ ~explored /\ worker[w] \in BusyRecords /\ WorkerConsistent(w)
    BY WorkerFacts DEF Consistent
<1>2. worker'[w] = r
    BY <1>1 DEF Types
<1>3. /\ Dispatched(w)' = Dispatched(w) /\ Finish(w)' = Finish(w) /\ NextJobs(w)' = NextJobs(w)
    BY <1>2, SameWork
<1>4. worker[w].left # <<>> /\ Dispatched(w).states # <<>> /\ worker[w].found_one
    BY <1>1 DEF WorkerConsistent
<1>5. r.step \in StepsWithNode => KnowsNode(w)'
    BY <1>2, <1>3, <1>4 DEF KnowsNode
<1>6. r.step = "edge" => HoldsState(worker[w].next, Finish(w))'
    BY <1>2, <1>3 DEF HoldsState
<1>7. WorkerConsistent(w)'
    BY <1>2, <1>3, <1>4, <1>5, <1>6 DEF WorkerConsistent, StepsWithNode, HoldsState
<1>8. Busy(w)'
    BY <1>2, BusyIsNotWaiting DEF Busy
<1>9. completion' \in [Jobs -> TimeIntervals \cup {None}]
    BY <1>1 DEF Types
<1>10. observed_deadline_miss' \subseteq Workers /\ aborted' \subseteq observed_deadline_miss'
    BY <1>1 DEF Types
<1>11. Consistent' /\ \A v \in Workers : v # w => worker'[v] = worker[v]
    BY <1>1, <1>7, <1>9, <1>10, ConsistentStep
<1>12. QED BY <1>2, <1>8, <1>11 DEF KeepsWork

LEMMA FindNodeStep ==
    ASSUME Consistent, NEW w \in Workers, FindNode(w)
    PROVE  Consistent' /\ KeepsWork(w) /\ nodes' = nodes
<1> DEFINE same == {i \in cached : nodes[i].scheduled = NextJobs(w)}
           r == IF same = {} THEN [worker[w] EXCEPT !.step = "new_node"]
                ELSE [worker[w] EXCEPT !.step = "new_state", !.next = Min(same)]
<1>1. /\ worker[w].step = "find"
      /\ UNCHANGED <<front, exploration_front, nodes, cached, completion,
                     observed_deadline_miss, aborted, explored>>
      /\ worker' = [worker EXCEPT ![w] = r]
    BY DEF FindNode, At, Goto
<1>2. Busy(w) /\ worker[w] \in BusyRecords /\ Types
    BY <1>1, AtFacts, WorkerFacts DEF Consistent, At, Steps
<1>3. same # {} => Min(same) \in same /\ Min(same) \in Nat /\ Min(same) \in DOMAIN nodes
    <2>1. same \in SUBSET DOMAIN nodes /\ same \in SUBSET Nat
        BY <1>2, NodeFacts DEF Types
    <2> HIDE DEF same
    <2>2. QED BY <2>1, MinFacts
<1>4. same # {} => nodes[Min(same)].scheduled = NextJobs(w)
    BY <1>3
<1>5. Grown /\ nodes' \in Seq(NodeRecords) /\ cached' \subseteq DOMAIN nodes'
    BY <1>1, <1>2, SameNodes DEF Types
<1> HIDE DEF same
<1>6. /\ r \in BusyRecords /\ r.node = worker[w].node /\ r.left = worker[w].left
      /\ r.found_one = worker[w].found_one
      /\ r.step = IF same = {} THEN "new_node" ELSE "new_state"
      /\ same # {} => r.next = Min(same)
    BY <1>2, <1>3 DEF BusyRecords, Steps, StepsWithNode
<1> HIDE DEF r
<1>7. r.step \in StepsWithNode =>
          r.next \in DOMAIN nodes' /\ nodes'[r.next].scheduled = NextJobs(w)
    BY <1>1, <1>3, <1>4, <1>6 DEF StepsWithNode
<1>8. r.step # "dispatch" /\ r.step # "edge" /\ r.step # "merge_states"
      /\ worker[w].step # "dispatch"
    BY <1>1, <1>6
<1>9. QED BY <1>1, <1>2, <1>5, <1>6, <1>7, <1>8, InnerStep

LEMMA NewNodeStep ==
    ASSUME Consistent, NEW w \in Workers, NewNode(w)
    PROVE  /\ Consistent' /\ KeepsWork(w)
           /\ nodes' = Append(nodes, EmptyNode(NextJobs(w)))
           /\ EmptyNode(NextJobs(w)) \in NodeRecords /\ EmptyNode(NextJobs(w)).states = <<>>
<1> DEFINE r == [worker[w] EXCEPT !.step = "cache_node", !.next = Len(nodes) + 1]
           m == EmptyNode(NextJobs(w))
<1>1. /\ worker[w].step = "new_node"
      /\ UNCHANGED <<front, exploration_front, cached, completion,
                     observed_deadline_miss, aborted, explored>>
      /\ worker' = [worker EXCEPT ![w] = r]
      /\ nodes' = Append(nodes, m)
    BY DEF NewNode, At
<1>2. Busy(w) /\ worker[w] \in BusyRecords /\ Types /\ WorkerConsistent(w)
    BY <1>1, AtFacts, WorkerFacts DEF Consistent, At, Steps
<1>3. NextJobs(w) \in SUBSET Jobs
    <2>1. worker[w].left # <<>>
        BY <1>1, <1>2 DEF WorkerConsistent
    <2>2. Dispatched(w).job \in Jobs /\ worker[w].node \subseteq Jobs
        BY <2>1, <1>2, WorkerFacts, FrontFacts DEF Types
    <2>3. QED BY <2>2 DEF NextJobs
<1>4. m \in NodeRecords /\ m.states = <<>> /\ m.scheduled = NextJobs(w)
    BY <1>3 DEF EmptyNode, NodeRecords
<1> HIDE DEF m
<1>5. /\ nodes' \in Seq(NodeRecords) /\ Grown /\ DOMAIN nodes \subseteq DOMAIN nodes'
      /\ Len(nodes) + 1 \in DOMAIN nodes' /\ Len(nodes) + 1 \in Nat
      /\ nodes'[Len(nodes) + 1] = m
    BY <1>1, <1>2, <1>4, AppendNode
<1>6. /\ r \in BusyRecords /\ r.node = worker[w].node /\ r.left = worker[w].left
      /\ r.found_one = worker[w].found_one
      /\ r.step = "cache_node" /\ r.next = Len(nodes) + 1
    BY <1>2, <1>5 DEF BusyRecords, Steps, StepsWithNode
<1> HIDE DEF r
<1>7. cached' \subseteq DOMAIN nodes'
    BY <1>1, <1>2, <1>5 DEF Types
<1>8. r.step # "dispatch" /\ r.step # "edge" /\ r.step # "merge_states"
      /\ worker[w].step # "dispatch"
    BY <1>1, <1>6
<1>9. r.next \in DOMAIN nodes' /\ nodes'[r.next].scheduled = NextJobs(w)
    BY <1>4, <1>5, <1>6
<1>10. Consistent' /\ KeepsWork(w)
    BY <1>1, <1>2, <1>5, <1>6, <1>7, <1>8, <1>9, InnerStep
<1>11. QED BY <1>1, <1>4, <1>10 DEF m

LEMMA CacheNodeStep ==
    ASSUME Consistent, NEW w \in Workers, CacheNode(w)
    PROVE  Consistent' /\ KeepsWork(w) /\ nodes' = nodes
<1> DEFINE r == [worker[w] EXCEPT !.step = "new_state"]
<1>1. /\ worker[w].step = "cache_node"
      /\ UNCHANGED <<front, exploration_front, nodes, completion,
                     observed_deadline_miss, aborted, explored>>
      /\ worker' = [worker EXCEPT ![w] = r]
      /\ cached' = cached \cup {worker[w].next}
    BY DEF CacheNode, At, Goto
<1>2. Busy(w) /\ worker[w] \in BusyRecords /\ Types /\ WorkerConsistent(w)
    BY <1>1, AtFacts, WorkerFacts DEF Consistent, At, Steps, StepsWithNode
<1>3. KnowsNode(w)
    BY <1>1, <1>2 DEF WorkerConsistent, StepsWithNode
<1>4. Grown /\ nodes' \in Seq(NodeRecords) /\ cached' \subseteq DOMAIN nodes'
    BY <1>1, <1>2, <1>3, SameNodes DEF Types, KnowsNode
<1>5. /\ r \in BusyRecords /\ r.node = worker[w].node /\ r.left = worker[w].left
      /\ r.found_one = worker[w].found_one /\ r.step = "new_state" /\ r.next = worker[w].next
    BY <1>2 DEF BusyRecords, Steps, StepsWithNode
<1> HIDE DEF r
<1>6. r.next \in DOMAIN nodes' /\ nodes'[r.next].scheduled = NextJobs(w)
    BY <1>1, <1>3, <1>5 DEF KnowsNode
<1>7. r.step # "dispatch" /\ r.step # "edge" /\ r.step # "merge_states"
      /\ worker[w].step # "dispatch"
    BY <1>1, <1>5
<1>8. QED BY <1>1, <1>2, <1>4, <1>5, <1>6, <1>7, InnerStep

LEMMA NewStateStep ==
    ASSUME Consistent, NEW w \in Workers, NewState(w)
    PROVE  Consistent' /\ KeepsWork(w) /\ nodes' = nodes
<1> DEFINE empty == nodes[worker[w].next].states = <<>>
           r == [worker[w] EXCEPT !.step = IF empty THEN "add_state" ELSE "merge_states",
                                  !.empty = empty]
<1>1. /\ worker[w].step = "new_state"
      /\ UNCHANGED <<front, exploration_front, nodes, cached, completion,
                     observed_deadline_miss, aborted, explored>>
      /\ worker' = [worker EXCEPT ![w] = r]
    BY DEF NewState, At
<1>2. Busy(w) /\ worker[w] \in BusyRecords /\ Types /\ WorkerConsistent(w)
    BY <1>1, AtFacts, WorkerFacts DEF Consistent, At, Steps, StepsWithNode
<1>3. KnowsNode(w)
    BY <1>1, <1>2 DEF WorkerConsistent, StepsWithNode
<1>4. Grown /\ nodes' \in Seq(NodeRecords) /\ cached' \subseteq DOMAIN nodes'
    BY <1>1, <1>2, SameNodes DEF Types
<1>5. empty \in BOOLEAN
    OBVIOUS
<1>a. empty <=> nodes[worker[w].next].states = <<>>
    OBVIOUS
<1> HIDE DEF empty
<1>6. /\ r \in BusyRecords /\ r.node = worker[w].node /\ r.left = worker[w].left
      /\ r.found_one = worker[w].found_one /\ r.next = worker[w].next
    BY <1>2, <1>5 DEF BusyRecords, Steps, StepsWithNode
<1>7. r.step = IF empty THEN "add_state" ELSE "merge_states"
    BY <1>2 DEF BusyRecords
<1> HIDE DEF r
<1>8. r.next \in DOMAIN nodes' /\ nodes'[r.next].scheduled = NextJobs(w)
    BY <1>1, <1>3, <1>6 DEF KnowsNode
<1>9. r.step # "dispatch" /\ r.step # "edge" /\ worker[w].step # "dispatch"
    BY <1>1, <1>7
<1>10. r.step = "merge_states" => nodes'[r.next].states # <<>>
    BY <1>1, <1>6, <1>7, <1>a
<1>11. QED BY <1>1, <1>2, <1>4, <1>6, <1>8, <1>9, <1>10, InnerStep

\* The state that a worker finished is put into the node that it knows.
Puts(w) ==
    /\ worker[w].next \in DOMAIN nodes /\ DOMAIN nodes' = DOMAIN nodes
    /\ nodes'[worker[w].next].scheduled = NextJobs(w)
    /\ \A k \in DOMAIN nodes : k # worker[w].next => nodes'[k] = nodes[k]
    /\ \A u \in Range(nodes'[worker[w].next].states) :
           u \in Range(nodes[worker[w].next].states) \/ u.min <= Finish(w).min
    /\ nodes[worker[w].next].scheduled = NextJobs(w)
    /\ BoundsCoverStates => BoundsCoverStates'

LEMMA PutStep ==
    ASSUME Consistent, NEW w \in Workers,
           At(w, "merge_states") \/ At(w, "add_state"), NEW m,
           Takes(nodes[worker[w].next], Finish(w), m),
           nodes' = [nodes EXCEPT ![worker[w].next] = m], Goto(w, "edge"),
           UNCHANGED <<front, exploration_front, cached, completion, observed_deadline_miss,
                       aborted, explored>>
    PROVE  Consistent' /\ KeepsWork(w) /\ Puts(w) /\ Grown
<1> DEFINE r == [worker[w] EXCEPT !.step = "edge"]
<1>1. worker[w].step \in {"merge_states", "add_state"}
    BY DEF At
<1>2. Busy(w) /\ worker[w] \in BusyRecords /\ Types /\ WorkerConsistent(w)
    <2>1. Busy(w)
        BY AtFacts DEF Steps, StepsWithNode
    <2>2. QED BY <2>1, WorkerFacts DEF Consistent
<1>3. KnowsNode(w) /\ worker[w].left # <<>> /\ Dispatched(w).states # <<>>
    BY <1>1, <1>2 DEF WorkerConsistent, StepsWithNode
<1>4. Finish(w) \in TimeIntervals /\ worker[w].next \in DOMAIN nodes
      /\ nodes[worker[w].next].scheduled = NextJobs(w)
    BY <1>2, <1>3, WorkerFacts DEF KnowsNode
<1> DEFINE i == worker[w].next
           s == Finish(w)
<1> HIDE DEF i, s
<1>a. i = worker[w].next /\ s = Finish(w)
    BY DEF i, s
<1>5. /\ nodes' \in Seq(NodeRecords) /\ DOMAIN nodes' = DOMAIN nodes
      /\ Grown /\ nodes'[i].states # <<>>
      /\ nodes'[i].scheduled = nodes[i].scheduled
      /\ \A k \in DOMAIN nodes : k # i => nodes'[k] = nodes[k]
      /\ \A u \in Range(nodes'[i].states) : u \in Range(nodes[i].states) \/ u.min <= s.min
      /\ BoundsCoverStates => BoundsCoverStates'
    BY <1>2, <1>4, <1>a, PutState
<1>6. \E u \in Range(nodes'[i].states) : ContainsInterval(u, s)
    <2>1. nodes'[i] = m
        BY <1>2, <1>4, <1>a DEF Types
    <2>2. QED BY <2>1, <1>a DEF Takes
<1>7. /\ r \in BusyRecords /\ r.node = worker[w].node /\ r.left = worker[w].left
      /\ r.found_one = worker[w].found_one /\ r.step = "edge" /\ r.next = i
    BY <1>2, <1>a DEF BusyRecords, Steps, StepsWithNode
<1>8. worker' = [worker EXCEPT ![w] = r]
    BY DEF Goto
<1> HIDE DEF r
<1>9. cached' \subseteq DOMAIN nodes'
    BY <1>2, <1>5 DEF Types
<1>10. r.step # "dispatch" /\ worker[w].step # "dispatch"
    BY <1>1, <1>7
<1>11. r.next \in DOMAIN nodes' /\ nodes'[r.next].scheduled = NextJobs(w)
       /\ nodes'[r.next].states # <<>>
       /\ \E u \in Range(nodes'[r.next].states) : ContainsInterval(u, Finish(w))
    BY <1>4, <1>5, <1>6, <1>7, <1>a
<1>12. Consistent' /\ KeepsWork(w)
    BY <1>2, <1>5, <1>7, <1>8, <1>9, <1>10, <1>11, InnerStep
<1>13. Puts(w)
    BY <1>4, <1>5, <1>a DEF Puts
<1>14. QED BY <1>5, <1>12, <1>13

LEMMA AddStep ==
    ASSUME Consistent, NEW w \in Workers, Add(w)
    PROVE  Consistent' /\ KeepsWork(w) /\ Puts(w) /\ Grown
<1>1. /\ At(w, "add_state") /\ Goto(w, "edge")
      /\ nodes' = [nodes EXCEPT ![worker[w].next] = AddState(@, Finish(w))]
      /\ UNCHANGED <<front, exploration_front, cached, completion, observed_deadline_miss,
                     aborted, explored>>
    BY DEF Add
<1>2. Busy(w) /\ Types /\ WorkerConsistent(w)
    <2>1. Busy(w)
        BY <1>1, AtFacts DEF Steps, StepsWithNode
    <2>2. QED BY <2>1, WorkerFacts DEF Consistent
<1>3. KnowsNode(w) /\ worker[w].left # <<>> /\ Dispatched(w).states # <<>>
    BY <1>1, <1>2 DEF WorkerConsistent, StepsWithNode, At
<1>4. Finish(w) \in TimeIntervals /\ nodes[worker[w].next] \in NodeRecords
    BY <1>2, <1>3, WorkerFacts, NodeFacts DEF KnowsNode
<1>5. Takes(nodes[worker[w].next], Finish(w), AddState(nodes[worker[w].next], Finish(w)))
    BY <1>2, <1>4, AddStateTakes DEF Types
<1>6. nodes' = [nodes EXCEPT ![worker[w].next] =
                    AddState(nodes[worker[w].next], Finish(w))]
    BY <1>1
<1>7. QED BY <1>1, <1>5, <1>6, PutStep

LEMMA TryMergeStep ==
    ASSUME Consistent, NEW w \in Workers, TryMerge(w)
    PROVE  /\ Consistent' /\ KeepsWork(w) /\ Grown
           /\ Puts(w) \/ nodes' = nodes
<1> DEFINE n == nodes[worker[w].next]
<1>1. /\ At(w, "merge_states")
      /\ UNCHANGED <<front, exploration_front, cached, completion, observed_deadline_miss,
                     aborted, explored>>
    BY DEF TryMerge
<1>2. Busy(w) /\ Types /\ WorkerConsistent(w) /\ worker[w] \in BusyRecords
    <2>1. Busy(w)
        BY <1>1, AtFacts DEF Steps, StepsWithNode
    <2>2. QED BY <2>1, WorkerFacts DEF Consistent
<1>3. KnowsNode(w) /\ worker[w].left # <<>> /\ Dispatched(w).states # <<>>
    BY <1>1, <1>2 DEF WorkerConsistent, StepsWithNode, At
<1>4. Finish(w) \in TimeIntervals /\ n \in NodeRecords
    BY <1>2, <1>3, WorkerFacts, NodeFacts DEF KnowsNode
<1>5. CASE MergeCandidates(n, Finish(w)) # {}
    <2>1. /\ nodes' = [nodes EXCEPT ![worker[w].next] = MergeStates(n, Finish(w))]
          /\ Goto(w, "edge")
        BY <1>5 DEF TryMerge
    <2>2. Takes(n, Finish(w), MergeStates(n, Finish(w)))
        BY <1>2, <1>4, <1>5, MergeStatesTakes DEF Types
    <2>3. QED BY <1>1, <2>1, <2>2, PutStep
<1>6. CASE MergeCandidates(n, Finish(w)) = {}
    <2> DEFINE r == [worker[w] EXCEPT !.step = "add_state"]
    <2>1. nodes' = nodes /\ worker' = [worker EXCEPT ![w] = r]
        BY <1>6 DEF TryMerge, Goto
    <2>2. Grown /\ nodes' \in Seq(NodeRecords) /\ cached' \subseteq DOMAIN nodes'
        BY <1>1, <1>2, <2>1, SameNodes DEF Types
    <2>3. /\ r \in BusyRecords /\ r.node = worker[w].node /\ r.left = worker[w].left
          /\ r.found_one = worker[w].found_one /\ r.step = "add_state" /\ r.next = worker[w].next
        BY <1>2 DEF BusyRecords, Steps, StepsWithNode
    <2> HIDE DEF r, n
    <2>4. r.next \in DOMAIN nodes' /\ nodes'[r.next].scheduled = NextJobs(w)
        BY <1>3, <2>1, <2>3 DEF KnowsNode
    <2>5. r.step # "dispatch" /\ r.step # "edge" /\ r.step # "merge_states"
          /\ worker[w].step # "dispatch"
        BY <1>1, <2>3 DEF At
    <2>6. Consistent' /\ KeepsWork(w)
        BY <1>1, <1>2, <2>1, <2>2, <2>3, <2>4, <2>5, InnerStep
    <2>7. QED BY <2>1, <2>2, <2>6
<1>7. QED BY <1>5, <1>6

\* A worker goes on with left as what is left of its node.
GoesOnWith(w, left) ==
    /\ front' = front /\ exploration_front' = exploration_front
    /\ Busy(w) /\ Busy(w)' /\ worker'[w] \in BusyRecords /\ worker[w].left # <<>>
    /\ worker'[w].node = worker[w].node /\ worker'[w].left = left
    /\ worker'[w].found_one = worker[w].found_one /\ worker'[w].step = "dispatch"
    /\ \A v \in Workers : v # w => worker'[v] = worker[v]

\* The steps that take something off what is left.
LEMMA GoOnStep ==
    ASSUME Consistent, NEW w \in Workers, Busy(w), worker[w].left # <<>>,
           NEW r \in BusyRecords, worker' = [worker EXCEPT ![w] = r],
           r.node = worker[w].node, r.found_one = worker[w].found_one, r.step = "dispatch",
           UNCHANGED <<front, exploration_front, explored>>,
           nodes' \in Seq(NodeRecords), Grown, cached' \subseteq DOMAIN nodes',
           completion' \in [Jobs -> TimeIntervals \cup {None}],
           observed_deadline_miss' \subseteq Workers, aborted' \subseteq observed_deadline_miss',
           \/ r.next = NoNode
           \/ /\ r.left # <<>> /\ Head(r.left).job = Dispatched(w).job
              /\ r.next \in DOMAIN nodes' /\ nodes'[r.next].scheduled = NextJobs(w)
              /\ nodes'[r.next].states # <<>>
    PROVE  Consistent' /\ GoesOnWith(w, r.left)
<1>1. Types /\ ~explored /\ worker[w] \in BusyRecords
    BY WorkerFacts DEF Consistent
<1>2. worker'[w] = r
    BY <1>1 DEF Types
<1>3. r.next # NoNode => KnowsNode(w)' /\ nodes'[r.next].states # <<>>
    BY <1>2 DEF KnowsNode, NextJobs, Dispatched
<1>4. WorkerConsistent(w)'
    BY <1>2, <1>3 DEF WorkerConsistent, StepsWithNode
<1>5. Busy(w)'
    BY <1>2, BusyIsNotWaiting DEF Busy
<1>6. Consistent' /\ \A v \in Workers : v # w => worker'[v] = worker[v]
    BY <1>1, <1>4, ConsistentStep
<1>7. QED BY <1>2, <1>5, <1>6 DEF GoesOnWith

ReturnRecord(w) ==
    [worker[w] EXCEPT !.step = "dispatch", !.left = Tail(@), !.next = NoNode]

LEMMA ReturnFacts ==
    ASSUME Consistent, NEW w \in Workers, Busy(w), worker[w].left # <<>>
    PROVE  /\ ReturnRecord(w) \in BusyRecords
           /\ ReturnRecord(w).node = worker[w].node
           /\ ReturnRecord(w).left = Tail(worker[w].left)
           /\ ReturnRecord(w).found_one = worker[w].found_one
           /\ ReturnRecord(w).step = "dispatch" /\ ReturnRecord(w).next = NoNode
<1>1. worker[w] \in BusyRecords /\ worker[w].left \in Seq(Dispatches(Jobs))
    BY WorkerFacts
<1> DEFINE t == Tail(worker[w].left)
<1>2. t \in Seq(Dispatches(Jobs))
    BY <1>1, HeadTailRange
<1> HIDE DEF t
<1> DEFINE r == [worker[w] EXCEPT !.step = "dispatch", !.left = t, !.next = NoNode]
<1>3. /\ r \in BusyRecords /\ r.node = worker[w].node /\ r.left = t
      /\ r.found_one = worker[w].found_one /\ r.step = "dispatch" /\ r.next = NoNode
    BY <1>1, <1>2 DEF BusyRecords, Steps, NoNode
<1>4. ReturnRecord(w) = r
    BY DEF ReturnRecord, t
<1>5. t = Tail(worker[w].left)
    BY DEF t
<1> HIDE DEF r
<1>6. QED BY <1>3, <1>4, <1>5

LEMMA CountEdgeStep ==
    ASSUME Consistent, NEW w \in Workers, CountEdge(w)
    PROVE  /\ Consistent' /\ nodes' = nodes /\ completion' = completion
           /\ observed_deadline_miss' = observed_deadline_miss
           /\ \/ GoesOnWith(w, Tail(worker[w].left)) /\ observed_deadline_miss # {}
              \/ GoesOnWith(w, <<NextState(w)>> \o Tail(worker[w].left))
           /\ Dispatched(w).states # <<>> /\ worker[w].step = "edge"
<1>1. /\ worker[w].step = "edge"
      /\ UNCHANGED <<front, exploration_front, nodes, cached, completion,
                     observed_deadline_miss, aborted, explored>>
    BY DEF CountEdge, At
<1>2. Busy(w) /\ Types /\ WorkerConsistent(w) /\ worker[w] \in BusyRecords
    BY <1>1, AtFacts, WorkerFacts DEF Consistent, At, Steps, StepsWithNode
<1>3. /\ KnowsNode(w) /\ worker[w].left # <<>> /\ Dispatched(w).states # <<>>
      /\ nodes[worker[w].next].states # <<>>
    BY <1>1, <1>2 DEF WorkerConsistent, StepsWithNode
<1>4. Grown /\ nodes' \in Seq(NodeRecords) /\ cached' \subseteq DOMAIN nodes'
    BY <1>1, <1>2, SameNodes DEF Types
<1>5. /\ completion' \in [Jobs -> TimeIntervals \cup {None}]
      /\ observed_deadline_miss' \subseteq Workers /\ aborted' \subseteq observed_deadline_miss'
    BY <1>1, <1>2 DEF Types
<1>6. PICK stop \in Sees(w, observed_deadline_miss) :
        IF stop THEN Return(w)
        ELSE worker' = [worker EXCEPT ![w].step = "dispatch",
                            ![w].left = <<NextState(w)>> \o Tail(@)]
    BY DEF CountEdge
<1>7. CASE stop
    <2> DEFINE r == ReturnRecord(w)
    <2>1. worker' = [worker EXCEPT ![w] = r]
        BY <1>6, <1>7 DEF Return, ReturnRecord
    <2>2. /\ r \in BusyRecords /\ r.node = worker[w].node /\ r.left = Tail(worker[w].left)
          /\ r.found_one = worker[w].found_one /\ r.step = "dispatch" /\ r.next = NoNode
        BY <1>2, <1>3, ReturnFacts
    <2> HIDE DEF r
    <2>3. Consistent' /\ GoesOnWith(w, r.left)
        BY <1>1, <1>2, <1>3, <1>4, <1>5, <2>1, <2>2, GoOnStep
    <2>4. observed_deadline_miss # {}
        BY <1>6, <1>7 DEF Sees
    <2>5. QED BY <1>1, <1>3, <2>2, <2>3, <2>4
<1>8. CASE ~stop
    <2> DEFINE left == <<NextState(w)>> \o Tail(worker[w].left)
               r == [worker[w] EXCEPT !.step = "dispatch", !.left = left]
    <2>1. worker' = [worker EXCEPT ![w] = r]
        BY <1>6, <1>8
    <2>2. /\ Dispatched(w) \in Dispatches(Jobs) /\ Dispatched(w).states \in Seq(TimeIntervals)
          /\ Tail(worker[w].left) \in Seq(Dispatches(Jobs))
        BY <1>2, <1>3, WorkerFacts, HeadTailRange
    <2>3. NextState(w) \in Dispatches(Jobs) /\ NextState(w).job = Dispatched(w).job
        <3>1. Tail(Dispatched(w).states) \in Seq(TimeIntervals)
            BY <1>3, <2>2, HeadTailRange
        <3>2. QED BY <2>2, <3>1 DEF NextState, Dispatches
    <2>4. left \in Seq(Dispatches(Jobs)) /\ left # <<>> /\ Head(left) = NextState(w)
        BY <2>2, <2>3, ConsRange
    <2> HIDE DEF left
    <2>5. /\ r \in BusyRecords /\ r.node = worker[w].node /\ r.left = left
          /\ r.found_one = worker[w].found_one /\ r.step = "dispatch" /\ r.next = worker[w].next
        BY <1>2, <2>4 DEF BusyRecords, Steps
    <2> HIDE DEF r
    <2>6. /\ r.left # <<>> /\ Head(r.left).job = Dispatched(w).job
          /\ r.next \in DOMAIN nodes' /\ nodes'[r.next].scheduled = NextJobs(w)
          /\ nodes'[r.next].states # <<>>
        BY <1>1, <1>3, <2>3, <2>4, <2>5 DEF KnowsNode
    <2>7. Consistent' /\ GoesOnWith(w, r.left)
        BY <1>1, <1>2, <1>3, <1>4, <1>5, <2>1, <2>5, <2>6, GoOnStep
    <2>8. QED BY <1>1, <1>3, <2>5, <2>7 DEF left
<1>9. QED BY <1>7, <1>8

\* The check shows a miss: in a state of the node that the worker knows, a job
\* that the node has not dispatched is certainly too late.
ShowsMiss(w) ==
    /\ worker[w].next \in DOMAIN nodes
    /\ \E last \in Range(nodes[worker[w].next].states) :
           \E j \in Jobs \ nodes[worker[w].next].scheduled : front.deadline[j] < last.min

LEMMA CheckStep ==
    ASSUME Consistent, NEW w \in Workers, CheckForDeadlineMisses(w)
    PROVE  /\ Consistent' /\ GoesOnWith(w, Tail(worker[w].left)) /\ Grown
           /\ Dispatched(w).states = <<>>
           /\ BoundsCoverStates => BoundsCoverStates'
           /\ \/ /\ nodes' = nodes /\ completion' = completion
                 /\ observed_deadline_miss' = observed_deadline_miss
              \/ ShowsMiss(w) /\ observed_deadline_miss' # {}
<1> DEFINE n == nodes[worker[w].next]
           last == n.states[Len(n.states)]
           missed == IF worker[w].next = NoNode \/ ~front.early_exit THEN {}
                     ELSE CertainlyMissed(n.scheduled, front.work[worker[w].node].first, last)
           r == ReturnRecord(w)
<1>1. /\ worker[w].step = "dispatch" /\ worker[w].left # <<>> /\ Dispatched(w).states = <<>>
      /\ UNCHANGED <<front, exploration_front, explored>>
      /\ worker' = [worker EXCEPT ![w] = r]
    BY DEF CheckForDeadlineMisses, At, Return, ReturnRecord
<1>2. IF missed = {}
      THEN UNCHANGED <<nodes, cached, completion, observed_deadline_miss, aborted>>
      ELSE \E j \in missed :
              /\ LET range == Shift(last, front.cost[j])
                 IN  /\ nodes' = Append(nodes,
                                        AddState(EmptyNode(n.scheduled \cup {j}), range))
                     /\ cached' = cached \cup {Len(nodes) + 1}
                     /\ completion' = [completion EXCEPT ![j] = UpdateFinishTimes(@, range)]
              /\ ReportMiss(w)
    BY DEF CheckForDeadlineMisses
<1>3. Busy(w) /\ Types /\ WorkerConsistent(w)
    BY <1>1, AtFacts, WorkerFacts DEF Consistent, At, Steps
<1>4. /\ r \in BusyRecords /\ r.node = worker[w].node /\ r.left = Tail(worker[w].left)
      /\ r.found_one = worker[w].found_one /\ r.step = "dispatch" /\ r.next = NoNode
    BY <1>1, <1>3, ReturnFacts
<1> HIDE DEF r
<1>5. CASE missed = {}
    <2>1. UNCHANGED <<nodes, cached, completion, observed_deadline_miss, aborted>>
        BY <1>2, <1>5
    <2>2. Grown /\ nodes' \in Seq(NodeRecords) /\ cached' \subseteq DOMAIN nodes'
        BY <1>3, <2>1, SameNodes DEF Types
    <2>3. /\ completion' \in [Jobs -> TimeIntervals \cup {None}]
          /\ observed_deadline_miss' \subseteq Workers /\ aborted' \subseteq observed_deadline_miss'
        BY <1>3, <2>1 DEF Types
    <2>4. Consistent' /\ GoesOnWith(w, r.left)
        BY <1>1, <1>3, <1>4, <2>2, <2>3, GoOnStep
    <2>5. BoundsCoverStates => BoundsCoverStates'
        BY <2>1 DEF BoundsCoverStates
    <2>6. QED BY <1>1, <1>4, <2>1, <2>2, <2>4, <2>5
<1>6. CASE missed # {}
    <2>1. PICK j \in missed :
              /\ LET range == Shift(last, front.cost[j])
                 IN  /\ nodes' = Append(nodes,
                                        AddState(EmptyNode(n.scheduled \cup {j}), range))
                     /\ cached' = cached \cup {Len(nodes) + 1}
                     /\ completion' = [completion EXCEPT ![j] = UpdateFinishTimes(@, range)]
              /\ ReportMiss(w)
        BY <1>2, <1>6
    <2>2. /\ worker[w].next # NoNode
          /\ missed = CertainlyMissed(n.scheduled, front.work[worker[w].node].first, last)
        BY <1>6
    <2>3. /\ KnowsNode(w) /\ n.states # <<>>
        BY <1>1, <1>3, <2>2 DEF WorkerConsistent
    <2>4. /\ worker[w].next \in DOMAIN nodes /\ n.scheduled \in SUBSET Jobs
          /\ n.states \in Seq(TimeIntervals) /\ Len(n.states) \in Nat \ {0}
        BY <1>3, <2>3, NodeFacts, EmptySeq DEF KnowsNode
    <2>5. last \in Range(n.states) /\ last \in TimeIntervals
        <3>1. Len(n.states) \in DOMAIN n.states
            BY <2>4, LenProperties
        <3>2. QED BY <3>1, <2>4, RangeOfSeq DEF Range
    <2>6. j \in Jobs \ n.scheduled /\ front.deadline[j] < last.min
        <3>1. j \in Jobs \ n.scheduled
              /\ front.deadline[j] \in front.work[worker[w].node].first .. (last.min - 1)
            BY <2>1, <2>2 DEF CertainlyMissed
        <3>2. last.min \in Nat
            BY <2>5, IntervalFacts
        <3>3. front.work[worker[w].node].first \in Nat
            BY <1>3, WorkerFacts, FrontFacts DEF Types
        <3>4. QED BY <3>1, <3>2, <3>3
    <2>7. ShowsMiss(w)
        BY <2>4, <2>5, <2>6 DEF ShowsMiss
    <2> DEFINE range == Shift(last, front.cost[j])
               e == EmptyNode(n.scheduled \cup {j})
               m == AddState(e, range)
    <2>8. range \in TimeIntervals
        <3>1. front.cost[j] \in TimeIntervals
            BY <1>3, <2>6, FrontFacts DEF Types
        <3>2. QED BY <3>1, <2>5, IntervalFacts
    <2>9. e \in NodeRecords /\ Bounded(e)
        BY <2>4, <2>6, EmptyRange DEF EmptyNode, NodeRecords, Bounded
    <2> HIDE DEF range, e
    <2>10. m \in NodeRecords /\ Bounded(m)
        BY <1>3, <2>8, <2>9, AddStateTakes DEF Takes, Types
    <2>11. nodes' = Append(nodes, m) /\ cached' = cached \cup {Len(nodes) + 1}
           /\ completion' = [completion EXCEPT ![j] = UpdateFinishTimes(@, range)]
        BY <2>1 DEF range, e
    <2> HIDE DEF m
    <2>12. /\ nodes' \in Seq(NodeRecords) /\ Grown
           /\ DOMAIN nodes' = DOMAIN nodes \cup {Len(nodes) + 1}
           /\ BoundsCoverStates => BoundsCoverStates'
        BY <1>3, <2>10, <2>11, AppendNode
    <2>13. completion' \in [Jobs -> TimeIntervals \cup {None}]
        <3>1. UpdateFinishTimes(completion[j], range) \in TimeIntervals
            BY <1>3, <2>6, <2>8, FinishTimesFacts DEF Types
        <3>2. QED BY <1>3, <2>11, <3>1 DEF Types
    <2>14. /\ observed_deadline_miss' \subseteq Workers
           /\ aborted' \subseteq observed_deadline_miss' /\ observed_deadline_miss' # {}
        BY <1>3, <2>1 DEF ReportMiss, Types
    <2>15. cached' \subseteq DOMAIN nodes'
        BY <1>3, <2>11, <2>12 DEF Types
    <2> HIDE DEF missed, last, n
    <2>16. Consistent' /\ GoesOnWith(w, r.left)
        BY <1>1, <1>3, <1>4, <2>12, <2>13, <2>14, <2>15, GoOnStep
    <2>17. QED BY <1>1, <1>4, <2>7, <2>12, <2>14, <2>16
<1>7. QED BY <1>5, <1>6

LEMMA EndNodeStep ==
    ASSUME Consistent, NEW w \in Workers, EndNode(w)
    PROVE  /\ Consistent' /\ Busy(w) /\ worker[w].left = <<>> /\ ~Busy(w)'
           /\ UNCHANGED <<front, exploration_front, nodes, completion>>
           /\ IF worker[w].found_one
              THEN observed_deadline_miss' = observed_deadline_miss
              ELSE observed_deadline_miss' # {}
           /\ \A v \in Workers : v # w => worker'[v] = worker[v]
<1>1. /\ worker[w].step = "dispatch" /\ worker[w].left = <<>>
      /\ worker' = [worker EXCEPT ![w] = Waiting]
      /\ UNCHANGED <<front, exploration_front, nodes, cached, completion, explored>>
      /\ IF worker[w].found_one
         THEN UNCHANGED <<observed_deadline_miss, aborted>>
         ELSE /\ observed_deadline_miss' = observed_deadline_miss \cup {w}
              /\ aborted' = aborted \cup {w}
    BY DEF EndNode, At
<1>2. Busy(w) /\ Types /\ ~explored
    BY <1>1, AtFacts, WorkerFacts DEF Consistent, At, Steps
<1>3. observed_deadline_miss' \subseteq Workers /\ aborted' \subseteq observed_deadline_miss'
    BY <1>1, <1>2 DEF Types
<1>4. Grown /\ nodes' \in Seq(NodeRecords) /\ cached' \subseteq DOMAIN nodes'
      /\ completion' \in [Jobs -> TimeIntervals \cup {None}]
    BY <1>1, <1>2, SameNodes DEF Types
<1> DEFINE r == Waiting
<1>5. r \in {Waiting} \cup BusyRecords /\ (r # Waiting => WorkerConsistent(w)')
      /\ worker' = [worker EXCEPT ![w] = r]
    BY <1>1
<1> HIDE DEF r
<1>6. Consistent' /\ worker'[w] = r /\ \A v \in Workers : v # w => worker'[v] = worker[v]
    BY <1>1, <1>2, <1>3, <1>4, <1>5, ConsistentStep
<1>7. QED BY <1>1, <1>2, <1>6 DEF Busy, r

LEMMA EndFrontStep ==
    ASSUME Consistent, EndFront
    PROVE  /\ Consistent' /\ explored' /\ exploration_front' = {}
           /\ UNCHANGED <<front, nodes, completion, observed_deadline_miss, worker>>
           /\ \A w \in Workers : ~Busy(w)
           /\ exploration_front = {} \/ observed_deadline_miss # {}
<1>1. /\ UNCHANGED <<front, nodes, cached, completion, observed_deadline_miss, aborted, worker>>
      /\ exploration_front' = {} /\ explored' = TRUE
      /\ \A w \in Workers : worker[w].step = "pop"
      /\ exploration_front = {} \/ aborted # {}
    BY DEF EndFront, At
<1>2. Types
    BY DEF Consistent
<1>3. \A w \in Workers : ~Busy(w)
    BY <1>1, WorkerFacts, BusyIsNotWaiting
<1>4. /\ Jobs' = Jobs /\ FrontNodes' = FrontNodes /\ NodeRecords' = NodeRecords
      /\ BusyRecords' = BusyRecords
    BY <1>1 DEF Jobs, FrontNodes, NodeRecords, BusyRecords
<1>5. Types'
    BY <1>1, <1>2, <1>4 DEF Types
<1>6. \A w \in Workers : ~Busy(w)'
    BY <1>1, <1>3 DEF Busy
<1>7. Consistent'
    BY <1>1, <1>5, <1>6 DEF Consistent
<1>8. QED BY <1>1, <1>2, <1>3, <1>7 DEF Types

LEMMA StutterConsistent ==
    ASSUME Consistent, UNCHANGED vars
    PROVE  Consistent'
<1>1. /\ Jobs' = Jobs /\ FrontNodes' = FrontNodes /\ NodeRecords' = NodeRecords
      /\ BusyRecords' = BusyRecords
    BY DEF vars, Jobs, FrontNodes, NodeRecords, BusyRecords
<1>2. Types'
    BY <1>1 DEF vars, Consistent, Types
<1>3. ASSUME NEW w \in Workers, Busy(w)' PROVE WorkerConsistent(w)'
    <2>1. Busy(w)
        BY <1>3 DEF vars, Busy
    <2>2. WorkerConsistent(w)
        BY <2>1 DEF Consistent
    <2>3. QED BY <2>2 DEF vars, WorkerConsistent, KnowsNode, HoldsState, NextJobs, Dispatched, Finish
<1>4. explored' => exploration_front' = {} /\ \A w \in Workers : ~Busy(w)'
    BY DEF vars, Consistent, Busy
<1>5. QED BY <1>2, <1>3, <1>4 DEF Consistent

LEMMA NextConsistent == Consistent /\ [Next]_vars => Consistent'
<1>1. ASSUME Consistent, NEW w \in Workers, Work(w) PROVE Consistent'
    BY <1>1, PopStep, UpdateCompletionStep, FindNodeStep, NewNodeStep, CacheNodeStep,
       NewStateStep, TryMergeStep, AddStep, CountEdgeStep, CheckStep, EndNodeStep DEF Work
<1>2. QED BY <1>1, EndFrontStep, StutterConsistent DEF Next

LEMMA AlwaysConsistent == Spec => []Consistent
BY InitConsistent, NextConsistent, PTL DEF Spec

\* The types of what the workers share, at every instant.
THEOREM TypeCorrect == Spec => []TypeOK
<1>1. ASSUME Consistent PROVE TypeOK
    <2>1. Types
        BY <1>1 DEF Consistent
    <2>2. \A i \in DOMAIN nodes : Range(nodes[i].states) \subseteq TimeIntervals
        BY <2>1, NodeFacts
    <2>3. QED BY <2>1, <2>2 DEF TypeOK, Types, FrontNodes
<1>2. QED BY <1>1, AlwaysConsistent, PTL

-----------------------------------------------------------------------------
(***************************************************************************)
(* Second layer: the bounds of a node cover its states.                    *)
(***************************************************************************)
LEMMA SameBounds ==
    ASSUME BoundsCoverStates, nodes' = nodes
    PROVE  BoundsCoverStates'
BY DEF BoundsCoverStates

LEMMA NextBounds == Consistent /\ BoundsCoverStates /\ [Next]_vars => BoundsCoverStates'
<1> SUFFICES ASSUME Consistent, BoundsCoverStates, [Next]_vars PROVE BoundsCoverStates'
    OBVIOUS
<1>1. ASSUME NEW w \in Workers, Work(w) PROVE BoundsCoverStates'
    <2>1. CASE Pop(w)
        BY <2>1, PopStep, SameBounds
    <2>2. CASE UpdateCompletion(w)
        BY <2>2, UpdateCompletionStep, SameBounds
    <2>3. CASE FindNode(w) \/ CacheNode(w) \/ NewState(w)
        BY <2>3, FindNodeStep, CacheNodeStep, NewStateStep, SameBounds
    <2>4. CASE NewNode(w)
        <3>1. Bounded(EmptyNode(NextJobs(w)))
            BY <2>4, NewNodeStep, EmptyRange DEF Bounded
        <3>2. QED BY <3>1, <2>4, NewNodeStep, AppendNode DEF Consistent
    <2>5. CASE TryMerge(w)
        BY <2>5, TryMergeStep, SameBounds DEF Puts
    <2>6. CASE Add(w)
        BY <2>6, AddStep DEF Puts
    <2>7. CASE CountEdge(w)
        BY <2>7, CountEdgeStep, SameBounds
    <2>8. CASE CheckForDeadlineMisses(w)
        BY <2>8, CheckStep
    <2>9. CASE EndNode(w)
        BY <2>9, EndNodeStep, SameBounds
    <2>10. QED BY <1>1, <2>1, <2>2, <2>3, <2>4, <2>5, <2>6, <2>7, <2>8, <2>9 DEF Work
<1>2. CASE EndFront
    BY <1>2, EndFrontStep, SameBounds
<1>3. CASE UNCHANGED vars
    BY <1>3, SameBounds DEF vars
<1>4. QED BY <1>1, <1>2, <1>3 DEF Next

\* The bounds that a node keeps hold for each of its states, in whatever order the
\* workers find the node empty, merge into it and add to it.
THEOREM BoundsAlwaysCover == Spec => []BoundsCoverStates
<1>1. Init => BoundsCoverStates
    BY DEF Init, BoundsCoverStates
<1>2. QED BY <1>1, NextBounds, AlwaysConsistent, PTL DEF Spec

-----------------------------------------------------------------------------
(***************************************************************************)
(* Third layer: everything that was found comes from a dispatch.           *)
(***************************************************************************)
LEMMA SameFront ==
    ASSUME front' = front
    PROVE  /\ Jobs' = Jobs /\ FrontNodes' = FrontNodes
           /\ \A n : Given(n)' = Given(n) /\ DeadEnd(n)' = DeadEnd(n)
           /\ \A j : FinishTimes(j)' = FinishTimes(j)
           /\ MissExists' = MissExists
BY DEF Jobs, FrontNodes, Given, DeadEnd, FinishTimes, MissExists

\* A finish time is one of a dispatch.
LEMMA FinishTimeOf ==
    ASSUME NEW j, NEW s
    PROVE  s \in FinishTimes(j) <=>
               \E n \in FrontNodes : \E d \in Given(n) : d.job = j /\ s \in Range(d.states)
BY DEF FinishTimes, FrontNodes, Given, Range

LEMMA FinishTimesAreTimes ==
    ASSUME Types, NEW j \in Jobs
    PROVE  FinishTimes(j) \in SUBSET TimeIntervals
BY FinishTimeOf, FrontFacts DEF Types

\* What is under way is one of the dispatches of the node.
LEMMA DispatchedIsGiven ==
    ASSUME Consistent, NEW w \in Workers, Busy(w), WorkerSound(w), worker[w].left # <<>>
    PROVE  /\ worker[w].node \in FrontNodes
           /\ \E e \in Given(worker[w].node) :
                 e.job = Dispatched(w).job /\ Range(Dispatched(w).states) \subseteq Range(e.states)
           /\ Dispatched(w).states # <<>> => Finish(w) \in FinishTimes(Dispatched(w).job)
<1>1. worker[w].node \in FrontNodes /\ Dispatched(w) \in Range(worker[w].left)
      /\ (Dispatched(w).states # <<>> => Finish(w) \in Range(Dispatched(w).states))
    BY WorkerFacts
<1>2. PICK e \in Given(worker[w].node) :
          e.job = Dispatched(w).job /\ Range(Dispatched(w).states) \subseteq Range(e.states)
    BY <1>1 DEF WorkerSound
<1>3. QED BY <1>1, <1>2, FinishTimeOf

LEMMA NotDeadEnd ==
    ASSUME NEW n, NEW e \in Given(n), NEW s \in Range(e.states)
    PROVE  ~DeadEnd(n)
BY EmptyRange DEF DeadEnd, Given

\* The dispatches that a worker goes on with were left to it before.
LEMMA WorkerStaysSound ==
    ASSUME NEW w, WorkerSound(w), front' = front,
           worker'[w].node = worker[w].node,
           \A d \in Range(worker'[w].left) : \E e \in Range(worker[w].left) :
               e.job = d.job /\ Range(d.states) \subseteq Range(e.states),
           worker'[w].found_one => worker[w].found_one \/ ~DeadEnd(worker[w].node),
           ~worker'[w].found_one =>
               /\ ~worker[w].found_one
               /\ \A e \in Range(worker[w].left) : e.states # <<>> => e \in Range(worker'[w].left)
    PROVE  WorkerSound(w)'
<1>1. Given(worker[w].node)' = Given(worker[w].node)
      /\ DeadEnd(worker[w].node)' = DeadEnd(worker[w].node)
    BY DEF Given, DeadEnd
<1>2. ASSUME NEW d \in Range(worker'[w].left)
      PROVE  \E e \in Given(worker[w].node) :
                 e.job = d.job /\ Range(d.states) \subseteq Range(e.states)
    <2>1. PICK c \in Range(worker[w].left) :
              c.job = d.job /\ Range(d.states) \subseteq Range(c.states)
        OBVIOUS
    <2>2. PICK e \in Given(worker[w].node) :
              e.job = c.job /\ Range(c.states) \subseteq Range(e.states)
        BY DEF WorkerSound
    <2>3. QED BY <2>1, <2>2
<1>3. worker'[w].found_one => ~DeadEnd(worker[w].node)
    BY DEF WorkerSound
<1>4. ~worker'[w].found_one =>
          \A e \in Given(worker[w].node) : e.states # <<>> => e \in Range(worker'[w].left)
    BY DEF WorkerSound
<1>5. QED BY <1>1, <1>2, <1>3, <1>4 DEF WorkerSound, Given, DeadEnd

LEMMA OthersSound ==
    ASSUME Sound, front' = front, NEW v \in Workers, worker'[v] = worker[v], Busy(v)'
    PROVE  WorkerSound(v)'
<1>1. Busy(v)
    BY DEF Busy
<1>2. WorkerSound(v)
    BY <1>1 DEF Sound
<1>3. QED BY <1>2 DEF WorkerSound, Given, DeadEnd

\* The workers after a step of w.
LEMMA WorkersSound ==
    ASSUME Consistent, Sound, NEW w \in Workers, Work(w)
    PROVE  \A v \in Workers : Busy(v)' => WorkerSound(v)'
<1>1. CASE Pop(w)
    <2>1. PICK n \in exploration_front :
              Busy(w)' => /\ worker'[w].node = n /\ ~worker'[w].found_one
                          /\ worker'[w].left = front.work[n].dispatches
        BY <1>1, PopStep
    <2>2. front' = front /\ \A v \in Workers : v # w => worker'[v] = worker[v]
        BY <1>1, PopStep
    <2>3. Busy(w)' => WorkerSound(w)'
        BY <2>1, <2>2 DEF WorkerSound, Given, DeadEnd
    <2>4. QED BY <2>2, <2>3, OthersSound
<1>2. ASSUME Busy(w) PROVE WorkerSound(w)
    BY <1>2 DEF Sound
<1>3. ASSUME KeepsWork(w) PROVE \A v \in Workers : Busy(v)' => WorkerSound(v)'
    <2>1. WorkerSound(w)'
        BY <1>2, <1>3, WorkerStaysSound DEF KeepsWork
    <2>2. QED BY <2>1, <1>3, OthersSound DEF KeepsWork
<1>4. CASE FindNode(w) \/ NewNode(w) \/ CacheNode(w) \/ NewState(w) \/ TryMerge(w) \/ Add(w)
    BY <1>3, <1>4, FindNodeStep, NewNodeStep, CacheNodeStep, NewStateStep, TryMergeStep, AddStep
<1>5. CASE UpdateCompletion(w)
    <2>1. /\ Busy(w) /\ worker'[w].found_one /\ front' = front
          /\ worker'[w].node = worker[w].node /\ worker'[w].left = worker[w].left
          /\ worker[w].left # <<>> /\ Dispatched(w).states # <<>>
          /\ \A v \in Workers : v # w => worker'[v] = worker[v]
        BY <1>5, UpdateCompletionStep
    <2>2. ~DeadEnd(worker[w].node)
        <3>1. PICK e \in Given(worker[w].node) : Range(Dispatched(w).states) \subseteq Range(e.states)
            BY <2>1, <1>2, DispatchedIsGiven
        <3>2. Finish(w) \in Range(e.states)
            BY <2>1, <3>1, WorkerFacts
        <3>3. QED BY <3>2, NotDeadEnd
    <2>3. WorkerSound(w)'
        BY <1>2, <2>1, <2>2, WorkerStaysSound
    <2>4. QED BY <2>1, <2>3, OthersSound
<1>6. ASSUME NEW left, GoesOnWith(w, left), left = Tail(worker[w].left),
             worker[w].found_one \/ Dispatched(w).states = <<>>
      PROVE  \A v \in Workers : Busy(v)' => WorkerSound(v)'
    <2>1. /\ Busy(w) /\ worker[w].left # <<>> /\ front' = front
          /\ worker'[w].node = worker[w].node /\ worker'[w].left = left
          /\ worker'[w].found_one = worker[w].found_one
          /\ \A v \in Workers : v # w => worker'[v] = worker[v]
        BY <1>6 DEF GoesOnWith
    <2>2. Range(worker[w].left) = {Dispatched(w)} \cup Range(left)
        <3>1. worker[w].left \in Seq(Dispatches(Jobs))
            BY <2>1, WorkerFacts
        <3>2. Range(worker[w].left) = {Head(worker[w].left)} \cup Range(Tail(worker[w].left))
            BY <3>1, <2>1, HeadTailRange
        <3>3. QED BY <3>2, <1>6 DEF Dispatched
    <2>3. WorkerSound(w)'
        BY <1>2, <1>6, <2>1, <2>2, WorkerStaysSound
    <2>4. QED BY <2>1, <2>3, OthersSound
<1>7. CASE CountEdge(w)
    <2>1. /\ Dispatched(w).states # <<>> /\ worker[w].step = "edge"
          /\ \/ GoesOnWith(w, Tail(worker[w].left))
             \/ GoesOnWith(w, <<NextState(w)>> \o Tail(worker[w].left))
        BY <1>7, CountEdgeStep
    <2>2. Busy(w) /\ worker[w].left # <<>>
        BY <2>1 DEF GoesOnWith
    <2>3. worker[w].found_one
        BY <2>1, <2>2, WorkerFacts DEF WorkerConsistent
    <2>4. CASE GoesOnWith(w, Tail(worker[w].left))
        BY <1>6, <2>3, <2>4
    <2>5. CASE GoesOnWith(w, <<NextState(w)>> \o Tail(worker[w].left))
        <3> DEFINE left == <<NextState(w)>> \o Tail(worker[w].left)
        <3>1. /\ worker[w].left \in Seq(Dispatches(Jobs)) /\ Dispatched(w) \in Dispatches(Jobs)
              /\ Dispatched(w).states \in Seq(TimeIntervals)
            BY <2>2, WorkerFacts
        <3>2. /\ Tail(worker[w].left) \in Seq(Dispatches(Jobs))
              /\ Range(worker[w].left) = {Dispatched(w)} \cup Range(Tail(worker[w].left))
            BY <2>2, <3>1, HeadTailRange DEF Dispatched
        <3>3. /\ Tail(Dispatched(w).states) \in Seq(TimeIntervals)
              /\ Range(Tail(Dispatched(w).states)) \subseteq Range(Dispatched(w).states)
            BY <2>1, <3>1, HeadTailRange
        <3>4. /\ NextState(w) \in Dispatches(Jobs) /\ NextState(w).job = Dispatched(w).job
              /\ NextState(w).states = Tail(Dispatched(w).states)
            BY <3>1, <3>3 DEF NextState, Dispatches
        <3>5. Range(left) = {NextState(w)} \cup Range(Tail(worker[w].left))
            <4> DEFINE e == NextState(w)
                       t == Tail(worker[w].left)
            <4>1. e \in Dispatches(Jobs) /\ t \in Seq(Dispatches(Jobs))
                BY <3>2, <3>4
            <4> HIDE DEF e, t
            <4>2. Range(<<e>> \o t) = {e} \cup Range(t)
                BY <4>1, ConsRange
            <4>3. QED BY <4>2 DEF e, t
        <3>6. /\ front' = front
              /\ worker'[w].node = worker[w].node /\ worker'[w].left = left
              /\ worker'[w].found_one = worker[w].found_one
              /\ \A v \in Workers : v # w => worker'[v] = worker[v]
            BY <2>5 DEF GoesOnWith
        <3> HIDE DEF left
        <3>7. \A d \in Range(left) : \E e \in Range(worker[w].left) :
                  e.job = d.job /\ Range(d.states) \subseteq Range(e.states)
            BY <3>2, <3>3, <3>4, <3>5
        <3>8. WorkerSound(w)'
            BY <1>2, <2>2, <2>3, <3>6, <3>7, WorkerStaysSound
        <3>9. QED BY <3>6, <3>8, OthersSound
    <2>6. QED BY <2>1, <2>4, <2>5
<1>8. CASE CheckForDeadlineMisses(w)
    BY <1>6, <1>8, CheckStep
<1>9. CASE EndNode(w)
    BY <1>9, EndNodeStep, OthersSound
<1>10. QED BY <1>1, <1>4, <1>5, <1>7, <1>8, <1>9 DEF Work

LEMMA ShownMissIsReal ==
    ASSUME Consistent, Sound, NEW w \in Workers, ShowsMiss(w)
    PROVE  MissExists
<1> SUFFICES ASSUME ~MissExists PROVE FALSE
    OBVIOUS
<1> DEFINE i == worker[w].next
<1>1. PICK last \in Range(nodes[i].states) :
          \E j \in Jobs \ nodes[i].scheduled : front.deadline[j] < last.min
    BY DEF ShowsMiss
<1>2. PICK j \in Jobs \ nodes[i].scheduled : front.deadline[j] < last.min
    BY <1>1
<1>3. i \in DOMAIN nodes
    BY DEF ShowsMiss
<1> HIDE DEF i
<1>4. IsFinish(i, last)
    BY <1>1, <1>3 DEF Sound
<1>a. PICK n \in FrontNodes : \E d \in Given(n) : \E s \in Range(d.states) :
          nodes[i].scheduled = n \cup {d.job} /\ last.min <= s.min
    BY <1>4 DEF IsFinish
<1>b. PICK d \in Given(n) : \E s \in Range(d.states) :
          nodes[i].scheduled = n \cup {d.job} /\ last.min <= s.min
    BY <1>a
<1>5. PICK s \in Range(d.states) :
          nodes[i].scheduled = n \cup {d.job} /\ last.min <= s.min
    BY <1>b
<1>6. last \in TimeIntervals /\ s \in TimeIntervals /\ front.deadline[j] \in Nat
    BY <1>1, <1>2, <1>3, <1>5, NodeFacts, FrontFacts DEF Consistent, Types
<1>7. front.deadline[j] < s.min
    BY <1>2, <1>5, <1>6, IntervalFacts
<1>8. j \in Jobs \ (n \cup {d.job})
    BY <1>2, <1>5
<1>9. \E k \in FrontNodes : \E e \in Given(k) : \E t \in Range(e.states), h \in Jobs \ (k \cup {e.job}) :
          t.min > front.deadline[h]
    <2>1. s.min > front.deadline[j]
        BY <1>6, <1>7, IntervalFacts
    <2>2. QED BY <2>1, <1>5, <1>8
<1>10. QED BY <1>9 DEF MissExists, FrontNodes, Given

LEMMA MissStaysReal ==
    ASSUME Consistent, Sound, NEW w \in Workers, Work(w)
    PROVE  MissIsReal'
<1>1. front' = front
    BY PopStep, UpdateCompletionStep, FindNodeStep, NewNodeStep, CacheNodeStep, NewStateStep,
       TryMergeStep, AddStep, CountEdgeStep, CheckStep, EndNodeStep DEF Work, KeepsWork, GoesOnWith
<1>2. MissExists' = MissExists
    BY <1>1, SameFront
<1>3. observed_deadline_miss # {} => MissExists
    BY DEF Sound, MissIsReal
<1>4. CASE observed_deadline_miss' = observed_deadline_miss
    BY <1>2, <1>3, <1>4 DEF MissIsReal
<1>5. CASE UpdateCompletion(w)
    <2>1. CASE ExceedsDeadline(Finish(w), front.deadline[Dispatched(w).job])
        <3>1. Busy(w) /\ worker[w].left # <<>> /\ Dispatched(w).states # <<>>
            BY <1>5, UpdateCompletionStep
        <3>2. WorkerSound(w)
            BY <3>1 DEF Sound
        <3>3. Finish(w) \in FinishTimes(Dispatched(w).job) /\ Dispatched(w).job \in Jobs
            BY <3>1, <3>2, DispatchedIsGiven, WorkerFacts
        <3>4. MissExists
            BY <2>1, <3>3 DEF MissExists, ExceedsDeadline
        <3>5. QED BY <1>2, <3>4 DEF MissIsReal
    <2>2. CASE ~ExceedsDeadline(Finish(w), front.deadline[Dispatched(w).job])
        BY <1>4, <1>5, <2>2, UpdateCompletionStep
    <2>3. QED BY <2>1, <2>2
<1>6. CASE CheckForDeadlineMisses(w)
    <2>1. CASE ShowsMiss(w)
        BY <1>2, <2>1, ShownMissIsReal DEF MissIsReal
    <2>2. QED BY <1>4, <1>6, <2>1, CheckStep
<1>7. CASE EndNode(w)
    <2>1. CASE ~worker[w].found_one
        <3>1. Busy(w) /\ worker[w].left = <<>>
            BY <1>7, EndNodeStep
        <3>2. WorkerSound(w) /\ worker[w].node \in FrontNodes
            BY <3>1, WorkerFacts DEF Sound
        <3>3. \A e \in Given(worker[w].node) : e.states = <<>>
            BY <2>1, <3>1, <3>2, EmptyRange DEF WorkerSound
        <3>4. DeadEnd(worker[w].node)
            BY <3>3 DEF DeadEnd, Given
        <3>5. MissExists
            BY <3>2, <3>4 DEF MissExists, FrontNodes
        <3>6. QED BY <1>2, <3>5 DEF MissIsReal
    <2>2. CASE worker[w].found_one
        BY <1>4, <1>7, <2>2, EndNodeStep
    <2>3. QED BY <2>1, <2>2
<1>8. CASE Pop(w) \/ FindNode(w) \/ NewNode(w) \/ CacheNode(w) \/ NewState(w) \/ TryMerge(w)
           \/ Add(w) \/ CountEdge(w)
    BY <1>4, <1>8, PopStep, FindNodeStep, NewNodeStep, CacheNodeStep, NewStateStep, TryMergeStep,
       AddStep, CountEdgeStep DEF KeepsWork
<1>9. QED BY <1>5, <1>6, <1>7, <1>8 DEF Work

LEMMA StatesStayFinishes ==
    ASSUME Consistent, Sound, NEW w \in Workers, Work(w), ~MissExists
    PROVE  \A i \in DOMAIN nodes' : \A t \in Range(nodes'[i].states) : IsFinish(i, t)'
<1>1. front' = front
    BY PopStep, UpdateCompletionStep, FindNodeStep, NewNodeStep, CacheNodeStep, NewStateStep,
       TryMergeStep, AddStep, CountEdgeStep, CheckStep, EndNodeStep DEF Work, KeepsWork, GoesOnWith
<1>2. \A i \in DOMAIN nodes : \A t \in Range(nodes[i].states) : IsFinish(i, t)
    BY DEF Sound
<1>3. ASSUME NEW i \in DOMAIN nodes', NEW t \in Range(nodes'[i].states),
             NEW n \in FrontNodes, NEW d \in Given(n), NEW s \in Range(d.states),
             nodes'[i].scheduled = n \cup {d.job}, t.min <= s.min
      PROVE  IsFinish(i, t)'
    BY <1>1, <1>3 DEF IsFinish, FrontNodes, Given
<1>4. ASSUME NEW i \in DOMAIN nodes, NEW t \in Range(nodes[i].states), i \in DOMAIN nodes',
             nodes'[i].scheduled = nodes[i].scheduled, t \in Range(nodes'[i].states)
      PROVE  IsFinish(i, t)'
    <2>1. IsFinish(i, t)
        BY <1>2
    <2>2. PICK n \in FrontNodes : \E d \in Given(n) : \E s \in Range(d.states) :
              nodes[i].scheduled = n \cup {d.job} /\ t.min <= s.min
        BY <2>1 DEF IsFinish
    <2>3. PICK d \in Given(n) : \E s \in Range(d.states) :
              nodes[i].scheduled = n \cup {d.job} /\ t.min <= s.min
        BY <2>2
    <2>4. PICK s \in Range(d.states) : nodes[i].scheduled = n \cup {d.job} /\ t.min <= s.min
        BY <2>3
    <2>5. nodes'[i].scheduled = n \cup {d.job}
        BY <1>4, <2>4
    <2>6. QED BY <1>3, <1>4, <2>4, <2>5
<1>5. CASE nodes' = nodes
    BY <1>4, <1>5
<1>6. CASE NewNode(w)
    <2>1. /\ nodes' = Append(nodes, EmptyNode(NextJobs(w)))
          /\ EmptyNode(NextJobs(w)) \in NodeRecords /\ EmptyNode(NextJobs(w)).states = <<>>
        BY <1>6, NewNodeStep
    <2>2. /\ DOMAIN nodes' = DOMAIN nodes \cup {Len(nodes) + 1}
          /\ nodes'[Len(nodes) + 1] = EmptyNode(NextJobs(w))
          /\ \A k \in DOMAIN nodes : nodes'[k] = nodes[k]
        BY <2>1, AppendNode DEF Consistent
    <2>3. Range(nodes'[Len(nodes) + 1].states) = {}
        BY <2>1, <2>2, EmptyRange
    <2>4. QED BY <1>4, <2>2, <2>3
<1>7. CASE Puts(w) /\ KeepsWork(w)
    <2>1. /\ DOMAIN nodes' = DOMAIN nodes
          /\ nodes'[worker[w].next].scheduled = NextJobs(w)
          /\ nodes[worker[w].next].scheduled = NextJobs(w)
          /\ \A k \in DOMAIN nodes : k # worker[w].next => nodes'[k] = nodes[k]
          /\ \A u \in Range(nodes'[worker[w].next].states) :
                 u \in Range(nodes[worker[w].next].states) \/ u.min <= Finish(w).min
        BY <1>7 DEF Puts
    <2>2. Busy(w) /\ worker[w].left # <<>> /\ Dispatched(w).states # <<>> /\ WorkerSound(w)
        BY <1>7, WorkerFacts DEF KeepsWork, WorkerConsistent, Sound
    <2>3. PICK e \in Given(worker[w].node) :
              e.job = Dispatched(w).job /\ Range(Dispatched(w).states) \subseteq Range(e.states)
        BY <2>2, DispatchedIsGiven
    <2>4. worker[w].node \in FrontNodes /\ Finish(w) \in Range(e.states)
        BY <2>2, <2>3, WorkerFacts
    <2>5. NextJobs(w) = worker[w].node \cup {e.job}
        BY <2>3 DEF NextJobs
    <2>6. ASSUME NEW i \in DOMAIN nodes, NEW t \in Range(nodes'[i].states) PROVE IsFinish(i, t)'
        <3>1. CASE i # worker[w].next \/ t \in Range(nodes[i].states)
            BY <1>4, <2>1, <2>6, <3>1
        <3>2. CASE i = worker[w].next /\ t \notin Range(nodes[i].states)
            <4>1. t.min <= Finish(w).min /\ nodes'[i].scheduled = worker[w].node \cup {e.job}
                BY <2>1, <2>5, <2>6, <3>2
            <4>2. QED BY <1>3, <2>1, <2>4, <2>6, <4>1
        <3>3. QED BY <3>1, <3>2
    <2>7. QED BY <2>1, <2>6
<1>8. CASE Pop(w) \/ UpdateCompletion(w) \/ FindNode(w) \/ CacheNode(w) \/ NewState(w)
           \/ CountEdge(w) \/ EndNode(w)
    BY <1>5, <1>8, PopStep, UpdateCompletionStep, FindNodeStep, CacheNodeStep, NewStateStep,
       CountEdgeStep, EndNodeStep
<1>9. CASE TryMerge(w) \/ Add(w)
    BY <1>5, <1>7, <1>9, TryMergeStep, AddStep
<1>10. CASE CheckForDeadlineMisses(w)
    BY <1>5, <1>10, CheckStep, ShownMissIsReal
<1>11. QED BY <1>6, <1>8, <1>9, <1>10 DEF Work

LEMMA NextSound == Consistent /\ Sound /\ [Next]_vars => Sound'
<1> SUFFICES ASSUME Consistent, Sound, [Next]_vars PROVE Sound'
    OBVIOUS
<1>1. ASSUME NEW w \in Workers, Work(w) PROVE Sound'
    <2>1. front' = front
        BY <1>1, PopStep, UpdateCompletionStep, FindNodeStep, NewNodeStep, CacheNodeStep,
           NewStateStep, TryMergeStep, AddStep, CountEdgeStep, CheckStep, EndNodeStep
           DEF Work, KeepsWork, GoesOnWith
    <2>2. MissExists' = MissExists
        BY <2>1, SameFront
    <2>3. QED BY <1>1, <2>2, WorkersSound, MissStaysReal, StatesStayFinishes DEF Sound
<1>2. ASSUME UNCHANGED <<front, nodes, observed_deadline_miss, worker>> PROVE Sound'
    <2>1. MissExists' = MissExists
        BY <1>2, SameFront
    <2>2. MissIsReal'
        BY <1>2, <2>1 DEF Sound, MissIsReal
    <2>3. \A w \in Workers : Busy(w)' => WorkerSound(w)'
        BY <1>2, OthersSound
    <2>4. ~MissExists =>
              \A i \in DOMAIN nodes' : \A t \in Range(nodes'[i].states) : IsFinish(i, t)'
        BY <1>2 DEF Sound, IsFinish, FrontNodes, Given
    <2>5. QED BY <2>1, <2>2, <2>3, <2>4 DEF Sound
<1>3. CASE EndFront
    BY <1>2, <1>3, EndFrontStep
<1>4. CASE UNCHANGED vars
    BY <1>2, <1>4 DEF vars
<1>5. QED BY <1>1, <1>3, <1>4 DEF Next

LEMMA AlwaysSound == Spec => []Sound
<1>1. Init => Sound
    BY DEF Init, Sound, MissIsReal, Busy
<1>2. QED BY <1>1, NextSound, AlwaysConsistent, PTL DEF Spec

\* A miss that any worker reports is one: the state of another worker that the
\* check for deadline misses happens to look at is never taken for more than it is.
THEOREM ReportedMissIsReal == Spec => []MissIsReal
BY AlwaysSound, PTL DEF Sound

-----------------------------------------------------------------------------
(***************************************************************************)
(* Fourth layer: as long as no miss was observed, nothing is lost.         *)
(***************************************************************************)
TimesGrown ==
    \A j \in Jobs, s \in TimeIntervals :
        ContainsInterval(completion[j], s) => ContainsInterval(completion'[j], s)

LEMMA SameTimes ==
    ASSUME completion' = completion
    PROVE  TimesGrown
BY DEF TimesGrown

LEMMA StaysReported ==
    ASSUME Types, front' = front, TimesGrown, NEW j \in Jobs, NEW s \in TimeIntervals,
           Reported(j, s)
    PROVE  ContainsInterval(completion'[j], s) /\ s.max <= front'.deadline[j]
BY DEF Reported, TimesGrown

LEMMA StaysStored ==
    ASSUME Types, nodes' \in Seq(NodeRecords), Grown, NEW n, NEW j, NEW s \in TimeIntervals,
           Stored(n, j, s)
    PROVE  \E i \in DOMAIN nodes' :
               /\ nodes'[i].scheduled = n \cup {j}
               /\ \E u \in Range(nodes'[i].states) : ContainsInterval(u, s)
<1>1. PICK i \in DOMAIN nodes : nodes[i].scheduled = n \cup {j} /\ HoldsState(i, s)
    BY DEF Stored
<1>2. \E u \in Range(nodes'[i].states) : ContainsInterval(u, s)
    BY <1>1, StillHolds
<1>3. i \in DOMAIN nodes' /\ nodes'[i].scheduled = n \cup {j}
    BY <1>1 DEF Grown
<1>4. QED BY <1>2, <1>3

\* What w does with the dispatches that were left to it: it still has them, or
\* they have been taken care of.
TakesCareOf(w, n) ==
    /\ \A e \in Range(worker[w].left) : \A s \in Range(e.states) :
           \/ /\ Busy(w)' /\ worker'[w].node = n
              /\ \E d \in Range(worker'[w].left) : d.job = e.job /\ s \in Range(d.states)
           \/ Stored(n, e.job, s) /\ Reported(e.job, s)
    /\ ~worker[w].found_one =>
           \/ Busy(w)' /\ worker'[w].node = n /\ ~worker'[w].found_one
           \/ ~DeadEnd(n)

LEMMA StaysAccounted ==
    ASSUME Consistent, front' = front, nodes' \in Seq(NodeRecords), Grown, TimesGrown,
           NEW w \in Workers, \A v \in Workers : v # w => worker'[v] = worker[v],
           NEW n \in FrontNodes, Accounted(n),
           Busy(w) /\ worker[w].node = n => TakesCareOf(w, n)
    PROVE  Accounted(n)'
<1>1. Types
    BY DEF Consistent
<1>2. ASSUME NEW d \in Given(n), NEW s \in Range(d.states),
             Stored(n, d.job, s), Reported(d.job, s)
      PROVE  Stored(n, d.job, s)' /\ Reported(d.job, s)'
    <2>1. d.job \in Jobs /\ s \in TimeIntervals
        BY <1>1, FrontFacts DEF Types
    <2>2. \E i \in DOMAIN nodes' :
              /\ nodes'[i].scheduled = n \cup {d.job}
              /\ \E u \in Range(nodes'[i].states) : ContainsInterval(u, s)
        BY <1>1, <1>2, <2>1, StaysStored
    <2>3. ContainsInterval(completion'[d.job], s) /\ s.max <= front'.deadline[d.job]
        BY <1>1, <1>2, <2>1, StaysReported
    <2>4. QED BY <2>2, <2>3 DEF Stored, HoldsState, Reported
<1>3. ASSUME NEW d \in Given(n), NEW s \in Range(d.states)
      PROVE  Pending(n, d.job, s)' \/ (Stored(n, d.job, s)' /\ Reported(d.job, s)')
    <2>1. CASE Stored(n, d.job, s) /\ Reported(d.job, s)
        BY <1>2, <1>3, <2>1
    <2>2. CASE Pending(n, d.job, s)
        <3>1. PICK v \in Workers :
                  /\ Busy(v) /\ worker[v].node = n
                  /\ \E e \in Range(worker[v].left) : e.job = d.job /\ s \in Range(e.states)
            BY <2>2 DEF Pending
        <3>2. CASE v # w
            <4>1. worker'[v] = worker[v]
                BY <3>2
            <4>2. QED BY <3>1, <4>1 DEF Pending, Busy
        <3>3. CASE v = w
            <4>1. PICK e \in Range(worker[w].left) : e.job = d.job /\ s \in Range(e.states)
                BY <3>1, <3>3
            <4>2. \/ /\ Busy(w)' /\ worker'[w].node = n
                     /\ \E c \in Range(worker'[w].left) : c.job = e.job /\ s \in Range(c.states)
                  \/ Stored(n, e.job, s) /\ Reported(e.job, s)
                BY <3>1, <3>3, <4>1 DEF TakesCareOf
            <4>3. CASE Stored(n, e.job, s) /\ Reported(e.job, s)
                BY <4>1, <4>3, <2>1
            <4>4. CASE /\ Busy(w)' /\ worker'[w].node = n
                       /\ \E c \in Range(worker'[w].left) : c.job = e.job /\ s \in Range(c.states)
                BY <4>1, <4>4 DEF Pending, Busy
            <4>5. QED BY <4>2, <4>3, <4>4
        <3>4. QED BY <3>2, <3>3
    <2>3. QED BY <2>1, <2>2 DEF Accounted
<1>4. ASSUME DeadEnd(n)
      PROVE  \E v \in Workers : Busy(v)' /\ worker'[v].node = n /\ ~worker'[v].found_one
    <2>1. PICK v \in Workers : Busy(v) /\ worker[v].node = n /\ ~worker[v].found_one
        BY <1>4 DEF Accounted
    <2>2. CASE v # w
        BY <2>1, <2>2 DEF Busy
    <2>3. CASE v = w
        BY <1>4, <2>1, <2>3 DEF TakesCareOf
    <2>4. QED BY <2>2, <2>3
<1>5. Given(n)' = Given(n) /\ DeadEnd(n)' = DeadEnd(n)
    BY SameFront
<1>6. \A d \in Given(n)' : \A s \in Range(d.states) :
          Pending(n, d.job, s)' \/ (Stored(n, d.job, s)' /\ Reported(d.job, s)')
    BY <1>3, <1>5
<1>7. QED BY <1>4, <1>5, <1>6 DEF Accounted

\* A node that w takes is accounted for by w.
LEMMA TakenIsAccounted ==
    ASSUME front' = front, NEW w \in Workers, NEW n \in FrontNodes,
           Busy(w)', worker'[w].node = n, ~worker'[w].found_one,
           worker'[w].left = front.work[n].dispatches
    PROVE  Accounted(n)'
<1>1. Given(n)' = Given(n) /\ Given(n) = Range(worker'[w].left)
    BY SameFront DEF Given
<1>2. ASSUME NEW d \in Given(n), NEW s \in Range(d.states) PROVE Pending(n, d.job, s)'
    BY <1>1 DEF Pending, Busy
<1>3. \E v \in Workers : Busy(v)' /\ worker'[v].node = n /\ ~worker'[v].found_one
    OBVIOUS
<1>4. \A d \in Given(n)' : \A s \in Range(d.states) :
          Pending(n, d.job, s)' \/ (Stored(n, d.job, s)' /\ Reported(d.job, s)')
    BY <1>1, <1>2
<1>5. QED BY <1>3, <1>4 DEF Accounted

\* What the step of a worker does as long as no miss is observed.
LEMMA WithoutMiss ==
    ASSUME Consistent, NEW w \in Workers, Work(w), observed_deadline_miss' = {}
    PROVE  /\ observed_deadline_miss = {} /\ front' = front
           /\ Consistent' /\ nodes' \in Seq(NodeRecords) /\ Grown /\ TimesGrown
           /\ \A v \in Workers : v # w => worker'[v] = worker[v]
           /\ completion' = completion \/ UpdateCompletion(w)
           /\ exploration_front' = exploration_front \/ Pop(w)
<1>1. CASE Pop(w)
    BY <1>1, PopStep, SameNodes, SameTimes DEF Consistent, Types
<1>2. CASE UpdateCompletion(w)
    <2>1. /\ Consistent' /\ UNCHANGED <<front, exploration_front, nodes>>
          /\ completion' = [completion EXCEPT ![Dispatched(w).job] =
                                UpdateFinishTimes(@, Finish(w))]
          /\ observed_deadline_miss' = observed_deadline_miss
          /\ \A v \in Workers : v # w => worker'[v] = worker[v]
          /\ Busy(w) /\ worker[w].left # <<>> /\ Dispatched(w).states # <<>>
        BY <1>2, UpdateCompletionStep
    <2>2. Dispatched(w).job \in Jobs /\ Finish(w) \in TimeIntervals
        BY <2>1, WorkerFacts
    <2>3. TimesGrown
        <3>1. ASSUME NEW j \in Jobs, NEW s \in TimeIntervals, ContainsInterval(completion[j], s)
              PROVE  ContainsInterval(completion'[j], s)
            <4>1. completion \in [Jobs -> TimeIntervals \cup {None}]
                BY DEF Consistent, Types
            <4>2. CASE j = Dispatched(w).job
                <5>1. completion'[j] = UpdateFinishTimes(completion[j], Finish(w))
                    BY <2>1, <4>1, <4>2
                <5>2. completion[j] \in TimeIntervals \cup {None}
                    BY <4>1
                <5>3. QED BY <3>1, <5>1, <5>2, <2>2, FinishTimesFacts
            <4>3. CASE j # Dispatched(w).job
                BY <2>1, <3>1, <4>1, <4>3
            <4>4. QED BY <4>2, <4>3
        <3>2. QED BY <3>1 DEF TimesGrown
    <2>4. QED BY <1>2, <2>1, <2>3, SameNodes DEF Consistent, Types
<1>3. ASSUME Consistent', KeepsWork(w), Grown, nodes' \in Seq(NodeRecords)
      PROVE  /\ observed_deadline_miss = {} /\ front' = front /\ TimesGrown
             /\ \A v \in Workers : v # w => worker'[v] = worker[v]
             /\ completion' = completion /\ exploration_front' = exploration_front
    BY <1>3, SameTimes DEF KeepsWork
<1>4. ASSUME Consistent', front' = front PROVE nodes' \in Seq(NodeRecords)
    <2>1. nodes' \in Seq(NodeRecords')
        BY <1>4 DEF Consistent, Types
    <2>2. NodeRecords' = NodeRecords
        BY <1>4 DEF NodeRecords, Jobs
    <2>3. QED BY <2>1, <2>2
<1>5. CASE FindNode(w) \/ CacheNode(w) \/ NewState(w)
    BY <1>3, <1>5, FindNodeStep, CacheNodeStep, NewStateStep, SameNodes DEF Consistent, Types
<1>6. CASE NewNode(w)
    <2>1. Consistent' /\ KeepsWork(w) /\ Grown /\ nodes' \in Seq(NodeRecords)
        BY <1>6, NewNodeStep, AppendNode DEF Consistent
    <2>2. QED BY <2>1, <1>3
<1>7. CASE TryMerge(w) \/ Add(w)
    <2>1. Consistent' /\ KeepsWork(w) /\ Grown
        BY <1>7, TryMergeStep, AddStep
    <2>2. nodes' \in Seq(NodeRecords)
        BY <1>4, <2>1 DEF KeepsWork
    <2>3. QED BY <1>3, <2>1, <2>2
<1>8. CASE CountEdge(w)
    BY <1>8, CountEdgeStep, SameNodes, SameTimes DEF Consistent, Types, GoesOnWith
<1>9. CASE CheckForDeadlineMisses(w)
    BY <1>9, CheckStep, SameNodes, SameTimes DEF Consistent, Types, GoesOnWith
<1>10. CASE EndNode(w)
    BY <1>10, EndNodeStep, SameNodes, SameTimes DEF Consistent, Types
<1>11. QED BY <1>1, <1>2, <1>5, <1>6, <1>7, <1>8, <1>9, <1>10 DEF Work

LEMMA NodesStayAccounted ==
    ASSUME Consistent, Sound, Complete, NEW w \in Workers, Work(w), observed_deadline_miss' = {}
    PROVE  \A n \in FrontNodes \ exploration_front' : Accounted(n)'
<1>1. /\ observed_deadline_miss = {} /\ front' = front
      /\ nodes' \in Seq(NodeRecords) /\ Grown /\ TimesGrown
      /\ \A v \in Workers : v # w => worker'[v] = worker[v]
    BY WithoutMiss
<1>2. \A n \in FrontNodes \ exploration_front : Accounted(n)
    BY <1>1 DEF Complete
<1>3. ASSUME exploration_front' = exploration_front,
             NEW n \in FrontNodes \ exploration_front',
             Busy(w) /\ worker[w].node = n => TakesCareOf(w, n)
      PROVE  Accounted(n)'
    BY <1>1, <1>2, <1>3, StaysAccounted
<1>4. CASE Pop(w)
    <2>1. PICK n \in exploration_front :
              /\ exploration_front' = exploration_front \ {n} /\ ~Busy(w)
              /\ Busy(w)' /\ worker'[w].node = n /\ ~worker'[w].found_one
              /\ worker'[w].left = front.work[n].dispatches
        BY <1>1, <1>4, PopStep
    <2>2. n \in FrontNodes
        BY DEF Consistent, Types
    <2>3. Accounted(n)'
        BY <1>1, <2>1, <2>2, TakenIsAccounted
    <2>4. ASSUME NEW k \in FrontNodes \ exploration_front PROVE Accounted(k)'
        BY <1>1, <1>2, <2>1, StaysAccounted
    <2>5. QED BY <2>1, <2>3, <2>4
<1>5. CASE UpdateCompletion(w)
    <2>1. /\ Busy(w)' /\ worker'[w].found_one /\ worker[w].left # <<>> /\ Busy(w)
          /\ worker'[w].node = worker[w].node /\ worker'[w].left = worker[w].left
          /\ exploration_front' = exploration_front /\ Dispatched(w).states # <<>>
        BY <1>5, UpdateCompletionStep
    <2>2. ~DeadEnd(worker[w].node)
        <3>1. PICK e \in Given(worker[w].node) : Range(Dispatched(w).states) \subseteq Range(e.states)
            BY <2>1, DispatchedIsGiven DEF Sound
        <3>2. Finish(w) \in Range(e.states)
            BY <2>1, <3>1, WorkerFacts
        <3>3. QED BY <3>2, NotDeadEnd
    <2>3. TakesCareOf(w, worker[w].node)
        BY <2>1, <2>2 DEF TakesCareOf
    <2>4. QED BY <1>3, <2>1, <2>3
<1>6. ASSUME KeepsWork(w) PROVE \A n \in FrontNodes \ exploration_front' : Accounted(n)'
    <2>1. TakesCareOf(w, worker[w].node)
        BY <1>6 DEF TakesCareOf, KeepsWork
    <2>2. QED BY <1>3, <1>6, <2>1 DEF KeepsWork
<1>7. CASE FindNode(w) \/ NewNode(w) \/ CacheNode(w) \/ NewState(w) \/ TryMerge(w) \/ Add(w)
    BY <1>6, <1>7, FindNodeStep, NewNodeStep, CacheNodeStep, NewStateStep, TryMergeStep, AddStep
<1>8. ASSUME Busy(w), worker[w].left # <<>>
      PROVE  /\ worker[w].left \in Seq(Dispatches(Jobs))
             /\ Tail(worker[w].left) \in Seq(Dispatches(Jobs))
             /\ Range(worker[w].left) = {Dispatched(w)} \cup Range(Tail(worker[w].left))
             /\ Dispatched(w).states \in Seq(TimeIntervals) /\ Dispatched(w) \in Dispatches(Jobs)
    BY <1>8, WorkerFacts, HeadTailRange DEF Dispatched
<1>9. CASE CountEdge(w)
    <2> DEFINE left == <<NextState(w)>> \o Tail(worker[w].left)
    <2>1. /\ GoesOnWith(w, left) /\ Dispatched(w).states # <<>> /\ worker[w].step = "edge"
        BY <1>1, <1>9, CountEdgeStep
    <2>2. /\ Busy(w) /\ Busy(w)' /\ worker[w].left # <<>> /\ worker'[w].node = worker[w].node
          /\ worker'[w].left = left /\ exploration_front' = exploration_front
        BY <2>1 DEF GoesOnWith
    <2>3. worker[w].found_one /\ KnowsNode(w) /\ HoldsState(worker[w].next, Finish(w))
        BY <2>1, <2>2, WorkerFacts DEF WorkerConsistent, StepsWithNode
    <2>4. Stored(worker[w].node, Dispatched(w).job, Finish(w))
        BY <2>3 DEF Stored, KnowsNode, NextJobs
    <2>5. Reported(Dispatched(w).job, Finish(w))
        BY <1>1, <2>1, <2>2 DEF Complete
    <2>6. /\ NextState(w).job = Dispatched(w).job
          /\ NextState(w).states = Tail(Dispatched(w).states)
          /\ NextState(w) \in Dispatches(Jobs)
        <3>1. Tail(Dispatched(w).states) \in Seq(TimeIntervals)
            BY <1>8, <2>1, <2>2, HeadTailRange
        <3>2. QED BY <1>8, <2>2, <3>1 DEF NextState, Dispatches
    <2>7. Range(Dispatched(w).states) = {Finish(w)} \cup Range(NextState(w).states)
        BY <1>8, <2>1, <2>2, <2>6, HeadTailRange DEF Finish
    <2>8. Range(left) = {NextState(w)} \cup Range(Tail(worker[w].left))
        <3> DEFINE e == NextState(w)
                   t == Tail(worker[w].left)
        <3>1. e \in Dispatches(Jobs) /\ t \in Seq(Dispatches(Jobs))
            BY <1>8, <2>2, <2>6
        <3> HIDE DEF e, t
        <3>2. Range(<<e>> \o t) = {e} \cup Range(t)
            BY <3>1, ConsRange
        <3>3. QED BY <3>2 DEF e, t
    <2> HIDE DEF left
    <2>9. ASSUME NEW e \in Range(worker[w].left), NEW s \in Range(e.states)
          PROVE  \/ \E d \in Range(left) : d.job = e.job /\ s \in Range(d.states)
                 \/ Stored(worker[w].node, e.job, s) /\ Reported(e.job, s)
        <3>1. CASE e = Dispatched(w)
            <4>1. CASE s = Finish(w)
                BY <2>4, <2>5, <3>1, <4>1
            <4>2. CASE s \in Range(NextState(w).states)
                BY <2>6, <2>8, <3>1, <4>2
            <4>3. QED BY <2>7, <2>9, <3>1, <4>1, <4>2
        <3>2. CASE e \in Range(Tail(worker[w].left))
            BY <2>8, <2>9, <3>2
        <3>3. QED BY <1>8, <2>2, <2>9, <3>1, <3>2
    <2>10. TakesCareOf(w, worker[w].node)
        BY <2>2, <2>3, <2>9 DEF TakesCareOf
    <2>11. QED BY <1>3, <2>2, <2>10
<1>10. CASE CheckForDeadlineMisses(w)
    <2>1. /\ Busy(w) /\ Busy(w)' /\ worker[w].left # <<>> /\ worker'[w].node = worker[w].node
          /\ worker'[w].left = Tail(worker[w].left) /\ exploration_front' = exploration_front
          /\ worker'[w].found_one = worker[w].found_one /\ Dispatched(w).states = <<>>
        BY <1>10, CheckStep DEF GoesOnWith
    <2>2. ASSUME NEW e \in Range(worker[w].left), NEW s \in Range(e.states)
          PROVE  e \in Range(worker'[w].left)
        BY <1>8, <2>1, <2>2, EmptyRange
    <2>3. TakesCareOf(w, worker[w].node)
        BY <2>1, <2>2 DEF TakesCareOf
    <2>4. QED BY <1>3, <2>1, <2>3
<1>11. CASE EndNode(w)
    <2>1. /\ Busy(w) /\ worker[w].left = <<>> /\ worker[w].found_one
          /\ exploration_front' = exploration_front
        BY <1>11, EndNodeStep
    <2>2. TakesCareOf(w, worker[w].node)
        BY <2>1, EmptyRange DEF TakesCareOf
    <2>3. QED BY <1>3, <2>1, <2>2
<1>12. QED BY <1>4, <1>5, <1>7, <1>9, <1>10, <1>11 DEF Work

LEMMA UnderWayStaysReported ==
    ASSUME Consistent, Complete, NEW w \in Workers, Work(w), observed_deadline_miss' = {},
           NEW v \in Workers, Busy(v)', worker'[v].step # "dispatch"
    PROVE  Reported(Dispatched(v).job, Finish(v))'
<1>1. /\ observed_deadline_miss = {} /\ front' = front /\ TimesGrown /\ Types
      /\ \A u \in Workers : u # w => worker'[u] = worker[u]
    BY WithoutMiss DEF Consistent
<1>2. ASSUME Busy(v), worker[v].step # "dispatch",
             worker'[v].node = worker[v].node, worker'[v].left = worker[v].left
      PROVE  Reported(Dispatched(v).job, Finish(v))'
    <2>1. Reported(Dispatched(v).job, Finish(v))
        BY <1>1, <1>2 DEF Complete
    <2>2. Dispatched(v).job \in Jobs /\ Finish(v) \in TimeIntervals
        BY <1>2, WorkerFacts DEF WorkerConsistent
    <2>3. ContainsInterval(completion'[Dispatched(v).job], Finish(v))
          /\ Finish(v).max <= front'.deadline[Dispatched(v).job]
        BY <1>1, <2>1, <2>2, StaysReported
    <2>4. Dispatched(v)' = Dispatched(v) /\ Finish(v)' = Finish(v)
        BY <1>2, SameWork
    <2>5. QED BY <2>3, <2>4 DEF Reported
<1>3. CASE v # w
    BY <1>1, <1>2, <1>3 DEF Busy
<1>4. ASSUME v = w, KeepsWork(w) PROVE Reported(Dispatched(v).job, Finish(v))'
    BY <1>2, <1>4 DEF KeepsWork
<1>5. CASE v = w /\ UpdateCompletion(w)
    <2>1. /\ Busy(w) /\ worker[w].left # <<>> /\ Dispatched(w).states # <<>>
          /\ worker'[w].node = worker[w].node /\ worker'[w].left = worker[w].left
          /\ completion' = [completion EXCEPT ![Dispatched(w).job] =
                                UpdateFinishTimes(@, Finish(w))]
          /\ ~ExceedsDeadline(Finish(w), front.deadline[Dispatched(w).job])
        BY <1>5, UpdateCompletionStep
    <2>2. Dispatched(w).job \in Jobs /\ Finish(w) \in TimeIntervals
        BY <2>1, WorkerFacts
    <2>3. /\ completion[Dispatched(w).job] \in TimeIntervals \cup {None}
          /\ completion'[Dispatched(w).job]
                 = UpdateFinishTimes(completion[Dispatched(w).job], Finish(w))
        BY <1>1, <2>1, <2>2 DEF Types
    <2>4. ContainsInterval(completion'[Dispatched(w).job], Finish(w))
        BY <2>2, <2>3, FinishTimesFacts
    <2>5. Finish(w).max <= front.deadline[Dispatched(w).job]
        <3>1. Finish(w).max \in Nat /\ front.deadline[Dispatched(w).job] \in Nat
            BY <1>1, <2>2, IntervalFacts, FrontFacts DEF Types
        <3>2. QED BY <2>1, <3>1 DEF ExceedsDeadline
    <2>6. Dispatched(w)' = Dispatched(w) /\ Finish(w)' = Finish(w)
        BY <2>1, SameWork
    <2>7. QED BY <1>1, <1>5, <2>4, <2>5, <2>6 DEF Reported
<1>6. CASE v = w /\ (FindNode(w) \/ NewNode(w) \/ CacheNode(w) \/ NewState(w) \/ TryMerge(w) \/ Add(w))
    BY <1>4, <1>6, FindNodeStep, NewNodeStep, CacheNodeStep, NewStateStep, TryMergeStep, AddStep
<1>7. CASE v = w /\ (Pop(w) \/ CountEdge(w) \/ CheckForDeadlineMisses(w) \/ EndNode(w))
    BY <1>7, PopStep, CountEdgeStep, CheckStep, EndNodeStep DEF GoesOnWith
<1>8. QED BY <1>3, <1>5, <1>6, <1>7 DEF Work

LEMMA StaysAttained ==
    ASSUME Consistent, Sound, Complete, NEW w \in Workers, Work(w),
           observed_deadline_miss' = {}, NEW j \in Jobs
    PROVE  Attained(j)'
<1>1. observed_deadline_miss = {} /\ front' = front /\ Types
    BY WithoutMiss DEF Consistent
<1>2. Attained(j) /\ FinishTimes(j)' = FinishTimes(j)
    BY <1>1, SameFront DEF Complete
<1>3. CASE completion'[j] = completion[j]
    BY <1>2, <1>3 DEF Attained
<1>4. CASE UpdateCompletion(w)
    <2>1. /\ Busy(w) /\ worker[w].left # <<>> /\ Dispatched(w).states # <<>>
          /\ completion' = [completion EXCEPT ![Dispatched(w).job] =
                                UpdateFinishTimes(@, Finish(w))]
        BY <1>4, UpdateCompletionStep
    <2>2. CASE j # Dispatched(w).job
        BY <1>1, <1>3, <2>1, <2>2 DEF Types
    <2>3. CASE j = Dispatched(w).job
        <3> DEFINE s == Finish(w)
        <3>1. s \in FinishTimes(j) /\ s \in TimeIntervals
            BY <2>1, <2>3, DispatchedIsGiven, WorkerFacts DEF Sound
        <3>2. completion'[j] = UpdateFinishTimes(completion[j], s)
            BY <1>1, <2>1, <2>3 DEF Types
        <3> HIDE DEF s
        <3>3. CASE completion[j] = None
            <4>1. completion'[j] = [min |-> s.min, max |-> s.max]
                BY <3>1, <3>2, <3>3 DEF UpdateFinishTimes, TimeIntervals, Intervals
            <4>2. QED BY <1>2, <3>1, <4>1 DEF Attained
        <3>4. CASE completion[j] # None
            <4>1. PICK a, b \in FinishTimes(j) : completion[j] = [min |-> a.min, max |-> b.max]
                BY <1>2, <3>4 DEF Attained
            <4>2. completion'[j] = [min |-> MinOf(a.min, s.min), max |-> MaxOf(b.max, s.max)]
                BY <3>2, <3>4, <4>1 DEF UpdateFinishTimes, Widen
            <4>3. PICK c \in {a, s} : c.min = MinOf(a.min, s.min)
                BY DEF MinOf
            <4>4. PICK d \in {b, s} : d.max = MaxOf(b.max, s.max)
                BY DEF MaxOf
            <4>5. completion'[j] = [min |-> c.min, max |-> d.max]
                BY <4>2, <4>3, <4>4
            <4>6. c \in FinishTimes(j) /\ d \in FinishTimes(j)
                BY <3>1, <4>1, <4>3, <4>4
            <4>7. QED BY <1>2, <4>5, <4>6 DEF Attained
        <3>5. QED BY <3>3, <3>4
    <2>4. QED BY <2>2, <2>3
<1>5. QED BY <1>3, <1>4, WithoutMiss

LEMMA NextComplete == Consistent /\ Sound /\ Complete /\ [Next]_vars => Complete'
<1> SUFFICES ASSUME Consistent, Sound, Complete, [Next]_vars, observed_deadline_miss' = {}
             PROVE  /\ \A n \in FrontNodes' \ exploration_front' : Accounted(n)'
                    /\ \A w \in Workers : Busy(w)' /\ worker'[w].step # "dispatch" =>
                           Reported(Dispatched(w).job, Finish(w))'
                    /\ \A j \in Jobs' : Attained(j)'
    BY DEF Complete
<1>1. ASSUME NEW w \in Workers, Work(w)
      PROVE  /\ \A n \in FrontNodes' \ exploration_front' : Accounted(n)'
             /\ \A v \in Workers : Busy(v)' /\ worker'[v].step # "dispatch" =>
                    Reported(Dispatched(v).job, Finish(v))'
             /\ \A j \in Jobs' : Attained(j)'
    <2>1. FrontNodes' = FrontNodes /\ Jobs' = Jobs
        BY <1>1, WithoutMiss, SameFront
    <2>2. QED BY <1>1, <2>1, NodesStayAccounted, UnderWayStaysReported, StaysAttained
<1>2. ASSUME UNCHANGED <<front, nodes, completion, observed_deadline_miss, worker>>,
             exploration_front' = exploration_front
      PROVE  /\ \A n \in FrontNodes' \ exploration_front' : Accounted(n)'
             /\ \A w \in Workers : Busy(w)' /\ worker'[w].step # "dispatch" =>
                    Reported(Dispatched(w).job, Finish(w))'
             /\ \A j \in Jobs' : Attained(j)'
    <2>1. /\ \A n \in FrontNodes \ exploration_front : Accounted(n)
          /\ \A w \in Workers : Busy(w) /\ worker[w].step # "dispatch" =>
                 Reported(Dispatched(w).job, Finish(w))
          /\ \A j \in Jobs : Attained(j)
        BY <1>2 DEF Complete
    <2>2. FrontNodes' = FrontNodes /\ Jobs' = Jobs
        BY <1>2, SameFront
    <2>3. ASSUME NEW n \in FrontNodes, Accounted(n) PROVE Accounted(n)'
        BY <1>2, <2>3 DEF Accounted, Given, Pending, Stored, HoldsState, Reported, DeadEnd, Busy
    <2>4. ASSUME NEW w \in Workers, Reported(Dispatched(w).job, Finish(w))
          PROVE  Reported(Dispatched(w).job, Finish(w))'
        BY <1>2, <2>4 DEF Reported, Dispatched, Finish
    <2>5. ASSUME NEW j \in Jobs, Attained(j) PROVE Attained(j)'
        BY <1>2, <2>5, SameFront DEF Attained
    <2>6. QED BY <1>2, <2>1, <2>2, <2>3, <2>4, <2>5 DEF Busy
<1>3. CASE EndFront
    <2>1. exploration_front' = exploration_front
        BY <1>3, EndFrontStep
    <2>2. QED BY <1>2, <1>3, <2>1, EndFrontStep
<1>4. CASE UNCHANGED vars
    BY <1>2, <1>4 DEF vars
<1>5. QED BY <1>1, <1>3, <1>4 DEF Next

LEMMA AlwaysComplete == Spec => []Complete
<1>1. Init => Complete
    BY DEF Init, Complete, FrontNodes, Busy, Attained
<1>2. QED BY <1>1, NextComplete, AlwaysConsistent, AlwaysSound, PTL DEF Spec

\* At the end of the front no worker has anything left.
LEMMA AtTheEnd ==
    ASSUME Consistent, Complete, NoMissFound
    PROVE  \A n \in FrontNodes :
               /\ ~DeadEnd(n)
               /\ \A d \in Given(n) : \A s \in Range(d.states) :
                      Stored(n, d.job, s) /\ Reported(d.job, s)
<1>1. exploration_front = {} /\ \A w \in Workers : ~Busy(w)
    BY DEF NoMissFound, Consistent
<1>2. \A n \in FrontNodes : Accounted(n)
    BY <1>1 DEF NoMissFound, Complete
<1>3. QED BY <1>1, <1>2 DEF Accounted, Pending

\* Without a miss the state of every dispatch of the front is part of a state of a
\* node with the right jobs, whichever workers met on that node.
THEOREM NothingIsLost == Spec => []NothingLost
<1>1. ASSUME Consistent, Complete PROVE NothingLost
    BY <1>1, AtTheEnd DEF NothingLost, FrontNodes, Given, Stored, HoldsState
<1>2. QED BY <1>1, AlwaysConsistent, AlwaysComplete, PTL

\* Without a miss every dispatch is in time and no node of the front is a dead end.
THEOREM NoMissIsOverlooked == Spec => []NoMissOverlooked
<1>1. ASSUME Consistent, Complete, NoMissFound
      PROVE  /\ \A j \in Jobs : \A i \in FinishTimes(j) : i.max <= front.deadline[j]
             /\ \A n \in DOMAIN front.work : ~DeadEnd(n)
    BY <1>1, AtTheEnd, FinishTimeOf DEF FrontNodes, Reported
<1>2. Consistent /\ Complete => NoMissOverlooked
    BY <1>1 DEF NoMissOverlooked
<1>3. QED BY <1>2, AlwaysConsistent, AlwaysComplete, PTL

\* Without a miss the reported completion times are those of all the dispatches of
\* the front: no update by another worker gets lost.
THEOREM ResultsAreComplete == Spec => []ResultsComplete
<1>1. ASSUME Consistent, Complete, NoMissFound, NEW j \in Jobs
      PROVE  LET all == FinishTimes(j)
             IN  completion[j] = IF all = {} THEN None
                                 ELSE [min |-> Min({i.min : i \in all}),
                                       max |-> Max({i.max : i \in all})]
    <2> DEFINE all == FinishTimes(j)
    <2>1. Types /\ Attained(j)
        BY <1>1 DEF Consistent, Complete, NoMissFound
    <2>2. all \in SUBSET TimeIntervals
        BY <2>1, FinishTimesAreTimes
    <2>3. \A i \in all : ContainsInterval(completion[j], i)
        BY <1>1, AtTheEnd, FinishTimeOf DEF Reported
    <2>4. Attained(j) <=> completion[j] = None \/
              \E a, b \in all : completion[j] = [min |-> a.min, max |-> b.max]
        BY DEF Attained
    <2> HIDE DEF all
    <2>5. CASE all = {}
        BY <2>1, <2>4, <2>5 DEF all
    <2>6. CASE all # {}
        <3>1. completion[j] # None
            BY <2>2, <2>3, <2>6, IntervalFacts DEF None, ContainsInterval
        <3>2. PICK a \in all, b \in all : completion[j] = [min |-> a.min, max |-> b.max]
            BY <2>1, <2>4, <3>1
        <3>3. \A i \in all : a.min <= i.min /\ i.max <= b.max
            BY <2>3, <3>2 DEF ContainsInterval
        <3> DEFINE mins == {i.min : i \in all}
                   maxs == {i.max : i \in all}
        <3>4. /\ mins \in SUBSET Nat /\ maxs \in SUBSET Nat
              /\ a.min \in mins /\ b.max \in maxs
              /\ \A x \in mins : a.min <= x
              /\ \A x \in maxs : x <= b.max
            BY <2>2, <3>2, <3>3, IntervalFacts
        <3> HIDE DEF mins, maxs
        <3>5. Min(mins) = a.min /\ Max(maxs) = b.max
            BY <3>4, MinIs, MaxIs
        <3>6. QED BY <2>6, <3>2, <3>5 DEF all, mins, maxs
    <2>7. QED BY <2>5, <2>6
<1>2. ASSUME Consistent, Complete PROVE ResultsComplete
    BY <1>1, <1>2 DEF ResultsComplete
<1>3. QED BY <1>2, AlwaysConsistent, AlwaysComplete, PTL
=============================================================================
