----------------------- MODULE CoreAvailabilityProofs -----------------------
(***************************************************************************)
(* Proofs about the core availability tracker, for any number of cores,    *)
(* any number of states and any times: the trackers stay well-formed, and  *)
(* they cover the execution that the specification follows.                *)
(***************************************************************************)
EXTENDS CoreAvailability, CoreTrackerProofs

-----------------------------------------------------------------------------
(***************************************************************************)
(* Type correctness.                                                       *)
(***************************************************************************)

\* The initial tracker: each bound is sorted over all the cores, by an order
\* of its own, and still no interval is upside down.  Were the p-th earliest
\* instant later than the p-th latest one, the p cores that come first by
\* their latest instants could not be found among the p - 1 first by their
\* earliest ones.
LEMMA InitialOrder ==
    ASSUME NEW platform \in [Cores -> Intervals(Nat)], NEW f \in Orders, NEW g \in Orders,
           Ascending(platform, f, g), NEW p \in 1..NumCores
    PROVE  platform[f[p]].min <= platform[g[p]].max
<1>1. /\ f \in [1..NumCores -> Cores] /\ g \in [1..NumCores -> Cores]
      /\ \A i, j \in 1..NumCores : f[i] = f[j] => i = j
      /\ \A i, j \in 1..NumCores : g[i] = g[j] => i = j
    BY DEF Orders
<1>2. \A c \in Cores : /\ platform[c].min \in Nat /\ platform[c].max \in Nat
                       /\ platform[c].min <= platform[c].max
    BY DEF Intervals
<1>3. NumCores \in Nat /\ p \in Nat /\ p <= NumCores /\ 1 <= p
    BY NumCoresAssumption
<1>4. IsFiniteSet(1..NumCores) /\ Cardinality(1..NumCores) = NumCores
    BY <1>3, FS_Interval
<1>5. f \in Surjection(1..NumCores, Cores)
    <2>1. f \in Injection(1..NumCores, Cores)
        BY <1>1 DEF Injection, IsInjective
    <2>2. QED BY <2>1, <1>4, CoresAssumption, FS_Injection
<1>6. SUFFICES ASSUME platform[g[p]].max < platform[f[p]].min
               PROVE  FALSE
    BY <1>1, <1>2, <1>3
<1>7. ASSUME NEW q \in 1..p
      PROVE  \E j \in 1..(p - 1) : f[j] = g[q]
    <2>1. q \in 1..NumCores /\ p \in 1..NumCores /\ q <= p
        BY <1>3
    <2>2. PICK j \in 1..NumCores : f[j] = g[q]
        BY <1>1, <1>5, <2>1 DEF Surjection
    <2>3. platform[g[q]].max <= platform[g[p]].max
        BY <2>1 DEF Ascending
    <2>4. /\ platform[f[j]].min \in Nat /\ platform[f[p]].min \in Nat
          /\ platform[g[q]].max \in Nat /\ platform[g[p]].max \in Nat
          /\ platform[g[q]].min \in Nat /\ platform[g[q]].min <= platform[g[q]].max
        BY <1>1, <1>2, <2>1
    <2>5. platform[f[j]].min < platform[f[p]].min
        BY <1>6, <2>2, <2>3, <2>4
    <2>6. ~(p <= j)
        BY <2>1, <2>4, <2>5 DEF Ascending
    <2>7. QED BY <2>2, <2>6, <1>3
<1>8. PICK h \in [1..p -> 1..(p - 1)] : \A q \in 1..p : f[h[q]] = g[q]
    <2> DEFINE h == [q \in 1..p |-> CHOOSE j \in 1..(p - 1) : f[j] = g[q]]
    <2>1. \A q \in 1..p : h[q] \in 1..(p - 1) /\ f[h[q]] = g[q]
        BY <1>7
    <2>2. h \in [1..p -> 1..(p - 1)]
        BY <2>1
    <2>3. QED BY <2>1, <2>2
<1>9. IsFiniteSet(1..p) /\ Cardinality(1..p) = p /\ IsFiniteSet(1..(p - 1))
      /\ Cardinality(1..(p - 1)) = p - 1
    BY <1>3, FS_Interval
<1>10. \E x, y \in 1..p : x # y /\ h[x] = h[y]
    <2>1. Cardinality(1..(p - 1)) < Cardinality(1..p)
        BY <1>3, <1>9
    <2>2. IsFiniteSet(1..p) /\ IsFiniteSet(1..(p - 1)) /\ h \in [1..p -> 1..(p - 1)]
        BY <1>8, <1>9
    <2>3. QED BY <2>1, <2>2, FS_PigeonHole, Zenon
<1>11. PICK x \in 1..p, y \in 1..p : x # y /\ g[x] = g[y]
    <2>1. PICK x \in 1..p, y \in 1..p : x # y /\ h[x] = h[y]
        BY <1>10
    <2>2. f[h[x]] = g[x] /\ f[h[y]] = g[y]
        BY <1>8, <2>1
    <2>3. QED BY <2>1, <2>2
<1>12. \A q \in 1..p : q \in 1..NumCores
    BY <1>3
<1>13. x = y
    <2>1. \A i, j \in 1..NumCores : g[i] = g[j] => i = j
        BY <1>1
    <2>2. g[x] = g[y]
        BY <1>11
    <2>3. QED BY <2>1, <2>2, <1>11, <1>12, Zenon
<1>14. QED BY <1>11, <1>13

LEMMA InitialFacts ==
    ASSUME NEW platform \in [Cores -> Intervals(Nat)], NEW f \in Orders, NEW g \in Orders,
           Ascending(platform, f, g)
    PROVE  /\ InitialAvailability(platform, f, g) \in Trackers(NumCores)
           /\ \A p \in 1..NumCores :
                /\ InitialAvailability(platform, f, g)[p].min = platform[f[p]].min
                /\ InitialAvailability(platform, f, g)[p].max = platform[g[p]].max
<1> DEFINE a == InitialAvailability(platform, f, g)
<1>1. \A p \in 1..NumCores : f[p] \in Cores /\ g[p] \in Cores
    BY DEF Orders
<1>2. \A c \in Cores : platform[c].min \in Nat /\ platform[c].max \in Nat
    BY DEF Intervals
<1>3. ASSUME NEW p \in 1..NumCores
      PROVE  /\ a[p] \in Intervals(Nat) /\ a[p].min <= a[p].max
             /\ a[p].min = platform[f[p]].min /\ a[p].max = platform[g[p]].max
    <2>1. platform[f[p]].min <= platform[g[p]].max
        BY InitialOrder
    <2>2. a[p] = [min |-> platform[f[p]].min, max |-> platform[g[p]].max]
        BY <2>1 DEF InitialAvailability, Interval
    <2>3. QED BY <2>1, <2>2, <1>1, <1>2 DEF Intervals
<1>4. a \in [1..NumCores -> Intervals(Nat)]
    <2>1. a = [i \in 1..NumCores |-> a[i]]
        BY DEF InitialAvailability
    <2>2. QED BY <2>1, <1>3
<1>5. IsTracker(a)
    <2>1. DOMAIN a = 1..NumCores
        BY <1>4
    <2>2. \A i, j \in 1..NumCores : i <= j => a[i].min <= a[j].min /\ a[i].max <= a[j].max
        BY <1>3 DEF Ascending
    <2>3. QED BY <2>1, <2>2, <1>3 DEF IsTracker
<1>6. QED BY <1>3, <1>4, <1>5 DEF Trackers

\* What a dispatch leaves behind: the intervals it computes, the new tracker
\* of its state, and the same trackers elsewhere.
LEMMA DispatchFacts ==
    ASSUME TypeOK,
           NEW s \in DOMAIN avail, NEW ready \in Times, NEW lst \in Times, NEW cost \in Costs,
           NEW u \in 1..NumCores, NEW f \in 0..NumCores,
           Dispatch(s, ready, lst, cost, u, f),
           NEW start, start = Interval(MaxOf(ready, avail[s][u].min), lst),
           NEW finish, finish = Shift(start, cost)
    PROVE  /\ start \in Intervals(Nat) /\ finish \in Intervals(Nat)
           /\ start.min = MaxOf(ready, avail[s][u].min) /\ start.max = lst
           /\ finish.min = start.min + cost.min /\ finish.max = lst + cost.max
           /\ ready \in Nat /\ lst \in Nat /\ cost.min \in Nat /\ cost.max \in Nat
           /\ DOMAIN avail' = DOMAIN avail
           /\ avail'[s] = Update(avail[s], start, finish, u, f)
           /\ avail'[s] \in Trackers(NumCores)
           /\ \A x \in DOMAIN avail : x # s => avail'[x] = avail[x]
<1>1. avail[s] \in Trackers(NumCores) /\ NumCores \in Nat
    BY NumCoresAssumption DEF TypeOK, Trackers
<1>2. avail[s][u].min \in Nat
    BY <1>1, TrackerFacts
<1>3. ready \in Nat /\ lst \in Nat /\ cost \in Intervals(Nat)
    BY TimesAssumption
<1>4. MaxOf(ready, avail[s][u].min) \in Nat /\ MaxOf(ready, avail[s][u].min) <= lst
    BY <1>2, <1>3 DEF Dispatch, MaxOf
<1>5. start = [min |-> MaxOf(ready, avail[s][u].min), max |-> lst]
    BY <1>4 DEF Interval
<1>6. cost.min \in Nat /\ cost.max \in Nat /\ cost.min <= cost.max
    BY <1>3 DEF Intervals
<1>7. finish = [min |-> start.min + cost.min, max |-> lst + cost.max]
    BY <1>3, <1>4, <1>5, <1>6 DEF Shift, Interval
<1>8. start \in Intervals(Nat) /\ finish \in Intervals(Nat)
    BY <1>3, <1>4, <1>5, <1>6, <1>7 DEF Intervals
<1>9. avail' = [avail EXCEPT ![s] = Update(avail[s], start, finish, u, f)]
    BY DEF Dispatch
<1>10. /\ DOMAIN avail' = DOMAIN avail /\ avail'[s] = Update(avail[s], start, finish, u, f)
       /\ \A x \in DOMAIN avail : x # s => avail'[x] = avail[x]
    BY <1>9
<1>11. avail'[s] \in Trackers(NumCores)
    <2>1. start.min <= finish.min /\ start.max <= finish.max
        BY <1>3, <1>4, <1>5, <1>6, <1>7
    <2>2. QED BY <1>1, <1>8, <1>10, <2>1, UpdateFacts
<1>12. QED BY <1>3, <1>5, <1>6, <1>7, <1>8, <1>10, <1>11

LEMMA TypeInit == Init => TypeOK
<1>1. SUFFICES ASSUME NEW platform \in Platforms, NEW f \in Orders, NEW g \in Orders,
                      Ascending(platform, f, g),
                      avail = [s \in Branches |-> InitialAvailability(platform, f, g)],
                      at \in Branches,
                      free \in [Cores -> Times],
                      now = 0
               PROVE  TypeOK
    BY DEF Init
<1>2. InitialAvailability(platform, f, g) \in Trackers(NumCores)
    BY <1>1, TimesAssumption, InitialFacts
<1>3. DOMAIN avail = Branches /\ \A s \in Branches : avail[s] = InitialAvailability(platform, f, g)
    BY <1>1
<1>4. free \in [Cores -> Nat]
    BY <1>1, TimesAssumption
<1>5. QED BY <1>1, <1>2, <1>3, <1>4 DEF TypeOK, Trackers

LEMMA TypeDispatch ==
    ASSUME TypeOK,
           NEW s \in DOMAIN avail, NEW ready \in Times, NEW lst \in Times, NEW cost \in Costs,
           NEW u \in 1..NumCores, NEW f \in 0..NumCores,
           Dispatch(s, ready, lst, cost, u, f)
    PROVE  TypeOK'
<1> DEFINE start == Interval(MaxOf(ready, avail[s][u].min), lst)
           finish == Shift(start, cost)
<1>1. /\ DOMAIN avail' = DOMAIN avail /\ avail'[s] \in Trackers(NumCores)
      /\ \A x \in DOMAIN avail : x # s => avail'[x] = avail[x]
      /\ ready \in Nat /\ lst \in Nat /\ cost.min \in Nat /\ cost.max \in Nat
    BY DispatchFacts
<1>2. \A x \in DOMAIN avail' : avail'[x] \in [1..NumCores -> Intervals(Nat)] /\ IsTracker(avail'[x])
    BY <1>1 DEF TypeOK, Trackers
<1>3. free' \in [Cores -> Nat] /\ now' \in Nat
    <2>1. CASE s = at
        <3>1. PICK t \in ready..lst, d \in cost.min..cost.max, S \in SUBSET Cores : RunJob(t, d, S, u, f)
            BY <2>1 DEF Dispatch
        <3>2. t \in Nat /\ d \in Nat /\ t + d \in Nat
            BY <1>1, <3>1
        <3>3. free' = [c \in Cores |-> IF c \in S THEN t + d ELSE free[c]] /\ now' = t
            BY <3>1 DEF RunJob
        <3>4. QED BY <3>2, <3>3 DEF TypeOK
    <2>2. CASE s # at
        BY <2>2 DEF Dispatch, TypeOK
    <2>3. QED BY <2>1, <2>2
<1>4. at' = at
    BY DEF Dispatch
<1>5. QED BY <1>1, <1>2, <1>3, <1>4 DEF TypeOK

LEMMA TypeMerge ==
    ASSUME TypeOK,
           NEW s \in DOMAIN avail, NEW u \in DOMAIN avail, NEW conservative \in BOOLEAN,
           MergeStates(s, u, conservative)
    PROVE  TypeOK'
<1>1. avail[s] \in Trackers(NumCores) /\ avail[u] \in Trackers(NumCores) /\ NumCores \in Nat
    BY NumCoresAssumption DEF TypeOK, Trackers
<1>2. MergeAvailability(avail[s], avail[u]) \in Trackers(NumCores)
    BY <1>1, MergeFacts
<1>3. avail' = [x \in DOMAIN avail \ {u} |->
                    IF x = s THEN MergeAvailability(avail[s], avail[u]) ELSE avail[x]]
    BY DEF MergeStates
<1>4. DOMAIN avail' = DOMAIN avail \ {u}
    BY <1>3
<1>5. \A x \in DOMAIN avail' : avail'[x] \in [1..NumCores -> Intervals(Nat)] /\ IsTracker(avail'[x])
    BY <1>2, <1>3, <1>4 DEF TypeOK, Trackers
<1>6. at' \in DOMAIN avail' /\ free' = free /\ now' = now
    BY <1>4 DEF MergeStates, TypeOK
<1>7. QED BY <1>4, <1>5, <1>6 DEF TypeOK

\* Trackers stay well-formed whatever is dispatched and merged: no interval is
\* ever upside down and both bounds stay sorted, although update() inserts the
\* finish times in one pass and sorts nothing.
THEOREM TypeCorrect == Spec => []TypeOK
<1>1. Init => TypeOK
    BY TypeInit
<1>2. TypeOK /\ [Next]_vars => TypeOK'
    <2>1. SUFFICES ASSUME TypeOK, [Next]_vars
                   PROVE  TypeOK'
        OBVIOUS
    <2>2. ASSUME NEW s \in DOMAIN avail, NEW ready \in Times, NEW lst \in Times, NEW cost \in Costs,
                 NEW u \in 1..NumCores, NEW f \in 0..NumCores,
                 Dispatch(s, ready, lst, cost, u, f)
          PROVE  TypeOK'
        BY <2>1, <2>2, TypeDispatch
    <2>3. ASSUME NEW s \in DOMAIN avail, NEW u \in DOMAIN avail, NEW conservative \in BOOLEAN,
                 MergeStates(s, u, conservative)
          PROVE  TypeOK'
        BY <2>1, <2>3, TypeMerge
    <2>4. CASE UNCHANGED vars
        BY <2>1, <2>4 DEF TypeOK, vars
    <2>5. QED BY <2>1, <2>2, <2>3, <2>4 DEF Next
<1>3. QED BY <1>1, <1>2, PTL DEF Spec

-----------------------------------------------------------------------------
(***************************************************************************)
(* Coverage.                                                               *)
(***************************************************************************)

LEMMA CoversInit == Init => Covers
<1>1. SUFFICES ASSUME NEW platform \in Platforms, NEW f \in Orders, NEW g \in Orders,
                      Ascending(platform, f, g),
                      avail = [s \in Branches |-> InitialAvailability(platform, f, g)],
                      at \in Branches,
                      free \in [Cores -> Times],
                      \A c \in Cores : platform[c].min <= free[c] /\ free[c] <= platform[c].max,
                      NEW p \in 1..NumCores
               PROVE  /\ Cardinality(FreeAt(Cores, free, avail[at][p].max)) >= p
                      /\ Cardinality(FreeBefore(Cores, free, avail[at][p].min)) < p
    BY DEF Init, Covers, CertainlyAvailable, PossiblyAvailable, FreeAt, FreeBefore
<1>2. platform \in [Cores -> Intervals(Nat)] /\ free \in [Cores -> Nat]
    BY <1>1, TimesAssumption
<1>3. avail[at][p].min = platform[f[p]].min /\ avail[at][p].max = platform[g[p]].max
    BY <1>1, <1>2, InitialFacts
<1>4. /\ f \in [1..NumCores -> Cores] /\ g \in [1..NumCores -> Cores]
      /\ \A i, j \in 1..NumCores : f[i] = f[j] => i = j
      /\ \A i, j \in 1..NumCores : g[i] = g[j] => i = j
    BY DEF Orders
<1>5. NumCores \in Nat /\ p \in Nat /\ 1 <= p /\ p <= NumCores
    BY NumCoresAssumption
<1>6. \A c \in Cores : platform[c].min \in Nat /\ platform[c].max \in Nat /\ free[c] \in Nat
    BY <1>2 DEF Intervals
<1>7. IsFiniteSet(1..NumCores) /\ IsFiniteSet(1..p) /\ IsFiniteSet(1..(p - 1))
      /\ Cardinality(1..NumCores) = NumCores /\ Cardinality(1..p) = p /\ Cardinality(1..(p - 1)) = p - 1
    BY <1>5, FS_Interval
<1>8. Cardinality(FreeAt(Cores, free, platform[g[p]].max)) >= p
    <2> DEFINE B == FreeAt(Cores, free, platform[g[p]].max)
               e == [q \in 1..p |-> g[q]]
    <2>1. ASSUME NEW q \in 1..p
          PROVE  q \in 1..NumCores /\ g[q] \in B
        <3>1. q \in 1..NumCores /\ q <= p /\ p \in 1..NumCores
            BY <1>5
        <3>2. platform[g[q]].max <= platform[g[p]].max
            BY <1>1, <3>1 DEF Ascending
        <3>3. free[g[q]] <= platform[g[q]].max
            BY <1>1, <1>4, <3>1
        <3>4. g[q] \in Cores /\ g[p] \in Cores
            BY <1>4, <3>1
        <3>5. free[g[q]] <= platform[g[p]].max
            BY <1>6, <3>2, <3>3, <3>4
        <3>6. QED BY <3>1, <3>4, <3>5 DEF FreeAt
    <2>2. e \in [1..p -> B]
        BY <2>1
    <2>3. ASSUME NEW q1 \in 1..p, NEW q2 \in 1..p, e[q1] = e[q2]
          PROVE  q1 = q2
        <3>1. q1 \in 1..NumCores /\ q2 \in 1..NumCores
            BY <2>1
        <3>2. g[q1] = g[q2]
            BY <2>3
        <3>3. QED BY <1>4, <3>1, <3>2, Zenon
    <2>4. e \in Injection(1..p, B)
        BY <2>2, <2>3 DEF Injection, IsInjective
    <2>5. IsFiniteSet(B)
        BY CoresAssumption, FS_Subset DEF FreeAt
    <2>6. Cardinality(1..p) <= Cardinality(B)
        BY <2>4, <2>5, FS_Injection
    <2>7. Cardinality(B) \in Nat
        BY <2>5, FS_CardinalityType
    <2>8. QED BY <1>5, <1>7, <2>6, <2>7
<1>9. Cardinality(FreeBefore(Cores, free, platform[f[p]].min)) < p
    <2> DEFINE B == FreeBefore(Cores, free, platform[f[p]].min)
               e == [c \in B |-> CHOOSE j \in 1..(p - 1) : f[j] = c]
    <2>1. f \in Surjection(1..NumCores, Cores)
        <3>1. f \in Injection(1..NumCores, Cores)
            BY <1>4 DEF Injection, IsInjective
        <3>2. QED BY <1>7, <3>1, CoresAssumption, FS_Injection
    <2>2. ASSUME NEW c \in B
          PROVE  \E j \in 1..(p - 1) : f[j] = c
        <3>1. c \in Cores /\ free[c] < platform[f[p]].min
            BY DEF FreeBefore
        <3>2. PICK j \in 1..NumCores : f[j] = c
            BY <2>1, <3>1 DEF Surjection
        <3>3. platform[f[j]].min <= free[c]
            BY <1>1, <3>1, <3>2
        <3>4. f[p] \in Cores /\ f[j] \in Cores
            BY <1>4, <3>2
        <3>5. ~(platform[f[p]].min <= platform[f[j]].min)
            BY <1>6, <3>1, <3>3, <3>4
        <3>6. ~(p <= j)
            BY <1>1, <3>2, <3>5 DEF Ascending
        <3>7. j \in 1..(p - 1)
            BY <1>5, <3>2, <3>6
        <3>8. QED BY <3>2, <3>7
    <2>3. \A c \in B : e[c] \in 1..(p - 1) /\ f[e[c]] = c
        BY <2>2
    <2>4. e \in [B -> 1..(p - 1)]
        BY <2>3
    <2>5. e \in Injection(B, 1..(p - 1))
        <3>1. \A c1, c2 \in B : e[c1] = e[c2] => c1 = c2
            <4> HIDE DEF e
            <4>1. QED BY <2>3, Zenon
        <3>2. QED BY <2>4, <3>1 DEF Injection, IsInjective
    <2>6. IsFiniteSet(B) /\ Cardinality(B) <= Cardinality(1..(p - 1))
        BY <1>7, <2>5, FS_Injection
    <2>7. Cardinality(B) \in Nat
        BY <2>6, FS_CardinalityType
    <2>8. QED BY <1>5, <1>7, <2>6, <2>7
<1>10. QED BY <1>3, <1>8, <1>9

\* Covers is what the lemmas on trackers call being covered by the tracker of
\* the state that stands for the execution.
LEMMA CoversIsCovered ==
    ASSUME NumCores \in Nat \ {0}
    PROVE  /\ Covers <=> Covered(Cores, NumCores, avail[at], free, now)
           /\ Covers' <=> Covered(Cores, NumCores, (avail[at])', free', now')
BY DEF Covers, CertainlyAvailable, PossiblyAvailable, Covered, FreeAt, FreeBefore

LEMMA CoversDispatch ==
    ASSUME TypeOK, Covers,
           NEW s \in DOMAIN avail, NEW ready \in Times, NEW lst \in Times, NEW cost \in Costs,
           NEW u \in 1..NumCores, NEW f \in 0..NumCores,
           Dispatch(s, ready, lst, cost, u, f)
    PROVE  Covers'
<1>1. at' = at /\ at \in DOMAIN avail
    BY DEF Dispatch, TypeOK
<1>2. CASE s # at
    <2>1. avail'[at] = avail[at] /\ free' = free /\ now' = now
        BY <1>1, <1>2, DispatchFacts DEF Dispatch
    <2>2. QED BY <1>1, <2>1 DEF Covers, CertainlyAvailable, PossiblyAvailable
<1>3. CASE s = at
    <2> DEFINE from == avail[s]
               start == Interval(MaxOf(ready, from[u].min), lst)
               finish == Shift(start, cost)
    <2>1. /\ start \in Intervals(Nat) /\ finish \in Intervals(Nat)
          /\ start.min = MaxOf(ready, from[u].min) /\ start.max = lst
          /\ finish.min = start.min + cost.min /\ finish.max = lst + cost.max
          /\ ready \in Nat /\ lst \in Nat /\ cost.min \in Nat /\ cost.max \in Nat
          /\ avail'[s] = Update(from, start, finish, u, f)
        BY DispatchFacts
    <2>2. PICK t \in ready..lst, d \in cost.min..cost.max, S \in SUBSET Cores : RunJob(t, d, S, u, f)
        BY <1>3 DEF Dispatch
    <2>3. /\ now <= t /\ Cardinality(S) = u /\ now' = t
          /\ \A c \in S : free[c] <= t
          /\ Cardinality(FreeAt(Cores, free, t)) >= f
          /\ Ran(Cores, free, S, t + d, free')
        BY <2>2 DEF RunJob, FreeAt, Ran
    <2>4. /\ from \in Trackers(NumCores) /\ free \in [Cores -> Nat] /\ now \in Nat
          /\ NumCores \in Nat \ {0} /\ IsFiniteSet(Cores) /\ Cardinality(Cores) = NumCores
        BY NumCoresAssumption, CoresAssumption DEF TypeOK, Trackers
    <2>5. Covered(Cores, NumCores, from, free, now)
        BY <1>3, <2>4, CoversIsCovered
    <2>6. from[u].min \in Nat
        BY <2>4, TrackerFacts
    <2>7. t \in Nat /\ ready <= t /\ t <= lst /\ d \in Nat /\ cost.min <= d /\ d <= cost.max
        BY <2>1, <2>2
    \* The job cannot start before u cores are possibly available: its own
    \* cores are free when it starts.
    <2>8. from[u].min <= t
        <3>1. S \subseteq FreeAt(Cores, free, t) /\ FreeAt(Cores, free, t) \in SUBSET Cores
            BY <2>3 DEF FreeAt
        <3>2. /\ Cardinality(S) <= Cardinality(FreeAt(Cores, free, t))
              /\ Cardinality(FreeAt(Cores, free, t)) \in Nat
            BY <2>4, <3>1, SubsetSizes
        <3>3. Cardinality(FreeAt(Cores, free, t)) >= u
            BY <2>3, <2>4, <3>2
        <3> HIDE DEF from
        <3>4. QED BY <2>3, <2>4, <2>5, <2>7, <3>3, CoveredStart
    <2>9. /\ t \in start.min..start.max /\ t + d \in finish.min..finish.max /\ t <= t + d
          /\ start.min <= finish.min /\ start.max <= finish.max
        <3>1. start.min <= t /\ start.min \in Nat
            BY <2>1, <2>6, <2>7, <2>8 DEF MaxOf
        <3>2. QED BY <2>1, <2>7, <3>1
    <2> HIDE DEF start, finish, from
    <2>10. Covered(Cores, NumCores, Update(from, start, finish, u, f), free', t)
        BY <2>1, <2>3, <2>4, <2>5, <2>9, CoveredUpdate
    <2>11. (avail[at])' = Update(from, start, finish, u, f)
        BY <1>1, <1>3, <2>1
    <2>12. QED BY <2>3, <2>4, <2>10, <2>11, CoversIsCovered
<1>4. QED BY <1>2, <1>3

LEMMA CoversMerge ==
    ASSUME TypeOK, Covers,
           NEW s \in DOMAIN avail, NEW u \in DOMAIN avail, NEW conservative \in BOOLEAN,
           MergeStates(s, u, conservative)
    PROVE  Covers'
<1>1. /\ avail[s] \in Trackers(NumCores) /\ avail[u] \in Trackers(NumCores)
      /\ at \in DOMAIN avail /\ free \in [Cores -> Nat] /\ now \in Nat
      /\ NumCores \in Nat \ {0} /\ IsFiniteSet(Cores) /\ Cardinality(Cores) = NumCores
    BY NumCoresAssumption, CoresAssumption DEF TypeOK, Trackers
<1>2. /\ avail' = [x \in DOMAIN avail \ {u} |->
                    IF x = s THEN MergeAvailability(avail[s], avail[u]) ELSE avail[x]]
      /\ s # u /\ at' = (IF at = u THEN s ELSE at)
      /\ free' = free /\ now' = now
    BY DEF MergeStates
<1>3. Covered(Cores, NumCores, avail[at], free, now)
    BY <1>1, CoversIsCovered
<1>4. CASE at \notin {s, u}
    <2>1. at' = at /\ avail'[at] = avail[at]
        BY <1>1, <1>2, <1>4
    <2>2. QED BY <1>1, <1>2, <1>3, <2>1, CoversIsCovered
<1>5. CASE at \in {s, u}
    <2>1. (avail[at])' = MergeAvailability(avail[s], avail[u])
        BY <1>1, <1>2, <1>5
    <2>2. \/ Covered(Cores, NumCores, avail[s], free, now)
          \/ Covered(Cores, NumCores, avail[u], free, now)
        BY <1>3, <1>5
    <2>3. Covered(Cores, NumCores, MergeAvailability(avail[s], avail[u]), free, now)
        BY <1>1, <2>2, CoveredMerge
    <2>4. QED BY <1>1, <1>2, <2>1, <2>3, CoversIsCovered
<1>6. QED BY <1>4, <1>5

\* The execution that a state stands for stays among those that its tracker
\* describes: for every number of cores and every sequence of dispatches and
\* merges, p cores are free by the p-th latest instant, and no p cores are
\* free before the p-th earliest one.
THEOREM TrackersCover == Spec => []Covers
<1>1. Init => TypeOK /\ Covers
    BY TypeInit, CoversInit
<1>2. TypeOK /\ TypeOK' /\ Covers /\ [Next]_vars => Covers'
    <2>1. SUFFICES ASSUME TypeOK, Covers, [Next]_vars
                   PROVE  Covers'
        OBVIOUS
    <2>2. ASSUME NEW s \in DOMAIN avail, NEW ready \in Times, NEW lst \in Times, NEW cost \in Costs,
                 NEW u \in 1..NumCores, NEW f \in 0..NumCores,
                 Dispatch(s, ready, lst, cost, u, f)
          PROVE  Covers'
        BY <2>1, <2>2, CoversDispatch
    <2>3. ASSUME NEW s \in DOMAIN avail, NEW u \in DOMAIN avail, NEW conservative \in BOOLEAN,
                 MergeStates(s, u, conservative)
          PROVE  Covers'
        BY <2>1, <2>3, CoversMerge
    <2>4. CASE UNCHANGED vars
        BY <2>1, <2>4 DEF Covers, CertainlyAvailable, PossiblyAvailable, vars
    <2>5. QED BY <2>1, <2>2, <2>3, <2>4 DEF Next
<1>3. QED BY <1>1, <1>2, TypeCorrect, PTL DEF Spec

\* The two halves of Covers, each as a theorem of its own.
THEOREM AlwaysCertain == Spec => []CertainlyAvailable
<1>1. Covers => CertainlyAvailable
    BY DEF Covers
<1>2. QED BY <1>1, TrackersCover, PTL

THEOREM AlwaysPossible == Spec => []PossiblyAvailable
<1>1. Covers => PossiblyAvailable
    BY DEF Covers
<1>2. QED BY <1>1, TrackersCover, PTL
=============================================================================
