-------------------------- MODULE CoreTrackerProofs --------------------------
(***************************************************************************)
(* What the operations on core availability trackers return, for any       *)
(* number of cores and any times.                                          *)
(***************************************************************************)
EXTENDS CoreTracker, FiniteSetTheorems, SequenceTheorems, TLAPS

Trackers(n) == {a \in [1..n -> Intervals(Nat)] : IsTracker(a)}

-----------------------------------------------------------------------------
(***************************************************************************)
(* The operators on trackers.                                              *)
(***************************************************************************)

LEMMA TrackerFacts ==
    ASSUME NEW n \in Nat, NEW a \in Trackers(n)
    PROVE  /\ a \in [1..n -> Intervals(Nat)] /\ Len(a) = n /\ DOMAIN a = 1..n
           /\ \A i \in 1..n : /\ a[i] \in [min : Nat, max : Nat]
                              /\ a[i].min \in Nat /\ a[i].max \in Nat /\ a[i].min <= a[i].max
           /\ \A i, j \in 1..n : i <= j => a[i].min <= a[j].min /\ a[i].max <= a[j].max
<1>1. a \in [1..n -> Intervals(Nat)] /\ IsTracker(a)
    BY DEF Trackers
<1>2. DOMAIN a = 1..n
    BY <1>1
<1>3. Len(a) = n
    BY <1>1
<1>4. QED BY <1>1, <1>2, <1>3 DEF IsTracker, Intervals

NonDecreasing(times, n) == \A i, j \in 1..n : i <= j => times[i] <= times[j]

\* The times m or later, when the finish times are inserted.
Inserted(times, m, finish, u, n) ==
    InsertFinish(times, [i \in 1..n |-> MaxOf(m, times[i])], finish, u, n)

\* What the update loop puts at place i: an old time, the finish time, or an
\* old time that moved up by ncores_used places.
InsertedAt(r, times, m, finish, u, n, i) ==
    \/ i <= n /\ times[i] <= finish /\ r[i] = MaxOf(m, times[i])
    \/ /\ i > n \/ times[i] > finish
       /\ i <= u \/ (i - u \in 1..n /\ times[i - u] <= finish)
       /\ r[i] = finish
    \/ i > u /\ i - u <= n /\ times[i - u] > finish /\ r[i] = MaxOf(m, times[i - u])

LEMMA InsertFinishCases ==
    ASSUME NEW n \in Nat, NEW u \in Nat \ {0}, NEW times \in [1..n -> Nat],
           NonDecreasing(times, n),
           NEW m \in Nat, NEW finish \in Nat, m <= finish,
           NEW r, r = Inserted(times, m, finish, u, n)
    PROVE  /\ r \in [1..(n + u) -> Nat]
           /\ \A i \in 1..(n + u) : r[i] >= m /\ InsertedAt(r, times, m, finish, u, n, i)
           /\ NonDecreasing(r, n + u)
<1> USE DEF NonDecreasing
<1> DEFINE shown == [i \in 1..n |-> MaxOf(m, times[i])]
<1>1. ASSUME NEW i \in 1..(n + u)
      PROVE  InsertedAt(r, times, m, finish, u, n, i) /\ r[i] \in Nat /\ r[i] >= m
    <2>1. r[i] = IF i <= n /\ \A h \in 1..i : times[h] <= finish THEN shown[i]
                 ELSE IF \E h \in 1..(i - u) : finish < times[h] THEN shown[i - u]
                 ELSE finish
        BY DEF InsertFinish, Inserted
    <2>2. CASE i <= n /\ \A h \in 1..i : times[h] <= finish
        BY <2>1, <2>2 DEF InsertedAt, MaxOf
    <2>3. CASE /\ ~(i <= n /\ \A h \in 1..i : times[h] <= finish)
               /\ \E h \in 1..(i - u) : finish < times[h]
        BY <2>1, <2>3 DEF InsertedAt, MaxOf
    <2>4. CASE /\ ~(i <= n /\ \A h \in 1..i : times[h] <= finish)
               /\ ~(\E h \in 1..(i - u) : finish < times[h])
        BY <2>1, <2>4 DEF InsertedAt, MaxOf
    <2>5. QED BY <2>2, <2>3, <2>4
<1>2. r \in [1..(n + u) -> Nat]
    <2>1. DOMAIN r = 1..(n + u) /\ r = [i \in 1..(n + u) |-> r[i]]
        BY DEF InsertFinish, Inserted
    <2>2. QED BY <1>1, <2>1
<1>3. ASSUME NEW i \in 1..(n + u), NEW j \in 1..(n + u), i <= j
      PROVE  r[i] <= r[j]
    <2>1. InsertedAt(r, times, m, finish, u, n, i) /\ InsertedAt(r, times, m, finish, u, n, j)
        BY <1>1
    <2>2. /\ i <= n /\ j <= n => times[i] <= times[j] /\ times[i] \in Nat /\ times[j] \in Nat
          /\ i - u \in 1..n /\ j <= n => times[i - u] <= times[j] /\ times[j] \in Nat
          /\ i - u \in 1..n /\ j - u \in 1..n => times[i - u] <= times[j - u]
          /\ i <= n /\ j - u \in 1..n => times[i] \in Nat /\ times[j - u] \in Nat
        BY <1>3
    <2>3. CASE i <= n /\ times[i] <= finish /\ r[i] = MaxOf(m, times[i])
        BY <2>1, <2>2, <2>3, <1>1, <1>3 DEF InsertedAt, MaxOf
    <2>4. CASE /\ i > n \/ times[i] > finish
               /\ r[i] = finish
        BY <2>1, <2>2, <2>4, <1>3 DEF InsertedAt, MaxOf
    <2>5. CASE i > u /\ i - u <= n /\ times[i - u] > finish /\ r[i] = MaxOf(m, times[i - u])
        BY <2>1, <2>2, <2>5, <1>3 DEF InsertedAt, MaxOf
    <2>6. QED BY <2>1, <2>3, <2>4, <2>5 DEF InsertedAt
<1>4. QED BY <1>1, <1>2, <1>3

\* The two lists of Update: the base first places are left out, the rest of
\* the earliest (latest) times is merged with the finish times.
EarliestLeft(from, base) == [i \in 1..(Len(from) - base) |-> from[base + i].min]
LatestLeft(from, base) == [i \in 1..(Len(from) - base) |-> from[base + i].max]

LEMMA LeftFacts ==
    ASSUME NEW n \in Nat, NEW from \in Trackers(n), NEW base \in 0..n
    PROVE  /\ EarliestLeft(from, base) \in [1..(n - base) -> Nat]
           /\ LatestLeft(from, base) \in [1..(n - base) -> Nat]
           /\ \A i \in 1..(n - base) : EarliestLeft(from, base)[i] = from[base + i].min
           /\ \A i \in 1..(n - base) : LatestLeft(from, base)[i] = from[base + i].max
           /\ NonDecreasing(EarliestLeft(from, base), n - base)
           /\ NonDecreasing(LatestLeft(from, base), n - base)
<1>1. /\ Len(from) = n
      /\ \A i \in 1..n : from[i].min \in Nat /\ from[i].max \in Nat
      /\ \A i, j \in 1..n : i <= j => from[i].min <= from[j].min /\ from[i].max <= from[j].max
    BY TrackerFacts
<1>2. \A i \in 1..(n - base) : base + i \in 1..n
    OBVIOUS
<1>3. \A i, j \in 1..(n - base) : i <= j => base + i <= base + j
    OBVIOUS
<1>4. /\ EarliestLeft(from, base) \in [1..(n - base) -> Nat]
      /\ LatestLeft(from, base) \in [1..(n - base) -> Nat]
      /\ \A i \in 1..(n - base) : EarliestLeft(from, base)[i] = from[base + i].min
      /\ \A i \in 1..(n - base) : LatestLeft(from, base)[i] = from[base + i].max
    BY <1>1, <1>2 DEF EarliestLeft, LatestLeft
<1>5. QED BY <1>1, <1>2, <1>3, <1>4 DEF NonDecreasing

LEMMA UpdateFacts ==
    ASSUME NEW n \in Nat, NEW from \in Trackers(n),
           NEW start \in Intervals(Nat), NEW finish \in Intervals(Nat),
           start.min <= finish.min, start.max <= finish.max,
           NEW u \in 1..n, NEW f \in 0..n,
           NEW base, base = MaxOf(f, u),
           NEW pa, pa = Inserted(EarliestLeft(from, base), start.min, finish.min, u, n - base),
           NEW ca, ca = Inserted(LatestLeft(from, base), start.min, finish.max, u, n - base),
           NEW a, a = Update(from, start, finish, u, f)
    PROVE  /\ a \in Trackers(n)
           /\ \A i \in 1..(base - u) :
                /\ a[i].min = start.min
                /\ a[i].max = MinOf(start.max, MaxOf(start.min, from[u + i].max))
           /\ \A i \in (base - u + 1)..n :
                /\ i - (base - u) \in 1..(n - base + u)
                /\ a[i] = Interval(pa[i - (base - u)], ca[i - (base - u)])
                /\ a[i].min <= pa[i - (base - u)]
                /\ ca[i - (base - u)] <= a[i].max
<1> DEFINE extra == base - u
           k == n - base
<1>1. base \in u..n /\ base \in 0..n /\ extra \in 0..n /\ k \in Nat /\ n - extra = k + u
    BY DEF MaxOf
<1>0. /\ EarliestLeft(from, base) \in [1..k -> Nat]
      /\ LatestLeft(from, base) \in [1..k -> Nat]
      /\ \A i \in 1..k : LatestLeft(from, base)[i] = from[base + i].max
      /\ NonDecreasing(EarliestLeft(from, base), k)
      /\ NonDecreasing(LatestLeft(from, base), k)
    BY <1>1, LeftFacts
<1>2. start.min \in Nat /\ start.max \in Nat /\ finish.min \in Nat /\ finish.max \in Nat
      /\ start.min <= start.max /\ finish.min <= finish.max
    BY DEF Intervals
<1>3. /\ Len(from) = n /\ DOMAIN from = 1..n
      /\ \A i \in 1..n : from[i].min \in Nat /\ from[i].max \in Nat
      /\ \A i, j \in 1..n : i <= j => from[i].min <= from[j].min /\ from[i].max <= from[j].max
    BY TrackerFacts
<1>4. /\ pa \in [1..(k + u) -> Nat]
      /\ \A i \in 1..(k + u) : pa[i] >= start.min
      /\ NonDecreasing(pa, k + u)
    <2>1. NonDecreasing(EarliestLeft(from, base), k) /\ u \in Nat \ {0}
        BY <1>0
    <2>2. QED BY <2>1, <1>0, <1>1, <1>2, InsertFinishCases
<1>5. /\ ca \in [1..(k + u) -> Nat]
      /\ \A i \in 1..(k + u) : ca[i] >= start.min /\ InsertedAt(ca, LatestLeft(from, base), start.min, finish.max, u, k, i)
      /\ NonDecreasing(ca, k + u)
    <2>1. NonDecreasing(LatestLeft(from, base), k) /\ u \in Nat \ {0}
        BY <1>0
    <2>2. start.min <= finish.max
        BY <1>2
    <2>3. QED BY <2>1, <2>2, <1>0, <1>1, <1>2, InsertFinishCases
<1>6. a = [i \in 1..n |->
            IF i <= extra
            THEN Interval(start.min, MinOf(start.max, MaxOf(start.min, from[u + i].max)))
            ELSE Interval(pa[i - extra], ca[i - extra])]
    <2>1. EarliestLeft(from, base) = [i \in 1..k |-> from[base + i].min]
          /\ LatestLeft(from, base) = [i \in 1..k |-> from[base + i].max]
        BY <1>3 DEF EarliestLeft, LatestLeft
    <2>2. /\ [i \in 1..k |-> MaxOf(start.min, EarliestLeft(from, base)[i])]
                = [i \in 1..k |-> MaxOf(start.min, from[base + i].min)]
          /\ [i \in 1..k |-> MaxOf(start.min, LatestLeft(from, base)[i])]
                = [i \in 1..k |-> MaxOf(start.min, from[base + i].max)]
        BY <2>1
    <2>3. /\ pa = InsertFinish([i \in 1..k |-> from[base + i].min],
                             [i \in 1..k |-> MaxOf(start.min, from[base + i].min)],
                             finish.min, u, k)
          /\ ca = InsertFinish([i \in 1..k |-> from[base + i].max],
                             [i \in 1..k |-> MaxOf(start.min, from[base + i].max)],
                             finish.max, u, k)
        BY <2>1, <2>2 DEF Inserted
    <2>4. QED BY <1>3, <2>3 DEF Update
<1>7. ASSUME NEW i \in 1..extra
      PROVE  /\ a[i] \in Intervals(Nat)
             /\ a[i].min = start.min
             /\ a[i].max = MinOf(start.max, MaxOf(start.min, from[u + i].max))
    <2>1. u + i \in 1..n /\ i \in 1..n /\ i <= extra
        BY <1>1
    <2>2. from[u + i].max \in Nat
        BY <2>1, <1>3
    <2>3. a[i] = Interval(start.min, MinOf(start.max, MaxOf(start.min, from[u + i].max)))
        BY <1>6, <2>1
    <2>4. QED BY <2>2, <2>3, <1>2 DEF Interval, Intervals, MinOf, MaxOf
<1>8. ASSUME NEW i \in (extra + 1)..n
      PROVE  /\ i - extra \in 1..(k + u)
             /\ a[i] = Interval(pa[i - extra], ca[i - extra])
             /\ a[i] \in Intervals(Nat)
             /\ a[i].min <= pa[i - extra] /\ ca[i - extra] <= a[i].max
             /\ start.min <= a[i].min
    <2>1. i - extra \in 1..(k + u) /\ i \in 1..n /\ ~(i <= extra)
        BY <1>1
    <2>2. a[i] = Interval(pa[i - extra], ca[i - extra])
        BY <1>6, <2>1
    <2>3. /\ pa[i - extra] \in Nat /\ ca[i - extra] \in Nat
          /\ start.min <= pa[i - extra] /\ start.min <= ca[i - extra]
        BY <2>1, <1>4, <1>5, <1>2
    <2>4. QED BY <2>1, <2>2, <2>3, <1>2 DEF Interval, Intervals
<1>9. a \in [1..n -> Intervals(Nat)]
    <2>1. \A i \in 1..n : i \in 1..extra \/ i \in (extra + 1)..n
        BY <1>1
    <2>2. \A i \in 1..n : a[i] \in Intervals(Nat)
        BY <2>1, <1>7, <1>8
    <2>3. DOMAIN a = 1..n /\ a = [i \in 1..n |-> a[i]]
        BY <1>6
    <2>4. QED BY <2>2, <2>3
<1>10. ASSUME NEW i \in 1..n, NEW j \in 1..n, i <= j
       PROVE  a[i].min <= a[j].min /\ a[i].max <= a[j].max
    <2>1. CASE j <= extra
        <3>1. i \in 1..extra /\ j \in 1..extra /\ u + i \in 1..n /\ u + j \in 1..n /\ u + i <= u + j
            BY <2>1, <1>1, <1>10
        <3>2. from[u + i].max <= from[u + j].max /\ from[u + i].max \in Nat /\ from[u + j].max \in Nat
            BY <3>1, <1>3
        <3>3. QED BY <3>1, <3>2, <1>7, <1>2 DEF MinOf, MaxOf
    <2>2. CASE i <= extra /\ extra < j
        <3>1. i \in 1..extra /\ j \in (extra + 1)..n /\ u + i \in 1..n /\ j - extra \in 1..(k + u)
            BY <2>2, <1>1
        <3>2. MinOf(start.max, MaxOf(start.min, from[u + i].max)) <= ca[j - extra]
            <4>1. InsertedAt(ca, LatestLeft(from, base), start.min, finish.max, u, k, j - extra)
                BY <3>1, <1>5
            <4>2. from[u + i].max \in Nat
                BY <3>1, <1>3
            <4>3. ASSUME NEW x \in 1..k
                  PROVE  from[u + i].max <= LatestLeft(from, base)[x] /\ LatestLeft(from, base)[x] \in Nat
                <5>1. base + x \in 1..n /\ u + i <= base + x /\ u + i \in 1..n
                    BY <1>1, <3>1
                <5>2. LatestLeft(from, base)[x] = from[base + x].max
                    BY <1>0
                <5>3. QED BY <5>1, <5>2, <1>3
            <4>4. QED BY <4>1, <4>2, <4>3, <1>1, <1>2, <3>1 DEF InsertedAt, MinOf, MaxOf
        <3>3. ca[j - extra] \in Nat /\ a[j] \in Intervals(Nat) /\ from[u + i].max \in Nat
            BY <3>1, <1>5, <1>8, <1>3
        <3>4. QED BY <3>1, <3>2, <3>3, <1>7, <1>8, <1>2 DEF MinOf, MaxOf, Intervals
    <2>3. CASE extra < i
        <3>1. /\ i \in (extra + 1)..n /\ j \in (extra + 1)..n
              /\ i - extra \in 1..(k + u) /\ j - extra \in 1..(k + u) /\ i - extra <= j - extra
            BY <2>3, <1>1, <1>10
        <3>2. /\ pa[i - extra] <= pa[j - extra] /\ ca[i - extra] <= ca[j - extra]
              /\ pa[i - extra] \in Nat /\ ca[i - extra] \in Nat
              /\ pa[j - extra] \in Nat /\ ca[j - extra] \in Nat
            BY <3>1, <1>4, <1>5 DEF NonDecreasing
        <3>3. /\ a[i] = Interval(pa[i - extra], ca[i - extra])
              /\ a[j] = Interval(pa[j - extra], ca[j - extra])
            BY <3>1, <1>8
        <3>4. QED BY <3>2, <3>3 DEF Interval
    <2>4. QED BY <2>1, <2>2, <2>3, <1>1
<1>11. a \in Trackers(n)
    <2>1. DOMAIN a = 1..n /\ \A i \in 1..n : a[i].min <= a[i].max
        BY <1>9 DEF Intervals
    <2>2. IsTracker(a)
        BY <2>1, <1>10 DEF IsTracker
    <2>3. QED BY <2>2, <1>9 DEF Trackers
<1>12. \A i \in (extra + 1)..n :
          /\ i - extra \in 1..(n - base + u) /\ a[i] = Interval(pa[i - extra], ca[i - extra])
          /\ a[i].min <= pa[i - extra] /\ ca[i - extra] <= a[i].max
    BY <1>8
<1>13. QED BY <1>7, <1>11, <1>12

\* No instant of the new tracker is later than all those that it is made of.
LEMMA UpdateBelow ==
    ASSUME NEW n \in Nat, NEW from \in Trackers(n),
           NEW start \in Intervals(Nat), NEW finish \in Intervals(Nat),
           start.min <= finish.min, start.max <= finish.max,
           NEW u \in 1..n, NEW f \in 0..n,
           NEW b \in Nat, finish.max < b, \A i \in 1..n : from[i].max < b,
           NEW i \in 1..n
    PROVE  Update(from, start, finish, u, f)[i].max < b
<1> DEFINE a == Update(from, start, finish, u, f)
<1>1. PICK base : base = MaxOf(f, u)
    OBVIOUS
<1>2. base \in u..n /\ base \in 0..n /\ n - base \in Nat
    BY <1>1 DEF MaxOf
<1>3. PICK k \in Nat : k = n - base
    BY <1>2
<1>4. PICK pa : pa = Inserted(EarliestLeft(from, base), start.min, finish.min, u, k)
    OBVIOUS
<1>5. PICK ca : ca = Inserted(LatestLeft(from, base), start.min, finish.max, u, k)
    OBVIOUS
<1>6. /\ start.min \in Nat /\ start.max \in Nat /\ finish.min \in Nat /\ finish.max \in Nat
      /\ start.min <= start.max /\ finish.min <= finish.max
    BY DEF Intervals
<1>7. /\ \A h \in 1..n : from[h].min \in Nat /\ from[h].max \in Nat /\ from[h].min <= from[h].max
    BY TrackerFacts
<1>8. /\ \A h \in 1..(base - u) :
            a[h].max = MinOf(start.max, MaxOf(start.min, from[u + h].max))
      /\ \A h \in (base - u + 1)..n :
            /\ h - (base - u) \in 1..(n - base + u)
            /\ a[h] = Interval(pa[h - (base - u)], ca[h - (base - u)])
    BY <1>1, <1>3, <1>4, <1>5, UpdateFacts
<1>9. /\ EarliestLeft(from, base) \in [1..k -> Nat] /\ LatestLeft(from, base) \in [1..k -> Nat]
      /\ \A h \in 1..k : EarliestLeft(from, base)[h] = from[base + h].min
      /\ \A h \in 1..k : LatestLeft(from, base)[h] = from[base + h].max
      /\ NonDecreasing(EarliestLeft(from, base), k) /\ NonDecreasing(LatestLeft(from, base), k)
    BY <1>2, <1>3, LeftFacts
<1>10. \A h \in 1..k : EarliestLeft(from, base)[h] < b /\ LatestLeft(from, base)[h] < b
    <2>1. ASSUME NEW h \in 1..k
          PROVE  EarliestLeft(from, base)[h] < b /\ LatestLeft(from, base)[h] < b
        <3>1. base + h \in 1..n
            BY <1>2, <1>3
        <3>2. PICK lo \in Nat : lo = from[base + h].min
            BY <1>7, <3>1
        <3>3. PICK hi \in Nat : hi = from[base + h].max
            BY <1>7, <3>1
        <3>4. lo <= hi /\ hi < b
            BY <1>7, <3>1, <3>2, <3>3
        <3>5. EarliestLeft(from, base)[h] = lo /\ LatestLeft(from, base)[h] = hi
            BY <1>9, <3>2, <3>3
        <3>6. lo < b
            BY <3>4
        <3>7. QED BY <3>4, <3>5, <3>6
    <2>2. QED BY <2>1
<1>11. pa \in [1..(k + u) -> Nat] /\ \A h \in 1..(k + u) : pa[h] < b
    <2>1. u \in Nat \ {0}
        OBVIOUS
    <2>2. /\ pa \in [1..(k + u) -> Nat]
          /\ \A h \in 1..(k + u) : InsertedAt(pa, EarliestLeft(from, base), start.min, finish.min, u, k, h)
        BY <1>4, <1>6, <1>9, <2>1, InsertFinishCases
    <2>3. ASSUME NEW h \in 1..(k + u) PROVE pa[h] < b
        <3>1. InsertedAt(pa, EarliestLeft(from, base), start.min, finish.min, u, k, h)
            BY <2>2
        <3>2. finish.min < b /\ start.min < b
            BY <1>6
        <3>3. \A g \in 1..k : MaxOf(start.min, EarliestLeft(from, base)[g]) < b
            BY <1>10, <3>2 DEF MaxOf
        <3>4. (h <= k => h \in 1..k) /\ (h > u /\ h - u <= k => h - u \in 1..k)
            OBVIOUS
        <3>5. QED BY <3>1, <3>2, <3>3, <3>4 DEF InsertedAt
    <2>4. QED BY <2>2, <2>3
<1>12. ca \in [1..(k + u) -> Nat] /\ \A h \in 1..(k + u) : ca[h] < b
    <2>1. u \in Nat \ {0} /\ start.min <= finish.max
        BY <1>6
    <2>2. /\ ca \in [1..(k + u) -> Nat]
          /\ \A h \in 1..(k + u) : InsertedAt(ca, LatestLeft(from, base), start.min, finish.max, u, k, h)
        BY <1>5, <1>6, <1>9, <2>1, InsertFinishCases
    <2>3. ASSUME NEW h \in 1..(k + u) PROVE ca[h] < b
        <3>1. InsertedAt(ca, LatestLeft(from, base), start.min, finish.max, u, k, h)
            BY <2>2
        <3>2. start.min < b
            BY <1>6
        <3>3. \A g \in 1..k : MaxOf(start.min, LatestLeft(from, base)[g]) < b
            BY <1>10, <3>2 DEF MaxOf
        <3>4. (h <= k => h \in 1..k) /\ (h > u /\ h - u <= k => h - u \in 1..k)
            OBVIOUS
        <3>5. QED BY <3>1, <3>3, <3>4 DEF InsertedAt
    <2>4. QED BY <2>2, <2>3
<1> HIDE DEF a
<1>13. CASE i <= base - u
    <2>1. i \in 1..(base - u) /\ u + i \in 1..n
        BY <1>2, <1>13
    <2>2. a[i].max = MinOf(start.max, MaxOf(start.min, from[u + i].max))
        BY <1>8, <2>1
    <2>3. from[u + i].max \in Nat
        BY <1>7, <2>1
    <2>4. a[i].max < b
        BY <1>6, <2>2, <2>3 DEF MinOf, MaxOf
    <2>5. QED BY <2>4 DEF a
<1>14. CASE ~(i <= base - u)
    <2>1. PICK h : h = i - (base - u)
        OBVIOUS
    <2>2. i \in (base - u + 1)..n
        BY <1>2, <1>14
    <2>3. h \in 1..(k + u) /\ a[i] = Interval(pa[h], ca[h])
        BY <1>3, <1>8, <2>1, <2>2
    <2>4. pa[h] \in Nat /\ ca[h] \in Nat /\ pa[h] < b /\ ca[h] < b
        BY <1>11, <1>12, <2>3
    <2>5. a[i].max < b
        BY <2>3, <2>4 DEF Interval
    <2>6. QED BY <2>5 DEF a
<1>15. QED BY <1>13, <1>14

\* Merging two trackers gives a tracker whose intervals contain the intervals
\* of both.
LEMMA MergeFacts ==
    ASSUME NEW n \in Nat, NEW a \in Trackers(n), NEW b \in Trackers(n)
    PROVE  /\ MergeAvailability(a, b) \in Trackers(n)
           /\ \A i \in 1..n :
                /\ MergeAvailability(a, b)[i].min <= a[i].min
                /\ MergeAvailability(a, b)[i].min <= b[i].min
                /\ a[i].max <= MergeAvailability(a, b)[i].max
                /\ b[i].max <= MergeAvailability(a, b)[i].max
<1> DEFINE m == MergeAvailability(a, b)
<1>1. /\ DOMAIN a = 1..n
      /\ \A i \in 1..n : /\ a[i].min \in Nat /\ a[i].max \in Nat /\ a[i].min <= a[i].max
                         /\ b[i].min \in Nat /\ b[i].max \in Nat /\ b[i].min <= b[i].max
      /\ \A i, j \in 1..n : i <= j => /\ a[i].min <= a[j].min /\ a[i].max <= a[j].max
                                      /\ b[i].min <= b[j].min /\ b[i].max <= b[j].max
    BY TrackerFacts
<1>2. ASSUME NEW i \in 1..n
      PROVE  /\ m[i] = Widen(a[i], b[i])
             /\ m[i].min = MinOf(a[i].min, b[i].min) /\ m[i].max = MaxOf(a[i].max, b[i].max)
             /\ m[i] \in Intervals(Nat)
    <2>1. m[i] = Widen(a[i], b[i])
        BY <1>1 DEF MergeAvailability
    <2>2. QED BY <2>1, <1>1 DEF Widen, MinOf, MaxOf, Intervals
<1>3. m \in [1..n -> Intervals(Nat)]
    <2>1. DOMAIN m = 1..n /\ m = [i \in 1..n |-> m[i]]
        BY <1>1 DEF MergeAvailability
    <2>2. QED BY <2>1, <1>2
<1>4. ASSUME NEW i \in 1..n, NEW j \in 1..n, i <= j
      PROVE  m[i].min <= m[j].min /\ m[i].max <= m[j].max
    <2>1. /\ m[i].min = MinOf(a[i].min, b[i].min) /\ m[i].max = MaxOf(a[i].max, b[i].max)
          /\ m[j].min = MinOf(a[j].min, b[j].min) /\ m[j].max = MaxOf(a[j].max, b[j].max)
        BY <1>2
    <2>2. /\ a[i].min \in Nat /\ a[j].min \in Nat /\ b[i].min \in Nat /\ b[j].min \in Nat
          /\ a[i].max \in Nat /\ a[j].max \in Nat /\ b[i].max \in Nat /\ b[j].max \in Nat
          /\ a[i].min <= a[j].min /\ a[i].max <= a[j].max
          /\ b[i].min <= b[j].min /\ b[i].max <= b[j].max
        BY <1>1, <1>4
    <2> HIDE DEF m
    <2>3. QED BY <2>1, <2>2 DEF MinOf, MaxOf
<1>5. \A i \in 1..n : m[i].min <= m[i].max
    BY <1>2 DEF Intervals
<1>6. IsTracker(m)
    <2>1. DOMAIN m = 1..n
        BY <1>3
    <2>2. QED BY <2>1, <1>4, <1>5 DEF IsTracker
<1>7. \A i \in 1..n : /\ m[i].min <= a[i].min /\ m[i].min <= b[i].min
                      /\ a[i].max <= m[i].max /\ b[i].max <= m[i].max
    BY <1>1, <1>2 DEF MinOf, MaxOf
<1>8. QED BY <1>3, <1>6, <1>7 DEF Trackers
(***************************************************************************)
(* Cores that are held.                                                    *)
(***************************************************************************)

\* At least c cores are not available before t.
BusyUntil(a, c, t) == c <= Len(a) /\ (c > 0 => a[Len(a) - c + 1].min >= t)

LEMMA FewerBusy ==
    ASSUME NEW n \in Nat, NEW a \in Trackers(n), NEW c \in Nat, NEW d \in 0..c,
           NEW t \in Nat, NEW h \in 0..t, BusyUntil(a, c, t)
    PROVE  BusyUntil(a, d, h)
<1>1. /\ Len(a) = n
      /\ \A i \in 1..n : a[i].min \in Nat
      /\ \A i, j \in 1..n : i <= j => a[i].min <= a[j].min
    BY TrackerFacts
<1>2. CASE d = 0
    BY <1>1, <1>2 DEF BusyUntil
<1>3. CASE d > 0
    <2>1. n - c + 1 \in 1..n /\ n - d + 1 \in 1..n /\ n - c + 1 <= n - d + 1
        BY <1>1, <1>3 DEF BusyUntil
    <2>2. a[n - c + 1].min >= t /\ a[n - c + 1].min <= a[n - d + 1].min
        BY <1>1, <1>3, <2>1 DEF BusyUntil
    <2>3. QED BY <1>1, <1>3, <2>1, <2>2 DEF BusyUntil
<1>4. QED BY <1>2, <1>3

\* What is held of the cores in either tracker is held in the merged one.
LEMMA MergeKeepsBusy ==
    ASSUME NEW n \in Nat, NEW a \in Trackers(n), NEW b \in Trackers(n), NEW c \in Nat,
           NEW t \in Nat, BusyUntil(a, c, t), BusyUntil(b, c, t)
    PROVE  BusyUntil(MergeAvailability(a, b), c, t)
<1>1. /\ Len(a) = n /\ Len(b) = n /\ DOMAIN a = 1..n /\ Len(MergeAvailability(a, b)) = n
      /\ \A i \in 1..n : a[i].min \in Nat /\ b[i].min \in Nat
    BY TrackerFacts, MergeFacts
<1>2. CASE c = 0
    BY <1>1, <1>2 DEF BusyUntil
<1>3. CASE c > 0
    <2>1. n - c + 1 \in 1..n
        BY <1>1, <1>3 DEF BusyUntil
    <2>2. a[n - c + 1].min >= t /\ b[n - c + 1].min >= t
        BY <1>1, <1>3, <2>1 DEF BusyUntil
    <2>3. MergeAvailability(a, b)[n - c + 1] = Widen(a[n - c + 1], b[n - c + 1])
        BY <1>1, <2>1 DEF MergeAvailability
    <2>4. MergeAvailability(a, b)[n - c + 1].min >= t
        BY <1>1, <2>1, <2>2, <2>3 DEF Widen, MinOf
    <2>5. QED BY <1>1, <1>3, <2>4 DEF BusyUntil
<1>4. QED BY <1>2, <1>3

\* The times inserted keep the last c places busy, and u more of them
\* until the finish time.
LEMMA InsertedKeepsBusy ==
    ASSUME NEW k \in Nat, NEW u \in Nat \ {0}, NEW times \in [1..k -> Nat],
           NonDecreasing(times, k), NEW m \in Nat, NEW finish \in Nat, m <= finish,
           NEW c \in 0..k, NEW t \in Nat, c > 0 => times[k - c + 1] >= t,
           NEW r, r = Inserted(times, m, finish, u, k)
    PROVE  /\ c > 0 => r[k + u - c + 1] >= t
           /\ t <= finish => r[k - c + 1] >= t
<1>1. /\ r \in [1..(k + u) -> Nat]
      /\ \A i \in 1..(k + u) : InsertedAt(r, times, m, finish, u, k, i)
    BY InsertFinishCases
<1>2. ASSUME NEW i \in 1..k, c > 0, i >= k - c + 1
      PROVE  times[i] >= t /\ times[i] \in Nat
    <2>1. k - c + 1 \in 1..k /\ k - c + 1 <= i
        BY <1>2
    <2>2. times[k - c + 1] <= times[i]
        BY <2>1 DEF NonDecreasing
    <2>3. QED BY <1>2, <2>1, <2>2
<1>3. ASSUME c > 0
      PROVE  r[k + u - c + 1] >= t
    <2>1. k + u - c + 1 \in 1..(k + u) /\ k - c + 1 \in 1..k
        BY <1>3
    <2>2. InsertedAt(r, times, m, finish, u, k, k + u - c + 1)
        BY <1>1, <2>1
    <2>3. k + u - c + 1 - u = k - c + 1
        BY <2>1
    <2>4. times[k - c + 1] >= t /\ times[k - c + 1] \in Nat
        BY <1>2, <1>3, <2>1
    <2>5. k + u - c + 1 <= k => times[k + u - c + 1] >= t /\ times[k + u - c + 1] \in Nat
        BY <1>2, <1>3, <2>1
    <2>6. QED BY <2>1, <2>2, <2>3, <2>4, <2>5 DEF InsertedAt, MaxOf
<1>4. ASSUME t <= finish
      PROVE  r[k - c + 1] >= t
    <2>1. k - c + 1 \in 1..(k + u)
        OBVIOUS
    <2>2. InsertedAt(r, times, m, finish, u, k, k - c + 1)
        BY <1>1, <2>1
    <2>3. k - c + 1 <= k => c > 0 /\ times[k - c + 1] >= t /\ times[k - c + 1] \in Nat
        BY <1>2, <2>1
    <2>4. k - c + 1 - u \in 1..k => times[k - c + 1 - u] \in Nat
        OBVIOUS
    <2>5. QED BY <1>4, <2>1, <2>2, <2>3, <2>4 DEF InsertedAt, MaxOf
<1>5. QED BY <1>3, <1>4

\* An update keeps the cores busy that it does not free or use, and those that
\* it uses until the earliest finish time.
LEMMA UpdateKeepsBusy ==
    ASSUME NEW n \in Nat, NEW from \in Trackers(n),
           NEW start \in Intervals(Nat), NEW finish \in Intervals(Nat),
           start.min <= finish.min, start.max <= finish.max,
           NEW u \in 1..n, NEW f \in 0..n,
           NEW c \in 0..(n - MaxOf(f, u)), NEW t \in Nat, BusyUntil(from, c, t)
    PROVE  /\ BusyUntil(Update(from, start, finish, u, f), c, t)
           /\ t <= finish.min => BusyUntil(Update(from, start, finish, u, f), c + u, t)
<1> DEFINE base == MaxOf(f, u)
           extra == base - u
           k == n - base
           a == Update(from, start, finish, u, f)
           pa == Inserted(EarliestLeft(from, base), start.min, finish.min, u, k)
           ca == Inserted(LatestLeft(from, base), start.min, finish.max, u, k)
<1>1. base \in u..n /\ base \in 0..n /\ extra \in 0..n /\ k \in Nat /\ n - extra = k + u /\ c \in 0..k
    BY DEF MaxOf
<1>2. start.min \in Nat /\ start.max \in Nat /\ finish.min \in Nat /\ finish.max \in Nat
      /\ start.min <= finish.max /\ finish.min <= finish.max
    BY DEF Intervals
<1>3. /\ a \in Trackers(n)
      /\ \A i \in (extra + 1)..n : /\ i - extra \in 1..(k + u)
                                   /\ a[i] = Interval(pa[i - extra], ca[i - extra])
    <2> HIDE DEF a, pa, ca, base
    <2>1. a = Update(from, start, finish, u, f) /\ base = MaxOf(f, u)
        BY DEF a, base
    <2>2. /\ pa = Inserted(EarliestLeft(from, base), start.min, finish.min, u, n - base)
          /\ ca = Inserted(LatestLeft(from, base), start.min, finish.max, u, n - base)
        BY DEF pa, ca
    <2>3. QED BY <2>1, <2>2, UpdateFacts
<1>4. /\ EarliestLeft(from, base) \in [1..k -> Nat]
      /\ LatestLeft(from, base) \in [1..k -> Nat]
      /\ \A i \in 1..k : EarliestLeft(from, base)[i] = from[base + i].min
      /\ \A i \in 1..k : LatestLeft(from, base)[i] = from[base + i].max
      /\ NonDecreasing(EarliestLeft(from, base), k)
      /\ NonDecreasing(LatestLeft(from, base), k)
    BY <1>1, LeftFacts
<1>5. /\ Len(from) = n /\ Len(a) = n
      /\ \A i \in 1..n : from[i].min \in Nat /\ from[i].max \in Nat /\ from[i].min <= from[i].max
    BY <1>3, TrackerFacts
<1>6. c > 0 => EarliestLeft(from, base)[k - c + 1] >= t /\ LatestLeft(from, base)[k - c + 1] >= t
    <2> SUFFICES ASSUME c > 0
                 PROVE  EarliestLeft(from, base)[k - c + 1] >= t /\ LatestLeft(from, base)[k - c + 1] >= t
        OBVIOUS
    <2>1. k - c + 1 \in 1..k /\ base + (k - c + 1) = n - c + 1 /\ n - c + 1 \in 1..n
        BY <1>1
    <2>2. from[n - c + 1].min >= t
        BY <1>5 DEF BusyUntil
    <2> HIDE DEF k, base
    <2>3. /\ EarliestLeft(from, base)[k - c + 1] = from[n - c + 1].min
          /\ LatestLeft(from, base)[k - c + 1] = from[n - c + 1].max
        BY <1>4, <2>1
    <2>4. QED BY <1>5, <2>1, <2>2, <2>3
<1>7. /\ pa \in [1..(k + u) -> Nat] /\ ca \in [1..(k + u) -> Nat]
      /\ c > 0 => pa[k + u - c + 1] >= t /\ ca[k + u - c + 1] >= t
      /\ t <= finish.min => pa[k - c + 1] >= t /\ ca[k - c + 1] >= t
    <2>1. u \in Nat \ {0} /\ (t <= finish.min => t <= finish.max)
        BY <1>2
    <2>6. /\ pa = Inserted(EarliestLeft(from, base), start.min, finish.min, u, k)
          /\ ca = Inserted(LatestLeft(from, base), start.min, finish.max, u, k)
        OBVIOUS
    <2> HIDE DEF k, base, pa, ca
    <2>2. pa \in [1..(k + u) -> Nat] /\ ca \in [1..(k + u) -> Nat]
        BY <1>1, <1>2, <1>4, <2>1, <2>6, InsertFinishCases
    <2>3. /\ c > 0 => pa[k + u - c + 1] >= t
          /\ t <= finish.min => pa[k - c + 1] >= t
        BY <1>1, <1>2, <1>4, <1>6, <2>1, <2>6, InsertedKeepsBusy
    <2>4. /\ c > 0 => ca[k + u - c + 1] >= t
          /\ t <= finish.max => ca[k - c + 1] >= t
        BY <1>1, <1>2, <1>4, <1>6, <2>1, <2>6, InsertedKeepsBusy
    <2>5. QED BY <1>2, <2>2, <2>3, <2>4
<1> HIDE DEF a, pa, ca, extra, k, base
<1>8. BusyUntil(a, c, t)
    <2>1. CASE c = 0
        BY <1>5, <2>1 DEF BusyUntil
    <2>2. CASE c > 0
        <3>1. n - c + 1 \in (extra + 1)..n /\ n - c + 1 - extra = k + u - c + 1
            BY <1>1, <2>2
        <3>5. PICK i \in (extra + 1)..n : i = n - c + 1
            BY <3>1
        <3>6. a[i] = Interval(pa[i - extra], ca[i - extra]) /\ i - extra \in 1..(k + u)
            BY <1>3
        <3>2. a[n - c + 1] = Interval(pa[k + u - c + 1], ca[k + u - c + 1]) /\ k + u - c + 1 \in 1..(k + u)
            BY <1>1, <3>1, <3>5, <3>6
        <3>3. a[n - c + 1].min >= t
            BY <1>7, <2>2, <3>2 DEF Interval
        <3>4. QED BY <1>1, <1>5, <3>3 DEF BusyUntil
    <2>3. QED BY <2>1, <2>2
<1>9. ASSUME t <= finish.min
      PROVE  BusyUntil(a, c + u, t)
    <2>1. n - (c + u) + 1 \in (extra + 1)..n /\ n - (c + u) + 1 - extra = k - c + 1
        BY <1>1
    <2>5. PICK i \in (extra + 1)..n : i = n - (c + u) + 1
        BY <2>1
    <2>6. a[i] = Interval(pa[i - extra], ca[i - extra]) /\ i - extra \in 1..(k + u)
        BY <1>3
    <2>2. a[n - (c + u) + 1] = Interval(pa[k - c + 1], ca[k - c + 1]) /\ k - c + 1 \in 1..(k + u)
        BY <1>1, <2>1, <2>5, <2>6
    <2>3. a[n - (c + u) + 1].min >= t
        BY <1>7, <1>9, <2>2 DEF Interval
    <2>4. QED BY <1>1, <1>5, <2>3 DEF BusyUntil
<1>10. QED BY <1>8, <1>9 DEF a

-----------------------------------------------------------------------------
(***************************************************************************)
(* Coverage.  h maps every core to the instant at which it becomes free.   *)
(***************************************************************************)
FreeAt(cores, h, w) == {c \in cores : h[c] <= w}
FreeBefore(cores, h, w) == {c \in cores : h[c] < w}

\* The sizes of the sets of cores.
SizesIn(n, cores) ==
    \A A, B \in SUBSET cores :
        /\ Cardinality(A) \in Nat /\ Cardinality(B) \in Nat
        /\ Cardinality(A) <= n
        /\ A \subseteq B => Cardinality(A) <= Cardinality(B)
        /\ Cardinality(A \ B) \in Nat
        /\ Cardinality(A \ B) >= Cardinality(A) - Cardinality(B)
        /\ B \subseteq A => Cardinality(A \ B) = Cardinality(A) - Cardinality(B)

LEMMA AllSizes ==
    ASSUME NEW n \in Nat \ {0}, NEW cores, IsFiniteSet(cores), Cardinality(cores) = n
    PROVE  SizesIn(n, cores)
<1> SUFFICES ASSUME NEW A \in SUBSET cores, NEW B \in SUBSET cores
             PROVE  /\ Cardinality(A) \in Nat /\ Cardinality(B) \in Nat
                    /\ Cardinality(A) <= n
                    /\ A \subseteq B => Cardinality(A) <= Cardinality(B)
                    /\ Cardinality(A \ B) \in Nat
                    /\ Cardinality(A \ B) >= Cardinality(A) - Cardinality(B)
                    /\ B \subseteq A => Cardinality(A \ B) = Cardinality(A) - Cardinality(B)
    BY DEF SizesIn
<1>1. IsFiniteSet(A) /\ IsFiniteSet(B)
    BY FS_Subset
<1>2. Cardinality(A) \in Nat /\ Cardinality(B) \in Nat
    BY <1>1, FS_CardinalityType
<1>3. Cardinality(A) <= n
    BY FS_Subset
<1>4. A \subseteq B => Cardinality(A) <= Cardinality(B)
    BY <1>1, FS_Subset
<1>5. /\ IsFiniteSet(A \ B)
      /\ Cardinality(A \ B) = Cardinality(A) - Cardinality(A \cap B)
    BY <1>1, FS_Difference
<1>6. Cardinality(A \ B) \in Nat
    BY <1>5, FS_CardinalityType
<1>7. Cardinality(A \cap B) \in Nat /\ Cardinality(A \cap B) <= Cardinality(B)
    <2>1. IsFiniteSet(A \cap B) /\ Cardinality(A \cap B) <= Cardinality(B)
        BY <1>1, FS_Intersection
    <2>2. QED BY <2>1, FS_CardinalityType
<1>8. Cardinality(A \ B) >= Cardinality(A) - Cardinality(B)
    BY <1>2, <1>5, <1>7
<1>9. B \subseteq A => A \cap B = B
    OBVIOUS
<1>10. QED BY <1>2, <1>3, <1>4, <1>5, <1>6, <1>8, <1>9

LEMMA SubsetSizes ==
    ASSUME NEW n \in Nat \ {0}, NEW cores, IsFiniteSet(cores), Cardinality(cores) = n,
           NEW A \in SUBSET cores, NEW B \in SUBSET cores
    PROVE  /\ Cardinality(A) \in Nat /\ Cardinality(B) \in Nat
           /\ Cardinality(A) <= n
           /\ A \subseteq B => Cardinality(A) <= Cardinality(B)
           /\ Cardinality(A \ B) \in Nat
           /\ Cardinality(A \ B) >= Cardinality(A) - Cardinality(B)
           /\ B \subseteq A => Cardinality(A \ B) = Cardinality(A) - Cardinality(B)
<1>1. SizesIn(n, cores)
    BY AllSizes
<1>2. QED BY <1>1 DEF SizesIn

\* The cores of S run a job from t to x: h becomes r.
Ran(cores, h, S, x, r) == r = [c \in cores |-> IF c \in S THEN x ELSE h[c]]

\* The p-th latest instant of the new tracker comes either with the instants
\* of old cores that the job does not use, or with the job's own finish time.
LEMMA UpdateCertain ==
    ASSUME NEW n \in Nat \ {0}, NEW cores, IsFiniteSet(cores), Cardinality(cores) = n,
           NEW from \in Trackers(n),
           NEW start \in Intervals(Nat), NEW finish \in Intervals(Nat),
           start.min <= finish.min, start.max <= finish.max,
           NEW u \in 1..n, NEW f \in 0..n,
           NEW h \in [cores -> Nat], NEW S \in SUBSET cores, Cardinality(S) = u,
           NEW t \in start.min..start.max, NEW x \in finish.min..finish.max, t <= x,
           \A c \in S : h[c] <= t,
           Cardinality(FreeAt(cores, h, t)) >= f,
           NEW r, Ran(cores, h, S, x, r),
           \A p \in 1..n : Cardinality(FreeAt(cores, h, from[p].max)) >= p,
           NEW a, a = Update(from, start, finish, u, f),
           NEW i \in 1..n
    PROVE  Cardinality(FreeAt(cores, r, a[i].max)) >= i
<1>0. SizesIn(n, cores)
    BY AllSizes
<1> DEFINE base == MaxOf(f, u)
           extra == base - u
           k == n - base
           idx == i - extra
           times == LatestLeft(from, base)
           ca == Inserted(times, start.min, finish.max, u, k)
           pa == Inserted(EarliestLeft(from, base), start.min, finish.min, u, k)
           w == a[i].max
<1>1. /\ n \in Nat /\ base \in u..n /\ base \in 0..n
      /\ extra \in 0..n /\ k \in Nat /\ i \in Nat /\ u \in Nat \ {0}
      /\ (f > u => base = f) /\ (f <= u => base = u) /\ f \in Nat
    BY DEF MaxOf
<1>2. /\ a \in Trackers(n)
      /\ \A j \in 1..extra :
            a[j].max = MinOf(start.max, MaxOf(start.min, from[u + j].max))
      /\ \A j \in (extra + 1)..n :
            j - extra \in 1..(k + u) /\ ca[j - extra] <= a[j].max
    BY <1>1, UpdateFacts, SMTT(60)
<1>3. /\ start.min \in Nat /\ start.max \in Nat /\ finish.min \in Nat /\ finish.max \in Nat
      /\ start.min <= start.max /\ finish.min <= finish.max
      /\ t \in Nat /\ x \in Nat /\ t <= start.max /\ x <= finish.max
    BY DEF Intervals
<1>4. w \in Nat /\ \A j \in 1..n : from[j].max \in Nat
    BY <1>1, <1>2, TrackerFacts
<1>5. \A c \in cores : h[c] \in Nat /\ r[c] = IF c \in S THEN x ELSE h[c]
    BY DEF Ran
<1>6. ASSUME u + i <= n, from[u + i].max <= w
      PROVE  Cardinality(FreeAt(cores, r, w)) >= i
    <2>1. u + i \in 1..n
        BY <1>1, <1>6
    <2>2. FreeAt(cores, h, from[u + i].max) \ S \subseteq FreeAt(cores, r, w)
        BY <1>4, <1>5, <1>6, <2>1 DEF FreeAt
    <2>3. Cardinality(FreeAt(cores, h, from[u + i].max)) >= u + i
        BY <2>1
    <2>4. /\ FreeAt(cores, h, from[u + i].max) \in SUBSET cores
          /\ FreeAt(cores, h, from[u + i].max) \ S \in SUBSET cores
          /\ FreeAt(cores, r, w) \in SUBSET cores
        BY DEF FreeAt
    <2>5. /\ Cardinality(FreeAt(cores, h, from[u + i].max)) \in Nat
          /\ Cardinality(FreeAt(cores, h, from[u + i].max) \ S) \in Nat
          /\ Cardinality(FreeAt(cores, h, from[u + i].max) \ S) >= Cardinality(FreeAt(cores, h, from[u + i].max)) - u
        BY <2>4, <1>0 DEF SizesIn
    <2>6. /\ Cardinality(FreeAt(cores, r, w)) \in Nat
          /\ Cardinality(FreeAt(cores, h, from[u + i].max) \ S) <= Cardinality(FreeAt(cores, r, w))
        BY <2>2, <2>4, <1>0 DEF SizesIn
    <2>7. QED BY <1>1, <2>3, <2>5, <2>6
<1>7. ASSUME from[i].max <= w, x <= w
      PROVE  Cardinality(FreeAt(cores, r, w)) >= i
    <2>1. FreeAt(cores, h, from[i].max) \subseteq FreeAt(cores, r, w)
        BY <1>4, <1>5, <1>7 DEF FreeAt
    <2>2. Cardinality(FreeAt(cores, h, from[i].max)) >= i
        OBVIOUS
    <2>3. FreeAt(cores, h, from[i].max) \in SUBSET cores /\ FreeAt(cores, r, w) \in SUBSET cores
        BY DEF FreeAt
    <2>4. /\ Cardinality(FreeAt(cores, h, from[i].max)) \in Nat /\ Cardinality(FreeAt(cores, r, w)) \in Nat
          /\ Cardinality(FreeAt(cores, h, from[i].max)) <= Cardinality(FreeAt(cores, r, w))
        BY <2>1, <2>3, <1>0 DEF SizesIn
    <2>5. QED BY <1>1, <2>2, <2>4
<1>8. CASE i <= extra
    <2>1. w = MinOf(start.max, MaxOf(start.min, from[u + i].max)) /\ u + i \in 1..n
        BY <1>1, <1>2, <1>8
    <2>2. CASE w = start.max
        <3>1. FreeAt(cores, h, t) \ S \subseteq FreeAt(cores, r, w)
            BY <1>3, <1>5, <2>2 DEF FreeAt
        <3>2. FreeAt(cores, h, t) \in SUBSET cores /\ FreeAt(cores, h, t) \ S \in SUBSET cores /\ FreeAt(cores, r, w) \in SUBSET cores
            BY DEF FreeAt
        <3>3. /\ Cardinality(FreeAt(cores, h, t)) \in Nat /\ Cardinality(FreeAt(cores, h, t) \ S) \in Nat
              /\ Cardinality(FreeAt(cores, h, t) \ S) >= Cardinality(FreeAt(cores, h, t)) - u
            BY <3>2, <1>0 DEF SizesIn
        <3>4. /\ Cardinality(FreeAt(cores, r, w)) \in Nat
              /\ Cardinality(FreeAt(cores, h, t) \ S) <= Cardinality(FreeAt(cores, r, w))
            BY <3>1, <3>2, <1>0 DEF SizesIn
        <3>5. QED BY <1>1, <1>8, <3>3, <3>4
    <2>3. CASE w # start.max
        <3>1. from[u + i].max \in Nat
            BY <1>4, <2>1
        <3>2. from[u + i].max <= w
            BY <1>3, <2>1, <2>3, <3>1 DEF MinOf, MaxOf
        <3>3. QED BY <1>1, <1>6, <2>1, <3>2
    <2>4. QED BY <2>2, <2>3
<1>9. CASE i > extra
    <2>1. idx \in 1..(k + u) /\ ca[idx] <= w
        BY <1>1, <1>2, <1>9
    <2>2. /\ times \in [1..k -> Nat]
          /\ NonDecreasing(times, k)
          /\ \A j \in 1..k : times[j] = from[base + j].max
        <3>1. times \in [1..k -> Nat]
            BY <1>1, LeftFacts, Zenon
        <3>2. \A j \in 1..k : times[j] = from[base + j].max
            <4>1. base \in 0..n /\ n \in Nat
                BY <1>1
            <4> HIDE DEF base
            <4>2. \A j \in 1..(n - base) : LatestLeft(from, base)[j] = from[base + j].max
                BY <4>1, LeftFacts
            <4>3. QED BY <4>2
        <3>3. NonDecreasing(times, k)
            BY <1>1, LeftFacts, Zenon
        <3>4. QED BY <3>1, <3>2, <3>3
    <2>3. ca \in [1..(k + u) -> Nat] /\ InsertedAt(ca, times, start.min, finish.max, u, k, idx)
        <3>1. start.min <= finish.max
            BY <1>3
        <3>2. QED BY <1>1, <1>3, <2>1, <2>2, <3>1, InsertFinishCases
    <2>4. base + idx = u + i /\ base + (idx - u) = i
        BY <1>1
    <2>5. ca[idx] \in Nat
        BY <2>1, <2>3
    <2>6. CASE idx <= k /\ times[idx] <= finish.max /\ ca[idx] = MaxOf(start.min, times[idx])
        <3>1. idx \in 1..k /\ u + i \in 1..n
            BY <1>1, <2>1, <2>6
        <3>2. times[idx] = from[u + i].max /\ from[u + i].max \in Nat
            BY <1>4, <2>2, <2>4, <3>1
        <3>3. from[u + i].max <= w
            BY <1>3, <1>4, <2>1, <2>6, <3>2 DEF MaxOf
        <3>4. QED BY <1>1, <1>6, <3>1, <3>3
    <2>7. CASE ca[idx] = finish.max /\ idx <= u
        <3>1. x <= w /\ t <= w
            BY <1>3, <1>4, <2>1, <2>7
        <3>2. S \subseteq FreeAt(cores, r, w) /\ FreeAt(cores, h, t) \subseteq FreeAt(cores, r, w)
            BY <1>3, <1>4, <1>5, <3>1 DEF FreeAt
        <3>3. FreeAt(cores, h, t) \in SUBSET cores /\ FreeAt(cores, r, w) \in SUBSET cores
            BY DEF FreeAt
        <3>4. /\ Cardinality(FreeAt(cores, h, t)) \in Nat /\ Cardinality(FreeAt(cores, r, w)) \in Nat
              /\ u <= Cardinality(FreeAt(cores, r, w))
              /\ Cardinality(FreeAt(cores, h, t)) <= Cardinality(FreeAt(cores, r, w))
            BY <3>2, <3>3, <1>0 DEF SizesIn
        <3>5. i <= base
            BY <1>1, <2>7
        <3>6. QED BY <1>1, <3>4, <3>5
    <2>8. CASE ca[idx] = finish.max /\ idx - u \in 1..k /\ times[idx - u] <= finish.max
        <3>1. times[idx - u] = from[i].max
            BY <2>2, <2>4, <2>8
        <3>2. from[i].max <= w /\ x <= w
            BY <1>3, <1>4, <2>1, <2>8, <3>1
        <3>3. QED BY <1>7, <3>2
    <2>9. CASE idx > u /\ idx - u <= k /\ times[idx - u] > finish.max /\ ca[idx] = MaxOf(start.min, times[idx - u])
        <3>1. idx - u \in 1..k
            BY <1>1, <2>1, <2>9
        <3>2. times[idx - u] = from[i].max
            BY <2>2, <2>4, <3>1
        <3>3. from[i].max <= w /\ x <= w
            BY <1>3, <1>4, <2>1, <2>9, <3>2 DEF MaxOf
        <3>4. QED BY <1>7, <3>3
    <2>10. QED BY <2>3, <2>6, <2>7, <2>8, <2>9 DEF InsertedAt
<1>10. QED BY <1>1, <1>8, <1>9

\* No i cores are free before the i-th earliest instant of the new tracker, as
\* long as that instant lies after the job's start: the cores of S were free at
\* the start and are not free again before the job finishes.
LEMMA UpdatePossible ==
    ASSUME NEW n \in Nat \ {0}, NEW cores, IsFiniteSet(cores), Cardinality(cores) = n,
           NEW from \in Trackers(n),
           NEW start \in Intervals(Nat), NEW finish \in Intervals(Nat),
           start.min <= finish.min, start.max <= finish.max,
           NEW u \in 1..n, NEW f \in 0..n,
           NEW h \in [cores -> Nat], NEW S \in SUBSET cores, Cardinality(S) = u,
           NEW t \in start.min..start.max, NEW x \in finish.min..finish.max,
           \A c \in S : h[c] <= t,
           NEW r, Ran(cores, h, S, x, r),
           NEW last \in Nat, last <= t,
           \A p \in 1..n :
               last < from[p].min => Cardinality(FreeBefore(cores, h, from[p].min)) < p,
           NEW a, a = Update(from, start, finish, u, f),
           NEW i \in 1..n, t < a[i].min
    PROVE  Cardinality(FreeBefore(cores, r, a[i].min)) < i
<1>0. SizesIn(n, cores)
    BY AllSizes
<1> DEFINE base == MaxOf(f, u)
           extra == base - u
           k == n - base
           idx == i - extra
           times == EarliestLeft(from, base)
           pa == Inserted(times, start.min, finish.min, u, k)
           ca == Inserted(LatestLeft(from, base), start.min, finish.max, u, k)
           w == pa[idx]
<1>1. /\ n \in Nat /\ base \in u..n /\ base \in 0..n
      /\ extra \in 0..n /\ k \in Nat /\ i \in Nat /\ u \in Nat \ {0}
    BY DEF MaxOf
<1>2. /\ a \in Trackers(n)
      /\ \A j \in 1..extra : a[j].min = start.min
      /\ \A j \in (extra + 1)..n :
            j - extra \in 1..(k + u) /\ a[j].min <= pa[j - extra]
    BY <1>1, UpdateFacts, SMTT(60)
<1>3. /\ start.min \in Nat /\ finish.min \in Nat /\ finish.max \in Nat
      /\ t \in Nat /\ x \in Nat /\ start.min <= t /\ finish.min <= x
    BY DEF Intervals
<1>4. a[i].min \in Nat /\ \A j \in 1..n : from[j].min \in Nat
    BY <1>1, <1>2, TrackerFacts
<1>5. \A c \in cores : h[c] \in Nat /\ r[c] = IF c \in S THEN x ELSE h[c]
    BY DEF Ran
<1>6. i > extra
    <2>1. i <= extra => a[i].min <= t
        BY <1>1, <1>2, <1>3
    <2>2. QED BY <1>1, <1>3, <1>4, <2>1
<1>7. idx \in 1..(k + u) /\ a[i].min <= w
    BY <1>1, <1>2, <1>6
<1>8. /\ times \in [1..k -> Nat]
      /\ NonDecreasing(times, k)
      /\ \A j \in 1..k : times[j] = from[base + j].min
    <2>1. times \in [1..k -> Nat]
        BY <1>1, LeftFacts, Zenon
    <2>2. \A j \in 1..k : times[j] = from[base + j].min
        <3>1. from \in Trackers(n) /\ n \in Nat /\ base \in 0..n
            BY <1>1
        <3> HIDE DEF base
        <3>2. \A j \in 1..(n - base) : EarliestLeft(from, base)[j] = from[base + j].min
            BY <3>1, LeftFacts
        <3>3. QED BY <3>2
    <2>3. NonDecreasing(times, k)
        BY <1>1, LeftFacts, Zenon
    <2>4. QED BY <2>1, <2>2, <2>3
<1>9. pa \in [1..(k + u) -> Nat] /\ InsertedAt(pa, times, start.min, finish.min, u, k, idx)
    BY <1>1, <1>3, <1>7, <1>8, InsertFinishCases
<1>10. w \in Nat /\ t < w /\ start.min < w
    <2>1. w \in Nat
        BY <1>7, <1>9
    <2>2. QED BY <1>3, <1>4, <1>7, <2>1
<1>11. base + idx = u + i /\ base + (idx - u) = i
    BY <1>1
<1>12. SUFFICES Cardinality(FreeBefore(cores, r, w)) < i
    <2>1. FreeBefore(cores, r, a[i].min) \subseteq FreeBefore(cores, r, w)
        BY <1>3, <1>4, <1>5, <1>7, <1>10 DEF FreeBefore
    <2>2. FreeBefore(cores, r, a[i].min) \in SUBSET cores /\ FreeBefore(cores, r, w) \in SUBSET cores
        BY DEF FreeBefore
    <2>3. /\ Cardinality(FreeBefore(cores, r, a[i].min)) \in Nat /\ Cardinality(FreeBefore(cores, r, w)) \in Nat
          /\ Cardinality(FreeBefore(cores, r, a[i].min)) <= Cardinality(FreeBefore(cores, r, w))
        BY <2>1, <2>2, <1>0 DEF SizesIn
    <2>4. QED BY <1>1, <2>3
<1>13. S \subseteq FreeBefore(cores, h, w)
    BY <1>3, <1>5, <1>10 DEF FreeBefore
<1>14. /\ FreeBefore(cores, h, w) \in SUBSET cores /\ FreeBefore(cores, h, w) \ S \in SUBSET cores
       /\ FreeBefore(cores, r, w) \in SUBSET cores
    BY DEF FreeBefore
<1>15. /\ Cardinality(FreeBefore(cores, h, w)) \in Nat /\ Cardinality(FreeBefore(cores, h, w)) <= n
       /\ Cardinality(FreeBefore(cores, h, w) \ S) = Cardinality(FreeBefore(cores, h, w)) - u
       /\ Cardinality(FreeBefore(cores, r, w)) \in Nat
    BY <1>13, <1>14, <1>0 DEF SizesIn
\* The finish time is not before w: the cores of S are no longer counted.
<1>16. ASSUME w <= finish.min
       PROVE  Cardinality(FreeBefore(cores, r, w)) <= Cardinality(FreeBefore(cores, h, w)) - u
    <2>1. FreeBefore(cores, r, w) \subseteq FreeBefore(cores, h, w) \ S
        BY <1>3, <1>5, <1>10, <1>16 DEF FreeBefore
    <2>2. Cardinality(FreeBefore(cores, r, w)) <= Cardinality(FreeBefore(cores, h, w) \ S)
        BY <1>14, <2>1, <1>0 DEF SizesIn
    <2>3. QED BY <1>15, <2>2
<1>17. CASE idx <= k /\ times[idx] <= finish.min /\ w = MaxOf(start.min, times[idx])
    <2>1. idx \in 1..k /\ u + i \in 1..n
        BY <1>1, <1>7, <1>17
    <2>2. times[idx] = from[u + i].min /\ times[idx] \in Nat
        BY <1>8, <1>11, <2>1
    <2>3. w = from[u + i].min /\ w <= finish.min
        BY <1>3, <1>10, <1>17, <2>2 DEF MaxOf
    <2>4. last < w
        BY <1>3, <1>10
    <2>5. Cardinality(FreeBefore(cores, h, w)) < u + i
        BY <2>1, <2>3, <2>4
    <2>6. QED BY <1>1, <1>15, <1>16, <2>3, <2>5
<1>18. CASE (idx > k \/ times[idx] > finish.min) /\ w = finish.min
    <2>1. w <= finish.min
        BY <1>3, <1>18
    <2>2. CASE idx > k
        <3>1. i > n - u
            BY <1>1, <2>2
        <3>2. QED BY <1>1, <1>15, <1>16, <2>1, <3>1
    <2>3. CASE idx <= k
        <3>1. idx \in 1..k /\ u + i \in 1..n
            BY <1>1, <1>7, <2>3
        <3>2. times[idx] = from[u + i].min /\ times[idx] \in Nat
            BY <1>8, <1>11, <3>1
        <3>3. w < from[u + i].min /\ last < from[u + i].min /\ from[u + i].min \in Nat
            BY <1>1, <1>3, <1>10, <1>18, <2>3, <3>2
        <3>4. Cardinality(FreeBefore(cores, h, from[u + i].min)) < u + i
            BY <3>1, <3>3
        <3>5. FreeBefore(cores, h, w) \subseteq FreeBefore(cores, h, from[u + i].min)
            BY <1>5, <1>10, <3>3 DEF FreeBefore
        <3>6. FreeBefore(cores, h, from[u + i].min) \in SUBSET cores
            BY DEF FreeBefore
        <3>7. /\ Cardinality(FreeBefore(cores, h, from[u + i].min)) \in Nat
              /\ Cardinality(FreeBefore(cores, h, w)) <= Cardinality(FreeBefore(cores, h, from[u + i].min))
            BY <1>14, <3>5, <3>6, <1>0 DEF SizesIn
        <3>8. QED BY <1>1, <1>15, <1>16, <2>1, <3>4, <3>7
    <2>4. QED BY <1>1, <2>2, <2>3
<1>19. CASE idx > u /\ idx - u <= k /\ times[idx - u] > finish.min /\ w = MaxOf(start.min, times[idx - u])
    <2>1. idx - u \in 1..k
        BY <1>1, <1>7, <1>19
    <2>2. times[idx - u] = from[i].min /\ times[idx - u] \in Nat
        BY <1>8, <1>11, <2>1
    <2>3. w = from[i].min /\ last < w
        BY <1>3, <1>10, <1>19, <2>2 DEF MaxOf
    <2>4. Cardinality(FreeBefore(cores, h, w)) < i
        BY <2>3
    <2>5. FreeBefore(cores, r, w) \subseteq FreeBefore(cores, h, w)
        BY <1>5, <1>13 DEF FreeBefore
    <2>6. Cardinality(FreeBefore(cores, r, w)) <= Cardinality(FreeBefore(cores, h, w))
        BY <1>14, <2>5, <1>0 DEF SizesIn
    <2>7. QED BY <1>1, <1>15, <2>4, <2>6
<1>20. QED BY <1>9, <1>17, <1>18, <1>19 DEF InsertedAt

\* Tracker a covers an execution in which the cores become free at the
\* instants h and the last dispatch was at the instant last.
Covered(cores, n, a, h, last) ==
    /\ \A p \in 1..n : Cardinality(FreeAt(cores, h, a[p].max)) >= p
    /\ \A p \in 1..n :
          last < a[p].min => Cardinality(FreeBefore(cores, h, a[p].min)) < p

\* Nothing starts on p cores before p cores are possibly available.
LEMMA CoveredStart ==
    ASSUME NEW n \in Nat \ {0}, NEW cores, IsFiniteSet(cores), Cardinality(cores) = n,
           NEW a \in Trackers(n), NEW h \in [cores -> Nat],
           NEW last \in Nat, Covered(cores, n, a, h, last),
           NEW t \in Nat, last <= t, NEW p \in 1..n, Cardinality(FreeAt(cores, h, t)) >= p
    PROVE  a[p].min <= t
<1>1. a[p].min \in Nat
    BY TrackerFacts
<1>2. SUFFICES ASSUME t < a[p].min
               PROVE  FALSE
    BY <1>1
<1>3. last < a[p].min
    BY <1>1, <1>2
<1>4. Cardinality(FreeBefore(cores, h, a[p].min)) < p
    BY <1>3 DEF Covered
<1>5. \A c \in cores : h[c] \in Nat
    OBVIOUS
<1>6. FreeAt(cores, h, t) \subseteq FreeBefore(cores, h, a[p].min)
    BY <1>1, <1>2, <1>5 DEF FreeAt, FreeBefore
<1>7. FreeAt(cores, h, t) \in SUBSET cores /\ FreeBefore(cores, h, a[p].min) \in SUBSET cores
    BY DEF FreeAt, FreeBefore
<1>8. /\ Cardinality(FreeAt(cores, h, t)) <= Cardinality(FreeBefore(cores, h, a[p].min))
      /\ Cardinality(FreeAt(cores, h, t)) \in Nat
      /\ Cardinality(FreeBefore(cores, h, a[p].min)) \in Nat
    BY <1>6, <1>7, SubsetSizes
<1>9. QED BY <1>4, <1>8

\* The new tracker covers the execution in which the job ran.
LEMMA CoveredUpdate ==
    ASSUME NEW n \in Nat \ {0}, NEW cores, IsFiniteSet(cores), Cardinality(cores) = n,
           NEW from \in Trackers(n),
           NEW start \in Intervals(Nat), NEW finish \in Intervals(Nat),
           start.min <= finish.min, start.max <= finish.max,
           NEW u \in 1..n, NEW f \in 0..n,
           NEW h \in [cores -> Nat], NEW S \in SUBSET cores, Cardinality(S) = u,
           NEW t \in start.min..start.max, NEW x \in finish.min..finish.max, t <= x,
           \A c \in S : h[c] <= t,
           Cardinality(FreeAt(cores, h, t)) >= f,
           NEW r, Ran(cores, h, S, x, r),
           NEW last \in Nat, last <= t, Covered(cores, n, from, h, last)
    PROVE  Covered(cores, n, Update(from, start, finish, u, f), r, t)
<1>1. PICK a : a = Update(from, start, finish, u, f)
    OBVIOUS
<1>2. /\ \A p \in 1..n : Cardinality(FreeAt(cores, h, from[p].max)) >= p
      /\ \A p \in 1..n :
            last < from[p].min => Cardinality(FreeBefore(cores, h, from[p].min)) < p
    BY DEF Covered
<1>3. \A p \in 1..n : Cardinality(FreeAt(cores, r, a[p].max)) >= p
    BY <1>1, <1>2, UpdateCertain
<1>4. \A p \in 1..n : t < a[p].min => Cardinality(FreeBefore(cores, r, a[p].min)) < p
    BY <1>1, <1>2, UpdatePossible, SMTT(60)
<1>5. QED BY <1>1, <1>3, <1>4 DEF Covered

\* Wider intervals cover at least as much.
LEMMA CoveredWider ==
    ASSUME NEW n \in Nat \ {0}, NEW cores, IsFiniteSet(cores), Cardinality(cores) = n,
           NEW a \in Trackers(n), NEW b \in Trackers(n),
           \A i \in 1..n : b[i].min <= a[i].min /\ a[i].max <= b[i].max,
           NEW h \in [cores -> Nat], NEW last \in Nat, Covered(cores, n, a, h, last)
    PROVE  Covered(cores, n, b, h, last)
<1>1. \A c \in cores : h[c] \in Nat
    OBVIOUS
<1>2. \A i \in 1..n : /\ a[i].min \in Nat /\ a[i].max \in Nat
                      /\ b[i].min \in Nat /\ b[i].max \in Nat
    BY TrackerFacts
<1>3. ASSUME NEW p \in 1..n
      PROVE  Cardinality(FreeAt(cores, h, b[p].max)) >= p
    <2>1. FreeAt(cores, h, a[p].max) \subseteq FreeAt(cores, h, b[p].max)
        BY <1>1, <1>2 DEF FreeAt
    <2>2. Cardinality(FreeAt(cores, h, a[p].max)) >= p
        BY DEF Covered
    <2>3. FreeAt(cores, h, a[p].max) \in SUBSET cores /\ FreeAt(cores, h, b[p].max) \in SUBSET cores
        BY DEF FreeAt
    <2>4. /\ Cardinality(FreeAt(cores, h, a[p].max)) \in Nat
          /\ Cardinality(FreeAt(cores, h, b[p].max)) \in Nat
          /\ Cardinality(FreeAt(cores, h, a[p].max)) <= Cardinality(FreeAt(cores, h, b[p].max))
        BY <2>1, <2>3, SubsetSizes
    <2>5. QED BY <2>2, <2>4
<1>4. ASSUME NEW p \in 1..n, last < b[p].min
      PROVE  Cardinality(FreeBefore(cores, h, b[p].min)) < p
    <2>1. FreeBefore(cores, h, b[p].min) \subseteq FreeBefore(cores, h, a[p].min)
        BY <1>1, <1>2 DEF FreeBefore
    <2>2. last < a[p].min
        BY <1>2, <1>4
    <2>3. Cardinality(FreeBefore(cores, h, a[p].min)) < p
        BY <2>2 DEF Covered
    <2>4. /\ FreeBefore(cores, h, b[p].min) \in SUBSET cores
          /\ FreeBefore(cores, h, a[p].min) \in SUBSET cores
        BY DEF FreeBefore
    <2>5. /\ Cardinality(FreeBefore(cores, h, b[p].min)) \in Nat
          /\ Cardinality(FreeBefore(cores, h, a[p].min)) \in Nat
          /\ Cardinality(FreeBefore(cores, h, b[p].min)) <= Cardinality(FreeBefore(cores, h, a[p].min))
        BY <2>1, <2>4, SubsetSizes
    <2>6. QED BY <2>3, <2>5
<1>5. QED BY <1>3, <1>4 DEF Covered

\* Merging keeps what either tracker covers.
LEMMA CoveredMerge ==
    ASSUME NEW n \in Nat \ {0}, NEW cores, IsFiniteSet(cores), Cardinality(cores) = n,
           NEW a \in Trackers(n), NEW b \in Trackers(n),
           NEW h \in [cores -> Nat], NEW last \in Nat,
           Covered(cores, n, a, h, last) \/ Covered(cores, n, b, h, last)
    PROVE  Covered(cores, n, MergeAvailability(a, b), h, last)
<1>1. PICK m : m = MergeAvailability(a, b)
    OBVIOUS
<1>2. /\ m \in Trackers(n)
      /\ \A i \in 1..n : /\ m[i].min <= a[i].min /\ m[i].min <= b[i].min
                         /\ a[i].max <= m[i].max /\ b[i].max <= m[i].max
    BY <1>1, MergeFacts
<1>3. CASE Covered(cores, n, a, h, last)
    BY <1>1, <1>2, <1>3, CoveredWider
<1>4. CASE Covered(cores, n, b, h, last)
    BY <1>1, <1>2, <1>4, CoveredWider
<1>5. QED BY <1>3, <1>4
=============================================================================
