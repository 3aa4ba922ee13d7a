---------------------------- MODULE MKFirmProofs -----------------------------
(***************************************************************************)
(* Proofs about the MK-firm extension, for any length of the window, any   *)
(* jobs and any number of states that the exploration follows at a time.   *)
(*                                                                         *)
(* Windows are compared by how many misses their most recent k positions   *)
(* hold, for every k: moving on and merging preserve that comparison, and  *)
(* for k = WindowSize it is the comparison of the reported numbers.        *)
(***************************************************************************)
EXTENDS MKFirm, FiniteSetTheorems, FunctionTheorems, TLAPS

-----------------------------------------------------------------------------
(***************************************************************************)
(* Sets of positions and how many of them are among the most recent.       *)
(***************************************************************************)
Recent(S, k) == {p \in S : p <= k}
Count(S, k) == Cardinality(Recent(S, k))

LEMMA FinitePositions ==
    ASSUME NEW S \in SUBSET Positions
    PROVE  /\ IsFiniteSet(S) /\ Cardinality(S) \in Nat
           /\ \A T \in SUBSET S :
                /\ T \in SUBSET Positions /\ IsFiniteSet(T)
                /\ Cardinality(T) \in Nat /\ Cardinality(T) <= Cardinality(S)
                /\ Cardinality(T) = Cardinality(S) => T = S
<1>1. IsFiniteSet(Positions)
    BY FS_Interval, WindowAssumption DEF Positions
<1>2. IsFiniteSet(S)
    BY <1>1, FS_Subset
<1>3. ASSUME NEW T \in SUBSET S
      PROVE  /\ IsFiniteSet(T) /\ Cardinality(T) <= Cardinality(S)
             /\ Cardinality(T) = Cardinality(S) => T = S
    BY <1>2, FS_Subset
<1>4. QED BY <1>2, <1>3, FS_CardinalityType

LEMMA CountFacts ==
    ASSUME NEW S \in SUBSET Positions, NEW k \in Nat
    PROVE  /\ Recent(S, k) \in SUBSET S
           /\ Count(S, k) \in Nat /\ Count(S, k) <= Cardinality(S)
           /\ k >= WindowSize => Count(S, k) = Cardinality(S)
           /\ k = 0 => Count(S, k) = 0
<1>1. Recent(S, k) \in SUBSET S
    BY DEF Recent
<1>a. \A p \in S : p \in Nat /\ p # 0 /\ p <= WindowSize
    BY WindowAssumption DEF Positions
<1>2. k >= WindowSize => Recent(S, k) = S
    <2>1. ASSUME k >= WindowSize, NEW p \in S PROVE p <= k
        BY <1>a, <2>1, WindowAssumption
    <2>2. QED BY <2>1 DEF Recent
<1>3. k = 0 => Recent(S, k) = {}
    <2>1. ASSUME k = 0, NEW p \in S PROVE ~(p <= k)
        BY <1>a, <2>1
    <2>2. QED BY <2>1 DEF Recent
<1>4. QED BY <1>1, <1>2, <1>3, FinitePositions, FS_EmptySet DEF Count

LEMMA RecentGrows ==
    ASSUME NEW S \in SUBSET Positions, NEW p \in Nat, NEW q \in Nat, p <= q
    PROVE  /\ Recent(S, p) \in SUBSET Recent(S, q)
           /\ Count(S, p) <= Count(S, q)
           /\ p < q /\ q \in S => Count(S, p) < Count(S, q)
<1>1. ASSUME NEW x \in Recent(S, p)
      PROVE  x \in Recent(S, q)
    <2>1. x \in Nat
        BY WindowAssumption DEF Recent, Positions
    <2>2. QED BY <2>1 DEF Recent
<1>2. Recent(S, q) \in SUBSET Positions
    BY DEF Recent
<1>3. Count(S, p) \in Nat /\ Count(S, q) \in Nat /\ Count(S, p) <= Count(S, q)
    BY <1>1, <1>2, CountFacts, FinitePositions DEF Count
<1>4. p < q /\ q \in S => Recent(S, p) # Recent(S, q)
    <2>1. ASSUME p < q, q \in S PROVE q \in Recent(S, q) /\ q \notin Recent(S, p)
        BY <2>1 DEF Recent
    <2>2. QED BY <2>1
<1>5. p < q /\ q \in S => Count(S, p) # Count(S, q)
    BY <1>1, <1>2, <1>4, FinitePositions DEF Count
<1>6. QED BY <1>1, <1>3, <1>5

\* The positions that are in S or T, split into those in S and those in T only.
LEMMA DisjointCount ==
    ASSUME NEW S \in SUBSET Positions, NEW T \in SUBSET Positions, S \cap T = {},
           NEW k \in Nat
    PROVE  /\ Cardinality(S \cup T) = Cardinality(S) + Cardinality(T)
           /\ Count(S \cup T, k) = Count(S, k) + Count(T, k)
<1>1. /\ Recent(S \cup T, k) = Recent(S, k) \cup Recent(T, k)
      /\ Recent(S, k) \cap Recent(T, k) = {}
      /\ Recent(S, k) \in SUBSET S /\ Recent(T, k) \in SUBSET T
    BY DEF Recent
<1>2. IsFiniteSet(S) /\ IsFiniteSet(T) /\ IsFiniteSet(Recent(S, k)) /\ IsFiniteSet(Recent(T, k))
    BY <1>1, FinitePositions
<1>3. Cardinality({}) = 0
    BY FS_EmptySet
<1>4. Cardinality(S \cup T) = Cardinality(S) + Cardinality(T)
    <2>1. Cardinality(S \cup T) = Cardinality(S) + Cardinality(T) - Cardinality(S \cap T)
        BY <1>2, FS_Union
    <2>2. QED BY <2>1, <1>3, FinitePositions
<1>5. Count(S \cup T, k) = Count(S, k) + Count(T, k)
    <2>1. Cardinality(Recent(S, k) \cup Recent(T, k))
              = Cardinality(Recent(S, k)) + Cardinality(Recent(T, k))
                    - Cardinality(Recent(S, k) \cap Recent(T, k))
        BY <1>2, FS_Union
    <2>2. Cardinality(Recent(S, k)) \in Nat /\ Cardinality(Recent(T, k)) \in Nat
        BY <1>1, FinitePositions
    <2>3. Cardinality(Recent(S, k) \cap Recent(T, k)) = 0
        BY <1>1, <1>3
    <2>4. Cardinality(Recent(S, k) \cup Recent(T, k))
              = Cardinality(Recent(S, k)) + Cardinality(Recent(T, k))
        BY <2>1, <2>2, <2>3
    <2>5. QED BY <2>4, <1>1 DEF Count
<1>6. QED BY <1>4, <1>5

\* When the elements of a finite set are numbered without repetition, n of them
\* have one of the first n numbers.
LEMMA Ranks ==
    ASSUME NEW S, IsFiniteSet(S),
           NEW r \in [S -> 1..Cardinality(S)],
           \A x, y \in S : r[x] = r[y] => x = y,
           NEW n \in 0..Cardinality(S)
    PROVE  Cardinality({x \in S : r[x] <= n}) = n
<1> DEFINE T == {x \in S : r[x] <= n}
           f == [x \in T |-> r[x]]
<1>1. Cardinality(S) \in Nat
    BY FS_CardinalityType
<1>2. IsFiniteSet(1..Cardinality(S)) /\ Cardinality(1..Cardinality(S)) = Cardinality(S)
    BY <1>1, FS_Interval
<1>3. r \in Surjection(S, 1..Cardinality(S))
    BY <1>2, Fun_IsInj, FS_Injection
<1>4. \A m \in 1..Cardinality(S) : \E x \in S : r[x] = m
    BY <1>3, Fun_SurjectionProperties
<1>5. f \in [T -> 1..n]
    BY <1>1
<1>6. \A m \in 1..n : \E x \in T : f[x] = m
    BY <1>1, <1>4
<1>7. \A x, y \in T : f[x] = f[y] => x = y
    OBVIOUS
<1>8. IsFiniteSet(T) /\ IsFiniteSet(1..n) /\ Cardinality(1..n) = n
    <2>1. T \in SUBSET S
        OBVIOUS
    <2>2. n \in Nat
        BY <1>1
    <2>3. QED BY <2>1, <2>2, FS_Subset, FS_Interval
<1>9. f \in Surjection(T, 1..n) /\ f \in Injection(T, 1..n)
    BY <1>5, <1>6, <1>7, Fun_IsInj, Fun_IsSurj
<1>10. Cardinality(1..n) = Cardinality(T)
    BY <1>8, <1>9, FS_Surjection
<1>11. QED BY <1>8, <1>10

LEMMA MostRecentFacts ==
    ASSUME NEW S \in SUBSET Positions, NEW n \in 0..Cardinality(S)
    PROVE  /\ MostRecent(S, n) \in SUBSET S
           /\ Cardinality(MostRecent(S, n)) = n
           /\ \A k \in Nat : Count(MostRecent(S, n), k) = MinOf(n, Count(S, k))
<1> DEFINE r == [p \in S |-> Count(S, p)]
<1>1. S \subseteq Nat
    BY WindowAssumption DEF Positions
<1>2. MostRecent(S, n) = {p \in S : r[p] <= n}
    BY DEF MostRecent, Count, Recent
<1>3. ASSUME NEW p \in S, NEW q \in S, p < q
      PROVE  r[p] < r[q]
    BY <1>1, <1>3, RecentGrows
<1>4. ASSUME NEW p \in S
      PROVE  r[p] \in 1..Cardinality(S)
    <2>1. r[p] \in Nat /\ r[p] <= Cardinality(S) /\ Cardinality(S) \in Nat
        BY <1>1, CountFacts, FinitePositions
    <2>2. Recent(S, p) # {} /\ Recent(S, p) \in SUBSET S
        BY <1>1 DEF Recent
    <2>3. r[p] # 0
        BY <2>2, FinitePositions, FS_EmptySet DEF Count
    <2>4. QED BY <2>1, <2>3
<1>5. \A p, q \in S : r[p] = r[q] => p = q
    <2> SUFFICES ASSUME NEW p \in S, NEW q \in S, p # q PROVE r[p] # r[q]
        OBVIOUS
    <2>1. p < q \/ q < p
        BY <1>1
    <2>2. r[p] \in Nat /\ r[q] \in Nat
        BY <1>4, FinitePositions
    <2>3. QED BY <1>3, <2>1, <2>2
<1>6. r \in [S -> 1..Cardinality(S)]
    BY <1>4
<1>7. Cardinality(MostRecent(S, n)) = n
    <2>1. IsFiniteSet(S)
        BY FinitePositions
    <2> HIDE DEF r
    <2>2. Cardinality({p \in S : r[p] <= n}) = n
        BY <2>1, <1>5, <1>6, Ranks
    <2>3. QED BY <1>2, <2>2
<1>8. ASSUME NEW k \in Nat
      PROVE  Count(MostRecent(S, n), k) = MinOf(n, Count(S, k))
    <2>1. Count(S, k) \in Nat /\ n \in Nat
        BY CountFacts, FinitePositions
    <2>2. CASE Count(S, k) <= n
        <3>1. ASSUME NEW p \in Recent(S, k)
              PROVE  p \in MostRecent(S, n)
            <4>1. p \in S /\ p <= k
                BY DEF Recent
            <4>2. Count(S, p) <= Count(S, k)
                BY <1>1, <4>1, RecentGrows
            <4>3. Count(S, p) \in Nat
                BY <1>1, <4>1, CountFacts
            <4>4. QED BY <1>2, <4>1, <4>2, <4>3, <2>1, <2>2
        <3>2. Recent(MostRecent(S, n), k) = Recent(S, k)
            BY <3>1 DEF Recent, MostRecent
        <3>3. QED BY <3>2, <2>1, <2>2 DEF MinOf, Count
    <2>3. CASE Count(S, k) > n
        <3>1. ASSUME NEW p \in MostRecent(S, n)
              PROVE  p <= k
            <4>1. SUFFICES ASSUME p > k PROVE FALSE
                BY <1>1 DEF MostRecent
            <4>2. p \in S /\ p \in Nat /\ Count(S, p) <= n
                BY <1>1, <1>2
            <4>3. Count(S, k) <= Count(S, p) /\ Count(S, p) \in Nat
                BY <4>1, <4>2, RecentGrows, CountFacts
            <4>4. QED BY <4>2, <4>3, <2>1, <2>3
        <3>2. Recent(MostRecent(S, n), k) = MostRecent(S, n)
            BY <3>1 DEF Recent
        <3>3. QED BY <3>2, <1>7, <2>1, <2>3 DEF MinOf, Count
    <2>4. QED BY <2>1, <2>2, <2>3
<1>9. QED BY <1>7, <1>8 DEF MostRecent

\* The mirror image: the n positions furthest back.
LEMMA OldestFacts ==
    ASSUME NEW S \in SUBSET Positions, NEW n \in 0..Cardinality(S)
    PROVE  /\ Oldest(S, n) \in SUBSET S
           /\ Cardinality(Oldest(S, n)) = n
           /\ \A k \in Nat : Count(Oldest(S, n), k)
                                = MaxOf(0, n + Count(S, k) - Cardinality(S))
<1> DEFINE From(p) == {q \in S : q >= p}
           Before(p) == Recent(S, p - 1)
           r == [p \in S |-> Cardinality(From(p))]
           others == Cardinality(S) - n
<1>1. \A p \in S : p \in Nat /\ p - 1 \in Nat /\ p = (p - 1) + 1
    BY WindowAssumption DEF Positions
<1>2. Oldest(S, n) = {p \in S : r[p] <= n}
    BY DEF Oldest
<1>3. Cardinality(S) \in Nat /\ n \in Nat /\ others \in 0..Cardinality(S)
    BY FinitePositions
<1>4. ASSUME NEW p \in S
      PROVE  r[p] = Cardinality(S) - Count(S, p - 1)
    <2>1. From(p) \in SUBSET Positions /\ Before(p) \in SUBSET Positions
        BY DEF Recent
    <2>2. ASSUME NEW q \in S
          PROVE  q \in From(p) <=> q \notin Before(p)
        BY <1>1 DEF Recent
    <2>3. From(p) \cup Before(p) = S /\ From(p) \cap Before(p) = {}
        BY <2>2 DEF Recent
    <2>4. Cardinality(From(p) \cup Before(p)) = Cardinality(From(p)) + Cardinality(Before(p))
        BY <2>1, <2>3, DisjointCount
    <2>5. Cardinality(From(p)) \in Nat /\ Cardinality(Before(p)) \in Nat
        BY <2>1, FinitePositions
    <2>6. r[p] = Cardinality(From(p))
        OBVIOUS
    <2>7. Cardinality(S) = Cardinality(From(p)) + Cardinality(Before(p))
        BY <2>3, <2>4
    <2>8. Count(S, p - 1) = Cardinality(Before(p))
        BY DEF Count
    <2> HIDE DEF From, Before, r
    <2>9. QED BY <2>5, <2>6, <2>7, <2>8, <1>3
<1>5. \A p \in S : Count(S, p - 1) \in 0..(Cardinality(S) - 1)
    <2> SUFFICES ASSUME NEW p \in S PROVE Count(S, p - 1) \in 0..(Cardinality(S) - 1)
        OBVIOUS
    <2>1. Count(S, p - 1) \in Nat /\ Count(S, p - 1) < Count(S, p)
        BY <1>1, RecentGrows, CountFacts
    <2>2. Count(S, p) \in Nat /\ Count(S, p) <= Cardinality(S)
        BY <1>1, CountFacts
    <2>3. QED BY <2>1, <2>2, <1>3
<1>6. \A p, q \in S : r[p] = r[q] => p = q
    <2> HIDE DEF r
    <2>1. ASSUME NEW p \in S, NEW q \in S, p < q PROVE r[p] # r[q]
        <3>1. /\ p - 1 \in Nat /\ p \in Nat /\ q - 1 \in Nat
              /\ p - 1 <= p /\ p - 1 < p /\ p <= q - 1
            BY <1>1, <2>1
        <3>2. Count(S, p - 1) < Count(S, p)
            BY <3>1, RecentGrows
        <3>3. Count(S, p) <= Count(S, q - 1)
            BY <3>1, RecentGrows
        <3>4. Count(S, p) \in Nat
            BY <1>1, CountFacts
        <3>5. Count(S, p - 1) # Count(S, q - 1)
            BY <3>2, <3>3, <3>4, <1>5
        <3>6. QED BY <3>5, <1>3, <1>4, <1>5
    <2>2. \A p, q \in S : p = q \/ p < q \/ q < p
        BY <1>1
    <2>3. QED BY <2>1, <2>2
<1>7. r \in [S -> 1..Cardinality(S)]
    BY <1>3, <1>4, <1>5
<1>8. Cardinality(Oldest(S, n)) = n
    <2>1. IsFiniteSet(S)
        BY FinitePositions
    <2> HIDE DEF r
    <2>2. Cardinality({p \in S : r[p] <= n}) = n
        BY <2>1, <1>6, <1>7, Ranks
    <2>3. QED BY <1>2, <2>2
<1>9. ASSUME NEW p \in S
      PROVE  p \in Oldest(S, n) <=> Count(S, p - 1) >= others
    BY <1>2, <1>3, <1>4, <1>5
<1>10. ASSUME NEW k \in Nat
       PROVE  Count(Oldest(S, n), k) = MaxOf(0, Count(S, k) - others)
    <2>1. Count(S, k) \in Nat
        BY CountFacts
    <2>2. CASE Count(S, k) <= others
        <3>1. ASSUME NEW p \in Oldest(S, n), p <= k PROVE FALSE
            <4>1. p \in S /\ Count(S, p - 1) >= others
                BY <1>9 DEF Oldest
            <4>2. Count(S, p - 1) < Count(S, p) /\ Count(S, p) <= Count(S, k)
                <5>1. p \in S /\ p \in Nat /\ p - 1 \in Nat /\ p - 1 < p /\ p <= k
                    BY <1>1, <3>1, <4>1
                <5>2. QED BY <5>1, RecentGrows
            <4>3. Count(S, p - 1) \in Nat /\ Count(S, p) \in Nat
                BY <1>1, <4>1, CountFacts
            <4>4. QED BY <4>1, <4>2, <4>3, <2>1, <2>2, <1>3
        <3>2. Recent(Oldest(S, n), k) = {}
            BY <3>1 DEF Recent
        <3>3. QED BY <3>2, <2>1, <2>2, <1>3, FS_EmptySet DEF Count, MaxOf
    <2>3. CASE Count(S, k) > others
        <3> DEFINE young == {p \in S : p \notin Oldest(S, n)}
                   old == Oldest(S, n)
        <3>1. /\ young \in SUBSET Positions /\ old \in SUBSET Positions
              /\ young \cap old = {} /\ young \cup old = S
            BY DEF Oldest
        <3>2. Cardinality(S) = Cardinality(young) + Cardinality(old)
            <4>1. Cardinality(young \cup old) = Cardinality(young) + Cardinality(old)
                BY <3>1, DisjointCount
            <4>2. QED BY <3>1, <4>1
        <3>3. Count(S, k) = Count(young, k) + Count(old, k)
            <4>1. Count(young \cup old, k) = Count(young, k) + Count(old, k)
                BY <3>1, DisjointCount
            <4>2. QED BY <3>1, <4>1
        <3>4. ASSUME NEW p \in young PROVE p <= k
            <4>1. p \in S /\ Count(S, p - 1) < others
                BY <1>3, <1>5, <1>9
            <4>2. SUFFICES ASSUME p > k PROVE FALSE
                BY <1>1, <4>1
            <4>3. Count(S, k) <= Count(S, p - 1)
                BY <1>1, <4>1, <4>2, RecentGrows
            <4>4. QED BY <4>1, <4>3, <1>5, <2>1, <2>3, <1>3
        <3>5. Recent(young, k) = young
            BY <3>4 DEF Recent
        <3>6. Count(young, k) = others /\ Count(old, k) \in Nat
            <4>1. Cardinality(young) \in Nat /\ Count(old, k) \in Nat
                BY <3>1, FinitePositions, CountFacts
            <4>2. Count(young, k) = Cardinality(young)
                BY <3>5 DEF Count
            <4> HIDE DEF young
            <4>3. QED BY <4>1, <4>2, <3>2, <1>8, <1>3
        <3>7. QED BY <3>3, <3>6, <2>1, <2>3, <1>3 DEF MaxOf
    <2>4. QED BY <2>1, <2>2, <2>3, <1>3
<1>11. \A k \in Nat : Count(Oldest(S, n), k) = MaxOf(0, n + Count(S, k) - Cardinality(S))
    <2> SUFFICES ASSUME NEW k \in Nat
                 PROVE  Count(Oldest(S, n), k) = MaxOf(0, n + Count(S, k) - Cardinality(S))
        OBVIOUS
    <2>1. Count(S, k) - others = n + Count(S, k) - Cardinality(S)
        BY <1>3, CountFacts
    <2>2. QED BY <2>1, <1>10
<1>12. QED BY <1>8, <1>11 DEF Oldest
-----------------------------------------------------------------------------
(***************************************************************************)
(* A window that moves on, and two windows that are merged.                *)
(***************************************************************************)
LEMMA ShiftedFacts ==
    ASSUME NEW S \in SUBSET Positions, NEW missed \in BOOLEAN
    PROVE  /\ Shifted(S, missed) \in SUBSET Positions
           /\ \A k \in Positions :
                Count(Shifted(S, missed), k) = Count(S, k - 1) + (IF missed THEN 1 ELSE 0)
           /\ Cardinality(Shifted(S, missed)) = CountAfter(Cardinality(S), S, missed)
<1> DEFINE moved == {p + 1 : p \in S \ {WindowSize}}
           first == IF missed THEN {1} ELSE {}
<1>1. \A p \in Positions : p \in Nat /\ p >= 1 /\ p <= WindowSize /\ p - 1 \in Nat
    BY WindowAssumption DEF Positions
<1>2. /\ Shifted(S, missed) = moved \cup first
      /\ moved \in SUBSET Positions /\ first \in SUBSET Positions /\ moved \cap first = {}
    <2>1. \A p \in S \ {WindowSize} : p + 1 \in Positions /\ p + 1 # 1
        BY WindowAssumption DEF Positions
    <2>2. 1 \in Positions
        BY WindowAssumption DEF Positions
    <2>3. QED BY <2>1, <2>2 DEF Shifted
<1>3. ASSUME NEW k \in Positions
      PROVE  Count(moved, k) = Count(S, k - 1)
    <2> DEFINE from == Recent(S, k - 1)
               to == Recent(moved, k)
               f == [p \in from |-> p + 1]
    <2>1. IsFiniteSet(from)
        <3>1. from \in SUBSET S
            BY DEF Recent
        <3>2. QED BY <3>1, FinitePositions
    <2>2. ASSUME NEW p \in from PROVE p + 1 \in to
        <3>1. p \in S /\ p <= k - 1
            BY DEF Recent
        <3>2. p # WindowSize /\ p + 1 <= k
            BY <1>1, <3>1
        <3>3. QED BY <3>1, <3>2 DEF Recent
    <2>3. ASSUME NEW q \in to PROVE \E p \in from : p + 1 = q
        <3>1. PICK p \in S \ {WindowSize} : q = p + 1
            BY DEF Recent
        <3>2. p + 1 <= k
            BY <3>1 DEF Recent
        <3>3. p <= k - 1
            BY <1>1, <3>2
        <3>4. QED BY <3>1, <3>3 DEF Recent
    <2>4. \A p, q \in from : p + 1 = q + 1 => p = q
        BY <1>1 DEF Recent
    <2> HIDE DEF from, to
    <2>5. f \in Surjection(from, to) /\ f \in Injection(from, to)
        BY <2>2, <2>3, <2>4, Fun_IsInj, Fun_IsSurj
    <2>6. Cardinality(to) = Cardinality(from)
        BY <2>1, <2>5, FS_Surjection
    <2>7. QED BY <2>6 DEF Count, from, to
<1>4. \A k \in Positions : Count(first, k) = IF missed THEN 1 ELSE 0
    <2> SUFFICES ASSUME NEW k \in Positions PROVE Count(first, k) = IF missed THEN 1 ELSE 0
        OBVIOUS
    <2>1. Recent(first, k) = first
        BY <1>1 DEF Recent
    <2>2. Cardinality({1}) = 1 /\ Cardinality({}) = 0
        BY FS_Singleton, FS_EmptySet
    <2>3. QED BY <2>1, <2>2 DEF Count
<1>5. ASSUME NEW k \in Positions
      PROVE  Count(Shifted(S, missed), k) = Count(S, k - 1) + (IF missed THEN 1 ELSE 0)
    <2> HIDE DEF moved, first
    <2>1. Count(moved \cup first, k) = Count(moved, k) + Count(first, k)
        BY <1>1, <1>2, DisjointCount
    <2>2. QED BY <2>1, <1>2, <1>3, <1>4
<1>6. Shifted(S, missed) \in SUBSET Positions
    BY <1>2
<1>7. Cardinality(Shifted(S, missed)) = CountAfter(Cardinality(S), S, missed)
    <2>1. WindowSize \in Positions /\ WindowSize \in Nat /\ WindowSize - 1 \in Nat
        BY WindowAssumption DEF Positions
    <2>2. Cardinality(Shifted(S, missed)) = Count(S, WindowSize - 1) + (IF missed THEN 1 ELSE 0)
        BY <2>1, <1>5, <1>6, CountFacts
    <2>3. Count(S, WindowSize - 1) = IF WindowSize \in S THEN Cardinality(S) - 1 ELSE Cardinality(S)
        <3>1. Recent(S, WindowSize - 1) = S \ {WindowSize}
            <4>1. ASSUME NEW p \in S PROVE p <= WindowSize - 1 <=> p # WindowSize
                BY <1>1, <2>1
            <4>2. QED BY <4>1 DEF Recent
        <3>2. QED BY <3>1, FS_RemoveElement, FinitePositions DEF Count
    <2>4. Cardinality(S) \in Nat
        BY FinitePositions
    <2>5. QED BY <2>2, <2>3, <2>4 DEF CountAfter
<1>8. QED BY <1>5, <1>6, <1>7

\* The positions of two windows, in both of them or in one only.
LEMMA SplitFacts ==
    ASSUME NEW A \in SUBSET Positions, NEW B \in SUBSET Positions, NEW k \in Nat
    PROVE  /\ A \cap B \in SUBSET Positions /\ A \ B \in SUBSET Positions
           /\ B \ A \in SUBSET Positions
           /\ (A \cup B) \ (A \cap B) \in SUBSET Positions
           /\ Cardinality(A) = Cardinality(A \cap B) + Cardinality(A \ B)
           /\ Cardinality(B) = Cardinality(A \cap B) + Cardinality(B \ A)
           /\ Count(A, k) = Count(A \cap B, k) + Count(A \ B, k)
           /\ Count(B, k) = Count(A \cap B, k) + Count(B \ A, k)
           /\ Cardinality((A \cup B) \ (A \cap B)) = Cardinality(A \ B) + Cardinality(B \ A)
           /\ Count((A \cup B) \ (A \cap B), k) = Count(A \ B, k) + Count(B \ A, k)
<1> DEFINE both == A \cap B
           onlyA == A \ B
           onlyB == B \ A
           one == (A \cup B) \ (A \cap B)
<1>1. /\ A = both \cup onlyA /\ both \cap onlyA = {}
      /\ B = both \cup onlyB /\ both \cap onlyB = {}
      /\ one = onlyA \cup onlyB /\ onlyA \cap onlyB = {}
      /\ both \in SUBSET Positions /\ onlyA \in SUBSET Positions
      /\ onlyB \in SUBSET Positions /\ one \in SUBSET Positions
    OBVIOUS
<1> HIDE DEF both, onlyA, onlyB, one
<1>2. /\ Cardinality(both \cup onlyA) = Cardinality(both) + Cardinality(onlyA)
      /\ Count(both \cup onlyA, k) = Count(both, k) + Count(onlyA, k)
    BY <1>1, DisjointCount
<1>3. /\ Cardinality(both \cup onlyB) = Cardinality(both) + Cardinality(onlyB)
      /\ Count(both \cup onlyB, k) = Count(both, k) + Count(onlyB, k)
    BY <1>1, DisjointCount
<1>4. /\ Cardinality(onlyA \cup onlyB) = Cardinality(onlyA) + Cardinality(onlyB)
      /\ Count(onlyA \cup onlyB, k) = Count(onlyA, k) + Count(onlyB, k)
    BY <1>1, DisjointCount
<1>5. /\ Cardinality(A) = Cardinality(both) + Cardinality(onlyA)
      /\ Count(A, k) = Count(both, k) + Count(onlyA, k)
    BY <1>1, <1>2
<1>6. /\ Cardinality(B) = Cardinality(both) + Cardinality(onlyB)
      /\ Count(B, k) = Count(both, k) + Count(onlyB, k)
    BY <1>1, <1>3
<1>7. /\ Cardinality(one) = Cardinality(onlyA) + Cardinality(onlyB)
      /\ Count(one, k) = Count(onlyA, k) + Count(onlyB, k)
    BY <1>1, <1>4
<1>8. QED BY <1>1, <1>5, <1>6, <1>7 DEF both, onlyA, onlyB, one

PotentialOf(A, B) ==
    LET num == MaxOf(Cardinality(A), Cardinality(B))
    IN  (A \cap B) \cup MostRecent((A \cup B) \ (A \cap B), num - Cardinality(A \cap B))

\* A merge finds enough potential misses to keep, and the windows that it merges
\* have no more of them among any number of recent positions.
LEMMA MergedPotential ==
    ASSUME NEW A \in SUBSET Positions, NEW B \in SUBSET Positions
    PROVE  /\ PotentialOf(A, B) \in SUBSET Positions
           /\ Cardinality(PotentialOf(A, B)) = MaxOf(Cardinality(A), Cardinality(B))
           /\ \A k \in Nat : /\ Count(PotentialOf(A, B), k) >= Count(A, k)
                             /\ Count(PotentialOf(A, B), k) >= Count(B, k)
<1> DEFINE num == MaxOf(Cardinality(A), Cardinality(B))
           M == PotentialOf(A, B)
           both == A \cap B
           one == (A \cup B) \ (A \cap B)
           missing == num - Cardinality(both)
           kept == MostRecent(one, missing)
<1>1. /\ both \in SUBSET Positions /\ one \in SUBSET Positions
      /\ A \ B \in SUBSET Positions /\ B \ A \in SUBSET Positions
    OBVIOUS
<1>2. /\ Cardinality(A) = Cardinality(both) + Cardinality(A \ B)
      /\ Cardinality(B) = Cardinality(both) + Cardinality(B \ A)
      /\ Cardinality(one) = Cardinality(A \ B) + Cardinality(B \ A)
    <2>1. 0 \in Nat
        OBVIOUS
    <2>2. QED BY <2>1, SplitFacts
<1>3. /\ Cardinality(both) \in Nat /\ Cardinality(one) \in Nat
      /\ Cardinality(A \ B) \in Nat /\ Cardinality(B \ A) \in Nat
    BY <1>1, FinitePositions
<1> HIDE DEF both, one
<1>4. num \in Nat /\ missing \in 0..Cardinality(one)
      /\ missing >= Cardinality(A \ B) /\ missing >= Cardinality(B \ A)
    BY <1>2, <1>3 DEF MaxOf
<1> HIDE DEF missing
<1>5. /\ kept \in SUBSET one /\ Cardinality(kept) = missing
      /\ \A k \in Nat : Count(kept, k) = MinOf(missing, Count(one, k))
    BY <1>1, <1>4, MostRecentFacts
<1>6. both \cap kept = {} /\ kept \in SUBSET Positions /\ M = both \cup kept
    <2>1. M = both \cup kept
        BY DEF PotentialOf, both, one, missing
    <2>2. both \cap one = {}
        BY DEF both, one
    <2>3. QED BY <1>1, <1>5, <2>1, <2>2
<1> HIDE DEF kept
<1>7. Cardinality(M) = num
    <2>1. 0 \in Nat
        OBVIOUS
    <2>2. Cardinality(both \cup kept) = Cardinality(both) + Cardinality(kept)
        BY <1>1, <1>6, <2>1, DisjointCount
    <2>3. Cardinality(M) = Cardinality(both) + missing
        BY <1>5, <1>6, <2>2
    <2>4. QED BY <1>3, <1>4, <2>3 DEF missing
<1>8. ASSUME NEW k \in Nat
      PROVE  Count(M, k) >= Count(A, k) /\ Count(M, k) >= Count(B, k)
    <2>1. Count(M, k) = Count(both, k) + Count(kept, k)
        <3>1. Count(both \cup kept, k) = Count(both, k) + Count(kept, k)
            BY <1>1, <1>6, DisjointCount
        <3>2. QED BY <1>6, <3>1
    <2>2. /\ Count(A, k) = Count(both, k) + Count(A \ B, k)
          /\ Count(B, k) = Count(both, k) + Count(B \ A, k)
          /\ Count(one, k) = Count(A \ B, k) + Count(B \ A, k)
        <3>1. Count(A, k) = Count(A \cap B, k) + Count(A \ B, k)
            BY SplitFacts
        <3>2. Count(B, k) = Count(A \cap B, k) + Count(B \ A, k)
            BY SplitFacts
        <3>3. Count((A \cup B) \ (A \cap B), k) = Count(A \ B, k) + Count(B \ A, k)
            BY SplitFacts
        <3>4. QED BY <3>1, <3>2, <3>3 DEF both, one
    <2>3. /\ Count(both, k) \in Nat /\ Count(A \ B, k) \in Nat /\ Count(B \ A, k) \in Nat
          /\ Count(A \ B, k) <= Cardinality(A \ B) /\ Count(B \ A, k) <= Cardinality(B \ A)
        BY <1>1, CountFacts
    <2>4. missing \in Nat
        BY <1>3, <1>4
    <2>5. Count(kept, k) >= Count(A \ B, k) /\ Count(kept, k) >= Count(B \ A, k)
        BY <1>3, <1>4, <1>5, <2>2, <2>3, <2>4 DEF MinOf
    <2>6. Count(kept, k) \in Nat
        BY <1>6, CountFacts
    <2>7. QED BY <2>1, <2>2, <2>3, <2>5, <2>6
<1>9. QED BY <1>1, <1>4, <1>6, <1>7, <1>8

CertainOf(A, B) ==
    LET num == MinOf(Cardinality(A), Cardinality(B))
    IN  (A \cap B) \cup Oldest((A \cup B) \ (A \cap B), num - Cardinality(A \cap B))

\* The other way round for the certain misses.
LEMMA MergedCertain ==
    ASSUME NEW A \in SUBSET Positions, NEW B \in SUBSET Positions
    PROVE  /\ CertainOf(A, B) \in SUBSET Positions
           /\ Cardinality(CertainOf(A, B)) = MinOf(Cardinality(A), Cardinality(B))
           /\ \A k \in Nat : /\ Count(CertainOf(A, B), k) <= Count(A, k)
                             /\ Count(CertainOf(A, B), k) <= Count(B, k)
<1> DEFINE num == MinOf(Cardinality(A), Cardinality(B))
           M == CertainOf(A, B)
           both == A \cap B
           one == (A \cup B) \ (A \cap B)
           missing == num - Cardinality(both)
           kept == Oldest(one, missing)
<1>1. /\ both \in SUBSET Positions /\ one \in SUBSET Positions
      /\ A \ B \in SUBSET Positions /\ B \ A \in SUBSET Positions
    OBVIOUS
<1>2. /\ Cardinality(A) = Cardinality(both) + Cardinality(A \ B)
      /\ Cardinality(B) = Cardinality(both) + Cardinality(B \ A)
      /\ Cardinality(one) = Cardinality(A \ B) + Cardinality(B \ A)
    <2>1. 0 \in Nat
        OBVIOUS
    <2>2. QED BY <2>1, SplitFacts
<1>3. /\ Cardinality(both) \in Nat /\ Cardinality(one) \in Nat
      /\ Cardinality(A \ B) \in Nat /\ Cardinality(B \ A) \in Nat
    BY <1>1, FinitePositions
<1> HIDE DEF both, one
<1>4. num \in Nat /\ missing \in 0..Cardinality(one)
      /\ missing <= Cardinality(A \ B) /\ missing <= Cardinality(B \ A)
    BY <1>2, <1>3 DEF MinOf
<1> HIDE DEF missing
<1>5. /\ kept \in SUBSET one /\ Cardinality(kept) = missing
      /\ \A k \in Nat : Count(kept, k) = MaxOf(0, missing + Count(one, k) - Cardinality(one))
    BY <1>1, <1>4, OldestFacts
<1>6. both \cap kept = {} /\ kept \in SUBSET Positions /\ M = both \cup kept
    <2>1. M = both \cup kept
        BY DEF CertainOf, both, one, missing
    <2>2. both \cap one = {}
        BY DEF both, one
    <2>3. QED BY <1>1, <1>5, <2>1, <2>2
<1> HIDE DEF kept
<1>7. Cardinality(M) = num
    <2>1. 0 \in Nat
        OBVIOUS
    <2>2. Cardinality(both \cup kept) = Cardinality(both) + Cardinality(kept)
        BY <1>1, <1>6, <2>1, DisjointCount
    <2>3. Cardinality(M) = Cardinality(both) + missing
        BY <1>5, <1>6, <2>2
    <2>4. QED BY <1>3, <1>4, <2>3 DEF missing
<1>8. ASSUME NEW k \in Nat
      PROVE  Count(M, k) <= Count(A, k) /\ Count(M, k) <= Count(B, k)
    <2>1. Count(M, k) = Count(both, k) + Count(kept, k)
        <3>1. Count(both \cup kept, k) = Count(both, k) + Count(kept, k)
            BY <1>1, <1>6, DisjointCount
        <3>2. QED BY <1>6, <3>1
    <2>2. /\ Count(A, k) = Count(both, k) + Count(A \ B, k)
          /\ Count(B, k) = Count(both, k) + Count(B \ A, k)
          /\ Count(one, k) = Count(A \ B, k) + Count(B \ A, k)
        <3>1. Count(A, k) = Count(A \cap B, k) + Count(A \ B, k)
            BY SplitFacts
        <3>2. Count(B, k) = Count(A \cap B, k) + Count(B \ A, k)
            BY SplitFacts
        <3>3. Count((A \cup B) \ (A \cap B), k) = Count(A \ B, k) + Count(B \ A, k)
            BY SplitFacts
        <3>4. QED BY <3>1, <3>2, <3>3 DEF both, one
    <2>3. /\ Count(both, k) \in Nat /\ Count(A \ B, k) \in Nat /\ Count(B \ A, k) \in Nat
          /\ Count(A \ B, k) <= Cardinality(A \ B) /\ Count(B \ A, k) <= Cardinality(B \ A)
        BY <1>1, CountFacts
    <2>4. missing \in Nat
        BY <1>3, <1>4
    <2>5. Count(kept, k) <= Count(A \ B, k) /\ Count(kept, k) <= Count(B \ A, k)
        <3>1. Count(kept, k) = MaxOf(0, missing + Count(one, k) - Cardinality(one))
            BY <1>5
        <3>2. QED BY <1>2, <1>3, <1>4, <2>2, <2>3, <2>4, <3>1 DEF MaxOf
    <2>6. Count(kept, k) \in Nat
        BY <1>6, CountFacts
    <2>7. QED BY <2>1, <2>2, <2>3, <2>5, <2>6
<1>9. QED BY <1>1, <1>4, <1>6, <1>7, <1>8
-----------------------------------------------------------------------------
(***************************************************************************)
(* Windows.                                                                *)
(***************************************************************************)

\* However many of the most recent positions are looked at, S holds at most as
\* many of them as T.
AtMost(S, T) == \A k \in Positions : Count(S, k) <= Count(T, k)

Windows ==
    [certain : SUBSET Positions, potential : SUBSET Positions, num_certain : Nat,
     num_potential : Nat]

Sound(w) ==
    /\ w \in Windows
    /\ w.num_certain = Cardinality(w.certain)
    /\ w.num_potential = Cardinality(w.potential)
    /\ AtMost(w.certain, w.potential)

LEMMA AtMostFacts ==
    ASSUME NEW S \in SUBSET Positions, NEW T \in SUBSET Positions, AtMost(S, T)
    PROVE  /\ Cardinality(S) <= Cardinality(T)
           /\ \A U \in SUBSET Positions : AtMost(T, U) => AtMost(S, U)
           /\ \A m, n \in BOOLEAN : (m => n) => AtMost(Shifted(S, m), Shifted(T, n))
           /\ AtMost(S, Shifted(T, TRUE))
<1>1. /\ WindowSize \in Positions /\ WindowSize \in Nat
      /\ \A k \in Positions : k \in Nat /\ k - 1 \in Nat /\ (k - 1 \in Positions \/ k - 1 = 0)
    BY WindowAssumption DEF Positions
<1>2. \A k \in Nat : Count(S, k) \in Nat /\ Count(T, k) \in Nat
    BY CountFacts
<1>3. Cardinality(S) <= Cardinality(T)
    <2>1. Count(S, WindowSize) = Cardinality(S) /\ Count(T, WindowSize) = Cardinality(T)
        BY <1>1, CountFacts
    <2>2. QED BY <2>1, <1>1 DEF AtMost
<1>4. ASSUME NEW U \in SUBSET Positions, AtMost(T, U)
      PROVE  AtMost(S, U)
    <2>1. \A k \in Positions : Count(U, k) \in Nat
        BY <1>1, CountFacts
    <2>2. QED BY <2>1, <1>1, <1>2, <1>4 DEF AtMost
<1>5. \A k \in Positions : Count(S, k - 1) <= Count(T, k - 1)
    <2> SUFFICES ASSUME NEW k \in Positions PROVE Count(S, k - 1) <= Count(T, k - 1)
        OBVIOUS
    <2>1. CASE k - 1 = 0
        <3>1. Count(S, 0) = 0 /\ Count(T, 0) = 0
            BY CountFacts
        <3>2. QED BY <2>1, <3>1
    <2>2. CASE k - 1 \in Positions
        BY <2>2 DEF AtMost
    <2>3. QED BY <1>1, <2>1, <2>2
<1>6. ASSUME NEW m \in BOOLEAN, NEW n \in BOOLEAN, m => n
      PROVE  AtMost(Shifted(S, m), Shifted(T, n))
    <2> SUFFICES ASSUME NEW k \in Positions
                 PROVE  Count(Shifted(S, m), k) <= Count(Shifted(T, n), k)
        BY DEF AtMost
    <2>1. /\ Count(Shifted(S, m), k) = Count(S, k - 1) + (IF m THEN 1 ELSE 0)
          /\ Count(Shifted(T, n), k) = Count(T, k - 1) + (IF n THEN 1 ELSE 0)
        BY ShiftedFacts
    <2>2. QED BY <2>1, <1>1, <1>2, <1>5, <1>6
<1>7. AtMost(S, Shifted(T, TRUE))
    <2> SUFFICES ASSUME NEW k \in Positions
                 PROVE  Count(S, k) <= Count(Shifted(T, TRUE), k)
        BY DEF AtMost
    <2> DEFINE late == Count(Shifted(T, TRUE), k)
    <2>1. late = Count(T, k - 1) + 1
        BY ShiftedFacts
    <2> HIDE DEF late
    <2>2. Count(S, k) <= Count(S, k - 1) + 1
        <3> DEFINE recent == Recent(S, k - 1)
        <3>1. Recent(S, k) \in SUBSET (recent \cup {k})
            <4>1. ASSUME NEW p \in S, p <= k, p # k PROVE p <= k - 1
                BY <1>1, <4>1
            <4>2. QED BY <4>1 DEF Recent
        <3>2. recent \in SUBSET Positions /\ recent \cup {k} \in SUBSET Positions
            BY DEF Recent
        <3> HIDE DEF recent
        <3>3. Cardinality(Recent(S, k)) <= Cardinality(recent \cup {k})
            BY <3>1, <3>2, FinitePositions
        <3>4. IsFiniteSet(recent) /\ Cardinality(recent) \in Nat
            BY <3>2, FinitePositions
        <3>5. Cardinality(recent \cup {k}) <= Cardinality(recent) + 1
            BY <3>4, FS_AddElement
        <3>6. Cardinality(Recent(S, k)) \in Nat /\ Cardinality(recent \cup {k}) \in Nat
            BY <3>1, <3>2, FinitePositions
        <3>7. QED BY <3>3, <3>4, <3>5, <3>6 DEF Count, recent
    <2>3. /\ Count(S, k) \in Nat /\ Count(S, k - 1) \in Nat /\ Count(T, k - 1) \in Nat
          /\ Count(S, k - 1) <= Count(T, k - 1)
        BY <1>1, <1>2, <1>5
    <2>4. Count(S, k) <= late
        BY <2>1, <2>2, <2>3
    <2>5. QED BY <2>4 DEF late
<1>8. QED BY <1>3, <1>4, <1>6, <1>7

LEMMA RecordedFacts ==
    ASSUME NEW w, Sound(w), NEW outcome \in Outcomes
    PROVE  LET r == Recorded(w, outcome)
           IN  /\ Sound(r)
               /\ r.potential = Shifted(w.potential, outcome # "certain_hit")
               /\ outcome # "potential_miss" =>
                      r.certain = Shifted(w.certain, outcome = "certain_miss")
<1> DEFINE r == Recorded(w, outcome)
           late == outcome # "certain_hit"
           certainly == outcome = "certain_miss"
<1>1. /\ w \in Windows
      /\ w.certain \in SUBSET Positions /\ w.potential \in SUBSET Positions
      /\ late \in BOOLEAN /\ certainly \in BOOLEAN
      /\ certainly => late
    BY DEF Sound, Windows
<1>2. /\ r = [certain |-> IF outcome = "potential_miss" THEN w.certain
                          ELSE Shifted(w.certain, certainly),
              potential |-> Shifted(w.potential, late),
              num_certain |-> IF outcome = "potential_miss" THEN w.num_certain
                              ELSE CountAfter(w.num_certain, w.certain, certainly),
              num_potential |-> CountAfter(w.num_potential, w.potential, late)]
    <2>1. CASE outcome = "certain_miss"
        BY <1>1, <2>1 DEF Recorded, AddCertain, AddPotential, Windows
    <2>2. CASE outcome = "potential_miss"
        BY <1>1, <2>2 DEF Recorded, AddPotential, Windows
    <2>3. CASE outcome = "certain_hit"
        BY <1>1, <2>3 DEF Recorded, AddCertain, AddPotential, Windows
    <2>4. QED BY <2>1, <2>2, <2>3 DEF Outcomes
<1> HIDE DEF r, late, certainly
<1>3. /\ Shifted(w.potential, late) \in SUBSET Positions
      /\ Shifted(w.certain, certainly) \in SUBSET Positions
      /\ Cardinality(Shifted(w.potential, late))
             = CountAfter(Cardinality(w.potential), w.potential, late)
      /\ Cardinality(Shifted(w.certain, certainly))
             = CountAfter(Cardinality(w.certain), w.certain, certainly)
    BY <1>1, ShiftedFacts
<1>4. /\ r.num_certain = Cardinality(r.certain)
      /\ r.num_potential = Cardinality(r.potential)
      /\ r.certain \in SUBSET Positions /\ r.potential \in SUBSET Positions
    BY <1>1, <1>2, <1>3 DEF Sound
<1>5. r \in Windows
    <2>1. r.num_certain \in Nat /\ r.num_potential \in Nat
        BY <1>4, FinitePositions
    <2>2. QED BY <1>2, <1>4, <2>1 DEF Windows
<1>6. AtMost(r.certain, r.potential)
    <2>1. AtMost(w.certain, w.potential)
        BY DEF Sound
    <2>2. CASE outcome = "potential_miss"
        <3>1. late = TRUE
            BY <2>2 DEF late
        <3>2. AtMost(w.certain, Shifted(w.potential, late))
            BY <1>1, <2>1, <3>1, AtMostFacts
        <3>3. QED BY <1>2, <2>2, <3>2
    <2>3. CASE outcome # "potential_miss"
        <3>1. AtMost(Shifted(w.certain, certainly), Shifted(w.potential, late))
            BY <1>1, <2>1, AtMostFacts
        <3>2. QED BY <1>2, <2>3, <3>1
    <2>4. QED BY <2>2, <2>3
<1>7. QED BY <1>2, <1>4, <1>5, <1>6 DEF Sound, r, late, certainly

LEMMA MergeFacts ==
    ASSUME NEW a, Sound(a), NEW b, Sound(b)
    PROVE  LET m == MergeWindows(a, b)
           IN  /\ Sound(m)
               /\ AtMost(a.potential, m.potential) /\ AtMost(b.potential, m.potential)
               /\ AtMost(m.certain, a.certain) /\ AtMost(m.certain, b.certain)
<1> DEFINE m == MergeWindows(a, b)
<1>1. /\ a.certain \in SUBSET Positions /\ a.potential \in SUBSET Positions
      /\ b.certain \in SUBSET Positions /\ b.potential \in SUBSET Positions
      /\ a.num_certain = Cardinality(a.certain) /\ b.num_certain = Cardinality(b.certain)
      /\ a.num_potential = Cardinality(a.potential)
      /\ b.num_potential = Cardinality(b.potential)
    BY DEF Sound, Windows
<1>2. /\ m = [num_potential |-> m.num_potential, potential |-> m.potential,
              num_certain |-> m.num_certain, certain |-> m.certain]
      /\ m.num_potential = MaxOf(Cardinality(a.potential), Cardinality(b.potential))
      /\ m.num_certain = MinOf(Cardinality(a.certain), Cardinality(b.certain))
      /\ m.potential = PotentialOf(a.potential, b.potential)
      /\ m.certain = CertainOf(a.certain, b.certain)
    BY <1>1 DEF MergeWindows, PotentialOf, CertainOf
<1> HIDE DEF m
<1>3. /\ m.potential \in SUBSET Positions /\ m.num_potential \in Nat
      /\ Cardinality(m.potential) = m.num_potential
      /\ \A k \in Nat : /\ Count(m.potential, k) >= Count(a.potential, k)
                        /\ Count(m.potential, k) >= Count(b.potential, k)
    <2>1. Cardinality(m.potential) = m.num_potential
        BY <1>1, <1>2, MergedPotential
    <2>2. m.potential \in SUBSET Positions
        BY <1>1, <1>2, MergedPotential
    <2>3. QED BY <1>1, <1>2, <2>1, <2>2, MergedPotential, FinitePositions
<1>4. /\ m.certain \in SUBSET Positions /\ m.num_certain \in Nat
      /\ Cardinality(m.certain) = m.num_certain
      /\ \A k \in Nat : /\ Count(m.certain, k) <= Count(a.certain, k)
                        /\ Count(m.certain, k) <= Count(b.certain, k)
    <2>1. Cardinality(m.certain) = m.num_certain
        BY <1>1, <1>2, MergedCertain
    <2>2. m.certain \in SUBSET Positions
        BY <1>1, <1>2, MergedCertain
    <2>3. QED BY <1>1, <1>2, <2>1, <2>2, MergedCertain, FinitePositions
<1>5. /\ AtMost(a.potential, m.potential) /\ AtMost(b.potential, m.potential)
      /\ AtMost(m.certain, a.certain) /\ AtMost(m.certain, b.certain)
    <2>1. \A k \in Positions : /\ k \in Nat
                               /\ Count(a.potential, k) \in Nat /\ Count(b.potential, k) \in Nat
                               /\ Count(m.potential, k) \in Nat
        BY <1>1, <1>3, CountFacts, WindowAssumption DEF Positions
    <2>2. QED BY <1>3, <1>4, <2>1 DEF AtMost
<1>6. AtMost(m.certain, m.potential)
    <2>1. AtMost(m.certain, a.potential)
        BY <1>1, <1>4, <1>5, AtMostFacts DEF Sound
    <2>2. QED BY <1>1, <1>3, <1>4, <1>5, <2>1, AtMostFacts
<1>7. m \in Windows
    BY <1>2, <1>3, <1>4 DEF Windows
<1>8. QED BY <1>3, <1>4, <1>5, <1>6, <1>7 DEF Sound, m
-----------------------------------------------------------------------------
(***************************************************************************)
(* The states that the exploration follows and the execution.              *)
(***************************************************************************)
Reports == [min : Nat, max : Nat]

Typed ==
    /\ window \in [DOMAIN window -> Windows]
    /\ reported \in [DOMAIN reported -> Reports]
    /\ counted \in [DOMAIN counted -> Nat]
    /\ uncertain \in BOOLEAN

\* The inductive invariant.  Whatever states were merged, the window of the
\* state that stands for the execution holds at least as many potential misses
\* as really happened, and, as long as nothing was uncertain, at most as many
\* certain ones, among any number of recent positions.
IInv ==
    /\ TypeOK
    /\ Typed
    /\ \A s \in DOMAIN window : Sound(window[s])
    /\ AtMost(actual, window[at].potential)
    /\ ~uncertain => AtMost(window[at].certain, actual)
    /\ DOMAIN counted \subseteq DOMAIN reported
    /\ NeverMoreMisses
    /\ MinBelowMax
    /\ NeverFewerUnlessUncertain

LEMMA InitIInv == Init => IInv
<1> SUFFICES ASSUME Init PROVE IInv
    OBVIOUS
<1>1. /\ DOMAIN window = {at} /\ DOMAIN dispatched = {at}
      /\ window[at] = EmptyWindow /\ dispatched[at] = {}
      /\ window = [s \in {at} |-> EmptyWindow]
    BY DEF Init
<1>2. DOMAIN reported = {} /\ DOMAIN counted = {}
    BY DEF Init
<1>3. Sound(EmptyWindow)
    <2>1. Cardinality({}) = 0
        BY FS_EmptySet
    <2>2. AtMost({}, {})
        <3>1. \A k \in Positions : Count({}, k) <= Count({}, k)
            BY CountFacts, WindowAssumption DEF Positions
        <3>2. QED BY <3>1 DEF AtMost
    <2>3. QED BY <2>1, <2>2 DEF Sound, Windows, EmptyWindow
<1>4. TypeOK
    BY <1>1, <1>2 DEF TypeOK, Init, EmptyWindow
<1>5. Typed
    <2>1. window \in [DOMAIN window -> Windows]
        BY <1>1, <1>3 DEF Sound
    <2>2. reported \in [{} -> Reports] /\ counted \in [{} -> Nat]
        BY DEF Init
    <2>3. QED BY <1>2, <2>1, <2>2 DEF Typed, Init
<1>6. AtMost(actual, window[at].potential) /\ AtMost(window[at].certain, actual)
    BY <1>1, <1>3 DEF Init, EmptyWindow, Sound
<1>7. NeverMoreMisses /\ MinBelowMax /\ NeverFewerUnlessUncertain
    BY <1>2 DEF NeverMoreMisses, MinBelowMax, NeverFewerUnlessUncertain
<1>8. QED BY <1>1, <1>2, <1>3, <1>4, <1>5, <1>6, <1>7 DEF IInv

LEMMA IInvFacts ==
    ASSUME IInv
    PROVE  /\ at \in DOMAIN window /\ DOMAIN dispatched = DOMAIN window
           /\ DOMAIN counted = dispatched[at]
           /\ actual \in SUBSET Positions
           /\ window \in [DOMAIN window -> Windows]
           /\ \A s \in DOMAIN window :
                /\ dispatched[s] \subseteq Jobs
                /\ Sound(window[s])
                /\ window[s].certain \in SUBSET Positions
                /\ window[s].potential \in SUBSET Positions
BY DEF IInv, TypeOK, Typed, Sound, Windows

\* submit_misses: the new interval contains the old one and the new numbers.
LEMMA SubmitFacts ==
    ASSUME IInv, NEW j \in Jobs, NEW low \in Nat, NEW high \in Nat, low <= high
    PROVE  LET new == SubmitMisses(j, low, high)
           IN  /\ DOMAIN new = DOMAIN reported \cup {j}
               /\ new \in [DOMAIN new -> Reports]
               /\ new[j].min <= low /\ high <= new[j].max
               /\ \A k \in DOMAIN reported :
                    new[k].min <= reported[k].min /\ reported[k].max <= new[k].max
               /\ \A k \in DOMAIN new : new[k].min <= new[k].max
<1> DEFINE new == SubmitMisses(j, low, high)
<1>1. \A k \in DOMAIN reported :
        /\ reported[k] \in Reports /\ reported[k].min \in Nat /\ reported[k].max \in Nat
        /\ reported[k].min <= reported[k].max
    BY DEF IInv, Typed, Reports, MinBelowMax
<1>2. DOMAIN new = DOMAIN reported \cup {j}
    BY DEF SubmitMisses
<1>3. \A k \in DOMAIN reported : k # j => new[k] = reported[k]
    BY DEF SubmitMisses
<1>4. j \notin DOMAIN reported => new[j] = [min |-> low, max |-> high]
    BY DEF SubmitMisses
<1>5. j \in DOMAIN reported => new[j] = [min |-> MinOf(reported[j].min, low),
                                       max |-> MaxOf(reported[j].max, high)]
    BY DEF SubmitMisses
<1>6. new = [k \in DOMAIN new |-> new[k]]
    BY DEF SubmitMisses
<1> HIDE DEF new
<1>7. /\ new[j] \in Reports /\ new[j].min <= low /\ high <= new[j].max
      /\ new[j].min <= new[j].max
      /\ j \in DOMAIN reported =>
            new[j].min <= reported[j].min /\ reported[j].max <= new[j].max
    <2>1. CASE j \in DOMAIN reported
        BY <1>1, <1>5, <2>1 DEF MinOf, MaxOf, Reports
    <2>2. CASE j \notin DOMAIN reported
        BY <1>4, <2>2 DEF Reports
    <2>3. QED BY <2>1, <2>2
<1>8. \A k \in DOMAIN new : new[k] \in Reports
    BY <1>1, <1>2, <1>3, <1>7
<1>9. new \in [DOMAIN new -> Reports]
    BY <1>6, <1>8
<1>10. \A k \in DOMAIN reported :
        new[k].min <= reported[k].min /\ reported[k].max <= new[k].max
    BY <1>1, <1>3, <1>7
<1>11. \A k \in DOMAIN new : new[k].min <= new[k].max
    BY <1>1, <1>2, <1>3, <1>7
<1>12. QED BY <1>2, <1>7, <1>9, <1>10, <1>11 DEF new

\* A dispatch: the window of the state that stands for the execution and the
\* window of what really happened move on together.
LEMMA DispatchIInv ==
    ASSUME IInv, NEW s \in DOMAIN window, NEW j \in Jobs, NEW outcome \in Outcomes,
           Dispatch(s, j, outcome)
    PROVE  IInv'
<1> DEFINE w == Recorded(window[s], outcome)
           late == outcome # "certain_hit"
<1>1. /\ j \notin dispatched[s]
      /\ window' = [window EXCEPT ![s] = w]
      /\ dispatched' = [dispatched EXCEPT ![s] = @ \cup {j}]
      /\ reported' = SubmitMisses(j, w.num_certain, w.num_potential)
      /\ uncertain' = (uncertain \/ outcome = "potential_miss")
      /\ at' = at
    BY DEF Dispatch
<1>2. /\ Sound(w)
      /\ w.potential = Shifted(window[s].potential, late)
      /\ outcome # "potential_miss" =>
            w.certain = Shifted(window[s].certain, outcome = "certain_miss")
    BY IInvFacts, RecordedFacts
<1> HIDE DEF w
<1>3. /\ w \in Windows /\ w.num_certain \in Nat /\ w.num_potential \in Nat
      /\ w.certain \in SUBSET Positions /\ w.potential \in SUBSET Positions
      /\ w.num_certain = Cardinality(w.certain) /\ w.num_potential = Cardinality(w.potential)
      /\ w.num_certain <= w.num_potential
    <2>1. /\ w \in Windows /\ w.num_certain \in Nat /\ w.num_potential \in Nat
          /\ w.certain \in SUBSET Positions /\ w.potential \in SUBSET Positions
          /\ w.num_certain = Cardinality(w.certain) /\ w.num_potential = Cardinality(w.potential)
          /\ AtMost(w.certain, w.potential)
        BY <1>2 DEF Sound, Windows
    <2>2. QED BY <2>1, AtMostFacts
<1>4. /\ DOMAIN window' = DOMAIN window /\ window'[s] = w
      /\ \A x \in DOMAIN window : x # s => window'[x] = window[x]
      /\ DOMAIN dispatched' = DOMAIN window
      /\ dispatched'[s] = dispatched[s] \cup {j}
      /\ \A x \in DOMAIN window : x # s => dispatched'[x] = dispatched[x]
    BY <1>1, IInvFacts
<1>5. \A x \in DOMAIN window' :
        /\ Sound(window'[x]) /\ dispatched'[x] \subseteq Jobs
        /\ window'[x].certain \subseteq Positions /\ window'[x].potential \subseteq Positions
    BY <1>2, <1>3, <1>4, IInvFacts
<1>6. window' \in [DOMAIN window' -> Windows]
    BY <1>1, <1>3, <1>4, IInvFacts
<1>7. /\ DOMAIN reported' = DOMAIN reported \cup {j}
      /\ reported' \in [DOMAIN reported' -> Reports]
      /\ reported'[j].min <= w.num_certain /\ w.num_potential <= reported'[j].max
      /\ \A k \in DOMAIN reported :
            reported'[k].min <= reported[k].min /\ reported[k].max <= reported'[k].max
      /\ \A k \in DOMAIN reported' : reported'[k].min <= reported'[k].max
    BY <1>1, <1>3, SubmitFacts
<1>8. uncertain' \in BOOLEAN
    BY <1>1 DEF IInv, Typed
<1>9. \A k \in DOMAIN reported' : reported'[k].min \in Nat /\ reported'[k].max \in Nat
    BY <1>7 DEF Reports
<1>10. \A k \in DOMAIN counted :
        /\ k \in DOMAIN reported
        /\ counted[k] \in Nat /\ reported[k].min \in Nat /\ reported[k].max \in Nat
        /\ counted[k] <= reported[k].max
        /\ ~uncertain => reported[k].min <= counted[k]
    BY DEF IInv, Typed, Reports, NeverMoreMisses, NeverFewerUnlessUncertain
<1>11. \A k \in DOMAIN counted :
        /\ k \in DOMAIN reported'
        /\ counted[k] <= reported'[k].max
        /\ ~uncertain => reported'[k].min <= counted[k]
    BY <1>7, <1>9, <1>10
<1>12. CASE s # at
    <2>1. actual' = actual /\ counted' = counted
        BY <1>12 DEF Dispatch
    <2>2. window'[at] = window[at] /\ dispatched'[at] = dispatched[at]
        BY <1>4, <1>12, IInvFacts
    <2>3. TypeOK'
        BY <1>1, <1>4, <1>5, <2>1, <2>2, IInvFacts DEF TypeOK
    <2>4. Typed'
        BY <1>6, <1>7, <1>8, <2>1 DEF Typed, IInv
    <2>5. AtMost(actual, window[at].potential)' /\ (~uncertain => AtMost(window[at].certain, actual))'
        <3>1. AtMost(actual, window[at].potential) /\ (~uncertain => AtMost(window[at].certain, actual))
            BY DEF IInv
        <3>2. QED BY <1>1, <2>1, <2>2, <3>1 DEF AtMost, Count, Recent
    <2>6. NeverMoreMisses' /\ NeverFewerUnlessUncertain' /\ MinBelowMax'
        BY <1>1, <1>7, <1>11, <2>1 DEF NeverMoreMisses, NeverFewerUnlessUncertain, MinBelowMax
    <2>7. QED BY <1>5, <1>11, <2>1, <2>3, <2>4, <2>5, <2>6 DEF IInv, Sound, AtMost, Count, Recent
<1>13. CASE s = at
    <2>1. PICK missed \in BOOLEAN :
            /\ outcome = "certain_miss" => missed
            /\ outcome = "certain_hit" => ~missed
            /\ actual' = Shifted(actual, missed)
            /\ counted' = [k \in DOMAIN counted \cup {j} |->
                                IF k = j THEN Cardinality(actual') ELSE counted[k]]
        BY <1>13 DEF Dispatch
    <2>2. actual' \in SUBSET Positions /\ Cardinality(actual') \in Nat
        BY <2>1, ShiftedFacts, FinitePositions, IInvFacts
    <2>3. AtMost(actual', w.potential)
        <3>1. late \in BOOLEAN /\ (missed => late)
            BY <2>1
        <3>2. AtMost(actual, window[s].potential)
            BY <1>13 DEF IInv
        <3> HIDE DEF late
        <3>3. AtMost(Shifted(actual, missed), Shifted(window[s].potential, late))
            BY <3>1, <3>2, AtMostFacts, IInvFacts
        <3>4. QED BY <1>2, <2>1, <3>3
    <2>4. ~uncertain' => AtMost(w.certain, actual')
        <3>1. SUFFICES ASSUME ~uncertain, outcome # "potential_miss"
                       PROVE  AtMost(w.certain, actual')
            BY <1>1
        <3> DEFINE certainly == outcome = "certain_miss"
        <3>2. certainly \in BOOLEAN /\ (certainly => missed)
            BY <2>1
        <3>3. AtMost(window[s].certain, actual)
            BY <1>13, <3>1 DEF IInv
        <3> HIDE DEF certainly
        <3>4. AtMost(Shifted(window[s].certain, certainly), Shifted(actual, missed))
            BY <3>2, <3>3, AtMostFacts, IInvFacts
        <3>5. QED BY <1>2, <2>1, <3>1, <3>4 DEF certainly
    <2>5. /\ Cardinality(actual') <= w.num_potential
          /\ ~uncertain' => w.num_certain <= Cardinality(actual')
        <3>1. Cardinality(actual') <= Cardinality(w.potential)
            BY <1>3, <2>2, <2>3, AtMostFacts
        <3>2. ~uncertain' => Cardinality(w.certain) <= Cardinality(actual')
            BY <1>3, <2>2, <2>4, AtMostFacts
        <3>3. QED BY <1>3, <3>1, <3>2
    <2>6. /\ j \notin DOMAIN counted /\ DOMAIN counted' = DOMAIN counted \cup {j}
          /\ counted'[j] = Cardinality(actual')
          /\ \A k \in DOMAIN counted : counted'[k] = counted[k]
          /\ counted' = [k \in DOMAIN counted' |-> counted'[k]]
        BY <1>1, <1>13, <2>1, IInvFacts
    <2>7. \A k \in DOMAIN counted' :
            /\ k \in DOMAIN reported' /\ counted'[k] \in Nat
            /\ counted'[k] <= reported'[k].max
            /\ ~uncertain' => reported'[k].min <= counted'[k]
        <3>1. /\ counted'[j] \in Nat /\ counted'[j] <= reported'[j].max
              /\ ~uncertain' => reported'[j].min <= counted'[j]
            BY <1>3, <1>7, <1>9, <2>2, <2>5, <2>6
        <3>2. QED BY <1>1, <1>7, <1>10, <1>11, <2>6, <3>1
    <2>8. TypeOK'
        BY <1>1, <1>4, <1>5, <1>13, <2>2, <2>6, IInvFacts DEF TypeOK
    <2>9. Typed'
        BY <1>6, <1>7, <1>8, <2>6, <2>7 DEF Typed
    <2>10. NeverMoreMisses' /\ NeverFewerUnlessUncertain' /\ MinBelowMax'
        BY <1>7, <2>7 DEF NeverMoreMisses, NeverFewerUnlessUncertain, MinBelowMax
    <2>11. window'[at'] = w
        BY <1>1, <1>4, <1>13
    <2>12. AtMost(actual', window'[at'].potential) /\ (~uncertain' => AtMost(window'[at'].certain, actual'))
        BY <2>3, <2>4, <2>11
    <2>13. QED BY <1>5, <2>7, <2>8, <2>9, <2>10, <2>12 DEF IInv, Sound, AtMost, Count, Recent
<1>14. QED BY <1>12, <1>13

\* A merge keeps the state that stands for the execution, and weakens its window.
LEMMA MergeIInv ==
    ASSUME IInv, NEW s \in DOMAIN window, NEW u \in DOMAIN window, MergeStates(s, u)
    PROVE  IInv'
<1> DEFINE m == MergeWindows(window[s], window[u])
           rest == DOMAIN window \ {u}
<1>1. /\ s # u /\ dispatched[s] = dispatched[u]
      /\ window' = [x \in rest |-> IF x = s THEN m ELSE window[x]]
      /\ dispatched' = [x \in rest |-> dispatched[x]]
      /\ at' = IF at = u THEN s ELSE at
      /\ reported' = reported /\ uncertain' = uncertain
      /\ actual' = actual /\ counted' = counted
    BY IInvFacts DEF MergeStates
<1>2. /\ Sound(m)
      /\ AtMost(window[s].potential, m.potential) /\ AtMost(window[u].potential, m.potential)
      /\ AtMost(m.certain, window[s].certain) /\ AtMost(m.certain, window[u].certain)
    BY IInvFacts, MergeFacts
<1> HIDE DEF m
<1>3. m \in Windows /\ m.certain \in SUBSET Positions /\ m.potential \in SUBSET Positions
    BY <1>2 DEF Sound, Windows
<1>4. /\ DOMAIN window' = rest /\ DOMAIN dispatched' = rest /\ at' \in rest
      /\ \A x \in rest : /\ window'[x] = IF x = s THEN m ELSE window[x]
                         /\ dispatched'[x] = dispatched[x]
      /\ dispatched'[at'] = dispatched[at]
    BY <1>1, IInvFacts
<1>5. \A x \in rest : /\ Sound(window'[x]) /\ dispatched'[x] \subseteq Jobs
                      /\ window'[x] \in Windows
                      /\ window'[x].certain \subseteq Positions
                      /\ window'[x].potential \subseteq Positions
    BY <1>2, <1>3, <1>4, IInvFacts
<1>6. window' \in [DOMAIN window' -> Windows]
    <2>1. window' = [x \in rest |-> window'[x]]
        BY <1>1
    <2>2. QED BY <1>4, <1>5, <2>1
<1>7. /\ AtMost(window[at].potential, window'[at'].potential)
      /\ AtMost(window'[at'].certain, window[at].certain)
    <2>1. CASE at \in {s, u}
        BY <1>1, <1>2, <1>4, <2>1
    <2>2. CASE at \notin {s, u}
        <3>1. window'[at'] = window[at]
            BY <1>1, <1>4, <2>2
        <3>2. \A S \in SUBSET Positions : AtMost(S, S)
            <4>1. \A S \in SUBSET Positions, k \in Positions : Count(S, k) \in Nat
                BY CountFacts, WindowAssumption DEF Positions
            <4>2. QED BY <4>1 DEF AtMost
        <3>3. QED BY <3>1, <3>2, IInvFacts
    <2>3. QED BY <2>1, <2>2
<1>8. AtMost(actual, window'[at'].potential)
    <2>1. AtMost(actual, window[at].potential)
        BY DEF IInv
    <2>2. window'[at'].potential \in SUBSET Positions
        BY <1>4, <1>5
    <2>3. QED BY <1>7, <2>1, <2>2, AtMostFacts, IInvFacts
<1>9. ~uncertain => AtMost(window'[at'].certain, actual)
    <2>1. ~uncertain => AtMost(window[at].certain, actual)
        BY DEF IInv
    <2>2. window'[at'].certain \in SUBSET Positions
        BY <1>4, <1>5
    <2>3. QED BY <1>7, <2>1, <2>2, AtMostFacts, IInvFacts
<1>10. TypeOK'
    BY <1>1, <1>4, <1>5, IInvFacts DEF TypeOK
<1>11. Typed'
    BY <1>1, <1>6 DEF Typed, IInv
<1>12. NeverMoreMisses' /\ MinBelowMax' /\ NeverFewerUnlessUncertain'
    BY <1>1 DEF IInv, NeverMoreMisses, MinBelowMax, NeverFewerUnlessUncertain
<1>13. (DOMAIN counted \subseteq DOMAIN reported)'
    BY <1>1 DEF IInv
<1>14. QED
    BY <1>1, <1>4, <1>5, <1>8, <1>9, <1>10, <1>11, <1>12, <1>13
    DEF IInv, Sound, AtMost, Count, Recent

LEMMA BranchIInv ==
    ASSUME IInv, NEW s \in DOMAIN window, NEW u \in Branches \ DOMAIN window, Branch(s, u)
    PROVE  IInv'
<1>1. /\ window' = [x \in DOMAIN window \cup {u} |-> window[IF x = u THEN s ELSE x]]
      /\ dispatched' = [x \in DOMAIN window \cup {u} |-> dispatched[IF x = u THEN s ELSE x]]
      /\ at' = at \/ (at = s /\ at' = u)
      /\ reported' = reported /\ uncertain' = uncertain
      /\ actual' = actual /\ counted' = counted
    BY IInvFacts DEF Branch
<1>2. /\ DOMAIN window' = DOMAIN window \cup {u} /\ DOMAIN dispatched' = DOMAIN window \cup {u}
      /\ at' \in DOMAIN window'
      /\ window'[at'] = window[at] /\ dispatched'[at'] = dispatched[at]
      /\ \A x \in DOMAIN window' : \E y \in DOMAIN window :
            window'[x] = window[y] /\ dispatched'[x] = dispatched[y]
    BY <1>1, IInvFacts
<1>3. \A x \in DOMAIN window' : /\ Sound(window'[x]) /\ dispatched'[x] \subseteq Jobs
                                /\ window'[x] \in Windows
                                /\ window'[x].certain \subseteq Positions
                                /\ window'[x].potential \subseteq Positions
    BY <1>2, IInvFacts
<1>4. window' \in [DOMAIN window' -> Windows]
    <2>1. window' = [x \in DOMAIN window' |-> window'[x]]
        BY <1>1
    <2>2. QED BY <1>3, <2>1
<1>5. TypeOK'
    BY <1>1, <1>2, <1>3, IInvFacts DEF TypeOK
<1>6. Typed'
    BY <1>1, <1>4 DEF Typed, IInv
<1>7. NeverMoreMisses' /\ MinBelowMax' /\ NeverFewerUnlessUncertain'
    BY <1>1 DEF IInv, NeverMoreMisses, MinBelowMax, NeverFewerUnlessUncertain
<1>8. /\ AtMost(actual', window'[at'].potential)
      /\ ~uncertain' => AtMost(window'[at'].certain, actual')
      /\ DOMAIN counted' \subseteq DOMAIN reported'
    BY <1>1, <1>2 DEF IInv
<1>9. QED BY <1>3, <1>5, <1>6, <1>7, <1>8 DEF IInv, Sound, AtMost, Count, Recent

LEMMA NextIInv == IInv /\ [Next]_vars => IInv'
<1> SUFFICES ASSUME IInv, [Next]_vars PROVE IInv'
    OBVIOUS
<1>1. ASSUME NEW s \in DOMAIN window, NEW j \in Jobs, NEW outcome \in Outcomes,
             Dispatch(s, j, outcome)
      PROVE  IInv'
    BY <1>1, DispatchIInv
<1>2. ASSUME NEW s \in DOMAIN window, NEW u \in DOMAIN window, MergeStates(s, u)
      PROVE  IInv'
    BY <1>2, MergeIInv
<1>3. ASSUME NEW s \in DOMAIN window, NEW u \in Branches \ DOMAIN window, Branch(s, u)
      PROVE  IInv'
    BY <1>3, BranchIInv
<1>4. CASE UNCHANGED vars
    BY <1>4 DEF vars, IInv, TypeOK, Typed, NeverMoreMisses, MinBelowMax,
                NeverFewerUnlessUncertain, Sound, AtMost, Count, Recent
<1>5. QED BY <1>1, <1>2, <1>3, <1>4 DEF Next

LEMMA Inductive == Spec => []IInv
BY InitIInv, NextIInv, PTL DEF Spec

\* Every window holds positions of the window only, for each state that is left
\* when others were merged away.
THEOREM TypeCorrect == Spec => []TypeOK
<1>1. IInv => TypeOK
    BY DEF IInv
<1>2. QED BY <1>1, Inductive, PTL

\* The counters kept beside the windows are always the numbers of bits set: a
\* merge always finds enough bits to set.
THEOREM CountersAlwaysMatch == Spec => []CountersMatch
<1>1. IInv => CountersMatch
    BY DEF IInv, Sound, CountersMatch
<1>2. QED BY <1>1, Inductive, PTL

\* No execution has more misses in a window than the maximum reported for it.
THEOREM MaximumIsSafe == Spec => []NeverMoreMisses
<1>1. IInv => NeverMoreMisses
    BY DEF IInv
<1>2. QED BY <1>1, Inductive, PTL

\* The assertion of submit_misses, min_misses <= max_misses, never fails.
THEOREM MinimumBelowMaximum == Spec => []MinBelowMax
<1>1. IInv => MinBelowMax
    BY DEF IInv
<1>2. QED BY <1>1, Inductive, PTL

\* Without a job that is only possibly late, no execution has fewer misses than
\* the minimum reported: merging alone loses nothing.
THEOREM MinimumIsSafeUnlessUncertain == Spec => []NeverFewerUnlessUncertain
<1>1. IInv => NeverFewerUnlessUncertain
    BY DEF IInv
<1>2. QED BY <1>1, Inductive, PTL
=============================================================================
