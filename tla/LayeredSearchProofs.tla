------------------------- MODULE LayeredSearchProofs -------------------------
(***************************************************************************)
(* Proofs about the search by layers, for any set of jobs and deadlines.   *)
(* The exploration implements it (ExplorationRefinement), so that what is  *)
(* proved here holds for the exploration, read through the refinement.     *)
(***************************************************************************)
EXTENDS LayeredSearch, FiniteSetTheorems, TLAPS

Depths == 0..NumJobs

\* No node is left behind: when a depth is explored, all depths before it are
\* exhausted.  At the end of a search that was not given up, every node that
\* was reached with a job left is explored.
NoneLeftBehind == \A d \in Depths : d < depth => layers[d] = <<>>

\* The nodes of a layer are sets of as many jobs as its depth.
LayersHoldTheirDepth ==
    \A d \in Depths : \A i \in DOMAIN layers[d] : layers[d][i] \subseteq Jobs /\ Cardinality(layers[d][i]) = d

\* As long as no miss was seen, every reported interval ends by the deadline.
UnseenMeansInTime == ~missed => \A j \in DOMAIN reported : ~(reported[j].max > deadline[j])

\* The current node is of the depth that is explored, and the search moves on
\* only between nodes.
Shape ==
    /\ IsFiniteSet(Jobs) /\ depth \in Depths
    /\ layers \in [Depths -> Seq(SUBSET Jobs)]
    /\ current \in {<<>>} \cup {<<node>> : node \in SUBSET Jobs}

LInv == Shape /\ NoneLeftBehind /\ LayersHoldTheirDepth

-----------------------------------------------------------------------------
LEMMA JobsFinite ==
    ASSUME IsFiniteSet(Jobs)
    PROVE  NumJobs \in Nat /\ \A node \in SUBSET Jobs : Cardinality(node) \in Depths
<1>1. NumJobs \in Nat
    BY FS_CardinalityType DEF NumJobs
<1>2. ASSUME NEW node \in SUBSET Jobs
      PROVE  Cardinality(node) \in Depths
    <2>1. IsFiniteSet(node) /\ Cardinality(node) <= NumJobs
        BY FS_Subset DEF NumJobs
    <2>2. Cardinality(node) \in Nat
        BY <2>1, FS_CardinalityType
    <2>3. QED BY <2>1, <2>2, <1>1 DEF Depths
<1>3. QED BY <1>1, <1>2

LEMMA RemoveAtFacts ==
    ASSUME NEW S, NEW s \in Seq(S), NEW i \in DOMAIN s
    PROVE  /\ RemoveAt(s, i) \in Seq(S)
           /\ \A k \in DOMAIN RemoveAt(s, i) : \E h \in DOMAIN s : RemoveAt(s, i)[k] = s[h]
<1> DEFINE front == SubSeq(s, 1, i - 1)
           back  == SubSeq(s, i + 1, Len(s))
<1>1. i \in 1..Len(s) /\ Len(s) \in Nat
    OBVIOUS
<1>2. front \in Seq(S) /\ Len(front) = i - 1 /\ \A k \in 1..(i - 1) : front[k] = s[k]
    BY <1>1
<1>3. back \in Seq(S) /\ Len(back) = Len(s) - i /\ \A k \in 1..(Len(s) - i) : back[k] = s[i + k]
    BY <1>1
<1>4. RemoveAt(s, i) = front \o back
    BY DEF RemoveAt
<1> HIDE DEF front, back
<1>5. RemoveAt(s, i) \in Seq(S) /\ Len(RemoveAt(s, i)) = Len(s) - 1
    BY <1>1, <1>2, <1>3, <1>4
<1>6. ASSUME NEW k \in DOMAIN RemoveAt(s, i)
      PROVE  \E h \in DOMAIN s : RemoveAt(s, i)[k] = s[h]
    <2>1. k \in 1..(Len(s) - 1)
        BY <1>5
    <2>2. CASE k <= i - 1
        <3>1. RemoveAt(s, i)[k] = front[k]
            BY <2>1, <2>2, <1>1, <1>2, <1>3, <1>4
        <3>2. k \in 1..(i - 1) /\ k \in DOMAIN s
            BY <2>1, <2>2, <1>1
        <3>3. front[k] = s[k]
            BY <3>2, <1>2
        <3>4. QED BY <3>1, <3>2, <3>3
    <2>3. CASE k > i - 1
        <3>1. RemoveAt(s, i)[k] = back[k - (i - 1)]
            BY <2>1, <2>3, <1>1, <1>2, <1>3, <1>4
        <3>2. back[k - (i - 1)] = s[k + 1] /\ k + 1 \in DOMAIN s
            BY <2>1, <2>3, <1>1, <1>3
        <3>3. QED BY <3>1, <3>2
    <2>4. QED BY <2>1, <2>2, <2>3, <1>1
<1>7. QED BY <1>5, <1>6

-----------------------------------------------------------------------------
LEMMA InitLInv == Init => LInv
<1> SUFFICES ASSUME Init PROVE LInv
    OBVIOUS
<1>1. IsFiniteSet(Jobs) /\ NumJobs \in Nat
    BY JobsFinite DEF Init
<1>2. 0 \in Depths /\ layers = [d \in Depths |-> IF d = 0 THEN <<{}>> ELSE <<>>]
    BY <1>1 DEF Init, Depths
<1>3. Shape
    <2>1. <<{}>> \in Seq(SUBSET Jobs) /\ <<>> \in Seq(SUBSET Jobs)
        OBVIOUS
    <2>2. layers \in [Depths -> Seq(SUBSET Jobs)]
        BY <1>2, <2>1
    <2>3. QED BY <1>1, <1>2, <2>2 DEF Init, Shape
<1>4. NoneLeftBehind
    BY DEF Init, NoneLeftBehind, Depths
<1>5. LayersHoldTheirDepth
    <2>1. Cardinality({}) = 0
        BY FS_EmptySet
    <2>2. ASSUME NEW d \in Depths, NEW i \in DOMAIN layers[d]
          PROVE  layers[d][i] \subseteq Jobs /\ Cardinality(layers[d][i]) = d
        <3>1. CASE d = 0
            <4>1. layers[d] = <<{}>>
                BY <1>2, <3>1
            <4>2. layers[d][i] = {}
                BY <4>1
            <4>3. QED BY <4>2, <2>1, <3>1
        <3>2. CASE d # 0
            <4>1. layers[d] = <<>>
                BY <1>2, <3>2
            <4>2. QED BY <4>1
        <3>3. QED BY <3>1, <3>2
    <2>3. QED BY <2>2 DEF LayersHoldTheirDepth
<1>6. QED BY <1>3, <1>4, <1>5 DEF LInv

LEMMA NextLInv == LInv /\ [Next]_vars => LInv'
<1> SUFFICES ASSUME LInv, [Next]_vars PROVE LInv'
    OBVIOUS
<1> USE DEF LInv
<1>0. NumJobs \in Nat /\ \A node \in SUBSET Jobs : Cardinality(node) \in Depths
    BY JobsFinite DEF Shape
<1>1. CASE Advance
    <2>1. depth' = depth + 1 /\ depth < NumJobs /\ layers[depth] = <<>> /\ UNCHANGED <<deadline, layers, current>>
        BY <1>1 DEF Advance, Searching
    <2>2. Jobs' = Jobs /\ NumJobs' = NumJobs /\ Depths' = Depths
        BY <2>1 DEF Jobs, NumJobs, Depths
    <2>3. Shape'
        BY <2>1, <2>2, <1>0 DEF Shape, Depths
    <2>4. NoneLeftBehind'
        BY <2>1, <2>2, <1>0 DEF NoneLeftBehind, Shape, Depths
    <2>5. LayersHoldTheirDepth'
        BY <2>1, <2>2 DEF LayersHoldTheirDepth
    <2>6. QED BY <2>3, <2>4, <2>5
<1>2. ASSUME NEW i \in DOMAIN layers[depth], Take(i) PROVE LInv'
    <2>1. /\ layers' = [layers EXCEPT ![depth] = RemoveAt(@, i)]
          /\ current' \in {<<>>, <<layers[depth][i]>>}
          /\ UNCHANGED <<deadline, depth>>
        BY <1>2 DEF Take
    <2>2. Jobs' = Jobs /\ NumJobs' = NumJobs /\ Depths' = Depths
        BY <2>1 DEF Jobs, NumJobs, Depths
    <2>3. depth \in Depths /\ layers[depth] \in Seq(SUBSET Jobs)
        BY DEF Shape
    <2>4. /\ RemoveAt(layers[depth], i) \in Seq(SUBSET Jobs)
          /\ \A k \in DOMAIN RemoveAt(layers[depth], i) :
                \E h \in DOMAIN layers[depth] : RemoveAt(layers[depth], i)[k] = layers[depth][h]
        BY <1>2, <2>3, RemoveAtFacts
    <2>5. layers[depth][i] \in SUBSET Jobs
        BY <1>2, <2>3
    <2>6. Shape'
        BY <2>1, <2>2, <2>4, <2>5 DEF Shape
    <2>7. NoneLeftBehind'
        BY <2>1, <2>2, <2>3 DEF NoneLeftBehind, Shape, Depths
    <2>8. LayersHoldTheirDepth'
        BY <2>1, <2>2, <2>3, <2>4 DEF LayersHoldTheirDepth, Shape
    <2>9. QED BY <2>6, <2>7, <2>8
<1>3. ASSUME NEW node \in SUBSET Jobs, Reach(node) PROVE LInv'
    <2> DEFINE d == Cardinality(node)
    <2>1. /\ d \in Depths /\ depth < d /\ UNCHANGED <<deadline, depth>>
          /\ current' \in {current, <<>>}
          /\ layers' = layers \/ layers' = [layers EXCEPT ![d] = Append(@, node)]
        BY <1>0, <1>3 DEF Reach
    <2> HIDE DEF d
    <2>2. Jobs' = Jobs /\ NumJobs' = NumJobs /\ Depths' = Depths
        BY <2>1 DEF Jobs, NumJobs, Depths
    <2>3. layers[d] \in Seq(SUBSET Jobs)
        BY <2>1 DEF Shape
    <2>4. /\ Append(layers[d], node) \in Seq(SUBSET Jobs)
          /\ \A k \in DOMAIN Append(layers[d], node) :
                \/ k \in DOMAIN layers[d] /\ Append(layers[d], node)[k] = layers[d][k]
                \/ Append(layers[d], node)[k] = node
        BY <2>3
    <2>5. Shape'
        BY <2>1, <2>2, <2>4 DEF Shape
    <2>6. NoneLeftBehind'
        <3>1. ASSUME NEW e \in Depths, e < depth
              PROVE  layers'[e] = layers[e]
            <4>1. e # d
                BY <2>1, <1>0, <3>1 DEF Depths, Shape
            <4>2. QED BY <2>1, <4>1 DEF Shape
        <3>2. QED BY <2>1, <2>2, <3>1 DEF NoneLeftBehind
    <2>7. LayersHoldTheirDepth'
        <3>1. ASSUME NEW e \in Depths, NEW k \in DOMAIN layers'[e]
              PROVE  layers'[e][k] \subseteq Jobs /\ Cardinality(layers'[e][k]) = e
            <4>1. CASE layers'[e] = layers[e]
                BY <3>1, <4>1 DEF LayersHoldTheirDepth
            <4>2. CASE e = d /\ layers'[e] = Append(layers[d], node)
                <5>1. CASE k \in DOMAIN layers[d] /\ layers'[e][k] = layers[d][k]
                    BY <4>2, <5>1, <2>1 DEF LayersHoldTheirDepth
                <5>2. CASE layers'[e][k] = node
                    BY <4>2, <5>2 DEF d
                <5>3. QED BY <3>1, <4>2, <5>1, <5>2, <2>4
            <4>3. QED BY <4>1, <4>2, <2>1 DEF Shape
        <3>2. QED BY <3>1, <2>2 DEF LayersHoldTheirDepth
    <2>8. QED BY <2>5, <2>6, <2>7
<1>4. CASE GiveUp \/ UNCHANGED vars
    <2>1. UNCHANGED <<deadline, depth, layers, current>>
        BY <1>4 DEF GiveUp, vars
    <2>2. QED BY <2>1 DEF Shape, NoneLeftBehind, LayersHoldTheirDepth, Jobs, NumJobs, Depths
<1>5. QED BY <1>1, <1>2, <1>3, <1>4 DEF Next

-----------------------------------------------------------------------------
\* Each depth is finished before the next one is begun (the loop of explore in
\* space.hpp): nothing that was reached is overlooked, however many layers one
\* dispatch skips.
THEOREM LayersAreExhausted == Spec => []NoneLeftBehind
<1>1. LInv => NoneLeftBehind
    BY DEF LInv
<1>2. QED BY InitLInv, NextLInv, <1>1, PTL DEF Spec

\* A node in a layer has dispatched as many jobs as the depth says, so that the
\* search ends after as many depths as there are jobs.
THEOREM LayersAreConsistent == Spec => []LayersHoldTheirDepth
<1>1. LInv => LayersHoldTheirDepth
    BY DEF LInv
<1>2. QED BY InitLInv, NextLInv, <1>1, PTL DEF Spec

\* A search that saw no miss has reported no interval that ends after the
\* deadline of its job (update_finish_times in space.hpp).
THEOREM NoMissUnseen == Spec => []UnseenMeansInTime
<1>1. Init => UnseenMeansInTime
    BY DEF Init, UnseenMeansInTime
<1>2. UnseenMeansInTime /\ [Next]_vars => UnseenMeansInTime'
    <2> SUFFICES ASSUME UnseenMeansInTime, [Next]_vars PROVE UnseenMeansInTime'
        OBVIOUS
    <2>1. CASE Advance \/ GiveUp \/ UNCHANGED vars
        BY <2>1 DEF Advance, GiveUp, vars, UnseenMeansInTime
    <2>2. ASSUME NEW i \in DOMAIN layers[depth], Take(i) PROVE UnseenMeansInTime'
        BY <2>2 DEF Take, UnseenMeansInTime
    <2>3. ASSUME NEW node \in SUBSET Jobs, Reach(node) PROVE UnseenMeansInTime'
        <3>1. missed' = (missed \/ Late(reported')) /\ deadline' = deadline
            BY <2>3 DEF Reach
        <3>2. QED BY <3>1 DEF UnseenMeansInTime, Late
    <2>4. QED BY <2>1, <2>2, <2>3 DEF Next
<1>3. QED BY <1>1, <1>2, PTL DEF Spec
=============================================================================
