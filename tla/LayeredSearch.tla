---------------------------- MODULE LayeredSearch ----------------------------
(***************************************************************************)
(* What the exploration promises, without states, bounds and merging: a    *)
(* search by layers.  The nodes at depth d are sets of d jobs; each depth  *)
(* is finished before the next one is begun, and the exploration of a node *)
(* leads to larger sets only.  The intervals reported for the jobs only    *)
(* widen, and a deadline miss is seen as soon as an interval shows it.     *)
(*                                                                         *)
(* Exploration keeps the layers in a ring that is reused, finds nodes by a *)
(* key, and interleaves the dispatches of a node; the module               *)
(* ExplorationRefinement says how its state is read as one of these.       *)
(***************************************************************************)
EXTENDS Integers, Sequences, FiniteSets, SequencesExt

VARIABLES
    deadline,   \* the deadline of each job
    depth,      \* the depth that is explored
    layers,     \* the nodes of each depth that are not explored yet
    current,    \* the node whose exploration is not over: <<>> or <<node>>
    reported,   \* the completion times reported so far, by job
    missed,     \* a deadline miss was seen
    stopped     \* the search was given up

vars == <<deadline, depth, layers, current, reported, missed, stopped>>

Jobs == DOMAIN deadline
NumJobs == Cardinality(Jobs)

Late(times) == \E j \in DOMAIN times : times[j].max > deadline[j]
Covers(new, old) ==
    \A j \in DOMAIN old : j \in DOMAIN new /\ new[j].min <= old[j].min /\ old[j].max <= new[j].max
-----------------------------------------------------------------------------
Init ==
    /\ IsFiniteSet(Jobs)
    /\ depth = 0
    /\ layers = [d \in 0..NumJobs |-> IF d = 0 THEN <<{}>> ELSE <<>>]
    /\ current = <<>> /\ reported = <<>> /\ missed = FALSE /\ stopped = FALSE

Searching == current = <<>> /\ depth < NumJobs /\ ~stopped

Advance ==
    /\ Searching /\ layers[depth] = <<>>
    /\ depth' = depth + 1
    /\ UNCHANGED <<deadline, layers, current, reported, missed, stopped>>

\* A node that leads nowhere is a deadline miss, and ends the search.
Take(i) ==
    /\ Searching
    /\ layers' = [layers EXCEPT ![depth] = RemoveAt(@, i)]
    /\ \/ current' \in {<<>>, <<layers[depth][i]>>} /\ UNCHANGED <<missed, stopped>>
       \/ current' = <<>> /\ missed' = TRUE /\ stopped' = TRUE
    /\ UNCHANGED <<deadline, depth, reported>>

\* A dispatch in the current node leads to the node of a larger set, which may
\* be there already.
Reach(node) ==
    /\ current # <<>> /\ current[1] \subseteq node /\ current[1] # node
    /\ LET d == Cardinality(node)
       IN  /\ depth < d
           /\ \/ node \in Range(layers[d]) /\ UNCHANGED layers
              \/ layers' = [layers EXCEPT ![d] = Append(@, node)]
    /\ current' \in {current, <<>>}
    /\ DOMAIN reported' \subseteq Jobs /\ Covers(reported', reported)
    /\ \E j \in node \ current[1] : j \in DOMAIN reported'
    /\ missed' = (missed \/ Late(reported'))
    /\ stopped' \in {stopped, TRUE}
    /\ UNCHANGED <<deadline, depth>>

GiveUp ==
    /\ Searching
    /\ stopped' = TRUE
    /\ UNCHANGED <<deadline, depth, layers, current, reported, missed>>

Next ==
    \/ Advance
    \/ \E i \in DOMAIN layers[depth] : Take(i)
    \/ \E node \in SUBSET Jobs : Reach(node)
    \/ GiveUp

Spec == Init /\ [][Next]_vars
=============================================================================
