------------------------ MODULE ExplorationRefinement ------------------------
(***************************************************************************)
(* The exploration of the schedule-abstraction graph implements a search   *)
(* by layers (LayeredSearch).                                              *)
(***************************************************************************)
EXTENDS SagSoundness

\* The layers by depth: those from the current depth on are in the ring, those
\* before it are explored, and those further on have no nodes yet.
LayersByDepth ==
    [d \in 0..Len(problem.job) |->
        IF d \in current_job_count..(current_job_count + NumLayers - 1)
        THEN [i \in DOMAIN nodes[Layer(d)] |-> nodes[Layer(d)][i].scheduled]
        ELSE <<>>]

Abstract ==
    INSTANCE LayeredSearch WITH
        deadline <- [j \in Jobs |-> Deadline(j)],
        depth    <- current_job_count,
        layers   <- LayersByDepth,
        current  <- IF exploring = Idle THEN <<>> ELSE <<exploring.node.scheduled>>,
        reported <- completion,
        missed   <- observed_deadline_miss,
        stopped  <- aborted

\* Every step of the exploration (explore and dispatch in space.hpp) is one of
\* the search by layers, or leaves it unchanged: each depth is finished before
\* the next is begun although the ring of layers is reused, no node is lost or
\* put back, the reported intervals only widen, and each deadline miss is seen
\* at the step that reports it.
ImplementsLayeredSearch == Abstract!Spec
=============================================================================
