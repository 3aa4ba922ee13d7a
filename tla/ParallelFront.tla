--------------------------- MODULE ParallelFront ----------------------------
(***************************************************************************)
(* The parallel build of the exploration (CONFIG_PARALLEL): the workers of *)
(* an arena take the nodes of one exploration front from a concurrent      *)
(* queue and expand them at the same time.  They share the nodes of the    *)
(* next depth, the completion times and two plain flags.                   *)
(*                                                                         *)
(* What a dispatch computes is the subject of Exploration and given here:  *)
(* front.work says for every node of the front which jobs can be           *)
(* dispatched and, for every state in which they can, when they finish.    *)
(* There is one core, hence the state that a dispatch leads to is the      *)
(* interval in which that core becomes available, the finish time of the   *)
(* job.  A node of the front is the set of jobs that it has dispatched.    *)
(* States are merged under the default options (a budget of 1).            *)
(***************************************************************************)
EXTENDS Intervals, FiniteSets, FiniteSetsExt, Functions, Sequences

CONSTANTS
    Workers,  \* the threads of the arena
    Fronts    \* the fronts to explore

TimeIntervals == Intervals(Nat)

\* What is dispatched in a node: which job, and its finish time in each of the
\* states in which it can be dispatched, in the order of the states.
Dispatches(jobs) == [job : jobs, states : Seq(TimeIntervals)]

\* Only a front of at least four nodes is explored in parallel, space.hpp:1050.
ASSUME FrontsAssumption ==
    \A f \in Fronts :
        LET jobs == DOMAIN f.deadline
        IN  /\ Cardinality(DOMAIN f.work) >= 4
            /\ f.deadline \in [jobs -> Nat]
            /\ f.cost \in [jobs -> TimeIntervals]
            /\ f.early_exit \in BOOLEAN
            /\ \A n \in DOMAIN f.work :
                  /\ n \subseteq jobs
                  /\ f.work[n].first \in Nat
                  /\ f.work[n].dispatches \in Seq(Dispatches(jobs))

VARIABLES
    front,       \* the front: work, deadline and cost of each job, early_exit
    exploration_front, \* the nodes that no worker has taken yet
    nodes,       \* the nodes of the next depth, in the order of their creation
    cached,      \* the nodes that the look-up table holds
    completion,  \* the completion times of each job
    observed_deadline_miss, \* the workers that have set the flag
    aborted,     \* the workers that have set the flag
    worker,      \* what each worker is doing
    explored     \* the main loop has gone past this front

vars == <<front, exploration_front, nodes, cached, completion, observed_deadline_miss, aborted,
          worker, explored>>

Jobs == DOMAIN front.deadline
NoNode == 0
None == [min |-> 0, max |-> -1]
Waiting == [step |-> "pop"]
-----------------------------------------------------------------------------
(***************************************************************************)
(* The flags are plain booleans: a worker that has not set one itself may  *)
(* or may not see that another one has.                                    *)
(***************************************************************************)
Sees(w, flag) == IF w \in flag THEN {TRUE} ELSE {FALSE, flag # {}}

\* Faulty variant of ExceedsDeadline: only jobs that are certainly late.
CertainlyExceedsDeadline(range, deadline) == range.min > deadline

ExceedsDeadline(range, deadline) == range.max > deadline

\* Faulty variant of UpdateFinishTimes: the last writer wins.
OverwriteFinishTimes(known, range) == range

UpdateFinishTimes(known, range) == IF known = None THEN range ELSE Widen(known, range)

\* Faulty variant of Merged: the bounds are exchanged.
MergedWrongWay(s, t) == [min |-> MaxOf(s.min, t.min), max |-> MinOf(s.max, t.max)]

Merged(s, t) == Widen(s, t)

\* The first state of node n that s can be merged with, if there is one.
MergeCandidates(n, s) == {i \in DOMAIN n.states : Intersects(n.states[i], s)}

MergeStates(n, s) ==
    [n EXCEPT !.states[Min(MergeCandidates(n, s))] = Merged(@, s),
              !.a_min = MinOf(@, s.min),
              !.a_max = MaxOf(@, s.max)]

AddState(n, s) ==
    LET empty == n.states = <<>>
    IN  [n EXCEPT !.a_min = IF empty THEN s.min ELSE MinOf(@, s.min),
                  !.a_max = IF empty THEN s.max ELSE MaxOf(@, s.max),
                  !.states = Append(@, s)]

\* The first state sets the bounds.
EmptyNode(scheduled) == [scheduled |-> scheduled, states |-> <<>>, a_min |-> 0, a_max |-> 0]

\* Faulty variant of CertainlyMissed: jobs that can still be in time.
PossiblyMissed(scheduled, from, last) ==
    {j \in Jobs \ scheduled : front.deadline[j] \in from .. (last.max - 1)}

\* The jobs that state last certainly starts after their deadlines.
CertainlyMissed(scheduled, from, last) ==
    {j \in Jobs \ scheduled : front.deadline[j] \in from .. (last.min - 1)}
-----------------------------------------------------------------------------
(***************************************************************************)
(* Where a worker is: it expands node, in which it dispatches the jobs one *)
(* after another, each in the states left.  next is the node that the job  *)
(* leads to, once known.                                                   *)
(***************************************************************************)
At(w, step) == worker[w].step = step
Goto(w, step) == worker' = [worker EXCEPT ![w].step = step]
Dispatched(w) == Head(worker[w].left)
Finish(w) == Head(Dispatched(w).states)
\* What is left of the dispatch when its first state has been dealt with.
NextState(w) == [Dispatched(w) EXCEPT !.states = Tail(@)]
NextJobs(w) == worker[w].node \cup {Dispatched(w).job}

\* Faulty variant of Return: the node of the previous job is kept.
ReturnKeepingNode(w) ==
    worker' = [worker EXCEPT ![w].step = "dispatch", ![w].left = Tail(@)]

\* dispatch returns, the next job follows.
Return(w) ==
    worker' = [worker EXCEPT ![w].step = "dispatch", ![w].left = Tail(@), ![w].next = NoNode]

ReportMiss(w) ==
    /\ observed_deadline_miss' = observed_deadline_miss \cup {w}
    /\ aborted' = IF front.early_exit THEN aborted \cup {w} ELSE aborted

Init ==
    /\ front \in Fronts
    /\ exploration_front = DOMAIN front.work
    /\ nodes = <<>>
    /\ cached = {}
    /\ completion = [j \in Jobs |-> None]
    /\ observed_deadline_miss = {}
    /\ aborted = {}
    /\ worker = [w \in Workers |-> Waiting]
    /\ explored = FALSE

\* Faulty variant of Pop: the node stays in the queue.
PopCopy(w) ==
    /\ At(w, "pop")
    /\ \E n \in exploration_front, stop \in Sees(w, aborted) :
        /\ ~stop
        /\ worker' = [worker EXCEPT ![w] =
                [step |-> "dispatch", node |-> n, left |-> front.work[n].dispatches,
                 next |-> NoNode, empty |-> FALSE, found_one |-> FALSE]]
    /\ UNCHANGED <<front, exploration_front, nodes, cached, completion, observed_deadline_miss,
                   aborted, explored>>

\* A worker takes a node.  After an abort it drops it, and takes at most one
\* more for each range that is left.
Pop(w) ==
    /\ At(w, "pop")
    /\ \E n \in exploration_front, stop \in Sees(w, aborted) :
        /\ exploration_front' = exploration_front \ {n}
        /\ worker' = IF stop THEN worker ELSE [worker EXCEPT ![w] =
                [step |-> "dispatch", node |-> n, left |-> front.work[n].dispatches,
                 next |-> NoNode, empty |-> FALSE, found_one |-> FALSE]]
    /\ UNCHANGED <<front, nodes, cached, completion, observed_deadline_miss, aborted, explored>>

\* The completion time of a job is updated under the mutex of that job.
UpdateCompletion(w) ==
    /\ At(w, "dispatch") /\ worker[w].left # <<>> /\ Dispatched(w).states # <<>>
    /\ LET j == Dispatched(w).job
       IN  /\ completion' = [completion EXCEPT ![j] = UpdateFinishTimes(@, Finish(w))]
           /\ IF ExceedsDeadline(Finish(w), front.deadline[j])
              THEN ReportMiss(w)
              ELSE UNCHANGED <<observed_deadline_miss, aborted>>
    /\ worker' = [worker EXCEPT ![w].found_one = TRUE,
                                ![w].step = IF worker[w].next = NoNode THEN "find" ELSE "new_state"]
    /\ UNCHANGED <<front, exploration_front, nodes, cached, explored>>

\* Nodes with the same jobs that were created side by side share a list.
FindNode(w) ==
    /\ At(w, "find")
    /\ LET same == {i \in cached : nodes[i].scheduled = NextJobs(w)}
       IN  IF same = {}
           THEN Goto(w, "new_node")
           ELSE worker' = [worker EXCEPT ![w].step = "new_state", ![w].next = Min(same)]
    /\ UNCHANGED <<front, exploration_front, nodes, cached, completion, observed_deadline_miss,
                   aborted, explored>>

\* new_node puts the node into the layer first and into the table afterwards.
NewNode(w) ==
    /\ At(w, "new_node")
    /\ nodes' = Append(nodes, EmptyNode(NextJobs(w)))
    /\ worker' = [worker EXCEPT ![w].step = "cache_node", ![w].next = Len(nodes) + 1]
    /\ UNCHANGED <<front, exploration_front, cached, completion, observed_deadline_miss, aborted,
                   explored>>

CacheNode(w) ==
    /\ At(w, "cache_node")
    /\ cached' = cached \cup {worker[w].next}
    /\ Goto(w, "new_state")
    /\ UNCHANGED <<front, exploration_front, nodes, completion, observed_deadline_miss, aborted,
                   explored>>

\* Whether the node has states is read without its lock.
NewState(w) ==
    /\ At(w, "new_state")
    /\ LET empty == nodes[worker[w].next].states = <<>>
       IN  worker' = [worker EXCEPT ![w].step = IF empty THEN "add_state" ELSE "merge_states",
                                    ![w].empty = empty]
    /\ UNCHANGED <<front, exploration_front, nodes, cached, completion, observed_deadline_miss,
                   aborted, explored>>

\* Under the write lock of the node.
TryMerge(w) ==
    LET n == nodes[worker[w].next]
    IN  /\ At(w, "merge_states")
        /\ IF MergeCandidates(n, Finish(w)) = {}
           THEN Goto(w, "add_state") /\ UNCHANGED nodes
           ELSE /\ nodes' = [nodes EXCEPT ![worker[w].next] = MergeStates(n, Finish(w))]
                /\ Goto(w, "edge")
        /\ UNCHANGED <<front, exploration_front, cached, completion, observed_deadline_miss,
                       aborted, explored>>

\* Faulty variant of Add: whether the node is empty is not read again.
AddToNodeBelievedEmpty(w) ==
    LET s == Finish(w)
        n == AddState(nodes[worker[w].next], s)
    IN  /\ At(w, "add_state")
        /\ nodes' = [nodes EXCEPT ![worker[w].next] =
                IF worker[w].empty THEN [n EXCEPT !.a_min = s.min, !.a_max = s.max] ELSE n]
        /\ Goto(w, "edge")
        /\ UNCHANGED <<front, exploration_front, cached, completion, observed_deadline_miss,
                       aborted, explored>>

\* Under the write lock of the node, taken anew after a merge that failed.
Add(w) ==
    /\ At(w, "add_state")
    /\ nodes' = [nodes EXCEPT ![worker[w].next] = AddState(@, Finish(w))]
    /\ Goto(w, "edge")
    /\ UNCHANGED <<front, exploration_front, cached, completion, observed_deadline_miss, aborted,
                   explored>>

\* After a miss, of this worker or of another one, dispatch returns at once.
CountEdge(w) ==
    /\ At(w, "edge")
    /\ \E stop \in Sees(w, observed_deadline_miss) :
        IF stop
        THEN Return(w)
        ELSE worker' = [worker EXCEPT ![w].step = "dispatch",
                            ![w].left = <<NextState(w)>> \o Tail(@)]
    /\ UNCHANGED <<front, exploration_front, nodes, cached, completion, observed_deadline_miss,
                   aborted, explored>>

\* The job was dispatched in every state.  With early exit the last state of
\* the next node, which may by now be the state of another worker, tells
\* whether a job can no longer be in time.  A node is created to show the miss.
CheckForDeadlineMisses(w) ==
    /\ At(w, "dispatch") /\ worker[w].left # <<>> /\ Dispatched(w).states = <<>>
    /\ LET n == nodes[worker[w].next]
           last == n.states[Len(n.states)]
           missed == IF worker[w].next = NoNode \/ ~front.early_exit THEN {}
                     ELSE CertainlyMissed(n.scheduled, front.work[worker[w].node].first, last)
       IN  IF missed = {}
           THEN UNCHANGED <<nodes, cached, completion, observed_deadline_miss, aborted>>
           ELSE \E j \in missed :
                /\ \A k \in missed : front.deadline[j] <= front.deadline[k]
                /\ LET range == Shift(last, front.cost[j])
                   IN  /\ nodes' = Append(nodes,
                                          AddState(EmptyNode(n.scheduled \cup {j}), range))
                       /\ cached' = cached \cup {Len(nodes) + 1}
                       /\ completion' = [completion EXCEPT ![j] = UpdateFinishTimes(@, range)]
                /\ ReportMiss(w)
    /\ Return(w)
    /\ UNCHANGED <<front, exploration_front, explored>>

\* explore returns.  A node in which no job could be dispatched is a dead end.
\* The look-up table still refers to the node: nothing is released.
EndNode(w) ==
    /\ At(w, "dispatch") /\ worker[w].left = <<>>
    /\ IF worker[w].found_one
       THEN UNCHANGED <<observed_deadline_miss, aborted>>
       ELSE /\ observed_deadline_miss' = observed_deadline_miss \cup {w}
            /\ aborted' = aborted \cup {w}
    /\ worker' = [worker EXCEPT ![w] = Waiting]
    /\ UNCHANGED <<front, exploration_front, nodes, cached, completion, explored>>

\* parallel_for returns when no worker has anything left to do; the nodes that
\* were not taken after an abort are cleared.
EndFront ==
    /\ ~explored
    /\ \A w \in Workers : At(w, "pop")
    /\ exploration_front = {} \/ aborted # {}
    /\ exploration_front' = {}
    /\ explored' = TRUE
    /\ UNCHANGED <<front, nodes, cached, completion, observed_deadline_miss, aborted, worker>>

Work(w) ==
    \/ Pop(w)
    \/ UpdateCompletion(w)
    \/ FindNode(w)
    \/ NewNode(w)
    \/ CacheNode(w)
    \/ NewState(w)
    \/ TryMerge(w)
    \/ Add(w)
    \/ CountEdge(w)
    \/ CheckForDeadlineMisses(w)
    \/ EndNode(w)

Next == (\E w \in Workers : Work(w)) \/ EndFront

\* Every thread of the arena goes on running, and parallel_for returns when all
\* have ended.
Fairness == (\A w \in Workers : WF_vars(Work(w))) /\ WF_vars(EndFront)

Spec == Init /\ [][Next]_vars /\ Fairness
-----------------------------------------------------------------------------
(***************************************************************************)
(* Properties.                                                             *)
(***************************************************************************)
\* The finish times of all the dispatches of job j that the front leads to.
FinishTimes(j) ==
    UNION {{d.states[i] : i \in DOMAIN d.states} :
              d \in {e \in UNION {Range(front.work[n].dispatches) : n \in DOMAIN front.work} :
                        e.job = j}}

DeadEnd(n) == \A d \in Range(front.work[n].dispatches) : d.states = <<>>

\* The states of the next depth are intervals of time, and every node of the
\* look-up table is in the layer as well: it will be explored.
TypeOK ==
    /\ exploration_front \subseteq DOMAIN front.work
    /\ cached \subseteq DOMAIN nodes
    /\ \A i \in DOMAIN nodes : Range(nodes[i].states) \subseteq TimeIntervals
    /\ \A j \in Jobs : completion[j] \in TimeIntervals \cup {None}
    /\ observed_deadline_miss \cup aborted \subseteq Workers

\* The bounds a_min and a_max that a node keeps hold for each of its states,
\* although workers find the node empty, merge into it and add to it in any
\* order.  The next front looks for candidate jobs up to a_max only.
BoundsCoverStates ==
    \A i \in DOMAIN nodes : \A s \in Range(nodes[i].states) :
        nodes[i].a_min <= s.min /\ s.max <= nodes[i].a_max

\* The verdict of the analysis, if this front is the last one.
NoMissFound == explored /\ aborted = {} /\ observed_deadline_miss = {}

\* Without a miss no dispatch is lost between the workers: its state is part of
\* a state of a node with the right jobs, whichever worker created that node.
NothingLost ==
    NoMissFound =>
        \A n \in DOMAIN front.work : \A d \in Range(front.work[n].dispatches) :
            \A s \in Range(d.states) : \E i \in DOMAIN nodes :
                /\ nodes[i].scheduled = n \cup {d.job}
                /\ \E t \in Range(nodes[i].states) : ContainsInterval(t, s)

\* Without a miss the reported completion times are exactly those of all the
\* dispatches, whoever made them and in whatever order.
ResultsComplete ==
    NoMissFound => \A j \in Jobs :
        LET all == FinishTimes(j)
        IN  completion[j] = IF all = {} THEN None
                            ELSE [min |-> Min({i.min : i \in all}),
                                  max |-> Max({i.max : i \in all})]

\* A late job or a dead end is never missed, also when the worker that sees it
\* is not the one that others notice.
NoMissOverlooked ==
    NoMissFound =>
        /\ \A j \in Jobs : \A i \in FinishTimes(j) : i.max <= front.deadline[j]
        /\ \A n \in DOMAIN front.work : ~DeadEnd(n)

\* The front has a miss: a dispatch that may be late, a dead end, or a dispatch
\* after which a job still to be dispatched is too late.
MissExists ==
    \/ \E j \in Jobs : \E i \in FinishTimes(j) : i.max > front.deadline[j]
    \/ \E n \in DOMAIN front.work : DeadEnd(n)
    \/ \E n \in DOMAIN front.work : \E d \in Range(front.work[n].dispatches) :
           \E s \in Range(d.states), j \in Jobs \ (n \cup {d.job}) :
               s.min > front.deadline[j]

\* When a miss is reported there is one, although the last state of the node
\* that the check looks at may be the state of another worker.
MissIsReal == observed_deadline_miss # {} => MissExists

\* The workers always get to the end of the front, whether or not one of them
\* aborts the exploration and the others notice.
FrontEnds == <>explored
=============================================================================
