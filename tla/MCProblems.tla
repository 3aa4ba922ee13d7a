----------------------------- MODULE MCProblems -----------------------------
(***************************************************************************)
(* Small scheduling problems for TLC.  Each family makes one part of the   *)
(* analysis decide something; within a family the timing varies.           *)
(***************************************************************************)
EXTENDS Integers, Sequences, FiniteSets, TLC

At(t) == [min |-> t, max |-> t]
Between(a, b) == [min |-> a, max |-> b]

NoDeadline == 40

Default == [conservative |-> FALSE, use_finish_times |-> FALSE, budget |-> 1,
            be_naive |-> FALSE, early_exit |-> FALSE, limited |-> FALSE]
MergeAll == [Default EXCEPT !.budget = -1]
TimedMerge == [Default EXCEPT !.use_finish_times = TRUE, !.budget = 2]
ConservativeMerge == [TimedMerge EXCEPT !.conservative = TRUE]
NaiveSearch == [Default EXCEPT !.be_naive = TRUE]
EarlyStop == [Default EXCEPT !.early_exit = TRUE]

\* A job with an execution time for each level of parallelism.
GangJob(arr, cost, prio) ==
    [arr |-> arr, cost |-> cost, deadline |-> NoDeadline, prio |-> prio, type |-> "NORMAL"]
SeqJob(arr, cost, prio) == GangJob(arr, 1 :> cost, prio)
Fork(job) == [job EXCEPT !.type = "C_FORK"]
Join(job) == [job EXCEPT !.type = "C_JOIN"]
Due(job, deadline) == [job EXCEPT !.deadline = deadline]

Edge(from, to, type, delay) == [from |-> from, to |-> to, type |-> type, delay |-> delay]
Mutex(a, b, type, delay) == [a |-> a, b |-> b, type |-> type, delay |-> delay]

Problem(jobs, platform) ==
    [job |-> jobs, prec |-> {}, excl |-> {}, abort |-> <<>>, platform |-> platform,
     options |-> Default]
With(p, prec, excl) == [p EXCEPT !.prec = prec, !.excl = excl]
Under(options, problems) == {[p EXCEPT !.options = o] : o \in options, p \in problems}

Idle1 == <<At(0)>>
Idle2 == <<At(0), At(0)>>
Idle3 == <<At(0), At(0), At(0)>>
Busy2 == <<Between(0, 1), Between(2, 3)>>
-----------------------------------------------------------------------------
(* Independent sequential jobs. *)
Sequential(platform) ==
    {Problem(<<SeqJob(Between(0, late), Between(1, 2), p[1]), SeqJob(At(0), Between(2, 4), p[2]),
               SeqJob(At(r), Between(1, 2), p[3])>>, platform) :
        late \in {0, 1}, r \in {1, 2}, p \in {<<1, 2, 3>>, <<3, 1, 2>>, <<2, 3, 1>>}}

(* Gang and moldable jobs beside sequential ones. *)
Gang(platform) ==
    {Problem(<<SeqJob(Between(0, 1), Between(1, 3), p[1]), GangJob(At(r), cost, p[2]),
               SeqJob(At(0), At(2), p[3])>>, platform) :
        r \in {0, 2}, p \in {<<1, 2, 3>>, <<2, 1, 3>>, <<3, 2, 1>>},
        cost \in {2 :> Between(1, 2), (1 :> Between(2, 3)) @@ (2 :> At(1))}}

(* Precedence, from starts and from finishes, with and without delays. *)
Precedence(platform) ==
    {With(Problem(<<SeqJob(Between(0, 1), Between(1, 2), 1), SeqJob(At(0), At(2), 2),
                    SeqJob(At(r), Between(1, 2), 3), SeqJob(At(1), At(1), 4)>>, platform),
          {Edge(1, 3, t1, d), Edge(2, 3, "finish", At(0)), Edge(1, 4, t2, At(1))}, {}) :
        r \in {0, 3}, t1, t2 \in {"start", "finish"}, d \in {At(0), Between(1, 2)}}

(* Mutual exclusion, between starts and between whole executions. *)
Exclusive(platform) ==
    {With(Problem(<<SeqJob(Between(0, 1), Between(1, 2), p[1]), SeqJob(At(0), Between(1, 3), p[2]),
                    SeqJob(At(1), At(2), p[3]), SeqJob(At(2), At(1), 4)>>, platform),
          prec, {Mutex(1, 2, "finish", d), Mutex(2, 3, "start", At(2))}) :
        p \in {<<1, 2, 3>>, <<3, 2, 1>>}, prec \in {{}, {Edge(1, 4, "finish", At(0))}},
        d \in {At(0), At(1)}}

(* Moldable successors, gang jobs and exclusions at once. *)
Mixed(platform) ==
    {With(Problem(<<SeqJob(Between(0, 1), Between(1, 2), p[1]),
                    GangJob(At(0), (1 :> Between(2, 3)) @@ (2 :> Between(1, 2)), p[2]),
                    SeqJob(At(r), Between(1, 2), p[3]), GangJob(At(1), 2 :> At(1), p[4])>>, platform),
          {Edge(1, 2, t, At(0))}, {Mutex(2, 3, "finish", At(0)), Mutex(3, 4, "start", At(1))}) :
        r \in {0, 2}, t \in {"start", "finish"}, p \in {<<1, 2, 3, 4>>, <<4, 3, 2, 1>>, <<2, 1, 4, 3>>}}

(* Four jobs that may come in many orders. *)
Crowd(platform) ==
    {Problem(<<SeqJob(Between(0, 2), Between(1, 2), 4), SeqJob(Between(0, 2), Between(1, 3), 3),
               SeqJob(Between(0, 2), At(c), 2), SeqJob(Between(1, 3), Between(1, 2), 1)>>, platform) :
        c \in {1, 3}}

(* Alternative branches that are joined again, beside an independent job. *)
Conditional(platform) ==
    {With(Problem(<<Fork(SeqJob(At(0), Between(1, 2), 1)), SeqJob(At(0), Between(1, 2), p[1]),
                    SeqJob(At(0), At(3), p[2]), Join(SeqJob(At(0), At(1), 3)),
                    SeqJob(Between(0, 1), At(2), p[3])>>, platform),
          {Edge(1, 2, "finish", At(0)), Edge(1, 3, "finish", d), Edge(2, 4, "finish", At(0)),
           Edge(3, 4, "finish", d)}, {}) :
        p \in {<<1, 2, 3>>, <<3, 2, 1>>}, d \in {At(0), At(1)}}

(* Abort actions that cut a job short, cut it in time, and skip it: every   *)
(* job starts certainly before its trigger or certainly not before it.     *)
Aborted(platform) ==
    {[Problem(<<SeqJob(At(0), Between(3, 5), 1), SeqJob(Between(0, 1), Between(2, 3), 2),
                SeqJob(At(1), Between(1, 2), 3)>>, platform) EXCEPT
          !.abort = (1 :> [trigger |-> Between(2, 3), cleanup |-> Between(0, 1)])
                    @@ (2 :> [trigger |-> At(t), cleanup |-> At(1)])
                    @@ (3 :> [trigger |-> At(1), cleanup |-> At(1)])] :
        t \in {2, 10}}

(* Branches of different lengths, and a fork within a branch: taking one    *)
(* branch advances the exploration by several depths.                       *)
Branches(platform) ==
    LET normal(c, prio) == SeqJob(Between(0, 1), Between(1, c), prio)
        after(a, b) == Edge(a, b, "finish", At(0))
    IN  {With(Problem(<<Fork(normal(1, 1)), normal(2, p[1]), normal(2, p[2]), normal(1, p[3]),
                        Join(normal(1, 5)), normal(2, p[4])>>, platform),
              {after(1, 2), after(1, 3), after(3, 4), after(2, 5), after(4, 5)}, {}) :
            p \in {<<1, 2, 3, 4>>, <<4, 3, 2, 1>>}}
        \cup
        {With(Problem(<<Fork(normal(1, 1)), Fork(normal(2, 2)), normal(2, p), normal(1, 3),
                        normal(2, 4), Join(normal(1, 5)), Join(normal(1, 6)), normal(2, 3)>>, platform),
              {after(1, 2), after(1, 3), after(2, 4), after(2, 5), after(4, 6), after(5, 6),
               after(6, 7), after(3, 7)}, {}) :
            p \in {2, 7}}

(* Every job has the same deadline. *)
DueBy(deadlines, problems) ==
    {[p EXCEPT !.job = [j \in DOMAIN p.job |-> Due(p.job[j], d)]] : d \in deadlines, p \in problems}
-----------------------------------------------------------------------------
(* Problems in which the code does not do what it says. *)

\* The job may start before its trigger, and may start after it.
TriggeredAtItsStart ==
    {[Problem(<<SeqJob(At(0), Between(4, 6), 1), SeqJob(At(0), At(2), 2)>>, Idle1) EXCEPT
          !.abort = 2 :> [trigger |-> At(5), cleanup |-> At(0)]]}

\* Nothing is known to finish before both cores are free at 10.
GangOnBusyCores ==
    {Problem(<<SeqJob(At(5), At(1), 1), GangJob(At(0), 2 :> At(1), 2)>>, <<At(0), At(10)>>)}

\* Two branches of different lengths lead to the same set of dispatched jobs.
MergedBranches ==
    {With(Problem(<<Fork(SeqJob(At(1), At(2), 4)), SeqJob(Between(0, 2), Between(2, 3), 1),
                    SeqJob(Between(0, 1), At(3), 1), SeqJob(At(3), Between(1, 2), 1),
                    Join(SeqJob(At(3), Between(1, 3), 1))>>, Idle2),
          {Edge(1, 2, "finish", At(0)), Edge(1, 3, "finish", At(0)), Edge(2, 4, "start", At(0)),
           Edge(4, 5, "finish", At(0)), Edge(3, 5, "finish", Between(2, 3))}, {})}

\* Job 4 is discarded with branch 3, and has another predecessor.
RevivedByPredecessor ==
    {With(Problem(<<Fork(SeqJob(At(0), At(1), 1)), SeqJob(At(0), At(1), 2), SeqJob(At(0), At(4), 3),
                    SeqJob(At(0), At(1), 4), SeqJob(At(0), At(1), 5), SeqJob(At(3), At(1), 6)>>, Idle1),
          {Edge(1, 2, "finish", At(0)), Edge(1, 3, "finish", At(0)), Edge(3, 4, "finish", At(0)),
           Edge(5, 4, "finish", At(0))}, {})}

\* The join waits for branch 2, which is not taken, and job 6 for the start of
\* branch 3; a last job may or may not follow.
ForgottenStart ==
    LET jobs == <<Fork(SeqJob(At(0), At(1), 1)), SeqJob(At(0), At(1), 3), SeqJob(At(0), At(1), 2),
                  Join(SeqJob(At(0), At(1), 5)), SeqJob(At(0), At(1), 4), SeqJob(At(0), At(1), 6)>>
    IN  {With(Problem(jobs \o last, Idle1),
              {Edge(1, 2, "finish", At(0)), Edge(1, 3, "finish", At(0)), Edge(2, 4, "start", At(0)),
               Edge(3, 4, "finish", At(0)), Edge(3, 6, "start", At(9))}, {}) :
            last \in {<<>>, <<SeqJob(At(20), At(1), 7)>>}}

\* The join is ready while the independent job keeps a core for long.
JoinOfBranches ==
    {With(Problem(<<Fork(SeqJob(At(0), At(1), 2)), SeqJob(At(0), At(1), 3), SeqJob(At(0), At(1), 4),
                    Join(SeqJob(At(0), At(1), 5)), SeqJob(At(0), At(10), 1)>>, Idle2),
          {Edge(1, 2, "finish", At(0)), Edge(1, 3, "finish", At(0)), Edge(2, 4, "finish", At(0)),
           Edge(3, 4, "finish", At(0))}, {})}
=============================================================================
