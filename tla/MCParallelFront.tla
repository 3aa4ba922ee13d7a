-------------------------- MODULE MCParallelFront ---------------------------
(* Fronts of four nodes for TLC, the fewest that are explored in parallel. *)
EXTENDS ParallelFront, TLC

I(a, b) == [min |-> a, max |-> b]
Job(j, states) == [job |-> j, states |-> states]
Expand(first, dispatches) == [first |-> first, dispatches |-> dispatches]

\* Five jobs, two of which every node of the front has dispatched.
Front(deadlines, early, a, b, c, d) ==
    [work       |-> {1, 2} :> a @@ {1, 3} :> b @@ {2, 3} :> c @@ {1, 4} :> d,
     deadline   |-> deadlines,
     cost       |-> [j \in 1..5 |-> I(1, 1)],
     early_exit |-> early]

Deadlines(d4, d5) == <<9, 9, 9, d4, d5>>

\* Three nodes lead to the set of jobs {1, 2, 3}, with states that overlap, are
\* consecutive or apart; the fourth leads to {1, 2, 4}, and so does the first.
\* Job 5 can be late later on, which must not be taken for a certain miss.
Meeting(deadlines, s, t) ==
    Front(deadlines, TRUE,
          Expand(0, <<Job(3, <<I(1, 2), s>>), Job(4, <<I(2, 3)>>)>>),
          Expand(0, <<Job(2, <<t>>)>>),
          Expand(0, <<Job(1, <<I(1, 1)>>)>>),
          Expand(0, <<Job(2, <<I(6, 6)>>)>>))

\* A job that may be late, a job that can no longer be in time after some of
\* the dispatches only, or a dead end.
Missing(deadlines, early, c) ==
    Front(deadlines, early,
          Expand(1, <<Job(3, <<I(2, 3), I(6, 7)>>)>>),
          Expand(1, <<Job(2, <<I(2, 2)>>)>>),
          Expand(1, c),
          Expand(1, <<Job(2, <<I(5, 6)>>)>>))

SmallFronts ==
    {Meeting(Deadlines(9, 9), I(2, 4), I(3, 3)), Meeting(Deadlines(9, 6), I(6, 7), I(5, 6)),
     Missing(Deadlines(9, 4), TRUE, <<Job(1, <<I(4, 5)>>)>>)}
        \cup {Missing(Deadlines(9, 9), early, <<Job(4, <<>>)>>) : early \in BOOLEAN}
        \cup {Missing(Deadlines(2, 9), early, <<Job(4, <<I(2, 3)>>)>>) : early \in BOOLEAN}
=============================================================================
