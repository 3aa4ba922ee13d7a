---------------------------- MODULE MCExploration ----------------------------
(* Small instances of Exploration for TLC. *)
EXTENDS Exploration, MCProblems

ExploredProblems ==
    Under({MergeAll, ConservativeMerge}, Branches(Idle2) \cup Precedence(Busy2) \cup Exclusive(Idle2)
                                            \cup Gang(Idle3) \cup Aborted(Idle2) \cup Mixed(Idle3))
        \cup Under({Default, TimedMerge}, Conditional(Idle2) \cup Branches(Idle1) \cup Sequential(Busy2)
                                            \cup Mixed(Idle2))
        \cup Under({Default}, Crowd(Busy2))
        \cup Under({Default, EarlyStop}, DueBy({4, 5, 6}, Sequential(Idle2) \cup Precedence(Idle1)))
        \cup Under({[Default EXCEPT !.limited = TRUE]}, Sequential(Idle2))
        \cup Under({NaiveSearch}, Sequential(Idle2))
=============================================================================
