------------------------------- MODULE MCSag --------------------------------
(* Small instances of the exploration and of the executions that follow it. *)
EXTENDS ExplorationRefinement, MCExploration

Unconditional(platform) ==
    Sequential(platform) \cup Gang(platform) \cup Precedence(platform) \cup Exclusive(platform)
        \cup Aborted(platform) \cup Mixed(platform)

SoundnessProblems ==
    Under({MergeAll, TimedMerge}, Unconditional(Idle2) \cup Sequential(Busy2))
        \cup Under({Default}, Gang(Busy2) \cup Precedence(Busy2) \cup Gang(Idle3) \cup Mixed(Idle3))
        \cup Under({ConservativeMerge}, Exclusive(Busy2) \cup Conditional(Idle2) \cup Conditional(Idle1))
        \cup Under({Default}, Sequential(Idle1) \cup Precedence(Idle1) \cup Exclusive(Idle1)
                                \cup Aborted(Idle1))
        \cup DueBy({6, 7, 8}, Sequential(Idle1) \cup Exclusive(Idle1))

\* Too many jobs to execute every scenario of those that are only explored.
AllProblems == ExploredProblems \cup SoundnessProblems

\* What the proofs suppose of the branches.
ASSUME BranchesAssumption == \A p \in Problems : ClosedBranches(p)
=============================================================================
