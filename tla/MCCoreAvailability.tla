------------------------- MODULE MCCoreAvailability -------------------------
(* Small instances of CoreAvailability for TLC. *)
EXTENDS CoreAvailability, TLC

CONSTANTS
    MaxTime,    \* bound on the instants: no job finishes later
    MaxInitial  \* bound on the initial availabilities

MCTimes == 0..MaxTime
MCCosts == {Interval(0, 2)}
MCPlatforms == [Cores -> Intervals(0..MaxInitial)]
TrackerSymmetry == Permutations(Cores) \cup Permutations(Branches)
=============================================================================
