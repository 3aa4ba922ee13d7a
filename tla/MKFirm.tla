------------------------------- MODULE MKFirm --------------------------------
(***************************************************************************)
(* The MK-firm extension of the analysis: how many of the last WindowSize  *)
(* jobs of a task may have missed their deadlines.  Every state keeps a    *)
(* sliding window of certain and of potential misses for each task         *)
(* (Misses_window), and every dispatch reports the two numbers for its job *)
(* (MK_sp_data_extension).                                                 *)
(*                                                                         *)
(* The windows of different tasks do not interact: this is one task.  A    *)
(* window is the set of the positions that hold a miss, 1 the most recent. *)
(* Beside the windows of some states the module follows one execution: the *)
(* positions of the misses that really happened (actual).                  *)
(***************************************************************************)
EXTENDS Intervals, FiniteSets

CONSTANTS
    WindowSize, \* the length of the sliding window
    Jobs,       \* the jobs of the task
    Branches    \* the states that the exploration follows side by side

ASSUME WindowAssumption == WindowSize \in 1..31

VARIABLES
    window,     \* the window of every state that was not merged away yet
    dispatched, \* the jobs of the task that the state has dispatched
    reported,   \* misses_per_job, for the jobs that were dispatched somewhere
    uncertain,  \* some state dispatched a job that may or may not be late
    at,         \* the state that stands for the execution followed below
    actual,     \* that execution: its misses among the last WindowSize jobs
    counted     \* that execution: their number when each job was dispatched

vars == <<window, dispatched, reported, uncertain, at, actual, counted>>

Positions == 1..WindowSize
-----------------------------------------------------------------------------
(***************************************************************************)
(* Misses_window.                                                          *)
(***************************************************************************)
EmptyWindow ==
    [certain |-> {}, potential |-> {}, num_certain |-> 0, num_potential |-> 0]

\* Faulty variant of Shifted: the oldest position is not masked out.
ShiftedWithoutMask(misses, missed) ==
    {p + 1 : p \in misses} \cup (IF missed THEN {1} ELSE {})

\* The window moves on by one job.
Shifted(misses, missed) ==
    {p + 1 : p \in misses \ {WindowSize}} \cup (IF missed THEN {1} ELSE {})

\* Faulty variant of CountAfter: the job that leaves the window is ignored.
CountArrivals(num, misses, missed) == IF missed THEN num + 1 ELSE num

\* The number of misses, kept beside the window: the job that leaves it may
\* have been a miss too.
CountAfter(num, misses, missed) ==
    LET leaves == WindowSize \in misses
    IN  IF missed /\ ~leaves THEN num + 1
        ELSE IF ~missed /\ leaves THEN num - 1
        ELSE num

\* add_potential_miss and add_potential_hit.
AddPotential(w, missed) ==
    [w EXCEPT !.potential = Shifted(@, missed),
              !.num_potential = CountAfter(@, w.potential, missed)]

\* Faulty variant of AddCertain: only the window of certain misses moves.
AddCertainOnly(w, missed) ==
    [w EXCEPT !.certain = Shifted(@, missed),
              !.num_certain = CountAfter(@, w.certain, missed)]

\* add_certain_miss and add_certain_hit.
AddCertain(w, missed) ==
    AddPotential([w EXCEPT !.certain = Shifted(@, missed),
                           !.num_certain = CountAfter(@, w.certain, missed)],
                 missed)

\* The loops of merge pick n positions of S from one end.
MostRecent(S, n) == {p \in S : Cardinality({q \in S : q <= p}) <= n}
Oldest(S, n) == {p \in S : Cardinality({q \in S : q >= p}) <= n}

\* Faulty variant of MergeWindows: the ends are swapped.
MergeFromWrongEnds(a, b) ==
    LET num_p == MaxOf(a.num_potential, b.num_potential)
        num_c == MinOf(a.num_certain, b.num_certain)
        Both(S, T) == S \cap T
        OneOf(S, T) == (S \cup T) \ (S \cap T)
        both_p == Both(a.potential, b.potential)
        both_c == Both(a.certain, b.certain)
    IN  [num_potential |-> num_p,
         potential |-> both_p \cup Oldest(OneOf(a.potential, b.potential),
                                          num_p - Cardinality(both_p)),
         num_certain |-> num_c,
         certain |-> both_c \cup MostRecent(OneOf(a.certain, b.certain),
                                            num_c - Cardinality(both_c))]

\* Of the positions that are a miss in one of the windows only, the merged
\* window keeps as many as it needs: the most recent potential misses, and the
\* oldest certain ones.
MergeWindows(a, b) ==
    LET num_p == MaxOf(a.num_potential, b.num_potential)
        num_c == MinOf(a.num_certain, b.num_certain)
        Both(S, T) == S \cap T
        OneOf(S, T) == (S \cup T) \ (S \cap T)
        both_p == Both(a.potential, b.potential)
        both_c == Both(a.certain, b.certain)
    IN  [num_potential |-> num_p,
         potential |-> both_p \cup MostRecent(OneOf(a.potential, b.potential),
                                              num_p - Cardinality(both_p)),
         num_certain |-> num_c,
         certain |-> both_c \cup Oldest(OneOf(a.certain, b.certain),
                                        num_c - Cardinality(both_c))]
-----------------------------------------------------------------------------
(***************************************************************************)
(* MK_state_extension and MK_sp_data_extension.                            *)
(***************************************************************************)

\* How the finish times of a dispatched job relate to its deadline: certainly
\* after it, possibly after it, never after it.
Outcomes == {"certain_miss", "potential_miss", "certain_hit"}

\* A job that is possibly late moves the window of potential misses only.
Recorded(w, outcome) ==
    CASE outcome = "certain_miss" -> AddCertain(w, TRUE)
      [] outcome = "potential_miss" -> AddPotential(w, TRUE)
      [] outcome = "certain_hit" -> AddCertain(w, FALSE)

\* submit_misses: the interval reported for j is widened.
SubmitMisses(j, min_misses, max_misses) ==
    LET misses == [min |-> min_misses, max |-> max_misses]
    IN  [k \in DOMAIN reported \cup {j} |->
            IF k # j THEN reported[k]
            ELSE IF j \notin DOMAIN reported THEN misses
            ELSE [min |-> MinOf(reported[j].min, min_misses),
                  max |-> MaxOf(reported[j].max, max_misses)]]

Init ==
    /\ at \in Branches
    /\ window = [s \in {at} |-> EmptyWindow]
    /\ dispatched = [s \in {at} |-> {}]
    /\ reported = <<>>
    /\ uncertain = FALSE
    /\ actual = {}
    /\ counted = <<>>

\* A new state is constructed by a dispatch.  The execution that the state
\* stands for completes the job in time or not, as the outcome allows.
Dispatch(s, j, outcome) ==
    LET w == Recorded(window[s], outcome)
    IN  /\ j \notin dispatched[s]
        /\ window' = [window EXCEPT ![s] = w]
        /\ dispatched' = [dispatched EXCEPT ![s] = @ \cup {j}]
        /\ reported' = SubmitMisses(j, w.num_certain, w.num_potential)
        /\ uncertain' = (uncertain \/ outcome = "potential_miss")
        /\ IF s = at
           THEN \E missed \in BOOLEAN :
                    /\ outcome = "certain_miss" => missed
                    /\ outcome = "certain_hit" => ~missed
                    /\ actual' = Shifted(actual, missed)
                    /\ counted' = [k \in DOMAIN counted \cup {j} |->
                                    IF k = j THEN Cardinality(actual') ELSE counted[k]]
           ELSE UNCHANGED <<actual, counted>>
        /\ UNCHANGED at

\* The state u is merged into s, a state of the same node, and disappears.
MergeStates(s, u) ==
    /\ s # u
    /\ dispatched[s] = dispatched[u]
    /\ window' = [x \in DOMAIN window \ {u} |->
                     IF x = s THEN MergeWindows(window[s], window[u]) ELSE window[x]]
    /\ dispatched' = [x \in DOMAIN dispatched \ {u} |-> dispatched[x]]
    /\ at' = IF at = u THEN s ELSE at
    /\ UNCHANGED <<reported, uncertain, actual, counted>>

\* A state that may dispatch different jobs, or in different nodes, lives on in
\* each of its successors.
Branch(s, u) ==
    /\ window' = [x \in DOMAIN window \cup {u} |-> window[IF x = u THEN s ELSE x]]
    /\ dispatched' = [x \in DOMAIN dispatched \cup {u} |-> dispatched[IF x = u THEN s ELSE x]]
    /\ at' \in IF at = s THEN {s, u} ELSE {at}
    /\ UNCHANGED <<reported, uncertain, actual, counted>>

Next ==
    \/ \E s \in DOMAIN window, j \in Jobs, outcome \in Outcomes : Dispatch(s, j, outcome)
    \/ \E s, u \in DOMAIN window : MergeStates(s, u)
    \/ \E s \in DOMAIN window, u \in Branches \ DOMAIN window : Branch(s, u)

Spec == Init /\ [][Next]_vars
-----------------------------------------------------------------------------
(***************************************************************************)
(* Properties.                                                             *)
(***************************************************************************)

\* Every window holds positions of the window only.
TypeOK ==
    /\ at \in DOMAIN window
    /\ DOMAIN dispatched = DOMAIN window
    /\ \A s \in DOMAIN window :
        /\ window[s].certain \subseteq Positions /\ window[s].potential \subseteq Positions
        /\ dispatched[s] \subseteq Jobs
    /\ actual \subseteq Positions
    /\ DOMAIN counted = dispatched[at]

\* The numbers that are kept beside the windows are the numbers of bits set in
\* them: a merge always finds "enough bits to set" (mk_firm.hpp:103, :121).
CountersMatch ==
    \A s \in DOMAIN window :
        /\ window[s].num_certain = Cardinality(window[s].certain)
        /\ window[s].num_potential = Cardinality(window[s].potential)

\* mk_sp_data_extension.hpp:18: the "max number of misses in the window ending
\* with the dispatch of each job".  No execution has more, whatever states
\* were merged before.
NeverMoreMisses ==
    \A j \in DOMAIN counted : counted[j] <= reported[j].max

\* The assertion of submit_misses, min_misses <= max_misses: although the two
\* windows move and are merged separately.
MinBelowMax ==
    \A j \in DOMAIN reported : reported[j].min <= reported[j].max

\* As long as every job was certainly late or certainly in time, no execution
\* has fewer misses than reported: merging loses nothing.
NeverFewerUnlessUncertain ==
    ~uncertain => \A j \in DOMAIN counted : reported[j].min <= counted[j]
-----------------------------------------------------------------------------
\* mk_sp_data_extension.hpp:18: the "min [...] number of misses in the window
\* ending with the dispatch of each job".  The code does not meet it once a
\* job is possibly late: the window of certain misses does not move then.
NeverFewerMisses ==
    \A j \in DOMAIN counted : reported[j].min <= counted[j]
=============================================================================
