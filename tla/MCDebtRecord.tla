---------------------------- MODULE MCDebtRecord ----------------------------
(***************************************************************************)
(* Automatic debt tracking from both ends: the fold of one floor identity  *)
(* over every short history, and the branch to which two jobs, started     *)
(* twice each, bring their records.  One of the two moves in a behaviour;  *)
(* where it is the fold no job starts, which fairness to the jobs does not *)
(* allow to last, so that what must happen is asked of the branch alone.   *)
(***************************************************************************)
EXTENDS DebtTrack, HistoryBranch

VARIABLE moves   \* chosen once: which of the two does

Calm == [group |-> TRUE, faults |-> FALSE, hand |-> FALSE]

MCInit ==
    /\ TrackInit /\ Init
    /\ moves \in {"fold", "branch"}
    /\ moves = "fold" => world = Calm

MCNext ==
    /\ \/ moves = "fold" /\ TrackNext /\ UNCHANGED vars
       \/ moves = "branch" /\ Next /\ UNCHANGED trackVars
    /\ UNCHANGED moves

MCSpec ==
    /\ MCInit /\ [][MCNext]_<<trackVars, vars, moves>>
    /\ \A j \in Jobs : WF_vars(Step(j))
=============================================================================
