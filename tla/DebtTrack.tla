------------------------------ MODULE DebtTrack ------------------------------
(***************************************************************************)
(* history/track.ts for one floor identity, one observation at a time.     *)
(* `obs` is the history itself, oldest first, kept so that a property can  *)
(* compare what the fold concluded with what was observed.  Only           *)
(* observations that apply reach it: same floor hash, screen fully         *)
(* scanned, id, rule and basis of the entry (DebtHistory models the        *)
(* selection).                                                             *)
(***************************************************************************)
EXTENDS DebtFold, Sequences

CONSTANTS
    FloorCount,  \* the entry's count in the committed floor
    MaxCount,    \* bound: the largest count a scan observes
    MaxObs       \* bound: the number of observations

ASSUME CountsAssumption ==
    /\ FloorCount \in Nat \ {0}
    /\ MaxCount \in Nat
    /\ MaxObs \in Nat

VARIABLES
    obs,    \* the observations, oldest first
    track   \* the local state of `follow` after them

trackVars == <<obs, track>>

Observations == [tree : Trees, count : 0..MaxCount]

TrackInit ==
    /\ obs = <<>>
    /\ track = Start(FloorCount)

Observe(o) ==
    /\ Len(obs) < MaxObs
    /\ obs' = Append(obs, o)
    /\ track' = Take(FloorCount, track, o)

TrackNext == \E o \in Observations : Observe(o)

TrackSpec == TrackInit /\ [][TrackNext]_trackVars

-----------------------------------------------------------------------------
\* The accepted count, state, pending count and remembered counts have
\* their types (the local variables of follow in history/track.ts).
TypeOK ==
    /\ obs \in Seq(Observations)
    /\ track \in [accepted : Nat,
                  state    : States,
                  pending  : Nat \cup {NoPending},
                  counts   : [Trees -> SUBSET Nat]]

\* History can only lower the accepted debt: no sequence of readings, however
\* wrong, makes a run accept more than the committed floor does.
NeverAboveFloor == track.accepted <= FloorCount

\* Two readings of the same source tree that disagree.
Conflict(i, j) == obs[i].tree = obs[j].tree /\ obs[i].count # obs[j].count

\* The identity is intermittent exactly when some source tree was read twice
\* with different counts, whatever came between and whatever was released,
\* and then the whole floor count is accepted.
IntermittentExactly ==
    /\ (track.state = "intermittent")
         <=> (\E i, j \in 1..Len(obs) : Conflict(i, j))
    /\ track.state = "intermittent" => track.accepted = FloorCount

\* A step lowers the accepted count only when its own reading and the one just
\* before it are both below what was accepted.
LowersOnTwoReadings ==
    [][track'.accepted < track.accepted =>
         /\ Len(obs') >= 2
         /\ obs'[Len(obs')].count < track.accepted
         /\ obs'[Len(obs') - 1].count < track.accepted]_trackVars

\* The tracker implements the promise of AcceptedDebt.
Promise == INSTANCE AcceptedDebt
           WITH level <- track.accepted, revoked <- (track.state = "intermittent")

PromiseKept == Promise!Spec
=============================================================================
