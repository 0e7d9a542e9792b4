------------------------------ MODULE DebtFold ------------------------------
(***************************************************************************)
(* The fold that history/track.ts runs over the observations of ONE floor  *)
(* identity: `follow` and its local state.  No variables: DebtTrack runs   *)
(* the fold as a state machine, DebtHistory runs it over the records of    *)
(* the history branch.                                                     *)
(*                                                                         *)
(* An observation is the count a full scan of main saw at the identity and *)
(* the source tree it saw it on.  The only field of a pending observation  *)
(* the code reads again is its count, so `pending` is that count.          *)
(***************************************************************************)
EXTENDS Naturals

CONSTANTS
    Trees,      \* source trees (git tree ids) a scan of main can be bound to
    NoPending   \* the null of `pending`

ASSUME NoPendingAssumption == NoPending \notin Nat

States == {"open", "confirmed-fixed", "intermittent"}

HigherOf(a, b) == IF a >= b THEN a ELSE b

\* The fold before the first observation: the floor as committed.
Start(floorCount) ==
    [accepted |-> floorCount,
     state    |-> "open",
     pending  |-> NoPending,
     counts   |-> [t \in Trees |-> {}]]

\* The reading is remembered before anything is decided, whatever the state.
Remember(track, o) == [track EXCEPT !.counts[o.tree] = @ \cup {o.count}]

\* Mutant: a released identity is no longer watched for readings that disagree.
DiffersWhileOpen(track, o) ==
    track.state = "open" /\ \E c \in track.counts[o.tree] : c # o.count

\* Two readings of one source tree that disagree.
Differs(track, o) == \E c \in track.counts[o.tree] : c # o.count

\* Mutant: the floor count is not given back.
MarkOnly(floorCount, track, o) ==
    [Remember(track, o) EXCEPT !.state = "intermittent", !.pending = NoPending]

\* The code did not change and the reading did: full floor count, for good.
MarkIntermittent(floorCount, track, o) ==
    [Remember(track, o) EXCEPT !.state = "intermittent",
                               !.accepted = floorCount,
                               !.pending = NoPending]

\* The second reading in a row below the accepted count.
Release(track, o) ==
    [Remember(track, o) EXCEPT !.state = "confirmed-fixed",
                               !.accepted = HigherOf(track.pending, o.count),
                               !.pending = NoPending]

\* Mutant: the first reading below the accepted count already releases.
LowerAtOnce(track, o) ==
    [Remember(track, o) EXCEPT !.state = "confirmed-fixed", !.accepted = o.count]

\* A reading below the accepted count: the first waits, the second releases.
Lower(track, o) ==
    IF track.pending = NoPending
    THEN [Remember(track, o) EXCEPT !.pending = o.count]
    ELSE Release(track, o)

\* One turn of the loop in `follow`.
Take(floorCount, track, o) ==
    CASE track.state = "intermittent" -> Remember(track, o)
      [] track.state # "intermittent" /\ Differs(track, o) ->
            MarkIntermittent(floorCount, track, o)
      [] track.state # "intermittent" /\ ~Differs(track, o)
            /\ o.count < track.accepted -> Lower(track, o)
      [] OTHER -> [Remember(track, o) EXCEPT !.pending = NoPending]
=============================================================================
