---------------------------- MODULE AcceptedDebt ----------------------------
(***************************************************************************)
(* What automatic debt tracking promises of one floor identity, and no     *)
(* more: the count a run accepts starts at the committed floor's, is only  *)
(* ever lowered, and a tracker that finds the identity unreliable gives    *)
(* the floor count back and never lowers it again.  Which evidence leads   *)
(* to a release is DebtTrack's business.                                   *)
(***************************************************************************)
EXTENDS Naturals

CONSTANT FloorCount   \* the count the committed floor accepts

VARIABLES
    level,     \* the count a run accepts now
    revoked    \* tracking gave the floor count back for good

vars == <<level, revoked>>

Init == level = FloorCount /\ revoked = FALSE

\* Main confirmed a fix: fewer barriers are accepted from here on.
LowerTo(n) ==
    /\ ~revoked
    /\ n < level
    /\ level' = n
    /\ UNCHANGED revoked

Revoke ==
    /\ ~revoked
    /\ revoked' = TRUE
    /\ level' = FloorCount

Next == (\E n \in 0..FloorCount : LowerTo(n)) \/ Revoke

Spec == Init /\ [][Next]_vars
=============================================================================
