----------------------------- MODULE MCStopHook -----------------------------
(* Two policies: a strict one that accepts nothing, a weak one that accepts *)
(* every barrier.  One history commit confirms every floored screen fixed.  *)
EXTENDS StopHook, TLC

MCFloor == "strict" :> {} @@ "weak" :> Screens
MCLowered == 0 :> {} @@ 1 :> Screens
=============================================================================
