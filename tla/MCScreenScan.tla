---------------------------- MODULE MCScreenScan ----------------------------
(***************************************************************************)
(* One sign-in and one screen, with the page, its frames or its workers    *)
(* free to move.                                                           *)
(***************************************************************************)
EXTENDS SignedScan

ConfiguredOrder == <<"rulepack", "axe", "walk">>

Cookies(cookies) == [cookies |-> cookies, others |-> {}]
Passkey == [cookies |-> {}, others |-> {"keys"}]
CapturesDef == {Passkey, Cookies({"live"})}

Left(kind, state, private) == [NoFile EXCEPT !.kind = kind, !.state = state, !.private = private]
PlacedDef ==
  {NoFile, Left("unreadable", Nothing, TRUE), Left("junk", Nothing, TRUE), Left("other", Nothing, TRUE),
   Left("state", Cookies({"live"}), FALSE), Left("state", Cookies({"past"}), TRUE)}

Names(kind, state, private, at) == [kind |-> kind, state |-> state, private |-> private, git |-> at]
NamedDef ==
  {Names("unset", Nothing, TRUE, "outside"), Names("absent", Nothing, TRUE, "outside"),
   Names("unreadable", Nothing, TRUE, "outside"),
   Names("state", Cookies({"live"}), TRUE, "outside"),
   Names("state", Cookies({"past", "undated"}), FALSE, "not-ignored")}
=============================================================================
