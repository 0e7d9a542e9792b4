------------------------------ MODULE GateOrder ------------------------------
(***************************************************************************)
(* How the gate's answer moves when a run sees more, or less.  The state   *)
(* is what one run has to report; Input is what runCore makes of it for    *)
(* gate().  Each action is something that happens around a run: a check    *)
(* finds one more barrier, a model gives advice, a screen is not reached,  *)
(* its scan fails or one of its providers does, main confirms a fix and    *)
(* the history lowers the floor, a waiver's day comes, a guarded file is   *)
(* edited.  None of it may turn the answer green.                          *)
(***************************************************************************)
EXTENDS Gate

CONSTANTS
    Pool,       \* the drafts that checks and models may report
    Walked,     \* keys whose element a walk of the page may meet
    Meets,      \* the keys whose element a draft about a spot shows
    Signalled,  \* the screens that declare a readiness signal
    MaxCount,   \* bound: the largest count of a floor entry
    MaxLosses,  \* bound: how often a screen or a provider is lost
    Waivers,    \* the waivers a ledger may hold
    LastDay     \* bound: the last value of the clock

ASSUME OrderAssumption ==
    /\ IsFiniteSet(Pool)
    /\ Pool \subseteq Draft
    /\ Walked \subseteq Keys
    /\ Meets \in [Spots -> SUBSET Keys]
    /\ Signalled \subseteq Screens
    /\ MaxCount \in Nat
    /\ MaxLosses \in Nat
    /\ \A w \in Waivers : w.expires \in Nat /\ w.keys \subseteq Keys
    /\ LastDay \in Nat

VARIABLE report

\* Of the floors of this shape, parseEvidenceFloor accepts entries of a row only
\* in version 3.
FloorShape ==
    [version : 1..3, count : UNION {[K -> 0..MaxCount] : K \in SUBSET Keys}]

IsFloor(floor) ==
    /\ floor \in FloorShape
    /\ floor.version < 3 => Entries(floor) \cap RowKeys = {}

Init ==
    \E floor \in {f \in FloorShape : IsFloor(f)}, ledger \in SUBSET Waivers,
       walk \in SUBSET Walked :
         report = [found    |-> {},       \* what the providers found
                   unseen   |-> {},       \* screens the engine did not see
                   failed   |-> {},       \* screens whose scan failed
                   gapped   |-> {},       \* screens a provider left a gap on
                   walk     |-> walk,     \* the keys whose element a stop met
                   floor    |-> floor,
                   waivers  |-> ledger,
                   now      |-> 0,
                   diverged |-> FALSE]

-----------------------------------------------------------------------------
(* What runCore makes of the scans.                                        *)

\* A failed scan carries nothing, and markUnseenScreens drops, not downgrades,
\* the drafts of a screen it did not see.
Drafts(r) == {d \in r.found : SpotScreen(d.spot) \notin r.unseen \cup r.failed}

\* Mutant: an unseen screen loses its drafts and leaves no gap.
CleanUnlessGapped(r) == Screens \ (r.failed \cup r.gapped)

\* cleanlyScannedScreens: the screens without a gap.
Clean(r) == Screens \ (r.unseen \cup r.failed \cup r.gapped)

\* renderEvidenceOf: the signal of a screen that held it, and the elements that a
\* stop of the walk met or any draft is about, of whatever class.  A signal that
\* did not hold makes its screen unseen.
Evidence(r) ==
    [signal |-> Signalled \ (r.unseen \cup r.failed),
     met    |-> {k \in r.walk : ScreenOf[k] \notin r.failed}
                    \cup UNION {Meets[d.spot] : d \in Drafts(r)}]

Input(r) ==
    [drafts   |-> Drafts(r),
     floor    |-> r.floor,
     waivers  |-> r.waivers,
     now      |-> r.now,
     clean    |-> Clean(r),
     seen     |-> Evidence(r),
     gaps     |-> Clean(r) # Screens,
     idle     |-> FALSE,
     diverged |-> r.diverged]

\* A run that saw none of its screens asks no gate: no verdict, exit 4.
SawNothing(r) == Screens # {} /\ r.unseen = Screens

\* accessibilityVerdict of the Result, and its verdict.
Answer(r) == IF SawNothing(r) THEN "null" ELSE AccessibilityVerdict(Input(r))

RunVerdict(r) == IF SawNothing(r) THEN "null" ELSE Verdict(Input(r))

-----------------------------------------------------------------------------
BarrierFound(d) ==
    /\ d \notin report.found
    /\ d.class = "deterministic"
    /\ report' = [report EXCEPT !.found = @ \cup {d}]

AdviceFound(d) ==
    /\ d \notin report.found
    /\ d.class = "advisory"
    /\ report' = [report EXCEPT !.found = @ \cup {d}]

MayLose ==
    Cardinality(report.unseen) + Cardinality(report.failed)
        + Cardinality(report.gapped) < MaxLosses

\* The signal of the screen did not hold, or the walk never left its body.
ScreenUnseen(screen) ==
    /\ MayLose
    /\ screen \notin report.unseen \cup report.failed
    /\ report' = [report EXCEPT !.unseen = @ \cup {screen}]

\* failedScan and notReachedScan
ScanFailed(screen) ==
    /\ MayLose
    /\ screen \notin report.unseen \cup report.failed
    /\ report' = [report EXCEPT !.failed = @ \cup {screen}]

\* A provider that throws or is denied: what it had found goes, a gap stays, and
\* the drafts of the other providers are kept.
ProviderFailed(screen, lost) ==
    /\ MayLose
    /\ screen \notin report.unseen \cup report.failed
    /\ \A d \in lost : SpotScreen(d.spot) = screen
    /\ report' = [report EXCEPT !.found = @ \ lost,
                                !.gapped = @ \cup {screen}]

ScreenLost(screen) ==
    \/ ScreenUnseen(screen)
    \/ ScanFailed(screen)
    \/ \E lost \in SUBSET report.found : ProviderFailed(screen, lost)

\* Mutant: the count of the history is taken, also above the floor's.
FixConfirmedAnyCount(k) ==
    /\ report.floor.version >= 3
    /\ k \in Entries(report.floor)
    /\ \E n \in 1..MaxCount : report' = [report EXCEPT !.floor.count[k] = n]

\* loadDebtTracking hands the gate the floor with one identity lowered, or left
\* out at zero.  It does not track a floor from before row keys.
FixConfirmed(k) ==
    /\ report.floor.version >= 3
    /\ k \in Entries(report.floor)
    /\ \E n \in 0..report.floor.count[k] :
         report' = [report EXCEPT !.floor.count =
                    IF n = 0 THEN [e \in Entries(report.floor) \ {k} |-> @[e]]
                             ELSE [@ EXCEPT ![k] = n]]

DayPasses ==
    /\ report.now < LastDay
    /\ report' = [report EXCEPT !.now = @ + 1]

PolicyEdited ==
    report' = [report EXCEPT !.diverged = TRUE]

Next ==
    \/ \E d \in Pool : BarrierFound(d) \/ AdviceFound(d)
    \/ \E screen \in Screens : ScreenLost(screen)
    \/ \E k \in Keys : FixConfirmed(k)
    \/ DayPasses
    \/ PolicyEdited

Spec == Init /\ [][Next]_report

-----------------------------------------------------------------------------
\* The report is one the scans can leave, and the floor one the parser accepts.
TypeOK ==
    /\ report \in [found    : SUBSET Pool,
                   unseen   : SUBSET Screens,
                   failed   : SUBSET Screens,
                   gapped   : SUBSET Screens,
                   walk     : SUBSET Keys,
                   floor    : FloorShape,
                   waivers  : SUBSET Waivers,
                   now      : Nat,
                   diverged : BOOLEAN]
    /\ IsFloor(report.floor)

\* The keys a regression stands on.
Failing(i) == {k \in Blocking(i) : Confidence(i, k) = "fail"}

\* No barrier, advice, lost screen, confirmed fix or passing day makes a run
\* verified that was not.  And a regression stays one, unless the loss of a screen
\* took everything it stood on: coverage/unseen.ts drops the findings of a screen
\* it did not see, and a gap or no verdict at all stands in their place.
NothingTurnsGreen ==
    [][LET old == Answer(report)
           new == Answer(report') IN
       /\ new = "verified" => old = "verified"
       /\ new # "regression" /\ old = "regression" =>
             \E screen \in Screens :
                /\ ScreenLost(screen)
                /\ \A k \in Failing(Input(report)) : ScreenOf[k] = screen]_report

\* Advice moves no verdict and nothing that blocks.  All it can do is show the
\* element of an absent barrier, and so turn an unconfirmed absence into a fix,
\* with the headroom that fix leaves (renderEvidenceOf takes every draft).
AdviceMovesNoVerdict ==
    \A d \in Pool : AdviceFound(d) =>
        LET i == Input(report)
            j == Input(report') IN
        /\ Answer(report') = Answer(report)
        /\ RunVerdict(report') = RunVerdict(report)
        /\ Blocking(j) = Blocking(i)
        /\ Fixed(i) \subseteq Fixed(j)
        /\ Fixed(j) \ Fixed(i) \subseteq Unconfirmed(i) \cap Meets[d.spot]
        /\ Unconfirmed(j) = Unconfirmed(i) \ Fixed(j)
        /\ Headroom(i) \subseteq Headroom(j)
        /\ Headroom(j) \ Headroom(i) \subseteq Fixed(j) \ Fixed(i)

AdvisoryInert == [][AdviceMovesNoVerdict]_report

CarriedDebt(i) ==
    {k \in Reported(i) \cap Entries(i.floor) : Gates(i, k) /\ ~New(i, k)}

\* A fix the history confirmed can turn carried debt new and can take away a
\* fixed finding, a headroom line or a notice; it adds none of them and it
\* neither adds nor removes a gap (docs/ground-truth.md, debt history).
FixOnlyTakes ==
    (\E k \in Keys : FixConfirmed(k)) =>
        LET i == Input(report)
            j == Input(report') IN
        /\ CarriedDebt(j) \subseteq CarriedDebt(i)
        /\ Fixed(j) \subseteq Fixed(i)
        /\ Headroom(j) \subseteq Headroom(i)
        /\ Unconfirmed(j) \subseteq Unconfirmed(i)
        /\ FloorGap(j) = FloorGap(i)

FixConfirmedOnlyTakes == [][FixOnlyTakes]_report

\* Both at once: what is no deterministic finding of this run may do no more than
\* the gate allows it, whatever else the run reports (gate/index.ts).
StepsDoNoMore == [][AdviceMovesNoVerdict /\ FixOnlyTakes]_report
=============================================================================
