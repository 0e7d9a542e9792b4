-------------------------------- MODULE Gate --------------------------------
(***************************************************************************)
(* gate/index.ts: the pure function from what a run saw, the evidence      *)
(* floor and the waivers to a verdict, with the identity rules of          *)
(* primitives/identity.ts and the ranking of coverage/completeness.ts.     *)
(*                                                                         *)
(* A spot is a place where one provider can report a barrier.  Its key is  *)
(* its identity, and spots share a key when the identity collapses them.   *)
(* A spot in a keyed table row has two keys: the row's, and the one the    *)
(* scheme from before row keys collapses the rows to.                      *)
(***************************************************************************)
EXTENDS Naturals, FiniteSets

CONSTANTS
    Screens,
    Spots,
    Keys,       \* identities: screen, rule and element key
    ScreenOf,   \* the screen of a key
    LegacyKey,  \* the key of a spot before row keys (version 1 and 2 floors)
    RowKey,     \* the key of a spot now
    Counted     \* the keys of rules that name no element (count basis)

Keyed(s) == RowKey[s] # LegacyKey[s]

RowKeys == {RowKey[s] : s \in {t \in Spots : Keyed(t)}}

ASSUME IdentityAssumption ==
    /\ ScreenOf \in [Keys -> Screens]
    /\ LegacyKey \in [Spots -> Keys]
    /\ RowKey \in [Spots -> Keys]
    /\ Counted \subseteq Keys
    /\ \A s \in Spots : ScreenOf[RowKey[s]] = ScreenOf[LegacyKey[s]]
    /\ RowKeys \cap Counted = {}
    /\ \A s \in Spots : LegacyKey[s] \notin RowKeys

SpotScreen(s) == ScreenOf[LegacyKey[s]]

\* What a provider reports about a spot.  Only deterministic evidence gates.
Draft == [spot : Spots,
          class : {"deterministic", "advisory"},
          confidence : {"fail", "unverified"}]

\* A floor: its entries and how many barriers each accepts.
Entries(floor) == DOMAIN floor.count

Verdicts == {"regression", "not_covered", "verified"}

\* How green a verdict is.
Rank(verdict) ==
    CASE verdict = "regression" -> 0
      [] verdict = "not_covered" -> 1
      [] verdict = "verified" -> 2

-----------------------------------------------------------------------------

\* identitySchemeFor: a floor is compared with the keys it was written with.
IdentityScheme(floor) ==
    IF floor.version >= 3 \/ Entries(floor) = {} THEN "row-scoped" ELSE "legacy"

\* computeIdentity
KeyOf(scheme, s) == IF scheme = "row-scoped" THEN RowKey[s] ELSE LegacyKey[s]

DraftKey(scheme, d) == KeyOf(scheme, d.spot)

Deterministic(drafts) == {d \in drafts : d.class = "deterministic"}

\* Mutant: every draft is counted, advisory ones too.
TallyAnyClass(drafts, scheme, k) ==
    Cardinality({d \in drafts : DraftKey(scheme, d) = k})

\* deterministicCountsByIdentity
Tally(drafts, scheme, k) ==
    Cardinality({d \in Deterministic(drafts) : DraftKey(scheme, d) = k})

\* Mutant: absence alone is taken for a fix.
AbsenceConfirms(seen, k) == TRUE

\* paydownConfirmed.  A counted key and a row key name no element that a stop
\* of the walk or another draft can meet (identitySlot).
PaydownConfirmed(seen, k) ==
    \/ ScreenOf[k] \in seen.signal
    \/ k \in seen.met \ (Counted \cup RowKeys)

\* A version 1 floor wrote a 1 that is not a count for every other basis.
CountsObserved(floor, k) == k \in Counted \/ floor.version >= 2

-----------------------------------------------------------------------------
(* The findings of a run, by key.  `in` is the gate's input:               *)
(*   drafts, floor, waivers, now, clean (the cleanly scanned screens),     *)
(*   seen (the render evidence), gaps (whether coverage is incomplete),    *)
(*   idle (nothing to check) and diverged (guarded paths changed).         *)

Scheme(in) == IdentityScheme(in.floor)

Group(in, k) == {d \in in.drafts : DraftKey(Scheme(in), d) = k}

Reported(in) == {DraftKey(Scheme(in), d) : d \in in.drafts}

\* Deterministic evidence represents a key whatever else landed on it.
Gates(in, k) == Deterministic(Group(in, k)) # {}

\* aggregateConfidence over the drafts of the representative's own class.
Confidence(in, k) ==
    IF \E d \in Group(in, k) : /\ d.confidence = "fail"
                               /\ Gates(in, k) => d.class = "deterministic"
    THEN "fail"
    ELSE "unverified"

\* A waiver covers one key or, with scope "*", its rule on a screen.
Waived(in, k) == \E w \in in.waivers : w.expires > in.now /\ k \in w.keys

\* Mutant: any count but the floor's is new.
GrownOnAnyChange(in, k) ==
    /\ CountsObserved(in.floor, k)
    /\ Tally(in.drafts, Scheme(in), k) # in.floor.count[k]

\* More barriers at a floored key than the floor accepts.
Grown(in, k) ==
    /\ CountsObserved(in.floor, k)
    /\ Tally(in.drafts, Scheme(in), k) > in.floor.count[k]

\* Mutant: the floor is a set of keys, without counts.
NewUnlessFloored(in, k) == ~Waived(in, k) /\ k \notin Entries(in.floor)

\* The status of a finding the gate did not see on the floor, or saw grow.
New(in, k) == ~Waived(in, k) /\ (k \in Entries(in.floor) => Grown(in, k))

\* BLOCKS: the findings the verdict is decided from.
Blocking(in) == {k \in Reported(in) : Gates(in, k) /\ New(in, k)}

\* floorEntryAbsent, on a screen that was scanned cleanly.
Absent(in) ==
    {k \in Entries(in.floor) : /\ ScreenOf[k] \in in.clean
                               /\ Tally(in.drafts, Scheme(in), k) = 0}

Fixed(in) == {k \in Absent(in) : PaydownConfirmed(in.seen, k)}

Unconfirmed(in) == {k \in Absent(in) : ~PaydownConfirmed(in.seen, k)}

\* Entries whose floor count stands above what the run saw.
Headroom(in) ==
    {k \in Entries(in.floor) :
        /\ CountsObserved(in.floor, k)
        /\ Tally(in.drafts, Scheme(in), k) < in.floor.count[k]
        /\ Tally(in.drafts, Scheme(in), k) > 0 \/ k \in Fixed(in)}

\* staleFloorGaps
StaleFloorGap(floor) ==
    floor.version < 2 /\ \E k \in Entries(floor) : k \notin Counted

\* rowKeyFloorGaps
RowKeyFloorGap(floor, drafts) ==
    /\ IdentityScheme(floor) = "legacy"
    /\ \E d \in Deterministic(drafts) :
          /\ Keyed(d.spot)
          /\ \E k \in Entries(floor) : ScreenOf[k] = SpotScreen(d.spot)

FloorGap(in) == StaleFloorGap(in.floor) \/ RowKeyFloorGap(in.floor, in.drafts)

\* accessibilityOutcome: a blocking failure outranks missing coverage, and
\* missing coverage outranks clean.  An idle run has no verdict.
AccessibilityVerdict(in) ==
    CASE in.idle -> "null"
      [] ~in.idle /\ (\E k \in Blocking(in) : Confidence(in, k) = "fail") ->
            "regression"
      [] OTHER ->
            IF Blocking(in) # {} \/ in.gaps \/ FloorGap(in)
            THEN "not_covered"
            ELSE "verified"

\* gate: diverged policy is a human's decision, whatever the scan found.
Verdict(in) ==
    IF in.diverged THEN "approval_required" ELSE AccessibilityVerdict(in)
=============================================================================
