---------------------------- MODULE FloorRatchet ----------------------------
(***************************************************************************)
(* The evidence floor over time: barriers come and go in the application,  *)
(* `usabl baseline` (baseline/index.ts) and `usabl floor prune`            *)
(* (floor/prune.ts) write drafts of the floor in the working tree, a       *)
(* person merges them, and every run is judged by the gate against the     *)
(* floor it may trust (run.ts).                                            *)
(*                                                                         *)
(* A view is what one run of the scanner meets: how far each screen came,  *)
(* and which of the spots that come and go were not drawn.  Runs change    *)
(* nothing, so they are not actions: the properties ask what the gate says *)
(* to every view of every state.                                           *)
(***************************************************************************)
EXTENDS Gate, FiniteSetsExt

CONSTANTS
    ConfidenceOf,  \* what a check says of a barrier at a spot
    Signalled,     \* screens that declare a readiness signal (reachedWhen)
    Walked,        \* keys whose element the walk meets once its part mounts
    Worlds         \* bound: the spots a world has, those an unchanged page
                   \* draws on some scans only, and the floors it starts with

ASSUME RatchetAssumption ==
    /\ IsFiniteSet(Spots)
    /\ ConfidenceOf \in [Spots -> {"fail", "unverified"}]
    /\ Signalled \subseteq Screens
    /\ Walked \subseteq Keys
    /\ Worlds \subseteq [spots : SUBSET Spots, flicker : SUBSET Spots, versions : SUBSET {1, 2, 3}]

VARIABLES
    standing,   \* the spots of the application that hold a barrier
    tree,       \* the floor file in the working tree
    committed,  \* the floor file at the trusted ref
    dirty,      \* whether a guarded file other than the floor differs there
    world       \* the world it happens in

vars == <<standing, tree, committed, dirty, world>>

\* `spots` is a history variable: the barriers a person accepted with the floor.
Floor(version, count, spots) ==
    [version |-> version, count |-> count, spots |-> spots]

\* The function with no key is the empty sequence.
EmptyFloor == Floor(2, <<>>, {})

-----------------------------------------------------------------------------
\* A screen that declares a signal does not pass for scanned without it: what
\* would be a bare shell is a gap there.
Modes(screen) ==
    {"whole", "gapped", "unseen", "out"}
        \cup (IF screen \in Signalled THEN {} ELSE {"shell"})

\* The views in which `some` spots may be missing.
Views(some) ==
    {v \in [mode : [Screens -> {"whole", "shell", "gapped", "unseen", "out"}],
            missing : SUBSET some] :
        \A screen \in Screens : v.mode[screen] \in Modes(screen)}

\* The runs of baseline and prune: every screen is planned.
FullViews(some) ==
    {v \in Views(some) : \A screen \in Screens : v.mode[screen] # "out"}

Scanned(v) == {screen \in Screens : v.mode[screen] # "out"}

\* Every planned screen was unseen: exit 4, and the gate is not asked.
NothingSeen(v) ==
    /\ Scanned(v) # {}
    /\ \A screen \in Scanned(v) : v.mode[screen] = "unseen"

Clean(v) == {screen \in Screens : v.mode[screen] \in {"whole", "shell"}}

Incomplete(v) == Scanned(v) \ Clean(v) # {}

\* A gapped screen may still have drawn its content; drafts of an unseen screen
\* are dropped (markUnseenScreens).
Drawn(v) ==
    {s \in standing \ v.missing : v.mode[SpotScreen(s)] \in {"whole", "gapped"}}

Drafts(v) ==
    {[spot |-> s, class |-> "deterministic", confidence |-> ConfidenceOf[s]]
        : s \in Drawn(v)}

\* renderEvidenceOf: the signal, and the elements the walk or a draft met.
Seen(v) ==
    [signal |-> {screen \in Signalled : v.mode[screen] = "whole"},
     met    |-> {k \in Walked : v.mode[ScreenOf[k]] = "whole"}
                    \cup {LegacyKey[s] : s \in Drawn(v)}]

\* What the floor file holds: everything but the history variable.
File(floor) == [version |-> floor.version, count |-> floor.count]

\* checkGuard compares file contents.
Diverged == dirty \/ File(tree) # File(committed)

\* Mutant: the working-tree floor is read whatever changed in it.
TreeFloor == tree

\* A local run trusts no policy once any of it changed (readFloorOrEmpty).
LocalFloor == IF Diverged THEN EmptyFloor ELSE tree

\* GateOrder has the waivers and the clock.
Input(v, floor) ==
    [drafts   |-> Drafts(v),
     floor    |-> floor,
     waivers  |-> {},
     now      |-> 0,
     clean    |-> Clean(v),
     seen     |-> Seen(v),
     gaps     |-> Incomplete(v),
     idle     |-> Scanned(v) = {},
     diverged |-> Diverged]

LocalRun(v) == Input(v, LocalFloor)

\* A run in CI reads floor and waivers at the base commit.
TrustedRun(v) == Input(v, committed)

-----------------------------------------------------------------------------
\* The barriers that a floor's entry accepts, among a set of spots.
At(floor, spots, k) ==
    {s \in spots : IF RowKey[s] \in Entries(floor) THEN RowKey[s] = k
                                                   ELSE LegacyKey[s] = k}

\* observeFloor: the gate's own tally of a scan.
TallyIn(v, scheme, k) == Cardinality({s \in Drawn(v) : KeyOf(scheme, s) = k})

\* isUnconfirmedAbsence
UnconfirmedAbsence(floor, v, k) ==
    /\ ScreenOf[k] \in Clean(v)
    /\ TallyIn(v, IdentityScheme(floor), k) = 0
    /\ ~PaydownConfirmed(Seen(v), k)

\* Mutant: prune removes every entry the run did not see.
KeptIfPresent(floor, v, unconfirmed, k) ==
    \/ ScreenOf[k] \notin Clean(v)
    \/ TallyIn(v, IdentityScheme(floor), k) > 0

\* The entries prune keeps: on a screen not scanned cleanly, present, or absent
\* without proof of a fix (removed too with --unconfirmed).
Kept(floor, v, unconfirmed, k) ==
    \/ ScreenOf[k] \notin Clean(v)
    \/ TallyIn(v, IdentityScheme(floor), k) > 0
    \/ UnconfirmedAbsence(floor, v, k) /\ ~unconfirmed

\* Mutant: counts behind present entries are left as they were.
NeverLowered(floor, v, k) == FALSE

\* The entries prune lowers to the count it saw.
Lowered(floor, v, k) ==
    LET seen == TallyIn(v, IdentityScheme(floor), k)
    IN  /\ ScreenOf[k] \in Clean(v)
        /\ CountsObserved(floor, k)
        /\ seen > 0
        /\ seen < floor.count[k]

\* The barriers a floor accepted under these keys and that still stand.  A
\* person who accepted them did not take that back when usabl drops the keys.
StillAccepted(floor, keys) ==
    standing \cap (UNION {At(floor, floor.spots, k) : k \in keys})

Pruned(floor, v, unconfirmed) ==
    LET kept == {k \in Entries(floor) : Kept(floor, v, unconfirmed, k)}
        low  == {k \in kept : Lowered(floor, v, k)}
    IN  Floor(floor.version,
              [k \in kept |-> IF k \in low
                              THEN TallyIn(v, IdentityScheme(floor), k)
                              ELSE floor.count[k]],
              (UNION {At(floor, floor.spots, k) : k \in kept \ low})
                \cup {s \in Drawn(v) : KeyOf(IdentityScheme(floor), s) \in low}
                \cup (IF unconfirmed THEN {}
                      ELSE StillAccepted(floor, Entries(floor) \ kept)))

\* usabl floor prune
FloorPrune(v, unconfirmed) ==
    /\ ~dirty
    /\ ~NothingSeen(v)
    /\ File(Pruned(tree, v, unconfirmed)) # File(tree)
    /\ tree' = Pruned(tree, v, unconfirmed)
    /\ UNCHANGED <<standing, committed, dirty, world>>

\* unconfirmedCarry: what either scan missed and could not show fixed.
Carried(floor, v1, v2) ==
    {k \in Entries(floor) :
        UnconfirmedAbsence(floor, v1, k) \/ UnconfirmedAbsence(floor, v2, k)}

\* Mutant: the larger of the two counts is recorded.
LargerOf(v1, v2, k) ==
    Max({TallyIn(v1, "row-scoped", k), TallyIn(v2, "row-scoped", k)})

\* How many barriers both scans saw at a key (stableFloor).
InBoth(v1, v2, k) ==
    Min({TallyIn(v1, "row-scoped", k), TallyIn(v2, "row-scoped", k)})

\* A version 1 placeholder count cannot be carried into a counted floor.
Placeholders(floor, v1, v2) ==
    {k \in Carried(floor, v1, v2) : floor.version = 1 /\ k \notin Counted}

Recorded(floor, v1, v2, screens) ==
    {k \in Keys \ Carried(floor, v1, v2) :
        ScreenOf[k] \in screens /\ InBoth(v1, v2, k) > 0}

\* FLOOR_VERSION, the version baseline writes whatever it replaces.
FloorVersion == 3

Baselined(floor, v1, v2, screens) ==
    LET carried  == Carried(floor, v1, v2)
        recorded == Recorded(floor, v1, v2, screens)
    IN  Floor(FloorVersion,
              [k \in carried \cup recorded |->
                  IF k \in carried THEN floor.count[k] ELSE InBoth(v1, v2, k)],
              (UNION {At(floor, floor.spots, k) : k \in carried})
                \cup {s \in Drawn(v1) \cup Drawn(v2) : RowKey[s] \in recorded}
                \cup StillAccepted(floor, {k \in Entries(floor) \ carried :
                                              ScreenOf[k] \in screens}))

\* The screens a partial baseline may speak for.
CleanInBoth(v1, v2) == Clean(v1) \cap Clean(v2)

BaselineWrites(v1, v2, screens) ==
    /\ ~dirty
    /\ ~NothingSeen(v1) /\ ~NothingSeen(v2)
    /\ Placeholders(tree, v1, v2) = {}
    /\ tree' = Baselined(tree, v1, v2, screens)
    /\ UNCHANGED <<standing, committed, dirty, world>>

\* usabl baseline, from two scans that saw the whole application
Baseline(v1, v2) ==
    /\ ~Incomplete(v1) /\ ~Incomplete(v2)
    /\ BaselineWrites(v1, v2, Screens)

\* usabl baseline --partial, from scans that did not
PartialBaseline(v1, v2) ==
    /\ Incomplete(v1) \/ Incomplete(v2)
    /\ CleanInBoth(v1, v2) # {}
    /\ BaselineWrites(v1, v2, CleanInBoth(v1, v2))

-----------------------------------------------------------------------------
Introduce(s) ==
    /\ s \notin standing
    /\ standing' = standing \cup {s}
    /\ UNCHANGED <<tree, committed, dirty, world>>

Fix(s) ==
    /\ s \in standing
    /\ standing' = standing \ {s}
    /\ UNCHANGED <<tree, committed, dirty, world>>

EditPolicy ==
    /\ ~dirty
    /\ dirty' = TRUE
    /\ UNCHANGED <<standing, tree, committed, world>>

\* A person reviews the working tree and merges it, or throws it away.
Merge ==
    /\ Diverged
    /\ committed' = tree
    /\ dirty' = FALSE
    /\ UNCHANGED <<standing, tree, world>>

Discard ==
    /\ Diverged
    /\ tree' = committed
    /\ dirty' = FALSE
    /\ UNCHANGED <<standing, committed, world>>

\* The floor earlier versions of usabl wrote over the spots that stood then.
StartFloor(version, spots) ==
    LET scheme == IF version = 3 THEN "row-scoped" ELSE "legacy"
        keys   == {KeyOf(scheme, s) : s \in spots}
        size(k) == Cardinality({s \in spots : KeyOf(scheme, s) = k})
    IN  Floor(version,
              [k \in keys |-> IF version = 1 /\ k \notin Counted
                              THEN 1 ELSE size(k)],
              spots)

Init ==
    /\ world \in Worlds
    /\ standing \in SUBSET world.spots
    /\ \E version \in world.versions : tree = StartFloor(version, standing)
    /\ committed = tree
    /\ dirty = FALSE

Next ==
    \/ \E s \in world.spots : Introduce(s) \/ Fix(s)
    \/ EditPolicy \/ Merge \/ Discard
    \/ \E v \in FullViews(world.flicker), u \in BOOLEAN : FloorPrune(v, u)
    \/ \E v1, v2 \in FullViews(world.flicker) : Baseline(v1, v2) \/ PartialBaseline(v1, v2)

Spec == Init /\ [][Next]_vars

-----------------------------------------------------------------------------
\* A view in which the whole application is seen as it is.
Whole(v) == v.missing = {} /\ \A screen \in Screens : v.mode[screen] = "whole"

\* Debt cannot grow behind a green: when a run that sees everything is verified
\* no identity holds more barriers than a person
\* accepted there, however often the floor was baselined, pruned or carried.
DebtIsAccepted ==
    \A v \in Views(world.flicker) :
        (/\ Whole(v)
         /\ AccessibilityVerdict(TrustedRun(v)) = "verified")
        => \A k \in Keys :
             Cardinality({s \in standing : RowKey[s] = k})
                <= Cardinality(At(committed, committed.spots, k))

\* On a page that always draws what it has, accepted debt that nobody touched
\* never blocks, whatever part of the page a run reaches: neither prune nor
\* baseline drops a barrier that still stands, and "nothing reads as new or
\* fixed only because the keys changed" (src/docs/ground-truth.md:1982).
AcceptedNeverBlocks ==
    world.flicker = {} /\ standing \subseteq committed.spots =>
        \A v \in Views({}) : Blocking(TrustedRun(v)) = {}

\* A floored barrier a run calls fixed is gone from the application, also when
\* the content that held it failed to mount.
FixedMeansGone ==
    \A v \in Views({}) :
        \A k \in Fixed(TrustedRun(v)) :
            At(committed, standing \cap committed.spots, k) = {}

\* A run on a working tree with a draft floor or an edited policy never finds
\* green what the run in CI then blocks.
LocalGreenIsReal ==
    \A v \in Views(world.flicker) :
        AccessibilityVerdict(LocalRun(v)) = "verified"
            => Blocking(TrustedRun(v)) = {}


\* What came and went between the two scans of a baseline is not recorded, so
\* neither scan finds room in the new floor for a barrier nobody accepted.
BaselineLeavesNoRoom ==
    world.flicker # {} => \A v1, v2 \in FullViews(world.flicker) :
        LET floor == Baselined(tree, v1, v2, CleanInBoth(v1, v2))
        IN  \A v \in {v1, v2} :
               Headroom(Input(v, floor)) \subseteq Carried(tree, v1, v2)

\* Prune and the gate agree on what is paid down: after a prune the same run
\* finds nothing fixed and no headroom left on the screens it saw cleanly, and
\* every entry it could not confirm is still there unless the operator said so.
PruneSettles ==
    \A v \in FullViews(world.flicker), u \in BOOLEAN :
        LET before == Input(v, tree)
            after  == Input(v, Pruned(tree, v, u))
        IN  /\ Fixed(after) = {}
            /\ \A k \in Headroom(after) : ScreenOf[k] \notin Clean(v)
            /\ Unconfirmed(after) = IF u THEN {} ELSE Unconfirmed(before)

\* A floor just written settles the runs it was written from: neither command
\* leaves what the next look at the same screens would call paid down, or room
\* for a barrier nobody accepted (floor/prune.ts and baseline/index.ts against
\* gate/index.ts, which decide apart).
WrittenFloorSettles == PruneSettles /\ BaselineLeavesNoRoom
=============================================================================
