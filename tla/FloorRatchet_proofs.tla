------------------------ MODULE FloorRatchet_proofs ------------------------
(***************************************************************************)
(* Proofs about the evidence floor over time, for every application, every *)
(* set of worlds and every sequence of baselines, prunes and merges.       *)
(*                                                                         *)
(* Three properties follow from the shape of the floor alone.  The three   *)
(* about accepted debt need an invariant that ties the counts in a floor   *)
(* to the barriers a person accepted with it, and hold where keyed rows    *)
(* are declared the way the documentation asks for (KeyedRowsSignalled).   *)
(***************************************************************************)
EXTENDS FloorRatchet, FiniteSetTheorems, TLAPS

Versions == {1, 2, 3}

FloorShape ==
    [version : Versions,
     count   : UNION {[K -> Nat] : K \in SUBSET Keys},
     spots   : SUBSET Spots]

Shapes ==
    /\ world \in Worlds
    /\ standing \in SUBSET Spots
    /\ tree \in FloorShape
    /\ committed \in FloorShape
    /\ dirty \in BOOLEAN

\* A screen with keyed rows declares a readiness signal.
KeyedRowsSignalled ==
    \A s \in Spots : Keyed(s) => SpotScreen(s) \in Signalled

\* What comes and goes on an unchanged page are controls outside keyed rows.
KeyedRowsStill ==
    \A w \in Worlds : \A s \in w.flicker : ~Keyed(s)

\* The keys of a floor are those of the scheme it was written with.
OneScheme(floor) == floor.version < 3 => Entries(floor) \cap RowKeys = {}

\* An entry accepts no more barriers than a person accepted under its key.
Covered(floor) ==
    \A k \in Entries(floor) :
        CountsObserved(floor, k)
            => floor.count[k] <= Cardinality(At(floor, floor.spots, k))

Sound(floor) == OneScheme(floor) /\ Covered(floor)

SoundInv ==
    /\ Shapes
    /\ Sound(tree)
    /\ Sound(committed)

\* A spot that every scan of its screen draws was never dropped while it stood.
Rooted(w, floor) ==
    \A s \in floor.spots \ w.flicker :
        KeyOf(IdentityScheme(floor), s) \in Entries(floor)

\* Where everything is always drawn an entry accepts no fewer either.
Tight(w, floor) ==
    w.flicker = {} =>
        \A k \in Entries(floor) :
            CountsObserved(floor, k)
                => Cardinality(At(floor, floor.spots, k)) <= floor.count[k]

Faithful(w, floor) == Rooted(w, floor) /\ Tight(w, floor)

FloorInv ==
    /\ SoundInv
    /\ Faithful(world, tree)
    /\ Faithful(world, committed)

-----------------------------------------------------------------------------
\* Both keys of a spot are keys of its screen, and a spot outside keyed rows
\* has one key.
LEMMA SpotKeys ==
    ASSUME NEW s \in Spots, NEW scheme
    PROVE  /\ RowKey[s] \in Keys /\ LegacyKey[s] \in Keys
           /\ KeyOf(scheme, s) \in Keys
           /\ ScreenOf[KeyOf(scheme, s)] = SpotScreen(s)
           /\ SpotScreen(s) \in Screens
           /\ ~Keyed(s) => KeyOf(scheme, s) = RowKey[s]
           /\ Keyed(s) => RowKey[s] \in RowKeys
BY IdentityAssumption DEF KeyOf, SpotScreen, Keyed, RowKeys

LEMMA FloorFields ==
    ASSUME NEW floor \in FloorShape
    PROVE  /\ floor.version \in Versions
           /\ Entries(floor) \subseteq Keys
           /\ floor.count \in [Entries(floor) -> Nat]
           /\ floor.spots \subseteq Spots
<1>1. PICK K \in SUBSET Keys : floor.count \in [K -> Nat]
  BY DEF FloorShape
<1> QED
  BY <1>1 DEF FloorShape, Entries

\* A floor made of entries with counts has the shape of one.
LEMMA FloorMade ==
    ASSUME NEW version \in Versions, NEW K \in SUBSET Keys,
           NEW count \in [K -> Nat], NEW spots \in SUBSET Spots
    PROVE  /\ Floor(version, count, spots) \in FloorShape
           /\ Entries(Floor(version, count, spots)) = K
BY DEF Floor, FloorShape, Entries

\* What a view says of a screen.
LEMMA ViewFields ==
    ASSUME NEW some, NEW v \in Views(some)
    PROVE  /\ v.missing \subseteq some
           /\ \A screen \in Screens : v.mode[screen] \in Modes(screen)
           /\ Clean(v) \subseteq Screens
           /\ v \in FullViews(some) => Scanned(v) = Screens
BY DEF Views, Clean, FullViews, Scanned

LEMMA FullIsView ==
    ASSUME NEW some, NEW v \in FullViews(some)
    PROVE  v \in Views(some)
BY DEF FullViews

\* Every draft is deterministic and stands for one spot, so the gate counts
\* under a key what a scan drew under it.
LEMMA TallyIsDrawn ==
    ASSUME standing \subseteq Spots, NEW v, NEW scheme, NEW k
    PROVE  /\ Tally(Drafts(v), scheme, k) = TallyIn(v, scheme, k)
           /\ TallyIn(v, scheme, k) \in Nat
           /\ TallyIn(v, scheme, k) = 0
                <=> (\A s \in Drawn(v) : KeyOf(scheme, s) # k)
<1> DEFINE draft(s) == [spot |-> s, class |-> "deterministic",
                        confidence |-> ConfidenceOf[s]]
           A == {s \in Drawn(v) : KeyOf(scheme, s) = k}
           B == {d \in Deterministic(Drafts(v)) : DraftKey(scheme, d) = k}
           f == [s \in A |-> draft(s)]
<1>1. A \subseteq Spots
  BY DEF Drawn
<1>2. IsFiniteSet(A)
  BY <1>1, FS_Subset, RatchetAssumption
<1>3. B = {draft(s) : s \in A}
  BY DEF Deterministic, Drafts, DraftKey
<1>4. f \in Bijection(A, B)
  <2>1. f \in [A -> B]
    BY <1>3
  <2>2. \A a, b \in A : f[a] = f[b] => a = b
    <3> SUFFICES ASSUME NEW a \in A, NEW b \in A, f[a] = f[b] PROVE a = b
      OBVIOUS
    <3>1. f[a].spot = a /\ f[b].spot = b
      OBVIOUS
    <3> QED
      BY <3>1
  <2>3. \A d \in B : \E a \in A : f[a] = d
    BY <1>3
  <2> HIDE DEF A, B, f
  <2> QED
    BY <2>1, <2>2, <2>3 DEF Bijection, Injection, IsInjective, Surjection
<1>5. Cardinality(B) = Cardinality(A)
  BY <1>2, <1>4, FS_Bijection DEF ExistsBijection
<1>6. Cardinality(A) \in Nat /\ (Cardinality(A) = 0 <=> A = {})
  BY <1>2, FS_CardinalityType, FS_EmptySet
<1> QED
  BY <1>5, <1>6 DEF Tally, TallyIn

-----------------------------------------------------------------------------
(* The shape of the floors.                                                *)

LEMMA EmptyShaped == EmptyFloor \in FloorShape /\ Entries(EmptyFloor) = {}
<1>1. <<>> \in [{} -> Nat]
  OBVIOUS
<1>2. 2 \in Versions /\ {} \in SUBSET Keys /\ {} \in SUBSET Spots
  BY DEF Versions
<1> QED
  BY <1>1, <1>2, FloorMade DEF EmptyFloor

\* What prune leaves of a floor.
LEMMA PrunedFields ==
    ASSUME standing \subseteq Spots, NEW floor \in FloorShape, NEW v,
           NEW u \in BOOLEAN
    PROVE  LET new == Pruned(floor, v, u) IN
           /\ new \in FloorShape
           /\ new.version = floor.version
           /\ Entries(new) = {k \in Entries(floor) : Kept(floor, v, u, k)}
           /\ \A k \in Entries(new) :
                new.count[k] = IF Lowered(floor, v, k)
                               THEN TallyIn(v, IdentityScheme(floor), k)
                               ELSE floor.count[k]
<1> DEFINE kept == {k \in Entries(floor) : Kept(floor, v, u, k)}
           low == {k \in kept : Lowered(floor, v, k)}
           count == [k \in kept |-> IF k \in low
                                    THEN TallyIn(v, IdentityScheme(floor), k)
                                    ELSE floor.count[k]]
           spots == (UNION {At(floor, floor.spots, k) : k \in kept \ low})
                \cup {s \in Drawn(v) : KeyOf(IdentityScheme(floor), s) \in low}
                \cup (IF u THEN {}
                      ELSE StillAccepted(floor, Entries(floor) \ kept))
<1>1. Pruned(floor, v, u) = Floor(floor.version, count, spots)
  BY DEF Pruned
<1>2. /\ floor.version \in Versions /\ Entries(floor) \subseteq Keys
      /\ floor.count \in [Entries(floor) -> Nat] /\ floor.spots \subseteq Spots
  BY FloorFields
<1>3. count \in [kept -> Nat]
  BY <1>2, TallyIsDrawn
<1>4. spots \subseteq Spots
  BY <1>2 DEF At, StillAccepted, Drawn
<1> HIDE DEF count, spots
<1>5. /\ Pruned(floor, v, u) \in FloorShape
      /\ Entries(Pruned(floor, v, u)) = kept
  BY <1>1, <1>2, <1>3, <1>4, FloorMade
<1>6. Pruned(floor, v, u).version = floor.version /\ Pruned(floor, v, u).count = count
  BY <1>1 DEF Floor
<1> QED
  BY <1>5, <1>6 DEF count

\* What both scans of a baseline drew under a key, as a number.
LEMMA InBothIsLeast ==
    ASSUME standing \subseteq Spots, NEW v1, NEW v2, NEW k
    PROVE  /\ InBoth(v1, v2, k) \in Nat
           /\ InBoth(v1, v2, k) \in {TallyIn(v1, "row-scoped", k),
                                     TallyIn(v2, "row-scoped", k)}
           /\ InBoth(v1, v2, k) <= TallyIn(v1, "row-scoped", k)
           /\ InBoth(v1, v2, k) <= TallyIn(v2, "row-scoped", k)
<1> DEFINE a == TallyIn(v1, "row-scoped", k)
           b == TallyIn(v2, "row-scoped", k)
<1>1. a \in Nat /\ b \in Nat
  BY TallyIsDrawn
<1>2. InBoth(v1, v2, k) = CHOOSE x \in {a, b} : \A y \in {a, b} : x <= y
  BY DEF InBoth, Min
<1> HIDE DEF a, b
<1>3. \E x \in {a, b} : \A y \in {a, b} : x <= y
  <2>1. a <= b \/ b <= a
    BY <1>1
  <2> QED
    BY <1>1, <2>1
<1>4. /\ InBoth(v1, v2, k) \in {a, b}
      /\ \A y \in {a, b} : InBoth(v1, v2, k) <= y
  BY <1>2, <1>3
<1>5. /\ InBoth(v1, v2, k) \in Nat
      /\ InBoth(v1, v2, k) <= a /\ InBoth(v1, v2, k) <= b
  BY <1>1, <1>4
<1> QED
  BY <1>4, <1>5 DEF a, b

\* What baseline writes.
LEMMA BaselinedFields ==
    ASSUME standing \subseteq Spots, NEW floor \in FloorShape, NEW v1, NEW v2,
           NEW screens
    PROVE  LET new == Baselined(floor, v1, v2, screens) IN
           /\ new \in FloorShape
           /\ new.version = 3
           /\ Entries(new) = Carried(floor, v1, v2)
                                \cup Recorded(floor, v1, v2, screens)
           /\ \A k \in Entries(new) :
                new.count[k] = IF k \in Carried(floor, v1, v2)
                               THEN floor.count[k] ELSE InBoth(v1, v2, k)
<1> DEFINE carried == Carried(floor, v1, v2)
           recorded == Recorded(floor, v1, v2, screens)
           count == [k \in carried \cup recorded |->
                        IF k \in carried THEN floor.count[k]
                                         ELSE InBoth(v1, v2, k)]
           spots == (UNION {At(floor, floor.spots, k) : k \in carried})
                \cup {s \in Drawn(v1) \cup Drawn(v2) : RowKey[s] \in recorded}
                \cup StillAccepted(floor, {k \in Entries(floor) \ carried :
                                              ScreenOf[k] \in screens})
<1>1. Baselined(floor, v1, v2, screens) = Floor(3, count, spots)
  BY DEF Baselined, FloorVersion
<1>2. /\ floor.version \in Versions /\ Entries(floor) \subseteq Keys
      /\ floor.count \in [Entries(floor) -> Nat] /\ floor.spots \subseteq Spots
  BY FloorFields
<1>3. carried \subseteq Entries(floor) /\ recorded \subseteq Keys
  BY DEF Carried, Recorded
<1>4. count \in [carried \cup recorded -> Nat]
  BY <1>2, <1>3, InBothIsLeast
<1>5. spots \subseteq Spots
  BY <1>2 DEF At, StillAccepted, Drawn
<1>6. 3 \in Versions
  BY DEF Versions
<1> HIDE DEF count, spots, carried, recorded
<1>7. /\ Baselined(floor, v1, v2, screens) \in FloorShape
      /\ Entries(Baselined(floor, v1, v2, screens)) = carried \cup recorded
  BY <1>1, <1>2, <1>3, <1>4, <1>5, <1>6, FloorMade
<1>8. /\ Baselined(floor, v1, v2, screens).version = 3
      /\ Baselined(floor, v1, v2, screens).count = count
  BY <1>1 DEF Floor
<1> QED
  BY <1>7, <1>8 DEF count, carried, recorded

\* The floor that earlier versions wrote.
LEMMA StartFields ==
    ASSUME NEW version \in Versions, NEW spots \in SUBSET Spots
    PROVE  LET scheme == IF version = 3 THEN "row-scoped" ELSE "legacy"
               new == StartFloor(version, spots)
           IN  /\ new \in FloorShape
               /\ new.version = version
               /\ new.spots = spots
               /\ Entries(new) = {KeyOf(scheme, s) : s \in spots}
               /\ \A k \in Entries(new) :
                    new.count[k] = IF version = 1 /\ k \notin Counted THEN 1
                        ELSE Cardinality({s \in spots : KeyOf(scheme, s) = k})
<1> DEFINE scheme == IF version = 3 THEN "row-scoped" ELSE "legacy"
           keys == {KeyOf(scheme, s) : s \in spots}
           size(k) == Cardinality({s \in spots : KeyOf(scheme, s) = k})
           count == [k \in keys |-> IF version = 1 /\ k \notin Counted
                                    THEN 1 ELSE size(k)]
<1>1. StartFloor(version, spots) = Floor(version, count, spots)
  BY DEF StartFloor
<1>2. \A k : size(k) \in Nat
  <2> SUFFICES ASSUME NEW k PROVE size(k) \in Nat
    OBVIOUS
  <2>1. {s \in spots : KeyOf(scheme, s) = k} \in SUBSET Spots
    OBVIOUS
  <2> QED
    BY <2>1, FS_Subset, FS_CardinalityType, RatchetAssumption
<1>3. keys \in SUBSET Keys
  BY SpotKeys
<1>4. count \in [keys -> Nat]
  BY <1>2
<1> HIDE DEF keys, count
<1>5. /\ StartFloor(version, spots) \in FloorShape
      /\ Entries(StartFloor(version, spots)) = keys
  BY <1>1, <1>3, <1>4, FloorMade
<1>6. /\ StartFloor(version, spots).version = version
      /\ StartFloor(version, spots).spots = spots
      /\ StartFloor(version, spots).count = count
  BY <1>1 DEF Floor
<1> QED
  BY <1>5, <1>6 DEF keys, count

LEMMA WorldFields ==
    ASSUME world \in Worlds
    PROVE  /\ world.spots \subseteq Spots
           /\ world.flicker \subseteq Spots
           /\ world.versions \subseteq Versions
BY RatchetAssumption DEF Versions

LEMMA InitShapes == Init => Shapes
<1> SUFFICES ASSUME Init PROVE Shapes
  OBVIOUS
<1>1. PICK version \in world.versions : tree = StartFloor(version, standing)
  BY DEF Init
<1>2. world \in Worlds /\ standing \in SUBSET Spots /\ version \in Versions
  BY <1>1, WorldFields DEF Init
<1>3. tree \in FloorShape
  BY <1>1, <1>2, StartFields
<1> QED
  BY <1>2, <1>3 DEF Init, Shapes

\* Prune and baseline leave a floor of the right shape in the working tree,
\* every other step moves floors about.
LEMMA NextShapes == Shapes /\ [Next]_vars => Shapes'
<1> SUFFICES ASSUME Shapes, [Next]_vars PROVE Shapes'
  OBVIOUS
<1> USE DEF Shapes
<1>1. standing \subseteq Spots /\ world.spots \subseteq Spots
  BY WorldFields
<1>2. ASSUME NEW s \in world.spots, Introduce(s) \/ Fix(s) PROVE Shapes'
  BY <1>1, <1>2 DEF Introduce, Fix
<1>3. CASE EditPolicy \/ Merge \/ Discard
  BY <1>3 DEF EditPolicy, Merge, Discard
<1>4. ASSUME NEW v \in FullViews(world.flicker), NEW u \in BOOLEAN,
             FloorPrune(v, u)
      PROVE  Shapes'
  <2>1. tree' \in FloorShape
    BY <1>1, <1>4, PrunedFields DEF FloorPrune
  <2> QED
    BY <1>4, <2>1 DEF FloorPrune
<1>5. ASSUME NEW v1, NEW v2, NEW screens, BaselineWrites(v1, v2, screens)
      PROVE  Shapes'
  <2>1. tree' \in FloorShape
    BY <1>1, <1>5, BaselinedFields DEF BaselineWrites
  <2> QED
    BY <1>5, <2>1 DEF BaselineWrites
<1>6. CASE UNCHANGED vars
  BY <1>6 DEF vars
<1> QED
  BY <1>2, <1>3, <1>4, <1>5, <1>6 DEF Next, Baseline, PartialBaseline

\* Floors keep their shape (the file usabl baseline and usabl floor prune
\* write): every entry is an identity with a count.
THEOREM FloorsTyped == Spec => []Shapes
<1> QED BY InitShapes, NextShapes, PTL DEF Spec

-----------------------------------------------------------------------------
(* What holds of any floor of the right shape.                             *)

\* The fields of the gate's input.
LEMMA InputFields ==
    ASSUME NEW v, NEW floor
    PROVE  LET in == Input(v, floor) IN
           /\ in.drafts = Drafts(v) /\ in.floor = floor /\ in.waivers = {}
           /\ in.clean = Clean(v) /\ in.seen = Seen(v)
           /\ in.gaps = Incomplete(v)
           /\ Scheme(in) = IdentityScheme(floor)
BY DEF Input, Scheme

\* A run that is verified blocks nothing and has no floor gap.
LEMMA VerifiedIsClean ==
    ASSUME NEW in, AccessibilityVerdict(in) = "verified"
    PROVE  Blocking(in) = {} /\ ~in.gaps /\ ~FloorGap(in)
BY DEF AccessibilityVerdict

\* What the gate blocks of a run is decided by the drawn spots and the file.
LEMMA BlockingIsDrawn ==
    ASSUME standing \subseteq Spots, NEW v, NEW floor
    PROVE  Blocking(Input(v, floor)) =
             {k \in {KeyOf(IdentityScheme(floor), s) : s \in Drawn(v)} :
                k \in Entries(floor) =>
                   /\ CountsObserved(floor, k)
                   /\ TallyIn(v, IdentityScheme(floor), k) > floor.count[k]}
<1> DEFINE in == Input(v, floor)
           scheme == IdentityScheme(floor)
           draft(s) == [spot |-> s, class |-> "deterministic",
                        confidence |-> ConfidenceOf[s]]
<1>1. /\ in.drafts = Drafts(v) /\ in.floor = floor /\ in.waivers = {}
      /\ Scheme(in) = scheme
  BY InputFields
<1>2. \A k : ~Waived(in, k)
  BY <1>1 DEF Waived
<1>3. \A k : New(in, k) <=>
        (k \in Entries(floor) =>
            /\ CountsObserved(floor, k)
            /\ TallyIn(v, scheme, k) > floor.count[k])
  BY <1>1, <1>2, TallyIsDrawn DEF New, Grown
<1>4. Reported(in) = {KeyOf(scheme, s) : s \in Drawn(v)}
  <2>1. Drafts(v) = {draft(s) : s \in Drawn(v)}
    BY DEF Drafts
  <2>2. \A s : DraftKey(scheme, draft(s)) = KeyOf(scheme, s)
    BY DEF DraftKey
  <2>3. Reported(in) = {DraftKey(scheme, d) : d \in Drafts(v)}
    BY <1>1 DEF Reported
  <2> HIDE DEF in, scheme, draft
  <2> QED
    BY <2>1, <2>2, <2>3
<1>5. \A k \in Reported(in) : Gates(in, k)
  BY <1>1 DEF Gates, Group, Deterministic, Reported, Drafts
<1> HIDE DEF in, scheme
<1>6. Blocking(in) = {k \in Reported(in) : New(in, k)}
  BY <1>5 DEF Blocking
<1> QED
  BY <1>3, <1>4, <1>6 DEF in, scheme

\* A local run that is green on a draft floor or an edited policy saw no
\* barrier at all, so the run in CI has nothing to block: `run` reads an empty
\* floor when the guarded files differ (readFloorOrEmpty).
THEOREM LocalGreenHolds == Spec => []LocalGreenIsReal
<1>1. Shapes => LocalGreenIsReal
  <2> SUFFICES ASSUME Shapes, NEW v \in Views(world.flicker),
                      AccessibilityVerdict(LocalRun(v)) = "verified"
               PROVE  Blocking(TrustedRun(v)) = {}
    BY DEF LocalGreenIsReal
  <2>1. standing \subseteq Spots
    BY DEF Shapes
  <2>2. Blocking(Input(v, LocalFloor)) = {}
    BY VerifiedIsClean DEF LocalRun
  <2>3. CASE Diverged
    <3>1. LocalFloor = EmptyFloor
      BY <2>3 DEF LocalFloor
    <3>2. Drawn(v) = {}
      <4> SUFFICES ASSUME NEW s \in Drawn(v) PROVE FALSE
        OBVIOUS
      <4>1. KeyOf(IdentityScheme(EmptyFloor), s) \notin Entries(EmptyFloor)
        BY EmptyShaped
      <4>2. KeyOf(IdentityScheme(EmptyFloor), s) \in Blocking(Input(v, EmptyFloor))
        BY <2>1, <4>1, BlockingIsDrawn
      <4> QED
        BY <2>2, <3>1, <4>2
    <3> QED
      BY <2>1, <3>2, BlockingIsDrawn DEF TrustedRun
  <2>4. CASE ~Diverged
    <3>1. LocalFloor = tree
      BY <2>4 DEF LocalFloor
    <3>2. tree.version = committed.version /\ tree.count = committed.count
      BY <2>4 DEF Diverged, File
    <3>3. /\ IdentityScheme(tree) = IdentityScheme(committed)
          /\ Entries(tree) = Entries(committed)
          /\ \A k : CountsObserved(tree, k) = CountsObserved(committed, k)
      BY <3>2 DEF IdentityScheme, Entries, CountsObserved
    <3> QED
      BY <2>1, <2>2, <3>1, <3>2, <3>3, BlockingIsDrawn DEF TrustedRun
  <2> QED
    BY <2>3, <2>4
<1> QED
  BY <1>1, FloorsTyped, PTL

\* What the gate calls absent, fixed, unconfirmed or headroom, in terms of what
\* the scan drew.
LEMMA AbsentIsUndrawn ==
    ASSUME standing \subseteq Spots, NEW v, NEW floor
    PROVE  LET in == Input(v, floor)
               seen(k) == TallyIn(v, IdentityScheme(floor), k)
           IN  /\ Fixed(in) = {k \in Entries(floor) :
                                 /\ ScreenOf[k] \in Clean(v) /\ seen(k) = 0
                                 /\ PaydownConfirmed(Seen(v), k)}
               /\ Unconfirmed(in) = {k \in Entries(floor) :
                                       UnconfirmedAbsence(floor, v, k)}
               /\ Headroom(in) = {k \in Entries(floor) :
                     /\ CountsObserved(floor, k)
                     /\ seen(k) < floor.count[k]
                     /\ seen(k) > 0 \/ k \in Fixed(in)}
BY InputFields, TallyIsDrawn
   DEF Absent, Fixed, Unconfirmed, Headroom, UnconfirmedAbsence

\* A recorded entry has the smaller count of the two scans, so neither of them
\* stays below it (stableFloor in baseline/index.ts).
THEOREM BaselineIsTight == Spec => []BaselineLeavesNoRoom
<1>1. Shapes => BaselineLeavesNoRoom
  <2> SUFFICES ASSUME Shapes, NEW v1 \in FullViews(world.flicker),
                      NEW v2 \in FullViews(world.flicker),
                      NEW v \in {v1, v2},
                      NEW k \in Headroom(Input(v, Baselined(tree, v1, v2,
                                                   CleanInBoth(v1, v2))))
               PROVE  k \in Carried(tree, v1, v2)
    BY DEF BaselineLeavesNoRoom
  <2> DEFINE floor == Baselined(tree, v1, v2, CleanInBoth(v1, v2))
  <2>1. standing \subseteq Spots /\ tree \in FloorShape
    BY DEF Shapes
  <2>2. /\ floor.version = 3
        /\ k \in Entries(floor)
             => floor.count[k] = IF k \in Carried(tree, v1, v2)
                                 THEN tree.count[k] ELSE InBoth(v1, v2, k)
    BY <2>1, BaselinedFields
  <2>3. IdentityScheme(floor) = "row-scoped"
    BY <2>2 DEF IdentityScheme
  <2>4. /\ k \in Entries(floor)
        /\ TallyIn(v, "row-scoped", k) < floor.count[k]
    BY <2>1, <2>3, AbsentIsUndrawn
  <2>5. /\ InBoth(v1, v2, k) \in Nat
        /\ TallyIn(v, "row-scoped", k) \in Nat
        /\ InBoth(v1, v2, k) <= TallyIn(v, "row-scoped", k)
    BY <2>1, InBothIsLeast, TallyIsDrawn
  <2> HIDE DEF floor
  <2> QED
    BY <2>2, <2>4, <2>5
<1> QED
  BY <1>1, FloorsTyped, PTL

\* After a prune the same run finds nothing fixed, nothing to lower on the
\* screens it saw cleanly, and every absence it could not confirm still there
\* (floor/prune.ts and gate/index.ts decide what is paid down separately).
THEOREM PruneAgrees == Spec => []PruneSettles
<1>1. Shapes => PruneSettles
  <2> SUFFICES ASSUME Shapes, NEW v \in FullViews(world.flicker),
                      NEW u \in BOOLEAN
               PROVE  LET before == Input(v, tree)
                          after  == Input(v, Pruned(tree, v, u))
                      IN  /\ Fixed(after) = {}
                          /\ \A k \in Headroom(after) : ScreenOf[k] \notin Clean(v)
                          /\ Unconfirmed(after) = IF u THEN {} ELSE Unconfirmed(before)
    BY DEF PruneSettles
  <2> DEFINE new == Pruned(tree, v, u)
             scheme == IdentityScheme(tree)
  <2>1. standing \subseteq Spots /\ tree \in FloorShape
    BY DEF Shapes
  <2>2. /\ new.version = tree.version
        /\ Entries(new) = {k \in Entries(tree) : Kept(tree, v, u, k)}
        /\ \A k \in Entries(new) :
             new.count[k] = IF Lowered(tree, v, k)
                            THEN TallyIn(v, scheme, k) ELSE tree.count[k]
    BY <2>1, PrunedFields
  <2>3. Entries(new) # {} => IdentityScheme(new) = scheme
    BY <2>2 DEF IdentityScheme
  <2>4. \A k : CountsObserved(new, k) <=> CountsObserved(tree, k)
    BY <2>2 DEF CountsObserved
  <2>5. \A k : TallyIn(v, scheme, k) \in Nat
    BY <2>1, TallyIsDrawn
  <2> HIDE DEF new, scheme
  <2>6. Fixed(Input(v, new)) = {}
    <3> SUFFICES ASSUME NEW k \in Fixed(Input(v, new)) PROVE FALSE
      OBVIOUS
    <3>1. /\ k \in Entries(new) /\ ScreenOf[k] \in Clean(v)
          /\ TallyIn(v, scheme, k) = 0 /\ PaydownConfirmed(Seen(v), k)
      BY <2>1, <2>3, AbsentIsUndrawn
    <3>2. UnconfirmedAbsence(tree, v, k)
      BY <2>2, <3>1 DEF Kept, scheme
    <3> QED
      BY <3>1, <3>2 DEF UnconfirmedAbsence
  <2>7. \A k \in Headroom(Input(v, new)) : ScreenOf[k] \notin Clean(v)
    <3> SUFFICES ASSUME NEW k \in Headroom(Input(v, new)),
                        ScreenOf[k] \in Clean(v)
                 PROVE  FALSE
      OBVIOUS
    <3>1. /\ k \in Entries(new) /\ CountsObserved(tree, k)
          /\ TallyIn(v, scheme, k) < new.count[k]
          /\ TallyIn(v, scheme, k) > 0
      BY <2>1, <2>3, <2>4, <2>6, AbsentIsUndrawn
    <3>2. ~Lowered(tree, v, k)
      BY <2>2, <2>5, <3>1
    <3>3. new.count[k] = tree.count[k]
      BY <2>2, <3>1, <3>2
    <3> QED
      BY <3>1, <3>2, <3>3 DEF Lowered, scheme
  <2>8. Unconfirmed(Input(v, tree)) = {k \in Entries(tree) :
                                         UnconfirmedAbsence(tree, v, k)}
    BY <2>1, AbsentIsUndrawn
  <2>9. Unconfirmed(Input(v, new)) = {k \in Entries(new) :
                                        UnconfirmedAbsence(tree, v, k)}
    <3>1. Unconfirmed(Input(v, new)) = {k \in Entries(new) :
                                          UnconfirmedAbsence(new, v, k)}
      BY <2>1, AbsentIsUndrawn
    <3>2. \A k \in Entries(new) : UnconfirmedAbsence(new, v, k)
                                    <=> UnconfirmedAbsence(tree, v, k)
      BY <2>3 DEF UnconfirmedAbsence, scheme
    <3> QED
      BY <3>1, <3>2
  <2>10. \A k \in Entries(tree) : UnconfirmedAbsence(tree, v, k)
                                    => (k \in Entries(new) <=> ~u)
    BY <2>2 DEF Kept, UnconfirmedAbsence
  <2> QED
    BY <2>2, <2>6, <2>7, <2>8, <2>9, <2>10 DEF new
<1> QED
  BY <1>1, FloorsTyped, PTL

\* A floor that baseline or prune wrote settles the runs it was written from.
THEOREM WrittenFloorHolds == Spec => []WrittenFloorSettles
<1>1. PruneSettles /\ BaselineLeavesNoRoom => WrittenFloorSettles
  BY DEF WrittenFloorSettles
<1> QED
  BY <1>1, PruneAgrees, BaselineIsTight, PTL

-----------------------------------------------------------------------------
(* What a clean screen of a view can be.                                   *)

\* On a screen scanned cleanly a fix is confirmed only when all of the page was
\* there: the signal, the walked element and the drafts all come with it.
LEMMA ConfirmedMeansWhole ==
    ASSUME NEW some, NEW v \in Views(some), NEW k \in Keys,
           standing \subseteq Spots,
           ScreenOf[k] \in Clean(v), PaydownConfirmed(Seen(v), k)
    PROVE  v.mode[ScreenOf[k]] = "whole"
<1>1. v.mode[ScreenOf[k]] \in {"whole", "shell"}
  BY DEF Clean
<1>2. CASE ScreenOf[k] \in Seen(v).signal
  BY <1>2 DEF Seen
<1>3. CASE k \in {x \in Walked : v.mode[ScreenOf[x]] = "whole"}
  BY <1>3
<1>4. CASE k \in {LegacyKey[s] : s \in Drawn(v)}
  BY <1>1, <1>4 DEF Drawn, SpotScreen
<1> QED
  BY <1>2, <1>3, <1>4 DEF PaydownConfirmed, Seen

LEMMA WholeDraws ==
    ASSUME NEW v, NEW s \in standing \ v.missing,
           v.mode[SpotScreen(s)] = "whole"
    PROVE  s \in Drawn(v)
BY DEF Drawn

LEMMA CleanDrawnIsWhole ==
    ASSUME NEW v, NEW s \in Drawn(v), SpotScreen(s) \in Clean(v)
    PROVE  v.mode[SpotScreen(s)] = "whole"
BY DEF Drawn, Clean

\* The entry of a barrier that stands, is always drawn and was not drawn is
\* never taken for fixed.
LEMMA ConfirmedIsGone ==
    ASSUME NEW some, NEW v \in Views(some), NEW floor, NEW k \in Keys,
           standing \subseteq Spots, NEW s \in standing \ some,
           ScreenOf[k] \in Clean(v), KeyOf(IdentityScheme(floor), s) = k,
           TallyIn(v, IdentityScheme(floor), k) = 0
    PROVE  UnconfirmedAbsence(floor, v, k)
<1> SUFFICES ASSUME PaydownConfirmed(Seen(v), k) PROVE FALSE
  BY DEF UnconfirmedAbsence
<1>1. SpotScreen(s) = ScreenOf[k]
  BY SpotKeys
<1>2. v.mode[ScreenOf[k]] = "whole"
  BY ConfirmedMeansWhole
<1>3. s \notin v.missing
  BY ViewFields
<1>4. s \in Drawn(v)
  BY <1>1, <1>2, <1>3, WholeDraws
<1> QED
  BY <1>4, TallyIsDrawn

\* What a baseline carries is on screens that declare no signal.
LEMMA CarriedIsUnsignalled ==
    ASSUME NEW some, NEW v1 \in Views(some), NEW v2 \in Views(some),
           NEW floor \in FloorShape, NEW k \in Carried(floor, v1, v2)
    PROVE  k \in Entries(floor) /\ k \in Keys /\ ScreenOf[k] \notin Signalled
<1>1. k \in Entries(floor) /\ k \in Keys
  BY FloorFields DEF Carried
<1>2. PICK v \in {v1, v2} : UnconfirmedAbsence(floor, v, k)
  BY DEF Carried
<1>3. ScreenOf[k] \in Screens /\ ScreenOf[k] \in Clean(v)
  BY <1>1, <1>2, IdentityAssumption DEF UnconfirmedAbsence
<1>4. /\ v.mode[ScreenOf[k]] \in Modes(ScreenOf[k])
      /\ v.mode[ScreenOf[k]] \in {"whole", "shell"}
  BY <1>3, ViewFields DEF Clean
<1>5. ASSUME ScreenOf[k] \in Signalled PROVE FALSE
  <2>1. v.mode[ScreenOf[k]] = "whole"
    BY <1>4, <1>5 DEF Modes
  <2>2. ScreenOf[k] \in Seen(v).signal
    BY <1>5, <2>1 DEF Seen
  <2> QED
    BY <1>2, <2>2 DEF UnconfirmedAbsence, PaydownConfirmed
<1> QED
  BY <1>1, <1>5

\* Under a floor's own scheme a spot that carries an entry's key is accepted by
\* that entry, and by no other unless its row key was dropped.
LEMMA AtIsKey ==
    ASSUME NEW floor \in FloorShape, OneScheme(floor), NEW S \in SUBSET Spots,
           NEW s \in S, NEW k \in Entries(floor)
    PROVE  /\ KeyOf(IdentityScheme(floor), s) = k => s \in At(floor, S, k)
           /\ s \in At(floor, S, k) => SpotScreen(s) = ScreenOf[k]
           /\ /\ s \in At(floor, S, k)
              /\ Keyed(s) => KeyOf(IdentityScheme(floor), s) \in Entries(floor)
              => KeyOf(IdentityScheme(floor), s) = k
<1>1. s \in Spots /\ k \in Keys /\ floor.version \in Versions
  BY FloorFields
<1>2. IdentityScheme(floor) = "row-scoped" \/
        (IdentityScheme(floor) = "legacy" /\ Entries(floor) \cap RowKeys = {})
  BY <1>1 DEF IdentityScheme, OneScheme, Versions
<1>3. Keyed(s) => RowKey[s] \in RowKeys
  BY <1>1, SpotKeys
<1>4. s \in At(floor, S, k) <=>
        IF RowKey[s] \in Entries(floor) THEN RowKey[s] = k ELSE LegacyKey[s] = k
  BY DEF At
<1>5. KeyOf(IdentityScheme(floor), s) =
        IF IdentityScheme(floor) = "row-scoped" THEN RowKey[s] ELSE LegacyKey[s]
  BY DEF KeyOf
<1>6. ~Keyed(s) <=> RowKey[s] = LegacyKey[s]
  BY DEF Keyed
<1>7. ScreenOf[RowKey[s]] = SpotScreen(s) /\ ScreenOf[LegacyKey[s]] = SpotScreen(s)
  BY <1>1, IdentityAssumption DEF SpotScreen
<1>8. IdentityScheme(floor) = "row-scoped" \/ IdentityScheme(floor) = "legacy"
  BY <1>2
<1>9. CASE IdentityScheme(floor) = "row-scoped"
  BY <1>4, <1>5, <1>6, <1>7, <1>9
<1>10. CASE IdentityScheme(floor) = "legacy"
  <2>1. Entries(floor) \cap RowKeys = {} /\ "legacy" # "row-scoped"
    BY <1>2, <1>10
  <2> QED
    BY <1>3, <1>4, <1>5, <1>6, <1>7, <1>10, <2>1
<1> QED
  BY <1>8, <1>9, <1>10

\* Sets of spots are finite, and a larger one is no smaller in number.
LEMMA SpotCount ==
    ASSUME NEW A, NEW B \in SUBSET Spots, A \subseteq B
    PROVE  /\ Cardinality(A) \in Nat /\ Cardinality(B) \in Nat
           /\ Cardinality(A) <= Cardinality(B)
<1>1. IsFiniteSet(B)
  BY FS_Subset, RatchetAssumption
<1>2. IsFiniteSet(A) /\ Cardinality(A) <= Cardinality(B)
  BY <1>1, FS_Subset
<1> QED
  BY <1>1, <1>2, FS_CardinalityType

-----------------------------------------------------------------------------
(* Prune keeps the tie between counts and accepted barriers.               *)

KeptKeys(floor, v, u) == {k \in Entries(floor) : Kept(floor, v, u, k)}

LowKeys(floor, v, u) == {k \in KeptKeys(floor, v, u) : Lowered(floor, v, k)}

LEMMA PrunedSpots ==
    ASSUME NEW floor, NEW v, NEW u
    PROVE  Pruned(floor, v, u).spots =
              (UNION {At(floor, floor.spots, k)
                        : k \in KeptKeys(floor, v, u) \ LowKeys(floor, v, u)})
                \cup {s \in Drawn(v) :
                        KeyOf(IdentityScheme(floor), s) \in LowKeys(floor, v, u)}
                \cup (IF u THEN {}
                      ELSE StillAccepted(floor,
                                         Entries(floor) \ KeptKeys(floor, v, u)))
BY DEF Pruned, Floor, KeptKeys, LowKeys

LEMMA PrunedKeys ==
    ASSUME standing \subseteq Spots, NEW floor \in FloorShape, NEW v,
           NEW u \in BOOLEAN
    PROVE  LET new == Pruned(floor, v, u) IN
           /\ new \in FloorShape
           /\ Entries(new) = KeptKeys(floor, v, u)
           /\ Entries(new) \subseteq Entries(floor)
           /\ Entries(new) # {} => IdentityScheme(new) = IdentityScheme(floor)
           /\ \A k : CountsObserved(new, k) <=> CountsObserved(floor, k)
           /\ OneScheme(floor) => OneScheme(new)
           /\ \A k \in Entries(new) :
                new.count[k] = IF k \in LowKeys(floor, v, u)
                               THEN TallyIn(v, IdentityScheme(floor), k)
                               ELSE floor.count[k]
<1> DEFINE new == Pruned(floor, v, u)
<1>1. /\ new \in FloorShape
      /\ new.version = floor.version
      /\ Entries(new) = KeptKeys(floor, v, u)
      /\ \A k \in Entries(new) :
           new.count[k] = IF Lowered(floor, v, k)
                          THEN TallyIn(v, IdentityScheme(floor), k)
                          ELSE floor.count[k]
  BY PrunedFields DEF KeptKeys
<1>2. \A k \in Entries(new) : k \in LowKeys(floor, v, u) <=> Lowered(floor, v, k)
  BY <1>1 DEF LowKeys
<1>3. Entries(new) \subseteq Entries(floor)
  BY <1>1 DEF KeptKeys
<1>4. Entries(new) # {} => IdentityScheme(new) = IdentityScheme(floor)
  BY <1>1, <1>3 DEF IdentityScheme
<1>5. \A k : CountsObserved(new, k) <=> CountsObserved(floor, k)
  BY <1>1 DEF CountsObserved
<1>6. OneScheme(floor) => OneScheme(new)
  BY <1>1, <1>3 DEF OneScheme
<1> QED
  BY <1>1, <1>2, <1>3, <1>4, <1>5, <1>6

\* An entry prune keeps has at least the accepted barriers it had, one it
\* lowers has those the scan drew.
LEMMA PrunedSound ==
    ASSUME standing \subseteq Spots, NEW floor \in FloorShape, Sound(floor),
           NEW v, NEW u \in BOOLEAN
    PROVE  Sound(Pruned(floor, v, u))
<1> DEFINE new == Pruned(floor, v, u)
           low == LowKeys(floor, v, u)
           scheme == IdentityScheme(floor)
<1>1. /\ new \in FloorShape /\ Entries(new) = KeptKeys(floor, v, u)
      /\ Entries(new) \subseteq Entries(floor)
      /\ Entries(new) # {} => IdentityScheme(new) = scheme
      /\ \A k : CountsObserved(new, k) <=> CountsObserved(floor, k)
      /\ OneScheme(new)
      /\ \A k \in Entries(new) : new.count[k] = IF k \in low
                                   THEN TallyIn(v, scheme, k) ELSE floor.count[k]
  BY PrunedKeys DEF Sound
<1>2. floor.spots \subseteq Spots /\ new.spots \subseteq Spots
  BY <1>1, FloorFields
<1>3. new.spots =
              (UNION {At(floor, floor.spots, k)
                        : k \in KeptKeys(floor, v, u) \ LowKeys(floor, v, u)})
                \cup {s \in Drawn(v) :
                        KeyOf(IdentityScheme(floor), s) \in LowKeys(floor, v, u)}
                \cup (IF u THEN {}
                      ELSE StillAccepted(floor,
                                         Entries(floor) \ KeptKeys(floor, v, u)))
  BY PrunedSpots
<1> HIDE DEF new
<1>4. ASSUME NEW k \in Entries(new), CountsObserved(new, k)
      PROVE  new.count[k] <= Cardinality(At(new, new.spots, k))
  <2>1. At(new, new.spots, k) \in SUBSET Spots
    BY <1>2 DEF At
  <2>2. CASE k \in low
    <3> DEFINE A == {s \in Drawn(v) : KeyOf(scheme, s) = k}
    <3>1. A \subseteq At(new, new.spots, k)
      <4> SUFFICES ASSUME NEW s \in A PROVE s \in At(new, new.spots, k)
        OBVIOUS
      <4>1. s \in new.spots
        BY <1>3, <2>2
      <4>2. KeyOf(IdentityScheme(new), s) = k
        BY <1>1
      <4> QED
        BY <1>1, <1>2, <4>1, <4>2, AtIsKey
    <3>2. Cardinality(A) <= Cardinality(At(new, new.spots, k))
      BY <2>1, <3>1, SpotCount
    <3>3. new.count[k] = Cardinality(A)
      BY <1>1, <2>2 DEF TallyIn
    <3> QED
      BY <3>2, <3>3
  <2>3. CASE k \notin low
    <3>1. At(floor, floor.spots, k) \subseteq At(new, new.spots, k)
      <4> SUFFICES ASSUME NEW s \in At(floor, floor.spots, k)
                   PROVE  s \in At(new, new.spots, k)
        OBVIOUS
      <4>1. s \in new.spots
        BY <1>1, <1>3, <2>3
      <4> QED
        BY <1>1, <4>1 DEF At
    <3>2. Cardinality(At(floor, floor.spots, k))
            <= Cardinality(At(new, new.spots, k))
      BY <2>1, <3>1, SpotCount
    <3>3. floor.count[k] <= Cardinality(At(floor, floor.spots, k))
      BY <1>1, <1>4 DEF Sound, Covered
    <3>4. /\ Cardinality(At(floor, floor.spots, k)) \in Nat
          /\ Cardinality(At(new, new.spots, k)) \in Nat
      BY <2>1, <3>1, SpotCount
    <3>5. floor.count[k] \in Nat /\ new.count[k] = floor.count[k]
      BY <1>1, <2>3, FloorFields
    <3> QED
      BY <3>2, <3>3, <3>4, <3>5
  <2> QED
    BY <2>2, <2>3
<1> QED
  BY <1>1, <1>4 DEF Sound, Covered, new

\* Where an accepted barrier that is always drawn goes in a prune: to the entry
\* it was accepted under, which is kept.
LEMMA PrunedSpotKeys ==
    ASSUME standing \subseteq Spots, NEW floor \in FloorShape, Sound(floor),
           NEW w, Rooted(w, floor), \A s \in w.flicker : ~Keyed(s),
           NEW v \in Views(w.flicker), NEW u \in BOOLEAN,
           NEW s \in Pruned(floor, v, u).spots \ w.flicker
    PROVE  LET k == KeyOf(IdentityScheme(floor), s) IN
           /\ k \in Entries(Pruned(floor, v, u))
           /\ IF k \in LowKeys(floor, v, u)
              THEN s \in Drawn(v) ELSE s \in At(floor, floor.spots, k)
<1> DEFINE kept == KeptKeys(floor, v, u)
           low == LowKeys(floor, v, u)
           scheme == IdentityScheme(floor)
<1>1. Entries(Pruned(floor, v, u)) = kept /\ low \subseteq kept
  BY PrunedKeys DEF LowKeys
<1>2. floor.spots \subseteq Spots /\ kept \subseteq Entries(floor)
  BY FloorFields DEF KeptKeys
<1>3. ASSUME NEW k \in Entries(floor), s \in At(floor, floor.spots, k)
      PROVE  KeyOf(scheme, s) = k /\ s \in floor.spots
  <2>1. s \in floor.spots
    BY <1>3 DEF At
  <2>2. KeyOf(scheme, s) \in Entries(floor)
    BY <2>1 DEF Rooted
  <2> QED
    BY <1>2, <1>3, <2>1, <2>2, AtIsKey DEF Sound
<1>4. CASE \E k \in kept \ low : s \in At(floor, floor.spots, k)
  <2>1. PICK k \in kept \ low : s \in At(floor, floor.spots, k)
    BY <1>4
  <2>2. KeyOf(scheme, s) = k
    BY <1>2, <1>3, <2>1
  <2> QED
    BY <1>1, <2>1, <2>2
<1>5. CASE s \in Drawn(v) /\ KeyOf(scheme, s) \in low
  BY <1>1, <1>5
<1>6. CASE ~u /\ s \in StillAccepted(floor, Entries(floor) \ kept)
  <2>1. PICK k \in Entries(floor) \ kept :
          s \in standing /\ s \in At(floor, floor.spots, k)
    BY <1>6 DEF StillAccepted
  <2>2. KeyOf(scheme, s) = k
    BY <1>3, <2>1
  <2>3. /\ ScreenOf[k] \in Clean(v) /\ k \in Keys
        /\ TallyIn(v, scheme, k) \in Nat
        /\ ~(TallyIn(v, scheme, k) > 0)
        /\ ~UnconfirmedAbsence(floor, v, k)
    BY <1>6, <2>1, TallyIsDrawn, FloorFields DEF KeptKeys, Kept
  <2> QED
    BY <2>1, <2>2, <2>3, ConfirmedIsGone
<1> QED
  BY <1>4, <1>5, <1>6, PrunedSpots

LEMMA PrunedFaithful ==
    ASSUME standing \subseteq Spots, NEW floor \in FloorShape, Sound(floor),
           NEW w, Faithful(w, floor), \A s \in w.flicker : ~Keyed(s),
           NEW v \in Views(w.flicker), NEW u \in BOOLEAN
    PROVE  Faithful(w, Pruned(floor, v, u))
<1> DEFINE new == Pruned(floor, v, u)
           low == LowKeys(floor, v, u)
           scheme == IdentityScheme(floor)
<1>1. /\ new \in FloorShape
      /\ Entries(new) \subseteq Entries(floor)
      /\ Entries(new) # {} => IdentityScheme(new) = scheme
      /\ \A k : CountsObserved(new, k) <=> CountsObserved(floor, k)
      /\ OneScheme(new)
      /\ \A k \in Entries(new) : new.count[k] = IF k \in low
                                   THEN TallyIn(v, scheme, k) ELSE floor.count[k]
  BY PrunedKeys DEF Sound
<1>2. floor.spots \subseteq Spots /\ new.spots \subseteq Spots
  BY <1>1, FloorFields
<1>3. \A s \in new.spots \ w.flicker :
        /\ KeyOf(scheme, s) \in Entries(new)
        /\ IF KeyOf(scheme, s) \in low
           THEN s \in Drawn(v) ELSE s \in At(floor, floor.spots, KeyOf(scheme, s))
  BY PrunedSpotKeys DEF Faithful
<1> HIDE DEF new
<1>4. Rooted(w, new)
  BY <1>1, <1>3 DEF Rooted
<1>5. ASSUME w.flicker = {}, NEW k \in Entries(new), CountsObserved(new, k)
      PROVE  Cardinality(At(new, new.spots, k)) <= new.count[k]
  <2>1. \A s \in At(new, new.spots, k) :
          /\ KeyOf(scheme, s) = k
          /\ s \in new.spots \ w.flicker
    <3> SUFFICES ASSUME NEW s \in At(new, new.spots, k)
                 PROVE  KeyOf(scheme, s) = k /\ s \in new.spots \ w.flicker
      OBVIOUS
    <3>1. s \in new.spots \ w.flicker
      BY <1>5 DEF At
    <3>2. KeyOf(IdentityScheme(new), s) \in Entries(new)
      BY <1>4, <3>1 DEF Rooted
    <3>3. KeyOf(IdentityScheme(new), s) = k
      BY <1>1, <1>2, <3>1, <3>2, AtIsKey
    <3> QED
      BY <1>1, <3>1, <3>3
  <2>2. CASE k \in low
    <3> DEFINE A == {s \in Drawn(v) : KeyOf(scheme, s) = k}
    <3>1. At(new, new.spots, k) \subseteq A
      BY <1>3, <2>1, <2>2
    <3>2. A \in SUBSET Spots
      BY DEF Drawn
    <3>3. new.count[k] = Cardinality(A)
      BY <1>1, <2>2 DEF TallyIn
    <3> QED
      BY <3>1, <3>2, <3>3, SpotCount
  <2>3. CASE k \notin low
    <3>1. At(new, new.spots, k) \subseteq At(floor, floor.spots, k)
      BY <1>3, <2>1, <2>3
    <3>2. At(floor, floor.spots, k) \in SUBSET Spots
      BY <1>2 DEF At
    <3>3. Cardinality(At(floor, floor.spots, k)) <= floor.count[k]
      BY <1>1, <1>5 DEF Faithful, Tight
    <3>4. /\ Cardinality(At(new, new.spots, k)) \in Nat
          /\ Cardinality(At(floor, floor.spots, k)) \in Nat
          /\ Cardinality(At(new, new.spots, k))
                <= Cardinality(At(floor, floor.spots, k))
      BY <3>1, <3>2, SpotCount
    <3>5. floor.count[k] \in Nat /\ new.count[k] = floor.count[k]
      BY <1>1, <2>3, FloorFields
    <3> QED
      BY <3>3, <3>4, <3>5
  <2> QED
    BY <2>2, <2>3
<1> QED
  BY <1>4, <1>5 DEF Faithful, Tight, new

-----------------------------------------------------------------------------
(* So does a baseline, where keyed rows are on screens with a signal.      *)

LEMMA BaselinedSpots ==
    ASSUME NEW floor, NEW v1, NEW v2, NEW screens
    PROVE  Baselined(floor, v1, v2, screens).spots =
              (UNION {At(floor, floor.spots, k) : k \in Carried(floor, v1, v2)})
                \cup {s \in Drawn(v1) \cup Drawn(v2) :
                        RowKey[s] \in Recorded(floor, v1, v2, screens)}
                \cup StillAccepted(floor,
                        {k \in Entries(floor) \ Carried(floor, v1, v2) :
                            ScreenOf[k] \in screens})
BY DEF Baselined, Floor

LEMMA BaselinedKeys ==
    ASSUME standing \subseteq Spots, NEW floor \in FloorShape, NEW v1, NEW v2,
           NEW screens
    PROVE  LET new == Baselined(floor, v1, v2, screens) IN
           /\ new \in FloorShape
           /\ IdentityScheme(new) = "row-scoped"
           /\ OneScheme(new)
           /\ \A k : CountsObserved(new, k)
           /\ Entries(new) = Carried(floor, v1, v2)
                                \cup Recorded(floor, v1, v2, screens)
           /\ \A k \in Entries(new) :
                new.count[k] = IF k \in Carried(floor, v1, v2)
                               THEN floor.count[k] ELSE InBoth(v1, v2, k)
<1> DEFINE new == Baselined(floor, v1, v2, screens)
<1>1. /\ new \in FloorShape /\ new.version = 3
      /\ Entries(new) = Carried(floor, v1, v2)
                           \cup Recorded(floor, v1, v2, screens)
      /\ \A k \in Entries(new) :
           new.count[k] = IF k \in Carried(floor, v1, v2)
                          THEN floor.count[k] ELSE InBoth(v1, v2, k)
  BY BaselinedFields
<1> HIDE DEF new
<1>2. IdentityScheme(new) = "row-scoped"
  BY <1>1 DEF IdentityScheme
<1>3. OneScheme(new)
  BY <1>1 DEF OneScheme
<1>4. \A k : CountsObserved(new, k)
  BY <1>1 DEF CountsObserved
<1> QED
  BY <1>1, <1>2, <1>3, <1>4 DEF new

\* A barrier accepted under a carried entry has that entry's key as its only
\* one: carried entries are on screens without a signal, keyed rows are not.
LEMMA CarriedHasOneKey ==
    ASSUME KeyedRowsSignalled, NEW some,
           NEW v1 \in Views(some), NEW v2 \in Views(some),
           NEW floor \in FloorShape, OneScheme(floor),
           NEW k \in Carried(floor, v1, v2),
           NEW s \in At(floor, floor.spots, k)
    PROVE  ~Keyed(s) /\ RowKey[s] = k /\ s \in floor.spots
<1>1. /\ k \in Entries(floor) /\ ScreenOf[k] \notin Signalled
      /\ s \in floor.spots /\ floor.spots \subseteq Spots
  BY CarriedIsUnsignalled, FloorFields DEF At
<1>2. SpotScreen(s) = ScreenOf[k]
  BY <1>1, AtIsKey
<1>3. ~Keyed(s)
  BY <1>1, <1>2 DEF KeyedRowsSignalled
<1>4. RowKey[s] = k
  BY <1>3 DEF At, Keyed
<1> QED
  BY <1>1, <1>3, <1>4

LEMMA BaselinedSound ==
    ASSUME KeyedRowsSignalled, standing \subseteq Spots,
           NEW floor \in FloorShape, Sound(floor), NEW some,
           NEW v1 \in Views(some), NEW v2 \in Views(some), NEW screens,
           Placeholders(floor, v1, v2) = {}
    PROVE  Sound(Baselined(floor, v1, v2, screens))
<1> DEFINE new == Baselined(floor, v1, v2, screens)
<1>1. /\ new \in FloorShape
      /\ OneScheme(new)
      /\ Entries(new) = Carried(floor, v1, v2)
                           \cup Recorded(floor, v1, v2, screens)
      /\ \A k \in Entries(new) :
           new.count[k] = IF k \in Carried(floor, v1, v2)
                          THEN floor.count[k] ELSE InBoth(v1, v2, k)
  BY BaselinedKeys
<1>2. new.spots =
         (UNION {At(floor, floor.spots, k) : k \in Carried(floor, v1, v2)})
           \cup {s \in Drawn(v1) \cup Drawn(v2) :
                   RowKey[s] \in Recorded(floor, v1, v2, screens)}
           \cup StillAccepted(floor,
                   {k \in Entries(floor) \ Carried(floor, v1, v2) :
                       ScreenOf[k] \in screens})
  BY DEF Baselined, Floor
<1>3. floor.spots \subseteq Spots /\ new.spots \subseteq Spots
  BY <1>1, FloorFields
<1> HIDE DEF new
<1>4. ASSUME NEW k \in Entries(new)
      PROVE  new.count[k] <= Cardinality(At(new, new.spots, k))
  <2>1. At(new, new.spots, k) \in SUBSET Spots
    BY <1>3 DEF At
  <2>2. CASE k \in Carried(floor, v1, v2)
    <3>1. At(floor, floor.spots, k) \subseteq At(new, new.spots, k)
      <4> SUFFICES ASSUME NEW s \in At(floor, floor.spots, k)
                   PROVE  s \in At(new, new.spots, k)
        OBVIOUS
      <4>1. RowKey[s] = k
        BY <2>2, CarriedHasOneKey DEF Sound
      <4>2. s \in new.spots
        BY <1>2, <2>2
      <4> QED
        BY <4>1, <4>2 DEF At
    <3>2. k \in Entries(floor) /\ CountsObserved(floor, k)
      <4>1. k \in Entries(floor) /\ floor.version \in Versions
        BY <2>2, FloorFields DEF Carried
      <4>2. ~(floor.version = 1 /\ k \notin Counted)
        BY <2>2 DEF Placeholders
      <4> QED
        BY <4>1, <4>2 DEF CountsObserved, Versions
    <3>3. floor.count[k] <= Cardinality(At(floor, floor.spots, k))
      BY <3>2 DEF Sound, Covered
    <3>4. /\ Cardinality(At(floor, floor.spots, k)) \in Nat
          /\ Cardinality(At(new, new.spots, k)) \in Nat
          /\ Cardinality(At(floor, floor.spots, k))
                <= Cardinality(At(new, new.spots, k))
      BY <2>1, <3>1, SpotCount
    <3>5. floor.count[k] \in Nat /\ new.count[k] = floor.count[k]
      BY <1>1, <2>2, <3>2, FloorFields
    <3> QED
      BY <3>3, <3>4, <3>5
  <2>3. CASE k \notin Carried(floor, v1, v2)
    <3> DEFINE A == {s \in Drawn(v1) : KeyOf("row-scoped", s) = k}
    <3>1. k \in Recorded(floor, v1, v2, screens)
      BY <1>1, <2>3
    <3>2. A \subseteq At(new, new.spots, k)
      <4> SUFFICES ASSUME NEW s \in A PROVE s \in At(new, new.spots, k)
        OBVIOUS
      <4>1. s \in Drawn(v1) /\ RowKey[s] = k
        BY DEF KeyOf
      <4>2. s \in new.spots
        BY <1>2, <3>1, <4>1
      <4> QED
        BY <4>1, <4>2 DEF At
    <3>3. /\ Cardinality(A) \in Nat
          /\ Cardinality(At(new, new.spots, k)) \in Nat
          /\ Cardinality(A) <= Cardinality(At(new, new.spots, k))
      BY <2>1, <3>2, SpotCount
    <3>4. InBoth(v1, v2, k) \in Nat /\ InBoth(v1, v2, k) <= Cardinality(A)
      <4>1. TallyIn(v1, "row-scoped", k) = Cardinality(A)
        BY DEF TallyIn
      <4> HIDE DEF A
      <4> QED
        BY <4>1, InBothIsLeast
    <3>5. new.count[k] = InBoth(v1, v2, k)
      BY <1>1, <2>3
    <3> HIDE DEF A
    <3> QED
      BY <3>3, <3>4, <3>5
  <2> QED
    BY <2>2, <2>3
<1> QED
  BY <1>1, <1>4 DEF Sound, Covered, new

\* A screen that both scans call clean, with an accepted barrier on it whose
\* entry is not carried, was seen whole by either scan.
LEMMA UncarriedIsWhole ==
    ASSUME standing \subseteq Spots, NEW floor \in FloorShape,
           NEW some, NEW v1 \in Views(some), NEW v2 \in Views(some),
           NEW v \in {v1, v2}, NEW k \in Entries(floor) \ Carried(floor, v1, v2),
           ScreenOf[k] \in Clean(v)
    PROVE  v.mode[ScreenOf[k]] = "whole"
<1>1. k \in Keys /\ v \in Views(some)
  BY FloorFields
<1>2. ~UnconfirmedAbsence(floor, v, k)
  BY DEF Carried
<1>3. CASE TallyIn(v, IdentityScheme(floor), k) = 0
  BY <1>1, <1>2, <1>3, ConfirmedMeansWhole DEF UnconfirmedAbsence
<1>4. CASE TallyIn(v, IdentityScheme(floor), k) # 0
  <2>1. PICK s \in Drawn(v) : KeyOf(IdentityScheme(floor), s) = k
    BY <1>4, TallyIsDrawn
  <2>2. SpotScreen(s) = ScreenOf[k]
    BY <2>1, SpotKeys DEF Drawn
  <2> QED
    BY <2>2, CleanDrawnIsWhole
<1> QED
  BY <1>3, <1>4

\* Where an accepted barrier that is always drawn goes in a baseline: to the
\* entry that was carried, or to one recorded from what the scans drew.
LEMMA BaselinedSpotKeys ==
    ASSUME KeyedRowsSignalled, standing \subseteq Spots,
           NEW floor \in FloorShape, Sound(floor),
           NEW w, Rooted(w, floor), \A s \in w.flicker : ~Keyed(s),
           NEW v1 \in Views(w.flicker), NEW v2 \in Views(w.flicker),
           NEW s \in Baselined(floor, v1, v2, CleanInBoth(v1, v2)).spots \ w.flicker
    PROVE  \/ /\ RowKey[s] \in Carried(floor, v1, v2)
              /\ s \in At(floor, floor.spots, RowKey[s])
           \/ /\ RowKey[s] \in Recorded(floor, v1, v2, CleanInBoth(v1, v2))
              /\ s \in Drawn(v1) \cup Drawn(v2)
<1> DEFINE carried == Carried(floor, v1, v2)
           recorded == Recorded(floor, v1, v2, CleanInBoth(v1, v2))
           scheme == IdentityScheme(floor)
<1>1. CASE \E k \in carried : s \in At(floor, floor.spots, k)
  BY <1>1, CarriedHasOneKey DEF Sound
<1>2. CASE s \in Drawn(v1) \cup Drawn(v2) /\ RowKey[s] \in recorded
  BY <1>2
<1>3. ASSUME NEW k \in Entries(floor) \ carried,
             ScreenOf[k] \in CleanInBoth(v1, v2),
             s \in standing, s \in At(floor, floor.spots, k)
      PROVE  RowKey[s] \in recorded /\ s \in Drawn(v1)
  <2>1. /\ s \in floor.spots /\ floor.spots \subseteq Spots
        /\ Entries(floor) \subseteq Keys
    BY <1>3, FloorFields DEF At
  <2>2. SpotScreen(s) = ScreenOf[k]
    BY <1>3, <2>1, AtIsKey DEF Sound
  <2>3. ScreenOf[k] \in Clean(v1) /\ ScreenOf[k] \in Clean(v2)
    BY <1>3 DEF CleanInBoth
  <2>4. v1.mode[SpotScreen(s)] = "whole" /\ v2.mode[SpotScreen(s)] = "whole"
    BY <1>3, <2>2, <2>3, UncarriedIsWhole
  <2>5. s \notin v1.missing /\ s \notin v2.missing
    BY ViewFields
  <2>6. s \in Drawn(v1) /\ s \in Drawn(v2)
    BY <1>3, <2>4, <2>5, WholeDraws
  <2>7. KeyOf("row-scoped", s) = RowKey[s]
    BY DEF KeyOf
  <2>8. \A v \in {v1, v2} : TallyIn(v, "row-scoped", RowKey[s]) > 0
    <3> SUFFICES ASSUME NEW v \in {v1, v2}
                 PROVE  TallyIn(v, "row-scoped", RowKey[s]) > 0
      OBVIOUS
    <3>1. /\ TallyIn(v, "row-scoped", RowKey[s]) \in Nat
          /\ TallyIn(v, "row-scoped", RowKey[s]) # 0
      BY <2>6, <2>7, TallyIsDrawn
    <3> QED
      BY <3>1
  <2>9. InBoth(v1, v2, RowKey[s]) > 0
    BY <2>8, InBothIsLeast
  <2>10. RowKey[s] \notin carried
    <3> SUFFICES ASSUME RowKey[s] \in carried PROVE FALSE
      OBVIOUS
    <3>1. PICK v \in {v1, v2} : /\ RowKey[s] \in Entries(floor)
                                /\ UnconfirmedAbsence(floor, v, RowKey[s])
      BY DEF Carried
    <3>2. KeyOf(scheme, s) # RowKey[s]
      BY <2>6, <3>1, TallyIsDrawn DEF UnconfirmedAbsence
    <3>3. scheme # "row-scoped" /\ Keyed(s)
      BY <3>2 DEF KeyOf, Keyed
    <3>4. RowKey[s] \in RowKeys /\ floor.version \in Versions
      BY <2>1, <3>3, SpotKeys, FloorFields
    <3> QED
      BY <3>1, <3>3, <3>4 DEF Sound, OneScheme, IdentityScheme, Versions
  <2>11. RowKey[s] \in Keys /\ ScreenOf[RowKey[s]] \in CleanInBoth(v1, v2)
    BY <1>3, <2>1, <2>2, IdentityAssumption DEF SpotScreen
  <2> QED
    BY <2>6, <2>9, <2>10, <2>11 DEF Recorded
<1>4. CASE s \in StillAccepted(floor, {k \in Entries(floor) \ carried :
                                         ScreenOf[k] \in CleanInBoth(v1, v2)})
  BY <1>3, <1>4 DEF StillAccepted
<1> QED
  BY <1>1, <1>2, <1>4, BaselinedSpots

\* A recorded entry stands for what was there: on a page that always draws what
\* it has both scans drew the same of a screen they both call clean.
LEMMA RecordedWereInBoth ==
    ASSUME standing \subseteq Spots,
           NEW v1 \in Views({}), NEW v2 \in Views({}), NEW floor,
           NEW k \in Recorded(floor, v1, v2, CleanInBoth(v1, v2)),
           NEW s \in Drawn(v1) \cup Drawn(v2), RowKey[s] = k
    PROVE  s \in Drawn(v1) /\ s \in Drawn(v2)
<1>1. k \in Keys /\ ScreenOf[k] \in Clean(v1) /\ ScreenOf[k] \in Clean(v2)
      /\ InBoth(v1, v2, k) > 0
  BY DEF Recorded, CleanInBoth
<1>2. \A v \in {v1, v2} : v.mode[ScreenOf[k]] = "whole"
  <2> SUFFICES ASSUME NEW v \in {v1, v2} PROVE v.mode[ScreenOf[k]] = "whole"
    OBVIOUS
  <2>1. TallyIn(v, "row-scoped", k) \in Nat /\ TallyIn(v, "row-scoped", k) # 0
    BY <1>1, InBothIsLeast, TallyIsDrawn
  <2>2. PICK d \in Drawn(v) : KeyOf("row-scoped", d) = k
    BY <2>1, TallyIsDrawn
  <2>3. SpotScreen(d) = ScreenOf[k]
    BY <2>2, SpotKeys DEF Drawn
  <2> QED
    BY <1>1, <2>3, CleanDrawnIsWhole
<1>3. s \in standing /\ s \in Spots /\ SpotScreen(s) = ScreenOf[k]
  BY IdentityAssumption DEF Drawn, SpotScreen
<1>4. v1.missing = {} /\ v2.missing = {}
  BY ViewFields
<1> QED
  BY <1>2, <1>3, <1>4, WholeDraws

LEMMA BaselinedFaithful ==
    ASSUME KeyedRowsSignalled, standing \subseteq Spots,
           NEW floor \in FloorShape, Sound(floor),
           NEW w, Faithful(w, floor), \A s \in w.flicker : ~Keyed(s),
           NEW v1 \in Views(w.flicker), NEW v2 \in Views(w.flicker),
           Placeholders(floor, v1, v2) = {}
    PROVE  Faithful(w, Baselined(floor, v1, v2, CleanInBoth(v1, v2)))
<1> DEFINE screens == CleanInBoth(v1, v2)
           new == Baselined(floor, v1, v2, screens)
           carried == Carried(floor, v1, v2)
           recorded == Recorded(floor, v1, v2, screens)
<1>1. /\ new \in FloorShape /\ IdentityScheme(new) = "row-scoped"
      /\ OneScheme(new)
      /\ Entries(new) = carried \cup recorded
      /\ \A k \in Entries(new) :
           new.count[k] = IF k \in carried
                          THEN floor.count[k] ELSE InBoth(v1, v2, k)
  BY BaselinedKeys
<1>2. floor.spots \subseteq Spots /\ new.spots \subseteq Spots
  BY <1>1, FloorFields
<1>3. \A s \in new.spots \ w.flicker :
           \/ RowKey[s] \in carried /\ s \in At(floor, floor.spots, RowKey[s])
           \/ RowKey[s] \in recorded /\ s \in Drawn(v1) \cup Drawn(v2)
  BY BaselinedSpotKeys DEF Faithful
<1>4. recorded \cap carried = {}
  BY DEF Recorded
<1> HIDE DEF new, carried, recorded, screens
<1>5. \A s : KeyOf(IdentityScheme(new), s) = RowKey[s]
  BY <1>1 DEF KeyOf
<1>6. Rooted(w, new)
  BY <1>1, <1>3, <1>5 DEF Rooted
<1>7. ASSUME w.flicker = {}, NEW k \in Entries(new)
      PROVE  Cardinality(At(new, new.spots, k)) <= new.count[k]
  <2>1. \A s \in At(new, new.spots, k) :
          RowKey[s] = k /\ s \in new.spots \ w.flicker
    <3> SUFFICES ASSUME NEW s \in At(new, new.spots, k)
                 PROVE  RowKey[s] = k /\ s \in new.spots \ w.flicker
      OBVIOUS
    <3>1. s \in new.spots \ w.flicker
      BY <1>7 DEF At
    <3>2. KeyOf(IdentityScheme(new), s) \in Entries(new)
      BY <1>6, <3>1 DEF Rooted
    <3> QED
      BY <1>1, <1>2, <1>5, <3>1, <3>2, AtIsKey
  <2>2. CASE k \in carried
    <3>1. At(new, new.spots, k) \subseteq At(floor, floor.spots, k)
      BY <1>3, <1>4, <2>1, <2>2
    <3>2. At(floor, floor.spots, k) \in SUBSET Spots
      BY <1>2 DEF At
    <3>3. k \in Entries(floor) /\ CountsObserved(floor, k)
      <4>1. k \in Entries(floor) /\ floor.version \in Versions
        BY <2>2, FloorFields DEF Carried, carried
      <4>2. ~(floor.version = 1 /\ k \notin Counted)
        BY <2>2 DEF Placeholders, carried
      <4> QED
        BY <4>1, <4>2 DEF CountsObserved, Versions
    <3>4. Cardinality(At(floor, floor.spots, k)) <= floor.count[k]
      BY <1>7, <3>3 DEF Faithful, Tight
    <3>5. /\ Cardinality(At(new, new.spots, k)) \in Nat
          /\ Cardinality(At(floor, floor.spots, k)) \in Nat
          /\ Cardinality(At(new, new.spots, k))
                <= Cardinality(At(floor, floor.spots, k))
      BY <3>1, <3>2, SpotCount
    <3>6. floor.count[k] \in Nat /\ new.count[k] = floor.count[k]
      BY <1>1, <2>2, <3>3, FloorFields
    <3> QED
      BY <3>4, <3>5, <3>6
  <2>3. CASE k \notin carried
    <3>1. k \in recorded
      BY <1>1, <2>3
    <3>2. \A s \in At(new, new.spots, k) : s \in Drawn(v1) /\ s \in Drawn(v2)
      <4> SUFFICES ASSUME NEW s \in At(new, new.spots, k)
                   PROVE  s \in Drawn(v1) /\ s \in Drawn(v2)
        OBVIOUS
      <4>1. RowKey[s] = k /\ s \in Drawn(v1) \cup Drawn(v2)
        BY <1>3, <2>1, <2>3
      <4>2. v1 \in Views({}) /\ v2 \in Views({})
        BY <1>7
      <4> QED
        BY <3>1, <4>1, <4>2, RecordedWereInBoth DEF recorded, screens
    <3>3. \A v \in {v1, v2} : /\ Cardinality(At(new, new.spots, k)) \in Nat
                              /\ Cardinality(At(new, new.spots, k))
                                    <= TallyIn(v, "row-scoped", k)
      <4> SUFFICES ASSUME NEW v \in {v1, v2}
                   PROVE  /\ Cardinality(At(new, new.spots, k)) \in Nat
                          /\ Cardinality(At(new, new.spots, k))
                                <= TallyIn(v, "row-scoped", k)
        OBVIOUS
      <4> DEFINE A == {s \in Drawn(v) : KeyOf("row-scoped", s) = k}
      <4>1. At(new, new.spots, k) \subseteq A
        BY <2>1, <3>2 DEF KeyOf
      <4>2. A \in SUBSET Spots
        BY DEF Drawn
      <4>3. TallyIn(v, "row-scoped", k) = Cardinality(A)
        BY DEF TallyIn
      <4> HIDE DEF A
      <4> QED
        BY <4>1, <4>2, <4>3, SpotCount
    <3>4. new.count[k] = InBoth(v1, v2, k)
      BY <1>1, <2>3
    <3> QED
      BY <3>3, <3>4, InBothIsLeast
  <2> QED
    BY <2>2, <2>3
<1> QED
  BY <1>6, <1>7 DEF Faithful, Tight, new, screens

-----------------------------------------------------------------------------
(* The invariants.                                                         *)

\* A floor that was just written accepts what stood.
LEMMA StartFaithful ==
    ASSUME NEW version \in Versions, NEW spots \in SUBSET Spots, NEW w
    PROVE  Sound(StartFloor(version, spots)) /\ Faithful(w, StartFloor(version, spots))
<1> DEFINE new == StartFloor(version, spots)
           scheme == IF version = 3 THEN "row-scoped" ELSE "legacy"
<1>1. /\ new \in FloorShape /\ new.version = version /\ new.spots = spots
      /\ Entries(new) = {KeyOf(scheme, s) : s \in spots}
      /\ \A k \in Entries(new) :
           new.count[k] = IF version = 1 /\ k \notin Counted THEN 1
               ELSE Cardinality({s \in spots : KeyOf(scheme, s) = k})
  BY StartFields
<1> HIDE DEF new
<1>2. OneScheme(new)
  <2> SUFFICES ASSUME version < 3, NEW s \in spots
               PROVE  KeyOf(scheme, s) \notin RowKeys
    BY <1>1 DEF OneScheme
  <2>1. scheme # "row-scoped"
    OBVIOUS
  <2> QED
    BY <2>1, IdentityAssumption DEF KeyOf
<1>3. Entries(new) # {} => IdentityScheme(new) = scheme
  BY <1>1 DEF IdentityScheme, Versions
<1>4. Rooted(w, new)
  BY <1>1, <1>3 DEF Rooted
<1>5. ASSUME NEW k \in Entries(new), CountsObserved(new, k)
      PROVE  /\ new.count[k] \in Nat
             /\ new.count[k] = Cardinality(At(new, new.spots, k))
  <2>1. IdentityScheme(new) = scheme
    BY <1>3
  <2>2. At(new, new.spots, k) = {s \in spots : KeyOf(scheme, s) = k}
    <3>1. ASSUME NEW s \in spots
          PROVE  s \in At(new, new.spots, k) <=> KeyOf(scheme, s) = k
      BY <1>1, <1>2, <2>1, AtIsKey
    <3>2. At(new, new.spots, k) \subseteq spots
      BY <1>1 DEF At
    <3> QED
      BY <3>1, <3>2
  <2>3. ~(version = 1 /\ k \notin Counted)
    BY <1>1, <1>5 DEF CountsObserved
  <2>4. new.count[k] \in Nat
    BY <1>1, FloorFields
  <2> QED
    BY <1>1, <2>2, <2>3, <2>4
<1> QED
  BY <1>2, <1>4, <1>5 DEF Sound, Covered, Faithful, Tight, new

\* The baselines of either kind speak for the screens both scans call clean.
LEMMA BaselineScreens ==
    ASSUME NEW some, NEW v1 \in FullViews(some), NEW v2 \in FullViews(some),
           Baseline(v1, v2) \/ PartialBaseline(v1, v2)
    PROVE  BaselineWrites(v1, v2, CleanInBoth(v1, v2))
<1>1. CASE Baseline(v1, v2)
  <2>1. \A v \in {v1, v2} : Clean(v) = Screens
    <3> SUFFICES ASSUME NEW v \in {v1, v2} PROVE Clean(v) = Screens
      OBVIOUS
    <3>1. v \in FullViews(some) /\ ~Incomplete(v)
      BY <1>1 DEF Baseline
    <3>2. Scanned(v) = Screens
      BY <3>1 DEF FullViews, Scanned
    <3> QED
      BY <3>1, <3>2 DEF Incomplete, Clean
  <2>2. CleanInBoth(v1, v2) = Screens
    BY <2>1 DEF CleanInBoth
  <2> QED
    BY <1>1, <2>2 DEF Baseline
<1>2. CASE PartialBaseline(v1, v2)
  BY <1>2 DEF PartialBaseline
<1> QED
  BY <1>1, <1>2

\* Every step leaves in the working tree and at the trusted ref a floor that
\* was there, or what prune or baseline made of the one in the working tree.
LEMMA FloorsOfNext ==
    ASSUME Shapes, [Next]_vars
    PROVE  /\ world' = world
           /\ committed' \in {tree, committed}
           /\ \/ tree' \in {tree, committed}
              \/ \E v \in FullViews(world.flicker), u \in BOOLEAN :
                    tree' = Pruned(tree, v, u)
              \/ \E v1, v2 \in FullViews(world.flicker) :
                    /\ Placeholders(tree, v1, v2) = {}
                    /\ tree' = Baselined(tree, v1, v2, CleanInBoth(v1, v2))
<1>1. ASSUME NEW s \in world.spots, Introduce(s) \/ Fix(s)
      PROVE  world' = world /\ tree' = tree /\ committed' = committed
  BY <1>1 DEF Introduce, Fix
<1>2. CASE EditPolicy \/ Merge \/ Discard
  BY <1>2 DEF EditPolicy, Merge, Discard
<1>3. ASSUME NEW v \in FullViews(world.flicker), NEW u \in BOOLEAN,
             FloorPrune(v, u)
      PROVE  world' = world /\ committed' = committed /\ tree' = Pruned(tree, v, u)
  BY <1>3 DEF FloorPrune
<1>4. ASSUME NEW v1 \in FullViews(world.flicker),
             NEW v2 \in FullViews(world.flicker),
             Baseline(v1, v2) \/ PartialBaseline(v1, v2)
      PROVE  /\ world' = world /\ committed' = committed
             /\ Placeholders(tree, v1, v2) = {}
             /\ tree' = Baselined(tree, v1, v2, CleanInBoth(v1, v2))
  BY <1>4, BaselineScreens DEF BaselineWrites
<1>5. CASE UNCHANGED vars
  BY <1>5 DEF vars
<1> QED
  BY <1>1, <1>2, <1>3, <1>4, <1>5 DEF Next

LEMMA InitFloors == Init => FloorInv
<1> SUFFICES ASSUME Init PROVE FloorInv
  OBVIOUS
<1>1. Shapes
  BY InitShapes
<1>2. PICK version \in world.versions : tree = StartFloor(version, standing)
  BY DEF Init
<1>3. version \in Versions /\ standing \in SUBSET Spots
  BY <1>1, <1>2, WorldFields DEF Shapes
<1>4. Sound(tree) /\ Faithful(world, tree)
  BY <1>2, <1>3, StartFaithful
<1> QED
  BY <1>1, <1>4 DEF Init, FloorInv, SoundInv

LEMMA NextSound ==
    ASSUME KeyedRowsSignalled
    PROVE  SoundInv /\ [Next]_vars => SoundInv'
<1> SUFFICES ASSUME SoundInv, [Next]_vars PROVE SoundInv'
  OBVIOUS
<1>1. Shapes /\ Sound(tree) /\ Sound(committed)
  BY DEF SoundInv
<1>2. Shapes'
  BY <1>1, NextShapes
<1>3. standing \subseteq Spots /\ tree \in FloorShape
  BY <1>1 DEF Shapes
<1>4. Sound(committed')
  BY <1>1, FloorsOfNext
<1>5. Sound(tree')
  <2>1. CASE tree' \in {tree, committed}
    BY <1>1, <2>1
  <2>2. ASSUME NEW v \in FullViews(world.flicker), NEW u \in BOOLEAN,
               tree' = Pruned(tree, v, u)
        PROVE  Sound(tree')
    BY <1>1, <1>3, <2>2, PrunedSound
  <2>3. ASSUME NEW v1 \in FullViews(world.flicker),
               NEW v2 \in FullViews(world.flicker),
               Placeholders(tree, v1, v2) = {},
               tree' = Baselined(tree, v1, v2, CleanInBoth(v1, v2))
        PROVE  Sound(tree')
    BY <1>1, <1>3, <2>3, FullIsView, BaselinedSound
  <2> QED
    BY <1>1, <2>1, <2>2, <2>3, FloorsOfNext
<1>6. Sound(tree)' <=> Sound(tree')
  BY DEF Sound, OneScheme, Covered, At, CountsObserved, Entries
<1>7. Sound(committed)' <=> Sound(committed')
  BY DEF Sound, OneScheme, Covered, At, CountsObserved, Entries
<1> QED
  BY <1>2, <1>4, <1>5, <1>6, <1>7 DEF SoundInv

LEMMA NextFloors ==
    ASSUME KeyedRowsSignalled, KeyedRowsStill
    PROVE  FloorInv /\ [Next]_vars => FloorInv'
<1> SUFFICES ASSUME FloorInv, [Next]_vars PROVE FloorInv'
  OBVIOUS
<1>1. /\ Shapes /\ Sound(tree) /\ Sound(committed) /\ SoundInv
      /\ Faithful(world, tree) /\ Faithful(world, committed)
  BY DEF FloorInv, SoundInv
<1>2. SoundInv'
  BY <1>1, NextSound
<1>3. /\ standing \subseteq Spots /\ tree \in FloorShape
      /\ \A s \in world.flicker : ~Keyed(s)
  BY <1>1 DEF Shapes, KeyedRowsStill
<1>4. Faithful(world, committed')
  BY <1>1, FloorsOfNext
<1>5. Faithful(world, tree')
  <2>1. CASE tree' \in {tree, committed}
    BY <1>1, <2>1
  <2>2. ASSUME NEW v \in FullViews(world.flicker), NEW u \in BOOLEAN,
               tree' = Pruned(tree, v, u)
        PROVE  Faithful(world, tree')
    BY <1>1, <1>3, <2>2, FullIsView, PrunedFaithful
  <2>3. ASSUME NEW v1 \in FullViews(world.flicker),
               NEW v2 \in FullViews(world.flicker),
               Placeholders(tree, v1, v2) = {},
               tree' = Baselined(tree, v1, v2, CleanInBoth(v1, v2))
        PROVE  Faithful(world, tree')
    BY <1>1, <1>3, <2>3, FullIsView, BaselinedFaithful
  <2> QED
    BY <1>1, <2>1, <2>2, <2>3, FloorsOfNext
<1>6. world' = world
  BY <1>1, FloorsOfNext
<1> QED
  BY <1>2, <1>4, <1>5, <1>6 DEF FloorInv

\* No entry of a floor ever accepts more barriers than a person accepted under
\* its key, whatever baseline and prune make of it.
THEOREM FloorSoundness ==
    ASSUME KeyedRowsSignalled
    PROVE  Spec => []SoundInv
<1>1. Init => SoundInv
  BY InitFloors DEF FloorInv
<1>2. SoundInv /\ [Next]_vars => SoundInv'
  BY NextSound
<1> QED
  BY <1>1, <1>2, PTL DEF Spec

\* Nor fewer, where everything is always drawn, and no barrier that stands and
\* is always drawn loses its entry.
THEOREM FloorInvariance ==
    ASSUME KeyedRowsSignalled, KeyedRowsStill
    PROVE  Spec => []FloorInv
<1>1. FloorInv /\ [Next]_vars => FloorInv'
  BY NextFloors
<1> QED
  BY <1>1, InitFloors, PTL DEF Spec

-----------------------------------------------------------------------------
(* What the invariants say of runs.                                        *)

\* Debt does not grow behind a green (gate/index.ts, floor/prune.ts,
\* baseline/index.ts): a run that sees the whole application and is verified
\* finds no more barriers under an identity than a person accepted there.
THEOREM AcceptedDebtBoundsGreen ==
    ASSUME KeyedRowsSignalled
    PROVE  Spec => []DebtIsAccepted
<1>1. SoundInv => DebtIsAccepted
  <2> SUFFICES ASSUME SoundInv, NEW v \in Views(world.flicker), Whole(v),
                      AccessibilityVerdict(TrustedRun(v)) = "verified",
                      NEW k \in Keys
               PROVE  Cardinality({s \in standing : RowKey[s] = k})
                        <= Cardinality(At(committed, committed.spots, k))
    BY DEF DebtIsAccepted
  <2> DEFINE scheme == IdentityScheme(committed)
             A == {s \in standing : RowKey[s] = k}
  <2>1. /\ standing \subseteq Spots /\ committed \in FloorShape
        /\ Sound(committed)
    BY DEF SoundInv, Shapes
  <2>2. /\ committed.version \in Versions /\ committed.spots \subseteq Spots
        /\ Entries(committed) \subseteq Keys
        /\ committed.count \in [Entries(committed) -> Nat]
    BY <2>1, FloorFields
  <2>3. Drawn(v) = standing
    <3>1. \A s \in standing : v.mode[SpotScreen(s)] = "whole"
      BY <2>1, SpotKeys DEF Whole
    <3> QED
      BY <3>1 DEF Whole, Drawn
  <2>4. Blocking(TrustedRun(v)) = {} /\ ~FloorGap(TrustedRun(v))
    BY VerifiedIsClean
  <2>5. \A s \in standing :
          /\ KeyOf(scheme, s) \in Entries(committed)
          /\ ~(/\ CountsObserved(committed, KeyOf(scheme, s))
               /\ TallyIn(v, scheme, KeyOf(scheme, s))
                    > committed.count[KeyOf(scheme, s)])
    BY <2>1, <2>3, <2>4, BlockingIsDrawn DEF TrustedRun
  <2>6. ~StaleFloorGap(committed) /\ ~RowKeyFloorGap(committed, Drafts(v))
    BY <2>4, InputFields DEF FloorGap, TrustedRun
  <2>7. /\ Cardinality(A) \in Nat
        /\ Cardinality(At(committed, committed.spots, k)) \in Nat
    BY <2>1, <2>2, SpotCount DEF At
  <2>8. CASE A = {}
    <3>1. Cardinality(A) = 0
      BY <2>8, FS_EmptySet
    <3> QED
      BY <2>7, <3>1
  <2>9. CASE A # {}
    <3>1. PICK s \in standing : RowKey[s] = k
      BY <2>9
    <3>2. scheme = "row-scoped" \/ \A d \in standing : ~Keyed(d)
      <4> SUFFICES ASSUME scheme # "row-scoped", NEW d \in standing, Keyed(d)
                   PROVE  FALSE
        OBVIOUS
      <4> DEFINE draft == [spot |-> d, class |-> "deterministic",
                           confidence |-> ConfidenceOf[d]]
      <4>1. scheme = "legacy"
        BY DEF IdentityScheme
      <4>2. draft \in Deterministic(Drafts(v)) /\ draft.spot = d
        BY <2>3 DEF Drafts, Deterministic
      <4>3. /\ KeyOf(scheme, d) \in Entries(committed)
            /\ ScreenOf[KeyOf(scheme, d)] = SpotScreen(d)
        BY <2>1, <2>5, SpotKeys
      <4>4. RowKeyFloorGap(committed, Drafts(v))
        BY <4>1, <4>2, <4>3 DEF RowKeyFloorGap
      <4> QED
        BY <2>6, <4>4
    <3>3. \A d \in standing : KeyOf(scheme, d) = RowKey[d]
      BY <3>2 DEF KeyOf, Keyed
    <3>4. k \in Entries(committed)
      BY <2>5, <3>1, <3>3
    <3>5. CountsObserved(committed, k)
      BY <2>2, <2>6, <3>4 DEF StaleFloorGap, CountsObserved, Versions
    <3>6. TallyIn(v, scheme, k) = Cardinality(A)
      <4>1. {d \in Drawn(v) : KeyOf(scheme, d) = k} = A
        BY <2>3, <3>3
      <4> QED
        BY <4>1 DEF TallyIn
    <3>7. ~(TallyIn(v, scheme, k) > committed.count[k])
      BY <2>5, <3>1, <3>3, <3>5
    <3>8. committed.count[k] <= Cardinality(At(committed, committed.spots, k))
      BY <2>1, <3>4, <3>5 DEF Sound, Covered
    <3>9. committed.count[k] \in Nat
      BY <2>2, <3>4
    <3> HIDE DEF A, scheme
    <3>10. Cardinality(A) <= Cardinality(At(committed, committed.spots, k))
      BY <2>7, <3>6, <3>7, <3>8, <3>9
    <3> QED
      BY <3>10 DEF A
  <2> QED
    BY <2>8, <2>9
<1> QED
  BY <1>1, FloorSoundness, PTL

\* Accepted debt that nobody touched never blocks, on a page that always draws
\* what it has (gate/index.ts): whatever was pruned, baselined, carried or
\* merged, and however much of the page the run in CI reaches.
THEOREM AcceptedDebtPasses ==
    ASSUME KeyedRowsSignalled, KeyedRowsStill
    PROVE  Spec => []AcceptedNeverBlocks
<1>1. FloorInv => AcceptedNeverBlocks
  <2> SUFFICES ASSUME FloorInv, world.flicker = {},
                      standing \subseteq committed.spots, NEW v \in Views({}),
                      NEW k \in Blocking(TrustedRun(v))
               PROVE  FALSE
    BY DEF AcceptedNeverBlocks
  <2> DEFINE scheme == IdentityScheme(committed)
             A == {s \in Drawn(v) : KeyOf(scheme, s) = k}
  <2>1. /\ standing \subseteq Spots /\ committed \in FloorShape
        /\ Sound(committed) /\ Faithful(world, committed)
    BY DEF FloorInv, SoundInv, Shapes
  <2>2. committed.spots \subseteq Spots
    BY <2>1, FloorFields
  <2>3. PICK s \in Drawn(v) :
          /\ KeyOf(scheme, s) = k
          /\ k \in Entries(committed)
               => /\ CountsObserved(committed, k)
                  /\ TallyIn(v, scheme, k) > committed.count[k]
    BY <2>1, BlockingIsDrawn DEF TrustedRun
  <2>4. Drawn(v) \subseteq committed.spots
    BY DEF Drawn
  <2>5. k \in Entries(committed)
    BY <2>1, <2>3, <2>4 DEF Faithful, Rooted
  <2>6. A \subseteq At(committed, committed.spots, k)
    BY <2>1, <2>2, <2>4, <2>5, AtIsKey DEF Sound
  <2>7. At(committed, committed.spots, k) \in SUBSET Spots
    BY <2>2 DEF At
  <2>8. /\ Cardinality(A) \in Nat
        /\ Cardinality(At(committed, committed.spots, k)) \in Nat
        /\ Cardinality(A) <= Cardinality(At(committed, committed.spots, k))
    BY <2>6, <2>7, SpotCount
  <2>9. Cardinality(At(committed, committed.spots, k)) <= committed.count[k]
    BY <2>1, <2>3, <2>5 DEF Faithful, Tight
  <2>10. committed.count[k] \in Nat
    BY <2>1, <2>5, FloorFields
  <2>11. TallyIn(v, scheme, k) = Cardinality(A)
    BY DEF TallyIn
  <2> HIDE DEF A, scheme
  <2> QED
    BY <2>3, <2>5, <2>8, <2>9, <2>10, <2>11
<1> QED
  BY <1>1, FloorInvariance, PTL

\* A barrier called fixed is gone (paydownConfirmed in gate/index.ts), also
\* when content that would have held it failed to mount.
THEOREM FixedIsGone ==
    ASSUME KeyedRowsSignalled, KeyedRowsStill
    PROVE  Spec => []FixedMeansGone
<1>1. FloorInv => FixedMeansGone
  <2> SUFFICES ASSUME FloorInv, NEW v \in Views({}),
                      NEW k \in Fixed(TrustedRun(v)),
                      NEW s \in At(committed, standing \cap committed.spots, k)
               PROVE  FALSE
    BY DEF FixedMeansGone
  <2>1. /\ standing \subseteq Spots /\ committed \in FloorShape
        /\ world \in Worlds
        /\ Sound(committed) /\ Faithful(world, committed)
    BY DEF FloorInv, SoundInv, Shapes
  <2>2. /\ k \in Entries(committed) /\ ScreenOf[k] \in Clean(v)
        /\ TallyIn(v, IdentityScheme(committed), k) = 0
        /\ PaydownConfirmed(Seen(v), k)
    BY <2>1, AbsentIsUndrawn DEF TrustedRun
  <2>3. s \in standing /\ s \in committed.spots /\ k \in Keys
    BY <2>1, <2>2, FloorFields DEF At
  <2>4. Keyed(s) => KeyOf(IdentityScheme(committed), s) \in Entries(committed)
    BY <2>1, <2>3 DEF KeyedRowsStill, Faithful, Rooted
  <2>5. KeyOf(IdentityScheme(committed), s) = k
    BY <2>1, <2>2, <2>3, <2>4, AtIsKey DEF Sound
  <2>6. UnconfirmedAbsence(committed, v, k)
    BY <2>1, <2>2, <2>3, <2>5, ConfirmedIsGone
  <2> QED
    BY <2>2, <2>6 DEF UnconfirmedAbsence
<1> QED
  BY <1>1, FloorInvariance, PTL
=============================================================================
